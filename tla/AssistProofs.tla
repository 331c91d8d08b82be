----------------------------- MODULE AssistProofs -----------------------------
(***************************************************************************)
(* Proofs about Assist: its type invariant, and that a row says deleted    *)
(* only of a session that is gone, for any number of requests, failed      *)
(* calls and dead processes.                                               *)
(***************************************************************************)
EXTENDS Assist, TLAPS

\* The sets TypeOK is made of.
Steps == Over \cup {"reserve", "create", "record", "talk", "stop", "bill", "delete", "mark"}
Calls == [at : Steps, sid : BOOLEAN, gone : BOOLEAN]
Stages == {"rest", "workspace", "probe", "unprobe", "list", "delete", "mark",
           "interrupt", "orphans", "scrap", "abandon", "check"}
Passes == [at : Stages, todo : SUBSET Session, known : SUBSET Session, sid : SUBSET Session]
Left == [faults : Nat, crashes : Nat]
States == {"none", "idle", "running", "gone"}
RowStates == {"none", "created", "pending", "deleted"}
SpendStates == {"none", "open", "finished", "abandoned"}
Sources == {"startup", "workspace", "delete_canary", "sweeper", "store"}
-----------------------------------------------------------------------------
(* What the calls to the provider and the store keep.                      *)

LEMMA FaultType == TypeOK /\ Fault => left' \in Left
BY DEF TypeOK, Fault, Left

LEMMA OpenType ==
    ASSUME TypeOK, NEW s \in Session, NEW told \in BOOLEAN, Open(s, told)
    PROVE  session' \in [Session -> States] /\ left' \in Left
<1>1. session' \in [Session -> States]
  BY DEF TypeOK, Open, States
<1>2. left' \in Left
  BY FaultType DEF TypeOK, Open, Left
<1> QED
  BY <1>1, <1>2

LEMMA DeleteType ==
    ASSUME TypeOK, NEW s \in Session, NEW ok \in BOOLEAN, Delete(s, ok)
    PROVE  session' \in [Session -> States] /\ left' \in Left
<1>1. session' \in [Session -> States]
  BY DEF TypeOK, Delete, States
<1>2. left' \in Left
  BY FaultType DEF TypeOK, Delete, Left
<1> QED
  BY <1>1, <1>2

LEMMA InterruptType ==
    ASSUME TypeOK, NEW s \in Session, Interrupt(s)
    PROVE  session' \in [Session -> States] /\ left' \in Left
<1>1. session' \in [Session -> States]
  BY DEF TypeOK, Interrupt, States
<1>2. left' \in Left
  BY FaultType DEF TypeOK, Interrupt, Left
<1> QED
  BY <1>1, <1>2

LEMMA MarkedType ==
    ASSUME TypeOK, NEW s \in Session, NEW ok \in BOOLEAN
    PROVE  Marked(s, ok) \in [Session -> RowStates]
BY DEF TypeOK, Marked, RowStates

LEMMA RowsType ==
    ASSUME TypeOK, NEW after \in [Session -> RowStates], NEW ok \in BOOLEAN, Store(rows, after, ok)
    PROVE  rows' \in [Session -> RowStates] /\ left' \in Left
<1>1. rows' \in [Session -> RowStates]
  BY DEF TypeOK, Store, RowStates
<1>2. left' \in Left
  BY FaultType DEF TypeOK, Store, Left
<1> QED
  BY <1>1, <1>2

LEMMA SpendType ==
    ASSUME TypeOK, NEW after \in [Call -> SpendStates], NEW ok \in BOOLEAN, Store(spend, after, ok)
    PROVE  spend' \in [Call -> SpendStates] /\ left' \in Left
<1>1. spend' \in [Call -> SpendStates]
  BY DEF TypeOK, Store, SpendStates
<1>2. left' \in Left
  BY FaultType DEF TypeOK, Store, Left
<1> QED
  BY <1>1, <1>2

LEMMA MoveType ==
    ASSUME TypeOK, NEW w \in Sweeper, NEW step \in Stages, Move(w, step)
    PROVE  sweep' \in [Sweeper -> Passes]
<1>1. sweep \in [Sweeper -> Passes]
  BY DEF TypeOK, Passes, Stages
<1>2. [sweep[w] EXCEPT !.at = step] \in Passes
  BY <1>1 DEF Passes
<1> QED
  BY <1>1, <1>2 DEF Move

LEMMA RestingType == Resting \in Passes /\ \A step \in Stages : [Resting EXCEPT !.at = step] \in Passes
BY DEF Resting, Passes, Stages

LEMMA BrokenType ==
    ASSUME TypeOK, NEW w \in Sweeper, Broken(w)
    PROVE  sweep' \in [Sweeper -> Passes] /\ pauses' \subseteq Sources
<1>1. sweep' \in [Sweeper -> Passes]
  <2>1. (IF w = "engine" THEN "check" ELSE "rest") \in Stages
    BY DEF Stages
  <2> QED
    BY <2>1, RestingType DEF TypeOK, Broken, Passes, Stages
<1>2. pauses' \subseteq Sources
  BY DEF TypeOK, Broken, Pausing, Sources
<1> QED
  BY <1>1, <1>2

LEMMA GoType ==
    ASSUME TypeOK, NEW c \in Call, NEW step \in Steps, Go(c, step)
    PROVE  call' \in [Call -> Calls]
<1>1. call \in [Call -> Calls]
  BY DEF TypeOK, Calls, Steps
<1>2. [call[c] EXCEPT !.at = step] \in Calls
  BY <1>1 DEF Calls
<1> QED
  BY <1>1, <1>2 DEF Go
-----------------------------------------------------------------------------
(* Every step keeps the types.                                             *)

\* TypeOK by its parts.
Types ==
    /\ up \in BOOLEAN /\ passed \subseteq {"workspace", "canary"} /\ pauses \subseteq Sources
    /\ call \in [Call -> Calls]
    /\ session \in [Session -> States] /\ age \in [Session -> Old]
    /\ rows \in [Session -> RowStates] /\ spend \in [Call -> SpendStates]
    /\ sweep \in [Sweeper -> Passes] /\ left \in Left

LEMMA SameTypes == (Types <=> TypeOK) /\ (Types' <=> TypeOK')
BY DEF Types, TypeOK, Sources, Calls, Steps, States, RowStates, SpendStates, Passes, Stages, Left

LEMMA CallTypes ==
    ASSUME TypeOK, NEW c \in Call, Admit(c) \/ (up /\ Say(c)) \/ Answer(c)
    PROVE  TypeOK'
<1> c \in Session
  BY DEF Session
<1> SUFFICES Types'
  BY SameTypes
<1> USE SameTypes DEF Types, engine, remote
<1>1. CASE Admit(c)
  BY <1>1, GoType DEF Admit, Steps
<1>2. CASE Reserve(c)
  <2>1. CASE Go(c, "done") /\ UNCHANGED <<spend, left>>
    BY <1>2, <2>1, GoType DEF Reserve, Steps, Over
  <2>2. ASSUME NEW ok \in BOOLEAN, Store(spend, [spend EXCEPT ![c] = "open"], ok),
               Go(c, IF ok THEN "create" ELSE "done")
        PROVE  Types'
    <3>1. [spend EXCEPT ![c] = "open"] \in [Call -> SpendStates]
      BY DEF SpendStates
    <3>2. spend' \in [Call -> SpendStates] /\ left' \in Left
      BY <2>2, <3>1, SpendType
    <3>3. (IF ok THEN "create" ELSE "done") \in Steps
      BY DEF Steps, Over
    <3>4. call' \in [Call -> Calls]
      BY <2>2, <3>3, GoType
    <3> QED
      BY <1>2, <3>2, <3>4 DEF Reserve
  <2> QED
    BY <1>2, <2>1, <2>2 DEF Reserve
<1>3. CASE Create(c)
  <2>1. PICK told \in BOOLEAN :
          /\ Open(c, told)
          /\ call' = [call EXCEPT ![c].sid = told, ![c].at = IF told THEN "record" ELSE "bill"]
    BY <1>3 DEF Create
  <2>2. session' \in [Session -> States] /\ left' \in Left
    BY <2>1, OpenType
  <2>3. call' \in [Call -> Calls]
    <3> DEFINE step == IF told THEN "record" ELSE "bill"
    <3>1. step \in Steps
      BY DEF Steps
    <3> HIDE DEF step
    <3>2. call' = [call EXCEPT ![c].sid = told, ![c].at = step]
      BY <2>1 DEF step
    <3> QED
      BY <3>1, <3>2 DEF Calls
  <2> QED
    BY <1>3, <2>2, <2>3 DEF Create
<1>4. CASE Record(c)
  <2>1. PICK ok \in BOOLEAN : Store(rows, [rows EXCEPT ![c] = "created"], ok) /\ Go(c, IF ok THEN "talk" ELSE "stop")
    BY <1>4 DEF Record
  <2>2. [rows EXCEPT ![c] = "created"] \in [Session -> RowStates]
    BY DEF RowStates
  <2>3. rows' \in [Session -> RowStates] /\ left' \in Left
    BY <2>1, <2>2, RowsType
  <2>4. (IF ok THEN "talk" ELSE "stop") \in Steps
    BY DEF Steps
  <2>5. call' \in [Call -> Calls]
    BY <2>1, <2>4, GoType
  <2> QED
    BY <1>4, <2>3, <2>5 DEF Record
<1>5. CASE Say(c)
  BY <1>5 DEF Say, States
<1>6. CASE HangUp(c)
  BY <1>6, GoType DEF HangUp, Steps
<1>7. CASE Stop(c)
  BY <1>7, GoType, InterruptType DEF Stop, Steps
<1>8. CASE Bill(c)
  <2>1. PICK ok \in BOOLEAN : Store(spend, [spend EXCEPT ![c] = IF @ = "open" THEN "finished" ELSE @], ok)
    BY <1>8 DEF Bill
  <2>2. [spend EXCEPT ![c] = IF @ = "open" THEN "finished" ELSE @] \in [Call -> SpendStates]
    BY DEF SpendStates
  <2>3. spend' \in [Call -> SpendStates] /\ left' \in Left
    BY <2>1, <2>2, SpendType
  <2>4. (IF call[c].sid THEN "delete" ELSE "done") \in Steps
    BY DEF Steps, Over
  <2>5. call' \in [Call -> Calls]
    BY <1>8, <2>4, GoType DEF Bill
  <2> QED
    BY <1>8, <2>3, <2>5 DEF Bill
<1>9. CASE DeleteOwn(c)
  <2>1. PICK ok \in BOOLEAN : Delete(c, ok) /\ call' = [call EXCEPT ![c].gone = ok, ![c].at = "mark"]
    BY <1>9 DEF DeleteOwn
  <2>2. session' \in [Session -> States] /\ left' \in Left
    BY <2>1, DeleteType
  <2>3. call' \in [Call -> Calls]
    BY <2>1 DEF Calls, Steps
  <2> QED
    BY <1>9, <2>2, <2>3 DEF DeleteOwn
<1>10. CASE MarkOwn(c)
  <2>1. PICK ok \in BOOLEAN : Store(rows, Marked(c, call[c].gone), ok)
    BY <1>10 DEF MarkOwn
  <2>2. call[c].gone \in BOOLEAN
    BY DEF Calls
  <2>3. rows' \in [Session -> RowStates] /\ left' \in Left
    BY <2>1, <2>2, MarkedType, RowsType
  <2>4. call' \in [Call -> Calls]
    BY <1>10, GoType DEF MarkOwn, Steps, Over
  <2> QED
    BY <1>10, <2>3, <2>4 DEF MarkOwn
<1> QED
  BY <1>1, <1>2, <1>3, <1>4, <1>5, <1>6, <1>7, <1>8, <1>9, <1>10 DEF Answer

LEMMA PassTypes ==
    ASSUME TypeOK, NEW w \in Sweeper, Pass(w)
    PROVE  TypeOK'
<1> SUFFICES Types'
  BY SameTypes
<1> USE SameTypes DEF Types, engine, remote
<1>1. CASE Begin(w)
  <2>1. (IF w = "engine" THEN "workspace" ELSE "list") \in Stages
    BY DEF Stages
  <2> QED
    BY <1>1, <2>1, MoveType DEF Begin
<1>2. CASE List(w)
  <2>1. CASE Fault /\ Broken(w)
    BY <1>2, <2>1, FaultType, BrokenType DEF List
  <2>2. ASSUME NEW first \in SUBSET Session, NEW pending \in SUBSET Session,
               sweep' = [sweep EXCEPT ![w] = [Resting EXCEPT !.at = "delete", !.todo = first, !.known = pending]]
        PROVE  sweep' \in [Sweeper -> Passes]
    BY <2>2 DEF Resting, Passes, Stages
  <2> QED
    BY <1>2, <2>1, <2>2 DEF List
<1>3. CASE DeletePending(w)
  <2>1. PICK s \in sweep[w].todo, ok \in BOOLEAN :
          /\ Delete(s, ok)
          /\ sweep' = [sweep EXCEPT ![w].at = IF ok THEN "mark" ELSE "interrupt",
                                    ![w].sid = {s}, ![w].todo = @ \ {s}]
    BY <1>3 DEF DeletePending
  <2>2. s \in Session
    BY DEF Passes
  <2>3. session' \in [Session -> States] /\ left' \in Left
    BY <2>1, <2>2, DeleteType
  <2>4. sweep' \in [Sweeper -> Passes]
    BY <2>1, <2>2 DEF Passes, Stages
  <2> QED
    BY <1>3, <2>3, <2>4 DEF DeletePending
<1>4. CASE MarkPending(w)
  <2>1. PICK s \in sweep[w].sid, ok \in BOOLEAN :
          /\ Store(rows, Marked(s, TRUE), ok)
          /\ IF ok THEN sweep' = [sweep EXCEPT ![w].at = "delete", ![w].sid = {}] /\ UNCHANGED pauses
             ELSE Broken(w)
    BY <1>4 DEF MarkPending
  <2>2. s \in Session
    BY DEF Passes
  <2>3. rows' \in [Session -> RowStates] /\ left' \in Left
    BY <2>1, <2>2, MarkedType, RowsType
  <2>4. sweep' \in [Sweeper -> Passes] /\ pauses' \subseteq Sources
    <3>1. CASE ok
      BY <2>1, <3>1 DEF Passes, Stages
    <3>2. CASE ~ok
      BY <2>1, <3>2, BrokenType
    <3> QED
      BY <3>1, <3>2
  <2> QED
    BY <1>4, <2>3, <2>4 DEF MarkPending
<1>5. CASE InterruptPending(w)
  <2>1. session' \in [Session -> States] /\ left' \in Left
    BY <1>5, InterruptType DEF InterruptPending, Passes
  <2>2. sweep' \in [Sweeper -> Passes]
    BY <1>5 DEF InterruptPending, Passes, Stages
  <2> QED
    BY <1>5, <2>1, <2>2 DEF InterruptPending
<1>6. CASE NoneLeft(w)
  <2>1. sweep' \in [Sweeper -> Passes]
    <3>1. CASE w = "engine"
      BY <1>6, <3>1, MoveType DEF NoneLeft, Stages
    <3>2. CASE w # "engine"
      BY <1>6, <3>2, RestingType DEF NoneLeft
    <3> QED
      BY <3>1, <3>2
  <2> QED
    BY <1>6, <2>1 DEF NoneLeft
<1> QED
  BY <1>1, <1>2, <1>3, <1>4, <1>5, <1>6 DEF Pass

LEMMA EngineTypes ==
    ASSUME TypeOK, \/ Workspace \/ OpenProbe \/ DeleteProbe
                   \/ ListOrphans \/ DeleteOrphan \/ Abandon \/ Check
    PROVE  TypeOK'
<1> SUFFICES Types'
  BY SameTypes
<1> USE SameTypes DEF Types, engine, remote, Sweeper
<1>1. CASE Workspace
  <2>1. PICK ok \in BOOLEAN :
          /\ \/ ok /\ UNCHANGED left
             \/ ~ok /\ "workspace" \notin passed /\ Fault
          /\ passed' = IF ok THEN passed \cup {"workspace"} ELSE passed
          /\ Pausing("workspace", ~ok)
          /\ Move("engine", IF ok /\ "canary" \notin passed THEN "probe" ELSE "list")
    BY <1>1 DEF Workspace
  <2>2. left' \in Left
    BY <2>1, FaultType
  <2>3. sweep' \in [Sweeper -> Passes]
    <3>1. (IF ok /\ "canary" \notin passed THEN "probe" ELSE "list") \in Stages
      BY DEF Stages
    <3> QED
      BY <2>1, <3>1, MoveType
  <2>4. pauses' \subseteq Sources /\ passed' \subseteq {"workspace", "canary"}
    BY <2>1 DEF Pausing, Sources
  <2> QED
    BY <1>1, <2>2, <2>3, <2>4 DEF Workspace
<1>2. CASE OpenProbe
  <2>1. PICK p \in Probe, told \in BOOLEAN :
          /\ Open(p, told) /\ age' = [age EXCEPT ![p] = 0]
          /\ IF told
             THEN /\ sweep' = [sweep EXCEPT !["engine"].at = "unprobe", !["engine"].sid = {p}]
                  /\ UNCHANGED pauses
             ELSE Move("engine", "list") /\ Pausing("delete_canary", TRUE)
    BY <1>2 DEF OpenProbe
  <2>2. age' \in [Session -> Old]
    <3>1. 0 \in Old /\ age \in [Session -> Old]
      BY DEF Old
    <3>2. age' = [age EXCEPT ![p] = 0]
      BY <2>1
    <3> HIDE DEF Types
    <3> QED
      BY <3>1, <3>2
  <2>3. session' \in [Session -> States] /\ left' \in Left
    BY <2>1, FaultType DEF Open, States
  <2>4. sweep' \in [Sweeper -> Passes] /\ pauses' \subseteq Sources
    <3>1. CASE told
      BY <2>1, <3>1 DEF Passes, Stages
    <3>2. CASE ~told
      BY <2>1, <3>2, MoveType DEF Stages, Pausing, Sources
    <3> QED
      BY <3>1, <3>2
  <2> QED
    BY <1>2, <2>2, <2>3, <2>4 DEF OpenProbe
<1>3. CASE DeleteProbe
  <2>1. PICK s \in sweep["engine"].sid, ok \in BOOLEAN :
          /\ Delete(s, ok)
          /\ passed' = IF ok THEN passed \cup {"canary"} ELSE passed
          /\ Pausing("delete_canary", ~ok)
          /\ sweep' = [sweep EXCEPT !["engine"].at = "list", !["engine"].sid = {}]
    BY <1>3 DEF DeleteProbe
  <2>2. session' \in [Session -> States] /\ left' \in Left
    BY <2>1, DeleteType DEF Passes
  <2>3. sweep' \in [Sweeper -> Passes]
    BY <2>1 DEF Passes, Stages
  <2>4. pauses' \subseteq Sources /\ passed' \subseteq {"workspace", "canary"}
    BY <2>1 DEF Pausing, Sources
  <2> QED
    BY <1>3, <2>2, <2>3, <2>4 DEF DeleteProbe
<1>4. CASE ListOrphans
  <2>1. CASE Fault /\ Move("engine", "abandon")
    BY <1>4, <2>1, FaultType, MoveType DEF ListOrphans, Stages
  <2>2. ASSUME NEW orphans \in SUBSET Session,
               sweep' = [sweep EXCEPT !["engine"].at = "scrap", !["engine"].todo = orphans]
        PROVE  sweep' \in [Sweeper -> Passes]
    BY <2>2 DEF Passes, Stages
  <2> QED
    BY <1>4, <2>1, <2>2 DEF ListOrphans
<1>5. CASE DeleteOrphan
  <2>1. CASE sweep["engine"].todo = {}
    BY <1>5, <2>1, MoveType DEF DeleteOrphan, Stages
  <2>2. CASE sweep["engine"].todo # {}
    <3>1. PICK s \in sweep["engine"].todo, ok \in BOOLEAN :
            Delete(s, ok) /\ sweep' = [sweep EXCEPT !["engine"].todo = @ \ {s}]
      BY <1>5, <2>2 DEF DeleteOrphan
    <3>2. session' \in [Session -> States] /\ left' \in Left
      BY <3>1, DeleteType DEF Passes
    <3>3. sweep' \in [Sweeper -> Passes]
      BY <3>1 DEF Passes
    <3> QED
      BY <1>5, <3>2, <3>3 DEF DeleteOrphan
  <2> QED
    BY <2>1, <2>2
<1>6. CASE Abandon
  <2> DEFINE after == [c \in Call |-> IF spend[c] = "open" /\ age[c] >= 1 THEN "abandoned" ELSE spend[c]]
  <2>1. after \in [Call -> SpendStates]
    BY DEF SpendStates
  <2>2. PICK ok \in BOOLEAN :
          /\ Store(spend, after, ok)
          /\ IF ok THEN Move("engine", "check") /\ Pausing("sweeper", FALSE) ELSE Broken("engine")
    BY <1>6 DEF Abandon
  <2> HIDE DEF after
  <2>3. spend' \in [Call -> SpendStates] /\ left' \in Left
    BY <2>1, <2>2, SpendType
  <2>4. sweep' \in [Sweeper -> Passes] /\ pauses' \subseteq Sources
    <3>1. CASE ok
      BY <2>2, <3>1, MoveType DEF Stages, Pausing, Sources
    <3>2. CASE ~ok
      BY <2>2, <3>2, BrokenType
    <3> QED
      BY <3>1, <3>2
  <2> QED
    BY <1>6, <2>3, <2>4 DEF Abandon
<1>7. CASE Check
  BY <1>7, RestingType DEF Check, Sources
<1> QED
  BY <1>1, <1>2, <1>3, <1>4, <1>5, <1>6, <1>7

LEMMA WorldTypes ==
    ASSUME TypeOK, \/ \E s \in Session : EndTurn(s) \/ Age(s)
                   \/ Crash \/ Restart \/ KillBackstop
    PROVE  TypeOK'
<1> SUFFICES Types'
  BY SameTypes
<1> USE SameTypes DEF Types, engine, remote, Sweeper
<1>1. CASE \E s \in Session : EndTurn(s)
  BY <1>1 DEF EndTurn, States
<1>2. CASE \E s \in Session : Age(s)
  <2>1. PICK s \in Session : Age(s)
    BY <1>2
  <2>2. age[s] + 1 \in Old
    <3>1. age[s] \in 0 .. 2 /\ age[s] < 2
      BY <2>1 DEF Age, Old
    <3> QED
      BY <3>1 DEF Old
  <2>3. age' \in [Session -> Old]
    <3>1. age' = [age EXCEPT ![s] = age[s] + 1]
      BY <2>1 DEF Age
    <3> HIDE DEF Types
    <3>2. age \in [Session -> Old]
      BY DEF Types
    <3> QED
      BY <2>2, <3>1, <3>2
  <2> QED
    BY <2>1, <2>3 DEF Age
<1>3. ASSUME Die PROVE left' \in Left
  BY <1>3 DEF Die, Left
<1>4. CASE Crash
  <2>1. call' \in [Call -> Calls]
    BY <1>4 DEF Crash, Calls, Steps, Over
  <2> QED
    BY <1>3, <1>4, <2>1, RestingType DEF Crash, Sources
<1>5. CASE Restart
  BY <1>5 DEF Restart
<1>6. CASE KillBackstop
  BY <1>3, <1>6, RestingType DEF KillBackstop
<1> QED
  BY <1>1, <1>2, <1>4, <1>5, <1>6

LEMMA TypeStep == TypeOK /\ [Next]_vars => TypeOK'
<1> SUFFICES ASSUME TypeOK, [Next]_vars PROVE TypeOK'
  OBVIOUS
<1>1. CASE UNCHANGED vars
  BY <1>1, SameTypes DEF Types, vars
<1>2. CASE \E c \in Call : Admit(c) \/ (up /\ Say(c)) \/ Answer(c)
  BY <1>2, CallTypes
<1>3. CASE Sweep
  BY <1>3, PassTypes, EngineTypes DEF Sweep, Sweeper
<1>4. CASE Backstop
  BY <1>4, PassTypes DEF Backstop, Sweeper
<1>5. CASE (\E s \in Session : EndTurn(s) \/ Age(s)) \/ Crash \/ Restart \/ KillBackstop
  BY <1>5, WorldTypes
<1> QED
  BY <1>1, <1>2, <1>3, <1>4, <1>5 DEF Next

\* Every variable holds what the code can put there, for any number of requests and faults.
THEOREM AssistTypeCorrect == Spec => []TypeOK
<1>1. Init => TypeOK
  BY AssistConstants DEF Init, TypeOK, Resting, Over, Old
<1> QED
  BY <1>1, TypeStep, PTL DEF Spec
-----------------------------------------------------------------------------
(* Why a row that says deleted tells the truth.  A session that is gone    *)
(* stays gone, for nothing opens it again, and whoever marks a row has     *)
(* seen its session go.                                                    *)

Fresh(c) == call[c].at \in {"new", "reserve", "create"}

\* Nothing is known of a session before it is made.
Untouched == \A c \in Call : Fresh(c) => session[c] = "none" /\ rows[c] = "none"

Unlisted == \A p \in Probe : rows[p] = "none"

Sweeping(w) == sweep[w].todo \cup sweep[w].sid

\* A sweeper deletes only what has been made, and marks only what has a row.
Sweepable == \A w \in Sweeper :
    /\ \A c \in Call : c \in Sweeping(w) => ~Fresh(c)
    /\ sweep[w].at \in {"delete", "mark", "interrupt"} => Sweeping(w) \subseteq Call

\* Who is about to mark a row has seen the session go.
Answered == /\ \A c \in Call : At(c, "mark") /\ call[c].gone => session[c] = "gone"
            /\ \A w \in Sweeper : In(w, "mark") => \A s \in sweep[w].sid : session[s] = "gone"

Reach == TypeOK /\ Untouched /\ Unlisted /\ Sweepable
Inv == Reach /\ Answered /\ RecordedTruly

\* A row is made by its request and by nobody else.
LEMMA MarkedNone ==
    ASSUME TypeOK, NEW s \in Session, NEW ok \in BOOLEAN, NEW r \in Session, rows[r] = "none"
    PROVE  Marked(s, ok)[r] = "none"
BY DEF Marked, TypeOK

LEMMA ReachCall ==
    ASSUME Reach, NEW d \in Call, Admit(d) \/ (up /\ Say(d)) \/ Answer(d)
    PROVE  Untouched' /\ Unlisted' /\ Sweepable'
<1> d \in Session /\ d \notin Probe /\ call[d].gone \in BOOLEAN
  BY AssistConstants DEF Session, Reach, TypeOK
<1> USE DEF Reach, Untouched, Unlisted, Sweepable, Sweeping, Fresh, remote, At, Go
<1>1. CASE Admit(d) \/ HangUp(d)
  <2>1. UNCHANGED <<session, rows, sweep>> /\ \A c \in Call : Fresh(c)' => Fresh(c)
    <3>1. CASE Admit(d)
      BY <3>1 DEF Admit, TypeOK
    <3>2. CASE HangUp(d)
      BY <3>2 DEF HangUp, TypeOK
    <3> QED
      BY <1>1, <3>1, <3>2
  <2> QED
    BY <2>1
<1>2. CASE Reserve(d)
  BY <1>2 DEF Reserve, TypeOK
<1>3. CASE Create(d)
  BY <1>3 DEF Create, Open, TypeOK, Session
<1>4. CASE Record(d)
  <2>1. \A r \in Session : r # d => rows'[r] = rows[r]
    BY <1>4 DEF Record, Store, TypeOK
  <2> QED
    BY <1>4, <2>1 DEF Record, TypeOK, Session
<1>5. CASE Say(d)
  BY <1>5 DEF Say, TypeOK, Session
<1>6. CASE Stop(d)
  BY <1>6 DEF Stop, Interrupt, TypeOK, Session
<1>7. CASE Bill(d)
  BY <1>7 DEF Bill, TypeOK
<1>8. CASE DeleteOwn(d)
  BY <1>8 DEF DeleteOwn, Delete, TypeOK, Session
<1>9. CASE MarkOwn(d)
  <2>1. \A r \in Session : rows[r] = "none" => rows'[r] = "none"
    BY <1>9, MarkedNone DEF MarkOwn, Store
  <2> QED
    BY <1>9, <2>1 DEF MarkOwn, TypeOK, Session
<1> QED
  BY <1>1, <1>2, <1>3, <1>4, <1>5, <1>6, <1>7, <1>8, <1>9 DEF Answer

LEMMA ReachPass ==
    ASSUME Reach, NEW w \in Sweeper, Pass(w)
    PROVE  Untouched' /\ Unlisted' /\ Sweepable'
<1> USE DEF Reach, Untouched, Unlisted, Sweepable, Sweeping, Fresh, remote, In, Move
<1>1. CASE Begin(w)
  BY <1>1 DEF Begin, TypeOK
<1>2. CASE List(w)
  <2>1. UNCHANGED <<call, session, rows>>
    BY <1>2 DEF List
  <2>2. CASE Broken(w)
    BY <2>1, <2>2 DEF Broken, Resting, TypeOK, Sweeper
  <2>3. ASSUME NEW first \in SUBSET {s \in Session : rows[s] \in {"created", "pending"}},
               NEW pending \in SUBSET Session,
               sweep' = [sweep EXCEPT ![w] = [Resting EXCEPT !.at = "delete", !.todo = first, !.known = pending]]
        PROVE  Sweepable'
    <3>1. first \subseteq Call /\ \A c \in Call : c \in first => ~Fresh(c)
      BY <2>3 DEF Session
    <3>2. \A v \in Sweeper : v # w => sweep'[v] = sweep[v]
      BY <2>3 DEF TypeOK
    <3>3. sweep'[w].todo = first /\ sweep'[w].sid = {}
      BY <2>3 DEF TypeOK, Resting
    <3> QED
      BY <2>1, <3>1, <3>2, <3>3
  <2> QED
    BY <1>2, <2>1, <2>2, <2>3 DEF List
<1>3. CASE DeletePending(w)
  <2>1. PICK s \in sweep[w].todo, ok \in BOOLEAN :
          /\ Delete(s, ok)
          /\ sweep' = [sweep EXCEPT ![w].at = IF ok THEN "mark" ELSE "interrupt",
                                    ![w].sid = {s}, ![w].todo = @ \ {s}]
    BY <1>3 DEF DeletePending
  <2>2. s \in Call /\ ~Fresh(s) /\ sweep[w].todo \subseteq Call
    BY <1>3, <2>1 DEF DeletePending
  <2>3. \A c \in Call : c # s => session'[c] = session[c]
    BY <2>1 DEF Delete, TypeOK, Session
  <2>4. UNCHANGED <<call, rows>>
    BY <1>3 DEF DeletePending
  <2>5. Sweepable'
    <3>1. \A v \in Sweeper : v # w => sweep'[v] = sweep[v]
      BY <2>1 DEF TypeOK
    <3>2. sweep'[w].todo = sweep[w].todo \ {s} /\ sweep'[w].sid = {s}
      BY <2>1 DEF TypeOK
    <3> QED
      BY <2>2, <2>4, <3>1, <3>2
  <2> QED
    BY <2>2, <2>3, <2>4, <2>5
<1>4. CASE MarkPending(w)
  <2>1. PICK s \in sweep[w].sid, ok \in BOOLEAN :
          /\ Store(rows, Marked(s, TRUE), ok)
          /\ IF ok THEN sweep' = [sweep EXCEPT ![w].at = "delete", ![w].sid = {}] /\ UNCHANGED pauses
             ELSE Broken(w)
    BY <1>4 DEF MarkPending
  <2>2. s \in Session
    BY DEF TypeOK
  <2>3. \A r \in Session : rows[r] = "none" => rows'[r] = "none"
    BY <2>1, <2>2, MarkedNone DEF Store
  <2>4. UNCHANGED <<call, session>>
    BY <1>4 DEF MarkPending
  <2>5. Sweepable'
    <3>1. CASE ok
      BY <1>4, <2>1, <2>4, <3>1 DEF TypeOK, MarkPending
    <3>2. CASE ~ok
      BY <2>1, <2>4, <3>2 DEF Broken, Resting, TypeOK
    <3> QED
      BY <3>1, <3>2
  <2> QED
    BY <2>3, <2>4, <2>5 DEF Session
<1>5. CASE InterruptPending(w)
  <2>1. UNCHANGED <<call, rows>> /\ \A c \in Session : session[c] = "none" => session'[c] = "none"
    BY <1>5 DEF InterruptPending, Interrupt, TypeOK
  <2>2. Sweepable'
    BY <1>5, <2>1 DEF InterruptPending, TypeOK
  <2> QED
    BY <2>1, <2>2 DEF Session
<1>6. CASE NoneLeft(w)
  <2>1. UNCHANGED <<call, session, rows>> /\ sweep[w].todo = {} /\ In(w, "delete")
    BY <1>6 DEF NoneLeft
  <2>2. CASE w = "engine"
    BY <1>6, <2>1, <2>2 DEF NoneLeft, TypeOK
  <2>3. CASE w # "engine"
    BY <1>6, <2>1, <2>3 DEF NoneLeft, Resting, TypeOK
  <2> QED
    BY <2>2, <2>3
<1> QED
  BY <1>1, <1>2, <1>3, <1>4, <1>5, <1>6 DEF Pass

LEMMA ReachEngine ==
    ASSUME Reach, Workspace \/ OpenProbe \/ DeleteProbe \/ ListOrphans \/ DeleteOrphan \/ Abandon \/ Check
    PROVE  Untouched' /\ Unlisted' /\ Sweepable'
<1> USE DEF Reach, Untouched, Unlisted, Sweepable, Sweeping, Fresh, remote, In, Move, Sweeper
<1>1. CASE Workspace
  <2>1. UNCHANGED <<call, session, rows>> /\ \E step \in {"probe", "list"} : Move("engine", step)
    BY <1>1 DEF Workspace
  <2> QED
    BY <2>1 DEF TypeOK
<1>2. CASE OpenProbe
  <2>1. PICK p \in Probe, told \in BOOLEAN :
          /\ Open(p, told)
          /\ IF told
             THEN sweep' = [sweep EXCEPT !["engine"].at = "unprobe", !["engine"].sid = {p}]
             ELSE Move("engine", "list")
    BY <1>2 DEF OpenProbe
  <2>2. UNCHANGED <<call, rows>> /\ \A c \in Call : session'[c] = session[c]
    <3>1. p \notin Call
      BY AssistConstants
    <3> QED
      BY <1>2, <2>1, <3>1 DEF OpenProbe, Open, TypeOK, Session
  <2>3. Sweepable'
    <3>1. p \notin Call
      BY AssistConstants
    <3>2. CASE told
      BY <2>1, <2>2, <3>1, <3>2 DEF TypeOK
    <3>3. CASE ~told
      BY <2>1, <2>2, <3>3 DEF TypeOK
    <3> QED
      BY <3>2, <3>3
  <2> QED
    BY <2>2, <2>3
<1>3. CASE DeleteProbe
  <2>1. PICK s \in sweep["engine"].sid, ok \in BOOLEAN :
          /\ Delete(s, ok)
          /\ sweep' = [sweep EXCEPT !["engine"].at = "list", !["engine"].sid = {}]
    BY <1>3 DEF DeleteProbe
  <2>2. UNCHANGED <<call, rows>> /\ \A c \in Call : c # s => session'[c] = session[c]
    BY <1>3, <2>1 DEF DeleteProbe, Delete, TypeOK, Session
  <2>3. Sweepable'
    BY <2>1, <2>2 DEF TypeOK
  <2> QED
    BY <2>1, <2>2, <2>3
<1>4. CASE ListOrphans
  <2>1. UNCHANGED <<call, session, rows>>
    BY <1>4 DEF ListOrphans
  <2>2. CASE Move("engine", "abandon")
    BY <2>1, <2>2 DEF TypeOK
  <2>3. ASSUME NEW orphans \in SUBSET {s \in Session : Exists(s)},
               sweep' = [sweep EXCEPT !["engine"].at = "scrap", !["engine"].todo = orphans]
        PROVE  Sweepable'
    BY <2>1, <2>3 DEF Exists, TypeOK, Session
  <2>4. Sweepable'
    <3> DEFINE orphans == {s \in Session \ sweep["engine"].known : Exists(s) /\ age[s] >= 1}
    <3>1. orphans \in SUBSET {s \in Session : Exists(s)}
      OBVIOUS
    <3>2. \/ sweep' = [sweep EXCEPT !["engine"].at = "scrap", !["engine"].todo = orphans]
          \/ Move("engine", "abandon")
      BY <1>4 DEF ListOrphans
    <3> QED
      BY <2>2, <2>3, <3>1, <3>2
  <2> QED
    BY <2>1, <2>4
<1>5. CASE DeleteOrphan
  <2>1. UNCHANGED <<call, rows>>
    BY <1>5 DEF DeleteOrphan
  <2>2. CASE sweep["engine"].todo = {}
    BY <1>5, <2>1, <2>2 DEF DeleteOrphan, TypeOK
  <2>3. CASE sweep["engine"].todo # {}
    <3>1. PICK s \in sweep["engine"].todo, ok \in BOOLEAN :
            Delete(s, ok) /\ sweep' = [sweep EXCEPT !["engine"].todo = @ \ {s}]
      BY <1>5, <2>3 DEF DeleteOrphan
    <3>2. \A c \in Call : c # s => session'[c] = session[c]
      BY <3>1 DEF Delete, TypeOK, Session
    <3>3. Sweepable'
      BY <1>5, <2>1, <2>3, <3>1 DEF DeleteOrphan, TypeOK
    <3> QED
      BY <2>1, <3>1, <3>2, <3>3
  <2> QED
    BY <2>2, <2>3
<1>6. CASE Abandon
  <2>1. UNCHANGED <<call, session, rows>>
    BY <1>6 DEF Abandon
  <2>2. Sweepable'
    <3>1. CASE Move("engine", "check")
      BY <2>1, <3>1 DEF TypeOK
    <3>2. CASE Broken("engine")
      BY <2>1, <3>2 DEF Broken, Resting, TypeOK
    <3> QED
      BY <1>6, <3>1, <3>2 DEF Abandon
  <2> QED
    BY <2>1, <2>2
<1>7. CASE Check
  BY <1>7 DEF Check, Resting, TypeOK
<1> QED
  BY <1>1, <1>2, <1>3, <1>4, <1>5, <1>6, <1>7

LEMMA ReachWorld ==
    ASSUME Reach, \/ \E s \in Session : EndTurn(s) \/ Age(s)
                  \/ Crash \/ Restart \/ KillBackstop
    PROVE  Untouched' /\ Unlisted' /\ Sweepable'
<1> USE DEF Reach, Untouched, Unlisted, Sweepable, Sweeping, Fresh, remote
<1>1. CASE \E s \in Session : EndTurn(s)
  BY <1>1 DEF EndTurn, TypeOK, Session
<1>2. CASE \E s \in Session : Age(s)
  BY <1>2 DEF Age
<1>3. CASE Crash
  <2>1. UNCHANGED <<session, rows>>
    BY <1>3 DEF Crash
  <2>2. \A c \in Call : Fresh(c)' => Fresh(c)
    BY <1>3 DEF Crash, Busy, TypeOK
  <2>3. Sweepable'
    BY <1>3, <2>1, <2>2 DEF Crash, Resting, TypeOK
  <2> QED
    BY <2>1, <2>2, <2>3
<1>4. CASE Restart
  BY <1>4 DEF Restart
<1>5. CASE KillBackstop
  BY <1>5 DEF KillBackstop, Resting, TypeOK
<1> QED
  BY <1>1, <1>2, <1>3, <1>4, <1>5

LEMMA ReachStep == Reach /\ [Next]_vars => Reach'
<1> SUFFICES ASSUME Reach, [Next]_vars PROVE Untouched' /\ Unlisted' /\ Sweepable'
  BY TypeStep DEF Reach
<1>1. CASE UNCHANGED vars
  BY <1>1 DEF vars, Reach, Untouched, Unlisted, Sweepable, Sweeping, Fresh
<1>2. CASE \E c \in Call : Admit(c) \/ (up /\ Say(c)) \/ Answer(c)
  BY <1>2, ReachCall
<1>3. CASE Sweep
  BY <1>3, ReachPass, ReachEngine DEF Sweep, Sweeper
<1>4. CASE Backstop
  BY <1>4, ReachPass DEF Backstop, Sweeper
<1>5. CASE (\E s \in Session : EndTurn(s) \/ Age(s)) \/ Crash \/ Restart \/ KillBackstop
  BY <1>5, ReachWorld
<1> QED
  BY <1>1, <1>2, <1>3, <1>4, <1>5 DEF Next

LEMMA GoneStays ==
    ASSUME Reach, [Next]_vars, NEW c \in Call, session[c] = "gone"
    PROVE  session'[c] = "gone"
<1> c \in Session /\ c \notin Probe
  BY AssistConstants DEF Session
<1>1. ASSUME NEW s \in Session, NEW ok \in BOOLEAN, Delete(s, ok)
      PROVE  session'[c] = "gone"
  BY <1>1 DEF Delete, Reach, TypeOK
<1>2. ASSUME NEW s \in Session, Interrupt(s)
      PROVE  session'[c] = "gone"
  BY <1>2 DEF Interrupt, Reach, TypeOK
<1>3. ASSUME NEW d \in Call, Admit(d) \/ (up /\ Say(d)) \/ Answer(d)
      PROVE  session'[c] = "gone"
  <2>0. d \in Session
    BY DEF Session
  <2>1. CASE Create(d)
    <3>1. d # c
      BY <2>1 DEF Create, Reach, Untouched, Fresh, At
    <3> QED
      BY <2>1, <3>1 DEF Create, Open, Reach, TypeOK
  <2>2. CASE Say(d)
    BY <2>2 DEF Say, Reach, TypeOK
  <2>3. CASE Stop(d)
    BY <2>0, <1>2, <2>3 DEF Stop
  <2>4. CASE DeleteOwn(d)
    BY <2>0, <1>1, <2>4 DEF DeleteOwn
  <2>5. CASE Admit(d) \/ Reserve(d) \/ Record(d) \/ HangUp(d) \/ Bill(d) \/ MarkOwn(d)
    BY <2>5 DEF Admit, Reserve, Record, HangUp, Bill, MarkOwn, remote
  <2> QED
    BY <1>3, <2>1, <2>2, <2>3, <2>4, <2>5 DEF Answer
<1>4. ASSUME NEW w \in Sweeper PROVE sweep[w].todo \subseteq Session /\ sweep[w].sid \subseteq Session
  BY DEF Reach, TypeOK
<1>5. ASSUME NEW w \in Sweeper, Pass(w)
      PROVE  session'[c] = "gone"
  <2>1. CASE DeletePending(w)
    BY <1>1, <1>4, <2>1 DEF DeletePending
  <2>2. CASE InterruptPending(w)
    BY <1>2, <1>4, <2>2 DEF InterruptPending
  <2>3. CASE Begin(w) \/ List(w) \/ MarkPending(w) \/ NoneLeft(w)
    BY <2>3 DEF Begin, List, MarkPending, NoneLeft, remote
  <2> QED
    BY <1>5, <2>1, <2>2, <2>3 DEF Pass
<1>6. CASE OpenProbe
  BY <1>6 DEF OpenProbe, Open, Reach, TypeOK, Session
<1>7. CASE DeleteProbe \/ DeleteOrphan
  BY <1>1, <1>4, <1>7 DEF DeleteProbe, DeleteOrphan, Sweeper
<1>8. CASE Workspace \/ ListOrphans \/ Abandon \/ Check
  BY <1>8 DEF Workspace, ListOrphans, Abandon, Check, remote
<1>9. CASE \E s \in Session : EndTurn(s) \/ Age(s)
  BY <1>9 DEF EndTurn, Age, remote, Reach, TypeOK
<1>10. CASE Crash \/ Restart \/ KillBackstop \/ UNCHANGED vars
  BY <1>10 DEF Crash, Restart, KillBackstop, vars, remote
<1> QED
  BY <1>3, <1>5, <1>6, <1>7, <1>8, <1>9, <1>10 DEF Next, Sweep, Backstop, Sweeper

\* A row comes to say deleted by the hand of one who saw the session go.
LEMMA Told ==
    ASSUME Reach, Answered, RecordedTruly, [Next]_vars, NEW r \in Session, rows'[r] = "deleted"
    PROVE  session[r] = "gone"
<1>1. CASE rows[r] = "deleted"
  BY <1>1 DEF RecordedTruly
<1>2. CASE rows[r] # "deleted"
  <2>1. ASSUME NEW s \in Session, NEW told \in BOOLEAN, NEW ok \in BOOLEAN, Store(rows, Marked(s, told), ok)
        PROVE  told /\ r = s
    BY <1>2, <2>1 DEF Store, Marked, Reach, TypeOK
  <2>2. ASSUME NEW d \in Call, Admit(d) \/ (up /\ Say(d)) \/ Answer(d)
        PROVE  session[r] = "gone"
    <3>0. d \in Session /\ call[d].gone \in BOOLEAN
      BY DEF Session, Reach, TypeOK
    <3>1. CASE Record(d)
      BY <1>2, <3>0, <3>1 DEF Record, Store, Reach, TypeOK
    <3>2. CASE MarkOwn(d)
      BY <2>1, <3>0, <3>2 DEF MarkOwn, Answered
    <3>3. CASE \/ Admit(d) \/ Say(d) \/ Reserve(d) \/ Create(d) \/ HangUp(d)
               \/ Stop(d) \/ Bill(d) \/ DeleteOwn(d)
      BY <1>2, <3>3 DEF Admit, Say, Reserve, Create, HangUp, Stop, Bill, DeleteOwn, remote
    <3> QED
      BY <2>2, <3>1, <3>2, <3>3 DEF Answer
  <2>3. ASSUME NEW w \in Sweeper, Pass(w)
        PROVE  session[r] = "gone"
    <3>1. CASE MarkPending(w)
      <4>1. PICK s \in sweep[w].sid, ok \in BOOLEAN : Store(rows, Marked(s, TRUE), ok)
        BY <3>1 DEF MarkPending
      <4>2. s \in Session
        BY DEF Reach, TypeOK
      <4> QED
        BY <2>1, <3>1, <4>1, <4>2 DEF MarkPending, Answered
    <3>2. CASE Begin(w) \/ List(w) \/ DeletePending(w) \/ InterruptPending(w) \/ NoneLeft(w)
      BY <1>2, <3>2 DEF Begin, List, DeletePending, InterruptPending, NoneLeft, remote
    <3> QED
      BY <2>3, <3>1, <3>2 DEF Pass
  <2>4. CASE \/ Workspace \/ OpenProbe \/ DeleteProbe \/ ListOrphans \/ DeleteOrphan \/ Abandon \/ Check
    BY <1>2, <2>4 DEF Workspace, OpenProbe, DeleteProbe, ListOrphans, DeleteOrphan, Abandon, Check, remote
  <2>5. CASE \/ (\E s \in Session : EndTurn(s) \/ Age(s))
             \/ Crash \/ Restart \/ KillBackstop \/ UNCHANGED vars
    BY <1>2, <2>5 DEF EndTurn, Age, Crash, Restart, KillBackstop, vars, remote
  <2> QED
    BY <2>2, <2>3, <2>4, <2>5 DEF Next, Sweep, Backstop, Sweeper
<1> QED
  BY <1>1, <1>2

LEMMA AnsweredByCall ==
    ASSUME Reach, Answered, [Next]_vars, NEW c \in Call, At(c, "mark")', call'[c].gone
    PROVE  session'[c] = "gone"
<1> c \in Session
  BY DEF Session
<1>1. CASE At(c, "mark") /\ call[c].gone
  BY <1>1, GoneStays DEF Answered
<1>2. CASE call' = call
  BY <1>1, <1>2 DEF At
<1>3. ASSUME NEW d \in Call, Admit(d) \/ (up /\ Say(d)) \/ Answer(d)
      PROVE  session'[c] = "gone"
  <2> USE DEF At, Go
  <2>1. CASE Admit(d) \/ Reserve(d)
    BY <1>1, <2>1 DEF Admit, Reserve, Reach, TypeOK
  <2>2. CASE Create(d)
    BY <1>1, <2>2 DEF Create, Reach, TypeOK
  <2>3. CASE Record(d) \/ HangUp(d)
    BY <1>1, <2>3 DEF Record, HangUp, Reach, TypeOK
  <2>4. CASE Stop(d) \/ Bill(d) \/ MarkOwn(d)
    BY <1>1, <2>4 DEF Stop, Bill, MarkOwn, Reach, TypeOK
  <2>5. CASE DeleteOwn(d)
    <3>1. PICK ok \in BOOLEAN :
            Delete(d, ok) /\ call' = [call EXCEPT ![d].gone = ok, ![d].at = "mark"]
      BY <2>5 DEF DeleteOwn
    <3>2. CASE c = d
      BY <3>1, <3>2 DEF Delete, Reach, TypeOK
    <3>3. CASE c # d
      BY <1>1, <3>1, <3>3 DEF Reach, TypeOK
    <3> QED
      BY <3>2, <3>3
  <2>6. CASE Say(d)
    BY <1>2, <2>6 DEF Say
  <2> QED
    BY <1>3, <2>1, <2>2, <2>3, <2>4, <2>5, <2>6 DEF Answer
<1>4. CASE Crash
  BY <1>1, <1>4 DEF Crash, At, Busy, Reach, TypeOK
<1>5. CASE Sweep \/ Backstop
  BY <1>2, <1>5 DEF Sweep, Backstop, Pass, Begin, List, DeletePending, MarkPending, InterruptPending,
     NoneLeft, Workspace, OpenProbe, DeleteProbe, ListOrphans, DeleteOrphan, Abandon, Check
<1>6. CASE (\E s \in Session : EndTurn(s) \/ Age(s)) \/ Restart \/ KillBackstop \/ UNCHANGED vars
  BY <1>2, <1>6 DEF EndTurn, Age, Restart, KillBackstop, vars
<1> QED
  BY <1>3, <1>4, <1>5, <1>6 DEF Next

LEMMA AnsweredBySweep ==
    ASSUME Reach, Answered, [Next]_vars, NEW w \in Sweeper, In(w, "mark")', NEW s \in sweep'[w].sid
    PROVE  session'[s] = "gone"
<1> USE DEF In, Move
<1>1. CASE In(w, "mark") /\ s \in sweep[w].sid
  <2>1. s \in Call /\ session[s] = "gone"
    BY <1>1 DEF Answered, Reach, Sweepable, Sweeping
  <2> QED
    BY <2>1, GoneStays
<1>2. CASE sweep' = sweep
  BY <1>1, <1>2
<1>0. ASSUME NEW v \in Sweeper, Broken(v)
      PROVE  sweep'[v].at # "mark" /\ \A x \in Sweeper : x # v => sweep'[x] = sweep[x]
  BY <1>0 DEF Broken, Resting, Reach, TypeOK
<1>3. ASSUME NEW v \in Sweeper, Pass(v)
      PROVE  session'[s] = "gone"
  <2>1. CASE DeletePending(v)
    <3>1. PICK r \in sweep[v].todo, ok \in BOOLEAN :
            /\ Delete(r, ok)
            /\ sweep' = [sweep EXCEPT ![v].at = IF ok THEN "mark" ELSE "interrupt",
                                      ![v].sid = {r}, ![v].todo = @ \ {r}]
      BY <2>1 DEF DeletePending
    <3>2. CASE w = v
      <4>1. s = r /\ ok /\ r \in Session
        BY <3>1, <3>2 DEF Reach, TypeOK
      <4> QED
        BY <3>1, <4>1 DEF Delete, Reach, TypeOK
    <3>3. CASE w # v
      BY <1>1, <3>1, <3>3 DEF Reach, TypeOK
    <3> QED
      BY <3>2, <3>3
  <2>2. ASSUME sweep'[v].at # "mark", \A x \in Sweeper : x # v => sweep'[x] = sweep[x]
        PROVE  session'[s] = "gone"
    BY <1>1, <2>2
  <2>3. CASE Begin(v) \/ InterruptPending(v)
    BY <2>2, <2>3 DEF Begin, InterruptPending, Reach, TypeOK
  <2>4. CASE List(v) \/ MarkPending(v)
    <3>1. CASE Broken(v)
      BY <1>0, <2>2, <3>1
    <3>2. ASSUME NEW todo, NEW known, sweep' = [sweep EXCEPT ![v] = [Resting EXCEPT !.at = "delete", !.todo = todo, !.known = known]]
          PROVE  session'[s] = "gone"
      BY <2>2, <3>2 DEF Resting, Reach, TypeOK
    <3>3. CASE sweep' = [sweep EXCEPT ![v].at = "delete", ![v].sid = {}]
      BY <2>2, <3>3 DEF Reach, TypeOK
    <3>4. CASE List(v)
      BY <3>1, <3>2, <3>4 DEF List
    <3>5. CASE MarkPending(v)
      BY <3>1, <3>3, <3>5 DEF MarkPending
    <3> QED
      BY <2>4, <3>4, <3>5
  <2>5. CASE NoneLeft(v)
    BY <2>2, <2>5 DEF NoneLeft, Resting, Reach, TypeOK
  <2> QED
    BY <1>3, <2>1, <2>3, <2>4, <2>5 DEF Pass
<1>4. ASSUME sweep'["engine"].at # "mark", \A x \in Sweeper : x # "engine" => sweep'[x] = sweep[x]
      PROVE  session'[s] = "gone"
  BY <1>1, <1>4
<1>5. CASE Workspace \/ OpenProbe \/ DeleteProbe
  <2>1. CASE \E step \in {"probe", "list"} : Move("engine", step)
    BY <1>4, <2>1 DEF Sweeper, Reach, TypeOK
  <2>2. ASSUME NEW step \in {"unprobe", "list"}, NEW sid,
               sweep' = [sweep EXCEPT !["engine"].at = step, !["engine"].sid = sid]
        PROVE  session'[s] = "gone"
    BY <1>4, <2>2 DEF Sweeper, Reach, TypeOK
  <2>3. CASE Workspace
    BY <2>1, <2>3 DEF Workspace
  <2>4. CASE OpenProbe
    <3>1. PICK p \in Probe, told \in BOOLEAN :
            IF told THEN sweep' = [sweep EXCEPT !["engine"].at = "unprobe", !["engine"].sid = {p}]
            ELSE Move("engine", "list")
      BY <2>4 DEF OpenProbe
    <3> QED
      BY <2>1, <2>2, <3>1
  <2>5. CASE DeleteProbe
    BY <2>2, <2>5 DEF DeleteProbe
  <2> QED
    BY <1>5, <2>3, <2>4, <2>5
<1>6. CASE ListOrphans \/ DeleteOrphan
  BY <1>4, <1>6 DEF ListOrphans, DeleteOrphan, Sweeper, Reach, TypeOK
<1>7. CASE Abandon \/ Check
  <2>1. CASE Broken("engine")
    BY <1>0, <1>4, <2>1 DEF Sweeper
  <2>2. CASE Move("engine", "check")
    BY <1>4, <2>2 DEF Sweeper, Reach, TypeOK
  <2>3. CASE Check
    BY <1>4, <2>3 DEF Check, Resting, Sweeper, Reach, TypeOK
  <2> QED
    BY <1>7, <2>1, <2>2, <2>3 DEF Abandon
<1>8. CASE Crash
  BY <1>4, <1>8 DEF Crash, Resting, Sweeper, Reach, TypeOK
<1>9. CASE KillBackstop
  BY <1>1, <1>9 DEF KillBackstop, Resting, Sweeper, Reach, TypeOK
<1>10. ASSUME NEW d \in Call, Admit(d) \/ (up /\ Say(d)) \/ Answer(d)
       PROVE  sweep' = sweep
  BY <1>10 DEF Answer, Admit, Say, Reserve, Create, Record, HangUp, Stop, Bill, DeleteOwn, MarkOwn
<1>11. CASE (\E x \in Session : EndTurn(x) \/ Age(x)) \/ Restart \/ UNCHANGED vars
  BY <1>2, <1>11 DEF EndTurn, Age, Restart, vars
<1> QED
  BY <1>2, <1>3, <1>5, <1>6, <1>7, <1>8, <1>9, <1>10, <1>11 DEF Next, Sweep, Backstop, Sweeper

LEMMA InvStep == Inv /\ [Next]_vars => Inv'
<1> SUFFICES ASSUME Reach, Answered, RecordedTruly, [Next]_vars
             PROVE  Reach' /\ Answered' /\ RecordedTruly'
  BY DEF Inv
<1>1. Reach'
  BY ReachStep
<1>2. Answered'
  BY <1>1, AnsweredByCall, AnsweredBySweep DEF Answered, At, In
<1>3. RecordedTruly'
  <2>1. SUFFICES ASSUME NEW r \in Session, rows'[r] = "deleted"
                 PROVE  session'[r] = "gone"
    BY DEF RecordedTruly
  <2>2. session[r] = "gone"
    BY <2>1, Told
  <2>3. r \in Call
    BY <1>1, <2>1 DEF Reach, Unlisted, Session
  <2> QED
    BY <2>2, <2>3, GoneStays
<1> QED
  BY <1>1, <1>2, <1>3

\* No row says deleted of a session the provider may still have, whoever closes it and in
\* whatever order the requests, the sweeper and the backstop come to it.
THEOREM DeletedIsGone == Spec => []RecordedTruly
<1>1. Init => Inv
  <2>1. Init => TypeOK
    BY AssistConstants DEF Init, TypeOK, Resting, Over, Old
  <2>2. Init => Untouched /\ Unlisted /\ RecordedTruly
    BY DEF Init, Untouched, Unlisted, RecordedTruly, Session
  <2>3. Init => Sweepable
    BY DEF Init, Sweepable, Sweeping, Resting
  <2>4. Init => Answered
    BY DEF Init, Answered, Resting, At, In
  <2> QED
    BY <2>1, <2>2, <2>3, <2>4 DEF Inv, Reach
<1>2. Inv => RecordedTruly
  BY DEF Inv
<1> QED
  BY <1>1, <1>2, InvStep, PTL DEF Spec
=============================================================================
