--------------------------------- MODULE Assist ---------------------------------
(***************************************************************************)
(* The assisted screening tier, application/a0_assist: a request reserves  *)
(* money, opens a session with the provider, talks, and closes it again; a *)
(* sweeper thread in the engine and a backstop process delete what         *)
(* requests left behind.  Sessions, the store's rows of them and the       *)
(* reservations outlive the engine, which may die at any step; a call to   *)
(* the provider or to the store may fail, or be made and its answer lost.  *)
(*                                                                         *)
(* The store's SQL functions and the provider are not in the repository:   *)
(* they are modelled from their calls and tests.  Consent, the limits per  *)
(* user, what is said in a session and what it costs are left out, as is   *)
(* the second engine of a rolling restart.                                 *)
(***************************************************************************)
EXTENDS Integers, FiniteSets

CONSTANTS
    Call,         \* the requests; a session has the name of the request that opened it
    Probe,        \* names for the sessions of delete canaries
    Slots,        \* max_concurrent_sessions
    MaxPerPass,   \* MAX_PER_PASS
    Setups        \* [calls, faults, crashes]: bounds; the requests that come, the calls
                  \* to the provider or the store that fail, the processes that die

ASSUME AssistConstants ==
    /\ IsFiniteSet(Call) /\ IsFiniteSet(Probe) /\ Call \cap Probe = {}
    /\ Slots \in Nat \ {0} /\ MaxPerPass \in Nat \ {0}
    /\ Setups \subseteq [calls : SUBSET Call, faults : Nat, crashes : Nat]
    /\ \A s \in Setups : Cardinality(Probe) > s.faults + s.crashes

Session == Call \cup Probe
Sweeper == {"engine", "backstop"}

VARIABLES
    up,        \* does the engine run
    call,      \* request -> where it is; does it know its session; did its DELETE succeed
    session,   \* session -> what the provider has of it
    age,       \* session -> how old it, or its reservation, is: see Old
    rows,      \* session -> the state of its row in the store
    spend,     \* request -> the state of its reservation in the store
    sweep,     \* sweeper -> where its pass is
    passed,    \* the checks of its keys this engine has passed
    pauses,    \* what keeps the tier from being offered
    left       \* what is left of the bounds

vars == <<up, call, session, age, rows, spend, sweep, passed, pauses, left>>
remote == <<session, rows, spend>>
engine == <<up, passed, pauses>>

Resting == [at |-> "rest", todo |-> {}, known |-> {}, sid |-> {}]

Init ==
    /\ up = TRUE /\ passed = {} /\ pauses = {"startup"}
    /\ session = [s \in Session |-> "none"] /\ age = [s \in Session |-> 0]
    /\ rows = [s \in Session |-> "none"] /\ spend = [c \in Call |-> "none"]
    /\ sweep = [w \in Sweeper |-> Resting]
    /\ \E s \in Setups :
         /\ call = [c \in Call |-> [at |-> IF c \in s.calls THEN "new" ELSE "done",
                                   sid |-> FALSE, gone |-> FALSE]]
         /\ left = [faults |-> s.faults, crashes |-> s.crashes]

Over == {"new", "done", "dead"}
Busy == {c \in Call : call[c].at \notin Over}

At(c, step) == call[c].at = step
Go(c, step) == call' = [call EXCEPT ![c].at = step]
In(w, step) == sweep[w].at = step
Move(w, step) == sweep' = [sweep EXCEPT ![w].at = step]

Fault == left.faults > 0 /\ left' = [left EXCEPT !.faults = @ - 1]
-----------------------------------------------------------------------------
(* The provider and the store.                                             *)

Exists(s) == session[s] \in {"idle", "running"}

\* A session is made, idle, unless the call fails; `told`: the caller has its id.
Open(s, told) ==
    \/ told /\ session' = [session EXCEPT ![s] = "idle"] /\ UNCHANGED left
    \/ ~told /\ Fault /\ session' \in {session, [session EXCEPT ![s] = "idle"]}

\* DELETE answers 200, 204 or 404 (`ok`), or anything else: a running session stays.
Delete(s, ok) ==
    \/ ok /\ session[s] # "running" /\ session' = [session EXCEPT ![s] = "gone"] /\ UNCHANGED left
    \/ ~ok /\ session[s] = "running" /\ UNCHANGED <<session, left>>
    \/ ~ok /\ Fault /\ session' \in {session, [session EXCEPT ![s] = IF @ = "running" THEN @ ELSE "gone"]}

\* An interrupt ends the turn of a running session, unless it fails.
Interrupt(s) ==
    \/ session' = [session EXCEPT ![s] = IF @ = "running" THEN "idle" ELSE @] /\ UNCHANGED left
    \/ Fault /\ UNCHANGED session

\* One call of a store function that leaves `after`; `ok` unless it raises StoreError.
Store(before, after, ok) ==
    \/ ok /\ before' = after /\ UNCHANGED left
    \/ ~ok /\ Fault /\ before' \in {before, after}

\* Mutant: a failed delete gets a state of its own, which nothing lists.
Marked_Failed(s, ok) == [rows EXCEPT ![s] = IF @ = "none" THEN @ ELSE IF ok THEN "deleted" ELSE "failed"]

\* Mutant: whatever the status says, the row is closed.
Marked_Anyway(s, ok) == [rows EXCEPT ![s] = IF @ = "none" THEN @ ELSE "deleted"]

\* session_deleted and mark_deleted, told whether the DELETE succeeded.
Marked(s, ok) ==
    [rows EXCEPT ![s] = CASE @ = "none" -> @
                          [] @ # "none" /\ ok -> "deleted"
                          [] @ = "created" /\ ~ok -> "pending"
                          [] OTHER -> @]

\* The agent ends its turn: for good, or to wait for the answer of a tool.
EndTurn(s) ==
    /\ session[s] = "running"
    /\ session' = [session EXCEPT ![s] = "idle"]
    /\ UNCHANGED <<engine, call, age, rows, spend, sweep, left>>

\* Ages: 1 is older than abandon_after_min, 2 older than BACKSTOP_MIN_AGE_MIN.  A request is
\* over before its session gets to the first (config.py asks abandon_after_min to cover it).
Old == 0 .. 2

Age(s) ==
    /\ age[s] < 2
    /\ s \notin Busy /\ s \notin sweep["engine"].sid
    /\ \/ Exists(s)
       \/ s \in Call /\ spend[s] = "open"
    /\ age' = [age EXCEPT ![s] = @ + 1]
    /\ UNCHANGED <<engine, call, remote, sweep, left>>
-----------------------------------------------------------------------------
(* A request.  One that is refused, for a pause, for want of a slot or for *)
(* anything before, changes nothing.                                       *)

Admit(c) ==
    /\ up /\ At(c, "new")
    /\ pauses = {} /\ Cardinality(Busy) < Slots
    /\ Go(c, "reserve")
    /\ UNCHANGED <<engine, remote, age, sweep, left>>

\* Refused by the ceiling, or by a store that raises, after which nothing is undone.
Reserve(c) ==
    /\ At(c, "reserve")
    /\ \/ Go(c, "done") /\ UNCHANGED <<spend, left>>
       \/ \E ok \in BOOLEAN : /\ Store(spend, [spend EXCEPT ![c] = "open"], ok)
                              /\ Go(c, IF ok THEN "create" ELSE "done")
    /\ UNCHANGED <<engine, session, rows, age, sweep>>

\* Mutant: the session is recorded when the conversation is over, if at all.
Create_Unrecorded(c) ==
    /\ At(c, "create")
    /\ \E told \in BOOLEAN :
         /\ Open(c, told)
         /\ call' = [call EXCEPT ![c].sid = told, ![c].at = IF told THEN "talk" ELSE "bill"]
    /\ UNCHANGED <<engine, rows, spend, age, sweep>>

Create(c) ==
    /\ At(c, "create")
    /\ \E told \in BOOLEAN :
         /\ Open(c, told)
         /\ call' = [call EXCEPT ![c].sid = told, ![c].at = IF told THEN "record" ELSE "bill"]
    /\ UNCHANGED <<engine, rows, spend, age, sweep>>

\* The id is stored before anything is said.
Record(c) ==
    /\ At(c, "record")
    /\ \E ok \in BOOLEAN : /\ Store(rows, [rows EXCEPT ![c] = "created"], ok)
                           /\ Go(c, IF ok THEN "talk" ELSE "stop")
    /\ UNCHANGED <<engine, session, spend, age, sweep>>

\* The first message, or the answer of a tool.
Say(c) ==
    /\ At(c, "talk") /\ session[c] = "idle"
    /\ session' = [session EXCEPT ![c] = "running"]
    /\ UNCHANGED <<engine, call, rows, spend, age, sweep, left>>

\* The end of the turn, an error, max_events or call_timeout_s.
HangUp(c) == At(c, "talk") /\ Go(c, "stop") /\ UNCHANGED <<engine, remote, age, sweep, left>>

\* _close: every step whatever became of the one before it.
Stop(c) == /\ At(c, "stop") /\ Interrupt(c) /\ Go(c, "bill")
           /\ UNCHANGED <<engine, rows, spend, age, sweep>>

Bill(c) ==
    /\ At(c, "bill")
    /\ \E ok \in BOOLEAN : Store(spend, [spend EXCEPT ![c] = IF @ = "open" THEN "finished" ELSE @], ok)
    /\ Go(c, IF call[c].sid THEN "delete" ELSE "done")
    /\ UNCHANGED <<engine, session, rows, age, sweep>>

DeleteOwn(c) ==
    /\ At(c, "delete")
    /\ \E ok \in BOOLEAN : /\ Delete(c, ok)
                           /\ call' = [call EXCEPT ![c].gone = ok, ![c].at = "mark"]
    /\ UNCHANGED <<engine, rows, spend, age, sweep>>

MarkOwn(c) ==
    /\ At(c, "mark")
    /\ \E ok \in BOOLEAN : Store(rows, Marked(c, call[c].gone), ok)
    /\ Go(c, "done")
    /\ UNCHANGED <<engine, session, spend, age, sweep>>

Answer(c) == up /\ (\/ Reserve(c) \/ Create(c) \/ Record(c) \/ HangUp(c) \/ Stop(c)
                    \/ Bill(c) \/ DeleteOwn(c) \/ MarkOwn(c))
-----------------------------------------------------------------------------
(* A pass of a sweeper.                                                    *)

Begin(w) ==
    /\ In(w, "rest")
    /\ Move(w, IF w = "engine" THEN "workspace" ELSE "list")
    /\ UNCHANGED <<engine, call, remote, age, left>>

Pausing(source, when) == pauses' = IF when THEN pauses \cup {source} ELSE pauses \ {source}

\* The engine asks whether its key is of the workspace, until it has been told so.
Workspace ==
    /\ In("engine", "workspace")
    /\ \E ok \in BOOLEAN :
         /\ \/ ok /\ UNCHANGED left
            \/ ~ok /\ "workspace" \notin passed /\ Fault
         /\ passed' = IF ok THEN passed \cup {"workspace"} ELSE passed
         /\ Pausing("workspace", ~ok)
         /\ Move("engine", IF ok /\ "canary" \notin passed THEN "probe" ELSE "list")
    /\ UNCHANGED <<up, call, remote, age>>

\* The delete canary: a session is made to be deleted, until that has succeeded once.
OpenProbe ==
    /\ In("engine", "probe")
    /\ \E p \in Probe, told \in BOOLEAN :
         /\ p = CHOOSE q \in Probe : ~Exists(q)
         /\ Open(p, told) /\ age' = [age EXCEPT ![p] = 0]
         /\ IF told
            THEN /\ sweep' = [sweep EXCEPT !["engine"].at = "unprobe", !["engine"].sid = {p}]
                 /\ UNCHANGED pauses
            ELSE Move("engine", "list") /\ Pausing("delete_canary", TRUE)
    /\ UNCHANGED <<up, passed, call, rows, spend>>

DeleteProbe ==
    /\ In("engine", "unprobe")
    /\ \E s \in sweep["engine"].sid, ok \in BOOLEAN :
         /\ Delete(s, ok)
         /\ passed' = IF ok THEN passed \cup {"canary"} ELSE passed
         /\ Pausing("delete_canary", ~ok)
         /\ sweep' = [sweep EXCEPT !["engine"].at = "list", !["engine"].sid = {}]
    /\ UNCHANGED <<up, call, rows, spend, age>>

\* A StoreError ends the pass, which pauses the engine's tier.
Broken(w) ==
    /\ IF w = "engine" THEN Pausing("sweeper", TRUE) ELSE UNCHANGED pauses
    /\ sweep' = [sweep EXCEPT ![w] = [Resting EXCEPT !.at = IF w = "engine" THEN "check" ELSE "rest"]]

MinAge(w) == IF w = "engine" THEN 0 ELSE 2

\* The rows not yet deleted, live sessions among them; the first MaxPerPass are worked on.
List(w) ==
    /\ In(w, "list")
    /\ \/ LET pending == {s \in Session : rows[s] \in {"created", "pending"} /\ age[s] >= MinAge(w)} IN
          \E first \in SUBSET pending :
             /\ \/ Cardinality(first) = MaxPerPass
                \/ Cardinality(first) < MaxPerPass /\ first = pending
             /\ sweep' = [sweep EXCEPT ![w] = [Resting EXCEPT !.at = "delete", !.todo = first, !.known = pending]]
             /\ UNCHANGED <<pauses, left>>
       \/ Fault /\ Broken(w)
    /\ UNCHANGED <<up, passed, call, remote, age>>

DeletePending(w) ==
    /\ In(w, "delete")
    /\ \E s \in sweep[w].todo, ok \in BOOLEAN :
         /\ Delete(s, ok)
         /\ sweep' = [sweep EXCEPT ![w].at = IF ok THEN "mark" ELSE "interrupt",
                                   ![w].sid = {s}, ![w].todo = @ \ {s}]
    /\ UNCHANGED <<engine, call, rows, spend, age>>

MarkPending(w) ==
    /\ In(w, "mark")
    /\ \E s \in sweep[w].sid, ok \in BOOLEAN :
         /\ Store(rows, Marked(s, TRUE), ok)
         /\ IF ok THEN sweep' = [sweep EXCEPT ![w].at = "delete", ![w].sid = {}] /\ UNCHANGED pauses
            ELSE Broken(w)
    /\ UNCHANGED <<up, passed, call, session, spend, age>>

\* One that could not be deleted may be running: it is stopped, the next pass deletes it.
InterruptPending(w) ==
    /\ In(w, "interrupt")
    /\ \E s \in sweep[w].sid : Interrupt(s)
    /\ sweep' = [sweep EXCEPT ![w].at = "delete", ![w].sid = {}]
    /\ UNCHANGED <<engine, call, rows, spend, age>>

NoneLeft(w) ==
    /\ In(w, "delete") /\ sweep[w].todo = {}
    /\ IF w = "engine" THEN Move(w, "orphans") ELSE sweep' = [sweep EXCEPT ![w] = Resting]
    /\ UNCHANGED <<engine, call, remote, age, left>>

\* Sessions of the product's agents that no row lists and that no request can still be in.
ListOrphans ==
    /\ In("engine", "orphans")
    /\ LET orphans == {s \in Session \ sweep["engine"].known : Exists(s) /\ age[s] >= 1} IN
       \/ sweep' = [sweep EXCEPT !["engine"].at = "scrap", !["engine"].todo = orphans] /\ UNCHANGED left
       \/ Fault /\ Move("engine", "abandon")
    /\ UNCHANGED <<engine, call, remote, age>>

DeleteOrphan ==
    /\ In("engine", "scrap")
    /\ IF sweep["engine"].todo = {} THEN Move("engine", "abandon") /\ UNCHANGED <<session, left>>
       ELSE \E s \in sweep["engine"].todo, ok \in BOOLEAN :
              Delete(s, ok) /\ sweep' = [sweep EXCEPT !["engine"].todo = @ \ {s}]
    /\ UNCHANGED <<engine, call, rows, spend, age>>

\* Reservations nobody finished are charged in full; the pass has succeeded.
Abandon ==
    /\ In("engine", "abandon")
    /\ \E ok \in BOOLEAN :
         /\ Store(spend, [c \in Call |-> IF spend[c] = "open" /\ age[c] >= 1 THEN "abandoned" ELSE spend[c]], ok)
         /\ IF ok THEN Move("engine", "check") /\ Pausing("sweeper", FALSE) ELSE Broken("engine")
    /\ UNCHANGED <<up, passed, call, session, rows, age>>

\* check_store pauses on what the status says; with its first pass the engine has started.
Check ==
    /\ In("engine", "check")
    /\ \E bad \in BOOLEAN :
         pauses' = (IF bad THEN pauses \cup {"store"} ELSE pauses \ {"store"}) \ {"startup"}
    /\ sweep' = [sweep EXCEPT !["engine"] = Resting]
    /\ UNCHANGED <<up, passed, call, remote, age, left>>

Pass(w) == \/ Begin(w) \/ List(w) \/ DeletePending(w) \/ MarkPending(w)
           \/ InterruptPending(w) \/ NoneLeft(w)
Sweep == up /\ (\/ Pass("engine") \/ Workspace \/ OpenProbe \/ DeleteProbe
                \/ ListOrphans \/ DeleteOrphan \/ Abandon \/ Check)
Backstop == Pass("backstop")
-----------------------------------------------------------------------------
Die == left.crashes > 0 /\ left' = [left EXCEPT !.crashes = @ - 1]

Crash ==
    /\ up /\ Die
    /\ up' = FALSE /\ passed' = {} /\ pauses' = {"startup"}
    /\ call' = [c \in Call |-> IF c \in Busy THEN [call[c] EXCEPT !.at = "dead"] ELSE call[c]]
    /\ sweep' = [sweep EXCEPT !["engine"] = Resting]
    /\ UNCHANGED <<remote, age>>

Restart == ~up /\ up' = TRUE /\ UNCHANGED <<call, remote, age, sweep, passed, pauses, left>>

KillBackstop ==
    /\ sweep["backstop"] # Resting /\ Die
    /\ sweep' = [sweep EXCEPT !["backstop"] = Resting]
    /\ UNCHANGED <<engine, call, remote, age>>

Next == \/ \E c \in Call : Admit(c) \/ (up /\ Say(c)) \/ Answer(c)
        \/ \E s \in Session : EndTurn(s) \/ Age(s)
        \/ Sweep \/ Backstop \/ Crash \/ Restart \/ KillBackstop

\* Every call ends by a timeout; the thread loops and the timer of the backstop fires for
\* ever; time passes.  Nothing restarts an engine that died, and no agent ends its turn.
Spec == /\ Init /\ [][Next]_vars
        /\ \A c \in Call : WF_vars(Answer(c))
        /\ WF_vars(Sweep) /\ WF_vars(Backstop)
        /\ \A s \in Session : WF_vars(Age(s))
-----------------------------------------------------------------------------
(* Properties.                                                             *)

\* Every variable holds what the code can put there.
TypeOK ==
    /\ up \in BOOLEAN /\ passed \subseteq {"workspace", "canary"}
    /\ pauses \subseteq {"startup", "workspace", "delete_canary", "sweeper", "store"}
    /\ call \in [Call -> [at : Over \cup {"reserve", "create", "record", "talk", "stop", "bill",
                                          "delete", "mark"}, sid : BOOLEAN, gone : BOOLEAN]]
    /\ session \in [Session -> {"none", "idle", "running", "gone"}] /\ age \in [Session -> Old]
    /\ rows \in [Session -> {"none", "created", "pending", "deleted"}]
    /\ spend \in [Call -> {"none", "open", "finished", "abandoned"}]
    /\ sweep \in [Sweeper -> [at : {"rest", "workspace", "probe", "unprobe", "list", "delete", "mark",
                                    "interrupt", "orphans", "scrap", "abandon", "check"},
                              todo : SUBSET Session, known : SUBSET Session, sid : SUBSET Session]]
    /\ left \in [faults : Nat, crashes : Nat]

\* A row says deleted only of a session the provider no longer has, whoever closed it.
RecordedTruly == \A s \in Session : rows[s] = "deleted" => session[s] = "gone"

\* Every session is deleted in the end, the ones whose request died included, and every
\* reservation is finished or charged; only where no engine ever runs again, a session no
\* row tells of and an open reservation stay.
NothingLeft == <>[](/\ \A s \in Session : Exists(s) => ~up /\ rows[s] = "none"
                    /\ \A c \in Call : spend[c] = "open" => ~up)
=============================================================================
