-------------------------- MODULE ColdStartProofs --------------------------
(***************************************************************************)
(* Proofs about ColdStart: over the database no judge has two live wakes;  *)
(* over either store the types hold, and a wake is taken from its user     *)
(* only by a call that read it, and fails only for a reason of its own.    *)
(*                                                                         *)
(* That a judge has at most one live wake follows from a stronger fact: of *)
(* two requests for one judge the earlier is not live.  It is so when the  *)
(* later is created, because wake_ensure, alone under the judge's lock,    *)
(* has then found the latest one over, and a request that is over stays    *)
(* over: its age only grows, and an expired one is not answered any more.  *)
(***************************************************************************)
EXTENDS ColdStart, WellFoundedInduction, TLAPS

USE ColdStartConstants DEF Roles

Requests == now \in Nat /\ reqs \in Seq(Request)

EarlierIsOver ==
    \A i, j \in DOMAIN reqs : i < j /\ reqs[i].label = reqs[j].label => ~Live(reqs[i])

IInv ==
    /\ Requests
    /\ \A i \in DOMAIN reqs : reqs[i].created <= now
    /\ EarlierIsOver

LEMMA InitInv == Init => IInv
  BY DEF Init, IInv, Requests, EarlierIsOver

\* The steps that add a request, answer one or let time pass, over the database.
BoardStep ==
    \/ UNCHANGED <<now, reqs>>
    \/ now' = now + 1 /\ UNCHANGED reqs
    \/ UNCHANGED now /\ \E role \in Roles : ~HasLive(role) /\ reqs' = Append(reqs, Asked(role))
    \/ /\ UNCHANGED now
       /\ \E i \in DOMAIN reqs, answer \in {"granted", "failed"} :
            /\ reqs[i].answer = "none" /\ ~Expired(reqs[i])
            /\ reqs' = [reqs EXCEPT ![i].answer = answer]

\* Every step of the calls, the waker and the clock is one of these.
LEMMA StepOfBoard == ASSUME Shared, [Next]_vars PROVE BoardStep
<1>1. CASE UNCHANGED vars
  BY <1>1 DEF vars, store, BoardStep
<1>2. ASSUME NEW p \in Calls, NEW u \in Users, StartReady(p, u) \/ Start(p, u) \/ Status(p, u)
      PROVE  BoardStep
  BY <1>2 DEF StartReady, Start, Status, Evaluate, store, BoardStep
<1>3. ASSUME NEW p \in Calls, Ensure(p) PROVE BoardStep
  BY <1>3 DEF Ensure, Make, FirstOf, BoardStep
<1>4. ASSUME NEW p \in Calls, EnsureLook(p) \/ EnsureFails(p) \/ Free(p) \/ Active(p) \/ Seen(p) \/ End(p) \/ Crash(p)
      PROVE  BoardStep
  BY <1>4, Shared DEF EnsureLook, EnsureFails, Free, Active, Evaluate, Seen, End, Crash, Swept, store, BoardStep
<1>5. ASSUME NEW p \in Calls, EnsureRequest(p) PROVE BoardStep
  BY <1>5, Shared DEF EnsureRequest
<1>6. CASE Poll
  BY <1>6, Shared DEF Poll, Swept, BoardStep
<1>7. ASSUME NEW i \in DOMAIN reqs, NEW answer \in {"granted", "failed"}, Deliver(i, answer)
      PROVE  BoardStep
  BY <1>7, Shared DEF Deliver, BoardStep
<1>8. CASE Tick
  BY <1>8 DEF Tick, store, BoardStep
<1> QED
  BY <1>1, <1>2, <1>3, <1>4, <1>5, <1>6, <1>7, <1>8 DEF Next

\* A live request is a kept one, so without a live latest request none is live.
LEMMA NoneLive ==
    ASSUME Shared, IInv, NEW role \in Roles, ~HasLive(role), NEW i \in DOMAIN reqs, reqs[i].label = role
    PROVE  ~Live(reqs[i])
<1> SUFFICES ASSUME Live(reqs[i]) PROVE FALSE
  OBVIOUS
<1>1. reqs[i] \in Request
  BY DEF IInv, Requests
<1>2. Age(reqs[i]) < Budget /\ Kept(reqs[i])
  BY <1>1, Shared DEF Live, Kept, Age, Request, IInv, Requests, ColdStartConstants
<1>3. \A j \in DOMAIN reqs : reqs[j].label = role => j <= i
  BY DEF IInv, EarlierIsOver, Requests
<1>4. IsLatest(i, role)
  BY <1>2, <1>3 DEF IsLatest
<1> QED
  BY <1>4 DEF HasLive, Latest

\* What is over stays over while time passes.
LEMMA OverWithTime ==
    ASSUME now \in Nat, NEW r \in Request, now' = now + 1, ~Live(r) PROVE ~(Live(r))'
BY DEF Live, Age, AnswerOf, Expired, Request, ColdStartConstants

LEMMA StepInv == ASSUME Shared, IInv, BoardStep PROVE IInv'
<1> USE DEF IInv, Requests
<1>1. CASE UNCHANGED <<now, reqs>>
  BY <1>1 DEF EarlierIsOver, Live, Age, AnswerOf, Expired
<1>2. CASE now' = now + 1 /\ UNCHANGED reqs
  <2>1. Requests' /\ \A i \in DOMAIN reqs' : reqs'[i].created <= now'
    <3>1. ASSUME NEW i \in DOMAIN reqs PROVE reqs[i].created \in Nat
      <4>1. reqs[i] \in Request
        OBVIOUS
      <4> QED
        BY <4>1 DEF Request
    <3> QED
      BY <1>2, <3>1
  <2>2. EarlierIsOver'
    BY <1>2, OverWithTime DEF EarlierIsOver
  <2> QED
    BY <2>1, <2>2
<1>3. ASSUME NEW role \in Roles, UNCHANGED now, ~HasLive(role), reqs' = Append(reqs, Asked(role))
      PROVE  IInv'
  <2>1. Asked(role) \in Request
    BY DEF Asked, Request
  <2>2. Requests' /\ \A i \in DOMAIN reqs' : reqs'[i].created <= now'
    BY <1>3, <2>1 DEF Asked
  <2>3. ASSUME NEW i \in DOMAIN reqs', NEW j \in DOMAIN reqs', i < j, reqs'[i].label = reqs'[j].label
        PROVE  ~(Live(reqs[i]))'
    <3>1. i \in DOMAIN reqs /\ reqs'[i] = reqs[i]
      BY <1>3, <2>1, <2>3
    <3>2. ~Live(reqs[i])
      <4>1. CASE j \in DOMAIN reqs
        BY <1>3, <2>1, <2>3, <3>1, <4>1 DEF EarlierIsOver
      <4>2. CASE j \notin DOMAIN reqs
        <5>1. reqs'[j] = Asked(role)
          BY <1>3, <2>1, <2>3, <4>2
        <5> QED
          BY <5>1, <1>3, <2>3, <3>1, NoneLive DEF Asked
      <4> QED
        BY <4>1, <4>2
    <3> QED
      BY <1>3, <3>1, <3>2 DEF Live, Age, AnswerOf, Expired
  <2> QED
    BY <2>2, <2>3 DEF EarlierIsOver
<1>4. ASSUME NEW k \in DOMAIN reqs, NEW answer \in {"granted", "failed"}, UNCHANGED now,
             reqs[k].answer = "none", ~Expired(reqs[k]), reqs' = [reqs EXCEPT ![k].answer = answer]
      PROVE  IInv'
  <2>1. /\ DOMAIN reqs' = DOMAIN reqs
        /\ \A i \in DOMAIN reqs : /\ reqs'[i].label = reqs[i].label
                                  /\ reqs'[i].created = reqs[i].created
                                  /\ i # k => reqs'[i] = reqs[i]
    BY <1>4 DEF Request
  <2>2. Requests' /\ \A i \in DOMAIN reqs' : reqs'[i].created <= now'
    <3>1. [reqs[k] EXCEPT !.answer = answer] \in Request
      <4>1. reqs[k] \in Request
        OBVIOUS
      <4> QED
        BY <4>1 DEF Request
    <3>2. reqs' \in Seq(Request)
      BY <1>4, <3>1
    <3> QED
      BY <1>4, <2>1, <3>2
  <2>3. ASSUME NEW i \in DOMAIN reqs, ~Live(reqs[i]) PROVE ~(Live(reqs[i]))'
    <3>1. CASE i # k
      BY <1>4, <2>1, <2>3, <3>1 DEF Live, Age, AnswerOf, Expired
    <3>2. CASE i = k
      BY <1>4, <2>1, <2>3, <3>2 DEF Live, Age, AnswerOf
    <3> QED
      BY <3>1, <3>2
  <2> QED
    BY <2>1, <2>2, <2>3 DEF EarlierIsOver
<1> QED
  BY <1>1, <1>2, <1>3, <1>4 DEF BoardStep

LEMMA InvOneLive == IInv => OneLiveWake
BY DEF IInv, Requests, EarlierIsOver, OneLiveWake

\* ensure_wake over the database: whatever the number of users, containers and calls that
\* die, and whatever the waker answers, no judge ever has two live wakes.
THEOREM OneLiveWakeShared == ASSUME Shared PROVE Spec => []OneLiveWake
<1>1. IInv /\ [Next]_vars => IInv'
  BY Shared, StepOfBoard, StepInv
<1> QED
  BY InitInv, InvOneLive, <1>1, PTL DEF Spec


-----------------------------------------------------------------------------
(* Types, for either store                                                 *)

CallType ==
    [step : {"idle", "ensure", "request", "free", "active", "seen", "end"},
     user : Users \cup {"nobody"}, ready : SUBSET Roles, new : BOOLEAN, stamp : Nat,
     over : BOOLEAN, todo : SUBSET Roles, failed : SUBSET Roles, late : SUBSET Roles, bare : BOOLEAN]

PastType == [told : BOOLEAN, old : SUBSET Nat, by : Nat]

\* What TypeOK says of one call.
CallOK(c) ==
    /\ c \in CallType
    /\ c.step \in {"ensure", "request", "seen"} => c.todo # {}
    /\ c.step # "idle" => c.user \in Users

LEMMA TypeOfCalls == TypeOK => call \in [Calls -> CallType] /\ \A p \in Calls : CallOK(call[p])
BY DEF TypeOK, CallType, CallOK

LEMMA IdleOK == CallOK(Idle)
BY DEF Idle, CallOK, CallType

LEMMA InitType == Init => TypeOK
<1> SUFFICES ASSUME Init PROVE TypeOK
  OBVIOUS
<1>1. \A p \in Calls : call[p] = Idle
  BY DEF Init
<1> QED
  BY <1>1 DEF Init, TypeOK, NoPast, Idle, ColdStartConstants

\* The calls keep their types when one of them becomes a well-formed one.
LEMMA SetOK ==
    ASSUME TypeOK, NEW p \in Calls, NEW c, CallOK(c), Set(p, c)
    PROVE  /\ call' \in [Calls -> CallType]
           /\ \A q \in Calls : CallOK(call'[q])
BY TypeOfCalls DEF Set, CallOK

\* What is left of TypeOK beside the calls.
StoreOK ==
    /\ now \in 0 .. MaxTime /\ reqs \in Seq(Request) /\ crashes \in 0 .. MaxCrashes
    /\ starts \in [Users -> Seq(Nat)] /\ cool \in [Users -> Nat]
    /\ slot \in [Users -> Nat] /\ \A u \in Users : slot[u] \in 0 .. Len(starts[u])
    /\ past \in [Users -> PastType]

LEMMA TypeSplit ==
    TypeOK <=> StoreOK /\ call \in [Calls -> CallType] /\ \A p \in Calls : CallOK(call[p])
BY DEF TypeOK, StoreOK, CallType, PastType, CallOK

LEMMA TypeFromParts ==
    ASSUME StoreOK', call' \in [Calls -> CallType], \A q \in Calls : CallOK(call'[q])
    PROVE  TypeOK'
BY DEF TypeOK, StoreOK, CallType, PastType, CallOK

LEMMA EnsuredOK ==
    ASSUME TypeOK, NEW p \in Calls, call[p].step \in {"ensure", "request"}, Ensured(p)
    PROVE  /\ call' \in [Calls -> CallType]
           /\ \A q \in Calls : CallOK(call'[q])
<1> DEFINE c == call[p]
           rest == c.todo \ {FirstOf(c.todo)}
           next == IF rest # {} THEN [c EXCEPT !.step = "ensure", !.todo = rest]
                   ELSE [Idle EXCEPT !.step = "active", !.user = c.user, !.ready = c.ready]
<1>1. CallOK(c)
  BY TypeOfCalls
<1>2. CallOK(next)
  BY <1>1 DEF CallOK, CallType, Idle
<1>3. Set(p, next)
  BY DEF Ensured
<1> HIDE DEF next
<1> QED
  BY <1>2, <1>3, SetOK

LEMMA EvaluateOK ==
    ASSUME TypeOK, NEW p \in Calls, NEW u \in Users, NEW ready \in SUBSET Roles, Evaluate(p, u, ready)
    PROVE  TypeOK'
<1> DEFINE next == IF slot[u] = 0 \/ Dead(u) THEN Idle
                   ELSE [Idle EXCEPT !.step = IF ready = Roles THEN "end" ELSE "seen", !.user = u, !.ready = ready,
                                     !.stamp = slot[u], !.over = SlotAge(u) >= Budget, !.todo = Cold(ready)]
<1>1. (SlotAge(u) >= Budget) \in BOOLEAN
  BY DEF TypeOK, SlotAge, ColdStartConstants
<1>2. slot[u] \in Nat /\ Cold(ready) \in SUBSET Roles /\ (ready # Roles => Cold(ready) # {})
  BY DEF TypeOK, Cold
<1>3. CallOK(next)
  BY <1>1, <1>2, IdleOK DEF CallOK, CallType, Idle
<1>4. Set(p, next)
  BY DEF Evaluate
<1> HIDE DEF next
<1>5. StoreOK'
  BY TypeSplit DEF Evaluate, store, StoreOK
<1> QED
  BY <1>3, <1>4, <1>5, SetOK, TypeFromParts

LEMMA ReleaseOK ==
    ASSUME TypeOK, NEW u \in Users, NEW stamp, NEW ok \in BOOLEAN, EndWake(u, stamp, ok),
           UNCHANGED <<now, reqs, starts, crashes>>
    PROVE  StoreOK'
<1>1. CASE slot[u] = stamp
  <2>1. Release(u, ok)
    BY <1>1 DEF EndWake
  <2>2. now + Cooldown \in Nat
    BY DEF TypeOK, ColdStartConstants
  <2>3. slot' \in [Users -> Nat] /\ \A v \in Users : slot'[v] \in 0 .. Len(starts'[v])
    <3>1. starts \in [Users -> Seq(Nat)] /\ slot \in [Users -> Nat] /\ \A v \in Users : slot[v] \in 0 .. Len(starts[v])
      BY DEF TypeOK
    <3>2. starts' = starts /\ slot' = [slot EXCEPT ![u] = 0]
      BY <2>1 DEF Release
    <3>3. \A v \in Users : Len(starts[v]) \in Nat
      BY <3>1
    <3> QED
      BY <3>1, <3>2, <3>3
  <2>4. cool' \in [Users -> Nat]
    BY <2>1, <2>2 DEF Release, TypeOK
  <2>5. past' \in [Users -> PastType]
    BY <2>1 DEF Release, TypeOK, PastType, NoPast
  <2> QED
    BY <2>3, <2>4, <2>5 DEF TypeOK, StoreOK
<1>2. CASE slot[u] # stamp
  BY <1>2 DEF EndWake, TypeOK, StoreOK, PastType
<1> QED
  BY <1>1, <1>2

LEMMA RequestsOK ==
    ASSUME TypeOK
    PROVE  /\ Swept \in Seq(Request)
           /\ \A role \in Roles : Append(reqs, Asked(role)) \in Seq(Request) /\ Append(Swept, Asked(role)) \in Seq(Request)
<1>1. \A i \in DOMAIN reqs : [reqs[i] EXCEPT !.answer = AnswerOf(reqs[i])] \in Request
  <2> TAKE i \in DOMAIN reqs
  <2>1. reqs[i] \in Request
    BY DEF TypeOK
  <2>2. AnswerOf(reqs[i]) \in {"none", "granted", "failed"}
    BY <2>1 DEF AnswerOf, Request
  <2> QED
    BY <2>1, <2>2 DEF Request
<1>2. Swept \in Seq(Request)
  <2>1. CASE Shared
    BY <2>1 DEF Swept, TypeOK
  <2>2. CASE ~Shared
    <3>1. reqs \in Seq(Request) /\ Len(reqs) \in Nat /\ DOMAIN reqs = 1 .. Len(reqs)
      BY DEF TypeOK
    <3>2. [i \in DOMAIN reqs |-> [reqs[i] EXCEPT !.answer = AnswerOf(reqs[i])]] \in Seq(Request)
      BY <1>1, <3>1
    <3> QED
      BY <2>2, <3>2 DEF Swept
  <2> QED
    BY <2>1, <2>2
<1>3. \A role \in Roles : Asked(role) \in Request
  BY DEF Asked, Request, TypeOK
<1> QED
  BY <1>2, <1>3 DEF TypeOK

LEMMA StartOK == ASSUME TypeOK, NEW p \in Calls, NEW u \in Users, Start(p, u) PROVE TypeOK'
<1> DEFINE new == BeginResult(u) = "new"
<1>1. slot' = [slot EXCEPT ![u] = IF new THEN Len(starts[u]) + 1 ELSE IF Dead(u) THEN 0 ELSE @]
  BY DEF Start
<1>2. starts' = IF new THEN [starts EXCEPT ![u] = Append(@, now)] ELSE starts
  BY DEF Start
<1>3. now \in Nat /\ now + Cooldown \in Nat /\ FailedRequests \subseteq Nat
  <2>1. now \in Nat
    BY DEF TypeOK
  <2>2. Cooldown \in Nat
    BY ColdStartConstants DEF ColdStartConstants
  <2>3. FailedRequests \subseteq Nat
    <3>1. reqs \in Seq(Request)
      BY DEF TypeOK
    <3>2. DOMAIN reqs \subseteq Nat
      BY <3>1
    <3> QED
      BY <3>2 DEF FailedRequests
  <2> QED
    BY <2>1, <2>2, <2>3
<1>4. starts' \in [Users -> Seq(Nat)] /\ slot' \in [Users -> Nat] /\ \A v \in Users : slot'[v] \in 0 .. Len(starts'[v])
  <2>1. CASE new
    <3>1. Append(starts[u], now) \in Seq(Nat) /\ Len(Append(starts[u], now)) = Len(starts[u]) + 1
      BY <1>3 DEF TypeOK
    <3>2. Len(starts[u]) + 1 \in Nat
      BY DEF TypeOK
    <3>3. starts' = [starts EXCEPT ![u] = Append(starts[u], now)] /\ slot' = [slot EXCEPT ![u] = Len(starts[u]) + 1]
      BY <1>1, <1>2, <2>1
    <3> HIDE DEF new
    <3>4. starts' \in [Users -> Seq(Nat)] /\ slot' \in [Users -> Nat]
      BY <3>1, <3>2, <3>3 DEF TypeOK
    <3>5. ASSUME NEW v \in Users PROVE slot'[v] \in 0 .. Len(starts'[v])
      <4>1. CASE v = u
        BY <3>1, <3>2, <3>3, <4>1 DEF TypeOK
      <4>2. CASE v # u
        BY <3>3, <4>2 DEF TypeOK
      <4> QED
        BY <4>1, <4>2
    <3> QED
      BY <3>4, <3>5
  <2>2. CASE ~new
    BY <1>1, <1>2, <2>2 DEF TypeOK
  <2> QED
    BY <2>1, <2>2
<1>5. cool' \in [Users -> Nat]
  BY <1>3 DEF Start, TypeOK
<1>6. past' \in [Users -> PastType]
  <2>1. NoPast \in PastType /\ [NoPast EXCEPT !.old = FailedRequests] \in PastType
    BY <1>3 DEF NoPast, PastType
  <2>2. past \in [Users -> PastType]
    BY DEF TypeOK, PastType
  <2> QED
    BY <2>1, <2>2 DEF Start
<1>7. StoreOK'
  BY <1>4, <1>5, <1>6 DEF Start, TypeOK, StoreOK
<1>8. CASE BeginResult(u) \in {"new", "existing"}
  <2>1. PICK ready \in Readings \ {Roles} :
          Set(p, [Idle EXCEPT !.step = "ensure", !.user = u, !.ready = ready, !.new = new,
                              !.stamp = slot'[u], !.todo = Cold(ready)])
    BY <1>8 DEF Start
  <2>2. ready \in SUBSET Roles /\ Cold(ready) \in SUBSET Roles /\ Cold(ready) # {}
    BY DEF ColdStartConstants, Cold
  <2>3. CallOK([Idle EXCEPT !.step = "ensure", !.user = u, !.ready = ready, !.new = new,
                            !.stamp = slot'[u], !.todo = Cold(ready)])
    BY <2>2, <1>4 DEF CallOK, CallType, Idle
  <2> QED
    BY <1>7, <2>1, <2>3, SetOK, TypeFromParts
<1>9. CASE BeginResult(u) \notin {"new", "existing"}
  BY <1>7, <1>9, TypeOfCalls, TypeFromParts DEF Start
<1> QED
  BY <1>8, <1>9

LEMMA SeenOK == ASSUME TypeOK, NEW p \in Calls, Seen(p) PROVE TypeOK'
<1> DEFINE c == call[p]
           role == FirstOf(c.todo)
           answers == {AnswerOf(reqs[i]) : i \in Latest(role)}
           failed == c.failed \cup (IF "failed" \in answers THEN {role} ELSE {})
           late == c.late \cup (IF answers = {} \/ (answers # {"failed"} /\ c.over) THEN {role} ELSE {})
           bare == c.bare \/ (role = "first" /\ past[c.user].by = 0)
           read == [c EXCEPT !.todo = @ \ {role}, !.failed = failed, !.late = late, !.bare = bare]
           next == IF read.todo # {} THEN read
                   ELSE IF StateOf(read) = "waking" THEN Idle ELSE [read EXCEPT !.step = "end"]
<1>1. CallOK(c) /\ c.step = "seen"
  BY TypeOfCalls DEF Seen, At
<1>2. failed \in SUBSET Roles /\ late \in SUBSET Roles /\ bare \in BOOLEAN
  BY <1>1 DEF CallOK, CallType, FirstOf
<1>3. Set(p, next)
  BY <1>1 DEF Seen, CallOK, CallType
<1> HIDE DEF failed, late, bare
<1>4. CallOK(next)
  BY <1>1, <1>2, IdleOK DEF CallOK, CallType
<1>5. StoreOK'
  BY RequestsOK DEF Seen, TypeOK, StoreOK, PastType
<1> HIDE DEF next
<1> QED
  BY <1>3, <1>4, <1>5, SetOK, TypeFromParts

LEMMA GotOK ==
    ASSUME TypeOK, NEW p \in Calls, NEW i \in Nat, Got(p, i) PROVE past' \in [Users -> PastType]
<1> DEFINE u == call[p].user
<1>1. past \in [Users -> PastType]
  BY DEF TypeOK, PastType
<1>2. CASE past' = past
  BY <1>1, <1>2
<1>3. CASE past' = [past EXCEPT ![u].by = i]
  <2>1. past[u] \in PastType => [past[u] EXCEPT !.by = i] \in PastType
    BY DEF PastType
  <2> QED
    BY <1>1, <1>3, <2>1
<1> QED
  BY <1>2, <1>3 DEF Got

LEMMA AskOK ==
    ASSUME TypeOK, NEW p \in Calls, Ensure(p) \/ EnsureLook(p) \/ EnsureRequest(p)
    PROVE  reqs' \in Seq(Request) /\ past' \in [Users -> PastType]
<1>1. FirstOf(call[p].todo) \in Roles
  BY DEF FirstOf
<1>2. reqs \in Seq(Request) /\ Swept \in Seq(Request) /\ past \in [Users -> PastType]
  BY RequestsOK DEF TypeOK, PastType
<1>3. ASSUME NEW board \in {reqs, Swept}, Make(p, board)
      PROVE  reqs' \in Seq(Request) /\ past' \in [Users -> PastType]
  BY <1>1, <1>2, <1>3, RequestsOK, GotOK DEF Make
<1>4. DOMAIN reqs \subseteq Nat /\ DOMAIN Swept \subseteq Nat
  BY <1>2
<1>5. \A i \in Nat : Got(p, i) => past' \in [Users -> PastType]
  BY GotOK
<1>6. \A role \in Roles : Latest(role) \subseteq Nat
  BY <1>4 DEF Latest
<1>7. CASE Ensure(p)
  BY <1>1, <1>2, <1>3, <1>5, <1>6, <1>7 DEF Ensure
<1>8. CASE EnsureLook(p)
  BY <1>1, <1>2, <1>5, <1>6, <1>8 DEF EnsureLook
<1>9. CASE EnsureRequest(p)
  BY <1>2, <1>3, <1>4, <1>5, <1>9 DEF EnsureRequest
<1> QED
  BY <1>7, <1>8, <1>9

LEMMA StepType == ASSUME TypeOK, [Next]_vars PROVE TypeOK'
<1>1. CASE UNCHANGED vars
  BY <1>1 DEF vars, store, TypeOK
<1>2. ASSUME NEW p \in Calls, NEW u \in Users, StartReady(p, u) PROVE TypeOK'
  <2>1. (slot[u] # 0) \in BOOLEAN
    OBVIOUS
  <2>2. past' \in [Users -> PastType]
    <3>1. past \in [Users -> PastType] /\ past[u] \in PastType
      BY DEF TypeOK, PastType
    <3>2. PICK told \in BOOLEAN : past' = [past EXCEPT ![u].told = told]
      BY <1>2, <2>1 DEF StartReady
    <3>3. [past[u] EXCEPT !.told = told] \in PastType
      BY <3>1 DEF PastType
    <3> QED
      BY <3>1, <3>2, <3>3
  <2> QED
    BY <1>2, <2>2 DEF StartReady, store, TypeOK, PastType
<1>3. ASSUME NEW p \in Calls, NEW u \in Users, Start(p, u) PROVE TypeOK'
  BY <1>3, StartOK
<1>4. ASSUME NEW p \in Calls, NEW u \in Users, Status(p, u) PROVE TypeOK'
  BY <1>4, EvaluateOK DEF Status, ColdStartConstants
<1>5. ASSUME NEW p \in Calls, Active(p) PROVE TypeOK'
  <2>1. call[p].user \in Users /\ call[p].ready \in SUBSET Roles
    BY <1>5, TypeOfCalls DEF Active, At, CallOK, CallType
  <2> QED
    BY <1>5, <2>1, EvaluateOK DEF Active
<1>6. ASSUME NEW p \in Calls, Ensure(p) \/ EnsureLook(p) \/ EnsureRequest(p) PROVE TypeOK'
  <2>3. StoreOK'
    BY <1>6, AskOK DEF Ensure, EnsureLook, EnsureRequest, StoreOK, TypeOK
  <2>4. call[p].step \in {"ensure", "request"}
    BY <1>6 DEF Ensure, EnsureLook, EnsureRequest, At
  <2>5. CASE Ensured(p)
    BY <2>3, <2>4, <2>5, EnsuredOK, TypeFromParts
  <2>6. CASE Set(p, [call[p] EXCEPT !.step = "request"])
    <3>1. CallOK(call[p])
      BY TypeOfCalls
    <3>2. CallOK([call[p] EXCEPT !.step = "request"])
      BY <2>4, <3>1 DEF CallOK, CallType
    <3> QED
      BY <2>3, <2>6, <3>2, SetOK, TypeFromParts
  <2> QED
    BY <1>6, <2>5, <2>6 DEF Ensure, EnsureLook, EnsureRequest
<1>7. ASSUME NEW p \in Calls, EnsureFails(p) \/ Crash(p) PROVE TypeOK'
  <2>1. StoreOK'
    BY <1>7 DEF EnsureFails, Crash, store, StoreOK, TypeOK, PastType, ColdStartConstants
  <2>2. CallOK(call[p])
    BY TypeOfCalls
  <2>3. CASE Set(p, [call[p] EXCEPT !.step = "free"]) /\ At(p, "ensure")
    <3>1. CallOK([call[p] EXCEPT !.step = "free"])
      BY <2>2, <2>3 DEF CallOK, CallType, At
    <3> QED
      BY <2>1, <2>3, <3>1, SetOK, TypeFromParts
  <2>4. CASE Set(p, Idle)
    BY <2>1, <2>4, IdleOK, SetOK, TypeFromParts
  <2> QED
    BY <1>7, <2>3, <2>4 DEF EnsureFails, Crash
<1>8. ASSUME NEW p \in Calls, Free(p) \/ End(p) PROVE TypeOK'
  <2>1. call[p].user \in Users
    BY <1>8, TypeOfCalls DEF Free, End, At, CallOK
  <2>2. PICK ok \in BOOLEAN : EndWake(call[p].user, call[p].stamp, ok)
    <3>1. (StateOf(call[p]) \in {"ready", "partial"}) \in BOOLEAN
      OBVIOUS
    <3> QED
      BY <1>8, <3>1 DEF Free, End
  <2>3. UNCHANGED <<now, reqs, starts, crashes>>
    BY <1>8 DEF Free, End
  <2>4. StoreOK'
    BY <2>1, <2>2, <2>3, ReleaseOK
  <2> QED
    BY <1>8, <2>4, IdleOK, SetOK, TypeFromParts DEF Free, End
<1>9. ASSUME NEW p \in Calls, Seen(p) PROVE TypeOK'
  BY <1>9, SeenOK
<1>10. CASE Poll
  BY <1>10, RequestsOK DEF Poll, TypeOK
<1>11. ASSUME NEW i \in DOMAIN reqs, NEW answer \in {"granted", "failed"}, Deliver(i, answer) PROVE TypeOK'
  <2>1. reqs[i] \in Request
    BY DEF TypeOK
  <2>2. [reqs[i] EXCEPT !.answer = answer] \in Request
    BY <2>1 DEF Request
  <2>3. reqs' \in Seq(Request)
    BY <1>11, <2>2 DEF Deliver, TypeOK
  <2> QED
    BY <1>11, <2>3 DEF Deliver, TypeOK
<1>12. CASE Tick
  BY <1>12 DEF Tick, store, TypeOK, ColdStartConstants
<1> QED
  BY <1>1, <1>2, <1>3, <1>4, <1>5, <1>6, <1>7, <1>8, <1>9, <1>10, <1>11, <1>12 DEF Next

\* Over either store every variable keeps its type, and no call is left at a step it
\* has nothing to do at.
THEOREM TypeCorrect == Spec => []TypeOK
<1>1. TypeOK /\ [Next]_vars => TypeOK'
  BY StepType
<1> QED
  BY InitType, <1>1, PTL DEF Spec

-----------------------------------------------------------------------------
(* Who takes a wake from its user                                          *)

\* The step of one action property.
OwnRelease ==
    \A u \in Users : slot[u] # 0 /\ slot'[u] # slot[u] =>
        Dead(u) \/ \E p \in Calls : /\ call[p].user = u /\ call[p].stamp = slot[u]
                                    /\ call[p].step \in {"end", "free"} /\ call'[p] = Idle

LEMMA StepRelease == ASSUME TypeOK, [Next]_vars PROVE OwnRelease
<1>1. CASE UNCHANGED slot
  BY <1>1 DEF OwnRelease
<1>2. ASSUME NEW p \in Calls, NEW u \in Users, Start(p, u) PROVE OwnRelease
  <2>1. BeginResult(u) = "new" => slot[u] = 0 \/ Dead(u)
    BY DEF BeginResult
  <2>2. \A v \in Users : slot'[v] # slot[v] => v = u /\ (BeginResult(u) = "new" \/ Dead(u))
    <3>1. slot' = [slot EXCEPT ![u] = IF BeginResult(u) = "new" THEN Len(starts[u]) + 1
                                      ELSE IF Dead(u) THEN 0 ELSE @]
      BY <1>2, Zenon DEF Start
    <3>2. slot \in [Users -> Nat]
      BY DEF TypeOK
    <3> QED
      BY <3>1, <3>2
  <2> QED
    BY <2>1, <2>2 DEF OwnRelease
<1>3. ASSUME NEW p \in Calls, Free(p) \/ End(p) PROVE OwnRelease
  <2>1. call'[p] = Idle /\ call[p].step \in {"end", "free"}
    BY <1>3 DEF Free, End, At, Set, TypeOK
  <2>2. \A u \in Users : slot'[u] # slot[u] => u = call[p].user /\ slot[u] = call[p].stamp
    BY <1>3 DEF Free, End, EndWake, Release, TypeOK
  <2> QED
    BY <2>1, <2>2 DEF OwnRelease
<1>4. ASSUME ~(UNCHANGED slot) PROVE
        \E p \in Calls : Free(p) \/ End(p) \/ \E u \in Users : Start(p, u)
  BY <1>4 DEF Next, vars, store, StartReady, Status, Evaluate, Ensure, EnsureLook, EnsureRequest, EnsureFails,
              Active, Seen, Crash, Poll, Deliver, Tick
<1> QED
  BY <1>1, <1>2, <1>3, <1>4

\* Over either store and for any number of calls at once: a late end does not take a newer
\* wake from its user, and a wake that is not dead is taken only by a call that read it.
THEOREM WakeReleasedByItsOwn == Spec => ReleasedByItsOwn
<1>1. TypeOK /\ [Next]_vars => [OwnRelease]_vars
  BY StepRelease
<1> QED
  BY TypeCorrect, <1>1, PTL DEF Spec, ReleasedByItsOwn, OwnRelease

-----------------------------------------------------------------------------
(* Why a wake fails                                                        *)

HIDE ColdStartConstants DEF Roles

LEMMA Sizes ==
    /\ {Budget, ReqTtl, RowTtl, ActiveTtl} \subseteq Nat \ {0} /\ ActiveTtl > Budget
    /\ Shared \in BOOLEAN /\ Readings \subseteq SUBSET Roles
BY ColdStartConstants DEF ColdStartConstants

\* The board in memory never asks beside a request that waits for its answer.
LastWaits ==
    ~Shared => \A i, j \in DOMAIN reqs :
                  i < j /\ reqs[i].label = reqs[j].label => reqs[i].answer # "none"

\* What had failed when a wake began does not wait for an answer any more.
OldAnswered ==
    \A u \in Users : \A i \in past[u].old : i \in DOMAIN reqs /\ AnswerOf(reqs[i]) # "none"

\* The request a wake got for the first judge: had it failed before, it was granted late;
\* and no later one that the board still shows had failed before.
Own(u) ==
    /\ past[u].by \in DOMAIN reqs /\ reqs[past[u].by].label = "first"
    /\ past[u].by \in past[u].old => reqs[past[u].by].answer = "granted"
    /\ \A j \in DOMAIN reqs : j > past[u].by /\ reqs[j].label = "first" => j \notin past[u].old \/ ~Kept(reqs[j])

\* That request, or a later one, failed for good after the wake began.
FailedSince(u) ==
    \E i \in DOMAIN reqs : /\ i >= past[u].by /\ reqs[i].label = "first" /\ i \notin past[u].old
                           /\ reqs[i].answer = "failed" \/ (Shared /\ Expired(reqs[i]))

\* A reason to fail the wake, which stays one while the wake lasts.
Why(u) ==
    \/ SlotAge(u) >= Budget
    \/ past[u].by # 0 /\ (~Kept(reqs[past[u].by]) \/ FailedSince(u))

\* What a call has found of the wake it reads, when that is still the active one.
Finds(c) ==
    /\ c.step \in {"seen", "end"} =>
        /\ c.stamp \in 1 .. Len(starts[c.user])
        /\ slot[c.user] = c.stamp =>
             /\ c.over => SlotAge(c.user) >= Budget
             /\ "first" \in c.late \cup c.failed => c.bare \/ Why(c.user)
    /\ c.step = "end" => StateOf(c) # "waking"

ReasonInv ==
    /\ LastWaits /\ OldAnswered
    /\ \A u \in Users : past[u].by # 0 => Own(u)
    /\ \A p \in Calls : Finds(call[p])

\* The step of FailedForReason.
Reason ==
    \A u \in Punished :
        \/ SlotAge(u) >= Budget
        \/ OwnFailure(u)
        \/ past[u].by # 0 /\ ~Kept(reqs[past[u].by])
        \/ \E p \in Calls : Ends(p, u) /\ call[p].bare
-----------------------------------------------------------------------------
\* What a step does to the requests: an answer is final, and over the database an expired
\* request gets none; a new request is the last, and in memory none like it still waits.
Moves ==
    /\ now' >= now /\ DOMAIN reqs \subseteq DOMAIN reqs'
    /\ \A i \in DOMAIN reqs :
         /\ reqs'[i].label = reqs[i].label /\ reqs'[i].created = reqs[i].created
         /\ reqs'[i].answer = reqs[i].answer \/ (reqs[i].answer = "none" /\ ~(Shared /\ Expired(reqs[i])))
    /\ \A k \in DOMAIN reqs' \ DOMAIN reqs :
         /\ reqs'[k].created = now /\ \A j \in DOMAIN reqs' : j <= k
         /\ ~Shared => \A j \in DOMAIN reqs : reqs'[j].label = reqs'[k].label => reqs'[j].answer # "none"

\* What a step does to the wake of a user: it stays, perhaps with the request it has got; it
\* goes; or it begins.
Stays(u) == /\ slot'[u] = slot[u] /\ starts'[u] = starts[u] /\ past'[u].old = past[u].old
            /\ past'[u].by # past[u].by => past[u].by = 0 /\ Own(u)'
Goes(u)  == slot'[u] = 0 /\ starts'[u] = starts[u] /\ past'[u] = NoPast
Comes(u) == /\ slot'[u] = Len(starts[u]) + 1 /\ Len(starts'[u]) = Len(starts[u]) + 1
            /\ past'[u].old = FailedRequests /\ past'[u].by = 0 /\ UNCHANGED <<now, reqs>>

Known == TypeOK /\ TypeOK' /\ ReasonInv

LEMMA SameBoard == ASSUME TypeOK, UNCHANGED reqs, now' \in {now, now + 1} PROVE Moves
BY DEF TypeOK, Moves

LEMMA SweptIs ==
    ASSUME TypeOK
    PROVE  /\ DOMAIN Swept = DOMAIN reqs
           /\ \A i \in DOMAIN reqs :
                /\ Swept[i].label = reqs[i].label /\ Swept[i].created = reqs[i].created
                /\ Swept[i].answer = IF Shared THEN reqs[i].answer ELSE AnswerOf(reqs[i])
<1>1. \A i \in DOMAIN reqs : reqs[i] \in Request
  BY DEF TypeOK
<1> QED
  BY <1>1 DEF Swept, Request

LEMMA SweptMoves == ASSUME TypeOK, reqs' = Swept, now' = now PROVE Moves
BY SweptIs DEF TypeOK, Moves, AnswerOf, Expired

LEMMA AskMoves ==
    ASSUME TypeOK, TypeOK', NEW role \in Roles, now' = now,
           \/ reqs' = Append(reqs, Asked(role)) /\ Shared
           \/ /\ reqs' = Append(Swept, Asked(role))
              /\ \A i \in DOMAIN Swept : Swept[i].label = role => Swept[i].answer # "none"
    PROVE  /\ Moves
           /\ Len(reqs) + 1 \in DOMAIN reqs' /\ reqs'[Len(reqs) + 1] = Asked(role)
           /\ DOMAIN reqs' = DOMAIN reqs \cup {Len(reqs) + 1}
<1> DEFINE board == IF reqs' = Append(reqs, Asked(role)) /\ Shared THEN reqs ELSE Swept
           n == Len(reqs) + 1
<1>1. board \in Seq(Request) /\ Asked(role) \in Request /\ reqs \in Seq(Request)
  BY RequestsOK DEF TypeOK, Asked, Request
<1>2. DOMAIN board = DOMAIN reqs /\ Len(board) = Len(reqs) /\ reqs' = Append(board, Asked(role))
  BY <1>1, SweptIs
<1>3. /\ DOMAIN reqs' = 1 .. n /\ reqs'[n] = Asked(role) /\ DOMAIN reqs = 1 .. Len(reqs)
      /\ \A i \in DOMAIN reqs : reqs'[i] = board[i]
  <2> HIDE DEF board
  <2> QED
    BY <1>1, <1>2
<1>4. \A i \in DOMAIN reqs :
        /\ board[i].label = reqs[i].label /\ board[i].created = reqs[i].created
        /\ board[i].answer = reqs[i].answer \/ (reqs[i].answer = "none" /\ ~(Shared /\ Expired(reqs[i])))
  BY SweptIs DEF AnswerOf, Expired
<1>5. ~Shared => \A i \in DOMAIN reqs : board[i].label = role => board[i].answer # "none"
  BY <1>2
<1> HIDE DEF board
<1>6. Asked(role).created = now /\ Asked(role).label = role
  BY DEF Asked
<1>7. DOMAIN reqs' \ DOMAIN reqs = {n} /\ DOMAIN reqs \subseteq DOMAIN reqs' /\ DOMAIN reqs' = DOMAIN reqs \cup {n}
  BY <1>1, <1>3
<1>8. \A i \in DOMAIN reqs : /\ reqs'[i].label = reqs[i].label /\ reqs'[i].created = reqs[i].created
                             /\ reqs'[i].answer = reqs[i].answer \/ (reqs[i].answer = "none" /\ ~(Shared /\ Expired(reqs[i])))
  BY <1>3, <1>4
<1>9. /\ reqs'[n].created = now /\ \A j \in DOMAIN reqs' : j <= n
      /\ ~Shared => \A j \in DOMAIN reqs : reqs'[j].label = reqs'[n].label => reqs'[j].answer # "none"
  BY <1>1, <1>3, <1>5, <1>6
<1>10. now' >= now
  BY DEF TypeOK
<1> HIDE DEF n
<1>11. Moves
  BY <1>7, <1>8, <1>9, <1>10 DEF Moves
<1> QED
  BY <1>3, <1>7, <1>11 DEF n

LEMMA DeliverMoves ==
    ASSUME TypeOK, NEW i \in DOMAIN reqs, NEW answer \in {"granted", "failed"}, Deliver(i, answer)
    PROVE  Moves
<1>1. reqs[i] \in Request
  BY DEF TypeOK
<1>2. DOMAIN reqs' = DOMAIN reqs /\ \A j \in DOMAIN reqs : IF j = i THEN reqs'[j] = [reqs[i] EXCEPT !.answer = answer] ELSE reqs'[j] = reqs[j]
  BY DEF Deliver, TypeOK
<1> QED
  BY <1>1, <1>2 DEF Deliver, Moves, Request, TypeOK

\* The numbers a proof needs of the requests.
LEMMA Numbers ==
    ASSUME TypeOK
    PROVE  /\ now \in Nat /\ DOMAIN reqs \subseteq Nat
           /\ \A i \in DOMAIN reqs : /\ reqs[i].created \in Nat /\ reqs[i].label \in Roles
                                     /\ reqs[i].answer \in {"none", "granted", "failed"}
           /\ \A u \in Users : slot[u] # 0 => starts[u][slot[u]] \in Nat
<1>1. \A i \in DOMAIN reqs : reqs[i] \in Request
  BY DEF TypeOK
<1> QED
  BY <1>1 DEF TypeOK, Request

LEMMA Becomes == ASSUME TypeOK, NEW p \in Calls, NEW c, Set(p, c) PROVE call'[p] = c
BY DEF Set, TypeOK

\* A wake that is not told to be a success failed for its first judge.
LEMMA NotEnough ==
    ASSUME NEW c, CallOK(c), StateOf(c) # "waking"
    PROVE  StateOf(c) \in {"ready", "partial"} \/ "first" \in c.late \/ "first" \in c.failed
BY DEF StateOf

\* A set of requests that is not empty has a last one.
Less == {p \in Nat \X Nat : p[1] < p[2]}

LEMMA Greatest ==
    ASSUME NEW n \in Nat, NEW S \in SUBSET (1 .. n), S # {}
    PROVE  \E i \in S : \A j \in S : j <= i
<1> DEFINE T == {k \in 0 .. n : n - k \in S}
<1>1. IsWellFoundedOn(Less, Nat)
  BY NatLessThanWellFounded DEF OpToRel, Less
<1>2. PICK x \in T : \A y \in T : ~(<<y, x>> \in Less)
  <2>1. PICK i \in S : TRUE
    OBVIOUS
  <2>2. n - i \in T
    BY <2>1
  <2>3. T \subseteq Nat
    OBVIOUS
  <2> HIDE DEF T
  <2> QED
    BY <1>1, <2>2, <2>3, WFMin
<1>3. ASSUME NEW j \in S PROVE j <= n - x
  <2>1. n - j \in T /\ j \in Nat
    OBVIOUS
  <2>2. ~(n - j < x)
    <3>1. ~(<<n - j, x>> \in Less)
      BY <1>2, <2>1
    <3>2. n - j \in Nat /\ x \in Nat
      BY <2>1
    <3> HIDE DEF T
    <3> QED
      BY <3>1, <3>2 DEF Less
  <2> QED
    BY <1>2, <2>1, <2>2
<1> QED
  BY <1>2, <1>3


\* A kept request leaves no judge without a latest one.
LEMMA LatestIs ==
    ASSUME TypeOK, NEW role \in Roles, NEW b \in DOMAIN reqs, reqs[b].label = role, Kept(reqs[b])
    PROVE  Latest(role) # {}
<1> DEFINE Shown == {i \in DOMAIN reqs : reqs[i].label = role /\ Kept(reqs[i])}
<1>1. Shown \subseteq 1 .. Len(reqs) /\ Len(reqs) \in Nat /\ b \in Shown
  BY DEF TypeOK
<1>2. PICK i \in Shown : \A j \in Shown : j <= i
  <2> HIDE DEF Shown
  <2> QED
    BY <1>1, Greatest
<1>3. i \in Latest(role)
  BY <1>2 DEF Latest, IsLatest
<1> QED
  BY <1>3

LEMMA Clock == ASSUME Known, Moves PROVE now \in Nat /\ now' \in Nat /\ now' >= now
BY DEF Known, Moves, TypeOK

LEMMA OrderKept == ASSUME Known, Moves PROVE LastWaits'
<1> SUFFICES ASSUME ~Shared, NEW i \in DOMAIN reqs', NEW j \in DOMAIN reqs', i < j, reqs'[i].label = reqs'[j].label
             PROVE  reqs'[i].answer # "none"
  BY DEF LastWaits
<1>1. DOMAIN reqs \subseteq Nat /\ DOMAIN reqs' \subseteq Nat
  BY DEF Known, TypeOK
<1>2. i \in DOMAIN reqs
  BY <1>1 DEF Moves
<1>3. CASE j \in DOMAIN reqs
  BY <1>2, <1>3 DEF Known, Moves, ReasonInv, LastWaits
<1>4. CASE j \notin DOMAIN reqs
  BY <1>2, <1>4 DEF Moves
<1> QED
  BY <1>3, <1>4

\* What is answered, or has expired, waits no more.
LEMMA AnsweredKept ==
    ASSUME Known, Moves, NEW i \in DOMAIN reqs, AnswerOf(reqs[i]) # "none"
    PROVE  i \in DOMAIN reqs' /\ AnswerOf(reqs[i])' # "none"
<1>1. /\ i \in DOMAIN reqs' /\ reqs'[i].created = reqs[i].created
      /\ reqs'[i].answer = reqs[i].answer \/ reqs[i].answer = "none"
  BY DEF Moves
<1>2. now \in Nat /\ now' \in Nat /\ now' >= now /\ reqs[i].created \in Nat
  BY Clock, Numbers DEF Known
<1>3. reqs'[i].answer = "none" => Expired(reqs[i])
  BY <1>1 DEF AnswerOf
<1>4. Expired(reqs[i]) /\ reqs'[i].answer = "none" => Expired(reqs[i])'
  BY <1>1, <1>2, Sizes DEF Expired, Age
<1> QED
  BY <1>1, <1>3, <1>4 DEF AnswerOf

\* What the board has forgotten it does not show again.
LEMMA ForgottenKept ==
    ASSUME Known, Moves, NEW i \in DOMAIN reqs, ~Kept(reqs[i])
    PROVE  ~Kept(reqs[i])'
<1>1. reqs'[i].created = reqs[i].created
  BY DEF Moves
<1>2. now \in Nat /\ now' \in Nat /\ now' >= now /\ reqs[i].created \in Nat
  BY Clock, Numbers DEF Known
<1> QED
  BY <1>1, <1>2, Sizes DEF Kept, Age

LEMMA OldKept ==
    ASSUME Known, Moves, \A u \in Users : Stays(u) \/ Goes(u) \/ Comes(u)
    PROVE  OldAnswered'
<1> SUFFICES ASSUME NEW u \in Users, NEW i \in past'[u].old
             PROVE  i \in DOMAIN reqs' /\ AnswerOf(reqs[i])' # "none"
  BY DEF OldAnswered
<1>1. i \in DOMAIN reqs /\ AnswerOf(reqs[i]) # "none"
  <2>1. CASE Stays(u)
    BY <2>1 DEF Stays, Known, ReasonInv, OldAnswered
  <2>2. CASE Goes(u)
    BY <2>2 DEF Goes, NoPast
  <2>3. CASE Comes(u)
    BY <2>3 DEF Comes, FailedRequests
  <2> QED
    BY <2>1, <2>2, <2>3
<1> QED
  BY <1>1, AnsweredKept

\* A wake keeps the request it has got.
LEMMA OwnKept ==
    ASSUME Known, Moves, NEW u \in Users, past'[u].old = past[u].old, past'[u].by = past[u].by, Own(u)
    PROVE  Own(u)'
<1> DEFINE b == past[u].by
<1>1. /\ b \in DOMAIN reqs' /\ reqs'[b].label = "first"
      /\ b \in past'[u].old => reqs'[b].answer = "granted"
  BY DEF Own, Moves
<1>2. ASSUME NEW j \in DOMAIN reqs', j > b, reqs'[j].label = "first", j \in past'[u].old
      PROVE  ~Kept(reqs[j])'
  <2>1. j \in DOMAIN reqs
    BY <1>2 DEF Known, ReasonInv, OldAnswered
  <2>2. ~Kept(reqs[j])
    BY <1>2, <2>1 DEF Own, Moves
  <2> QED
    BY <2>1, <2>2, ForgottenKept
<1> QED
  BY <1>1, <1>2 DEF Own

LEMMA OwnsKept ==
    ASSUME Known, Moves, NEW u \in Users, Stays(u) \/ Goes(u) \/ Comes(u), past'[u].by # 0
    PROVE  Own(u)'
<1>1. Stays(u)
  BY DEF Goes, Comes, NoPast
<1>2. CASE past'[u].by = past[u].by
  BY <1>1, <1>2, OwnKept DEF Stays, Known, ReasonInv
<1> QED
  BY <1>1, <1>2 DEF Stays

LEMMA AgeKept ==
    ASSUME Known, Moves, NEW u \in Users, slot[u] # 0, Stays(u), SlotAge(u) >= Budget
    PROVE  SlotAge(u)' >= Budget
<1>1. starts[u][slot[u]] \in Nat /\ now \in Nat /\ now' \in Nat /\ now' >= now
  BY Clock, Numbers DEF Known
<1> QED
  BY <1>1, Sizes DEF SlotAge, Stays

LEMMA SinceKept ==
    ASSUME Known, Moves, NEW u \in Users, past'[u].old = past[u].old, past'[u].by = past[u].by, FailedSince(u)
    PROVE  FailedSince(u)'
<1>1. PICK i \in DOMAIN reqs : /\ i >= past[u].by /\ reqs[i].label = "first" /\ i \notin past[u].old
                               /\ reqs[i].answer = "failed" \/ (Shared /\ Expired(reqs[i]))
  BY DEF FailedSince
<1>2. /\ i \in DOMAIN reqs' /\ i >= past'[u].by /\ reqs'[i].label = "first" /\ i \notin past'[u].old
      /\ reqs'[i].created = reqs[i].created /\ reqs'[i].answer = reqs[i].answer
  BY <1>1 DEF Moves, Expired
<1>3. now \in Nat /\ now' \in Nat /\ now' >= now /\ reqs[i].created \in Nat
  BY <1>1, Clock, Numbers DEF Known
<1>4. Expired(reqs[i]) => Expired(reqs[i])'
  BY <1>2, <1>3, Sizes DEF Expired, Age
<1> QED
  BY <1>1, <1>2, <1>4 DEF FailedSince

LEMMA WhyKept ==
    ASSUME Known, Moves, NEW u \in Users, slot[u] # 0, Stays(u), Why(u)
    PROVE  Why(u)'
<1>1. CASE SlotAge(u) >= Budget
  BY <1>1, AgeKept DEF Why
<1>2. CASE past[u].by # 0 /\ (~Kept(reqs[past[u].by]) \/ FailedSince(u))
  <2>1. past'[u].by = past[u].by /\ past'[u].old = past[u].old /\ past[u].by \in DOMAIN reqs
    BY <1>2 DEF Stays, Known, ReasonInv, Own
  <2>2. ~Kept(reqs[past[u].by]) => ~Kept(reqs[past[u].by])'
    BY <2>1, ForgottenKept
  <2> QED
    BY <1>2, <2>1, <2>2, SinceKept DEF Why
<1> QED
  BY <1>1, <1>2 DEF Why

LEMMA FindsKept ==
    ASSUME Known, Moves, NEW p \in Calls, call'[p] = call[p],
           \A u \in Users : Stays(u) \/ Goes(u) \/ Comes(u)
    PROVE  Finds(call[p])'
<1> DEFINE u == call[p].user
<1>1. Finds(call[p]) /\ StateOf(call[p])' = StateOf(call[p])
  BY DEF Known, ReasonInv, StateOf
<1>2. CASE call[p].step \in {"seen", "end"}
  <2>1. u \in Users /\ call[p].stamp \in 1 .. Len(starts[u])
    BY <1>1, <1>2, TypeOfCalls DEF Known, CallOK, Finds
  <2>2. Len(starts[u]) \in Nat /\ Len(starts'[u]) \in Nat /\ Len(starts'[u]) >= Len(starts[u])
    <3>1. Len(starts[u]) \in Nat
      BY <2>1 DEF Known, TypeOK
    <3> QED
      BY <2>1, <3>1 DEF Stays, Goes, Comes
  <2>3. call[p].stamp \in 1 .. Len(starts'[u])
    BY <2>1, <2>2
  <2>4. ASSUME slot'[u] = call[p].stamp
        PROVE  /\ call[p].over => SlotAge(u)' >= Budget
               /\ "first" \in call[p].late \cup call[p].failed => call[p].bare \/ Why(u)'
    <3>1. Stays(u) /\ slot[u] = call[p].stamp /\ slot[u] # 0
      BY <2>1, <2>2, <2>4 DEF Stays, Goes, Comes
    <3> QED
      BY <1>1, <1>2, <2>1, <3>1, AgeKept, WhyKept DEF Finds
  <2> QED
    BY <1>1, <1>2, <2>3, <2>4 DEF Finds
<1>3. CASE call[p].step \notin {"seen", "end"}
  BY <1>1, <1>3 DEF Finds
<1> QED
  BY <1>2, <1>3

\* The calls that stand still keep what they found.
LEMMA Carries ==
    ASSUME Known, Moves, \A u \in Users : Stays(u) \/ Goes(u) \/ Comes(u),
           \A p \in Calls : call'[p] = call[p] \/ Finds(call[p])'
    PROVE  ReasonInv'
<1>1. \A p \in Calls : Finds(call[p])'
  BY FindsKept
<1> QED
  BY <1>1, OrderKept, OldKept, OwnsKept DEF ReasonInv

\* One call goes on.
LEMMA CallStep ==
    ASSUME Known, Moves, \A u \in Users : Stays(u) \/ Goes(u) \/ Comes(u),
           NEW p \in Calls, NEW c, Set(p, c), Finds(call[p])'
    PROVE  ReasonInv'
<1>1. \A q \in Calls : q = p \/ call'[q] = call[q]
  BY DEF Set, Known, TypeOK
<1> QED
  BY <1>1, Carries

\* The steps at which no call and no wake changes.
LEMMA WorldStep ==
    ASSUME Known, \/ UNCHANGED vars \/ Poll \/ Tick
                  \/ \E i \in DOMAIN reqs, answer \in {"granted", "failed"} : Deliver(i, answer)
                  \/ \E p \in Calls, u \in Users : StartReady(p, u)
    PROVE  ReasonInv' /\ UNCHANGED slot
<1>1. CASE UNCHANGED vars \/ Tick
  <2>1. Moves
    BY <1>1, SameBoard DEF Known, Tick, vars, store
  <2>2. call' = call /\ slot' = slot /\ \A u \in Users : Stays(u)
    BY <1>1 DEF Tick, vars, store, Stays
  <2> QED
    BY <2>1, <2>2, Carries
<1>2. CASE Poll
  <2>1. Moves
    BY <1>2, SweptMoves DEF Known, Poll
  <2>2. call' = call /\ slot' = slot /\ \A u \in Users : Stays(u)
    BY <1>2 DEF Poll, Stays
  <2> QED
    BY <2>1, <2>2, Carries
<1>3. ASSUME NEW i \in DOMAIN reqs, NEW answer \in {"granted", "failed"}, Deliver(i, answer)
      PROVE  ReasonInv' /\ UNCHANGED slot
  <2>1. Moves
    BY <1>3, DeliverMoves DEF Known
  <2>2. call' = call /\ slot' = slot /\ \A u \in Users : Stays(u)
    BY <1>3 DEF Deliver, Stays
  <2> QED
    BY <2>1, <2>2, Carries
<1>4. ASSUME NEW p \in Calls, NEW u \in Users, StartReady(p, u)
      PROVE  ReasonInv' /\ UNCHANGED slot
  <2>1. Moves
    BY <1>4, SameBoard DEF Known, StartReady, store
  <2>2. past \in [Users -> PastType] /\ \A v \in Users : past[v] \in PastType
    BY DEF Known, TypeOK, PastType
  <2>3. \A v \in Users : past'[v].old = past[v].old /\ past'[v].by = past[v].by
    BY <1>4, <2>2 DEF StartReady, PastType
  <2>4. call' = call /\ slot' = slot /\ \A v \in Users : Stays(v)
    BY <1>4, <2>3 DEF StartReady, store, Stays
  <2> QED
    BY <2>1, <2>4, Carries
<1> QED
  BY <1>1, <1>2, <1>3, <1>4

\* What an ask leaves to the wake of its user.
LEMMA GotStays ==
    ASSUME Known, NEW p \in Calls, NEW i \in Nat, Got(p, i), UNCHANGED <<starts, slot>>,
           FirstOf(call[p].todo) = "first" =>
               \A v \in Users : past'[v].by = i /\ past'[v].old = past[v].old => Own(v)'
    PROVE  \A v \in Users : Stays(v)
<1> TAKE v \in Users
<1>1. past \in [Users -> PastType] /\ past[v] \in PastType
  BY DEF Known, TypeOK, PastType
<1>2. CASE past'[v] = past[v]
  BY <1>2 DEF Stays
<1>3. CASE past'[v] # past[v]
  <2>1. past'[v] = [past[v] EXCEPT !.by = i] /\ past[v].by = 0 /\ FirstOf(call[p].todo) = "first"
    BY <1>1, <1>3 DEF Got
  <2>2. past'[v].by = i /\ past'[v].old = past[v].old
    BY <1>1, <2>1 DEF PastType
  <2> QED
    BY <2>1, <2>2 DEF Stays
<1> QED
  BY <1>2, <1>3

\* What had failed when the wakes began was on the board then.
LEMMA OldOnBoard == ASSUME Known, NEW v \in Users PROVE past[v].old \subseteq DOMAIN reqs
BY DEF Known, ReasonInv, OldAnswered

\* A live latest request is one to go by.
LEMMA Shares ==
    ASSUME Known, Moves, NEW i \in Latest("first"), Live(reqs[i]), NEW v \in Users,
           past'[v].by = i, past'[v].old = past[v].old
    PROVE  Own(v)'
<1>1. /\ i \in DOMAIN reqs /\ reqs[i].label = "first"
      /\ \A j \in DOMAIN reqs : reqs[j].label = "first" /\ Kept(reqs[j]) => j <= i
  BY DEF Latest, IsLatest
<1>2. i \in past[v].old => reqs[i].answer = "granted"
  BY DEF Known, ReasonInv, OldAnswered, Live, AnswerOf
<1>3. ASSUME NEW j \in DOMAIN reqs', j > i, reqs'[j].label = "first", j \in past[v].old
      PROVE  ~Kept(reqs[j])'
  <2>1. j \in DOMAIN reqs /\ i \in Nat /\ j \in Nat
    BY <1>1, <1>3, OldOnBoard DEF Known, TypeOK
  <2>2. ~Kept(reqs[j])
    BY <1>1, <1>3, <2>1 DEF Moves
  <2> QED
    BY <2>1, <2>2, ForgottenKept
<1> QED
  BY <1>1, <1>2, <1>3 DEF Own, Moves

\* So is, in memory, one that waits for its answer ...
LEMMA Waits ==
    ASSUME Known, Moves, ~Shared, NEW i \in DOMAIN reqs, reqs[i].label = "first", AnswerOf(reqs[i]) = "none",
           NEW v \in Users, past'[v].by = i, past'[v].old = past[v].old
    PROVE  Own(v)'
<1>1. i \notin past[v].old /\ reqs[i].answer = "none"
  BY DEF Known, ReasonInv, OldAnswered, AnswerOf
<1>2. ASSUME NEW j \in DOMAIN reqs', j > i, reqs'[j].label = "first" PROVE j \notin past[v].old
  <2> SUFFICES ASSUME j \in past[v].old PROVE FALSE
    OBVIOUS
  <2>1. j \in DOMAIN reqs /\ i \in Nat /\ j \in Nat
    BY OldOnBoard DEF Known, TypeOK
  <2>2. reqs[j].label = "first"
    BY <1>2, <2>1 DEF Moves
  <2> QED
    BY <1>1, <1>2, <2>1, <2>2 DEF Known, ReasonInv, LastWaits
<1> QED
  BY <1>1, <1>2 DEF Own, Moves

\* ... and one that is made.
LEMMA Made ==
    ASSUME Known, Moves, NEW k \in DOMAIN reqs', k \notin DOMAIN reqs, reqs'[k].label = "first",
           NEW v \in Users, past'[v].by = k, past'[v].old = past[v].old
    PROVE  Own(v)'
<1>1. k \notin past[v].old
  BY OldOnBoard
<1>2. \A j \in DOMAIN reqs' : ~(j > k)
  <2>1. DOMAIN reqs' \subseteq Nat /\ \A j \in DOMAIN reqs' : j <= k
    BY DEF Known, TypeOK, Moves
  <2> QED
    BY <2>1
<1> QED
  BY <1>1, <1>2 DEF Own

LEMMA EnsuredStep ==
    ASSUME Known, Moves, NEW p \in Calls, call[p].step \in {"ensure", "request"}, Ensured(p),
           \A v \in Users : Stays(v)
    PROVE  ReasonInv'
<1> DEFINE c == call[p]
           rest == c.todo \ {FirstOf(c.todo)}
           next == IF rest # {} THEN [c EXCEPT !.step = "ensure", !.todo = rest]
                   ELSE [Idle EXCEPT !.step = "active", !.user = c.user, !.ready = c.ready]
<1>1. Set(p, next)
  BY DEF Ensured
<1>2. CallOK(c)
  BY TypeOfCalls DEF Known
<1>3. next.step \in {"ensure", "active"}
  BY <1>2 DEF CallOK, CallType, Idle
<1> HIDE DEF next
<1>4. call'[p] = next
  BY <1>1, Becomes DEF Known
<1>5. Finds(call[p])'
  BY <1>3, <1>4 DEF Finds
<1> QED
  BY <1>1, <1>5, CallStep

\* A request is made for the wake.
LEMMA MakeStep ==
    ASSUME Known, NEW p \in Calls, call[p].step \in {"ensure", "request"}, Ensured(p),
           UNCHANGED <<now, starts, slot>>, NEW board, Make(p, board),
           \/ board = reqs /\ Shared
           \/ /\ board = Swept
              /\ \A i \in DOMAIN Swept : Swept[i].label = FirstOf(call[p].todo) => Swept[i].answer # "none"
    PROVE  ReasonInv'
<1> DEFINE role == FirstOf(call[p].todo)
           n == Len(reqs) + 1
<1>1. role \in Roles /\ reqs' = Append(board, Asked(role)) /\ Got(p, n)
  BY DEF Make, FirstOf, Roles
<1>2. Moves /\ n \in DOMAIN reqs' /\ reqs'[n] = Asked(role)
  BY <1>1, AskMoves DEF Known
<1>3. n \notin DOMAIN reqs /\ n \in Nat
  BY DEF Known, TypeOK
<1>4. Asked(role).label = role
  BY DEF Asked
<1>5. role = "first" => \A v \in Users : past'[v].by = n /\ past'[v].old = past[v].old => Own(v)'
  <2> HIDE DEF n, role
  <2> QED
    BY <1>2, <1>3, <1>4, Made
<1>6. \A v \in Users : Stays(v)
  BY <1>1, <1>3, <1>5, GotStays
<1> QED
  BY <1>2, <1>6, EnsuredStep

\* A live request of the judge spares making one.
LEMMA ShareStep ==
    ASSUME Known, Moves, NEW p \in Calls, call[p].step \in {"ensure", "request"}, Ensured(p),
           UNCHANGED <<starts, slot>>, HasLive(FirstOf(call[p].todo)),
           \E i \in Latest(FirstOf(call[p].todo)) : Got(p, i)
    PROVE  ReasonInv'
<1> DEFINE role == FirstOf(call[p].todo)
<1>1. PICK i \in Latest(role) : Got(p, i)
  OBVIOUS
<1>2. PICK k \in Latest(role) : Live(reqs[k])
  BY DEF HasLive
<1>3. i \in Nat /\ k \in Nat /\ i = k
  <2>1. DOMAIN reqs \subseteq Nat
    BY DEF Known, TypeOK
  <2>2. i \in DOMAIN reqs /\ k \in DOMAIN reqs /\ i <= k /\ k <= i
    BY DEF Latest, IsLatest
  <2> QED
    BY <2>1, <2>2
<1>4. role = "first" => \A v \in Users : past'[v].by = i /\ past'[v].old = past[v].old => Own(v)'
  BY <1>2, <1>3, Shares
<1>5. \A v \in Users : Stays(v)
  BY <1>1, <1>3, <1>4, GotStays
<1> QED
  BY <1>5, EnsuredStep

LEMMA AskStep ==
    ASSUME Known, NEW p \in Calls, Ensure(p) \/ EnsureLook(p) \/ EnsureRequest(p)
    PROVE  ReasonInv'
<1> DEFINE role == FirstOf(call[p].todo)
<1>1. CASE Ensure(p)
  <2>1. call[p].step = "ensure" /\ Ensured(p) /\ UNCHANGED <<now, starts, slot>> /\ Shared
    BY <1>1 DEF Ensure, At
  <2>2. CASE HasLive(role)
    <3>1. UNCHANGED reqs /\ \E i \in Latest(role) : Got(p, i)
      BY <1>1, <2>2 DEF Ensure
    <3>2. Moves
      BY <2>1, <3>1, SameBoard DEF Known
    <3> QED
      BY <2>1, <2>2, <3>1, <3>2, ShareStep
  <2>3. CASE ~HasLive(role)
    BY <1>1, <2>1, <2>3, MakeStep DEF Ensure
  <2> QED
    BY <2>2, <2>3
<1>2. CASE EnsureLook(p)
  <2>1. /\ call[p].step = "ensure" /\ UNCHANGED <<now, starts, slot>> /\ reqs' = Swept
        /\ IF HasLive(role) THEN Ensured(p) /\ \E i \in Latest(role) : Got(p, i)
           ELSE Set(p, [call[p] EXCEPT !.step = "request"]) /\ UNCHANGED past
    BY <1>2 DEF EnsureLook, At
  <2>2. Moves
    BY <2>1, SweptMoves DEF Known
  <2>3. CASE HasLive(role)
    BY <2>1, <2>2, <2>3, ShareStep
  <2>4. CASE ~HasLive(role)
    <3> DEFINE next == [call[p] EXCEPT !.step = "request"]
    <3>1. Set(p, next) /\ UNCHANGED past
      BY <2>1, <2>4
    <3>2. next.step = "request"
      BY TypeOfCalls DEF Known, CallOK, CallType
    <3> HIDE DEF next
    <3>3. Finds(call[p])'
      BY <3>1, <3>2, Becomes DEF Finds, Known
    <3>4. \A v \in Users : Stays(v)
      BY <2>1, <3>1 DEF Stays
    <3> QED
      BY <2>2, <3>1, <3>3, <3>4, CallStep
  <2> QED
    BY <2>3, <2>4
<1>3. CASE EnsureRequest(p)
  <2> DEFINE open == {i \in DOMAIN Swept : Swept[i].label = role /\ Swept[i].answer = "none"}
  <2>1. /\ ~Shared /\ call[p].step = "request" /\ Ensured(p) /\ UNCHANGED <<now, starts, slot>>
        /\ IF open # {} THEN reqs' = Swept /\ \E i \in open : Got(p, i) ELSE Make(p, Swept)
    BY <1>3 DEF EnsureRequest, At
  <2>2. CASE open # {}
    <3>1. Moves
      BY <2>1, <2>2, SweptMoves DEF Known
    <3>2. PICK i \in open : Got(p, i)
      BY <2>1, <2>2
    <3>3. i \in DOMAIN reqs /\ reqs[i].label = role /\ AnswerOf(reqs[i]) = "none" /\ i \in Nat
      <4>1. /\ DOMAIN Swept = DOMAIN reqs /\ Swept[i].label = reqs[i].label
            /\ Swept[i].answer = AnswerOf(reqs[i])
        BY <2>1, <3>2, SweptIs DEF Known
      <4>2. DOMAIN reqs \subseteq Nat
        BY DEF Known, TypeOK
      <4> QED
        BY <3>2, <4>1, <4>2
    <3>4. role = "first" => \A v \in Users : past'[v].by = i /\ past'[v].old = past[v].old => Own(v)'
      BY <2>1, <3>1, <3>3, Waits
    <3>5. \A v \in Users : Stays(v)
      BY <2>1, <3>2, <3>3, <3>4, GotStays
    <3> QED
      BY <2>1, <3>1, <3>5, EnsuredStep
  <2>3. CASE open = {}
    <3>1. Make(p, Swept) /\ \A i \in DOMAIN Swept : Swept[i].label = role => Swept[i].answer # "none"
      BY <2>1, <2>3
    <3> QED
      BY <2>1, <3>1, MakeStep
  <2> QED
    BY <2>2, <2>3
<1> QED
  BY <1>1, <1>2, <1>3

\* A call begins to read a wake.
LEMMA EvaluateStep ==
    ASSUME Known, NEW p \in Calls, NEW u \in Users, NEW ready \in SUBSET Roles, Evaluate(p, u, ready)
    PROVE  ReasonInv' /\ UNCHANGED slot
<1> DEFINE read == [Idle EXCEPT !.step = IF ready = Roles THEN "end" ELSE "seen", !.user = u, !.ready = ready,
                               !.stamp = slot[u], !.over = SlotAge(u) >= Budget, !.todo = Cold(ready)]
<1>1. Moves /\ UNCHANGED <<now, slot, starts, past>> /\ \A v \in Users : Stays(v)
  BY SameBoard DEF Evaluate, store, Known, Stays
<1>2. CASE ~(slot[u] = 0 \/ Dead(u))
  <2>1. call'[p] = read /\ Set(p, read)
    BY <1>2, Becomes DEF Evaluate, Known
  <2>2. /\ read.step = (IF ready = Roles THEN "end" ELSE "seen") /\ read.user = u /\ read.ready = ready
        /\ read.stamp = slot[u] /\ read.over = (SlotAge(u) >= Budget) /\ read.failed = {} /\ read.late = {}
    BY DEF Idle
  <2>3. SlotAge(u)' = SlotAge(u)
    BY <1>1 DEF SlotAge
  <2>4. ready = Roles => StateOf(read) # "waking"
    BY <2>2 DEF StateOf, Roles
  <2>5. slot[u] \in 1 .. Len(starts[u])
    BY <1>2 DEF Known, TypeOK
  <2> HIDE DEF read
  <2>6. Finds(call[p])'
    BY <1>1, <2>1, <2>2, <2>3, <2>4, <2>5 DEF Finds
  <2> QED
    BY <1>1, <2>1, <2>6, CallStep
<1>3. CASE slot[u] = 0 \/ Dead(u)
  <2>1. call'[p] = Idle /\ Set(p, Idle)
    BY <1>3, Becomes DEF Evaluate, Known
  <2>2. Finds(call[p])'
    BY <2>1 DEF Finds, Idle
  <2> QED
    BY <1>1, <2>1, <2>2, CallStep
<1> QED
  BY <1>2, <1>3

\* A failure that an evaluation finds of the first judge is the wake's own.
LEMMA FoundFailed ==
    ASSUME Known, NEW p \in Calls, Seen(p), NEW u \in Users, past[u].by # 0, Kept(reqs[past[u].by]),
           NEW j \in Latest("first"), AnswerOf(reqs[j]) = "failed"
    PROVE  FailedSince(u)'
<1> DEFINE b == past[u].by
<1>1. Own(u) /\ DOMAIN reqs \subseteq Nat
  BY Numbers DEF Known, ReasonInv
<1>2. /\ j \in DOMAIN reqs /\ reqs[j].label = "first" /\ Kept(reqs[j])
      /\ \A k \in DOMAIN reqs : reqs[k].label = "first" /\ Kept(reqs[k]) => k <= j
  BY DEF Latest, IsLatest
<1>3. b \in DOMAIN reqs /\ b <= j
  BY <1>1, <1>2 DEF Own
<1>4. reqs[j].answer # "granted" /\ (reqs[j].answer = "failed" \/ Expired(reqs[j]))
  BY DEF AnswerOf, Expired
<1>5. j \notin past[u].old
  BY <1>1, <1>2, <1>3, <1>4 DEF Own
<1>6. UNCHANGED past /\ now' = now /\ reqs' = Swept
  BY DEF Seen
<1>7. j \in DOMAIN reqs' /\ reqs'[j].label = "first" /\ (reqs'[j].answer = "failed" \/ (Shared /\ Expired(reqs[j])'))
  <2>1. CASE Shared
    <3>1. reqs' = reqs
      BY <1>6, <2>1 DEF Swept
    <3> QED
      BY <1>2, <1>4, <1>6, <2>1, <3>1 DEF Expired, Age
  <2>2. CASE ~Shared
    BY <1>2, <1>6, <2>2, SweptIs DEF Known
  <2> QED
    BY <2>1, <2>2
<1>8. j >= past'[u].by /\ j \notin past'[u].old
  BY <1>1, <1>3, <1>5, <1>6
<1> QED
  BY <1>7, <1>8 DEF FailedSince

\* It looks at one judge.
LEMMA SeenStep == ASSUME Known, NEW p \in Calls, Seen(p) PROVE ReasonInv' /\ UNCHANGED slot
<1> DEFINE c == call[p]
           role == FirstOf(c.todo)
           answers == {AnswerOf(reqs[i]) : i \in Latest(role)}
           failed == c.failed \cup (IF "failed" \in answers THEN {role} ELSE {})
           late == c.late \cup (IF answers = {} \/ (answers # {"failed"} /\ c.over) THEN {role} ELSE {})
           bare == c.bare \/ (role = "first" /\ past[c.user].by = 0)
           read == [c EXCEPT !.todo = @ \ {role}, !.failed = failed, !.late = late, !.bare = bare]
           done == [read EXCEPT !.step = "end"]
           next == IF read.todo # {} THEN read ELSE IF StateOf(read) = "waking" THEN Idle ELSE done
<1>1. CallOK(c) /\ c.step = "seen" /\ Finds(c) /\ c.user \in Users
  BY TypeOfCalls DEF Seen, At, Known, CallOK, ReasonInv
<1> PICK u \in Users : c.user = u
  BY <1>1
<1>2. Moves /\ UNCHANGED <<now, slot, starts, past>> /\ \A v \in Users : Stays(v)
  BY SweptMoves DEF Seen, Known, Stays
<1>3. c.stamp \in 1 .. Len(starts[u])
  BY <1>1 DEF Finds
<1>4. ASSUME slot[u] = c.stamp
      PROVE  /\ c.over => SlotAge(u)' >= Budget
             /\ "first" \in late \cup failed => bare \/ Why(u)'
  <2>1. c.over => SlotAge(u) >= Budget
    BY <1>1, <1>4 DEF Finds
  <2>2. slot[u] # 0 /\ SlotAge(u)' = SlotAge(u)
    BY <1>2, <1>3, <1>4 DEF SlotAge
  <2>3. "first" \in c.late \cup c.failed => c.bare \/ Why(u)'
    BY <1>1, <1>2, <1>4, <2>2, WhyKept DEF Finds
  <2>4. ASSUME role = "first", past[u].by # 0, answers = {} \/ "failed" \in answers PROVE Why(u)'
    <3>1. Own(u) /\ past[u].by \in DOMAIN reqs /\ past'[u].by = past[u].by
      BY <1>2, <2>4 DEF Known, ReasonInv, Own
    <3>2. CASE ~Kept(reqs[past[u].by])
      BY <1>2, <2>4, <3>1, <3>2, ForgottenKept DEF Why
    <3>3. CASE Kept(reqs[past[u].by]) /\ "failed" \in answers
      <4>1. PICK j \in Latest("first") : AnswerOf(reqs[j]) = "failed"
        BY <2>4, <3>3
      <4>2. FailedSince(u)'
        BY <2>4, <3>3, <4>1, FoundFailed
      <4> QED
        BY <2>4, <3>1, <4>2 DEF Why
    <3>4. CASE Kept(reqs[past[u].by]) /\ answers = {}
      <4>1. Latest("first") = {}
        BY <2>4, <3>4
      <4> QED
        BY <3>1, <3>4, <4>1, LatestIs DEF Own, Known, Roles
    <3> QED
      BY <2>4, <3>2, <3>3, <3>4
  <2>5. c.over => Why(u)'
    BY <2>1, <2>2 DEF Why
  <2> QED
    BY <2>1, <2>2, <2>3, <2>4, <2>5
<1>5. Set(p, next)
  BY <1>1 DEF Seen, CallOK, CallType
<1>6. call'[p] = next
  BY <1>5, Becomes DEF Known
<1> HIDE DEF failed, late, bare
<1>7. /\ read.step = "seen" /\ read.user = u /\ read.stamp = c.stamp /\ read.failed = failed /\ read.late = late
      /\ read.over = c.over /\ read.bare = bare /\ read.ready = c.ready
      /\ done.step = "end" /\ done.user = u /\ done.stamp = c.stamp /\ done.failed = failed /\ done.late = late
      /\ done.over = c.over /\ done.bare = bare /\ done.ready = c.ready
  BY <1>1 DEF CallOK, CallType
<1>8. StateOf(done) = StateOf(read)
  BY <1>7 DEF StateOf
<1>9. next = read \/ next = Idle \/ (next = done /\ StateOf(done) # "waking")
  BY <1>8
<1> HIDE DEF next, read, done
<1>10. CASE next = Idle
  <2>1. Finds(call[p])'
    BY <1>6, <1>10 DEF Finds, Idle
  <2> QED
    BY <1>2, <1>5, <2>1, CallStep
<1>11. CASE next = read
  <2>1. Finds(call[p])'
    BY <1>2, <1>3, <1>4, <1>6, <1>7, <1>11 DEF Finds
  <2> QED
    BY <1>2, <1>5, <2>1, CallStep
<1>12. CASE next = done /\ StateOf(done) # "waking"
  <2>1. Finds(call[p])'
    BY <1>2, <1>3, <1>4, <1>6, <1>7, <1>12 DEF Finds
  <2> QED
    BY <1>2, <1>5, <2>1, CallStep
<1> QED
  BY <1>2, <1>9, <1>10, <1>11, <1>12

\* A wake is ended, or freed.
LEMMA EndStep ==
    ASSUME Known, NEW p \in Calls, End(p) \/ Free(p)
    PROVE  ReasonInv' /\ Reason
<1> DEFINE c == call[p]
           u == c.user
<1>1. u \in Users /\ CallOK(c) /\ Finds(c) /\ Set(p, Idle) /\ call'[p] = Idle /\ UNCHANGED <<now, reqs, starts>>
  BY TypeOfCalls, Becomes DEF End, Free, At, Known, CallOK, ReasonInv
<1>2. PICK ok \in BOOLEAN : EndWake(u, c.stamp, ok) /\ (~ok => End(p) /\ StateOf(c) \notin {"ready", "partial"})
  <2>1. (StateOf(c) \in {"ready", "partial"}) \in BOOLEAN
    OBVIOUS
  <2>2. CASE Free(p)
    BY <2>2 DEF Free
  <2>3. CASE End(p)
    BY <2>1, <2>3 DEF End
  <2> QED
    BY <2>2, <2>3
<1>3. /\ \A v \in Users \ {u} : slot'[v] = slot[v] /\ past'[v] = past[v] /\ cool'[v] = cool[v]
      /\ \/ slot'[u] = slot[u] /\ past'[u] = past[u]
         \/ slot'[u] = 0 /\ past'[u] = NoPast /\ slot[u] = c.stamp
      /\ ok => cool' = cool
  BY <1>1, <1>2 DEF EndWake, Release, Known, TypeOK
<1>4. \A v \in Users : Stays(v) \/ Goes(v)
  BY <1>1, <1>3 DEF Stays, Goes
<1>5. Moves
  BY <1>1, SameBoard DEF Known
<1>6. ReasonInv'
  <2>1. Finds(call[p])'
    BY <1>1 DEF Finds, Idle
  <2> QED
    BY <1>1, <1>4, <1>5, <2>1, CallStep
<1>7. Reason
  <2> SUFFICES ASSUME NEW v \in Punished
               PROVE  \/ SlotAge(v) >= Budget
                      \/ OwnFailure(v)
                      \/ past[v].by # 0 /\ ~Kept(reqs[past[v].by])
                      \/ \E q \in Calls : Ends(q, v) /\ call[q].bare
    BY DEF Reason
  <2>1. v = u /\ slot[u] = c.stamp /\ slot[u] # 0 /\ ~ok
    BY <1>3 DEF Punished
  <2>2. c.step = "end" /\ ("first" \in c.late \/ "first" \in c.failed)
    BY <1>1, <1>2, <2>1, NotEnough DEF End, At, Finds
  <2>3. c.bare \/ Why(u)
    BY <1>1, <2>1, <2>2 DEF Finds
  <2>4. c.bare => Ends(p, u)
    BY <1>1, <2>1, <2>2 DEF Ends
  <2>5. past[u].by # 0 /\ FailedSince(u) => OwnFailure(u)
    BY DEF FailedSince, OwnFailure, FailedRequests, AnswerOf, Expired
  <2> QED
    BY <2>1, <2>3, <2>4, <2>5 DEF Why
<1> QED
  BY <1>6, <1>7

LEMMA StartStep == ASSUME Known, NEW p \in Calls, NEW u \in Users, Start(p, u) PROVE ReasonInv' /\ Reason
<1> DEFINE result == BeginResult(u)
           new == result = "new"
<1>1. /\ UNCHANGED <<now, reqs>> /\ (new => slot[u] = 0) /\ call[p].step = "idle"
      /\ starts' = IF new THEN [starts EXCEPT ![u] = Append(@, now)] ELSE starts
      /\ slot' = [slot EXCEPT ![u] = IF new THEN Len(starts[u]) + 1 ELSE IF Dead(u) THEN 0 ELSE @]
      /\ past' = [past EXCEPT ![u] = IF new THEN [NoPast EXCEPT !.old = FailedRequests] ELSE IF Dead(u) THEN NoPast ELSE @]
  BY DEF Start, At, BeginResult
<1>2. Moves
  BY <1>1, SameBoard DEF Known
<1>3. \A v \in Users \ {u} : Stays(v)
  BY <1>1 DEF Stays, Known, TypeOK
<1>4. Stays(u) \/ Goes(u) \/ Comes(u)
  <2>1. CASE new
    <3>1. starts'[u] = Append(starts[u], now) /\ slot'[u] = Len(starts[u]) + 1
      BY <1>1, <2>1 DEF Known, TypeOK
    <3>2. Len(starts'[u]) = Len(starts[u]) + 1
      BY <3>1 DEF Known, TypeOK
    <3>3. past'[u] = [NoPast EXCEPT !.old = FailedRequests]
      BY <1>1, <2>1 DEF Known, TypeOK
    <3>4. past'[u].old = FailedRequests /\ past'[u].by = 0
      BY <3>3 DEF NoPast
    <3> QED
      BY <1>1, <3>1, <3>2, <3>4 DEF Comes
  <2>2. CASE ~new
    BY <1>1, <2>2 DEF Stays, Goes, Known, TypeOK
  <2> QED
    BY <2>1, <2>2
<1>5. Reason
  <2> SUFFICES ASSUME NEW v \in Punished PROVE SlotAge(v) >= Budget
    BY DEF Reason
  <2>1. v = u /\ Dead(u) /\ slot[u] # 0
    BY <1>1 DEF Punished, Known, TypeOK
  <2>2. starts[u][slot[u]] \in Nat /\ now \in Nat
    BY <2>1, Numbers DEF Known
  <2> QED
    BY <2>1, <2>2, Sizes DEF Dead, SlotAge
<1>6. ReasonInv'
  <2>1. CASE call' = call
    BY <1>2, <1>3, <1>4, <2>1, Carries
  <2>2. ASSUME NEW ready \in Readings \ {Roles},
               Set(p, [Idle EXCEPT !.step = "ensure", !.user = u, !.ready = ready, !.new = new,
                                   !.stamp = slot'[u], !.todo = Cold(ready)])
        PROVE  ReasonInv'
    <3> DEFINE next == [Idle EXCEPT !.step = "ensure", !.user = u, !.ready = ready, !.new = new,
                                    !.stamp = slot'[u], !.todo = Cold(ready)]
    <3> HIDE DEF new
    <3>1. next.step = "ensure"
      BY DEF Idle
    <3>2. call'[p] = next
      BY <2>2, Becomes DEF Known
    <3> HIDE DEF next
    <3>3. Finds(call[p])'
      BY <3>1, <3>2 DEF Finds
    <3> QED
      BY <1>2, <1>3, <1>4, <2>2, <3>3, CallStep
  <2> QED
    BY <2>1, <2>2 DEF Start
<1> QED
  BY <1>5, <1>6

LEMMA StopStep == ASSUME Known, NEW p \in Calls, EnsureFails(p) \/ Crash(p) PROVE ReasonInv' /\ UNCHANGED slot
<1> DEFINE free == [call[p] EXCEPT !.step = "free"]
<1>1. UNCHANGED <<now, reqs, starts, slot, past>> /\ (Set(p, free) \/ Set(p, Idle))
  BY DEF EnsureFails, Crash, store
<1>2. Moves /\ \A v \in Users : Stays(v)
  BY <1>1, SameBoard DEF Known, Stays
<1>3. free.step = "free" /\ Idle.step = "idle"
  BY TypeOfCalls DEF Known, CallOK, CallType, Idle
<1> HIDE DEF free
<1>4. Finds(call[p])'
  BY <1>1, <1>3, Becomes DEF Finds, Known
<1> QED
  BY <1>1, <1>2, <1>4, CallStep

LEMMA InitReason == Init => ReasonInv
<1> SUFFICES ASSUME Init PROVE ReasonInv
  OBVIOUS
<1>1. DOMAIN reqs = {} /\ \A u \in Users : past[u] = NoPast
  BY DEF Init
<1>2. \A p \in Calls : call[p].step = "idle"
  BY DEF Init, Idle
<1> QED
  BY <1>1, <1>2 DEF ReasonInv, LastWaits, OldAnswered, Finds, NoPast

LEMMA StepReason == ASSUME TypeOK, TypeOK', ReasonInv, [Next]_vars PROVE ReasonInv' /\ Reason
<1> USE DEF Known
<1>1. UNCHANGED slot => Reason
  BY DEF Reason, Punished
<1>2. ASSUME NEW p \in Calls, NEW u \in Users, StartReady(p, u) \/ Start(p, u) \/ Status(p, u)
      PROVE  ReasonInv' /\ Reason
  BY <1>1, <1>2, WorldStep, StartStep, EvaluateStep, Sizes DEF Status
<1>3. ASSUME NEW p \in Calls, Ensure(p) \/ EnsureLook(p) \/ EnsureRequest(p)
      PROVE  ReasonInv' /\ Reason
  BY <1>1, <1>3, AskStep DEF Ensure, EnsureLook, EnsureRequest
<1>4. ASSUME NEW p \in Calls, EnsureFails(p) \/ Crash(p)
      PROVE  ReasonInv' /\ Reason
  BY <1>1, <1>4, StopStep
<1>5. ASSUME NEW p \in Calls, Active(p) PROVE ReasonInv' /\ Reason
  <2>1. call[p].user \in Users /\ call[p].ready \in SUBSET Roles
    BY <1>5, TypeOfCalls DEF Active, At, CallOK, CallType
  <2> QED
    BY <1>1, <1>5, <2>1, EvaluateStep DEF Active
<1>6. ASSUME NEW p \in Calls, Seen(p) PROVE ReasonInv' /\ Reason
  BY <1>1, <1>6, SeenStep
<1>7. ASSUME NEW p \in Calls, End(p) \/ Free(p) PROVE ReasonInv' /\ Reason
  BY <1>7, EndStep
<1>8. CASE \/ UNCHANGED vars \/ Poll \/ Tick
           \/ \E i \in DOMAIN reqs, answer \in {"granted", "failed"} : Deliver(i, answer)
  BY <1>1, <1>8, WorldStep
<1> QED
  BY <1>2, <1>3, <1>4, <1>5, <1>6, <1>7, <1>8 DEF Next

\* For any number of users, calls and crashes, over either store: a wake fails only when its
\* time is up, for a failure since it began of the request it goes by, because the board has
\* forgotten that request, or by a call that looked before there was one.
THEOREM WakeFailsForReason == Spec => FailedForReason
<1>1. TypeOK /\ TypeOK' /\ ReasonInv /\ [Next]_vars => ReasonInv'
  BY StepReason
<1>2. TypeOK /\ TypeOK' /\ ReasonInv /\ [Next]_vars => [Reason]_vars
  BY StepReason
<1>3. Spec => []ReasonInv
  BY InitReason, TypeCorrect, <1>1, PTL DEF Spec
<1> QED
  BY TypeCorrect, <1>2, <1>3, PTL DEF Spec, FailedForReason, Reason
=============================================================================
