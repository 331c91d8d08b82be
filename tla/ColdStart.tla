------------------------------ MODULE ColdStart ------------------------------
(***************************************************************************)
(* Cold start of the two judges: a user's call asks for a wake, status     *)
(* calls follow it, and a waker outside the engine polls the requests and  *)
(* delivers its answers.  Calls run in any container, or thread, and meet  *)
(* only in the WakeStore; every store operation is atomic, a call is not:  *)
(* an action is one store operation with the local steps around it.        *)
(*                                                                         *)
(* Shared chooses the store: PgWakeStore over the tenancy.wake_* functions *)
(* of the database, or MemoryWakeStore over WakeBoard and WakeLimiter.     *)
(* Lease extensions, tickets and the signatures of the waker's calls are   *)
(* left out.                                                               *)
(***************************************************************************)
EXTENDS Integers, Sequences, FiniteSets

Roles == {"first", "second"}

CONSTANTS
    Users, Calls,          \* who may ask, and the request handlers running at once
    Readings,              \* the judges one reading of their health may find ready
    Shared,                \* PgWakeStore rather than MemoryWakeStore
    Budget,                \* min(budget_s, HARD_MAX_BUDGET_S)
    ReqTtl, RowTtl,        \* an unanswered request fails, a row is purged
    ActiveTtl,             \* active_ttl_s(cfg): a wake nobody ended is dead
    Cooldown, PerDay, Day, \* failed_cooldown_s, user_wakes_per_day, DAY_S
    MaxTime, LastStart,    \* bounds: the clock, and the last time a wake is asked for
    MaxRequests, MaxCrashes \* bounds: wake requests, calls that die

ASSUME ColdStartConstants ==
    /\ IsFiniteSet(Users) /\ IsFiniteSet(Calls) /\ Readings \subseteq SUBSET Roles /\ Shared \in BOOLEAN
    /\ {Budget, ReqTtl, RowTtl, ActiveTtl, Cooldown, PerDay, Day} \subseteq Nat \ {0}
    /\ {MaxTime, LastStart, MaxRequests, MaxCrashes} \subseteq Nat
    /\ ActiveTtl > Budget   \* active_ttl_s is beyond the budget and its margin
    /\ IF Shared THEN RowTtl >= Budget   \* over the database a row outlives the wake it is of
                 ELSE RowTtl = 4 * ReqTtl

VARIABLES
    now,      \* the clock
    reqs,     \* wake requests, in the order they were created; the index is the nonce
    starts,   \* per user, when each of its wakes began
    slot,     \* per user, its active wake as an index of starts, or 0
    cool,     \* per user, until when it is refused after a failed wake
    call,     \* per call, what it does next and what it has read
    crashes,  \* how many calls died
    past      \* history, per active wake: whether a start told its user that every judge is
              \* up, the requests that had failed when it began, and the request that the
              \* first ask for the first judge found or made, or 0

store == <<reqs, starts, slot, cool>>
vars == <<now, store, call, crashes, past>>

Request == [label : Roles, created : Nat, answer : {"none", "granted", "failed"}]

NoPast == [told |-> FALSE, old |-> {}, by |-> 0]

Idle == [step |-> "idle", user |-> "nobody", ready |-> {}, new |-> FALSE, stamp |-> 0, over |-> FALSE,
         todo |-> {}, failed |-> {}, late |-> {},
         bare |-> FALSE]  \* history: it looked for the first judge's request before one was asked for

-----------------------------------------------------------------------------
(* The board of requests                                                   *)

Age(r) == now - r.created
Expired(r) == r.answer = "none" /\ Age(r) > ReqTtl
AnswerOf(r) == IF Expired(r) THEN "failed" ELSE r.answer
Kept(r) == IF Shared THEN Age(r) < RowTtl ELSE Age(r) <= RowTtl

\* _expire_locked: the board in memory writes the expiry down, the database only reads it.
Swept ==
    IF Shared THEN reqs ELSE [i \in DOMAIN reqs |-> [reqs[i] EXCEPT !.answer = AnswerOf(reqs[i])]]

\* The latest kept wake request of a judge: a set of at most one.
IsLatest(i, role) ==
    /\ i \in DOMAIN reqs /\ reqs[i].label = role /\ Kept(reqs[i])
    /\ \A j \in DOMAIN reqs : reqs[j].label = role /\ Kept(reqs[j]) => j <= i
Latest(role) == {i \in DOMAIN reqs : IsLatest(i, role)}

LiveUnanswered(r) == Age(r) < Budget /\ AnswerOf(r) = "none"

\* A wake of a judge that whoever needs it shares.
Live(r) == Age(r) < Budget /\ AnswerOf(r) \in {"none", "granted"}
HasLatest(role) == Latest(role) # {}
HasLive(role) == \E i \in Latest(role) : Live(reqs[i])

Asked(role) == [label |-> role, created |-> now, answer |-> "none"]
FailedRequests == {i \in DOMAIN reqs : AnswerOf(reqs[i]) = "failed"}

-----------------------------------------------------------------------------
(* The limiter of users                                                    *)

SlotAge(u) == now - starts[u][slot[u]]
NeverDead(u) == FALSE
Dead(u) == slot[u] # 0 /\ SlotAge(u) > ActiveTtl
Recent(u) == Cardinality({i \in DOMAIN starts[u] : now - starts[u][i] < Day})

\* begin(): a dead wake is released as a failed one first.
BeginResult(u) ==
    IF slot[u] # 0 /\ ~Dead(u) THEN "existing"
    ELSE IF cool[u] > now \/ Dead(u) THEN "cooldown"
    ELSE IF Recent(u) >= PerDay THEN "limit" ELSE "new"

Release(u, ok) ==
    /\ slot' = [slot EXCEPT ![u] = 0]
    /\ cool' = [cool EXCEPT ![u] = IF ok THEN @ ELSE now + Cooldown]
    /\ past' = [past EXCEPT ![u] = NoPast]

EndAnyWake(u, stamp, ok) == Release(u, ok)

\* end(user, ok, stamp): only the wake the stamp is of.
EndWake(u, stamp, ok) == IF slot[u] = stamp THEN Release(u, ok) ELSE UNCHANGED <<slot, cool, past>>

-----------------------------------------------------------------------------
Init ==
    /\ now = 0 /\ reqs = <<>>
    /\ starts = [u \in Users |-> <<>>] /\ slot = [u \in Users |-> 0] /\ cool = [u \in Users |-> 0]
    /\ call = [p \in Calls |-> Idle] /\ crashes = 0
    /\ past = [u \in Users |-> NoPast]

Set(p, c) == call' = [call EXCEPT ![p] = c]
At(p, step) == call[p].step = step
Cold(ready) == Roles \ ready
FirstOf(roles) == IF "first" \in roles THEN "first" ELSE "second"

\* start() with every judge up answers at once and asks the store nothing.
StartReady(p, u) ==
    /\ At(p, "idle") /\ Roles \in Readings
    /\ past' = [past EXCEPT ![u].told = slot[u] # 0]
    /\ UNCHANGED <<now, store, call, crashes>>

\* start() with some judge not up, and limit_begin.
Start(p, u) ==
    /\ At(p, "idle") /\ now <= LastStart
    /\ LET result == BeginResult(u)
           new == result = "new"
       IN  /\ starts' = IF new THEN [starts EXCEPT ![u] = Append(@, now)] ELSE starts
           /\ slot' = [slot EXCEPT ![u] = IF new THEN Len(starts[u]) + 1 ELSE IF Dead(u) THEN 0 ELSE @]
           /\ cool' = IF Dead(u) THEN [cool EXCEPT ![u] = now + Cooldown] ELSE cool
           /\ past' = [past EXCEPT ![u] = IF new THEN [NoPast EXCEPT !.old = FailedRequests] ELSE IF Dead(u) THEN NoPast ELSE @]
           /\ IF result \in {"new", "existing"}
              THEN \E ready \in Readings \ {Roles} :
                    Set(p, [Idle EXCEPT !.step = "ensure", !.user = u, !.ready = ready, !.new = new,
                                        !.stamp = slot'[u], !.todo = Cold(ready)])
              ELSE UNCHANGED call
    /\ UNCHANGED <<now, reqs, crashes>>

\* The next judge to ask for, or the evaluation.
Ensured(p) ==
    LET c == call[p]
        rest == c.todo \ {FirstOf(c.todo)}
    IN  Set(p, IF rest # {} THEN [c EXCEPT !.step = "ensure", !.todo = rest]
               ELSE [Idle EXCEPT !.step = "active", !.user = c.user, !.ready = c.ready])

\* The request an ask found or made, for the wake that is active.
Got(p, i) ==
    LET u == call[p].user
    IN  past' = IF FirstOf(call[p].todo) = "first" /\ slot[u] # 0 /\ past[u].by = 0
                THEN [past EXCEPT ![u].by = i] ELSE past

\* A request of a judge is made.
Make(p, board) ==
    /\ Len(reqs) < MaxRequests
    /\ reqs' = Append(board, Asked(FirstOf(call[p].todo)))
    /\ Got(p, Len(reqs) + 1)

EnsureUnlessUnanswered(p) ==
    /\ Shared /\ At(p, "ensure")
    /\ LET live == {i \in Latest(FirstOf(call[p].todo)) : LiveUnanswered(reqs[i])}
       IN  IF live # {} THEN UNCHANGED reqs /\ \E i \in live : Got(p, i) ELSE Make(p, reqs)
    /\ Ensured(p)
    /\ UNCHANGED <<now, starts, slot, cool, crashes>>

\* ensure_wake over the database: wake_ensure holds the judge's advisory lock.
Ensure(p) ==
    /\ Shared /\ At(p, "ensure")
    /\ LET role == FirstOf(call[p].todo)
       IN  IF HasLive(role) THEN UNCHANGED reqs /\ \E i \in Latest(role) : Got(p, i) ELSE Make(p, reqs)
    /\ Ensured(p)
    /\ UNCHANGED <<now, starts, slot, cool, crashes>>

\* ensure_wake in memory looks at the board first ...
EnsureLook(p) ==
    /\ ~Shared /\ At(p, "ensure")
    /\ reqs' = Swept
    /\ LET role == FirstOf(call[p].todo)
       IN  IF HasLive(role) THEN Ensured(p) /\ \E i \in Latest(role) : Got(p, i)
           ELSE Set(p, [call[p] EXCEPT !.step = "request"]) /\ UNCHANGED past
    /\ UNCHANGED <<now, starts, slot, cool, crashes>>

\* ... and then calls request(), which shares an unanswered one only.
EnsureRequest(p) ==
    /\ ~Shared /\ At(p, "request")
    /\ LET open == {i \in DOMAIN Swept : Swept[i].label = FirstOf(call[p].todo) /\ Swept[i].answer = "none"}
       IN  IF open # {} THEN reqs' = Swept /\ \E i \in open : Got(p, i) ELSE Make(p, Swept)
    /\ Ensured(p)
    /\ UNCHANGED <<now, starts, slot, cool, crashes>>

\* The database refuses or is gone: the slot this call took is freed without a cooldown.
EnsureFails(p) ==
    /\ Shared /\ At(p, "ensure") /\ crashes < MaxCrashes
    /\ crashes' = crashes + 1
    /\ Set(p, IF call[p].new THEN [call[p] EXCEPT !.step = "free"] ELSE Idle)
    /\ UNCHANGED <<now, store, past>>

Free(p) ==
    /\ At(p, "free")
    /\ EndWake(call[p].user, call[p].stamp, TRUE)
    /\ Set(p, Idle)
    /\ UNCHANGED <<now, reqs, starts, crashes>>

EvaluateEvenReady(p, u, ready) ==
    /\ Set(p, IF slot[u] = 0 \/ Dead(u) THEN Idle
              ELSE [Idle EXCEPT !.step = "seen", !.user = u, !.ready = ready, !.stamp = slot[u],
                                !.over = SlotAge(u) >= Budget, !.todo = Cold(ready)])
    /\ UNCHANGED <<now, store, crashes, past>>

\* _evaluate: limit_active.  Without an active wake no other store operation follows.
Evaluate(p, u, ready) ==
    /\ Set(p, IF slot[u] = 0 \/ Dead(u) THEN Idle
              ELSE [Idle EXCEPT !.step = IF ready = Roles THEN "end" ELSE "seen", !.user = u, !.ready = ready,
                                !.stamp = slot[u], !.over = SlotAge(u) >= Budget, !.todo = Cold(ready)])
    /\ UNCHANGED <<now, store, crashes, past>>

\* start() goes on with the health it read before.
Active(p) == At(p, "active") /\ Evaluate(p, call[p].user, call[p].ready)

\* status() reads the judges' health first.
Status(p, u) == At(p, "idle") /\ \E ready \in Readings : Evaluate(p, u, ready)

\* state_of
StateOf(c) ==
    CASE "first" \in c.late                        -> "timeout"
      [] "first" \in c.failed                      -> "failed"
      [] c.ready \cup c.failed \cup c.late # Roles -> "waking"
      [] OTHER -> IF "second" \in c.ready THEN "ready" ELSE "partial"

\* _evaluate: wake_state of the next judge that is not ready.  The call is over after the
\* last one when the wake is not.
Seen(p) ==
    /\ At(p, "seen")
    /\ LET c == call[p]
           role == FirstOf(c.todo)
           answers == {AnswerOf(reqs[i]) : i \in Latest(role)}
           read == [c EXCEPT !.todo = @ \ {role},
                             !.failed = @ \cup (IF "failed" \in answers THEN {role} ELSE {}),
                             !.late = @ \cup (IF answers = {} \/ (answers # {"failed"} /\ c.over) THEN {role} ELSE {}),
                             !.bare = @ \/ (role = "first" /\ past[c.user].by = 0)]
       IN  Set(p, IF read.todo # {} THEN read
                  ELSE IF StateOf(read) = "waking" THEN Idle ELSE [read EXCEPT !.step = "end"])
    /\ reqs' = Swept
    /\ UNCHANGED <<now, starts, slot, cool, crashes, past>>

\* _evaluate: a wake that is over is ended, and the state is answered.
End(p) ==
    /\ At(p, "end")
    /\ EndWake(call[p].user, call[p].stamp, StateOf(call[p]) \in {"ready", "partial"})
    /\ Set(p, Idle)
    /\ UNCHANGED <<now, reqs, starts, crashes>>

\* The container dies, or a store call raises: the call is over where it stood.
Crash(p) ==
    /\ ~At(p, "idle") /\ crashes < MaxCrashes
    /\ crashes' = crashes + 1
    /\ Set(p, Idle)
    /\ UNCHANGED <<now, store, past>>

-----------------------------------------------------------------------------
(* The world around the calls                                              *)

\* The waker lists the open requests.
Poll == reqs' = Swept /\ UNCHANGED <<now, starts, slot, cool, call, crashes, past>>

\* deliver(): the waker answers a request it was shown, late or again for all it knows.
Deliver(i, answer) ==
    /\ i \in DOMAIN reqs /\ reqs[i].answer = "none"
    /\ Shared => ~Expired(reqs[i]) /\ Kept(reqs[i])
    /\ reqs' = [reqs EXCEPT ![i].answer = answer]
    /\ UNCHANGED <<now, starts, slot, cool, call, crashes, past>>

Tick == now < MaxTime /\ now' = now + 1 /\ UNCHANGED <<store, call, crashes, past>>

Next ==
    \/ \E p \in Calls :
        \/ \E u \in Users : StartReady(p, u) \/ Start(p, u) \/ Status(p, u)
        \/ Ensure(p) \/ EnsureLook(p) \/ EnsureRequest(p) \/ EnsureFails(p) \/ Free(p)
        \/ Active(p) \/ Seen(p) \/ End(p) \/ Crash(p)
    \/ Poll \/ \E i \in DOMAIN reqs, answer \in {"granted", "failed"} : Deliver(i, answer)
    \/ Tick

Spec == Init /\ [][Next]_vars

\* Time goes on.
FairSpec == Spec /\ WF_vars(Tick)

-----------------------------------------------------------------------------
\* Every variable keeps its type, and a call's step fits what it has left to do.
TypeOK ==
    /\ now \in 0 .. MaxTime /\ reqs \in Seq(Request) /\ crashes \in 0 .. MaxCrashes
    /\ starts \in [Users -> Seq(Nat)] /\ cool \in [Users -> Nat]
    /\ slot \in [Users -> Nat] /\ \A u \in Users : slot[u] \in 0 .. Len(starts[u])
    /\ call \in [Calls -> [step : {"idle", "ensure", "request", "free", "active", "seen", "end"},
                           user : Users \cup {"nobody"}, ready : SUBSET Roles, new : BOOLEAN, stamp : Nat,
                           over : BOOLEAN, todo : SUBSET Roles, failed : SUBSET Roles, late : SUBSET Roles,
                           bare : BOOLEAN]]
    /\ \A p \in Calls : /\ call[p].step \in {"ensure", "request", "seen"} => call[p].todo # {}
                        /\ call[p].step # "idle" => call[p].user \in Users
    /\ past \in [Users -> [told : BOOLEAN, old : SUBSET Nat, by : Nat]]

\* ensure_wake: "a live wake of this judge (shared by whoever needs it): never a second
\* one", whichever containers ask at once.
OneLiveWake ==
    \A i, j \in DOMAIN reqs : reqs[i].label = reqs[j].label /\ Live(reqs[i]) /\ Live(reqs[j]) => i = j

\* A wake is taken from its user only when it is dead or by a call that read it as the
\* active one: a late end does not pop a newer wake.
ReleasedByItsOwn ==
    [][\A u \in Users : slot[u] # 0 /\ slot'[u] # slot[u] =>
        Dead(u) \/ \E p \in Calls : /\ call[p].user = u /\ call[p].stamp = slot[u]
                                    /\ call[p].step \in {"end", "free"} /\ call'[p] = Idle]_vars

\* Users whose wake a step releases as a failed one.
Punished == {u \in Users : slot[u] # 0 /\ slot'[u] # slot[u] /\ cool'[u] # cool[u]}

\* A wake whose end was lost does not pin its user: a later start is not for ever told
\* that it exists.
NeverPinned == \A u \in Users : []<>(BeginResult(u) # "existing")

\* _evaluate: "A FULL success leaves the slot active, and the next start ... is released
\* as FAILED (a spurious refusal plus a failed-wake cooldown)" is what ending the wake is
\* to prevent.  A start that finds every judge up tells its user so and leaves it active:
\* this does not hold, and no run is kept for it.
ReadyNotPunished == [][\A u \in Punished : ~past[u].told]_vars

\* active_ttl_s: "a slow but live wake is never released mid-flight".  A wake fails when
\* its time is up or a request fails after it began.  In memory it does not hold with the
\* values the configuration ships: the board forgets the wake's request first.
FailedForCause ==
    [][\A u \in Punished : SlotAge(u) >= Budget \/ ~(FailedRequests \subseteq past[u].old)]_vars

\* The request of the first judge the wake goes by: its own, or one made since.
OwnFailure(u) ==
    past[u].by # 0 /\ \E i \in FailedRequests \ past[u].old : i >= past[u].by /\ reqs[i].label = "first"

\* The calls whose end releases a user's wake.
Ends(p, u) == call[p].step = "end" /\ call[p].user = u /\ call[p].stamp = slot[u] /\ call'[p] = Idle

\* Why a wake may fail, for any number of calls and crashes: its time is up; the request
\* it got for the first judge, or a later one, failed after it began; the board has
\* forgotten that request; or the call that ends it looked before there was any.  A failure
\* older than the wake, which its start has seen on the board and asked again after, is
\* never held against it.
FailedForReason ==
    [][\A u \in Punished :
        \/ SlotAge(u) >= Budget
        \/ OwnFailure(u)
        \/ past[u].by # 0 /\ ~Kept(reqs[past[u].by])
        \/ \E p \in Calls : Ends(p, u) /\ call[p].bare]_vars
=============================================================================
