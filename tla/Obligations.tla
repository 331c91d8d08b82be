---------------------------- MODULE Obligations ----------------------------
(***************************************************************************)
(* What is owed to the operator: the requests of .pravrudhi/requests.json, *)
(* their acceptance criteria, and the beats that work on them.  A beat is  *)
(* one run of beat() whose selected drive is `seva`: the timer starts one, *)
(* the command line and the messenger start others, and nothing keeps two  *)
(* from running at once.  Each store operation holds the file lock; a beat *)
(* holds nothing while an agent builds, a judge reads or a reviewer looks. *)
(*                                                                         *)
(* Requests are numbered by age.  The counters of criterion-attempts.json, *)
(* dispatch-failures.json, noop-streak.json and gate-attempts.json stand   *)
(* in the criterion and request they are keyed by.  A criterion's words    *)
(* and mode, amend_criterion and set_mode which change only those, and the *)
(* early park of a criterion that needs the network are left out.          *)
(***************************************************************************)
EXTENDS Integers, Sequences, FiniteSets, SequencesExt

CONSTANTS
    Beats,         \* processes that may be running beat()
    Width,         \* _effective_width: criteria dispatched by one beat
    MaxAttempts,   \* MAX_CRITERION_ATTEMPTS
    MaxFailures,   \* MAX_DISPATCH_FAILURES
    MaxNoop,       \* MAX_NOOP_STREAK
    MaxGates,      \* MAX_GATE_ATTEMPTS
    MaxDrafted,    \* _MAX_DRAFTED
    MaxRequests,   \* bound: requests captured
    MaxOutside     \* bound: what the operator, time and chance do to the loop

ASSUME ObligationsConstants ==
    /\ IsFiniteSet(Beats)
    /\ {Width, MaxAttempts, MaxFailures, MaxNoop, MaxGates, MaxDrafted} \subseteq Nat \ {0}
    /\ {MaxRequests, MaxOutside} \subseteq Nat

VARIABLES
    reqs,    \* the requests, oldest first
    beat,    \* what each beat is doing
    outside  \* how many outside events there were

vars == <<reqs, beat, outside>>

States == {"captured", "clarified", "planned", "in_progress", "delivered", "verified", "declined"}

TRANSITIONS ==
    [captured    |-> {"clarified", "planned", "in_progress", "declined"},
     clarified   |-> {"planned", "in_progress", "declined"},
     planned     |-> {"in_progress", "declined"},
     in_progress |-> {"delivered", "planned", "declined"},
     delivered   |-> {"verified", "in_progress", "declined"},
     verified    |-> {"in_progress"},
     declined    |-> {"captured"}]

\* `fresh`: the last dispatch failure is less than DISPATCH_FAILURE_EXPIRY_HOURS old.
Criterion == [review : BOOLEAN, met : BOOLEAN, declined : BOOLEAN,
              attempts : Nat, failures : Nat, noops : Nat, fresh : BOOLEAN]

NewCriterion == [review |-> FALSE, met |-> FALSE, declined |-> FALSE,
                 attempts |-> 0, failures |-> 0, noops |-> 0, fresh |-> FALSE]

Request == [state : States, criteria : Seq(Criterion), gates : Nat]

\* A job is one criterion of the wave; `on` the requests an advance, a gate or a triage has left.
Job == [req : Nat, index : Nat]
Steps == {"idle", "stalling", "wave", "judge", "meet", "noop", "lastNoop",
          "deliver", "review", "refused", "add", "reopen", "triage", "draft"}
Done == [step |-> "idle", jobs |-> <<>>, on |-> {}]

-----------------------------------------------------------------------------
(* The store                                                               *)

Crit(r) == reqs[r].criteria
IsOpen(r) == reqs[r].state \notin {"verified", "declined"}
Unmet(r) == {i \in DOMAIN Crit(r) : ~Crit(r)[i].met /\ ~Crit(r)[i].declined}

\* advance(): it raises on any other move.
MayAdvance(r, state) ==
    \/ state = reqs[r].state
    \/ /\ state \in TRANSITIONS[reqs[r].state]
       /\ state \in {"delivered", "verified"} =>
            Unmet(r) = {} /\ \E i \in DOMAIN Crit(r) : Crit(r)[i].met

Moved(r, state) == IF MayAdvance(r, state) THEN [reqs EXCEPT ![r].state = state] ELSE reqs

WithCriterion(r, i, c) == [reqs EXCEPT ![r].criteria[i] = c]
WithCriteria(r, new) == [reqs EXCEPT ![r].criteria = @ \o new]

MetNow(c) == [c EXCEPT !.met = TRUE, !.attempts = 0]
DeclinedNow(c) == [c EXCEPT !.declined = TRUE, !.attempts = 0]

ParkedLate(c) == c.attempts > MaxAttempts \/ (c.failures >= MaxFailures /\ c.fresh)

\* stalled(): the criterion is left to the operator.
Parked(c) == c.attempts >= MaxAttempts \/ (c.failures >= MaxFailures /\ c.fresh)

-----------------------------------------------------------------------------
(* next_unmet and next_obligation                                          *)

Oldest(S) == CHOOSE r \in S : \A q \in S : r <= q

Workable(r) == {i \in Unmet(r) : ~Parked(Crit(r)[i])}
WithWork == {r \in DOMAIN reqs : IsOpen(r) /\ Workable(r) # {}}
NextUnmet(r) == [req |-> r, index |-> Oldest(Workable(r))]

\* _obligation_for: neither parked nor without criteria.
Movable(r) ==
    /\ IsOpen(r) /\ Crit(r) # <<>>
    /\ IF reqs[r].state = "delivered" THEN reqs[r].gates < MaxGates ELSE Unmet(r) = {}
ToMove == {r \in DOMAIN reqs : Movable(r)}
NextToMove == Oldest(ToMove)

Untriaged == {r \in DOMAIN reqs : IsOpen(r) /\ Crit(r) = <<>>}

-----------------------------------------------------------------------------
Init ==
    /\ reqs = <<>>
    /\ beat = [b \in Beats |-> Done]
    /\ outside = 0

At(b, step) == beat[b].step = step
Set(b, local) == beat' = [beat EXCEPT ![b] = local]

\* An event the loop does not cause, and may be told of only so often.
FromOutside == outside < MaxOutside /\ outside' = outside + 1

\* The timer has one beat at a time; one that starts beside another is somebody else's.
Starts(b) == At(b, "idle") /\ IF \A a \in Beats : At(a, "idle") THEN UNCHANGED outside ELSE FromOutside
Looks(b) == Starts(b) \/ (At(b, "stalling") /\ UNCHANGED outside)

(* One wave: several criteria of different requests are dispatched, and    *)
(* when all agents are back their verdicts are applied one after another.  *)

ChoosingTheOldest(b) ==
    /\ Looks(b) /\ WithWork # {}
    /\ Oldest({r \in DOMAIN reqs : IsOpen(r) /\ Unmet(r) # {}}) \in WithWork

Choosing(b) == Looks(b) /\ WithWork # {}

Dispatch(b) ==
    /\ Choosing(b)
    /\ LET first == Oldest(WithWork)
       IN  \E more \in {q \in BoundedSeq(WithWork \ {first}, Width - 1) : IsInjective(q)} :
            Set(b, [Done EXCEPT !.step = "wave",
                                !.jobs = [k \in 1 .. Len(more) + 1 |-> NextUnmet((<<first>> \o more)[k])]])
    /\ UNCHANGED reqs

\* unbuildable(): the budget is spent on paper and the next criterion is looked at.
StallOnPaper(b) ==
    /\ Choosing(b)
    /\ LET r == Oldest(WithWork)
           i == NextUnmet(r).index
       IN  reqs' = WithCriterion(r, i, [Crit(r)[i] EXCEPT !.attempts = MaxAttempts])
    /\ Set(b, [Done EXCEPT !.step = "stalling"])

AllOnPaper(b) ==
    /\ At(b, "stalling") /\ WithWork = {}
    /\ Set(b, Done)
    /\ UNCHANGED <<reqs, outside>>

JobOf(b) == beat[b].jobs[1]
CritOf(b) == Crit(JobOf(b).req)[JobOf(b).index]
WithCritOf(b, c) == WithCriterion(JobOf(b).req, JobOf(b).index, c)
Goto(b, step) == Set(b, [beat[b] EXCEPT !.step = step])

NextJob(b) ==
    Set(b, IF Len(beat[b].jobs) = 1 THEN Done ELSE [Done EXCEPT !.step = "wave", !.jobs = Tail(beat[b].jobs)])

\* A genuine no-op is judged against the repository as it is.
NoOp(b) ==
    /\ At(b, "wave")
    /\ reqs' = WithCritOf(b, [CritOf(b) EXCEPT !.noops = @ + 1])
    /\ Goto(b, IF CritOf(b).noops + 1 < MaxNoop THEN "noop" ELSE "lastNoop")
    /\ UNCHANGED outside

\* external_wall_reason: nothing is counted.
Wall(b) ==
    /\ At(b, "wave") /\ FromOutside
    /\ NextJob(b)
    /\ UNCHANGED reqs

DispatchFails(b) ==
    /\ At(b, "wave")
    /\ reqs' = WithCritOf(b, [CritOf(b) EXCEPT !.failures = @ + 1, !.fresh = TRUE])
    /\ NextJob(b)
    /\ UNCHANGED outside

Accepted(b) ==
    /\ At(b, "wave")
    /\ reqs' = WithCritOf(b, [CritOf(b) EXCEPT !.attempts = @ + 1])
    /\ Goto(b, "judge")
    /\ UNCHANGED outside

\* Judged not met, or met and not integrated.
JudgedShort(b) ==
    /\ At(b, "judge")
    /\ NextJob(b)
    /\ UNCHANGED <<reqs, outside>>

\* structural_incapability: decline_criterion raises when it was met meanwhile, and the
\* beat ends with the verdicts it had left.
Incapable(b) ==
    /\ At(b, "judge")
    /\ IF CritOf(b).met THEN Set(b, Done) /\ UNCHANGED reqs
       ELSE reqs' = WithCritOf(b, DeclinedNow(CritOf(b))) /\ NextJob(b)
    /\ UNCHANGED outside

\* A proposal is met at once; a build is integrated, validated and committed before.
JudgedMet(b) ==
    /\ At(b, "judge")
    /\ Goto(b, "meet")
    /\ UNCHANGED <<reqs, outside>>

MeetAnyway(b, c) == reqs' = WithCritOf(b, MetNow(c)) /\ NextJob(b)

\* meet() raises when the criterion was declined meanwhile.
MeetIt(b, c) ==
    IF c.declined THEN Set(b, Done) /\ UNCHANGED reqs
    ELSE reqs' = WithCritOf(b, MetNow(c)) /\ NextJob(b)

Meet(b) ==
    /\ At(b, "meet")
    /\ MeetIt(b, CritOf(b))
    /\ UNCHANGED outside

NoOpTrue(b) ==
    /\ At(b, "noop")
    /\ NextJob(b)
    /\ UNCHANGED <<reqs, outside>>

AlreadyMet(b) ==
    /\ At(b, "lastNoop")
    /\ MeetIt(b, [CritOf(b) EXCEPT !.noops = 0])
    /\ UNCHANGED outside

NoOpFalse(b) ==
    /\ At(b, "noop") \/ At(b, "lastNoop")
    /\ FromOutside
    /\ reqs' = WithCritOf(b, [CritOf(b) EXCEPT !.noops = 0])
    /\ NextJob(b)

-----------------------------------------------------------------------------
(* With no criterion to work on, a request is moved or goes to the gate.   *)

Moving(b) == Starts(b) /\ WithWork = {} /\ ToMove # {}
OnOf(b) == Oldest(beat[b].on)

ToDeliver(b) ==
    /\ Moving(b) /\ reqs[NextToMove].state # "delivered"
    /\ reqs' = Moved(NextToMove, "in_progress")
    /\ Set(b, [Done EXCEPT !.step = "deliver", !.on = {NextToMove}])

\* A refusal is reported and the beat ends, as it does after the move.
Deliver(b) ==
    /\ At(b, "deliver")
    /\ reqs' = Moved(OnOf(b), "delivered")
    /\ Set(b, Done)
    /\ UNCHANGED outside

\* gate() checks the evidence of every criterion before it asks the reviewer.
StartGate(b) ==
    /\ Moving(b) /\ reqs[NextToMove].state = "delivered"
    /\ reqs' = [reqs EXCEPT ![NextToMove].gates = @ + 1]
    /\ LET evidenced == \A i \in DOMAIN Crit(NextToMove) : Crit(NextToMove)[i].met
       IN  Set(b, [Done EXCEPT !.step = IF evidenced THEN "review" ELSE "refused", !.on = {NextToMove}])

GateErrs(b) ==
    /\ At(b, "review") \/ At(b, "refused")
    /\ Set(b, Done)
    /\ UNCHANGED <<reqs, outside>>

GatePasses(b) ==
    /\ At(b, "review")
    /\ reqs' = Moved(OnOf(b), "verified")
    /\ Set(b, Done)
    /\ UNCHANGED outside

GateRefuses(b) ==
    /\ At(b, "review")
    /\ Goto(b, "refused")
    /\ UNCHANGED <<reqs, outside>>

ReadFindingAgain(b) ==
    /\ At(b, "refused")
    /\ Goto(b, "add")
    /\ UNCHANGED <<reqs, outside>>

\* _criterion_from_finding: one open review criterion at a time.
ReadFinding(b) ==
    /\ At(b, "refused")
    /\ LET recorded == \E i \in DOMAIN Crit(OnOf(b)) : Crit(OnOf(b))[i].review /\ ~Crit(OnOf(b))[i].met
       IN  Goto(b, IF recorded THEN "reopen" ELSE "add")
    /\ UNCHANGED <<reqs, outside>>

AddFinding(b) ==
    /\ At(b, "add")
    /\ reqs' = WithCriteria(OnOf(b), <<[NewCriterion EXCEPT !.review = TRUE]>>)
    /\ Goto(b, "reopen")
    /\ UNCHANGED outside

Reopen(b) ==
    /\ At(b, "reopen")
    /\ reqs' = Moved(OnOf(b), "in_progress")
    /\ Set(b, Done)
    /\ UNCHANGED outside

-----------------------------------------------------------------------------
(* With nothing to move either, one request is given criteria.             *)

StartTriage(b) ==
    /\ Starts(b) /\ WithWork = {} /\ ToMove = {} /\ Untriaged # {}
    /\ Set(b, [Done EXCEPT !.step = "triage", !.on = Untriaged])
    /\ UNCHANGED reqs

TriageNextOfMany(b) ==
    /\ At(b, "triage")
    /\ IF Crit(OnOf(b)) = <<>> THEN Goto(b, "draft") ELSE Set(b, [beat[b] EXCEPT !.on = @ \ {OnOf(b)}])
    /\ UNCHANGED <<reqs, outside>>

\* triage() passes by a request that has criteria by now.
TriageNext(b) ==
    /\ At(b, "triage")
    /\ IF Crit(OnOf(b)) = <<>> THEN Goto(b, "draft")
       ELSE Set(b, IF beat[b].on = {OnOf(b)} THEN Done ELSE [beat[b] EXCEPT !.on = @ \ {OnOf(b)}])
    /\ UNCHANGED <<reqs, outside>>

\* What the model drafted is added to whatever the request holds when it answers.
Draft(b) ==
    /\ At(b, "draft")
    /\ \E n \in 1 .. MaxDrafted : reqs' = WithCriteria(OnOf(b), [i \in 1 .. n |-> NewCriterion])
    /\ Set(b, Done)
    /\ UNCHANGED outside

DeclineAsk(b) ==
    /\ At(b, "draft")
    /\ reqs' = Moved(OnOf(b), "declined")
    /\ Set(b, Done)
    /\ UNCHANGED outside

-----------------------------------------------------------------------------
(* Outside: the operator's commands, a beat that dies, six hours gone.     *)

Capture ==
    /\ Len(reqs) < MaxRequests
    /\ reqs' = Append(reqs, [state |-> "captured", criteria |-> <<>>, gates |-> 0])
    /\ UNCHANGED <<beat, outside>>

MarkMet(r, i) ==
    /\ FromOutside /\ ~Crit(r)[i].declined
    /\ reqs' = WithCriterion(r, i, MetNow(Crit(r)[i]))
    /\ UNCHANGED beat

DeclineCriterion(r, i) ==
    /\ FromOutside /\ ~Crit(r)[i].met
    /\ reqs' = WithCriterion(r, i, DeclinedNow(Crit(r)[i]))
    /\ UNCHANGED beat

AdvanceByHand(r, state) ==
    /\ FromOutside /\ MayAdvance(r, state)
    /\ reqs' = Moved(r, state)
    /\ UNCHANGED beat

Expire(r, i) ==
    /\ FromOutside /\ Crit(r)[i].fresh
    /\ reqs' = WithCriterion(r, i, [Crit(r)[i] EXCEPT !.fresh = FALSE])
    /\ UNCHANGED beat

Crash(b) ==
    /\ FromOutside /\ ~At(b, "idle")
    /\ Set(b, Done)
    /\ UNCHANGED reqs

Operator(r) ==
    \/ \E i \in DOMAIN Crit(r) : MarkMet(r, i) \/ DeclineCriterion(r, i) \/ Expire(r, i)
    \/ \E state \in States : AdvanceByHand(r, state)

OnCriterion(b) ==
    \/ Dispatch(b) \/ StallOnPaper(b) \/ AllOnPaper(b)
    \/ NoOp(b) \/ Wall(b) \/ DispatchFails(b) \/ Accepted(b)
    \/ JudgedShort(b) \/ Incapable(b) \/ JudgedMet(b) \/ Meet(b)
    \/ NoOpTrue(b) \/ NoOpFalse(b) \/ AlreadyMet(b)

OnRequest(b) ==
    \/ ToDeliver(b) \/ Deliver(b)
    \/ StartGate(b) \/ GateErrs(b) \/ GatePasses(b) \/ GateRefuses(b)
    \/ ReadFinding(b) \/ AddFinding(b) \/ Reopen(b)
    \/ StartTriage(b) \/ TriageNext(b) \/ Draft(b) \/ DeclineAsk(b)

Next ==
    \/ Capture
    \/ \E r \in DOMAIN reqs : Operator(r)
    \/ \E b \in Beats : OnCriterion(b) \/ OnRequest(b) \/ Crash(b)

Spec == Init /\ [][Next]_vars

\* The timer goes on, and an ask older than seva_overdue_days makes every beat one of
\* obligations: while some beat can do something about them, some beat does.
FairSpec == Spec /\ WF_vars(\E b \in Beats : OnCriterion(b) \/ OnRequest(b))
-----------------------------------------------------------------------------
(* Properties                                                              *)

Beat == [step : Steps, jobs : Seq(Job), on : SUBSET Nat]

\* The requests and the beats have their shapes, and a beat at work is at a criterion or
\* a request that exists.
TypeOK ==
    /\ reqs \in Seq(Request) /\ outside \in Nat
    /\ beat \in [Beats -> Beat]
    /\ \A b \in Beats :
        /\ \A k \in DOMAIN beat[b].jobs :
            LET job == beat[b].jobs[k]
            IN  job.req \in DOMAIN reqs /\ job.index \in DOMAIN Crit(job.req)
        /\ beat[b].on \subseteq DOMAIN reqs
        /\ At(b, "wave") \/ At(b, "judge") \/ At(b, "meet") \/ At(b, "noop") \/ At(b, "lastNoop")
            => beat[b].jobs # <<>>
        /\ At(b, "deliver") \/ At(b, "review") \/ At(b, "refused") \/ At(b, "add") \/ At(b, "reopen")
              \/ At(b, "triage") \/ At(b, "draft")
            => beat[b].on # {}

\* meet and decline_criterion: a criterion declined while an agent builds it, or met while
\* a judge reads another answer, is not both in the end, whoever comes last.
NeverBoth ==
    \A r \in DOMAIN reqs : \A i \in DOMAIN Crit(r) : ~(Crit(r)[i].met /\ Crit(r)[i].declined)

\* stalled: the budget of judged attempts is checked before a dispatch and counted after
\* it, so each further beat that runs at the same time may exceed it by one and no more.
AttemptsBounded ==
    \A r \in DOMAIN reqs : \A i \in DOMAIN Crit(r) : Crit(r)[i].attempts < MaxAttempts + Cardinality(Beats)

\* _criterion_from_finding: "One open review criterion at a time is enough", however often a
\* request is refused and even when the operator declined it.  The check comes before the
\* criterion is added, so each beat that starts beside another may add one more.
OneOpenReview ==
    \A r \in DOMAIN reqs :
        Cardinality({i \in DOMAIN Crit(r) : Crit(r)[i].review /\ ~Crit(r)[i].met}) <= 1 + outside

\* next_unmet: "it must not hide the work behind it, here or on its own request".  Left to
\* itself the loop brings every criterion of every open request to be met, declined or
\* parked, and then pays for no further dispatch.
WorkRunsOut == \A r \in 1 .. MaxRequests : <>[](r \in DOMAIN reqs => ~IsOpen(r) \/ Workable(r) = {})

\* next_obligation: "A selector that returns work it cannot act on, hourly, is not
\* selecting."  An ask that nobody declines is given criteria.
AskIsReached ==
    \A r \in 1 .. MaxRequests :
        (r \in DOMAIN reqs) ~> (r \in DOMAIN reqs /\ (Crit(r) # <<>> \/ ~IsOpen(r)))
=============================================================================
