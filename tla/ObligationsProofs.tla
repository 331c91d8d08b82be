-------------------------- MODULE ObligationsProofs --------------------------
(***************************************************************************)
(* Theorems about Obligations for any number of beats, requests, criteria  *)
(* and commands: the shapes, and the three promises that do not depend on  *)
(* the loop being left to itself.                                          *)
(***************************************************************************)
EXTENDS Obligations, SequenceTheorems, FiniteSetTheorems, WellFoundedInduction, TLAPS

USE ObligationsConstants

-----------------------------------------------------------------------------
(* The store                                                               *)

LEMMA OldestIsOne == ASSUME NEW S \in SUBSET Nat, S # {} PROVE Oldest(S) \in S
<1> DEFINE less == {ss \in Nat \X Nat : ss[1] < ss[2]}
<1>1. IsWellFoundedOn(less, Nat)
  BY NatLessThanWellFounded, Zenon DEF OpToRel
<1>2. PICK r \in S : \A q \in S : ~ <<q, r>> \in less
  <2> HIDE DEF less
  <2> QED
    BY <1>1, WFMin
<1>3. ASSUME NEW q \in S PROVE r <= q
  <2>1. q \in Nat /\ r \in Nat /\ <<q, r>> \in Nat \X Nat
    OBVIOUS
  <2>2. ~(<<q, r>>[1] < <<q, r>>[2])
    BY <1>2, <2>1
  <2> QED
    BY <2>1, <2>2
<1> QED
  BY <1>3 DEF Oldest

\* Requests, their criteria, and where they may be read.
LEMMA Reading ==
    ASSUME reqs \in Seq(Request), NEW r \in DOMAIN reqs
    PROVE  /\ reqs[r] \in Request
           /\ Crit(r) \in Seq(Criterion)
           /\ \A i \in DOMAIN Crit(r) : Crit(r)[i] \in Criterion
<1>1. reqs[r] \in Request
  BY ElementOfSeq
<1>2. Crit(r) \in Seq(Criterion)
  BY <1>1 DEF Crit, Request
<1> QED
  BY <1>1, <1>2, ElementOfSeq

\* What replacing one criterion changes.
LEMMA Replacing ==
    ASSUME reqs \in Seq(Request), NEW r \in DOMAIN reqs, NEW i \in DOMAIN Crit(r), NEW c \in Criterion
    PROVE  LET new == WithCriterion(r, i, c)
           IN  /\ new \in Seq(Request) /\ DOMAIN new = DOMAIN reqs
               /\ \A q \in DOMAIN reqs :
                    /\ DOMAIN new[q].criteria = DOMAIN Crit(q)
                    /\ \A j \in DOMAIN Crit(q) :
                        new[q].criteria[j] = IF q = r /\ j = i THEN c ELSE Crit(q)[j]
<1> DEFINE changed == [reqs[r] EXCEPT !.criteria = [Crit(r) EXCEPT ![i] = c]]
<1>1. reqs[r] \in Request /\ Crit(r) \in Seq(Criterion)
  BY Reading
<1>2. /\ [Crit(r) EXCEPT ![i] = c] \in Seq(Criterion)
      /\ DOMAIN [Crit(r) EXCEPT ![i] = c] = DOMAIN Crit(r)
  BY <1>1, ExceptSeq
<1>3. changed \in Request /\ changed.criteria = [Crit(r) EXCEPT ![i] = c]
  BY <1>1, <1>2 DEF Request
<1>4. WithCriterion(r, i, c) = [reqs EXCEPT ![r] = changed]
  BY DEF WithCriterion, Crit
<1>5. [reqs EXCEPT ![r] = changed] \in Seq(Request)
  BY <1>3, ExceptSeq
<1> QED
  BY <1>1, <1>2, <1>3, <1>4, <1>5 DEF Crit

\* What moving a request changes, and what counting a gate does.
LEMMA MovingIt ==
    ASSUME reqs \in Seq(Request), NEW r \in DOMAIN reqs, NEW state \in States
    PROVE  LET new == Moved(r, state)
           IN  /\ new \in Seq(Request) /\ DOMAIN new = DOMAIN reqs
               /\ \A q \in DOMAIN reqs : new[q].criteria = Crit(q)
<1>1. [reqs[r] EXCEPT !.state = state] \in Request
  BY Reading DEF Request
<1>2. [reqs EXCEPT ![r] = [reqs[r] EXCEPT !.state = state]] \in Seq(Request)
  BY <1>1, ExceptSeq
<1>3. reqs[r].criteria = Crit(r) /\ [reqs[r] EXCEPT !.state = state].criteria = Crit(r)
  BY Reading DEF Crit, Request
<1> QED
  BY <1>2, <1>3 DEF Moved, Crit

LEMMA CountingAGate ==
    ASSUME reqs \in Seq(Request), NEW r \in DOMAIN reqs
    PROVE  LET new == [reqs EXCEPT ![r].gates = @ + 1]
           IN  /\ new \in Seq(Request) /\ DOMAIN new = DOMAIN reqs
               /\ \A q \in DOMAIN reqs : new[q].criteria = Crit(q)
<1>1. [reqs[r] EXCEPT !.gates = @ + 1] \in Request
  <2>1. reqs[r] \in Request
    BY Reading
  <2>2. reqs[r].gates + 1 \in Nat
    BY <2>1 DEF Request
  <2>3. \A n \in Nat : [reqs[r] EXCEPT !.gates = n] \in Request
    BY <2>1 DEF Request
  <2> QED
    BY <2>2, <2>3
<1>2. [reqs EXCEPT ![r] = [reqs[r] EXCEPT !.gates = @ + 1]] \in Seq(Request)
  BY <1>1, ExceptSeq
<1>3. reqs[r].criteria = Crit(r) /\ [reqs[r] EXCEPT !.gates = @ + 1].criteria = Crit(r)
  BY Reading DEF Crit, Request
<1> QED
  BY <1>2, <1>3 DEF Crit

\* What giving a request more criteria changes.
LEMMA Adding ==
    ASSUME reqs \in Seq(Request), NEW r \in DOMAIN reqs, NEW more \in Seq(Criterion)
    PROVE  LET new == WithCriteria(r, more)
           IN  /\ new \in Seq(Request) /\ DOMAIN new = DOMAIN reqs
               /\ new[r].criteria = Crit(r) \o more
               /\ \A q \in DOMAIN reqs \ {r} : new[q].criteria = Crit(q)
<1> DEFINE changed == [reqs[r] EXCEPT !.criteria = Crit(r) \o more]
<1>1. changed \in Request /\ changed.criteria = Crit(r) \o more
  BY Reading, ConcatProperties DEF Request
<1>2. [reqs EXCEPT ![r] = changed] \in Seq(Request)
  BY <1>1, ExceptSeq
<1>3. WithCriteria(r, more) = [reqs EXCEPT ![r] = changed]
  BY DEF WithCriteria, Crit
<1> QED
  BY <1>1, <1>2, <1>3 DEF Crit

-----------------------------------------------------------------------------
(* What any step does to the store: a criterion keeps its place and its    *)
(* origin, one that is met stays met, and none becomes both.  Two actions  *)
(* raise its count of attempts, and one adds a criterion of a review.      *)

Counts == \E b \in Beats : StallOnPaper(b) \/ Accepted(b)
Adds == \E b \in Beats : AddFinding(b)

Kept(c, d) ==
    /\ d.review = c.review
    /\ c.met => d.met
    /\ d.met /\ d.declined => c.met /\ c.declined
    /\ d.attempts = c.attempts \/ d.attempts < c.attempts \/ Counts

Untouched(d) == ~d.met /\ ~d.declined /\ d.attempts = 0 /\ (d.review => Adds)

Extends(new) ==
    /\ new \in Seq(Request)
    /\ \A r \in DOMAIN reqs : r \in DOMAIN new /\ DOMAIN Crit(r) \subseteq DOMAIN new[r].criteria
    /\ \A r \in DOMAIN new : \A i \in DOMAIN new[r].criteria :
        IF r \in DOMAIN reqs /\ i \in DOMAIN Crit(r) THEN Kept(Crit(r)[i], new[r].criteria[i])
        ELSE Untouched(new[r].criteria[i])

LEMMA SameExtends == ASSUME reqs \in Seq(Request) PROVE Extends(reqs)
BY DEF Extends, Kept, Crit

LEMMA ReplacingExtends ==
    ASSUME reqs \in Seq(Request), NEW r \in DOMAIN reqs, NEW i \in DOMAIN Crit(r), NEW c \in Criterion,
           Kept(Crit(r)[i], c)
    PROVE  Extends(WithCriterion(r, i, c))
BY Replacing DEF Extends, Kept

LEMMA MovingExtends ==
    ASSUME reqs \in Seq(Request), NEW r \in DOMAIN reqs, NEW state \in States
    PROVE  Extends(Moved(r, state))
BY MovingIt DEF Extends, Kept, Crit

LEMMA AddingExtends ==
    ASSUME reqs \in Seq(Request), NEW r \in DOMAIN reqs, NEW more \in Seq(Criterion),
           \A k \in DOMAIN more : Untouched(more[k])
    PROVE  Extends(WithCriteria(r, more))
<1> DEFINE new == WithCriteria(r, more)
<1>1. /\ new \in Seq(Request) /\ DOMAIN new = DOMAIN reqs
      /\ new[r].criteria = Crit(r) \o more
      /\ \A q \in DOMAIN reqs \ {r} : new[q].criteria = Crit(q)
  BY Adding
<1>2. Crit(r) \in Seq(Criterion)
  BY Reading
<1>3. /\ DOMAIN Crit(r) \subseteq DOMAIN (Crit(r) \o more)
      /\ \A i \in DOMAIN (Crit(r) \o more) :
            IF i \in DOMAIN Crit(r) THEN (Crit(r) \o more)[i] = Crit(r)[i] ELSE Untouched((Crit(r) \o more)[i])
  <2>1. /\ Len(Crit(r)) \in Nat /\ DOMAIN Crit(r) = 1 .. Len(Crit(r))
        /\ Len(more) \in Nat /\ DOMAIN more = 1 .. Len(more)
    BY <1>2
  <2>2. /\ DOMAIN (Crit(r) \o more) = 1 .. Len(Crit(r)) + Len(more)
        /\ \A i \in 1 .. Len(Crit(r)) + Len(more) :
            (Crit(r) \o more)[i] = IF i <= Len(Crit(r)) THEN Crit(r)[i] ELSE more[i - Len(Crit(r))]
    BY <1>2, ConcatProperties
  <2>3. \A i \in 1 .. Len(Crit(r)) + Len(more) : i <= Len(Crit(r)) \/ i - Len(Crit(r)) \in DOMAIN more
    BY <2>1
  <2> QED
    BY <2>1, <2>2, <2>3
<1> QED
  BY <1>1, <1>3 DEF Extends, Kept

LEMMA CaptureExtends == ASSUME reqs \in Seq(Request), Capture PROVE Extends(reqs')
<1> DEFINE ask == [state |-> "captured", criteria |-> <<>>, gates |-> 0]
<1>1. ask \in Request
  BY DEF Request, States
<1>2. /\ reqs' \in Seq(Request) /\ Len(reqs') = Len(reqs) + 1
      /\ \A r \in DOMAIN reqs : reqs'[r] = reqs[r]
      /\ reqs'[Len(reqs) + 1] = ask
  BY <1>1, AppendProperties DEF Capture
<1> QED
  BY <1>2 DEF Extends, Kept, Crit

-----------------------------------------------------------------------------
(* What a beat is at.                                                      *)

AtJob == {"wave", "judge", "meet", "noop", "lastNoop"}
AtRequest == {"deliver", "review", "refused", "add", "reopen", "triage", "draft"}

\* What TypeOK says of one beat.
Sound(l) ==
    /\ l \in Beat
    /\ \A k \in DOMAIN l.jobs : l.jobs[k].req \in DOMAIN reqs /\ l.jobs[k].index \in DOMAIN Crit(l.jobs[k].req)
    /\ l.on \subseteq DOMAIN reqs
    /\ l.step \in AtJob => l.jobs # <<>>
    /\ l.step \in AtRequest => l.on # {}

LEMMA Typed ==
    TypeOK <=> /\ reqs \in Seq(Request) /\ outside \in Nat
               /\ beat \in [Beats -> Beat]
               /\ \A b \in Beats : Sound(beat[b])
BY DEF TypeOK, Sound, AtJob, AtRequest, At

LEMMA JobIs ==
    ASSUME TypeOK, NEW b \in Beats, beat[b].step \in AtJob
    PROVE  /\ JobOf(b).req \in DOMAIN reqs
           /\ JobOf(b).index \in DOMAIN Crit(JobOf(b).req)
           /\ CritOf(b) \in Criterion
<1>1. Sound(beat[b]) /\ reqs \in Seq(Request)
  BY Typed
<1>2. beat[b].jobs \in Seq(Job) /\ beat[b].jobs # <<>>
  BY <1>1 DEF Sound, Beat
<1>3. 1 \in DOMAIN beat[b].jobs
  BY <1>2
<1>4. JobOf(b).req \in DOMAIN reqs /\ JobOf(b).index \in DOMAIN Crit(JobOf(b).req)
  BY <1>1, <1>3 DEF Sound, JobOf
<1> QED
  BY <1>1, <1>4, Reading DEF CritOf

LEMMA OnIs ==
    ASSUME TypeOK, NEW b \in Beats, beat[b].step \in AtRequest
    PROVE  OnOf(b) \in beat[b].on /\ OnOf(b) \in DOMAIN reqs
<1>1. Sound(beat[b])
  BY Typed
<1>2. beat[b].on \in SUBSET Nat /\ beat[b].on # {}
  BY <1>1 DEF Sound, Beat
<1> QED
  BY <1>1, <1>2, OldestIsOne DEF OnOf, Sound

\* What the selectors return.
LEMMA Selected ==
    ASSUME TypeOK
    PROVE  /\ WithWork \subseteq DOMAIN reqs /\ WithWork \subseteq Nat
           /\ WithWork # {} => Oldest(WithWork) \in WithWork
           /\ ToMove # {} => NextToMove \in DOMAIN reqs
           /\ \A r \in WithWork : /\ NextUnmet(r) \in Job
                                  /\ NextUnmet(r).req = r
                                  /\ NextUnmet(r).index \in Workable(r)
<1>1. reqs \in Seq(Request)
  BY Typed
<1>2. DOMAIN reqs \subseteq Nat
  BY <1>1
<1>3. WithWork \subseteq DOMAIN reqs /\ ToMove \subseteq DOMAIN reqs
  BY DEF WithWork, ToMove
<1>4. ASSUME NEW r \in WithWork PROVE NextUnmet(r) \in Job /\ NextUnmet(r).req = r /\ NextUnmet(r).index \in Workable(r)
  <2>1. Crit(r) \in Seq(Criterion)
    BY <1>1, <1>3, Reading
  <2>2. Workable(r) \in SUBSET Nat /\ Workable(r) # {}
    BY <2>1 DEF Workable, Unmet, WithWork
  <2>3. Oldest(Workable(r)) \in Workable(r)
    BY <2>2, OldestIsOne
  <2> QED
    BY <1>2, <1>3, <2>2, <2>3 DEF NextUnmet, Job
<1>5. (WithWork # {} => Oldest(WithWork) \in WithWork) /\ (ToMove # {} => NextToMove \in ToMove)
  BY <1>2, <1>3, OldestIsOne DEF NextToMove
<1> QED
  BY <1>2, <1>3, <1>4, <1>5

-----------------------------------------------------------------------------
(* Every step extends the store.                                           *)

LEMMA VerdictExtends ==
    ASSUME TypeOK, NEW b \in Beats, beat[b].step \in AtJob, NEW c \in Criterion, Kept(CritOf(b), c)
    PROVE  Extends(WithCritOf(b, c))
BY JobIs, Typed, ReplacingExtends DEF WithCritOf, CritOf

LEMMA Settling ==
    ASSUME NEW c \in Criterion
    PROVE  /\ MetNow(c) \in Criterion /\ DeclinedNow(c) \in Criterion
           /\ ~c.declined => Kept(c, MetNow(c))
           /\ ~c.met => Kept(c, DeclinedNow(c))
<1>1. MetNow(c) \in Criterion /\ DeclinedNow(c) \in Criterion
  BY DEF MetNow, DeclinedNow, Criterion
<1>2. /\ MetNow(c).review = c.review /\ MetNow(c).met /\ MetNow(c).declined = c.declined
      /\ DeclinedNow(c).review = c.review /\ DeclinedNow(c).met = c.met
      /\ MetNow(c).attempts = 0 /\ DeclinedNow(c).attempts = 0
  BY DEF MetNow, DeclinedNow, Criterion
<1>3. 0 = c.attempts \/ 0 < c.attempts
  <2>1. c.attempts \in Nat
    BY DEF Criterion
  <2> QED
    BY <2>1
<1> QED
  BY <1>1, <1>2, <1>3 DEF Kept

LEMMA MeetExtends ==
    ASSUME TypeOK, NEW b \in Beats, beat[b].step \in AtJob, NEW c \in Criterion,
           Kept(CritOf(b), c), c.declined = CritOf(b).declined, c.attempts = CritOf(b).attempts, MeetIt(b, c)
    PROVE  Extends(reqs')
<1>1. CASE c.declined
  BY <1>1, Typed, SameExtends DEF MeetIt
<1>2. CASE ~c.declined
  <2>1. MetNow(c) \in Criterion /\ Kept(CritOf(b), MetNow(c))
    BY <1>2, Settling DEF Kept
  <2> QED
    BY <1>2, <2>1, VerdictExtends DEF MeetIt
<1> QED
  BY <1>1, <1>2

LEMMA OnCriterionExtends ==
    ASSUME TypeOK, NEW b \in Beats, OnCriterion(b)
    PROVE  Extends(reqs')
<1> USE DEF AtJob, At
<1>1. reqs \in Seq(Request)
  BY Typed
<1>2. CASE StallOnPaper(b)
  <2> DEFINE r == Oldest(WithWork)
  <2> DEFINE i == NextUnmet(r).index
  <2>1. r \in DOMAIN reqs /\ i \in DOMAIN Crit(r)
    BY <1>2, Selected DEF StallOnPaper, Choosing, Workable, Unmet
  <2>2. Crit(r)[i] \in Criterion
    BY <1>1, <2>1, Reading
  <2>3. MaxAttempts \in Nat
    BY DEF ObligationsConstants
  <2>4. LET c == [Crit(r)[i] EXCEPT !.attempts = MaxAttempts] IN c \in Criterion /\ Kept(Crit(r)[i], c)
    BY <1>2, <2>2, <2>3 DEF Criterion, Kept, Counts
  <2>5. reqs' = WithCriterion(r, i, [Crit(r)[i] EXCEPT !.attempts = MaxAttempts])
    BY <1>2 DEF StallOnPaper
  <2> QED
    BY <1>1, <2>1, <2>4, <2>5, ReplacingExtends
<1>3. CASE NoOp(b)
  <2>1. CritOf(b) \in Criterion
    BY <1>3, JobIs DEF NoOp
  <2>2. LET c == [CritOf(b) EXCEPT !.noops = @ + 1] IN c \in Criterion /\ Kept(CritOf(b), c)
    BY <2>1 DEF Criterion, Kept
  <2> QED
    BY <1>3, <2>2, VerdictExtends DEF NoOp
<1>4. CASE DispatchFails(b)
  <2>1. CritOf(b) \in Criterion
    BY <1>4, JobIs DEF DispatchFails
  <2>2. CritOf(b).failures + 1 \in Nat
    BY <2>1 DEF Criterion
  <2>3. LET c == [CritOf(b) EXCEPT !.failures = @ + 1, !.fresh = TRUE] IN c \in Criterion /\ Kept(CritOf(b), c)
    BY <2>1, <2>2 DEF Criterion, Kept
  <2> QED
    BY <1>4, <2>3, VerdictExtends DEF DispatchFails
<1>5. CASE Accepted(b)
  <2>1. CritOf(b) \in Criterion
    BY <1>5, JobIs DEF Accepted
  <2>2. LET c == [CritOf(b) EXCEPT !.attempts = @ + 1] IN c \in Criterion /\ Kept(CritOf(b), c)
    BY <1>5, <2>1 DEF Criterion, Kept, Counts
  <2> QED
    BY <1>5, <2>2, VerdictExtends DEF Accepted
<1>6. CASE Incapable(b)
  <2>1. CritOf(b) \in Criterion
    BY <1>6, JobIs DEF Incapable
  <2>2. CASE CritOf(b).met
    BY <1>1, <1>6, <2>2, SameExtends DEF Incapable
  <2>3. CASE ~CritOf(b).met
    <3>1. DeclinedNow(CritOf(b)) \in Criterion /\ Kept(CritOf(b), DeclinedNow(CritOf(b)))
      BY <2>1, <2>3, Settling
    <3> QED
      BY <1>6, <2>3, <3>1, VerdictExtends DEF Incapable
  <2> QED
    BY <2>2, <2>3
<1>7. CASE Meet(b)
  <2>1. CritOf(b) \in Criterion
    BY <1>7, JobIs DEF Meet
  <2> QED
    BY <1>7, <2>1, MeetExtends DEF Meet, Kept
<1>8. CASE AlreadyMet(b)
  <2>1. CritOf(b) \in Criterion
    BY <1>8, JobIs DEF AlreadyMet
  <2>2. LET c == [CritOf(b) EXCEPT !.noops = 0]
        IN  /\ c \in Criterion /\ Kept(CritOf(b), c)
            /\ c.declined = CritOf(b).declined /\ c.attempts = CritOf(b).attempts
    BY <2>1 DEF Criterion, Kept
  <2> QED
    BY <1>8, <2>2, MeetExtends DEF AlreadyMet
<1>9. CASE NoOpFalse(b)
  <2>1. CritOf(b) \in Criterion
    BY <1>9, JobIs DEF NoOpFalse
  <2>2. LET c == [CritOf(b) EXCEPT !.noops = 0] IN c \in Criterion /\ Kept(CritOf(b), c)
    BY <2>1 DEF Criterion, Kept
  <2> QED
    BY <1>9, <2>2, VerdictExtends DEF NoOpFalse
<1>10. CASE UNCHANGED reqs
  BY <1>1, <1>10, SameExtends
<1> QED
  BY <1>2, <1>3, <1>4, <1>5, <1>6, <1>7, <1>8, <1>9, <1>10
  DEF OnCriterion, Dispatch, AllOnPaper, Wall, JudgedShort, JudgedMet, NoOpTrue

LEMMA OnRequestExtends ==
    ASSUME TypeOK, NEW b \in Beats, OnRequest(b)
    PROVE  Extends(reqs')
<1> USE DEF AtRequest, At
<1>1. reqs \in Seq(Request)
  BY Typed
<1>2. CASE ToDeliver(b)
  <2>1. NextToMove \in DOMAIN reqs
    BY <1>2, Selected DEF ToDeliver, Moving
  <2> QED
    BY <1>1, <1>2, <2>1, MovingExtends DEF ToDeliver, States
<1>3. CASE Deliver(b)
  BY <1>1, <1>3, OnIs, MovingExtends DEF Deliver, States
<1>4. CASE StartGate(b)
  <2>1. NextToMove \in DOMAIN reqs
    BY <1>4, Selected DEF StartGate, Moving
  <2> QED
    BY <1>1, <1>4, <2>1, CountingAGate DEF StartGate, Extends, Kept
<1>5. CASE GatePasses(b)
  BY <1>1, <1>5, OnIs, MovingExtends DEF GatePasses, States
<1>6. CASE AddFinding(b)
  <2> DEFINE more == <<[NewCriterion EXCEPT !.review = TRUE]>>
  <2>1. more \in Seq(Criterion) /\ \A k \in DOMAIN more : Untouched(more[k])
    <3>1. \A c \in Criterion : <<c>> \in Seq(Criterion) /\ \A k \in DOMAIN <<c>> : <<c>>[k] = c
      OBVIOUS
    <3>2. LET c == [NewCriterion EXCEPT !.review = TRUE] IN c \in Criterion /\ Untouched(c)
      BY <1>6 DEF NewCriterion, Criterion, Untouched, Adds
    <3> QED
      BY <3>1, <3>2
  <2>2. OnOf(b) \in DOMAIN reqs
    BY <1>6, OnIs DEF AddFinding
  <2> QED
    BY <1>1, <1>6, <2>1, <2>2, AddingExtends DEF AddFinding
<1>7. CASE Reopen(b)
  BY <1>1, <1>7, OnIs, MovingExtends DEF Reopen, States
<1>8. CASE Draft(b)
  <2>1. PICK n \in 1 .. MaxDrafted : reqs' = WithCriteria(OnOf(b), [i \in 1 .. n |-> NewCriterion])
    BY <1>8 DEF Draft
  <2> DEFINE more == [i \in 1 .. n |-> NewCriterion]
  <2>2. NewCriterion \in Criterion /\ Untouched(NewCriterion) /\ n \in Nat
    BY DEF NewCriterion, Criterion, Untouched, ObligationsConstants
  <2>3. more \in Seq(Criterion) /\ \A k \in DOMAIN more : Untouched(more[k])
    <3>1. more \in [1 .. n -> Criterion] /\ \A k \in 1 .. n : more[k] = NewCriterion
      BY <2>2
    <3> QED
      BY <2>2, <3>1, SeqDef
  <2>4. OnOf(b) \in DOMAIN reqs
    BY <1>8, OnIs DEF Draft
  <2> QED
    BY <1>1, <2>1, <2>3, <2>4, AddingExtends
<1>9. CASE DeclineAsk(b)
  BY <1>1, <1>9, OnIs, MovingExtends DEF DeclineAsk, States
<1>10. CASE UNCHANGED reqs
  BY <1>1, <1>10, SameExtends
<1> QED
  BY <1>2, <1>3, <1>4, <1>5, <1>6, <1>7, <1>8, <1>9, <1>10
  DEF OnRequest, GateErrs, GateRefuses, ReadFinding, StartTriage, TriageNext

LEMMA OperatorExtends ==
    ASSUME TypeOK, NEW r \in DOMAIN reqs, Operator(r)
    PROVE  Extends(reqs')
<1>1. reqs \in Seq(Request)
  BY Typed
<1>2. ASSUME NEW i \in DOMAIN Crit(r), MarkMet(r, i) \/ DeclineCriterion(r, i) \/ Expire(r, i)
      PROVE  Extends(reqs')
  <2>1. Crit(r)[i] \in Criterion
    BY <1>1, Reading
  <2>2. CASE MarkMet(r, i)
    <3>1. MetNow(Crit(r)[i]) \in Criterion /\ Kept(Crit(r)[i], MetNow(Crit(r)[i]))
      BY <2>1, <2>2, Settling DEF MarkMet
    <3> QED
      BY <1>1, <2>2, <3>1, ReplacingExtends DEF MarkMet
  <2>3. CASE DeclineCriterion(r, i)
    <3>1. DeclinedNow(Crit(r)[i]) \in Criterion /\ Kept(Crit(r)[i], DeclinedNow(Crit(r)[i]))
      BY <2>1, <2>3, Settling DEF DeclineCriterion
    <3> QED
      BY <1>1, <2>3, <3>1, ReplacingExtends DEF DeclineCriterion
  <2>4. CASE Expire(r, i)
    <3>1. LET c == [Crit(r)[i] EXCEPT !.fresh = FALSE] IN c \in Criterion /\ Kept(Crit(r)[i], c)
      BY <2>1 DEF Criterion, Kept
    <3> QED
      BY <1>1, <2>4, <3>1, ReplacingExtends DEF Expire
  <2> QED
    BY <1>2, <2>2, <2>3, <2>4
<1>3. ASSUME NEW state \in States, AdvanceByHand(r, state) PROVE Extends(reqs')
  BY <1>1, <1>3, MovingExtends DEF AdvanceByHand
<1> QED
  BY <1>2, <1>3 DEF Operator

LEMMA EveryStepExtends == ASSUME TypeOK, [Next]_vars PROVE Extends(reqs')
<1>1. reqs \in Seq(Request)
  BY Typed
<1>2. CASE Capture
  BY <1>1, <1>2, CaptureExtends
<1>3. CASE \E r \in DOMAIN reqs : Operator(r)
  BY <1>3, OperatorExtends
<1>4. CASE \E b \in Beats : OnCriterion(b) \/ OnRequest(b)
  BY <1>4, OnCriterionExtends, OnRequestExtends
<1>5. CASE \E b \in Beats : Crash(b)
  BY <1>1, <1>5, SameExtends DEF Crash
<1>6. CASE UNCHANGED vars
  BY <1>1, <1>6, SameExtends DEF vars
<1> QED
  BY <1>2, <1>3, <1>4, <1>5, <1>6 DEF Next

-----------------------------------------------------------------------------
(* Every step leaves a beat at something that exists.                      *)

LEMMA DoneIsSound == Sound(Done)
BY DEF Sound, Done, Beat, Steps, AtJob, AtRequest

LEMMA GotoIsSound ==
    ASSUME TypeOK, NEW b \in Beats, NEW step \in Steps,
           \/ beat[b].step \in AtJob /\ step \in AtJob
           \/ beat[b].step \in AtRequest /\ step \in AtRequest
    PROVE  Sound([beat[b] EXCEPT !.step = step])
<1>1. Sound(beat[b])
  BY Typed
<1>2. beat[b].step \in AtJob /\ step \in AtJob => step \notin AtRequest
  BY DEF AtJob, AtRequest
<1>3. beat[b].step \in AtRequest /\ step \in AtRequest => step \notin AtJob
  BY DEF AtJob, AtRequest
<1> QED
  BY <1>1, <1>2, <1>3 DEF Sound, Beat

\* What NextJob leaves.
Rest(b) == IF Len(beat[b].jobs) = 1 THEN Done ELSE [Done EXCEPT !.step = "wave", !.jobs = Tail(beat[b].jobs)]

LEMMA RestIsSound ==
    ASSUME TypeOK, NEW b \in Beats, beat[b].step \in AtJob
    PROVE  Sound(Rest(b))
<1>1. Sound(beat[b]) /\ beat[b].jobs \in Seq(Job) /\ beat[b].jobs # <<>>
  BY Typed DEF Sound, Beat
<1>2. CASE Len(beat[b].jobs) = 1
  BY <1>2, DoneIsSound DEF Rest
<1>3. CASE Len(beat[b].jobs) # 1
  <2> DEFINE tail == Tail(beat[b].jobs)
  <2>1. tail \in Seq(Job) /\ tail # <<>> /\ DOMAIN tail = 1 .. Len(beat[b].jobs) - 1
    <3>1. tail \in Seq(Job) /\ Len(tail) = Len(beat[b].jobs) - 1
      BY <1>1, HeadTailProperties
    <3>2. Len(beat[b].jobs) \in Nat \ {0, 1}
      BY <1>1, <1>3, EmptySeq
    <3> HIDE DEF tail
    <3>3. Len(tail) \in Nat \ {0} /\ DOMAIN tail = 1 .. Len(tail)
      BY <3>1, <3>2, LenProperties
    <3> QED
      BY <3>1, <3>3, EmptySeq
  <2>2. \A k \in DOMAIN tail : k + 1 \in DOMAIN beat[b].jobs /\ tail[k] = beat[b].jobs[k + 1]
    BY <1>1, <1>3
  <2>3. \A k \in DOMAIN tail : tail[k].req \in DOMAIN reqs /\ tail[k].index \in DOMAIN Crit(tail[k].req)
    BY <1>1, <2>2 DEF Sound
  <2> HIDE DEF tail
  <2> DEFINE l == [Done EXCEPT !.step = "wave", !.jobs = tail]
  <2>4. l.step = "wave" /\ l.jobs = tail /\ l.on = {} /\ l \in Beat
    BY <2>1 DEF Done, Beat, Steps
  <2> HIDE DEF l
  <2>5. Sound(l)
    BY <2>1, <2>3, <2>4 DEF Sound, AtJob, AtRequest
  <2> QED
    BY <1>3, <2>5 DEF Rest, tail, l
<1> QED
  BY <1>2, <1>3

\* The wave of a dispatch: different requests, each with the criterion next_unmet names.
LEMMA WaveIs ==
    ASSUME TypeOK, NEW b \in Beats, Dispatch(b)
    PROVE  \E l \in Beat :
             /\ Set(b, l)
             /\ l.step = "wave" /\ l.jobs # <<>> /\ l.on = {}
             /\ \A k \in DOMAIN l.jobs : l.jobs[k].req \in WithWork /\ l.jobs[k] = NextUnmet(l.jobs[k].req)
             /\ \A j, k \in DOMAIN l.jobs : l.jobs[j].req = l.jobs[k].req => j = k
<1> DEFINE first == Oldest(WithWork)
<1>1. first \in WithWork
  BY Selected DEF Dispatch, Choosing
<1>2. PICK more \in {q \in BoundedSeq(WithWork \ {first}, Width - 1) : IsInjective(q)} :
        Set(b, [Done EXCEPT !.step = "wave",
                            !.jobs = [k \in 1 .. Len(more) + 1 |-> NextUnmet((<<first>> \o more)[k])]])
  BY DEF Dispatch
<1> HIDE DEF first
<1>3. PICK n \in 0 .. Width - 1 : more \in [1 .. n -> WithWork \ {first}]
  BY <1>2 DEF BoundedSeq, SeqOf
<1>4. n \in Nat /\ more \in Seq(WithWork \ {first}) /\ Len(more) = n
  BY <1>3, SeqDef DEF ObligationsConstants
<1> DEFINE chosen == <<first>> \o more
<1> DEFINE wave == [k \in 1 .. n + 1 |-> NextUnmet(chosen[k])]
<1>5. /\ \A k \in 1 .. n + 1 : chosen[k] = IF k = 1 THEN first ELSE more[k - 1]
      /\ \A k \in 1 .. n + 1 : k = 1 \/ k - 1 \in 1 .. n
  BY <1>4
<1> HIDE DEF chosen
<1>6. \A k \in 1 .. n + 1 : chosen[k] \in WithWork
  BY <1>1, <1>3, <1>5
<1>7. \A j, k \in 1 .. n + 1 : chosen[j] = chosen[k] => j = k
  <2>1. \A j, k \in 1 .. n : more[j] = more[k] => j = k
    BY <1>2, <1>3 DEF IsInjective
  <2>2. \A k \in 1 .. n : more[k] # first
    BY <1>3
  <2> QED
    BY <1>4, <1>5, <2>1, <2>2
<1>8. \A k \in 1 .. n + 1 : wave[k] \in Job /\ wave[k].req = chosen[k] /\ wave[k] = NextUnmet(chosen[k])
  BY <1>6, Selected
<1>9. DOMAIN wave = 1 .. n + 1 /\ wave \in [1 .. n + 1 -> Job]
  BY <1>8
<1>10. Set(b, [Done EXCEPT !.step = "wave", !.jobs = wave])
  BY <1>2, <1>4 DEF chosen
<1> HIDE DEF wave
<1>11. wave \in Seq(Job) /\ wave # <<>>
  <2>1. n + 1 \in Nat /\ 1 \in 1 .. n + 1
    BY <1>4
  <2>2. wave \in Seq(Job)
    BY <1>9, <2>1, SeqDef
  <2>3. 1 \in DOMAIN wave
    BY <1>9, <2>1
  <2> QED
    BY <2>2, <2>3
<1> DEFINE l == [Done EXCEPT !.step = "wave", !.jobs = wave]
<1>12. l \in Beat /\ l.step = "wave" /\ l.jobs = wave /\ l.on = {}
  BY <1>11 DEF Done, Beat, Steps
<1>13. \A k \in DOMAIN wave : wave[k].req \in WithWork /\ wave[k] = NextUnmet(wave[k].req)
  BY <1>6, <1>8, <1>9
<1>14. \A j, k \in DOMAIN wave : wave[j].req = wave[k].req => j = k
  BY <1>7, <1>8, <1>9
<1> HIDE DEF l
<1>15. Set(b, l)
  BY <1>10 DEF l
<1> QED
  BY <1>11, <1>12, <1>13, <1>14, <1>15

LEMMA OnIsSound ==
    ASSUME TypeOK, NEW step \in AtRequest, NEW on \in SUBSET DOMAIN reqs, on # {}
    PROVE  Sound([Done EXCEPT !.step = step, !.on = on])
<1> DEFINE l == [Done EXCEPT !.step = step, !.on = on]
<1>1. reqs \in Seq(Request) /\ on \in SUBSET Nat
  BY Typed
<1>2. step \in Steps /\ step \notin AtJob
  BY DEF AtRequest, Steps, AtJob
<1>3. l.step = step /\ l.jobs = <<>> /\ l.on = on
  BY DEF Done
<1>4. l \in Beat
  <2>1. <<>> \in Seq(Job)
    OBVIOUS
  <2> QED
    BY <1>1, <1>2, <2>1 DEF Done, Beat
<1> HIDE DEF l
<1>5. Sound(l)
  BY <1>2, <1>3, <1>4 DEF Sound
<1> QED
  BY <1>5 DEF l

\* The beat that acts is at something sound afterwards.
LEMMA CriterionStepIsSound ==
    ASSUME TypeOK, NEW b \in Beats, OnCriterion(b)
    PROVE  \E l : Sound(l) /\ Set(b, l)
<1>1. CASE Dispatch(b)
  <2>1. PICK l \in Beat :
          /\ Set(b, l)
          /\ l.step = "wave" /\ l.jobs # <<>> /\ l.on = {}
          /\ \A k \in DOMAIN l.jobs : l.jobs[k].req \in WithWork /\ l.jobs[k] = NextUnmet(l.jobs[k].req)
    BY <1>1, WaveIs
  <2>2. \A k \in DOMAIN l.jobs : l.jobs[k].req \in DOMAIN reqs /\ l.jobs[k].index \in DOMAIN Crit(l.jobs[k].req)
    BY <2>1, Selected DEF Workable, Unmet
  <2>3. Sound(l)
    BY <2>1, <2>2 DEF Sound, AtJob, AtRequest
  <2> QED
    BY <2>1, <2>3
<1>2. CASE StallOnPaper(b)
  <2> DEFINE l == [Done EXCEPT !.step = "stalling"]
  <2>1. l \in Beat /\ l.step = "stalling" /\ l.jobs = <<>> /\ l.on = {}
    <3>1. <<>> \in Seq(Job) /\ "stalling" \in Steps
      BY DEF Steps
    <3> QED
      BY <3>1 DEF Done, Beat
  <2>2. Set(b, l)
    BY <1>2 DEF StallOnPaper
  <2> HIDE DEF l
  <2>3. Sound(l)
    BY <2>1 DEF Sound, AtJob, AtRequest
  <2> QED
    BY <2>2, <2>3
<1>3. CASE AllOnPaper(b)
  BY <1>3, DoneIsSound DEF AllOnPaper
<1>4. CASE NoOp(b)
  BY <1>4, GotoIsSound DEF NoOp, Goto, At, AtJob, Steps
<1>5. CASE Accepted(b)
  BY <1>5, GotoIsSound DEF Accepted, Goto, At, AtJob, Steps
<1>6. CASE JudgedMet(b)
  BY <1>6, GotoIsSound DEF JudgedMet, Goto, At, AtJob, Steps
<1>7. CASE Wall(b) \/ DispatchFails(b) \/ JudgedShort(b) \/ NoOpTrue(b) \/ NoOpFalse(b)
  <2>1. NextJob(b) /\ beat[b].step \in AtJob
    BY <1>7 DEF Wall, DispatchFails, JudgedShort, NoOpTrue, NoOpFalse, At, AtJob
  <2> QED
    BY <2>1, RestIsSound DEF NextJob, Rest
<1>8. CASE Incapable(b) \/ Meet(b) \/ AlreadyMet(b)
  <2>1. (NextJob(b) \/ Set(b, Done)) /\ beat[b].step \in AtJob
    BY <1>8 DEF Incapable, Meet, AlreadyMet, MeetIt, At, AtJob
  <2> QED
    BY <2>1, RestIsSound, DoneIsSound DEF NextJob, Rest
<1> QED
  BY <1>1, <1>2, <1>3, <1>4, <1>5, <1>6, <1>7, <1>8 DEF OnCriterion

LEMMA RequestStepIsSound ==
    ASSUME TypeOK, NEW b \in Beats, OnRequest(b)
    PROVE  \E l : Sound(l) /\ Set(b, l)
<1>1. CASE ToDeliver(b) \/ StartGate(b)
  <2>1. PICK step \in {"deliver", "review", "refused"} : Set(b, [Done EXCEPT !.step = step, !.on = {NextToMove}])
    BY <1>1 DEF ToDeliver, StartGate
  <2>2. {NextToMove} \in SUBSET DOMAIN reqs /\ {NextToMove} # {} /\ step \in AtRequest
    BY <1>1, Selected DEF ToDeliver, StartGate, Moving, AtRequest
  <2> QED
    BY <2>1, <2>2, OnIsSound
<1>2. CASE Deliver(b) \/ GateErrs(b) \/ GatePasses(b) \/ Reopen(b) \/ Draft(b) \/ DeclineAsk(b)
  BY <1>2, DoneIsSound DEF Deliver, GateErrs, GatePasses, Reopen, Draft, DeclineAsk
<1>3. CASE GateRefuses(b) \/ ReadFinding(b) \/ AddFinding(b)
  <2>1. PICK step \in {"refused", "add", "reopen"} : Goto(b, step) /\ beat[b].step \in AtRequest
    BY <1>3 DEF GateRefuses, ReadFinding, AddFinding, At, AtRequest
  <2>2. step \in AtRequest /\ step \in Steps
    BY DEF AtRequest, Steps
  <2> QED
    BY <2>1, <2>2, GotoIsSound DEF Goto
<1>4. CASE StartTriage(b)
  <2>1. Untriaged \in SUBSET DOMAIN reqs /\ Untriaged # {} /\ "triage" \in AtRequest
    BY <1>4 DEF StartTriage, Untriaged, AtRequest
  <2> QED
    BY <1>4, <2>1, OnIsSound DEF StartTriage
<1>5. CASE TriageNext(b)
  <2>1. Sound(beat[b]) /\ beat[b].step = "triage" /\ OnOf(b) \in beat[b].on
    BY <1>5, Typed, OnIs DEF TriageNext, At, AtRequest
  <2>2. CASE Crit(OnOf(b)) = <<>>
    BY <1>5, <2>1, <2>2, GotoIsSound DEF TriageNext, Goto, AtRequest, Steps
  <2>3. CASE Crit(OnOf(b)) # <<>> /\ beat[b].on = {OnOf(b)}
    BY <1>5, <2>3, DoneIsSound DEF TriageNext
  <2>4. CASE Crit(OnOf(b)) # <<>> /\ beat[b].on # {OnOf(b)}
    <3> DEFINE l == [beat[b] EXCEPT !.on = @ \ {OnOf(b)}]
    <3>1. Sound(l)
      BY <2>1, <2>4 DEF Sound, Beat, AtJob, AtRequest
    <3> QED
      BY <1>5, <2>4, <3>1 DEF TriageNext
  <2> QED
    BY <2>2, <2>3, <2>4
<1> QED
  BY <1>1, <1>2, <1>3, <1>4, <1>5 DEF OnRequest

\* Outside events are counted up.
LEMMA OutsideGrows == ASSUME outside \in Nat, [Next]_vars PROVE outside' \in Nat /\ outside <= outside'
<1>0. /\ UNCHANGED outside => outside' \in Nat /\ outside <= outside'
      /\ FromOutside => outside' \in Nat /\ outside <= outside'
  BY DEF FromOutside
<1>1. CASE Capture \/ UNCHANGED vars
  BY <1>0, <1>1 DEF Capture, vars
<1>2. CASE \E r \in DOMAIN reqs : Operator(r)
  <2>1. FromOutside
    BY <1>2, Zenon DEF Operator, MarkMet, DeclineCriterion, Expire, AdvanceByHand
  <2> QED
    BY <1>0, <2>1
<1>3. ASSUME NEW b \in Beats, OnCriterion(b) PROVE outside' \in Nat /\ outside <= outside'
  <2>1. CASE Dispatch(b) \/ StallOnPaper(b)
    <3>1. UNCHANGED outside \/ FromOutside
      BY <2>1, Zenon DEF Dispatch, StallOnPaper, Choosing, Looks, Starts
    <3> QED
      BY <1>0, <3>1
  <2>2. CASE Wall(b) \/ NoOpFalse(b)
    BY <1>0, <2>2, Zenon DEF Wall, NoOpFalse
  <2>3. CASE UNCHANGED outside
    BY <1>0, <2>3
  <2> QED
    BY <1>3, <2>1, <2>2, <2>3 DEF OnCriterion, AllOnPaper, NoOp, DispatchFails, Accepted, JudgedShort, Incapable,
                                  JudgedMet, Meet, NoOpTrue, AlreadyMet
<1>4. ASSUME NEW b \in Beats, OnRequest(b) PROVE outside' \in Nat /\ outside <= outside'
  <2>1. CASE ToDeliver(b) \/ StartGate(b) \/ StartTriage(b)
    <3>1. UNCHANGED outside \/ FromOutside
      BY <2>1, Zenon DEF ToDeliver, StartGate, StartTriage, Moving, Starts
    <3> QED
      BY <1>0, <3>1
  <2>2. CASE UNCHANGED outside
    BY <1>0, <2>2
  <2> QED
    BY <1>4, <2>1, <2>2 DEF OnRequest, Deliver, GateErrs, GatePasses, GateRefuses, ReadFinding, AddFinding, Reopen,
                            TriageNext, Draft, DeclineAsk
<1>5. ASSUME NEW b \in Beats, Crash(b) PROVE outside' \in Nat /\ outside <= outside'
  BY <1>0, <1>5 DEF Crash
<1> QED
  BY <1>1, <1>2, <1>3, <1>4, <1>5 DEF Next

\* Who acts: one beat, or none and the store or nothing changes.
LEMMA Actors ==
    ASSUME TypeOK, [Next]_vars
    PROVE  UNCHANGED beat \/ \E b \in Beats : \E l : Sound(l) /\ Set(b, l)
<1>1. CASE Capture \/ UNCHANGED vars
  BY <1>1 DEF Capture, vars
<1>2. CASE \E r \in DOMAIN reqs : Operator(r)
  BY <1>2 DEF Operator, MarkMet, DeclineCriterion, Expire, AdvanceByHand
<1>3. ASSUME NEW b \in Beats, OnCriterion(b) \/ OnRequest(b) \/ Crash(b) PROVE \E l : Sound(l) /\ Set(b, l)
  BY <1>3, CriterionStepIsSound, RequestStepIsSound, DoneIsSound DEF Crash
<1> QED
  BY <1>1, <1>2, <1>3 DEF Next

LEMMA TypeInit == Init => TypeOK
BY DEF Init, TypeOK, Done, Beat, Steps, At

LEMMA TypeStep == TypeOK /\ [Next]_vars => TypeOK'
<1> SUFFICES ASSUME TypeOK, [Next]_vars PROVE TypeOK'
  OBVIOUS
<1>1. Extends(reqs') /\ outside' \in Nat
  BY EveryStepExtends, OutsideGrows, Typed
<1>2. beat' \in [Beats -> Beat] /\ \A a \in Beats : Sound(beat'[a])
  BY Actors, Typed DEF Set, Sound
<1>3. ASSUME NEW a \in Beats PROVE Sound(beat[a])'
  BY <1>1, <1>2 DEF Sound, Extends, Crit
<1> QED
  BY <1>1, <1>2, <1>3 DEF TypeOK, Sound, Extends, AtJob, AtRequest, At

\* The requests and the beats keep their shapes, and a beat is always at a criterion or a
\* request that exists, however many there are.
THEOREM TypeCorrect == Spec => []TypeOK
<1>1. Init => TypeOK
  BY TypeInit
<1>2. TypeOK /\ [Next]_vars => TypeOK'
  BY TypeStep
<1> QED
  BY <1>1, <1>2, PTL DEF Spec

-----------------------------------------------------------------------------
(* Met and declined                                                        *)

\* No criterion is both met and declined, whatever commands and verdicts of how many beats
\* meet at it.
THEOREM SettledOnce == Spec => []NeverBoth
<1>1. Init => NeverBoth
  BY DEF Init, NeverBoth
<1>2. TypeOK /\ NeverBoth /\ [Next]_vars => NeverBoth'
  <2> SUFFICES ASSUME TypeOK, NeverBoth, [Next]_vars PROVE NeverBoth'
    OBVIOUS
  <2>1. Extends(reqs')
    BY EveryStepExtends
  <2> QED
    BY <2>1 DEF Extends, Kept, Untouched, NeverBoth, Crit
<1> QED
  BY <1>1, <1>2, TypeCorrect, PTL DEF Spec

-----------------------------------------------------------------------------
(* The budget of judged attempts.  A dispatch sees the budget unspent and  *)
(* the attempt is counted when the verdict is read, so what bounds the     *)
(* attempts is their number together with the beats that have a dispatch   *)
(* of the criterion still to be counted; and a beat has at most one,       *)
(* because the criteria of a wave are of different requests.               *)

Holds(l, r, i) ==
    \E k \in DOMAIN l.jobs : l.jobs[k].req = r /\ l.jobs[k].index = i /\ (k > 1 \/ l.step = "wave")
InFlight(r, i) == {b \in Beats : Holds(beat[b], r, i)}

OneEach(l) ==
    /\ l.step \in AtJob \/ l.jobs = <<>>
    /\ \A j, k \in DOMAIN l.jobs : l.jobs[j].req = l.jobs[k].req => j = k

BudgetAt(r, i) == Crit(r)[i].attempts + Cardinality(InFlight(r, i)) < MaxAttempts + Cardinality(Beats)

BudgetInv ==
    /\ \A b \in Beats : OneEach(beat[b])
    /\ \A r \in DOMAIN reqs : \A i \in DOMAIN Crit(r) : BudgetAt(r, i)

LEMMA BudgetInit == Init => BudgetInv
BY DEF Init, BudgetInv, OneEach, Done

LEMMA BudgetBounds == ASSUME TypeOK, BudgetInv PROVE AttemptsBounded
<1>1. ASSUME NEW r \in DOMAIN reqs, NEW i \in DOMAIN Crit(r)
      PROVE  Crit(r)[i].attempts < MaxAttempts + Cardinality(Beats)
  <2>1. Crit(r)[i] \in Criterion
    BY Typed, Reading
  <2>2. Cardinality(InFlight(r, i)) \in Nat /\ Cardinality(Beats) \in Nat /\ MaxAttempts \in Nat
    BY FS_Subset, FS_CardinalityType DEF InFlight, ObligationsConstants
  <2>3. Crit(r)[i].attempts \in Nat
    BY <2>1 DEF Criterion
  <2> QED
    BY <1>1, <2>2, <2>3 DEF BudgetInv, BudgetAt
<1> QED
  BY <1>1 DEF AttemptsBounded

\* The four ways in which one criterion stays within its budget.
LEMMA BudgetKept ==
    ASSUME NEW r, NEW i, Crit(r)[i]'.attempts \in Nat,
           \/ Crit(r)[i]'.attempts < MaxAttempts
           \/ Crit(r)[i]'.attempts = MaxAttempts /\ InFlight(r, i)' # Beats
           \/ /\ Crit(r)[i].attempts \in Nat /\ BudgetAt(r, i)
              /\ \/ /\ Crit(r)[i]'.attempts <= Crit(r)[i].attempts
                    /\ InFlight(r, i)' \subseteq InFlight(r, i)
                 \/ /\ Crit(r)[i]'.attempts = Crit(r)[i].attempts + 1
                    /\ InFlight(r, i)' \subseteq InFlight(r, i)
                    /\ InFlight(r, i)' # InFlight(r, i)
    PROVE  BudgetAt(r, i)'
<1> DEFINE before == InFlight(r, i)
<1> DEFINE after == InFlight(r, i)'
<1>1. IsFiniteSet(Beats) /\ MaxAttempts \in Nat
  BY DEF ObligationsConstants
<1>2. before \in SUBSET Beats /\ after \in SUBSET Beats
  BY DEF InFlight
<1> HIDE DEF before, after
<1>3. IsFiniteSet(before) /\ IsFiniteSet(after)
  BY <1>1, <1>2, FS_Subset
<1>4. Cardinality(before) \in Nat /\ Cardinality(after) \in Nat /\ Cardinality(Beats) \in Nat
  BY <1>1, <1>3, FS_CardinalityType
<1>5. /\ Cardinality(after) <= Cardinality(Beats)
      /\ after # Beats => Cardinality(after) # Cardinality(Beats)
  BY <1>1, <1>2, FS_Subset
<1>6. /\ after \subseteq before => Cardinality(after) <= Cardinality(before)
      /\ after \subseteq before /\ after # before => Cardinality(after) # Cardinality(before)
  BY <1>3, FS_Subset
<1>7. Crit(r)[i]'.attempts + Cardinality(after) < MaxAttempts + Cardinality(Beats)
  <2> DEFINE n == Crit(r)[i].attempts
  <2> DEFINE m == Crit(r)[i]'.attempts
  <2>1. \/ m < MaxAttempts
        \/ m = MaxAttempts /\ after # Beats
        \/ /\ n \in Nat /\ n + Cardinality(before) < MaxAttempts + Cardinality(Beats)
           /\ after \subseteq before
           /\ m <= n \/ (m = n + 1 /\ after # before)
    BY DEF BudgetAt, before, after
  <2>2. m \in Nat
    OBVIOUS
  <2> HIDE DEF n, m
  <2>3. m + Cardinality(after) < MaxAttempts + Cardinality(Beats)
    BY <1>1, <1>4, <1>5, <1>6, <2>1, <2>2
  <2> QED
    BY <2>3 DEF m
<1> QED
  BY <1>7 DEF BudgetAt, after

\* A beat that only goes on with its wave, or is at something else, holds no more than before.
Quiet(b, l) ==
    /\ Set(b, l) /\ OneEach(l)
    /\ \A r, i : Holds(l, r, i) => Holds(beat[b], r, i)

LEMMA NoJobsIsQuiet ==
    ASSUME NEW b, NEW l, Set(b, l), l.jobs = <<>>
    PROVE  Quiet(b, l)
BY DEF Quiet, OneEach, Holds

LEMMA GoingOnIsQuiet ==
    ASSUME TypeOK, NEW b \in Beats, OneEach(beat[b]), beat[b].step \in AtJob,
           NEW step \in AtJob \ {"wave"}, Goto(b, step)
    PROVE  Quiet(b, [beat[b] EXCEPT !.step = step])
<1>1. beat[b] \in Beat
  BY Typed DEF Sound
<1> QED
  BY <1>1 DEF Quiet, Goto, OneEach, Holds, Beat

LEMMA NextJobIsQuiet ==
    ASSUME TypeOK, NEW b \in Beats, OneEach(beat[b]), beat[b].step \in AtJob, NextJob(b)
    PROVE  Quiet(b, Rest(b))
<1>1. Set(b, Rest(b))
  BY DEF NextJob, Rest
<1>2. beat[b].jobs \in Seq(Job) /\ beat[b].jobs # <<>>
  BY Typed DEF Sound, Beat
<1>3. CASE Len(beat[b].jobs) = 1
  <2>1. Rest(b).jobs = <<>>
    BY <1>3 DEF Rest, Done
  <2> QED
    BY <1>1, <2>1, NoJobsIsQuiet
<1>4. CASE Len(beat[b].jobs) # 1
  <2> DEFINE tail == Tail(beat[b].jobs)
  <2>1. Rest(b).step = "wave" /\ Rest(b).jobs = tail
    BY <1>4 DEF Rest, Done
  <2>2. \A k \in DOMAIN tail : k \in Nat \ {0} /\ k + 1 \in DOMAIN beat[b].jobs /\ tail[k] = beat[b].jobs[k + 1]
    BY <1>2
  <2> HIDE DEF tail
  <2>3. OneEach(Rest(b))
    <3>1. ASSUME NEW j \in DOMAIN tail, NEW k \in DOMAIN tail, tail[j].req = tail[k].req PROVE j = k
      <4>1. j + 1 = k + 1
        BY <2>2, <3>1 DEF OneEach
      <4> QED
        BY <2>2, <4>1
    <3> QED
      BY <2>1, <3>1 DEF OneEach, AtJob
  <2>4. ASSUME NEW r, NEW i, Holds(Rest(b), r, i) PROVE Holds(beat[b], r, i)
    <3>1. PICK k \in DOMAIN tail : tail[k].req = r /\ tail[k].index = i
      BY <2>1, <2>4 DEF Holds
    <3>2. k + 1 \in DOMAIN beat[b].jobs /\ k + 1 > 1
      BY <2>2
    <3> QED
      BY <2>2, <3>1, <3>2 DEF Holds
  <2> QED
    BY <1>1, <2>3, <2>4 DEF Quiet
<1> QED
  BY <1>3, <1>4

LEMMA QuietBeats ==
    ASSUME TypeOK, BudgetInv, NEW b \in Beats,
           (OnCriterion(b) /\ ~Dispatch(b)) \/ OnRequest(b) \/ Crash(b)
    PROVE  \E l : Quiet(b, l)
<1>1. OneEach(beat[b])
  BY DEF BudgetInv
<1>2. CASE Set(b, Done)
  BY <1>2, NoJobsIsQuiet DEF Done
<1>3. CASE StallOnPaper(b)
  <2>1. [Done EXCEPT !.step = "stalling"].jobs = <<>> /\ Set(b, [Done EXCEPT !.step = "stalling"])
    BY <1>3 DEF Done, StallOnPaper
  <2> QED
    BY <2>1, NoJobsIsQuiet
<1>4. CASE NoOp(b) \/ Accepted(b) \/ JudgedMet(b)
  <2>1. PICK step \in AtJob \ {"wave"} : Goto(b, step) /\ beat[b].step \in AtJob
    BY <1>4 DEF NoOp, Accepted, JudgedMet, At, AtJob
  <2> QED
    BY <1>1, <2>1, GoingOnIsQuiet
<1>5. CASE NextJob(b) /\ beat[b].step \in AtJob
  BY <1>1, <1>5, NextJobIsQuiet
<1>6. CASE OnRequest(b)
  <2>1. \/ Set(b, Done)
        \/ \E step, on : Set(b, [Done EXCEPT !.step = step, !.on = on])
        \/ beat[b].step \in AtRequest /\ \E step : Set(b, [beat[b] EXCEPT !.step = step])
        \/ beat[b].step \in AtRequest /\ \E on : Set(b, [beat[b] EXCEPT !.on = on])
    <3>1. CASE ToDeliver(b) \/ StartGate(b) \/ StartTriage(b)
      BY <3>1 DEF ToDeliver, StartGate, StartTriage
    <3>2. CASE Deliver(b) \/ GateErrs(b) \/ GatePasses(b) \/ Reopen(b) \/ Draft(b) \/ DeclineAsk(b)
      BY <3>2 DEF Deliver, GateErrs, GatePasses, Reopen, Draft, DeclineAsk
    <3>3. CASE GateRefuses(b) \/ ReadFinding(b) \/ AddFinding(b)
      BY <3>3 DEF GateRefuses, ReadFinding, AddFinding, Goto, At, AtRequest
    <3>4. CASE TriageNext(b)
      BY <3>4 DEF TriageNext, Goto, At, AtRequest
    <3> QED
      BY <1>6, <3>1, <3>2, <3>3, <3>4 DEF OnRequest
  <2>2. beat[b].step \in AtRequest => beat[b].jobs = <<>>
    BY <1>1 DEF OneEach, AtJob, AtRequest
  <2>3. beat[b] \in Beat
    BY Typed DEF Sound
  <2>4. \A step, on : /\ [Done EXCEPT !.step = step, !.on = on].jobs = <<>>
                      /\ [beat[b] EXCEPT !.step = step].jobs = beat[b].jobs
                      /\ [beat[b] EXCEPT !.on = on].jobs = beat[b].jobs
    BY <2>3 DEF Done, Beat
  <2> QED
    BY <1>2, <2>1, <2>2, <2>4, NoJobsIsQuiet
<1>7. CASE OnCriterion(b) /\ ~Dispatch(b)
  <2>1. \/ StallOnPaper(b) \/ NoOp(b) \/ Accepted(b) \/ JudgedMet(b)
        \/ Set(b, Done)
        \/ NextJob(b) /\ beat[b].step \in AtJob
    BY <1>7 DEF OnCriterion, AllOnPaper, Wall, DispatchFails, JudgedShort, Incapable, Meet, NoOpTrue, NoOpFalse,
                AlreadyMet, MeetIt, At, AtJob
  <2> QED
    BY <1>2, <1>3, <1>4, <1>5, <2>1
<1> QED
  BY <1>2, <1>6, <1>7 DEF Crash

LEMMA FlightOf ==
    ASSUME TypeOK, NEW b \in Beats, NEW l, Set(b, l)
    PROVE  /\ beat' = [a \in Beats |-> IF a = b THEN l ELSE beat[a]]
           /\ \A r, i : InFlight(r, i)' = {a \in Beats : IF a = b THEN Holds(l, r, i) ELSE a \in InFlight(r, i)}
<1>1. beat \in [Beats -> Beat]
  BY Typed
<1>2. beat' = [a \in Beats |-> IF a = b THEN l ELSE beat[a]]
  BY <1>1 DEF Set
<1>3. \A a \in Beats : beat'[a] = IF a = b THEN l ELSE beat[a]
  BY <1>2
<1>4. \A r, i : InFlight(r, i)' = {a \in Beats : Holds(beat'[a], r, i)}
  BY DEF InFlight, Holds
<1>5. \A r, i : \A a \in Beats :
        Holds(beat'[a], r, i) <=> IF a = b THEN Holds(l, r, i) ELSE a \in InFlight(r, i)
  BY <1>3, Zenon DEF InFlight
<1> QED
  BY <1>2, <1>4, <1>5

\* The attempts of a criterion are a number, and a new criterion has none.
LEMMA AttemptsAre ==
    ASSUME TypeOK, [Next]_vars, NEW r \in DOMAIN reqs', NEW i \in DOMAIN Crit(r)'
    PROVE  /\ Crit(r)[i]'.attempts \in Nat
           /\ r \notin DOMAIN reqs \/ i \notin DOMAIN Crit(r) => BudgetAt(r, i)'
           /\ r \in DOMAIN reqs /\ i \in DOMAIN Crit(r) => Crit(r)[i].attempts \in Nat
           /\ r \in DOMAIN reqs /\ i \in DOMAIN Crit(r) /\ ~Counts => Crit(r)[i]'.attempts <= Crit(r)[i].attempts
<1>1. Extends(reqs')
  BY EveryStepExtends
<1>2. reqs' \in Seq(Request) /\ reqs'[r].criteria = Crit(r)'
  BY <1>1 DEF Extends, Crit
<1>3. reqs'[r].criteria \in Seq(Criterion)
  <2>1. reqs'[r] \in Request
    BY <1>2, ElementOfSeq
  <2> QED
    BY <2>1 DEF Request
<1>4. Crit(r)[i]' = reqs'[r].criteria[i]
  BY DEF Crit
<1>5. Crit(r)[i]'.attempts \in Nat
  <2>1. reqs'[r].criteria[i] \in Criterion
    BY <1>2, <1>3, ElementOfSeq
  <2> QED
    BY <1>4, <2>1 DEF Criterion
<1>6. CASE r \notin DOMAIN reqs \/ i \notin DOMAIN Crit(r)
  <2>1. Crit(r)[i]'.attempts = 0
    BY <1>1, <1>2, <1>4, <1>6 DEF Extends, Untouched
  <2>2. 0 < MaxAttempts
    BY DEF ObligationsConstants
  <2>3. BudgetAt(r, i)'
    BY <1>5, <2>1, <2>2, BudgetKept
  <2> QED
    BY <1>5, <1>6, <2>3
<1>7. CASE r \in DOMAIN reqs /\ i \in DOMAIN Crit(r)
  <2>1. Crit(r)[i] \in Criterion
    BY <1>7, Typed, Reading
  <2>2. Crit(r)[i].attempts \in Nat
    BY <2>1 DEF Criterion
  <2>3. Kept(Crit(r)[i], Crit(r)[i]')
    BY <1>1, <1>2, <1>4, <1>7 DEF Extends
  <2>4. ~Counts => Crit(r)[i]'.attempts = Crit(r)[i].attempts \/ Crit(r)[i]'.attempts < Crit(r)[i].attempts
    BY <2>3 DEF Kept
  <2> QED
    BY <1>5, <1>7, <2>2, <2>4
<1> QED
  BY <1>6, <1>7

\* A step that counts nothing and leaves no beat with more than it had.
LEMMA BudgetQuiet ==
    ASSUME TypeOK, BudgetInv, [Next]_vars, ~Counts,
           \A b \in Beats : OneEach(beat[b])',
           \A r, i : InFlight(r, i)' \subseteq InFlight(r, i)
    PROVE  BudgetInv'
<1>1. ASSUME NEW r \in DOMAIN reqs', NEW i \in DOMAIN Crit(r)' PROVE BudgetAt(r, i)'
  <2>1. CASE r \in DOMAIN reqs /\ i \in DOMAIN Crit(r)
    <3>1. BudgetAt(r, i)
      BY <2>1 DEF BudgetInv
    <3> QED
      BY <1>1, <2>1, <3>1, AttemptsAre, BudgetKept
  <2> QED
    BY <1>1, <2>1, AttemptsAre
<1> QED
  BY <1>1 DEF BudgetInv

LEMMA BudgetDispatch ==
    ASSUME TypeOK, BudgetInv, NEW b \in Beats, Dispatch(b)
    PROVE  BudgetInv'
<1>1. PICK l \in Beat :
        /\ Set(b, l)
        /\ l.step = "wave" /\ l.jobs # <<>> /\ l.on = {}
        /\ \A k \in DOMAIN l.jobs : l.jobs[k].req \in WithWork /\ l.jobs[k] = NextUnmet(l.jobs[k].req)
        /\ \A j, k \in DOMAIN l.jobs : l.jobs[j].req = l.jobs[k].req => j = k
  BY WaveIs
<1>2. reqs' = reqs
  BY DEF Dispatch
<1>3. /\ beat' = [a \in Beats |-> IF a = b THEN l ELSE beat[a]]
      /\ \A r, i : InFlight(r, i)' = {a \in Beats : IF a = b THEN Holds(l, r, i) ELSE a \in InFlight(r, i)}
  BY <1>1, FlightOf
<1>4. \A a \in Beats : OneEach(beat[a])'
  BY <1>1, <1>3 DEF BudgetInv, OneEach, AtJob
<1>5. ASSUME NEW r \in DOMAIN reqs, NEW i \in DOMAIN Crit(r) PROVE BudgetAt(r, i)'
  <2>1. BudgetAt(r, i) /\ Crit(r)[i]' = Crit(r)[i]
    BY <1>2 DEF BudgetInv, Crit
  <2>2. Crit(r)[i] \in Criterion
    BY Typed, Reading
  <2>3. Crit(r)[i].attempts \in Nat /\ MaxAttempts \in Nat
    BY <2>2 DEF Criterion, ObligationsConstants
  <2>4. CASE Holds(l, r, i)
    <3>1. r \in WithWork /\ i = NextUnmet(r).index
      BY <1>1, <2>4 DEF Holds
    <3>2. ~Parked(Crit(r)[i])
      BY <3>1, Selected DEF Workable
    <3>3. Crit(r)[i].attempts < MaxAttempts
      BY <2>3, <3>2 DEF Parked
    <3> QED
      BY <2>1, <2>3, <3>3, BudgetKept
  <2>5. CASE ~Holds(l, r, i)
    <3>1. InFlight(r, i)' \subseteq InFlight(r, i)
      BY <1>3, <2>5
    <3> QED
      BY <2>1, <2>3, <3>1, BudgetKept
  <2> QED
    BY <2>4, <2>5
<1> QED
  BY <1>2, <1>4, <1>5 DEF BudgetInv, Crit

\* What the two counting steps have in common.
LEMMA BudgetCounted ==
    ASSUME TypeOK, BudgetInv, NEW b \in Beats, NEW l, Quiet(b, l),
           NEW r \in DOMAIN reqs, NEW i \in DOMAIN Crit(r), NEW c \in Criterion, reqs' = WithCriterion(r, i, c),
           \/ c.attempts = MaxAttempts /\ l.jobs = <<>>
           \/ c.attempts = Crit(r)[i].attempts + 1 /\ Holds(beat[b], r, i) /\ ~Holds(l, r, i)
    PROVE  BudgetInv'
<1>1. /\ reqs' \in Seq(Request) /\ DOMAIN reqs' = DOMAIN reqs
      /\ \A q \in DOMAIN reqs :
            /\ DOMAIN reqs'[q].criteria = DOMAIN Crit(q)
            /\ \A j \in DOMAIN Crit(q) : reqs'[q].criteria[j] = IF q = r /\ j = i THEN c ELSE Crit(q)[j]
  BY Typed, Replacing
<1>2. /\ beat' = [a \in Beats |-> IF a = b THEN l ELSE beat[a]]
      /\ \A q, j : InFlight(q, j)' = {a \in Beats : IF a = b THEN Holds(l, q, j) ELSE a \in InFlight(q, j)}
  BY FlightOf DEF Quiet
<1>3. \A a \in Beats : OneEach(beat[a])'
  BY <1>2 DEF BudgetInv, OneEach, Quiet
<1>4. \A q, j : InFlight(q, j)' \subseteq InFlight(q, j)
  BY <1>2 DEF Quiet, InFlight
<1>5. ASSUME NEW q \in DOMAIN reqs, NEW j \in DOMAIN Crit(q) PROVE BudgetAt(q, j)'
  <2>1. BudgetAt(q, j) /\ Crit(q)[j]' = IF q = r /\ j = i THEN c ELSE Crit(q)[j]
    BY <1>1 DEF BudgetInv, Crit
  <2>2. Crit(q)[j] \in Criterion
    BY Typed, Reading
  <2>3. Crit(q)[j].attempts \in Nat /\ c.attempts \in Nat
    BY <2>2 DEF Criterion
  <2>4. CASE ~(q = r /\ j = i)
    BY <1>4, <2>1, <2>3, <2>4, BudgetKept
  <2>5. CASE q = r /\ j = i /\ c.attempts = MaxAttempts /\ l.jobs = <<>>
    <3>1. b \notin InFlight(q, j)'
      BY <1>2, <2>5 DEF Holds
    <3> QED
      BY <2>1, <2>3, <2>5, <3>1, BudgetKept
  <2>6. CASE q = r /\ j = i /\ c.attempts = Crit(r)[i].attempts + 1 /\ Holds(beat[b], r, i) /\ ~Holds(l, r, i)
    <3>1. b \in InFlight(q, j) /\ b \notin InFlight(q, j)'
      BY <1>2, <2>6 DEF InFlight
    <3> QED
      BY <1>4, <2>1, <2>3, <2>6, <3>1, BudgetKept
  <2> QED
    BY <2>4, <2>5, <2>6
<1> QED
  BY <1>1, <1>3, <1>5 DEF BudgetInv, Crit

LEMMA BudgetStall ==
    ASSUME TypeOK, BudgetInv, NEW b \in Beats, StallOnPaper(b)
    PROVE  BudgetInv'
<1> DEFINE r == Oldest(WithWork)
<1> DEFINE i == NextUnmet(r).index
<1> DEFINE c == [Crit(r)[i] EXCEPT !.attempts = MaxAttempts]
<1> DEFINE l == [Done EXCEPT !.step = "stalling"]
<1>1. r \in DOMAIN reqs /\ i \in DOMAIN Crit(r)
  BY Selected DEF StallOnPaper, Choosing, Workable, Unmet
<1>2. Crit(r)[i] \in Criterion
  BY <1>1, Typed, Reading
<1>3. c \in Criterion /\ c.attempts = MaxAttempts
  BY <1>2 DEF Criterion, ObligationsConstants
<1>4. reqs' = WithCriterion(r, i, c) /\ Set(b, l)
  BY DEF StallOnPaper
<1>5. l.jobs = <<>>
  BY DEF Done
<1> HIDE DEF r, i, c, l
<1>6. Quiet(b, l)
  BY <1>4, <1>5, NoJobsIsQuiet
<1> QED
  BY <1>1, <1>3, <1>4, <1>5, <1>6, BudgetCounted

LEMMA BudgetAccepted ==
    ASSUME TypeOK, BudgetInv, NEW b \in Beats, Accepted(b)
    PROVE  BudgetInv'
<1> DEFINE r == JobOf(b).req
<1> DEFINE i == JobOf(b).index
<1> DEFINE c == [Crit(r)[i] EXCEPT !.attempts = @ + 1]
<1> DEFINE l == [beat[b] EXCEPT !.step = "judge"]
<1>1. beat[b].step = "wave" /\ "wave" \in AtJob /\ "judge" \in AtJob \ {"wave"} /\ OneEach(beat[b])
  BY DEF Accepted, At, AtJob, BudgetInv
<1>2. r \in DOMAIN reqs /\ i \in DOMAIN Crit(r) /\ Crit(r)[i] \in Criterion
  BY <1>1, JobIs DEF CritOf
<1>3. c \in Criterion /\ c.attempts = Crit(r)[i].attempts + 1
  BY <1>2 DEF Criterion
<1>4. reqs' = WithCriterion(r, i, c) /\ Goto(b, "judge")
  BY DEF Accepted, WithCritOf, CritOf
<1>5. Quiet(b, l)
  BY <1>1, <1>4, GoingOnIsQuiet
<1>6. beat[b] \in Beat /\ beat[b].jobs # <<>>
  BY <1>1, Typed DEF Sound
<1>7. l.step = "judge" /\ l.jobs = beat[b].jobs
  BY <1>6 DEF Beat
<1>8. 1 \in DOMAIN beat[b].jobs /\ beat[b].jobs[1].req = r /\ beat[b].jobs[1].index = i
  <2>1. beat[b].jobs \in Seq(Job)
    BY <1>6 DEF Beat
  <2> QED
    BY <1>6, <2>1 DEF JobOf
<1> HIDE DEF r, i, c, l
<1>9. Holds(beat[b], r, i)
  BY <1>1, <1>8 DEF Holds
<1>10. ~Holds(l, r, i)
  <2>1. ASSUME NEW k \in DOMAIN l.jobs, l.jobs[k].req = r, k > 1 PROVE FALSE
    <3>1. k = 1
      BY <1>1, <1>7, <1>8, <2>1 DEF OneEach
    <3> QED
      BY <2>1, <3>1
  <2> QED
    BY <1>7, <2>1 DEF Holds
<1> QED
  BY <1>2, <1>3, <1>4, <1>5, <1>9, <1>10, BudgetCounted

LEMMA BudgetStep == TypeOK /\ BudgetInv /\ [Next]_vars => BudgetInv'
<1> SUFFICES ASSUME TypeOK, BudgetInv, [Next]_vars PROVE BudgetInv'
  OBVIOUS
<1>1. CASE \E b \in Beats : Dispatch(b)
  BY <1>1, BudgetDispatch
<1>2. CASE Counts
  BY <1>2, BudgetStall, BudgetAccepted DEF Counts
<1>3. CASE UNCHANGED beat /\ ~Counts
  <2>1. \A a \in Beats : OneEach(beat[a])'
    BY <1>3 DEF BudgetInv, OneEach
  <2>2. \A r, i : InFlight(r, i)' \subseteq InFlight(r, i)
    BY <1>3 DEF InFlight, Holds
  <2> QED
    BY <1>3, <2>1, <2>2, BudgetQuiet
<1>4. ASSUME NEW b \in Beats, NEW l, Quiet(b, l), ~Counts PROVE BudgetInv'
  <2>1. /\ beat' = [a \in Beats |-> IF a = b THEN l ELSE beat[a]]
        /\ \A r, i : InFlight(r, i)' = {a \in Beats : IF a = b THEN Holds(l, r, i) ELSE a \in InFlight(r, i)}
    BY <1>4, FlightOf DEF Quiet
  <2>2. \A a \in Beats : OneEach(beat[a])'
    BY <1>4, <2>1 DEF BudgetInv, OneEach, Quiet
  <2>3. \A r, i : InFlight(r, i)' \subseteq InFlight(r, i)
    BY <1>4, <2>1 DEF Quiet, InFlight
  <2> QED
    BY <1>4, <2>2, <2>3, BudgetQuiet
<1>5. \/ UNCHANGED beat
      \/ \E b \in Beats : Dispatch(b) \/ \E l : Quiet(b, l)
  <2>1. CASE Capture \/ UNCHANGED vars
    BY <2>1 DEF Capture, vars
  <2>2. CASE \E r \in DOMAIN reqs : Operator(r)
    BY <2>2 DEF Operator, MarkMet, DeclineCriterion, Expire, AdvanceByHand
  <2>3. ASSUME NEW b \in Beats, OnCriterion(b) \/ OnRequest(b) \/ Crash(b)
        PROVE  Dispatch(b) \/ \E l : Quiet(b, l)
    BY <2>3, QuietBeats
  <2> QED
    BY <2>1, <2>2, <2>3 DEF Next
<1> QED
  BY <1>1, <1>2, <1>3, <1>4, <1>5

\* No criterion is judged more often than its budget and once more for each further beat,
\* however many beats run at once and whatever the operator does.
THEOREM BudgetHolds == Spec => []AttemptsBounded
<1>1. Init => BudgetInv
  BY BudgetInit
<1>2. TypeOK /\ BudgetInv /\ [Next]_vars => BudgetInv'
  BY BudgetStep
<1>3. TypeOK /\ BudgetInv => AttemptsBounded
  BY BudgetBounds
<1> QED
  BY <1>1, <1>2, <1>3, TypeCorrect, PTL DEF Spec

-----------------------------------------------------------------------------
(* The criteria of refused reviews.  A beat that read no open one may add  *)
(* one later, so the beats about to add count with the open ones; and      *)
(* there are as many beats at once as started beside another, and one.     *)

Active == {b \in Beats : beat[b].step # "idle"}
Adders(r) == {b \in Beats : beat[b].step = "add" /\ OnOf(b) = r}
Open(r) == {i \in DOMAIN Crit(r) : Crit(r)[i].review /\ ~Crit(r)[i].met}

ReviewInv ==
    /\ Cardinality(Active) <= 1 + outside
    /\ \A r \in DOMAIN reqs : Cardinality(Open(r)) + Cardinality(Adders(r)) <= 1 + outside

LEMMA ReviewInit == Init => ReviewInv
<1> SUFFICES ASSUME Init PROVE ReviewInv
  OBVIOUS
<1>1. Active = {} /\ DOMAIN reqs = {} /\ outside = 0
  BY DEF Init, Active, Done
<1> QED
  BY <1>1, FS_EmptySet DEF ReviewInv

LEMMA ReviewSizes ==
    ASSUME TypeOK
    PROVE  /\ IsFiniteSet(Active) /\ Cardinality(Active) \in Nat
           /\ \A r : /\ IsFiniteSet(Adders(r)) /\ Cardinality(Adders(r)) \in Nat
                     /\ Cardinality(Adders(r)) <= Cardinality(Active)
           /\ \A r \in DOMAIN reqs : IsFiniteSet(Open(r)) /\ Cardinality(Open(r)) \in Nat
<1>1. IsFiniteSet(Active)
  BY FS_Subset DEF Active, ObligationsConstants
<1>2. Cardinality(Active) \in Nat
  BY <1>1, FS_CardinalityType
<1>3. ASSUME NEW r
      PROVE  /\ IsFiniteSet(Adders(r)) /\ Cardinality(Adders(r)) \in Nat
             /\ Cardinality(Adders(r)) <= Cardinality(Active)
  <2>1. Adders(r) \in SUBSET Active
    BY DEF Adders, Active
  <2> QED
    BY <1>1, <2>1, FS_Subset, FS_CardinalityType
<1>4. ASSUME NEW r \in DOMAIN reqs PROVE IsFiniteSet(Open(r)) /\ Cardinality(Open(r)) \in Nat
  <2>1. Crit(r) \in Seq(Criterion)
    BY Typed, Reading
  <2>2. Open(r) \in SUBSET (1 .. Len(Crit(r))) /\ Len(Crit(r)) \in Nat
    BY <2>1 DEF Open
  <2>3. IsFiniteSet(1 .. Len(Crit(r)))
    BY <2>2, FS_Interval
  <2> QED
    BY <2>2, <2>3, FS_Subset, FS_CardinalityType
<1> QED
  BY <1>1, <1>2, <1>3, <1>4

\* What a beat's step says of it: it starts or was at work, and only ReadFinding leads to "add".
LEMMA StepsOf ==
    ASSUME TypeOK, NEW b \in Beats, OnCriterion(b) \/ OnRequest(b) \/ Crash(b)
    PROVE  /\ beat' = [a \in Beats |-> IF a = b THEN beat'[b] ELSE beat[a]]
           /\ beat[b].step = "idle" => Starts(b)
           /\ beat'[b].step = "add" => ReadFinding(b)
<1>1. PICK l : Sound(l) /\ Set(b, l)
  BY CriterionStepIsSound, RequestStepIsSound, DoneIsSound DEF Crash
<1>2. beat \in [Beats -> Beat] /\ beat[b] \in Beat
  BY Typed
<1>3. beat' = [a \in Beats |-> IF a = b THEN l ELSE beat[a]] /\ beat'[b] = l
  BY <1>1, FlightOf
<1>4. beat[b].step = "idle" => Starts(b)
  <2>1. ASSUME OnCriterion(b), beat[b].step = "idle" PROVE Starts(b)
    BY <2>1 DEF OnCriterion, Dispatch, StallOnPaper, Choosing, Looks, AllOnPaper, NoOp, Wall, DispatchFails, Accepted,
                JudgedShort, Incapable, JudgedMet, Meet, NoOpTrue, NoOpFalse, AlreadyMet, At
  <2>2. ASSUME OnRequest(b), beat[b].step = "idle" PROVE Starts(b)
    BY <2>2 DEF OnRequest, ToDeliver, Moving, Deliver, StartGate, GateErrs, GatePasses, GateRefuses, ReadFinding,
                AddFinding, Reopen, StartTriage, TriageNext, Draft, DeclineAsk, At
  <2> QED
    BY <2>1, <2>2 DEF Crash, At
<1>5. ASSUME NEW s \in Steps \ {"add"}, NEW on, NEW jobs,
             \/ Set(b, [beat[b] EXCEPT !.step = s])
             \/ Set(b, [Done EXCEPT !.step = s, !.on = on])
             \/ Set(b, [Done EXCEPT !.step = s, !.jobs = jobs])
      PROVE  l.step # "add"
  <2>1. ASSUME NEW x, Set(b, x) PROVE x = l
    BY <1>2, <1>3, <2>1 DEF Set
  <2>2. /\ [beat[b] EXCEPT !.step = s].step = s
        /\ [Done EXCEPT !.step = s, !.on = on].step = s
        /\ [Done EXCEPT !.step = s, !.jobs = jobs].step = s
    BY <1>2 DEF Beat, Done
  <2>3. l = [beat[b] EXCEPT !.step = s] \/ l = [Done EXCEPT !.step = s, !.on = on]
        \/ l = [Done EXCEPT !.step = s, !.jobs = jobs]
    BY <1>5, <2>1
  <2> QED
    BY <2>2, <2>3
<1>6. ASSUME OnCriterion(b) PROVE l.step # "add"
  <2>1. CASE Dispatch(b)
    <3>1. PICK w \in Beat : Set(b, w) /\ w.step = "wave"
      BY <2>1, WaveIs
    <3> QED
      BY <1>2, <1>3, <3>1 DEF Set
  <2>2. CASE StallOnPaper(b)
    BY <1>2, <1>3, <2>2 DEF StallOnPaper, Set, Done
  <2>3. CASE NoOp(b) \/ Accepted(b) \/ JudgedMet(b)
    <3>1. \E s \in Steps \ {"add"} : Set(b, [beat[b] EXCEPT !.step = s])
      BY <2>3 DEF NoOp, Accepted, JudgedMet, Goto, Steps
    <3> QED
      BY <1>5, <3>1
  <2>4. CASE Set(b, Done) \/ NextJob(b)
    <3>1. Set(b, Done) \/ \E jobs : Set(b, [Done EXCEPT !.step = "wave", !.jobs = jobs])
      BY <2>4 DEF NextJob
    <3>2. CASE Set(b, Done)
      BY <1>2, <1>3, <3>2 DEF Set, Done
    <3> QED
      BY <1>5, <3>1, <3>2 DEF Steps
  <2> QED
    BY <1>6, <2>1, <2>2, <2>3, <2>4 DEF OnCriterion, AllOnPaper, Wall, DispatchFails, JudgedShort, Incapable, Meet,
                                        NoOpTrue, NoOpFalse, AlreadyMet, MeetIt
<1>7. ASSUME OnRequest(b), ~ReadFinding(b) PROVE l.step # "add"
  <2>1. CASE ToDeliver(b) \/ StartGate(b) \/ StartTriage(b)
    <3>1. \E s \in Steps \ {"add"} : \E on : Set(b, [Done EXCEPT !.step = s, !.on = on])
      BY <2>1 DEF ToDeliver, StartGate, StartTriage, Steps
    <3> QED
      BY <1>5, <3>1
  <2>2. CASE Set(b, Done)
    BY <1>2, <1>3, <2>2 DEF Set, Done
  <2>3. CASE GateRefuses(b) \/ AddFinding(b)
    <3>1. \E s \in Steps \ {"add"} : Set(b, [beat[b] EXCEPT !.step = s])
      BY <2>3 DEF GateRefuses, AddFinding, Goto, Steps
    <3> QED
      BY <1>5, <3>1
  <2>4. CASE TriageNext(b)
    <3>1. \/ \E s \in Steps \ {"add"} : Set(b, [beat[b] EXCEPT !.step = s])
          \/ Set(b, Done)
          \/ beat[b].step = "triage" /\ Set(b, [beat[b] EXCEPT !.on = @ \ {OnOf(b)}])
      BY <2>4 DEF TriageNext, Goto, Steps, At
    <3>2. [beat[b] EXCEPT !.on = @ \ {OnOf(b)}].step = beat[b].step
      BY <1>2 DEF Beat
    <3> QED
      BY <1>2, <1>3, <1>5, <2>2, <3>1, <3>2 DEF Set
  <2> QED
    BY <1>7, <2>1, <2>2, <2>3, <2>4 DEF OnRequest, Deliver, GateErrs, GatePasses, Reopen, Draft, DeclineAsk
<1>8. ASSUME Crash(b) PROVE l.step # "add"
  BY <1>2, <1>3, <1>8 DEF Crash, Set, Done
<1> QED
  BY <1>3, <1>4, <1>6, <1>7, <1>8

\* The beats at work are no more than started beside another, and one.
LEMMA ActiveStep ==
    ASSUME TypeOK, ReviewInv, [Next]_vars
    PROVE  Cardinality(Active') <= 1 + outside'
<1>0. TypeOK'
  BY TypeStep
<1>1. /\ outside \in Nat /\ outside' \in Nat /\ outside <= outside'
      /\ IsFiniteSet(Active) /\ Cardinality(Active) \in Nat /\ Cardinality(Active) <= 1 + outside
  BY Typed, OutsideGrows, ReviewSizes DEF ReviewInv
<1>2. CASE Active' \subseteq Active
  <2>1. Cardinality(Active') <= Cardinality(Active) /\ IsFiniteSet(Active')
    BY <1>1, <1>2, FS_Subset
  <2>2. Cardinality(Active') \in Nat
    BY <2>1, FS_CardinalityType
  <2> QED
    BY <1>1, <2>1, <2>2
<1>3. ASSUME NEW b \in Beats, Starts(b), beat' = [a \in Beats |-> IF a = b THEN beat'[b] ELSE beat[a]]
      PROVE  Cardinality(Active') <= 1 + outside'
  <2>1. Active' \in SUBSET (Active \cup {b})
    BY <1>3 DEF Active
  <2>2. /\ IsFiniteSet(Active \cup {b})
        /\ Cardinality(Active \cup {b}) = IF b \in Active THEN Cardinality(Active) ELSE Cardinality(Active) + 1
    BY <1>1, FS_AddElement
  <2>3. /\ IsFiniteSet(Active') /\ Cardinality(Active') \in Nat
        /\ Cardinality(Active') <= Cardinality(Active \cup {b})
    BY <2>1, <2>2, FS_Subset, FS_CardinalityType
  <2>4. CASE \A a \in Beats : At(a, "idle")
    <3>1. Active = {}
      BY <2>4 DEF Active, At
    <3>2. Cardinality(Active) = 0
      BY <3>1, FS_EmptySet
    <3> QED
      BY <1>1, <2>2, <2>3, <3>2
  <2>5. CASE ~ \A a \in Beats : At(a, "idle")
    <3>1. outside' = outside + 1
      BY <1>3, <2>5 DEF Starts, FromOutside
    <3> QED
      BY <1>1, <2>2, <2>3, <3>1
  <2> QED
    BY <2>4, <2>5
<1>4. ASSUME NEW b \in Beats, OnCriterion(b) \/ OnRequest(b) \/ Crash(b)
      PROVE  Cardinality(Active') <= 1 + outside'
  <2>1. /\ beat' = [a \in Beats |-> IF a = b THEN beat'[b] ELSE beat[a]]
        /\ beat[b].step = "idle" => Starts(b)
    BY <1>4, StepsOf
  <2>2. CASE beat[b].step = "idle"
    BY <1>3, <2>1, <2>2
  <2>3. CASE beat[b].step # "idle"
    <3>1. Active' \subseteq Active
      BY <2>1, <2>3 DEF Active
    <3> QED
      BY <1>2, <3>1
  <2> QED
    BY <2>2, <2>3
<1>5. CASE UNCHANGED beat
  BY <1>2, <1>5 DEF Active
<1>6. UNCHANGED beat \/ \E b \in Beats : OnCriterion(b) \/ OnRequest(b) \/ Crash(b)
  <2>1. CASE Capture \/ UNCHANGED vars
    BY <2>1 DEF Capture, vars
  <2>2. CASE \E r \in DOMAIN reqs : Operator(r)
    BY <2>2 DEF Operator, MarkMet, DeclineCriterion, Expire, AdvanceByHand
  <2> QED
    BY <2>1, <2>2 DEF Next
<1> QED
  BY <1>4, <1>5, <1>6

\* Two ways in which a request stays within its reviews.
LEMMA ReviewKept ==
    ASSUME TypeOK, ReviewInv, [Next]_vars, NEW r \in DOMAIN reqs,
           \/ Open(r)' \subseteq Open(r) /\ Adders(r)' \subseteq Adders(r)
           \/ \E n : \E b \in Adders(r) : Open(r)' \subseteq Open(r) \cup {n} /\ Adders(r)' \subseteq Adders(r) \ {b}
    PROVE  Cardinality(Open(r)') + Cardinality(Adders(r)') <= 1 + outside'
<1>1. /\ outside \in Nat /\ outside' \in Nat /\ outside <= outside'
      /\ IsFiniteSet(Open(r)) /\ Cardinality(Open(r)) \in Nat
      /\ IsFiniteSet(Adders(r)) /\ Cardinality(Adders(r)) \in Nat
      /\ Cardinality(Open(r)) + Cardinality(Adders(r)) <= 1 + outside
  BY Typed, OutsideGrows, ReviewSizes DEF ReviewInv
<1>2. CASE Open(r)' \subseteq Open(r) /\ Adders(r)' \subseteq Adders(r)
  <2>1. /\ Cardinality(Open(r)') \in Nat /\ Cardinality(Open(r)') <= Cardinality(Open(r))
        /\ Cardinality(Adders(r)') \in Nat /\ Cardinality(Adders(r)') <= Cardinality(Adders(r))
    BY <1>1, <1>2, FS_Subset, FS_CardinalityType
  <2> QED
    BY <1>1, <2>1
<1>3. ASSUME NEW n, NEW b \in Adders(r),
             Open(r)' \subseteq Open(r) \cup {n} /\ Adders(r)' \subseteq Adders(r) \ {b}
      PROVE  Cardinality(Open(r)') + Cardinality(Adders(r)') <= 1 + outside'
  <2>1. /\ IsFiniteSet(Open(r) \cup {n}) /\ Cardinality(Open(r) \cup {n}) \in Nat
        /\ Cardinality(Open(r) \cup {n}) <= Cardinality(Open(r)) + 1
    <3>1. /\ IsFiniteSet(Open(r) \cup {n})
          /\ \/ Cardinality(Open(r) \cup {n}) = Cardinality(Open(r))
             \/ Cardinality(Open(r) \cup {n}) = Cardinality(Open(r)) + 1
      BY <1>1, FS_AddElement, Zenon
    <3> QED
      BY <1>1, <3>1
  <2>2. IsFiniteSet(Adders(r) \ {b}) /\ Cardinality(Adders(r) \ {b}) = Cardinality(Adders(r)) - 1
    BY <1>1, FS_RemoveElement
  <2>3. /\ Cardinality(Open(r)') \in Nat /\ Cardinality(Open(r)') <= Cardinality(Open(r) \cup {n})
        /\ Cardinality(Adders(r)') \in Nat /\ Cardinality(Adders(r)') <= Cardinality(Adders(r) \ {b})
    BY <1>3, <2>1, <2>2, FS_Subset, FS_CardinalityType
  <2> QED
    BY <1>1, <2>1, <2>2, <2>3
<1> QED
  BY <1>2, <1>3

\* Who is about to add after a step.
LEMMA AddersStep ==
    ASSUME TypeOK, [Next]_vars, NEW r
    PROVE  \/ Adders(r)' \subseteq Adders(r)
           \/ \E b \in Beats : ReadFinding(b) /\ OnOf(b) = r /\ Open(r) = {} /\ reqs' = reqs
<1>1. CASE UNCHANGED beat
  BY <1>1 DEF Adders, OnOf
<1>2. ASSUME NEW b \in Beats, OnCriterion(b) \/ OnRequest(b) \/ Crash(b), ~ReadFinding(b)
      PROVE  Adders(r)' \subseteq Adders(r)
  BY <1>2, StepsOf DEF Adders, OnOf
<1>3. ASSUME NEW b \in Beats, ReadFinding(b)
      PROVE  \/ Adders(r)' \subseteq Adders(r)
             \/ OnOf(b) = r /\ Open(r) = {} /\ reqs' = reqs
  <2>1. beat \in [Beats -> Beat] /\ beat[b] \in Beat
    BY Typed DEF Sound
  <2>2. PICK step \in {"add", "reopen"} :
          /\ Goto(b, step)
          /\ step = "add" => \A i \in DOMAIN Crit(OnOf(b)) : ~(Crit(OnOf(b))[i].review /\ ~Crit(OnOf(b))[i].met)
    BY <1>3 DEF ReadFinding
  <2>3. /\ beat'[b].step = step /\ beat'[b].on = beat[b].on
        /\ \A a \in Beats \ {b} : beat'[a] = beat[a]
    BY <2>1, <2>2 DEF Goto, Set, Beat
  <2>4. \A a \in Beats : OnOf(a)' = OnOf(a)
    BY <2>3 DEF OnOf
  <2>5. CASE step = "add" /\ OnOf(b) = r
    <3>1. Open(r) = {}
      BY <2>2, <2>5 DEF Open
    <3> QED
      BY <1>3, <2>5, <3>1 DEF ReadFinding
  <2>6. CASE ~(step = "add" /\ OnOf(b) = r)
    BY <2>3, <2>4, <2>6 DEF Adders
  <2> QED
    BY <2>5, <2>6
<1>4. UNCHANGED beat \/ \E b \in Beats : OnCriterion(b) \/ OnRequest(b) \/ Crash(b)
  <2>1. CASE Capture \/ UNCHANGED vars
    BY <2>1 DEF Capture, vars
  <2>2. CASE \E q \in DOMAIN reqs : Operator(q)
    BY <2>2 DEF Operator, MarkMet, DeclineCriterion, Expire, AdvanceByHand
  <2> QED
    BY <2>1, <2>2 DEF Next
<1> QED
  BY <1>1, <1>2, <1>3, <1>4

LEMMA ReviewAdded ==
    ASSUME TypeOK, ReviewInv, [Next]_vars, NEW b \in Beats, AddFinding(b), NEW r \in DOMAIN reqs
    PROVE  Cardinality(Open(r)') + Cardinality(Adders(r)') <= 1 + outside'
<1> DEFINE more == <<[NewCriterion EXCEPT !.review = TRUE]>>
<1>1. OnOf(b) \in DOMAIN reqs /\ beat[b].step = "add"
  BY OnIs DEF AddFinding, At, AtRequest
<1>2. more \in Seq(Criterion) /\ Len(more) = 1
  <2>1. [NewCriterion EXCEPT !.review = TRUE] \in Criterion
    BY DEF NewCriterion, Criterion
  <2>2. \A c \in Criterion : <<c>> \in Seq(Criterion) /\ Len(<<c>>) = 1
    OBVIOUS
  <2> QED
    BY <2>1, <2>2
<1>3. /\ reqs'[OnOf(b)].criteria = Crit(OnOf(b)) \o more
      /\ \A q \in DOMAIN reqs \ {OnOf(b)} : reqs'[q].criteria = Crit(q)
  BY <1>1, <1>2, Typed, Adding DEF AddFinding
<1> HIDE DEF more
<1>4. /\ beat'[b].step = "reopen"
      /\ \A a \in Beats \ {b} : beat'[a] = beat[a]
  <2>1. beat \in [Beats -> Beat] /\ beat[b] \in Beat
    BY Typed DEF Sound
  <2> QED
    BY <2>1 DEF AddFinding, Goto, Set, Beat
<1>5. Adders(r)' \subseteq Adders(r)
  BY <1>4 DEF Adders, OnOf
<1>6. CASE r # OnOf(b)
  <2>1. Open(r)' = Open(r)
    BY <1>3, <1>6 DEF Open, Crit
  <2> QED
    BY <1>5, <2>1, ReviewKept
<1>7. CASE r = OnOf(b)
  <2>1. Crit(r) \in Seq(Criterion)
    BY Typed, Reading
  <2>2. Open(r)' \subseteq Open(r) \cup {Len(Crit(r)) + 1}
    <3>1. /\ Len(Crit(r)) \in Nat /\ DOMAIN Crit(r) = 1 .. Len(Crit(r))
          /\ DOMAIN (Crit(r) \o more) = 1 .. Len(Crit(r)) + 1
          /\ \A i \in 1 .. Len(Crit(r)) : (Crit(r) \o more)[i] = Crit(r)[i]
      <4>1. Len(Crit(r)) \in Nat /\ DOMAIN Crit(r) = 1 .. Len(Crit(r))
        BY <2>1
      <4>2. /\ Crit(r) \o more \in Seq(Criterion) /\ Len(Crit(r) \o more) = Len(Crit(r)) + 1
            /\ \A i \in 1 .. Len(Crit(r)) + 1 :
                (Crit(r) \o more)[i] = IF i <= Len(Crit(r)) THEN Crit(r)[i] ELSE more[i - Len(Crit(r))]
        BY <1>2, <2>1, ConcatProperties
      <4>3. DOMAIN (Crit(r) \o more) = 1 .. Len(Crit(r)) + 1
        BY <4>2, LenProperties
      <4> QED
        BY <4>1, <4>2, <4>3
    <3>2. Crit(r)' = Crit(r) \o more
      BY <1>3, <1>7 DEF Crit
    <3> QED
      BY <3>1, <3>2 DEF Open
  <2>3. b \in Adders(r) /\ b \notin Adders(r)'
    BY <1>1, <1>4, <1>7 DEF Adders
  <2> QED
    BY <1>5, <2>2, <2>3, ReviewKept
<1> QED
  BY <1>6, <1>7

LEMMA ReviewStep == TypeOK /\ ReviewInv /\ [Next]_vars => ReviewInv'
<1> SUFFICES ASSUME TypeOK, ReviewInv, [Next]_vars PROVE ReviewInv'
  OBVIOUS
<1>1. Cardinality(Active') <= 1 + outside' /\ Extends(reqs') /\ outside' \in Nat
  BY ActiveStep, EveryStepExtends, OutsideGrows, Typed
<1>2. ASSUME NEW r PROVE Cardinality(Adders(r)') \in Nat /\ Cardinality(Adders(r)') <= 1 + outside'
  <2>1. Adders(r)' \in SUBSET Active' /\ Active' \in SUBSET Beats
    BY DEF Adders, Active
  <2>2. IsFiniteSet(Active') /\ IsFiniteSet(Adders(r)') /\ Cardinality(Adders(r)') <= Cardinality(Active')
    BY <2>1, FS_Subset DEF ObligationsConstants
  <2>3. Cardinality(Active') \in Nat /\ Cardinality(Adders(r)') \in Nat
    BY <2>2, FS_CardinalityType
  <2> QED
    BY <1>1, <2>2, <2>3
<1>3. ASSUME NEW r, Open(r)' = {} PROVE Cardinality(Open(r)') + Cardinality(Adders(r)') <= 1 + outside'
  BY <1>2, <1>3, FS_EmptySet
<1>4. ASSUME NEW r \in DOMAIN reqs', ~Adds PROVE Cardinality(Open(r)') + Cardinality(Adders(r)') <= 1 + outside'
  <2>1. r \notin DOMAIN reqs => Open(r)' = {}
    BY <1>1, <1>4 DEF Extends, Untouched, Open, Crit
  <2>2. r \in DOMAIN reqs => Open(r)' \subseteq Open(r)
    BY <1>1, <1>4 DEF Extends, Untouched, Kept, Open, Crit
  <2>3. CASE r \in DOMAIN reqs /\ Adders(r)' \subseteq Adders(r)
    BY <2>2, <2>3, ReviewKept
  <2>4. CASE Open(r) = {} /\ reqs' = reqs
    <3>1. Open(r)' = {}
      BY <2>4 DEF Open, Crit
    <3> QED
      BY <1>3, <3>1
  <2> QED
    BY <1>3, <2>1, <2>3, <2>4, AddersStep
<1>5. ASSUME NEW r \in DOMAIN reqs', Adds PROVE Cardinality(Open(r)') + Cardinality(Adders(r)') <= 1 + outside'
  <2>1. PICK b \in Beats : AddFinding(b)
    BY <1>5 DEF Adds
  <2>2. DOMAIN reqs' = DOMAIN reqs
    BY <2>1 DEF AddFinding, WithCriteria
  <2> QED
    BY <1>5, <2>1, <2>2, ReviewAdded
<1> QED
  BY <1>1, <1>4, <1>5 DEF ReviewInv

\* A request never has more open review criteria than one and one for each beat that started
\* beside another, however often its gate refuses and whichever of them are declined.
THEOREM ReviewsBounded == Spec => []OneOpenReview
<1>1. Init => ReviewInv
  BY ReviewInit
<1>2. TypeOK /\ ReviewInv /\ [Next]_vars => ReviewInv'
  BY ReviewStep
<1>3. TypeOK /\ ReviewInv => OneOpenReview
  <2> SUFFICES ASSUME TypeOK, ReviewInv, NEW r \in DOMAIN reqs PROVE Cardinality(Open(r)) <= 1 + outside
    BY DEF OneOpenReview, Open
  <2>1. /\ Cardinality(Open(r)) \in Nat /\ Cardinality(Adders(r)) \in Nat /\ outside \in Nat
        /\ Cardinality(Open(r)) + Cardinality(Adders(r)) <= 1 + outside
    BY Typed, ReviewSizes DEF ReviewInv
  <2> QED
    BY <2>1
<1> QED
  BY <1>1, <1>2, <1>3, TypeCorrect, PTL DEF Spec
=============================================================================
