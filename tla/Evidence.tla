------------------------------ MODULE Evidence ------------------------------
(***************************************************************************)
(* The rows of the evidence ledger that decide what happens to a           *)
(* candidate, and the folds that read them back: the kernel's replay(),    *)
(* the engine's live_candidates(), inherit_incumbent(), find_adapter() and *)
(* the confirmation study's current_incumbent().                           *)
(*                                                                         *)
(* A paired effect is kept as the incumbent it was measured against, a     *)
(* model hash as the candidate whose adapter it is.  Spend, calibration,   *)
(* sensor and gate figures no reader here branches on are left out.        *)
(***************************************************************************)
EXTENDS Integers, Sequences, FiniteSets, SequencesExt

CONSTANTS
    Candidates,  \* the ids a proposer may hand out, 1 .. n; id 0 is the baseline
    KMax,        \* Variance.k_max: seeds after which the boundary must decide
    MinNConfirm  \* Variance.min_n_confirm: seeds before a confirm may stand

ASSUME EvidenceConstants ==
    /\ IsFiniteSet(Candidates) /\ Candidates = 1 .. Cardinality(Candidates)
    /\ KMax \in Nat \ {0}
    /\ MinNConfirm \in Nat \ {0}

Base   == 0              \* c-0000, the unmodified model
Models == {Base} \cup Candidates
NoHash == -1             \* hashes.harness_parent is None: the incumbent is the base model

Decided == {"confirm", "prune"}
Kinds   == {"propose", "predict", "select", "spend", "observe", "skip", "promote", "prune",
            "audit_high", "sublate"}

Row == [seq : Nat, kind : Kinds, night : Nat, cid : Models,
        arm : {"none", "incumbent", "candidate"},   \* observe: which arm of the pair
        vs : Models,                                \* observe: the incumbent it was paired with
        seed : Nat,                                 \* observe: seed_index
        boundary : {"none", "continue"} \cup Decided,
        scored : BOOLEAN,                           \* observe: carries predicted and brier
        target : Nat]                               \* sublate: target_seq

-----------------------------------------------------------------------------
(* replay()                                                                *)

\* CandidateView
View == [proposed : BOOLEAN, xs : Seq(Models), nObs : Nat, boundary : {"none", "continue"} \cup Decided,
         promoted : BOOLEAN, pruned : BOOLEAN, high : BOOLEAN, skipped : BOOLEAN,
         incumbent : {NoHash} \cup Candidates]

Unseen == [proposed |-> FALSE, xs |-> <<>>, nObs |-> 0, boundary |-> "none", promoted |-> FALSE,
           pruned |-> FALSE, high |-> FALSE, skipped |-> FALSE, incumbent |-> NoHash]

\* hashes.harness_parent as evaluate_and_dispose records it.
Parent(r) == IF r.vs = Base THEN NoHash ELSE r.vs

\* The observe case of _apply: a change of parent starts the effects afresh.
Observed(c, r) ==
    LET rebased == Parent(r) # NoHash /\ c.incumbent # NoHash /\ Parent(r) # c.incumbent
    IN  [c EXCEPT !.xs = Append(IF rebased THEN <<>> ELSE c.xs, r.vs),
                  !.nObs = c.nObs + 1,
                  !.boundary = r.boundary,
                  !.incumbent = IF Parent(r) # NoHash THEN Parent(r) ELSE c.incumbent]

\* _apply on the candidate a row names.
ApplyTo(c, r) ==
    CASE r.kind = "propose"    -> [c EXCEPT !.proposed = TRUE]
      [] r.kind = "select"     -> [c EXCEPT !.boundary = "none"]
      [] r.kind = "observe"    -> Observed(c, r)
      [] r.kind = "skip"       -> [c EXCEPT !.skipped = TRUE]
      [] r.kind = "promote"    -> [c EXCEPT !.promoted = TRUE]
      [] r.kind = "prune"      -> [c EXCEPT !.pruned = TRUE]
      [] r.kind = "audit_high" -> [c EXCEPT !.high = TRUE]
      [] OTHER                 -> c

\* Rows about a candidate nobody proposed change nothing.
Apply(st, r) ==
    [st EXCEPT ![r.cid] = IF @.proposed \/ r.kind = "propose" THEN ApplyTo(@, r) ELSE @]

Withdrawn(l) == {l[i].target : i \in {j \in DOMAIN l : l[j].kind = "sublate"}}

\* A withdrawn observation or promotion stays in the chain and out of the fold.
Counts(l, r) == ~(r.kind \in {"observe", "promote"} /\ r.seq \in Withdrawn(l))

\* The loop of replay(): the views after each number of rows.
Views(l) ==
    LET st[n \in 0 .. Len(l)] ==
            IF n = 0 THEN [c \in Models |-> Unseen]
            ELSE IF Counts(l, l[n]) THEN Apply(st[n - 1], l[n])
            ELSE st[n - 1]
    IN  st

Replay(l) == Views(l)[Len(l)]

-----------------------------------------------------------------------------
(* The engine's readers                                                    *)

LiveIgnoringBoundary(st, inc) ==
    {c \in Candidates \ {inc} :
        /\ st[c].proposed
        /\ ~(st[c].pruned \/ st[c].promoted \/ st[c].high \/ st[c].skipped)}

LiveIgnoringAudits(st, inc) ==
    {c \in Candidates \ {inc} :
        /\ st[c].proposed
        /\ ~(st[c].pruned \/ st[c].promoted \/ st[c].skipped)
        /\ st[c].boundary \notin Decided}

LiveIgnoringPromotions(st, inc) ==
    {c \in Candidates \ {inc} :
        /\ st[c].proposed
        /\ ~(st[c].pruned \/ st[c].high \/ st[c].skipped)
        /\ st[c].boundary \notin Decided}

\* live_candidates(), for one trainee and one bench.
Live(st, inc) ==
    {c \in Candidates \ {inc} :
        /\ st[c].proposed
        /\ ~(st[c].pruned \/ st[c].promoted \/ st[c].high \/ st[c].skipped)
        /\ st[c].boundary \notin Decided}

\* next_candidate_id(): the number of propose rows so far, the baseline's included.
NextId(l) == Cardinality({i \in DOMAIN l : l[i].kind = "propose"})

\* The proposals a night already holds, which decide whether it proposes again.
Already(l, night) ==
    Cardinality({i \in DOMAIN l : l[i].kind = "propose" /\ l[i].night = night /\ l[i].cid # Base})

Promotions(l) == {i \in DOMAIN l : l[i].kind = "promote"}

\* The candidate of the last of these rows, or the baseline.
LastOf(l, S) == IF S = {} THEN Base ELSE l[Max(S)].cid

InheritWithdrawn(l, adapters) ==
    LET c == LastOf(l, Promotions(l))
    IN  IF c \in adapters THEN c ELSE Base

\* inherit_incumbent(): the last promotion that stands, if its adapter is on disk.
Inherit(l, adapters) ==
    LET c == LastOf(l, {i \in Promotions(l) : Counts(l, l[i])})
    IN  IF c \in adapters THEN c ELSE Base

\* confirm_eval.current_incumbent()
CurrentIncumbent(l) == LastOf(l, Promotions(l))

\* find_adapter(): a training spend row names a directory that is still there.
Trained(l, adapters, c) ==
    c \in adapters /\ \E i \in DOMAIN l : l[i].kind = "spend" /\ l[i].cid = c

\* sequential_boundary(), over all the effects those incumbents may have given:
\* evidence may cross either bound early, and k_max forces a decision.
Boundary(xs) ==
    (IF Len(xs) >= MinNConfirm THEN {"confirm"} ELSE {})
    \cup {"prune"}
    \cup (IF Len(xs) < KMax THEN {"continue"} ELSE {})
=============================================================================
