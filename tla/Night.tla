-------------------------------- MODULE Night --------------------------------
(***************************************************************************)
(* run_night: propose, then rounds of deliberate, train, paired evaluation *)
(* and disposal, every decision read from and written to the ledger.  The  *)
(* process may die between any two of its writes and be launched again; an *)
(* operator may withdraw an observation or a promotion at any time.        *)
(*                                                                         *)
(* One GPU job costs one unit of budget.                                   *)
(***************************************************************************)
EXTENDS Evidence

CONSTANTS
    K,               \* cfg proposer.k_candidates
    MaxRounds,       \* cfg max_rounds
    Budget,          \* night_gpu_h, in jobs
    MaxLaunches,     \* bound: how often run_night is called
    MaxWithdrawals,  \* bound: how many rows the operator withdraws
    MayLoseAdapters, \* may a promoted adapter's directory be deleted between nights
    Unreadable       \* candidates whose recorded recipe parse_recipe() may refuse

ASSUME NightConstants ==
    /\ K \in Nat \ {0} /\ MaxRounds \in Nat \ {0} /\ Budget \in Nat \ {0}
    /\ MaxLaunches \in Nat /\ MaxWithdrawals \in Nat /\ MayLoseAdapters \in BOOLEAN
    /\ Unreadable \subseteq Candidates

VARIABLES
    ledger,    \* research/ledger.jsonl
    adapters,  \* candidates whose recorded adapter directory exists
    sealed,    \* candidates with a line in sealed/predictions/*.jsonl
    pc,        \* what run_night does next
    ctx,       \* NightContext and run_night's locals, lost with the process
    launches   \* how many times run_night was called

vars == <<ledger, adapters, sealed, pc, ctx, launches>>

Steps == {"off", "propose", "predict", "round", "select", "take", "train", "train_failed",
          "evaluate", "pair", "paired", "prune", "canary", "badhita", "promote", "close"}

\* Jobs one candidate may cost once it is taken: a sampling and a training job,
\* the two arms, the two anchor jobs.
JobsPerCandidate == 6

\* No run_night is running.
Idle == [night |-> 0,           \* the night it was launched as
         inc |-> Base,          \* incumbent_id and incumbent_adapter
         predictions |-> {},    \* ctx.sealed: the sealed lines NightContext read
         spent |-> 0,           \* spent_gpu_h
         accepted |-> <<>>,     \* this launch's proposals, then those still to predict
         lines |-> {},          \* sealed lines written and not flushed
         recipes |-> {},        \* candidates whose recipe is in memory
         round |-> 0, order |-> <<>>,
         selected |-> 0,        \* select rows of the order written so far
         xs |-> <<>>, seed |-> 0,   \* what evaluate_and_dispose read from the ledger
         anchored |-> FALSE]    \* anchor_nll_incumbent is measured

RowFromZero(kind, c) ==
    [seq |-> Len(ledger), kind |-> kind, night |-> ctx.night, cid |-> c, arm |-> "none",
     vs |-> Base, seed |-> 0, boundary |-> "none", scored |-> FALSE, target |-> 0]

RowOf(kind, c) ==
    [seq |-> Len(ledger) + 1, kind |-> kind, night |-> ctx.night, cid |-> c, arm |-> "none",
     vs |-> Base, seed |-> 0, boundary |-> "none", scored |-> FALSE, target |-> 0]

Write(row) == ledger' = Append(ledger, row)

Goto(step) == pc' = step

Current == ctx.order[1]

\* The loop over `order` moves to its next candidate.
NextCandidate == ctx' = [ctx EXCEPT !.order = Tail(@)] /\ Goto("take")

-----------------------------------------------------------------------------
\* research/ as noise_floor leaves it: the baseline has been proposed.
Init ==
    /\ ledger = <<[seq |-> 1, kind |-> "propose", night |-> 0, cid |-> Base, arm |-> "none", vs |-> Base,
                   seed |-> 0, boundary |-> "none", scored |-> FALSE, target |-> 0]>>
    /\ adapters = {} /\ sealed = {}
    /\ pc = "off" /\ ctx = Idle /\ launches = 0

LastNight == Max({ledger[i].night : i \in DOMAIN ledger})

LaunchWithdrawnIncumbent(n) ==
    /\ pc = "off" /\ launches < MaxLaunches
    /\ n \in {LastNight, LastNight + 1} \ {0}
    /\ ctx' = [Idle EXCEPT !.night = n, !.inc = InheritWithdrawn(ledger, adapters), !.predictions = sealed]
    /\ launches' = launches + 1
    /\ Goto(IF Already(ledger, n) >= K THEN "round" ELSE "propose")
    /\ UNCHANGED <<ledger, adapters, sealed>>

\* run_night(night = n): NightContext reads the incumbent and the sealed
\* predictions; a night that already holds K proposals does not propose again.
Launch(n) ==
    /\ pc = "off" /\ launches < MaxLaunches
    /\ n \in {LastNight, LastNight + 1} \ {0}
    /\ ctx' = [Idle EXCEPT !.night = n, !.inc = Inherit(ledger, adapters), !.predictions = sealed]
    /\ launches' = launches + 1
    /\ Goto(IF Already(ledger, n) >= K THEN "round" ELSE "propose")
    /\ UNCHANGED <<ledger, adapters, sealed>>

\* One accepted proposal.
Propose ==
    /\ pc = "propose"
    /\ Len(ctx.accepted) < K /\ NextId(ledger) \in Candidates
    /\ Write(RowOf("propose", NextId(ledger)))
    /\ ctx' = [ctx EXCEPT !.accepted = Append(@, NextId(ledger)), !.recipes = @ \cup {NextId(ledger)}]
    /\ UNCHANGED <<adapters, sealed, pc, launches>>

\* The proposer's answer is used up, or was not usable at all.
Proposed ==
    /\ pc = "propose"
    /\ Goto(IF ctx.accepted = <<>> THEN "round" ELSE "predict")
    /\ UNCHANGED <<ledger, adapters, sealed, ctx, launches>>

\* _predict, one candidate: the predictor may leave it out; otherwise its line
\* goes to the sealed file's buffer and its predict row to the ledger.
Predict ==
    /\ pc = "predict" /\ ctx.accepted # <<>>
    /\ \/ /\ ctx' = [ctx EXCEPT !.accepted = Tail(@), !.lines = @ \cup {Head(ctx.accepted)}]
          /\ Write(RowOf("predict", Head(ctx.accepted)))
       \/ /\ ctx' = [ctx EXCEPT !.accepted = Tail(@)]
          /\ UNCHANGED ledger
    /\ UNCHANGED <<adapters, sealed, pc, launches>>

\* The sealed file is closed.
Predicted ==
    /\ pc = "predict" /\ ctx.accepted = <<>>
    /\ sealed' = sealed \cup ctx.lines
    /\ ctx' = [ctx EXCEPT !.lines = {}]
    /\ Goto("round")
    /\ UNCHANGED <<ledger, adapters, launches>>

\* deliberate(), the choice: a single live candidate is chosen outright; among more
\* the order is left open, and so is the decorative abort, which ends the night.
Deliberate ==
    /\ pc = "round"
    /\ ctx.round < MaxRounds /\ ctx.spent < Budget
    /\ LET pool == Live(Replay(ledger), ctx.inc)
           orders == IF Cardinality(pool) = 1 THEN {SetToSeq(pool)}
                     ELSE UNION {SetToSeqs(S) : S \in SUBSET pool}
       IN  \/ \E order \in orders :
                /\ ctx' = [ctx EXCEPT !.round = @ + 1, !.order = order]
                /\ Goto(IF order = <<>> THEN "close" ELSE "select")
           \/ /\ Cardinality(pool) > 1
              /\ ctx' = Idle /\ Goto("off")
    /\ UNCHANGED <<ledger, adapters, sealed, launches>>

\* deliberate(), the record: one select row per chosen candidate, one at a time.
Select ==
    /\ pc = "select"
    /\ LET n == ctx.selected + 1
       IN  /\ Write(RowOf("select", ctx.order[n]))
           /\ \/ n < Len(ctx.order) /\ ctx' = [ctx EXCEPT !.selected = n] /\ Goto("select")
              \/ n = Len(ctx.order) /\ ctx' = [ctx EXCEPT !.selected = 0] /\ Goto("take")
    /\ UNCHANGED <<adapters, sealed, launches>>

LastRoundLate ==
    /\ pc = "round"
    /\ ctx.round > MaxRounds \/ ctx.spent >= Budget
    /\ Goto("close")
    /\ UNCHANGED <<ledger, adapters, sealed, ctx, launches>>

\* No round is left, or no budget.
LastRound ==
    /\ pc = "round"
    /\ ctx.round >= MaxRounds \/ ctx.spent >= Budget
    /\ Goto("close")
    /\ UNCHANGED <<ledger, adapters, sealed, ctx, launches>>

TakeWhateverSpent ==
    /\ pc = "take" /\ ctx.order # <<>>
    /\ ctx' = [ctx EXCEPT !.recipes = @ \cup {Current}]
    /\ Goto(IF Trained(ledger, adapters, Current) THEN "evaluate" ELSE "train")
    /\ UNCHANGED <<ledger, adapters, sealed, launches>>

\* The next selected candidate, by the recipe this launch proposed or the one it reads
\* from the ledger; an adapter it already has is used again.
Take ==
    /\ pc = "take" /\ ctx.order # <<>>
    /\ ctx.spent < Budget
    /\ ctx' = [ctx EXCEPT !.recipes = @ \cup {Current}]
    /\ Goto(IF Trained(ledger, adapters, Current) THEN "evaluate" ELSE "train")
    /\ UNCHANGED <<ledger, adapters, sealed, launches>>

\* The recorded recipe does not parse: skipped:bad_recipe, in memory and in no row.
BadRecipe ==
    /\ pc = "take" /\ ctx.order # <<>>
    /\ ctx.spent < Budget
    /\ Current \in Unreadable \ ctx.recipes
    /\ NextCandidate
    /\ UNCHANGED <<ledger, adapters, sealed, launches>>

\* The budget is gone: skip{reason: budget}.
Skip ==
    /\ pc = "take" /\ ctx.order # <<>>
    /\ ctx.spent >= Budget
    /\ Write(RowOf("skip", Current))
    /\ NextCandidate
    /\ UNCHANGED <<adapters, sealed, launches>>

RoundDone ==
    /\ pc = "take" /\ ctx.order = <<>>
    /\ Goto("round")
    /\ UNCHANGED <<ledger, adapters, sealed, ctx, launches>>

\* train(): perhaps a sampling job, then a training job that succeeds.
Train ==
    /\ pc = "train"
    /\ \E jobs \in {1, 2} : ctx' = [ctx EXCEPT !.spent = @ + jobs]
    /\ adapters' = adapters \cup {Current}
    /\ Write(RowOf("spend", Current))
    /\ Goto("evaluate")
    /\ UNCHANGED <<sealed, launches>>

\* A job fails: before it took any steps its spend row locates nothing; after some,
\* the row does, and the job may have left an adapter behind it.
TrainFails ==
    /\ pc = "train"
    /\ \E jobs \in {1, 2} : ctx' = [ctx EXCEPT !.spent = @ + jobs]
    /\ \/ UNCHANGED <<ledger, adapters>>
       \/ Write(RowOf("spend", Current)) /\ adapters' \in {adapters, adapters \cup {Current}}
    /\ Goto("train_failed")
    /\ UNCHANGED <<sealed, launches>>

\* The audit row that says so; a process that dies before it leaves the candidate live.
TrainFailed ==
    /\ pc = "train_failed"
    /\ Write(RowOf("audit_high", Current))
    /\ NextCandidate
    /\ UNCHANGED <<adapters, sealed, launches>>

SeedOfNight ==
    /\ pc = "evaluate"
    /\ LET Mine(r) == r.kind = "observe" /\ r.arm = "candidate" /\ r.cid = Current /\ r.night = ctx.night
       IN  ctx' = [ctx EXCEPT !.xs = Replay(ledger)[Current].xs, !.seed = Len(SelectSeq(ledger, Mine))]
    /\ Goto("pair")
    /\ UNCHANGED <<ledger, adapters, sealed, launches>>

\* evaluate_and_dispose(): replay the ledger, take the seed and the effects so
\* far from it, draw the rotation.
Evaluate ==
    /\ pc = "evaluate"
    /\ LET c == Replay(ledger)[Current]
       IN  ctx' = [ctx EXCEPT !.xs = c.xs, !.seed = c.nObs]
    /\ Goto("pair")
    /\ UNCHANGED <<ledger, adapters, sealed, launches>>

\* Both arms ran and match what the kernel sealed: the incumbent's row.
Pair ==
    /\ pc = "pair"
    /\ ctx' = [ctx EXCEPT !.spent = @ + 2]
    /\ Write([RowOf("observe", ctx.inc) EXCEPT !.arm = "incumbent", !.vs = ctx.inc, !.seed = ctx.seed])
    /\ Goto("paired")
    /\ UNCHANGED <<adapters, sealed, launches>>

\* A job of either arm failed: the candidate is audited high.
PairFails ==
    /\ pc = "pair"
    /\ Write(RowOf("audit_high", Current))
    /\ ctx' = [ctx EXCEPT !.spent = @ + 2, !.order = Tail(@)]
    /\ Goto("take")
    /\ UNCHANGED <<adapters, sealed, launches>>

\* The candidate's row, with what the boundary says of all its effects.
Observe ==
    /\ pc = "paired"
    /\ \E b \in Boundary(Append(ctx.xs, ctx.inc)) :
        /\ Write([RowOf("observe", Current) EXCEPT !.arm = "candidate", !.vs = ctx.inc, !.seed = ctx.seed,
                     !.boundary = b, !.scored = Current \in ctx.predictions])
        /\ \/ b = "continue" /\ NextCandidate
           \/ b = "prune"    /\ Goto("prune")  /\ UNCHANGED ctx
           \/ b = "confirm"  /\ Goto("canary") /\ UNCHANGED ctx
    /\ UNCHANGED <<adapters, sealed, launches>>

\* The boundary's prune, or the prune that follows a failed canary.
Prune ==
    /\ pc \in {"prune", "badhita"}
    /\ Write(RowOf("prune", Current))
    /\ NextCandidate
    /\ UNCHANGED <<adapters, sealed, launches>>

\* _canaries_and_promote(): the incumbent's anchor is measured once, then the
\* candidate's; a failed canary is audited high.
Canary ==
    /\ pc = "canary"
    /\ \E measured \in BOOLEAN :
        /\ ctx' = [ctx EXCEPT !.spent = @ + (IF ctx.anchored THEN 1 ELSE 2),
                              !.anchored = @ \/ measured]
        /\ \/ ctx'.anchored /\ Goto("promote") /\ UNCHANGED ledger
           \/ Goto("badhita") /\ Write(RowOf("audit_high", Current))
    /\ UNCHANGED <<adapters, sealed, launches>>

PromoteForgets ==
    /\ pc = "promote"
    /\ Write(RowOf("promote", Current))
    /\ NextCandidate
    /\ UNCHANGED <<adapters, sealed, launches>>

\* The promote row, and the new incumbent of the pairs that follow.
Promote ==
    /\ pc = "promote"
    /\ Write(RowOf("promote", Current))
    /\ ctx' = [ctx EXCEPT !.inc = Current, !.anchored = TRUE, !.order = Tail(@)]
    /\ Goto("take")
    /\ UNCHANGED <<adapters, sealed, launches>>

\* strategy_switch_rate and night_end: no reader here looks at them.
Close ==
    /\ pc = "close"
    /\ ctx' = Idle /\ Goto("off")
    /\ UNCHANGED <<ledger, adapters, sealed, launches>>

\* The process is killed, or a call raises (a refused hash, an exhausted pool),
\* which still closes the sealed file.
Crash ==
    /\ pc # "off"
    /\ ctx' = Idle /\ Goto("off")
    /\ sealed' \in {sealed, sealed \cup ctx.lines}
    /\ UNCHANGED <<ledger, adapters, launches>>

-----------------------------------------------------------------------------
\* A sublate row withdraws an observation or a promotion.
Withdraw ==
    /\ Cardinality(Withdrawn(ledger)) < MaxWithdrawals
    /\ \E i \in DOMAIN ledger :
        /\ ledger[i].kind \in {"observe", "promote"} /\ Counts(ledger, ledger[i])
        /\ Write([RowOf("sublate", ledger[i].cid) EXCEPT !.target = ledger[i].seq])
    /\ UNCHANGED <<adapters, sealed, pc, ctx, launches>>

LoseAdapter ==
    /\ MayLoseAdapters /\ pc = "off"
    /\ \E c \in adapters : adapters' = adapters \ {c}
    /\ UNCHANGED <<ledger, sealed, pc, ctx, launches>>

Step ==
    \/ Propose \/ Proposed \/ Predict \/ Predicted \/ Deliberate \/ Select \/ LastRound \/ Take \/ BadRecipe
    \/ Skip \/ RoundDone \/ Train \/ TrainFails \/ TrainFailed \/ Evaluate \/ Pair \/ PairFails \/ Observe
    \/ Prune \/ Canary \/ Promote \/ Close

Next == (\E n \in 1 .. MaxLaunches : Launch(n)) \/ Step \/ Crash \/ Withdraw \/ LoseAdapter

Spec == Init /\ [][Next]_vars

\* A night that is left alone runs on.
FairSpec == Spec /\ WF_vars(Step)

-----------------------------------------------------------------------------
\* Every variable keeps its type.
TypeOK ==
    /\ ledger \in Seq(Row) /\ \A i \in DOMAIN ledger : ledger[i].seq = i
    /\ adapters \subseteq Candidates /\ sealed \subseteq Candidates
    /\ pc \in Steps
    /\ ctx \in [night : Nat, inc : Models, predictions : SUBSET Candidates, spent : Nat,
                accepted : Seq(Candidates), lines : SUBSET Candidates, recipes : SUBSET Candidates,
                round : 0 .. MaxRounds, order : Seq(Candidates), selected : Nat, xs : Seq(Models), seed : Nat, anchored : BOOLEAN]
    /\ launches \in 0 .. MaxLaunches

\* The candidate's arm of a pair.
Paired(i) == ledger[i].kind = "observe" /\ ledger[i].arm = "candidate"
PairedBefore(c, i) == {j \in 1 .. i : Paired(j) /\ ledger[j].cid = c}

\* The incumbent the night pairs against in memory is the one the ledger and the
\* adapters on disk name, through promotions in mid-round and relaunches.
IncumbentFromLedger == pc # "off" => ctx.inc = Inherit(ledger, adapters)

\* Once a boundary has decided, no further effect of that candidate is sampled: not
\* by a later round, and not by a relaunch after a crash before the decision's own row.
JudgedOnce ==
    \A j \in DOMAIN ledger : Paired(j) =>
        \A i \in PairedBefore(ledger[j].cid, j - 1) : ledger[i].boundary = "continue"

\* A candidate's paired observations all have seeds of their own, through changes of
\* incumbent that start its effects afresh.
SeedsDistinct ==
    \A j \in DOMAIN ledger : Paired(j) =>
        \A i \in PairedBefore(ledger[j].cid, j - 1) : ledger[i].seed # ledger[j].seed

\* What was pruned, skipped or audited high is never promoted, whatever process reads
\* the ledger next.
DeadNotPromoted ==
    \A j \in DOMAIN ledger : ledger[j].kind = "promote" =>
        \A i \in 1 .. j - 1 : ledger[i].cid = ledger[j].cid =>
            ledger[i].kind \notin {"prune", "skip", "audit_high"}

\* A launch overspends its budget by less than one candidate's jobs.
SpentBounded == ctx.spent < Budget + JobsPerCandidate

\* No candidate has two promotions that stand, whatever was withdrawn and judged again.
PromotedOnce ==
    \A i, j \in DOMAIN ledger :
        /\ ledger[i].kind = "promote" /\ ledger[j].kind = "promote" /\ ledger[i].cid = ledger[j].cid
        /\ Counts(ledger, ledger[i]) /\ Counts(ledger, ledger[j])
        => i = j

\* A launch pairs against the baseline or a candidate whose promotion stands.
LaunchOnStanding ==
    [][pc = "off" /\ pc' # "off" => ctx'.inc = Base \/ Replay(ledger)[ctx'.inc].promoted]_vars

\* A launched night ends.
NightEnds == pc # "off" ~> pc = "off"

\* docs/architecture.md requires "a minimum of two seeds before a confirmation may
\* stand", of effects paired "against the current incumbent": a confirm rests on
\* MinNConfirm pairs with one incumbent.  It does not when the incumbent changed
\* between two of the candidate's seeds, and no run is kept for it.
ConfirmedAgainstOne ==
    \A i \in DOMAIN ledger : Paired(i) /\ ledger[i].boundary = "confirm" =>
        Cardinality({j \in PairedBefore(ledger[i].cid, i) : ledger[j].vs = ledger[i].vs}) >= MinNConfirm

\* The predictor is told its predictions are "scored by the Brier rule afterwards": a
\* pair of a candidate with a predict row is scored.  It is not in the launch that
\* made the prediction, and no run is kept for it.
PredictionsScored ==
    \A i \in DOMAIN ledger :
        Paired(i) /\ (\E j \in 1 .. i : ledger[j].kind = "predict" /\ ledger[j].cid = ledger[i].cid)
            => ledger[i].scored
=============================================================================
