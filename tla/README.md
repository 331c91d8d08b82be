# Verification of Pravrudhi

TLA+ modules that model the stateful core of Pravrudhi, the TLC configurations
that check them on small instances, and theorems about them whose proofs TLAPS
checks. `PROJECT.json` says which lines of the repository each definition
stands for. Paths below are relative to the repository; `kernel/` abbreviates
`src/pravrudhi_kernel/src/pravrudhi_kernel/`, `app/` abbreviates
`src/pravrudhi/application/`.

1. [The system](#the-system)
2. [Modules and the code they model](#modules-and-the-code-they-model)
3. [Runs](#runs)
4. [Fairness](#fairness)
5. [Proofs](#proofs)
6. [What is not modelled](#what-is-not-modelled)
7. [Plan](#plan)
8. [Running it](#running-it)

## The system

Pravrudhi is a self-improvement engine in two packages. The *kernel* is the
evaluator: the append-only evidence ledger and its verifier, the event schema,
sequential statistics, item pools and a sandbox. The *engine* proposes
candidates, runs the night, judges them, keeps the operator's requests, and
serves what was promoted. They meet at the ledger: the engine asks the kernel
to append rows and folds the rows back into the state it acts on. No long-lived
object holds the truth. A night, a heartbeat, the API server and the command
line are separate processes over shared files, and a cold start runs in several
containers over one database.

| Component | State | Operations | Meets | Hard behaviour | Correct when |
|---|---|---|---|---|---|
| Evidence ledger: `kernel/ledger/writer.py`, `verify.py` | `ledger.jsonl`, `.head`, each writer's remembered head | open, append (with head resync), verify | every process that appends | concurrent writers, crash and torn write inside an append, genesis race, clocks that step back | the file verifies; what was acknowledged stays; damage does not spread; an append ends |
| Evidence fold: `kernel/ledger/replay.py` and its readers in the engine | none of its own; a function of the rows | replay, live_candidates, inherit_incumbent, find_adapter, current_incumbent | the ledger | rows withdrawn by later rows; changed incumbents | readers agree on who is live and who is incumbent |
| Night: `app/night.py`, `propose.py`, `deliberate.py`, `execute.py`, `observe.py` | `NightContext`, adapters on disk, sealed predictions | propose, predict, deliberate, train, evaluate, canary, promote, prune, skip, close | ledger, pools, sandbox, inbox | death between two writes and relaunch, failed jobs, lost adapters, promotions in mid-round, withdrawals | judged once; dead is dead; no seed twice; the incumbent is the ledger's; the budget holds; the night ends |
| Cold start: `app/cold_start_service.py`, `wake_store.py`, `judge_wake.py`, `wake_policy.py`, `src/supabase/wake_migration_v2.sql` | wake requests, each user's active wake, cooldowns | start, status, list requests, deliver | several containers, one database or a board in memory, an outside waker | store calls interleave between containers; late and repeated answers; calls that die | one live wake per judge; an end takes only its own wake; nobody is pinned; a success is not punished |
| Obligations: `app/requests.py`, `heartbeat.py`, `completion.py`, `integrate.py` | `requests.json`, attempt, failure, no-op and gate counters | capture, triage, dispatch a wave, judge, meet, decline, deliver, gate, reopen | agents, judges, the operator | minutes pass outside the lock; beats overlap and die; budgets; starvation | settled once; budgets hold; review demands do not pile up; work runs out; every ask is reached |
| Promotion packs: `app/inbox_sign.py`, `delegation.py`, `gate.py` | pack files, signoff rows | list, sign, sweep | ledger, API, CLI | three signers over one ledger | one signoff per pack; nothing signed that was withdrawn |
| Item pools: `kernel/metrics/pool.py`, `app/pool_admin.py` | `exposure.json` | draw, rotate, refuse at the cap | nights, harness track | read-modify-write without a lock | no item exposed beyond its cap |
| Harness track: `app/harness_track.py` | as Night, plus the harness in use | a second track over the same ledger | Night | both tracks at once | unique ids; one incumbent per track |
| Other drives: `app/kshudha.py`, `convergence.py`, `watchdog.py`, `heartbeat.py` | drive scores, streaks, the loop branch | measure, select, beat, sync | obligations, git | a drive that starves the others; a rebase that conflicts | every drive acts in the end |
| Swarm and routing: `app/swarm.py`, `dispatchboard.py`, `routing.py`, `usage_gate.py` | the board of claims, route cool-downs, usage | claim, report, cool, recover | heartbeat | claims that overlap or are lost; ceilings | one claim per job; no route for ever cooling |
| Wake leases and tickets: `app/judge_wake.py`, `wake_ticket.py` | leases, nonces | extend, sign, verify | cold start | replay, expiry | no lease past its cap |
| Assisted screening: `app/a0_assist/` | sessions at a provider, their rows and reservations in a database, the pauses and checks of one engine | admit, reserve, open, record, talk, close; sweep, probe, abandon; pause | a sweeper thread, a backstop process, the provider, the database | the engine dies between two calls; calls fail or their answer is lost; sweepers beside requests | a row tells the truth of its session; nothing and no reservation is left behind |
| Matter store: `app/matter_objectstore.py` over `matter_spans.py` | snapshots, a pointer and a lock per matter in an object store; a local copy and a local lock per worker | create, add, remove, read, delete a matter or a tenant | workers, their threads, the object store | locks that expire, sweeps beside readers, requests that fail or lose their answer, workers that die | acknowledged is kept; removed is nowhere; deleted stays deleted; the pointer resolves; calls end |
| Other tenant stores: `app/tenancy.py`, `tenancy_store.py`, `matter_sweep.py` | files of one tenant | put, get, sweep | portable lock | two writers | nothing live is swept |
| Partner jobs and runs: `app/jobs.py`, `src/pravrudhi/api/runs.py` | a bounded table, a thread or subprocess per job | submit, poll, cancel | API | eviction and cancel against completion | a finished job is reported once and as it ended |
| Self update: `app/update_apply.py` | release directories, the `current` link, the time of the last check | apply (check, download, install, try, switch, prune), rollback | the nights in the ledger, the timer, the API | death half way; a failed install; a rollback; nights that refuse updates | `current` is whole and was tried out; installs catch up |
| Scorers, statistics, efe, grammars, drafting, scanning, front ends, deployment | no state that is shared | pure functions, or input and output | – | – | – |

`PROJECT.json` lists them all with their status.
How the modelled parts interact: a night and everything else that writes
evidence does so through the ledger's append; the night reads it back through
the fold; promotion packs, the confirmation study and the API are further
readers. A beat of the loop runs agents and judges as subprocesses and meets
the operator's commands in the request store only. The judges a cold start
wakes are external to the engine; the engine sees their health and the waker's
answers. An update reads the ledger to see whether a night is open. The matter
store and the assisted tier stand beside the evidence: they are reached through
the API and share nothing with a night but the machine.

The behaviours listed under "hazards" in `PROJECT.json` are what the properties
were chosen for; the list has room for 40. Known besides those, and covered by
no property:

- `propose.py:132`: two tracks running at once count the same propose rows and
  give two candidates one id;
- `replay.py:131`: a withdrawn observation lowers the count the next seed is
  taken from, which repeats the seed of one that stands (`SeedsDistinct` is
  checked without withdrawals);
- `confirm_eval.py:30`: `current_incumbent` takes the last promote row, withdrawn
  or not, so the study may measure a candidate the night has given up;
- `execute.py:87`, `:476`: a relaunch starts the spent budget afresh, and a
  night that dies after a draw leaves its exposures behind;
- `execute.py:705`: a promotion pack is written before the promote row, so a
  death in between leaves a pack nobody promoted;
- `inbox_sign.py:40`: a pack is found unsigned and signed in two steps, by three
  signers; `kernel/metrics/pool.py:143`: `exposure.json` is read, changed and
  written without a lock;
- `wake_store.py:57`: the board in memory looks and asks under two locks, so
  `OneLiveWake` fails there (set `Shared` to FALSE in `MCColdStart_shared.cfg`);
- `cold_start_service.py:98`: a start is repeated while the wake of its user is
  active and its request was refused, uncounted and without a cooldown;
- `src/supabase/wake_migration_v2.sql:77`: `wake_ensure` reads the time before it
  waits for the judge's advisory lock, and orders the rows by that time: if another
  request was made and failed while it waited, its own row counts as the older of
  the two, and the next caller asks a second time beside it;
- `requests.py:931`: triage adds criteria to whatever is there when the model
  answers; `heartbeat.py:2074`, `requests.py:434`: a criterion is amended while it
  is dispatched, and keeps the attempts its old words spent;
- `completion.py:466`: the gate wants evidence of declined criteria too;
- `heartbeat.py:342` and after: the counter files are read and rewritten without a lock;
- `requests.py:204-208`: a `requests.json` that does not parse reads as empty, and
  the next save replaces it;
- `integrate.py:231`, `heartbeat.py:1371`: a build is committed and its `meet`
  refused, a finding is recorded and the move back raises;
- `a0_assist/sweeper.py:81`: the engine's sweeper lists pending rows of any age,
  so it interrupts, or between two turns deletes, the session a request of its
  own engine is still in; `assist.py:482`: the cost is read and the reservation
  finished although the interrupt failed and the session runs on;
- `matter_objectstore.py:690`: `delete_tenant` takes no lock and misses what is
  made after its listing; `:575`: the number of matters is counted and a matter
  made in two steps; `:503`: a writer that sleeps between `still_mine` and the
  sweep for longer than its lock lives deletes the snapshot the next writer has
  uploaded (`SlowHolders`);
- `update_apply.py:319`: a prune removes the release an older server process
  still runs from; `:333`: a rollback takes the newest directory by its time, a
  half made one too; `:422`: a checkout that fails its checks after a pull stays
  moved, against the docstring at `:435`; `:373`: two updates at once share one
  directory.

### Statements the code does not keep

Some statements of the repository were found not to hold. Three of them have a
run that shows it (see [Runs](#runs)). These are stated in the modules, without
a run; give the module a small instance and the property to see the behaviour.

- `Ledger!AppendKeepsChain`: `verify()` strips lines and accepts a file whose
  last newline is missing; the next append glues its row onto the last one.
  `docs/architecture.md:17-18` says the writer refuses a line that would break
  the chain. (`MCLedger_shared.cfg`.)
- `Night!ConfirmedAgainstOne`: effects are started afresh on a change of
  incumbent only when both incumbents have a hash (`replay.py:131-136`), which
  the base model has not, and they are read before the row that would do so. A
  candidate measured once against the base model and once against a freshly
  promoted one is confirmed on the two together. (`MCNight_safe.cfg`.)
- `Night!PredictionsScored`: the sealed predictions are read when the night is
  launched, before the same launch seals its own. (`MCNight_safe.cfg`.)
- `ColdStart!ReadyNotPunished`: a start that finds every judge up answers
  without looking for an active wake, so the wake that brought them up is later
  released as a failed one and its user is refused for the cooldown.
  (`MCColdStart_memory.cfg` with one call.)
- `ColdStart!FailedForCause` with more than one call, over either store: a wake
  begins in one store call and asks for its judges in the next ones
  (`cold_start_service.py:92`, `:97`). A status between the two finds no request and
  ends the wake as a failed one. `FailedForReason` allows it, and shows that nothing
  else of the kind happens. (`MCColdStart_memory.cfg`.)
- `ColdStart!FailedForCause` over the database: rows live 900 s, but a wake may go
  by a granted request that was almost a budget old when it began, and fail when its
  row expires. (`MCColdStart_shipped.cfg` with `Shared` TRUE, `Budget` 4, `ReqTtl` 1,
  `RowTtl` 6, `ActiveTtl` 5, `LastStart` 3, `Cooldown` 1.)
- `Releases!UpdatesResume`: `run_in_progress` looks for a `night_closed` or
  `night_aborted` row to close a night (`update_apply.py:39-40`) and no code
  writes one: nights end with `night_end` (`night.py:163`, `:216`;
  `harness_track.py:893`, `:942`), which `api/runs.py:347` knows. After the first
  night of a track every update is refused;
  `tests/test_update_apply.py:181` writes the row itself. (`MCReleases_kept.cfg`
  with one night and no rollback.)

## Modules and the code they model

Eight modules model code, and `Papers` states what one of them promises. The
`MC` modules only give constants their values. `Evidence` is composed into
`Night` by EXTENDS; `MatterStore` implements `Papers` under a refinement
mapping. A few definitions next to an action, for instance
`GluedNoAppend` before `Glued` or `Marked_Anyway` before `Marked`, are
deliberately wrong variants of it. Nothing refers to them; each names a bug the
property it was written for must find when it takes the definition's place
("mutants" in `PROJECT.json`).

### Ledger

`writer.py` and `verify.py`: any number of `LedgerWriter` objects, one per
process. The file is a sequence of rows and what follows the last newline
(`rest`); the flock is `lock`; `self.seq`, `self.head_hash` and `self.t_last`
are `mem`. An action is what another process can see: `OpenExisting` and
`OpenEmpty`, taking the lock (`Acquire`), the single `os.write` under it
(`Write`, or `TornWrite` when power is lost or the call stores fewer bytes than
asked), the two ways `append()` raises with the lock held (`RaiseOnTail`,
`RaiseOnEvent`), the unlock (`Release`), and the head file that is written
after it (`Publish`). `Lines` is what an append writes: its event, after a
`head_resync` row when another process appended in between. A digest is a fresh
number, so equal digests mean equal bodies; payloads are left out. `setup` is the
clock and the number of torn writes of a behaviour, and `torn` a history variable:
the digests of the events whose own write fell short.

### Evidence

The rows that decide what happens to a candidate, and the folds that read
them. `Replay` is `replay()` as a left fold of `Apply` over the rows that
`Counts` (a sublated observation or promotion stays in the chain and out of the
fold). `Live`, `Inherit`, `Trained`, `NextId`, `Already` and `CurrentIncumbent`
are the engine's readers. An effect is kept as the incumbent it was measured
against. `Boundary` keeps `sequential_boundary`'s seed counts and leaves the
numbers open: with enough seeds it may confirm, it may always prune, and at
`k_max` it may not continue.

### Night

`run_night` from launch to close. `pc` is its place in the code, `ctx` what
lives in the process and is lost with it. Each action ends at a write another
process, or a relaunch, can see: proposing, predicting (whose lines stay in a
buffer until the file is closed), deliberating (`Deliberate` draws the bundle and
writes nothing, `Select` one row of it at a time), training, the two observe rows
of a pair, prune, canary and promote. A training job that fails may leave its
adapter and its spend row (`TrainFails`), and a candidate whose recipe does not
parse is passed over without a row (`BadRecipe`; `Unreadable` are the candidates
with such a recipe). `Crash` is possible between any two of
them and `Launch` starts again as the same night or the next. `Withdraw` and
`LoseAdapter` are what an operator and a disk may do. Samples, recipes, the EFE
ranking and the results of sandboxed jobs are open choices.

### ColdStart

`ColdStartService` over either store (`Shared` chooses `PgWakeStore` over the
`tenancy.wake_*` functions of the database, or `MemoryWakeStore` over
`WakeBoard` and `WakeLimiter`). Every store operation is atomic, a call is not:
`start()` is `Start`, then `Ensure` for each judge, then `Active`, `Seen` for
each judge, and `End`; `status()` is `Status` and the same tail. In memory
`ensure_wake` is two steps (`EnsureLook`, `EnsureRequest`), because the board's
lock is released between them. `Poll` and `Deliver` are the waker, `Tick` the
clock. `Ensure` is atomic, which the advisory lock makes it but for the time, read
before the lock is taken. `past` is a history variable, per active wake: whether a
start answered that every judge is up, which requests had failed when the wake
began (`old`), and the request it got for the first judge (`by`); `bare` says that
a call looked before there was one. `RowTtl` is four times `ReqTtl` in memory, as
`judge_wake.py:392` has it, and free over the database but for the budget.

### Obligations

The request store, the choice of what is owed and the beats that work on it.
Each store operation is atomic under the file lock; a beat holds nothing while
an agent builds (`wave`), a judge reads (`judge`, `noop`, `lastNoop`), a build
is integrated (`meet`), a reviewer looks (`review`) or a model drafts criteria
(`draft`). A beat that finds workable criteria dispatches up to `Width` of them
from different requests (`Dispatch`) and applies their verdicts one after
another; with none it moves a request (`ToDeliver`, `Deliver`) or takes it to
the completion gate (`StartGate` to `Reopen`); with nothing to move it triages
(`StartTriage` to `DeclineAsk`). `meet` and `decline_criterion` refuse each
other's criteria: the exception ends the beat with the verdicts it had left.
Counters kept in files of their own stand in the criterion or request they are
keyed by.

`outside` counts what the loop does not cause: a command of the operator, six
hours gone, a beat that dies, an outcome that counts toward no budget (a wall,
a no-op judged false), and a beat that starts beside another. The timer runs
one beat at a time, but the command line and the messenger start beats too and
nothing keeps two apart. The number is part of the state because a property
uses it, and `MaxOutside` bounds it.

### Papers and MatterStore

`Papers` is what a caller may rely on: a matter holds a set of documents; a
change takes effect at one moment for every reader and before it is
acknowledged; an acknowledged one is undone only by another that was asked for.

`MatterStore` is `ObjectBackedMatterStore`. Every request to the object store is
a step, and so is every step on the local copy that another thread of the
worker can see. A call goes through the local lock (`TakeTurn`), the remote one
(`ClaimLock`, `GiveUp`, `Expire`), `_current` (`ReadPointer`, `Fetch`, `Unpack`,
`Stamp`, up to three times), its change of the local copy (`Ingest`, `Scrub`,
`DropLocal`), `still_mine` (`StillMine`), and `_push` (`Upload`, `Publish`,
`Record`, `ListOld`, `Sweep`), and lets go of its locks (`Release`, `Unlock`,
`Finish`). `Raise` is `_write`'s and `_wrap`'s handling of an exception. A
request may fail (`Refuse`) or be carried out and its answer lost (`seen` is
FALSE), and a worker may die (`Die`). `told` is what callers were told of a
document, the part of the state that `Papers` shares. The refinement maps
`held[m]` to the documents of the snapshot the pointer names (`Found`): a change
takes effect in `Publish`, a deletion in `Erase` or in `Clear`.

### Releases

The release channel of `update_apply.py`: a directory per release, `current`,
and one call at a time, from the timer (`Scheduled`) or the API (`Asked`):
`Check`, `Ask`, `Download`, `Clear`, `Install`, `Try`, `Switch`, `Prune` and
`Sweep`, or `Rollback` and `SwitchBack`. `Crash` may come between any two steps,
and a directory half removed or half made is `part`
(one half removed may keep its time, which changes only with its own entries).
`Publish` is the world, `StartNight` and `EndNight` write the rows `RunInProgress`
reads.

### Assist

A request of the assisted tier from `Admit` to `MarkOwn`, in the order of
`_run_with_slot`, `_converse` and `_close`; a pass of the sweeper thread in the
engine, of the backstop process, or both at once (`Pass`, and for the engine
`Workspace`, `OpenProbe`, `DeleteProbe`, `ListOrphans`, `DeleteOrphan`,
`Abandon`, `Check`); and the two processes dying (`Crash`, `KillBackstop`).
Every call to the provider or the store may fail, and then may have taken
effect or not. The provider and the SQL functions of the store are outside the
repository: `Open`, `Delete`, `Interrupt`, `Store` and `Marked` follow their
clients and `tests/test_a0_assist_store.py`. Ages have three values, for the two
comparisons the code makes.

## Runs

| Run | Instance | Question |
|---|---|---|
| `ledger_shared` | 2 writers, 4 digests, a clock of 2 readings or 2 torn writes (power loss, short writes), fair | Does the file always verify, through refusals, crashes, the genesis race and late head files? Does damage stay in the row that was torn, and is nothing acknowledged lost from a file that verifies? Does every append end? |
| `night_safe` | 2 candidates (the recipe of one may not parse), 2 launches, 2 rounds, k_max 2, budget 8 jobs | Is a decided candidate never sampled again, a dead one never promoted, no seed used twice; is the incumbent in memory the ledger's; does the budget hold to within one candidate? |
| `night_withdraw` | 1 candidate, 2 launches, 1 withdrawal, adapters lost, fair | Is there one standing promotion per candidate, does a launch start on one that stands, does a night end? |
| `coldstart_shared` | 1 user, 2 calls, 3 requests, 1 call that dies or is refused, the database | Is there one live wake per judge? Does an end take only the wake it read? |
| `coldstart_memory` | 1 user, 2 calls, 2 requests, 1 call that dies or is refused, the board in memory, 7 ticks, fair | Does a wake fail only for a reason of its own, or because the board forgot its request or a call looked before there was one? Is no user pinned by a wake whose end was lost? |
| `coldstart_shipped` *(violation)* | 1 user, 1 call, the board in memory with the times of the configuration in units of 30 s, fair | Is a slow but live wake never released? |
| `loop_backlog` | 2 requests, 2 beats, width 2, 1 criterion a draft, 1 outside event, fair | Is no criterion both met and declined, is each within its budget, do review demands stay bounded, does the loop run out of work? |
| `loop_starved` *(violation)* | 2 requests, 1 beat, no outside event, fair | Is every ask given criteria in the end? |
| `matter_workers` | 2 matters, 2 documents, 2 threads on 2 workers or on one, 3 calls of five mixes of kinds, 2 faults, fair | Does the store implement `Papers`? Does the pointer always resolve, is what was removed or deleted nowhere, do reads agree with what was acknowledged, does every call return? |
| `matter_stale` *(violation)* | 1 worker, a thread that reads beside one that adds | Is an acknowledged document kept? |
| `releases_kept` | 3 releases, failures at every step, and 2 crashes, or 2 rollbacks, or nights and a rollback, fair | Is `current` always whole and tried out? Does a quiet install end up on the newest release? |
| `assist_left` | 2 requests with a fault or a death, or 1 with two; 1 slot, 1 deletion a pass, fair | Does a row that says deleted tell the truth? Is every session and every reservation closed in the end? |

What the passing runs show is what their properties say; each property is
stated in a comment above it, with the code it is about.

What the three violations show:

- `coldstart_shipped`: the board in memory keeps an answered request for four
  times `request_ttl_s` (`judge_wake.py:392`), 480 s as shipped, and the budget of a
  wake is 540 s. The wake is granted at once, its judges are still loading after
  480 s, the next status finds no request and the wake is released as a failed one
  with its user in the cooldown, against "a slow but live wake is never released
  mid-flight" (`judge_wake.py:59`).
- `loop_starved`: an open request whose criteria are all declined is chosen to
  be delivered in every beat, refused in every beat, and everything behind it
  waits. The same sequence of calls on the real `requests.py` gives the same
  answers.
- `matter_stale`: `_read` takes no lock. A thread that reads fetches the
  snapshot of the pointer and writes it over the local copy, to which another
  thread of the same worker has added a document and which it has not copied
  yet. The writer uploads the copy without its document and acknowledges it.

### Why the bounds are enough

Ledger: a stale head needs a second writer, a resync row that is lost in memory
needs a refusal after it, and four digests are a genesis row, an event, and a
resync with its event. A clock of two values can step back. Time does not
matter to torn writes, so a behaviour has two readings or torn writes, and two of
those are one that loses a newline and one that is glued onto it.

Night: two candidates are needed for a promotion between two seeds of the
other; two launches for a relaunch; `k_max` 2 for "continue" and then a forced
decision; a budget of 8 is less than two candidates at full cost (12), so it
runs out inside a round. One recipe that may not parse is enough for a round to
pass a candidate over and take the next. `night_withdraw` has one candidate, which is enough
for a promotion to be withdrawn, judged again and promoted again. Seeds are
checked without withdrawals: a withdrawn observation does lower the count the
next seed is taken from, which is listed as a hazard.

ColdStart: constants keep the order the code guarantees (an active wake's time
to live is beyond the budget; a request expires within it), not its seconds, and
`coldstart_shipped` the seconds too. Two calls are the smallest race.
`coldstart_shared` stops its clock at 2 = `Budget`, where a wake stops being live.
In `coldstart_memory` a row lives 4 of the 5 ticks of a budget, as 480 of 540 s, so
requests are forgotten under live wakes; 7 ticks are beyond the end, by budget or
by `ActiveTtl`, of a wake begun in the first one, and two requests are the first
judge's own and a later one.

Obligations: all budgets are 1 except the no-op streak and the gates (2, so
that both outcomes of the comparison occur), and two beats, two requests and a
wave of two let an operator settle the second job of a wave, two beats spend
one budget, and one request hide another. One outside event is enough for a
counterexample to each property when the guard it rests on is broken.

MatterStore: two threads are the smallest race, on two workers for the remote
lock and on one for the local copy, and three calls are a document, its removal
and a call beside them. Two faults are a lost answer and what goes wrong with the
retry. The mixes of kinds in `MCMatterStore` leave two behaviours out, and the
properties do not hold with them: a thread that reads beside one of the same
worker that writes (`matter_stale` shows it), and a lock that expires while its
holder is at work (`SlowHolders`).

Releases: three releases are a current one, one before it and a new one, so that
a prune has something to drop with one kept. Two crashes are one in the install
and one in the retry. Crashes and rollbacks are kept apart because together they
break `CurrentIsWhole` (a rollback to a half made directory).

Assist: one slot and one deletion in a pass make the limits bite with two
requests. A request and a probe fail in different ways, so a fault or a death is
enough for each, and pairs are checked with one request.

### Deadlock

Checking for deadlock is off where a model stops at a bound on an otherwise
endless process (digests, launches, the clock, outside events, calls), and for
the loop, which does stop with nothing owed. `Releases` and `Assist` are checked
for deadlock: their timers go on for ever.

## Fairness

- `Ledger!FairSpec`: `flock` serves its waiters, so a writer that waits again
  and again for a free lock gets it (strong fairness of `Acquire`), and a
  process inside `append()` runs on (weak fairness). No fairness makes a caller
  append or a process open the file.
- `Night!FairSpec`: weak fairness of the night's own steps. A night that is
  killed is not restarted by fairness, and nothing makes anyone launch one.
- `ColdStart!FairSpec`: time goes on. No user's call, no waker's answer is
  assumed.
- `Obligations!FairSpec`: while some beat can do something about what is owed,
  some beat does. The heartbeat's timer goes on, and `kshudha.select` gives the
  beat to the obligations drive when the oldest open ask is older than
  `seva_overdue_days` (`app/kshudha.py:393`, `:742`). No fairness is assumed of
  one outcome over another: agents and judges may fail every time.
- `MatterStore!Spec`: weak fairness of each thread's own steps. Requests have
  deadlines, so a call takes its next step, one way or the other; nothing makes a
  call begin, a lock expire or a dead worker release anything. A thread that
  waits for the remote lock gives up (`LOCK_WAIT_S`), one that waits for the local
  lock waits for a thread that goes on.
- `Releases!Spec`: a call that runs goes on, the check interval passes, the timer
  fires, a night that runs ends. No release, night, call of the operator or
  success is assumed beyond the bound on failures.
- `Assist!Spec`: a request goes on, for every call has a timeout; the sweeper's
  thread loops and the backstop's timer fires; what is left behind gets older.
  Nothing restarts an engine that died, no agent ends its turn, and a call may
  fail up to the bound.

## Proofs

For every value of the constants that the named ASSUME of each module allows
(`LedgerConstants`, `EvidenceConstants`, `NightConstants`,
`ColdStartConstants`, `ObligationsConstants`, `MatterConstants`,
`ReleaseConstants`, `AssistConstants`), TLAPS checks:

| Theorem | States | Argument |
|---|---|---|
| `LedgerProofs!TypeCorrect` | `TypeOK`, torn writes included | A file whose last newline is missing is not empty. |
| `LedgerProofs!ChainHolds` | `ChainVerifies`: the file verifies as long as no write was torn | `ChainInv`: the rows are chained, and a writer whose remembered head is the digest of the last row remembers that row's seq and time too. `ChainVerifies` alone is not inductive: an append builds on the memory of its writer, not on the file. |
| `LedgerProofs!HeadFileNamesARow` | `HeadFileOnChain`, as long as no write was torn | `DiskInv`: rows are only added, so what a writer has written and what was published stay at their place. |
| `LedgerTornProofs!LinksStayIntact` | `IntactLinks`, for every way a write can be torn | `LinkInv`: what a writer must remember of the row it believes to be the last, torn or not, and that no head equals a digest computed later, also when a refused event left a head that is on no disk. |
| `LedgerTornProofs!NothingLostUnseen` | `NoSilentLoss`, for every way a write can be torn | `LossInv`: an event that was written whole, by a writer that still has to return or one that has, is a row of its own or part of a garbled one. A garbled row stays, and a file that has one does not verify. |
| `NightProofs!SpentWithinOneCandidate` | `SpentBounded` | `SpentInv`: a bound for each place in the code, from the comparison in `Take` on. |
| `NightProofs!IncumbentKept` | `IncumbentFromLedger`, while nothing is withdrawn and no adapter lost | `IncumbentInv`: no row is withdrawn, the last promotion is the incumbent, and its adapter, like that of the candidate being measured, is on disk. |
| `NightProofs!NightTyped` | `TypeOK` | `TypeOK` with the place of the candidate at hand (`Placed`) and the select rows written so far (`Counting`); what the fold makes of any rows is a view (`ViewsAre`), by induction over the rows. |
| `NightProofs!EndedNeverPromoted` | `DeadNotPromoted` | `FateInv`: the candidates still to come in the order of a night are distinct, none has a promotion that stands, and none was ended, but for the one whose failed canary was just written down. |
| `NightProofs!PromotedOnlyOnce` | `PromotedOnce` | The same invariant: a withdrawal only takes standing promotions away (`CountsStays`). |
| `NightProofs!LaunchedOnStanding` | `LaunchOnStanding` | What a launch inherits is the baseline or has a promotion that stands, and the fold shows such a one as promoted. |
| `NightProofs!JudgedOnlyOnce` | `JudgedOnce`, while nothing is withdrawn | `JudgedInv`: nothing of a candidate is chosen or paired after its decision, and those still to come have none. A decided candidate is shown as settled by the fold (`SettledShows`), so no night takes it up again. |
| `NightProofs!SeedsNeverAgain` | `SeedsDistinct`, while nothing is withdrawn | `SeedInv`: the seeds of a candidate's pairs are below the number of its observations in the fold, from which the next one is taken, and below the seed in hand. The fold only counts up (`ObservationsGrow`). |
| `ColdStartProofs!OneLiveWakeShared` | `OneLiveWake`, over the database | `EarlierIsOver`: of two requests for one judge the earlier is over. A request that is over stays over; this is what the locked look in `wake_ensure` buys. |
| `ColdStartProofs!WakeReleasedByItsOwn` | `ReleasedByItsOwn`, over either store | From `TypeOK`: the stamp of a call is a wake of its user, and an end compares it. |
| `ColdStartProofs!TypeCorrect` | `TypeOK` | Inductive as it stands. |
| `ColdStartProofs!WakeFailsForReason` | `FailedForReason`, over either store, for any number of calls, of crashes and any life of a row | `ReasonInv`: the request a wake got for the first judge was alive, so what had failed before the wake is not the request it goes by while the board keeps that one (`Own`); a reason a call found stays one while the wake lasts (`Why`, `Finds`). It needs that an answer is final (`OldAnswered`) and that the board in memory never asks beside a request that waits (`LastWaits`). |
| `ObligationsProofs!TypeCorrect` | `TypeOK` | Inductive: requests and criteria are only added, so a job or a request a beat holds keeps its place (`Extends`). |
| `ObligationsProofs!SettledOnce` | `NeverBoth` | `Kept`: a settled criterion stays settled as it was, whoever comes last. |
| `ObligationsProofs!BudgetHolds` | `AttemptsBounded` | `BudgetInv`: the attempts of a criterion, and the beats that hold a dispatch of it not counted yet, are together fewer than its budget and the beats. The bound alone is not inductive, since a beat counts long after it compared. |
| `ObligationsProofs!ReviewsBounded` | `OneOpenReview` | `ReviewInv`: beats at work are at most one and the outside events; open review criteria and the beats about to add one likewise. |
| `ReleasesProofs!ReleasesTypeCorrect` | `TypeOK` | Inductive as it stands. |
| `ReleasesProofs!ReleasesCurrentIsWhole` | `CurrentIsWhole`, where crashes and rollbacks do not meet | What is being cleared, made or dropped is never `current`; without crashes every directory a rollback may choose was tried out. |
| `MatterStoreProofs!MatterTypeCorrect` | `TypeOK` | Inductive with what a call holds at each step (`Working`): a document if it writes, a pointer once it read one, a name once it uploaded. |
| `MatterStoreProofs!DeletedNotFoundAgain` | `StaysClosed` | From the types: HEAD is made where there was none only by a call that read none. |
| `MatterStoreProofs!PointerResolves`, `ClosedStaysEmpty` | `HeadResolves`, `ClosedIsEmpty`, where `Orderly` holds | `Inv`: a call that holds LOCK, or creates, is alone on its matter (`OneOwner`), so what it read of the pointer and listed of the snapshots stays true until it acts on it (`Secure`). Neither property is inductive alone: a sweep builds on a listing made many steps before. |
| `MatterStoreProofs!NothingLost`, `RemovalComplete`, `ReadsCurrent` | `AckedKept`, `GoneIsGone`, `ReadsAgree`, where `Orderly` and `ReadsApart` hold | `Faith`, see below. |
| `MatterStoreProofs!PromisesKept` | `KeepsPromises`, the refinement of `Papers`, where `Orderly` and `ReadsApart` hold | With `held[m]` the documents of the pointer's snapshot, a step that moves the pointer is a `Change`, `Open` or `Close` (`MovePromise`), one that answers a caller is an `Ask` or `Acknowledge` (`TellPromise`), the death of a worker is a `Forget` (`DiePromise`), and every other stutters. |
| `AssistProofs!AssistTypeCorrect` | `TypeOK` | Inductive as it stands. |
| `AssistProofs!DeletedIsGone` | `RecordedTruly` | `Inv`: a session that is gone stays gone, because only its own request opens it, before it has a row (`Untouched`, `Sweepable`), and whoever is about to mark a row has seen the session go (`Answered`). |

`Orderly` says that a lock does not expire under its holder (`SlowHolders`), a
matter is not used before its creation returned (`EarlyUse`), and no tenant is
purged. Without the first two the properties are not claimed by the run either;
a purge deletes the locks of writers at work, and what it leaves true is only
model-checked.

`ReadsApart` says that where calls read, no two threads share a worker. It is
what the finding of `matter_stale` takes away: a reader that brings the current
snapshot into the local copy does so without a lock, under the hands of a writer
of the same worker. So the code keeps what `NothingLost` and `PromisesKept` state
for writers on any number of threads and workers, and for readers on workers that
serve one call at a time; beside other threads, it does not.

`Faith` relates the local copies, the calls under way and what callers were told
to the pointer. A copy is never ahead of the pointer, and one with its number
differs from its snapshot only by documents whose call failed or is under way
(`Fits`, `Near`). A call that fetches replaces an older copy by what readers find,
if the pointer has not moved since (`Follows`); one that writes works on the copy
of the pointer it read, bears its change and, once published, finds it (`Changes`,
`Puts`); one that creates is not known of (`Makes`, `Unborn`). None of `AckedKept`,
`GoneIsGone` and `ReadsAgree` is inductive without it: each rests on copies made
long before. The proof has one lemma per action, and they share three forms a step
of a thread can have: `StoreMove`, `DiskMove` and `CallMove` say what it may do to
the object store, the copies and the calls, and `Bystander` that every other thread
keeps its part under all three. TLC checked `Faith` on two instances first (0.5
and 6.9 million states). It rests on `Nil`, the code's `None`, being neither a
document set, a copy nor a pointer (`MatterConstants`).

The fold of the ledger is a recursive function over its rows (`Views`, one view
per row read, the loop of `replay`). Nothing can be proved about it from a
general rule of induction, for such a rule has an operator for parameter. The
lemma `UpTo` takes its place: a set of numbers that holds 0, and n + 1 with every
n below a length, holds the length. A fact about the fold is proved by naming the
set of the lengths for which it holds. The lemmas on top of it (`ViewTurn`,
`ViewReads`, `ViewFlags`, `ViewProposed`) say what one row does to a view, and
`ViewsKeep` that appending leaves the earlier views as they were.

`MaxWithdrawals = 0`, the hypothesis of `IncumbentKept`, `JudgedOnlyOnce` and
`SeedsNeverAgain`, is the night by itself: no row of the ledger is withdrawn by
the CLI, which is what `night_safe` checks them on. A withdrawal undoes what the
fold made of its row: it may put a decided candidate back in play, which is then
judged again, and it lowers the count the next seed is taken from.

Each inductive invariant was first checked by TLC on the instances above or on
smaller ones.

Model-checked only:

- liveness: `AppendEnds`, `NightEnds`, `NeverPinned`, `WorkRunsOut`, `CallsEnd`,
  `CatchesUp`, `NothingLeft`. The prover has no rule for fairness and ENABLED.
- the matter store where a tenant is purged.

Neither proved nor claimed by a run: the matter store where a reader shares its
worker with a writer (`matter_stale` shows that it fails) or a lock expires under
its holder (`SlowHolders` is FALSE in both instances).

## What is not modelled

Components without a module are listed under "components" in `PROJECT.json`
with the reason; the plan below says which will be. Inside the modelled ones:

- Ledger: payloads, envelope fields and the schema's validation (a refused
  event is a choice), and the one-off rechaining script.
- Evidence and Night: spend totals, calibration, gate and sensor figures no
  reader branches on; trainees and benches (there is one of each); the harness
  track; the confirmation study; two nights running at once.
- ColdStart: lease extensions, tickets, the HMAC window and nonces, and the purge
  of a user's row after a day; the time `wake_ensure` spends waiting for its lock.
  Over the database a request row must outlive its wake (`RowTtl >= Budget`, an
  assumption; 900 s and 540 s as shipped), which the board in memory does not
  give: there it is four times `ReqTtl`.
- Obligations: the words of a criterion and its mode, so `amend_criterion` and
  `set_mode`; the early park of a criterion that needs the network; the limit
  on criteria looked at when all fail on paper (each pass spends a budget, so
  it ends without it); git; the drives other than obligations; the triage
  command of the CLI; `drop_criterion` and `retract_evidence`, which nothing
  calls; two beats writing one counter file at once; a
  `capture` with criteria, which only tests call. `OneOpenReview` allows one open review
  criterion and one more for each outside event, which is more than the comment in
  the code promises: two beats may each look for one and each add it.
- MatterStore: the caps on sizes, the probe of conditional writes, passages,
  quotes and full text search (reads of the local copy), links and permissions
  on disk, listings of more than one page, more than one tenant, and a request
  the store carries out after the client gave it up.
- Releases: the developer channel (`git pull`), the kill switch, digests (a
  download that fails them is one that fails), two calls at once, and the
  temporary link a crash may leave.
- Assist: consent, tickets, limits per user and per day, what is said in a
  session, what it costs, the standing canary of the guard, the pruning of old
  rows, and a second engine during a rolling restart.

## Plan

Done: `Ledger`, `Evidence`, `Night`, `ColdStart`, `Obligations`, `MatterStore`,
`Releases` and `Assist`, in the order of how much rests on them, with the proofs
above.

What would come next, in this order:

1. `Inbox`: packs written by the night, listed, signed by the CLI, the API and
   the sweep over one ledger. Composed with `Evidence` for what a withdrawal
   does to a pack. At most one signoff per pack, and where it fails.
2. `Pool`: draws under an exposure cap by several processes over one file; the
   cap and the loss of exposures; composed with `Night` for rotations drawn by
   a night that dies.
3. `Words`: the words and mode of a criterion in `Obligations`, with
   `amend_criterion` between a dispatch and its verdict.
4. `Appetite`: the six drives, their selection and overdue rules, the rebase
   park and the watchdog. It would establish the fairness `Obligations`
   assumes.
5. `Lease`: lease extensions, tickets and nonces on top of `ColdStart`.
6. `Jobs` and `Runs`, the harness track and the dispatch board, each a module of
   its own.

Abstract specifications worth stating beside `Papers`: an append-only log that
several processes append to atomically, which `Ledger` without torn writes
implements (a log of acknowledged events, refined by the file without its resync
rows); a wake service with one wake per judge, which `ColdStart` over the
database implements and the board in memory does not; a work list whose items
are each settled once, which `Obligations` implements.

Theorems worth proving next: the refinements of the three abstract specifications
above, once they are stated.

## Running it

    tlc -workers 2 -config MCLedger_shared.cfg MCLedger
    tlapm LedgerProofs.tla

The largest runs are `coldstart_memory` with 3.5 and `coldstart_shared` with 2.9
million distinct states, `loop_backlog` with 1.6 million, `ledger_shared` with 0.9
million and `matter_workers` with 0.6 million under five invariants, a refinement
and fairness: two to three minutes each on two workers. The largest proofs,
`NightProofs` and `ObligationsProofs`, take about as long, and `MatterStoreProofs`
six minutes.
