------------------------------ MODULE Releases ------------------------------
(***************************************************************************)
(* The release channel of update_apply.py: an install keeps each release   *)
(* in a directory of its own and `current` is a link to one of them.  A    *)
(* timer and the operator ask for updates, the operator for rollbacks; an  *)
(* update looks for a night that is under way, downloads, installs, tries  *)
(* the install out, switches the link and drops the oldest directories.    *)
(* Nights write their rows to the ledger meanwhile.                        *)
(*                                                                         *)
(* Calls do not overlap: the server refuses a second one (409) and the     *)
(* timer runs one at a time; a call of each at the same moment is left     *)
(* out, and so are the kill switch, the developer channel, and the link a  *)
(* crash may leave under a temporary name in `switch_current`.             *)
(***************************************************************************)
EXTENDS Integers, Sequences, FiniteSets

CONSTANTS
    Track,        \* the tracks nights run on
    MaxVersion,   \* bound: releases published, 1 .. MaxVersion
    Setups,       \* [crashes, rollbacks, nights, keep]: bounds, and keep_previous
    MaxFaults     \* bound: checks, downloads, installs and trials that fail

ASSUME ReleaseConstants ==
    /\ MaxVersion \in Nat \ {0} /\ MaxFaults \in Nat
    /\ IsFiniteSet(Track)
    /\ Setups \subseteq [crashes : Nat, rollbacks : Nat, nights : Nat, keep : Nat]

Version == 1 .. MaxVersion
None == 0          \* no release: `current` is not a link

VARIABLES
    dirs,       \* version -> what its directory holds
    mtime,      \* version -> when something was last written or deleted in it
    clock,      \* the moment of the last such change
    current,    \* the version `current` points at, or None
    published,  \* the newest release on GitHub
    due,        \* has check_interval_min passed since the last check
    call,       \* the call under way
    rows,       \* the rows nights wrote to the ledger
    running,    \* the tracks a night process runs on
    keep,       \* keep_previous of update.yaml
    left        \* what is left of the bounds

vars == <<dirs, mtime, clock, current, published, due, call, rows, running, keep, left>>
disk == <<dirs, mtime, clock>>
world == <<published, rows, running, keep>>

Holds == {"nothing", "part", "installed", "tried"}
Steps == {"idle", "check", "ask", "download", "clear", "install", "try", "undo", "switch",
          "prune", "sweep", "return"}
Idle == [at |-> "idle", v |-> None, drop |-> {}]

Init ==
    /\ dirs = [v \in Version |-> "nothing"] /\ mtime = [v \in Version |-> 0] /\ clock = 0
    /\ current = None
    /\ published = 1 /\ due = TRUE /\ call = Idle
    /\ rows = <<>> /\ running = {}
    /\ \E s \in Setups :
         /\ keep = s.keep
         /\ left = [crashes |-> s.crashes, rollbacks |-> s.rollbacks, nights |-> s.nights,
                    faults |-> MaxFaults]

At(step) == call.at = step
Go(step) == call' = [call EXCEPT !.at = step]
Return   == call' = Idle
Fault    == left.faults > 0 /\ left' = [left EXCEPT !.faults = @ - 1]
-----------------------------------------------------------------------------
(* Directories.                                                            *)

\* Mutant: a moment before the last one.
Touch_Back(v, what) == /\ dirs' = [dirs EXCEPT ![v] = what]
                       /\ clock' = clock - 1
                       /\ mtime' = [mtime EXCEPT ![v] = clock']

\* Writing or deleting in a directory makes it the one changed last.
Touch(v, what) == /\ dirs' = [dirs EXCEPT ![v] = what]
                  /\ clock' = clock + 1
                  /\ mtime' = [mtime EXCEPT ![v] = clock']

\* shutil.rmtree is not atomic: the directory is in pieces before it is gone.  While
\* only a directory inside it has been emptied its own time stays what it was.
Tear(v) ==
    /\ dirs[v] \in {"installed", "tried"}
    /\ \/ Touch(v, "part")
       \/ dirs' = [dirs EXCEPT ![v] = "part"] /\ UNCHANGED <<mtime, clock>>
Drop(v) == dirs[v] = "part" /\ dirs' = [dirs EXCEPT ![v] = "nothing"] /\ UNCHANGED <<mtime, clock>>

\* Mutant: every directory.
Others_All == {v \in Version : dirs[v] # "nothing"}

\* The directories `current` does not point at.
Others == {v \in Version \ {current} : dirs[v] # "nothing"}
-----------------------------------------------------------------------------
(* Nights, as the ledger shows them.                                       *)

Row(kind, t) == [kind |-> kind, track |-> t,
                 night |-> Cardinality({i \in DOMAIN rows : rows[i].kind = "night_start"
                                                            /\ rows[i].track = t})
                           + IF kind = "night_start" THEN 1 ELSE 0]

StartNight(t) ==
    /\ t \notin running /\ left.nights > 0
    /\ running' = running \cup {t}
    /\ rows' = Append(rows, Row("night_start", t))
    /\ left' = [left EXCEPT !.nights = @ - 1]
    /\ UNCHANGED <<disk, current, published, due, call, keep>>

EndNight(t) ==
    /\ t \in running
    /\ running' = running \ {t}
    /\ rows' = Append(rows, Row("night_end", t))
    /\ UNCHANGED <<disk, current, published, due, call, keep, left>>

\* The kinds of row that close a night for run_in_progress.
ClosedKinds == {"night_closed", "night_aborted"}

\* A night is open if it is the last its track started and no closing row of it follows.
RunInProgress ==
    \E i \in DOMAIN rows :
        /\ rows[i].kind = "night_start"
        /\ \A j \in i + 1 .. Len(rows) :
             rows[j].track = rows[i].track =>
                /\ rows[j].kind # "night_start"
                /\ ~(rows[j].kind \in ClosedKinds /\ rows[j].night = rows[i].night)
-----------------------------------------------------------------------------
(* apply, on the release channel.                                          *)

\* The timer asks with --if-due, the operator whenever it pleases them.
Scheduled == At("idle") /\ due /\ Go("check") /\ UNCHANGED <<disk, current, due, world, left>>
Asked     == At("idle") /\ Go("check") /\ UNCHANGED <<disk, current, due, world, left>>

\* The check is recorded before it is made, unless a night refuses it.
Check ==
    /\ At("check")
    /\ IF RunInProgress THEN Return /\ UNCHANGED due
       ELSE Go("ask") /\ due' = FALSE
    /\ UNCHANGED <<disk, current, world, left>>

Ask ==
    /\ At("ask")
    /\ IF current = published THEN Return
       ELSE call' = [call EXCEPT !.v = published, !.at = "download"]
    /\ UNCHANGED <<disk, current, due, world, left>>

\* The assets are fetched and their digests compared.
Download == At("download") /\ Go("clear") /\ UNCHANGED <<disk, current, due, world, left>>

\* No answer, no asset, a digest that differs: refused with nothing touched.
Refused ==
    /\ At("ask") \/ At("download")
    /\ Fault /\ Return
    /\ UNCHANGED <<disk, current, due, world>>

\* Mutant: the version is refused when its directory is there.
Clear_Refuses ==
    /\ At("clear")
    /\ IF dirs[call.v] = "nothing" THEN Touch(call.v, "part") /\ Go("install")
       ELSE Return /\ UNCHANGED disk
    /\ UNCHANGED <<current, due, world, left>>

\* What is there of the version goes, in pieces, before its directory is made.
Clear ==
    /\ At("clear")
    /\ \/ Tear(call.v) /\ UNCHANGED call
       \/ Drop(call.v) /\ UNCHANGED call
       \/ dirs[call.v] = "nothing" /\ Touch(call.v, "part") /\ Go("install")
    /\ UNCHANGED <<current, due, world, left>>

Install ==
    /\ At("install")
    /\ Touch(call.v, "installed") /\ Go("try")
    /\ UNCHANGED <<current, due, world, left>>

\* The new install starts, imports, and reads this workspace's ledger.
Try ==
    /\ At("try")
    /\ dirs' = [dirs EXCEPT ![call.v] = "tried"] /\ Go("switch")
    /\ UNCHANGED <<mtime, clock, current, due, world, left>>

Failed ==
    /\ At("install") \/ At("try")
    /\ Fault /\ Go("undo")
    /\ UNCHANGED <<disk, current, due, world>>

Undo ==
    /\ At("undo")
    /\ \/ Tear(call.v) /\ UNCHANGED call
       \/ Drop(call.v) /\ Return
    /\ UNCHANGED <<current, due, world, left>>

\* One rename of a link.
Switch ==
    /\ At("switch")
    /\ current' = call.v /\ Go("prune")
    /\ UNCHANGED <<disk, due, world, left>>

\* What prune_old_releases drops: the others but the `keep_previous` changed last.
Stale == {v \in Others : Cardinality({u \in Others : mtime[u] > mtime[v]}) >= keep}

Prune ==
    /\ At("prune")
    /\ call' = [call EXCEPT !.drop = Stale, !.at = "sweep"]
    /\ UNCHANGED <<disk, current, due, world, left>>

Sweep ==
    /\ At("sweep")
    /\ IF call.drop = {} THEN Return /\ UNCHANGED disk
       ELSE \E v \in call.drop :
              \/ Tear(v) /\ UNCHANGED call
              \/ Drop(v) /\ call' = [call EXCEPT !.drop = @ \ {v}]
    /\ UNCHANGED <<current, due, world, left>>
-----------------------------------------------------------------------------
(* rollback.                                                               *)

\* The other directory that changed last, if there is one.
Rollback ==
    /\ At("idle") /\ left.rollbacks > 0
    /\ left' = [left EXCEPT !.rollbacks = @ - 1]
    /\ \/ Others = {} /\ UNCHANGED call
       \/ \E v \in Others : /\ \A u \in Others : mtime[u] <= mtime[v]
                            /\ call' = [call EXCEPT !.v = v, !.at = "return"]
    /\ UNCHANGED <<disk, current, due, world>>

SwitchBack ==
    /\ At("return")
    /\ current' = call.v /\ Return
    /\ UNCHANGED <<disk, due, world, left>>
-----------------------------------------------------------------------------
Publish == /\ published < MaxVersion
           /\ published' = published + 1
           /\ UNCHANGED <<disk, current, due, call, rows, running, keep, left>>

Elapse == /\ ~due /\ due' = TRUE
          /\ UNCHANGED <<disk, current, call, world, left>>

\* The process that serves the call dies.
Crash == /\ ~At("idle") /\ left.crashes > 0
         /\ left' = [left EXCEPT !.crashes = @ - 1]
         /\ Return
         /\ UNCHANGED <<disk, current, due, world>>

Apply == \/ Check \/ Ask \/ Download \/ Clear \/ Install \/ Try
         \/ Undo \/ Switch \/ Prune \/ Sweep \/ SwitchBack

Next == \/ Scheduled \/ Asked \/ Rollback \/ Apply \/ Refused \/ Failed \/ Crash
        \/ Publish \/ Elapse
        \/ \E t \in Track : StartNight(t) \/ EndNight(t)

\* The timer fires every half hour; a call that runs comes to its end; a night does too.
Spec == /\ Init /\ [][Next]_vars
        /\ WF_vars(Apply) /\ WF_vars(Elapse) /\ WF_vars(Scheduled)
        /\ \A t \in Track : WF_vars(EndNight(t))
-----------------------------------------------------------------------------
(* Properties.                                                             *)

\* Every variable holds what the code can put there.
TypeOK ==
    /\ dirs \in [Version -> Holds] /\ mtime \in [Version -> Nat] /\ clock \in Nat
    /\ current \in Version \cup {None} /\ published \in Version
    /\ due \in BOOLEAN /\ running \subseteq Track /\ keep \in Nat
    /\ left \in [crashes : Nat, rollbacks : Nat, nights : Nat, faults : Nat]
    /\ call \in [at : Steps, v : Version \cup {None}, drop : SUBSET Version]

\* "`current` never points at a half-written directory", nor at one that was not tried out
\* or that a prune took apart: through updates, failures and, apart, crashes or rollbacks.
CurrentIsWhole == current # None => dirs[current] = "tried"

\* An install that no night ever kept busy ends up on the newest release and stays there,
\* whatever failed, crashed or was rolled back on the way.
CatchesUp == [](rows = <<>>) => <>[](current = published)

\* An update is refused "while a night is still open", no longer: once the nights are over
\* the newest release is installed.  This does not hold, for no night is ever seen to end
\* (ClosedKinds), and no run is kept for it.
UpdatesResume == <>[](running = {}) => []<>(current = published)
=============================================================================
