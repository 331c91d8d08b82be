--------------------------- MODULE ReleasesProofs ---------------------------
(***************************************************************************)
(* Proofs about Releases: its type invariant, and that `current` points at *)
(* a whole release when no install both crashes and is rolled back.        *)
(***************************************************************************)
EXTENDS Releases, TLAPS

\* The version a call works on is not the current one until it is switched to.
Aside ==
    call.at \in {"download", "clear", "install", "try", "undo", "switch", "return"} =>
        call.v \in Version /\ call.v # current

\* What the call has got to.
Reached ==
    /\ At("install") => dirs[call.v] = "part"
    /\ At("try")     => dirs[call.v] = "installed"
    /\ At("switch")  => dirs[call.v] = "tried"
    /\ At("return")  => dirs[call.v] = "tried"
    /\ At("sweep")   => current \notin call.drop

\* The versions the call may leave in pieces.
Open == (IF call.at \in {"clear", "install", "try", "undo"} THEN {call.v} ELSE {})
            \cup (IF At("sweep") THEN call.drop ELSE {})

\* Nothing is in pieces but what the call works on.
Tidy == \A u \in Version \ Open : dirs[u] \in {"nothing", "tried"}

\* Either no rollback is to come, or no crash ever came.
NeverBoth == \/ left.rollbacks = 0 /\ ~At("return")
             \/ left.crashes = 0 /\ Tidy

Inv == TypeOK /\ Aside /\ Reached /\ NeverBoth /\ CurrentIsWhole
-----------------------------------------------------------------------------
LEMMA TypeStep == TypeOK /\ [Next]_vars => TypeOK'
<1> SUFFICES ASSUME TypeOK, [Next]_vars PROVE TypeOK'
  OBVIOUS
<1> USE ReleaseConstants DEF TypeOK, disk, world, Steps, Holds, None, At, Go, Return, Idle
<1>1. CASE Scheduled \/ Asked \/ Download
  BY <1>1 DEF Scheduled, Asked, Download
<1>2. CASE Check
  <2>1. CASE RunInProgress
    BY <1>2, <2>1 DEF Check
  <2>2. CASE ~RunInProgress
    BY <1>2, <2>2 DEF Check
  <2> QED
    BY <2>1, <2>2
<1>3. CASE Ask
  <2>1. call' \in [at : Steps, v : Version \cup {None}, drop : SUBSET Version]
    <3>1. CASE current = published
      BY <1>3, <3>1 DEF Ask
    <3>2. CASE current # published
      <4>1. call' = [call EXCEPT !.v = published, !.at = "download"]
        BY <1>3, <3>2 DEF Ask
      <4> QED
        BY <4>1
    <3> QED
      BY <3>1, <3>2
  <2> QED
    BY <1>3, <2>1 DEF Ask
<1>4. CASE Clear \/ Undo
  BY <1>4 DEF Clear, Undo, Tear, Drop, Touch
<1>5. CASE Install \/ Try
  BY <1>5 DEF Install, Try, Touch
<1>6. CASE Refused \/ Failed
  <2>1. left' \in [crashes : Nat, rollbacks : Nat, nights : Nat, faults : Nat]
    BY <1>6 DEF Refused, Failed, Fault
  <2> QED
    BY <1>6, <2>1 DEF Refused, Failed
<1>7. CASE Switch \/ SwitchBack
  BY <1>7 DEF Switch, SwitchBack
<1>8. CASE Prune
  <2>1. Stale \subseteq Version
    BY DEF Stale, Others
  <2> QED
    BY <1>8, <2>1 DEF Prune
<1>9. CASE Sweep
  BY <1>9 DEF Sweep, Tear, Drop, Touch
<1>10. CASE Rollback
  <2>1. left' \in [crashes : Nat, rollbacks : Nat, nights : Nat, faults : Nat]
    <3>1. left.rollbacks > 0 /\ left' = [left EXCEPT !.rollbacks = left.rollbacks - 1]
      BY <1>10 DEF Rollback
    <3> QED
      BY <3>1
  <2>2. call' \in [at : Steps, v : Version \cup {None}, drop : SUBSET Version]
    BY <1>10 DEF Rollback, Others
  <2> QED
    BY <1>10, <2>1, <2>2 DEF Rollback
<1>11. CASE Publish
  <2>1. published' \in Version
    BY <1>11 DEF Publish, Version
  <2> QED
    BY <1>11, <2>1 DEF Publish
<1>12. CASE Elapse
  BY <1>12 DEF Elapse
<1>13. CASE Crash
  <2>1. left' \in [crashes : Nat, rollbacks : Nat, nights : Nat, faults : Nat]
    BY <1>13 DEF Crash
  <2> QED
    BY <1>13, <2>1 DEF Crash
<1>14. CASE \E t \in Track : StartNight(t) \/ EndNight(t)
  BY <1>14 DEF StartNight, EndNight
<1>15. CASE UNCHANGED vars
  BY <1>15 DEF vars
<1> QED
  BY <1>1, <1>2, <1>3, <1>4, <1>5, <1>6, <1>7, <1>8, <1>9, <1>10, <1>11, <1>12, <1>13,
     <1>14, <1>15 DEF Next, Apply

\* Every variable of the updater holds what the code can put there, whatever the bounds.
THEOREM ReleasesTypeCorrect == Spec => []TypeOK
<1>1. Init => TypeOK
  BY ReleaseConstants DEF Init, TypeOK, Idle, Steps, Holds, Version, None
<1> QED
  BY <1>1, TypeStep, PTL DEF Spec
-----------------------------------------------------------------------------
LEMMA InvStart == (\A s \in Setups : s.crashes = 0 \/ s.rollbacks = 0) /\ Init => Inv
  BY ReleaseConstants DEF Init, Inv, TypeOK, Aside, Reached, NeverBoth, CurrentIsWhole, Tidy, At,
                          Idle, Steps, Holds, Version, None

\* A step of the call, or of anything else, keeps the invariant.
LEMMA InvStep == Inv /\ [Next]_vars => Inv'
<1> SUFFICES ASSUME Inv, [Next]_vars PROVE Aside' /\ Reached' /\ NeverBoth' /\ CurrentIsWhole'
  BY TypeStep DEF Inv
<1> USE DEF Inv, TypeOK, Aside, Reached, NeverBoth, CurrentIsWhole, Tidy, Open,
            disk, world, At, Go, Return, Idle, None, Steps, Holds
<1>1. CASE Scheduled \/ Asked \/ Check \/ Download \/ Refused
  BY <1>1 DEF Scheduled, Asked, Check, Download, Refused, Fault
<1>2. CASE Ask
  <2>1. CASE current = published
    BY <1>2, <2>1 DEF Ask
  <2>2. CASE current # published
    <3>1. call' = [call EXCEPT !.v = published, !.at = "download"]
      BY <1>2, <2>2 DEF Ask
    <3>2. call'.at = "download" /\ call'.v = published /\ Open = {} /\ Open' = {}
      BY <1>2, <3>1 DEF Ask
    <3>3. UNCHANGED <<dirs, mtime, clock, current, left>>
      BY <1>2 DEF Ask
    <3> QED
      BY <2>2, <3>2, <3>3
  <2> QED
    BY <2>1, <2>2
<1>3. CASE Clear
  BY <1>3 DEF Clear, Tear, Drop, Touch
<1>4. CASE Undo
  BY <1>4 DEF Undo, Tear, Drop, Touch
<1>5. CASE Install \/ Try
  BY <1>5 DEF Install, Try, Touch
<1>6. CASE Failed
  BY <1>6 DEF Failed, Fault
<1>7. CASE Switch
  BY <1>7 DEF Switch
<1>8. CASE SwitchBack
  BY <1>8 DEF SwitchBack
<1>9. CASE Prune
  BY <1>9 DEF Prune, Stale, Others
<1>10. CASE Sweep
  BY <1>10 DEF Sweep, Tear, Drop, Touch
<1>11. CASE Rollback
  <2>1. left.rollbacks > 0 /\ left.crashes = 0 /\ Tidy /\ At("idle")
    <3>1. left.rollbacks > 0 /\ At("idle")
      BY <1>11 DEF Rollback
    <3>2. left.rollbacks # 0
      BY <3>1
    <3> QED
      BY <3>1, <3>2
  <2>2. left'.crashes = 0
    <3>1. left' = [left EXCEPT !.rollbacks = left.rollbacks - 1]
      BY <1>11 DEF Rollback
    <3> QED
      BY <2>1, <3>1
  <2>3. UNCHANGED <<dirs, mtime, clock, current>>
    BY <1>11 DEF Rollback
  <2>4. CASE UNCHANGED call
    BY <2>1, <2>2, <2>3, <2>4
  <2>5. ASSUME NEW v \in Others, call' = [call EXCEPT !.v = v, !.at = "return"]
        PROVE  Aside' /\ Reached' /\ NeverBoth' /\ CurrentIsWhole'
    <3>1. call'.at = "return" /\ call'.v = v /\ Open = {} /\ Open' = {}
      BY <2>1, <2>5
    <3>2. v \in Version /\ v # current /\ dirs[v] = "tried"
      BY <2>1, <3>1 DEF Others
    <3> QED
      BY <2>1, <2>2, <2>3, <3>1, <3>2
  <2> QED
    BY <1>11, <2>4, <2>5 DEF Rollback
<1>12. CASE Publish \/ Elapse
  BY <1>12 DEF Publish, Elapse
<1>13. CASE Crash
  BY <1>13 DEF Crash
<1>14. CASE \E t \in Track : StartNight(t) \/ EndNight(t)
  BY <1>14 DEF StartNight, EndNight
<1>15. CASE UNCHANGED vars
  BY <1>15 DEF vars
<1> QED
  BY <1>1, <1>2, <1>3, <1>4, <1>5, <1>6, <1>7, <1>8, <1>9, <1>10, <1>11, <1>12, <1>13,
     <1>14, <1>15 DEF Next, Apply

\* "`current` never points at a half-written directory", nor at one never tried out, through
\* any number of releases, failures and nights, and of crashes or of rollbacks.
THEOREM ReleasesCurrentIsWhole ==
    ASSUME \A s \in Setups : s.crashes = 0 \/ s.rollbacks = 0
    PROVE  Spec => []CurrentIsWhole
<1>1. Init => Inv
  BY InvStart
<1>2. Inv => CurrentIsWhole
  BY DEF Inv
<1> QED
  BY <1>1, <1>2, InvStep, PTL DEF Spec
=============================================================================
