----------------------------- MODULE NightProofs -----------------------------
(***************************************************************************)
(* Theorems about Night for every number of candidates, launches and       *)
(* rounds: what the fold of replay() finds, row by row, in any ledger; the *)
(* types; what a step adds to the ledger; and from these what becomes of a *)
(* candidate, what a night spends, and which incumbent it pairs against.   *)
(***************************************************************************)
EXTENDS Night, SequenceTheorems, FiniteSetTheorems, WellFoundedInduction, TLAPS

USE EvidenceConstants, NightConstants

-----------------------------------------------------------------------------
(* Induction over the rows of a ledger.  The library's induction theorems  *)
(* take a predicate, which no prover here can instantiate; the minimal     *)
(* element of a set of naturals gives the same for a set.                  *)

Less == {p \in Nat \X Nat : p[1] < p[2]}

LEMMA LessWellFounded == IsWellFoundedOn(Less, Nat)
BY NatLessThanWellFounded DEF OpToRel, Less

LEMMA UpTo ==
    ASSUME NEW n \in Nat, NEW S, 0 \in S, \A k \in 0 .. n - 1 : k \in S => k + 1 \in S
    PROVE  n \in S
<1> DEFINE T == (0 .. n) \ S
<1>1. SUFFICES ASSUME n \notin S PROVE FALSE
  OBVIOUS
<1>2. PICK x \in T : \A y \in T : ~(<<y, x>> \in Less)
  <2>1. T \subseteq Nat /\ T # {}
    BY <1>1
  <2> HIDE DEF T
  <2> QED
    BY <2>1, LessWellFounded, WFMin
<1>3. x \in 1 .. n
  BY <1>2
<1>4. x - 1 \in T
  BY <1>2, <1>3
<1>5. <<x - 1, x>> \in Less
  BY <1>3 DEF Less
<1> QED
  BY <1>2, <1>4, <1>5

\* A set of row numbers that is not empty has a last one.
LEMMA LastRow ==
    ASSUME NEW n \in Nat, NEW S \in SUBSET (1 .. n), S # {}
    PROVE  Max(S) \in S /\ \A i \in S : Max(S) >= i
<1> DEFINE Held == {k \in 0 .. n : (\E i \in S : i <= k) => \E m \in S : \A i \in S : i <= k => m >= i}
<1>1. 0 \in Held
  OBVIOUS
<1>2. ASSUME NEW k \in 0 .. n - 1, k \in Held PROVE k + 1 \in Held
  <2>0. k + 1 \in 0 .. n /\ \A i \in S : i \in Nat
    OBVIOUS
  <2>1. CASE k + 1 \in S
    <3>1. \A i \in S : i <= k + 1 => k + 1 >= i
      OBVIOUS
    <3> QED
      BY <2>0, <2>1, <3>1
  <2>2. CASE k + 1 \notin S
    <3>1. \A i \in S : i <= k + 1 => i <= k
      BY <2>0, <2>2
    <3>2. SUFFICES ASSUME NEW j \in S, j <= k + 1
                   PROVE  \E m \in S : \A i \in S : i <= k + 1 => m >= i
      BY <2>0
    <3>3. PICK m \in S : \A i \in S : i <= k => m >= i
      BY <1>2, <3>1, <3>2
    <3> QED
      BY <3>1, <3>3
  <2> QED
    BY <2>1, <2>2
<1> HIDE DEF Held
<1>3. \A k \in 0 .. n - 1 : k \in Held => k + 1 \in Held
  BY <1>2
<1>4. n \in Held
  BY <1>1, <1>3, UpTo, Zenon
<1>5. \A i \in S : i <= n
  OBVIOUS
<1>6. PICK m \in S : \A i \in S : m >= i
  BY <1>4, <1>5 DEF Held
<1> QED
  BY <1>6, Zenon DEF Max

-----------------------------------------------------------------------------
(* The loop of replay().                                                   *)

Blank == [c \in Models |-> Unseen]

\* One turn of the loop.
Turn(l, st, n) == IF Counts(l, l[n]) THEN Apply(st, l[n]) ELSE st

Loops(l, m, f) == f = [n \in 0 .. m |-> IF n = 0 THEN Blank ELSE Turn(l, f[n - 1], n)]

LEMMA LoopRuns == ASSUME NEW l, NEW m \in Nat PROVE \E f : Loops(l, m, f)
<1> DEFINE S == {k \in 0 .. m : \E f : Loops(l, k, f)}
<1>1. 0 \in S
  <2> DEFINE f == [n \in 0 .. 0 |-> Blank]
  <2>1. f = [n \in 0 .. 0 |-> IF n = 0 THEN Blank ELSE Turn(l, f[n - 1], n)]
    OBVIOUS
  <2> HIDE DEF f
  <2>2. Loops(l, 0, f)
    BY <2>1 DEF Loops
  <2> QED
    BY <2>2
<1>2. ASSUME NEW k \in 0 .. m - 1, k \in S PROVE k + 1 \in S
  <2>1. PICK f : Loops(l, k, f)
    BY <1>2
  <2> DEFINE G(n) == IF n = k + 1 THEN Turn(l, f[k], k + 1) ELSE f[n]
             g == [n \in 0 .. k + 1 |-> G(n)]
             F(n, h) == IF n = 0 THEN Blank ELSE Turn(l, h[n - 1], n)
  <2>2. \A n \in 0 .. k : f[n] = F(n, f)
    BY <2>1 DEF Loops
  <2>3. ASSUME NEW n \in 0 .. k + 1 PROVE g[n] = F(n, g)
    <3>1. CASE n = k + 1
      BY <3>1
    <3>2. CASE n # k + 1
      <4>1. g[n] = f[n] /\ n \in 0 .. k
        BY <3>2
      <4>2. n # 0 => g[n - 1] = f[n - 1]
        BY <3>2
      <4>3. F(n, g) = F(n, f)
        BY <4>2
      <4> QED
        BY <4>1, <4>3, <2>2
    <3> QED
      BY <3>1, <3>2
  <2>4. g = [n \in 0 .. k + 1 |-> F(n, g)]
    BY <2>3
  <2>5. Loops(l, k + 1, g)
    BY <2>4 DEF Loops
  <2> QED
    BY <2>5, k + 1 \in 0 .. m
<1> HIDE DEF S
<1>3. \A k \in 0 .. m - 1 : k \in S => k + 1 \in S
  BY <1>2
<1>4. m \in S
  BY <1>1, <1>3, UpTo, Zenon
<1> QED
  BY <1>4 DEF S

\* The views of the loop, turn by turn.
LEMMA ViewsAre ==
    ASSUME NEW l, Len(l) \in Nat
    PROVE  /\ Views(l)[0] = Blank
           /\ \A n \in 1 .. Len(l) : Views(l)[n] = Turn(l, Views(l)[n - 1], n)
<1> DEFINE v == CHOOSE f : f = [n \in 0 .. Len(l) |->
                                  IF n = 0 THEN [c \in Models |-> Unseen]
                                  ELSE IF Counts(l, l[n]) THEN Apply(f[n - 1], l[n]) ELSE f[n - 1]]
           g == CHOOSE f : Loops(l, Len(l), f)
<1>1. Views(l) = v
  BY DEF Views
<1>2. v = g
  BY DEF Loops, Turn, Blank
<1>3. Loops(l, Len(l), g)
  BY LoopRuns
<1> HIDE DEF v, g
<1>4. g = [n \in 0 .. Len(l) |-> IF n = 0 THEN Blank ELSE Turn(l, g[n - 1], n)]
  BY <1>3 DEF Loops
<1> QED
  BY <1>1, <1>2, <1>4

-----------------------------------------------------------------------------
(* What the loop leaves in a candidate's view, in terms of the rows read.  *)

Dead == {"prune", "skip", "audit_high"}

\* One of the first n rows is a row of this kind about c, and counts.
Has(l, n, kind, c) == \E j \in 1 .. n : l[j].kind = kind /\ l[j].cid = c /\ Counts(l, l[j])

\* Every row is about a candidate proposed before it.
Named(l) == \A i \in 1 .. Len(l) : \E j \in 1 .. i : l[j].kind = "propose" /\ l[j].cid = l[i].cid

IsLedger(l) == l \in Seq(Row) /\ (\A i \in 1 .. Len(l) : l[i].seq = i) /\ Named(l)

LEMMA RowTyped ==
    ASSUME NEW l \in Seq(Row), NEW n \in 1 .. Len(l)
    PROVE  l[n] \in Row
BY ElementOfSeq

LEMMA ObservedTyped == ASSUME NEW v \in View, NEW r \in Row PROVE Observed(v, r) \in View
<1>1. Parent(r) \in {NoHash} \cup Candidates
  BY DEF Parent, Row, Models
<1>2. v.xs \in Seq(Models) /\ r.vs \in Models /\ <<>> \in Seq(Models)
  BY DEF View, Row
<1>3. Append(v.xs, r.vs) \in Seq(Models) /\ Append(<<>>, r.vs) \in Seq(Models)
  BY <1>2, AppendProperties
<1>4. r.boundary \in {"none", "continue"} \cup Decided /\ v.nObs + 1 \in Nat
  BY DEF Row, View
<1> DEFINE xs == Append(IF Parent(r) # NoHash /\ v.incumbent # NoHash /\ Parent(r) # v.incumbent
                        THEN <<>> ELSE v.xs, r.vs)
           inc == IF Parent(r) # NoHash THEN Parent(r) ELSE v.incumbent
<1>5. xs \in Seq(Models)
  BY <1>3
<1>6. inc \in {NoHash} \cup Candidates
  BY <1>1 DEF View
<1>7. Observed(v, r) = [v EXCEPT !.xs = xs, !.nObs = v.nObs + 1, !.boundary = r.boundary, !.incumbent = inc]
  BY DEF Observed
<1> HIDE DEF xs, inc
<1> QED
  BY <1>4, <1>5, <1>6, <1>7 DEF View

LEMMA ObservedFields ==
    ASSUME NEW v \in View, NEW r \in Row
    PROVE  LET w == Observed(v, r)
           IN  /\ w.proposed = v.proposed /\ w.promoted = v.promoted /\ w.pruned = v.pruned
               /\ w.high = v.high /\ w.skipped = v.skipped
               /\ w.nObs = v.nObs + 1 /\ w.boundary = r.boundary
BY DEF Observed, View

LEMMA ApplyTyped == ASSUME NEW v \in View, NEW r \in Row PROVE ApplyTo(v, r) \in View
<1>1. CASE r.kind = "observe"
  <2>1. ApplyTo(v, r) = Observed(v, r)
    BY <1>1 DEF ApplyTo
  <2> QED
    BY <2>1, ObservedTyped
<1>2. CASE r.kind # "observe"
  BY <1>2 DEF ApplyTo, View
<1> QED
  BY <1>1, <1>2

LEMMA ApplyFields ==
    ASSUME NEW v \in View, NEW r \in Row
    PROVE  LET w == ApplyTo(v, r)
           IN  /\ w.proposed <=> v.proposed \/ r.kind = "propose"
               /\ w.promoted <=> v.promoted \/ r.kind = "promote"
               /\ w.pruned <=> v.pruned \/ r.kind = "prune"
               /\ w.high <=> v.high \/ r.kind = "audit_high"
               /\ w.skipped <=> v.skipped \/ r.kind = "skip"
               /\ w.nObs = IF r.kind = "observe" THEN v.nObs + 1 ELSE v.nObs
               /\ w.boundary = IF r.kind = "observe" THEN r.boundary
                               ELSE IF r.kind = "select" THEN "none" ELSE v.boundary
<1>1. CASE r.kind = "observe"
  <2>1. ApplyTo(v, r) = Observed(v, r)
    BY <1>1 DEF ApplyTo
  <2> QED
    BY <1>1, <2>1, ObservedFields
<1>2. CASE r.kind # "observe"
  BY <1>2 DEF ApplyTo, View
<1> QED
  BY <1>1, <1>2

LEMMA ApplyIs ==
    ASSUME NEW st \in [Models -> View], NEW r \in Row
    PROVE  /\ Apply(st, r) \in [Models -> View]
           /\ \A c \in Models :
                Apply(st, r)[c] = IF r.cid = c /\ (st[c].proposed \/ r.kind = "propose") THEN ApplyTo(st[c], r)
                                  ELSE st[c]
<1>1. r.cid \in Models /\ st[r.cid] \in View
  BY DEF Row
<1>2. ApplyTo(st[r.cid], r) \in View
  BY <1>1, ApplyTyped
<1> QED
  BY <1>1, <1>2 DEF Apply

LEMMA ViewsTyped ==
    ASSUME NEW l \in Seq(Row), NEW n \in 0 .. Len(l)
    PROVE  Views(l)[n] \in [Models -> View]
<1>0. Len(l) \in Nat /\ n \in Nat
  BY LenProperties
<1> DEFINE S == {k \in 0 .. n : Views(l)[k] \in [Models -> View]}
<1>1. 0 \in S
  <2>1. Unseen \in View
    BY EmptySeq DEF Unseen, View
  <2>2. Blank \in [Models -> View]
    BY <2>1 DEF Blank
  <2> QED
    BY <1>0, <2>2, ViewsAre
<1>2. ASSUME NEW k \in 0 .. n - 1, k \in S PROVE k + 1 \in S
  <2>1. k + 1 \in 1 .. Len(l) /\ k + 1 \in 0 .. n /\ (k + 1) - 1 = k
    BY <1>0
  <2>2. Views(l)[k + 1] = Turn(l, Views(l)[k], k + 1)
    BY <1>0, <2>1, ViewsAre
  <2>3. l[k + 1] \in Row /\ Views(l)[k] \in [Models -> View]
    BY <1>2, <2>1, RowTyped
  <2>4. Apply(Views(l)[k], l[k + 1]) \in [Models -> View]
    BY <2>3, ApplyIs
  <2> QED
    BY <2>1, <2>2, <2>3, <2>4 DEF Turn
<1> HIDE DEF S
<1>3. \A k \in 0 .. n - 1 : k \in S => k + 1 \in S
  BY <1>2
<1>4. n \in S
  BY <1>0, <1>1, <1>3, UpTo, Zenon
<1> QED
  BY <1>4 DEF S

\* What one row does to the view of c.
LEMMA ViewTurn ==
    ASSUME NEW l \in Seq(Row), NEW n \in 0 .. Len(l) - 1, NEW c \in Models
    PROVE  LET v == Views(l)[n][c]
               r == l[n + 1]
           IN  /\ v \in View /\ r \in Row
               /\ Views(l)[n + 1][c] = IF r.cid = c /\ Counts(l, r) /\ (v.proposed \/ r.kind = "propose")
                                       THEN ApplyTo(v, r) ELSE v
<1>0. Len(l) \in Nat
  BY LenProperties
<1>1. n + 1 \in 1 .. Len(l) /\ n \in 0 .. Len(l) /\ (n + 1) - 1 = n
  BY <1>0
<1>2. Views(l)[n + 1] = Turn(l, Views(l)[n], n + 1)
  BY <1>0, <1>1, ViewsAre
<1>3. Views(l)[n] \in [Models -> View] /\ l[n + 1] \in Row
  BY <1>1, RowTyped, ViewsTyped
<1>4. Apply(Views(l)[n], l[n + 1])[c] =
        IF l[n + 1].cid = c /\ (Views(l)[n][c].proposed \/ l[n + 1].kind = "propose")
        THEN ApplyTo(Views(l)[n][c], l[n + 1]) ELSE Views(l)[n][c]
  BY <1>3, ApplyIs
<1> QED
  BY <1>2, <1>3, <1>4 DEF Turn

LEMMA Blanks == ASSUME NEW l \in Seq(Row), NEW c \in Models PROVE Views(l)[0][c] = Unseen
BY ViewsAre, LenProperties DEF Blank

LEMMA ViewProposed ==
    ASSUME NEW l \in Seq(Row), NEW n \in 0 .. Len(l), NEW c \in Models
    PROVE  Views(l)[n][c].proposed <=> Has(l, n, "propose", c)
<1>0. Len(l) \in Nat /\ n \in Nat
  BY LenProperties
<1> DEFINE S == {k \in 0 .. n : Views(l)[k][c].proposed <=> Has(l, k, "propose", c)}
<1>1. 0 \in S
  BY <1>0, Blanks DEF Unseen, Has
<1>2. ASSUME NEW k \in 0 .. n - 1, k \in S PROVE k + 1 \in S
  <2>1. k \in 0 .. Len(l) - 1 /\ k + 1 \in 0 .. n
    BY <1>0
  <2> DEFINE v == Views(l)[k][c]
             w == Views(l)[k + 1][c]
             r == l[k + 1]
  <2>2. /\ v \in View /\ r \in Row
        /\ w = IF r.cid = c /\ Counts(l, r) /\ (v.proposed \/ r.kind = "propose") THEN ApplyTo(v, r) ELSE v
    BY <2>1, ViewTurn
  <2>3. ApplyTo(v, r).proposed <=> v.proposed \/ r.kind = "propose"
    BY <2>2, ApplyFields
  <2>4. v.proposed <=> Has(l, k, "propose", c)
    BY <1>2
  <2>5. Has(l, k + 1, "propose", c) <=>
            Has(l, k, "propose", c) \/ (r.kind = "propose" /\ r.cid = c /\ Counts(l, r))
    <3>1. \A j \in Nat : j \in 1 .. k + 1 <=> j \in 1 .. k \/ j = k + 1
      BY <2>1
    <3> QED
      BY <3>1 DEF Has
  <2> HIDE DEF v, w, r
  <2>6. w.proposed <=> Has(l, k + 1, "propose", c)
    BY <2>2, <2>3, <2>4, <2>5
  <2> QED
    BY <2>1, <2>6 DEF w
<1> HIDE DEF S
<1>3. \A k \in 0 .. n - 1 : k \in S => k + 1 \in S
  BY <1>2
<1>4. n \in S
  BY <1>0, <1>1, <1>3, UpTo, Zenon
<1> QED
  BY <1>4 DEF S

\* A row that is read reaches the view it is about: its candidate was proposed before.
LEMMA ViewReads ==
    ASSUME NEW l, IsLedger(l), NEW n \in 0 .. Len(l) - 1, NEW c \in Models
    PROVE  LET v == Views(l)[n][c]
               r == l[n + 1]
           IN  /\ v \in View /\ r \in Row
               /\ Views(l)[n + 1][c] = IF r.cid = c /\ Counts(l, r) THEN ApplyTo(v, r) ELSE v
<1>0. Len(l) \in Nat /\ l \in Seq(Row)
  BY LenProperties DEF IsLedger
<1> DEFINE v == Views(l)[n][c]
           r == l[n + 1]
<1>1. /\ v \in View /\ r \in Row
      /\ Views(l)[n + 1][c] = IF r.cid = c /\ Counts(l, r) /\ (v.proposed \/ r.kind = "propose")
                              THEN ApplyTo(v, r) ELSE v
  BY <1>0, ViewTurn
<1>2. ASSUME r.cid = c, r.kind # "propose" PROVE v.proposed
  <2>1. n + 1 \in 1 .. Len(l) /\ n \in 0 .. Len(l)
    BY <1>0
  <2>2. PICK j \in 1 .. n + 1 : l[j].kind = "propose" /\ l[j].cid = c
    BY <1>2, <2>1 DEF IsLedger, Named
  <2>3. j \in 1 .. n
    BY <1>2, <2>2, <2>1
  <2>4. Counts(l, l[j])
    BY <2>2 DEF Counts
  <2>5. Has(l, n, "propose", c)
    BY <2>2, <2>3, <2>4 DEF Has
  <2> QED
    BY <1>0, <2>1, <2>5, ViewProposed
<1> QED
  BY <1>1, <1>2

\* The flags of a view are the rows of their kinds that count.
Flags(l, n, c) ==
    LET v == Views(l)[n][c]
    IN  /\ v.promoted <=> Has(l, n, "promote", c)
        /\ v.pruned <=> Has(l, n, "prune", c)
        /\ v.high <=> Has(l, n, "audit_high", c)
        /\ v.skipped <=> Has(l, n, "skip", c)

LEMMA HasNext ==
    ASSUME NEW l, NEW k \in Nat, NEW kind, NEW c
    PROVE  Has(l, k + 1, kind, c) <=>
               Has(l, k, kind, c) \/ (l[k + 1].kind = kind /\ l[k + 1].cid = c /\ Counts(l, l[k + 1]))
<1>1. \A j \in Nat : j \in 1 .. k + 1 <=> j \in 1 .. k \/ j = k + 1
  OBVIOUS
<1> QED
  BY <1>1 DEF Has

LEMMA ViewFlags ==
    ASSUME NEW l, IsLedger(l), NEW n \in 0 .. Len(l), NEW c \in Models
    PROVE  Flags(l, n, c)
<1>0. Len(l) \in Nat /\ n \in Nat /\ l \in Seq(Row)
  BY LenProperties DEF IsLedger
<1> DEFINE S == {k \in 0 .. n : Flags(l, k, c)}
<1>1. 0 \in S
  BY <1>0, Blanks DEF Unseen, Has, Flags
<1>2. ASSUME NEW k \in 0 .. n - 1, k \in S PROVE k + 1 \in S
  <2>1. k \in 0 .. Len(l) - 1 /\ k + 1 \in 0 .. n /\ k \in Nat
    BY <1>0
  <2> DEFINE v == Views(l)[k][c]
             w == Views(l)[k + 1][c]
             r == l[k + 1]
  <2>2. /\ v \in View /\ r \in Row
        /\ w = IF r.cid = c /\ Counts(l, r) THEN ApplyTo(v, r) ELSE v
    BY <2>1, ViewReads
  <2>3. /\ ApplyTo(v, r).promoted <=> v.promoted \/ r.kind = "promote"
        /\ ApplyTo(v, r).pruned <=> v.pruned \/ r.kind = "prune"
        /\ ApplyTo(v, r).high <=> v.high \/ r.kind = "audit_high"
        /\ ApplyTo(v, r).skipped <=> v.skipped \/ r.kind = "skip"
    BY <2>2, ApplyFields
  <2>4. Flags(l, k, c)
    BY <1>2
  <2>5. \A kind : Has(l, k + 1, kind, c) <=>
                      Has(l, k, kind, c) \/ (r.kind = kind /\ r.cid = c /\ Counts(l, r))
    BY <2>1, HasNext
  <2>6. Flags(l, k + 1, c)
    BY <2>2, <2>3, <2>4, <2>5 DEF Flags
  <2> QED
    BY <2>1, <2>6
<1> HIDE DEF S
<1>3. \A k \in 0 .. n - 1 : k \in S => k + 1 \in S
  BY <1>2
<1>4. n \in S
  BY <1>0, <1>1, <1>3, UpTo, Zenon
<1> QED
  BY <1>4 DEF S

\* Who is live was proposed, holds no promotion that stands and no row that ends it.
LEMMA LiveIsFresh ==
    ASSUME NEW l, IsLedger(l), NEW inc, NEW c \in Live(Replay(l), inc)
    PROVE  /\ c \in Candidates
           /\ Has(l, Len(l), "propose", c)
           /\ \A i \in 1 .. Len(l) : l[i].cid = c =>
                /\ l[i].kind \notin Dead
                /\ l[i].kind = "promote" => ~Counts(l, l[i])
<1>0. Len(l) \in Nat /\ l \in Seq(Row) /\ Len(l) \in 0 .. Len(l)
  BY LenProperties DEF IsLedger
<1> DEFINE v == Views(l)[Len(l)][c]
<1>1. /\ c \in Candidates /\ c \in Models
      /\ v.proposed /\ ~v.pruned /\ ~v.promoted /\ ~v.high /\ ~v.skipped
  BY DEF Live, Replay, Models
<1>2. Flags(l, Len(l), c)
  BY <1>0, <1>1, ViewFlags
<1>3. \A kind \in Dead \cup {"promote"} : ~Has(l, Len(l), kind, c)
  BY <1>1, <1>2 DEF Flags, Dead
<1>4. Has(l, Len(l), "propose", c)
  BY <1>0, <1>1, ViewProposed
<1>5. ASSUME NEW i \in 1 .. Len(l), l[i].cid = c
      PROVE  /\ l[i].kind \notin Dead
             /\ l[i].kind = "promote" => ~Counts(l, l[i])
  <2>1. l[i].kind \in Dead => Counts(l, l[i])
    BY DEF Dead, Counts
  <2> QED
    BY <1>3, <1>5, <2>1 DEF Has
<1> QED
  BY <1>1, <1>4, <1>5

-----------------------------------------------------------------------------
(* What deliberate() chooses: an order of live candidates, or nothing.      *)

Once(order) == \A i, j \in DOMAIN order : order[i] = order[j] => i = j

LEMMA OrdersAreSequences ==
    ASSUME NEW pool, IsFiniteSet(pool),
           NEW order \in IF Cardinality(pool) = 1 THEN {SetToSeq(pool)}
                         ELSE UNION {SetToSeqs(S) : S \in SUBSET pool}
    PROVE  order \in Seq(pool) /\ Once(order)
<1>1. CASE Cardinality(pool) = 1
  <2>1. PICK x : pool = {x}
    BY <1>1, FS_Singleton
  <2> DEFINE F == {f \in [1 .. 1 -> pool] : IsInjective(f)}
  <2>2. [i \in 1 .. 1 |-> x] \in F
    BY <2>1 DEF IsInjective
  <2>3. order \in F
    BY <1>1, <2>2, Zenon DEF SetToSeq
  <2>4. order \in [1 .. 1 -> pool] /\ IsInjective(order)
    BY <2>3
  <2>5. order \in Seq(pool)
    <3>1. \A n \in Nat : [1 .. n -> pool] \subseteq Seq(pool)
      OBVIOUS
    <3> QED
      BY <2>4, <3>1, Zenon
  <2>6. Once(order)
    BY <2>4, Zenon DEF Once, IsInjective
  <2> QED
    BY <2>5, <2>6
<1>2. CASE Cardinality(pool) # 1
  <2>1. PICK S \in SUBSET pool : order \in SetToSeqs(S)
    BY <1>2
  <2>2. /\ order \in [1 .. Cardinality(S) -> S] /\ Cardinality(S) \in Nat
        /\ \A i, j \in 1 .. Cardinality(S) : i # j => order[i] # order[j]
    BY <2>1, FS_Subset, FS_CardinalityType DEF SetToSeqs
  <2>3. order \in Seq(S)
    BY <2>2
  <2>4. order \in Seq(pool)
    BY <2>3, SeqMonotonic
  <2> QED
    BY <2>2, <2>4 DEF Once
<1> QED
  BY <1>1, <1>2

LEMMA LiveFinite == ASSUME NEW st, NEW inc PROVE IsFiniteSet(Live(st, inc))
<1>1. Live(st, inc) \in SUBSET Candidates
  BY DEF Live
<1> QED
  BY <1>1, FS_Subset, EvidenceConstants

\* What deliberate() decides: an order whose select rows are next, or nothing.
LEMMA DeliberateStep ==
    ASSUME Deliberate
    PROVE  /\ ledger' = ledger
           /\ \/ \E order \in Seq(Live(Replay(ledger), ctx.inc)) :
                   /\ Once(order)
                   /\ ctx' = [ctx EXCEPT !.round = @ + 1, !.order = order]
                   /\ pc' = IF order = <<>> THEN "close" ELSE "select"
              \/ ctx' = Idle /\ pc' = "off"
<1> DEFINE pool == Live(Replay(ledger), ctx.inc)
           orders == IF Cardinality(pool) = 1 THEN {SetToSeq(pool)}
                     ELSE UNION {SetToSeqs(S) : S \in SUBSET pool}
<1>0. ledger' = ledger
  BY DEF Deliberate
<1>1. CASE \E order \in orders :
            /\ ctx' = [ctx EXCEPT !.round = @ + 1, !.order = order]
            /\ Goto(IF order = <<>> THEN "close" ELSE "select")
  <2>1. \A order \in orders : order \in Seq(pool) /\ Once(order)
    BY LiveFinite, OrdersAreSequences
  <2> HIDE DEF orders
  <2>2. PICK order \in orders :
            /\ ctx' = [ctx EXCEPT !.round = @ + 1, !.order = order]
            /\ Goto(IF order = <<>> THEN "close" ELSE "select")
    BY <1>1, Zenon
  <2>3. pc' = IF order = <<>> THEN "close" ELSE "select"
    BY <2>2, Zenon DEF Goto
  <2> QED
    BY <1>0, <2>1, <2>2, <2>3, Zenon
<1>2. CASE ctx' = Idle /\ Goto("off")
  BY <1>0, <1>2 DEF Goto
<1> QED
  BY <1>1, <1>2, Zenon DEF Deliberate

-----------------------------------------------------------------------------
(* Types.  A step that works on Current finds an order that is not empty.  *)

Context == [night : Nat, inc : Models, predictions : SUBSET Candidates, spent : Nat,
            accepted : Seq(Candidates), lines : SUBSET Candidates, recipes : SUBSET Candidates,
            round : 0 .. MaxRounds, order : Seq(Candidates), selected : Nat, xs : Seq(Models), seed : Nat, anchored : BOOLEAN]

\* The steps at which a candidate of the order is at hand.
AtHand == Steps \ {"off", "propose", "predict", "round", "take", "close"}

LedgerTyped == ledger \in Seq(Row) /\ \A i \in DOMAIN ledger : ledger[i].seq = i

Placed == TypeOK /\ (pc \in AtHand => ctx.order # <<>>)

\* The select rows of an order are counted while they are written, and not beyond it.
Counting == IF pc = "select" THEN ctx.selected < Len(ctx.order) ELSE ctx.selected = 0

TypeInv == Placed /\ Counting

LEMMA TypeOKIs ==
    TypeOK <=> /\ LedgerTyped
               /\ adapters \subseteq Candidates /\ sealed \subseteq Candidates
               /\ pc \in Steps /\ ctx \in Context /\ launches \in 0 .. MaxLaunches
BY DEF TypeOK, LedgerTyped, Context

LEMMA CandidatesNat == Candidates \subseteq Nat \ {0} /\ Candidates \subseteq Models /\ Base \in Models
BY FS_CardinalityType, EvidenceConstants DEF Models, Base

LEMMA IdleTyped == Idle \in Context
<1>1. <<>> \in Seq(Candidates) /\ <<>> \in Seq(Models)
  BY EmptySeq, Zenon
<1>2. 0 \in 0 .. MaxRounds /\ Base \in Models
  BY NightConstants, CandidatesNat
<1> QED
  BY <1>1, <1>2 DEF Idle, Context

LEMMA RowOfTyped ==
    ASSUME LedgerTyped, ctx.night \in Nat, NEW kind \in Kinds, NEW c \in Models
    PROVE  RowOf(kind, c) \in Row /\ RowOf(kind, c).seq = Len(ledger) + 1
<1>1. Len(ledger) + 1 \in Nat
  BY LenProperties DEF LedgerTyped
<1> QED
  BY <1>1, CandidatesNat DEF RowOf, Row

LEMMA WriteTyped ==
    ASSUME LedgerTyped, NEW row \in Row, row.seq = Len(ledger) + 1, Write(row)
    PROVE  LedgerTyped'
<1>1. ledger \in Seq(Row) /\ Len(ledger) \in Nat /\ \A i \in 1 .. Len(ledger) : ledger[i].seq = i
  BY LenProperties DEF LedgerTyped
<1>2. /\ ledger' \in Seq(Row) /\ Len(ledger') = Len(ledger) + 1
      /\ \A i \in 1 .. Len(ledger) : ledger'[i] = ledger[i]
      /\ ledger'[Len(ledger) + 1] = row
  BY <1>1, AppendProperties DEF Write
<1>3. DOMAIN ledger' = 1 .. Len(ledger) + 1
  BY <1>2, LenProperties
<1> QED
  BY <1>1, <1>2, <1>3 DEF LedgerTyped

\* The candidate whose select row is next is one of the order.
LEMMA SelectsOne ==
    ASSUME TypeInv, Select
    PROVE  /\ ctx.selected + 1 \in 1 .. Len(ctx.order) /\ ctx.order[ctx.selected + 1] \in Candidates
           /\ ctx.selected + 1 < Len(ctx.order) \/ ctx.selected + 1 = Len(ctx.order)
<1>1. ctx.order \in Seq(Candidates) /\ ctx.selected \in Nat /\ ctx.order # <<>>
  BY TypeOKIs DEF TypeInv, Placed, Context, AtHand, Steps, Select
<1>2. Len(ctx.order) \in Nat \ {0}
  BY <1>1, EmptySeq
<1>3. ctx.selected < Len(ctx.order)
  BY <1>1, <1>2 DEF TypeInv, Placed, Counting
<1>4. ctx.selected + 1 \in 1 .. Len(ctx.order)
  BY <1>1, <1>2, <1>3
<1> QED
  BY <1>1, <1>2, <1>3, <1>4, ElementOfSeq

LEMMA TypeInit == Init => TypeInv
<1> SUFFICES ASSUME Init PROVE TypeInv
  OBVIOUS
<1> DEFINE row == [seq |-> 1, kind |-> "propose", night |-> 0, cid |-> Base, arm |-> "none", vs |-> Base,
                   seed |-> 0, boundary |-> "none", scored |-> FALSE, target |-> 0]
<1>1. row \in Row
  BY CandidatesNat DEF Row, Kinds
<1>2. ledger = <<row>> /\ row.seq = 1
  BY DEF Init
<1> HIDE DEF row
<1>3. LedgerTyped
  BY <1>1, <1>2 DEF LedgerTyped
<1>4. pc = "off" /\ pc \in Steps /\ pc \notin AtHand
  BY DEF Init, Steps, AtHand
<1>5. ctx \in Context /\ adapters \subseteq Candidates /\ sealed \subseteq Candidates /\ launches \in 0 .. MaxLaunches
  BY IdleTyped, NightConstants DEF Init
<1>6. Counting
  BY DEF Init, Counting, Idle
<1> QED
  BY <1>3, <1>4, <1>5, <1>6, TypeOKIs DEF TypeInv, Placed

LEMMA AtHandTyped ==
    ASSUME TypeInv, pc \in AtHand \/ ctx.order # <<>>
    PROVE  Current \in Candidates /\ Current \in Models /\ Tail(ctx.order) \in Seq(Candidates)
<1>1. ctx.order \in Seq(Candidates) /\ ctx.order # <<>>
  BY TypeOKIs DEF TypeInv, Placed, Context
<1>2. Len(ctx.order) \in Nat /\ 1 \in 1 .. Len(ctx.order)
  BY <1>1
<1> QED
  BY <1>1, <1>2, HeadTailProperties, ElementOfSeq, CandidatesNat DEF Current

LEMMA RowWritten ==
    ASSUME TypeInv, NEW kind \in Kinds, NEW c \in Models, Write(RowOf(kind, c))
    PROVE  LedgerTyped'
BY RowOfTyped, WriteTyped, TypeOKIs DEF TypeInv, Placed, Context

\* A candidate is done with.
LEMMA NextTyped ==
    ASSUME TypeInv, pc \in AtHand \/ ctx.order # <<>>, NextCandidate
    PROVE  ctx' \in Context /\ pc' = "take"
BY AtHandTyped, TypeOKIs DEF TypeInv, Placed, Context, NextCandidate, Goto

LEMMA BoundaryTyped == ASSUME NEW xs, NEW b \in Boundary(xs) PROVE b \in {"continue"} \cup Decided
BY DEF Boundary, Decided

LEMMA ReplayTyped == ASSUME LedgerTyped, NEW c \in Models PROVE Replay(ledger)[c] \in View
<1>1. Len(ledger) \in 0 .. Len(ledger)
  BY LenProperties DEF LedgerTyped
<1> QED
  BY <1>1, ViewsTyped DEF LedgerTyped, Replay

\* The updates of the context that more than one step makes.
LEMMA Spends ==
    ASSUME ctx \in Context, NEW jobs \in Nat
    PROVE  /\ [ctx EXCEPT !.spent = @ + jobs] \in Context
           /\ [ctx EXCEPT !.spent = @ + jobs].order = ctx.order
<1>1. ctx.spent + jobs \in Nat
  BY DEF Context
<1> QED
  BY <1>1 DEF Context

\* What is left to prove of a step: its rows, its context and where it goes.
LEMMA TypeNow ==
    ASSUME LedgerTyped', adapters' \subseteq Candidates, sealed' \subseteq Candidates, ctx' \in Context,
           launches' \in 0 .. MaxLaunches, pc' \in Steps, pc' \in AtHand => ctx'.order # <<>>
    PROVE  Placed'
BY TypeOKIs DEF Placed, TypeOK, LedgerTyped, Context

LEMMA PlacedStep == TypeInv /\ [Next]_vars => Placed'
<1> SUFFICES ASSUME TypeInv, [Next]_vars PROVE Placed'
  OBVIOUS
<1>0. /\ LedgerTyped /\ ctx \in Context /\ pc \in Steps
      /\ adapters \subseteq Candidates /\ sealed \subseteq Candidates /\ launches \in 0 .. MaxLaunches
      /\ pc \in AtHand => ctx.order # <<>>
  BY TypeOKIs DEF TypeInv, Placed
<1>a. LedgerTyped /\ UNCHANGED ledger => LedgerTyped'
  BY DEF LedgerTyped
<1> USE DEF Goto, Steps, AtHand
<1>1. ASSUME NEW n \in 1 .. MaxLaunches, Launch(n) PROVE Placed'
  <2>1. Inherit(ledger, adapters) \in Models
    BY <1>0, CandidatesNat DEF Inherit
  <2>2. ctx' = [Idle EXCEPT !.night = n, !.inc = Inherit(ledger, adapters), !.predictions = sealed]
    BY <1>1 DEF Launch
  <2>3. ctx' \in Context
    <3>1. n \in Nat
      OBVIOUS
    <3> QED
      BY <1>0, <2>1, <2>2, <3>1, IdleTyped DEF Context
  <2>4. launches' \in 0 .. MaxLaunches
    <3>1. launches < MaxLaunches /\ launches' = launches + 1
      BY <1>1 DEF Launch
    <3> QED
      BY <1>0, <3>1, NightConstants
  <2>5. UNCHANGED <<ledger, adapters, sealed>> /\ pc' \in {"round", "propose"}
    BY <1>1 DEF Launch
  <2> QED
    BY <1>0, <1>a, <2>3, <2>4, <2>5, TypeNow
<1>2. CASE Propose
  <2>1. "propose" \in Kinds /\ NextId(ledger) \in Candidates /\ NextId(ledger) \in Models
    BY <1>2, CandidatesNat DEF Propose, Kinds
  <2>2. LedgerTyped'
    BY <1>2, <2>1, RowWritten DEF Propose
  <2>3. Append(ctx.accepted, NextId(ledger)) \in Seq(Candidates)
    BY <1>0, <2>1, AppendProperties DEF Context
  <2>4. ctx' \in Context
    <3> DEFINE new == NextId(ledger)
               accepted == Append(ctx.accepted, new)
               recipes == ctx.recipes \cup {new}
    <3>1. accepted \in Seq(Candidates) /\ recipes \in SUBSET Candidates
      BY <1>0, <2>1, <2>3 DEF Context
    <3>2. ctx' = [ctx EXCEPT !.accepted = accepted, !.recipes = recipes]
      BY <1>2 DEF Propose
    <3> HIDE DEF accepted, recipes, new
    <3> QED
      BY <1>0, <3>1, <3>2 DEF Context
  <2> QED
    BY <1>0, <1>2, <2>2, <2>4, TypeNow DEF Propose
<1>3. CASE Proposed \/ LastRound \/ RoundDone
  <2>1. UNCHANGED <<ledger, adapters, sealed, ctx, launches>> /\ pc' \in {"round", "predict", "close"}
    BY <1>3 DEF Proposed, LastRound, RoundDone
  <2> QED
    BY <1>0, <1>a, <2>1, TypeNow
<1>4. CASE Predict
  <2>1. "predict" \in Kinds /\ Head(ctx.accepted) \in Candidates /\ Tail(ctx.accepted) \in Seq(Candidates)
    BY <1>0, <1>4, HeadTailProperties DEF Predict, Context, Kinds
  <2>2. LedgerTyped'
    BY <1>a, <1>0, <1>4, <2>1, RowWritten, CandidatesNat DEF Predict
  <2>3. ctx' \in Context
    <3> DEFINE head == Head(ctx.accepted)
               tail == Tail(ctx.accepted)
    <3>1. \/ ctx' = [ctx EXCEPT !.accepted = tail, !.lines = ctx.lines \cup {head}]
          \/ ctx' = [ctx EXCEPT !.accepted = tail]
      BY <1>4 DEF Predict
    <3>2. head \in Candidates /\ tail \in Seq(Candidates)
      BY <2>1
    <3> HIDE DEF head, tail
    <3>3. ctx.lines \cup {head} \in SUBSET Candidates
      BY <1>0, <3>2 DEF Context
    <3> QED
      BY <1>0, <3>1, <3>2, <3>3 DEF Context
  <2> QED
    BY <1>0, <1>4, <2>2, <2>3, TypeNow DEF Predict
<1>5. CASE Predicted
  <2>1. ctx' \in Context /\ sealed' \subseteq Candidates
    BY <1>0, <1>5 DEF Predicted, Context
  <2> QED
    BY <1>0, <1>a, <1>5, <2>1, TypeNow DEF Predicted
<1>6. CASE Deliberate
  <2>0. UNCHANGED <<ledger, adapters, sealed, launches>> /\ ctx.round < MaxRounds
    BY <1>6 DEF Deliberate
  <2>1. CASE ctx' = Idle /\ pc' = "off"
    BY <1>0, <1>a, <2>0, <2>1, IdleTyped, TypeNow
  <2>2. ASSUME NEW order \in Seq(Live(Replay(ledger), ctx.inc)),
               ctx' = [ctx EXCEPT !.round = @ + 1, !.order = order],
               pc' = IF order = <<>> THEN "close" ELSE "select"
        PROVE  Placed'
    <3>1. order \in Seq(Candidates)
      <4>1. Live(Replay(ledger), ctx.inc) \subseteq Candidates
        BY DEF Live
      <4> QED
        BY <4>1, SeqMonotonic
    <3>2. ctx' \in Context /\ ctx'.order = order
      <4>1. ctx.round + 1 \in 0 .. MaxRounds
        BY <1>0, <2>0, NightConstants DEF Context
      <4> QED
        BY <1>0, <2>2, <3>1, <4>1 DEF Context
    <3> QED
      BY <1>0, <1>a, <2>0, <2>2, <3>2, TypeNow
  <2> QED
    BY <1>6, <2>1, <2>2, DeliberateStep, Zenon
<1>6a. CASE Select
  <2> DEFINE c == ctx.order[ctx.selected + 1]
  <2>1. c \in Candidates /\ c \in Models /\ "select" \in Kinds
    BY <1>6a, SelectsOne, CandidatesNat DEF Kinds
  <2>2. Write(RowOf("select", c)) /\ pc = "select" /\ pc' \in {"select", "take"}
        /\ UNCHANGED <<adapters, sealed, launches>>
    BY <1>6a DEF Select
  <2> HIDE DEF c
  <2>3. LedgerTyped'
    BY <2>1, <2>2, RowWritten
  <2>4. ctx' \in Context /\ ctx'.order = ctx.order
    <3>1. ctx.selected + 1 \in Nat /\ 0 \in Nat
      BY <1>0 DEF Context
    <3>2. ctx' = [ctx EXCEPT !.selected = ctx.selected + 1] \/ ctx' = [ctx EXCEPT !.selected = 0]
      BY <1>6a DEF Select
    <3> QED
      BY <1>0, <3>1, <3>2 DEF Context
  <2> QED
    BY <1>0, <2>2, <2>3, <2>4, TypeNow
<1>7. CASE Take
  <2>1. Current \in Candidates
    BY <1>7, AtHandTyped DEF Take
  <2>2. ctx.recipes \cup {Current} \in SUBSET Candidates
    BY <1>0, <2>1 DEF Context
  <2>3. ctx' \in Context /\ ctx'.order = ctx.order
    BY <1>0, <1>7, <2>2 DEF Take, Context
  <2> QED
    BY <1>0, <1>a, <1>7, <2>3, TypeNow DEF Take
<1>7a. CASE BadRecipe
  <2>1. NextCandidate /\ ctx.order # <<>> /\ UNCHANGED <<ledger, adapters, sealed, launches>>
    BY <1>7a DEF BadRecipe
  <2>2. ctx' \in Context /\ pc' = "take"
    BY <2>1, NextTyped
  <2> QED
    BY <1>0, <1>a, <2>1, <2>2, TypeNow
<1>8. CASE Skip \/ TrainFailed \/ Prune
  <2>1. \E kind \in Kinds : Write(RowOf(kind, Current))
    BY <1>8 DEF Skip, TrainFailed, Prune, Kinds
  <2>2. NextCandidate /\ (pc \in AtHand \/ ctx.order # <<>>) /\ UNCHANGED <<adapters, sealed, launches>>
    BY <1>0, <1>8 DEF Skip, TrainFailed, Prune
  <2>3. ctx' \in Context /\ pc' = "take"
    BY <2>2, NextTyped
  <2>4. LedgerTyped'
    BY <2>1, <2>2, AtHandTyped, RowWritten
  <2> QED
    BY <1>0, <2>2, <2>3, <2>4, TypeNow
<1>9. CASE Train
  <2>1. Current \in Candidates /\ Current \in Models /\ "spend" \in Kinds
    BY <1>9, AtHandTyped DEF Train, Kinds
  <2>2. LedgerTyped'
    BY <1>9, <2>1, RowWritten DEF Train
  <2>3. ctx' \in Context /\ ctx'.order = ctx.order
    <3>1. PICK jobs \in {1, 2} : ctx' = [ctx EXCEPT !.spent = @ + jobs]
      BY <1>9 DEF Train
    <3>2. jobs \in Nat
      OBVIOUS
    <3> QED
      BY <1>0, <3>1, <3>2, Spends
  <2> QED
    BY <1>0, <1>9, <2>1, <2>2, <2>3, TypeNow DEF Train
<1>10. CASE TrainFails
  <2>1. ctx' \in Context /\ ctx'.order = ctx.order
    <3>1. PICK jobs \in {1, 2} : ctx' = [ctx EXCEPT !.spent = @ + jobs]
      BY <1>10 DEF TrainFails
    <3>2. jobs \in Nat
      OBVIOUS
    <3> QED
      BY <1>0, <3>1, <3>2, Spends
  <2>2. Current \in Candidates /\ Current \in Models /\ "spend" \in Kinds
    BY <1>10, AtHandTyped DEF TrainFails, Kinds
  <2>3. LedgerTyped'
    BY <1>0, <1>a, <1>10, <2>2, RowWritten DEF TrainFails
  <2>4. /\ adapters' \subseteq Candidates /\ UNCHANGED <<sealed, launches>>
        /\ pc = "train" /\ pc' = "train_failed"
    BY <1>0, <1>10, <2>2 DEF TrainFails
  <2> QED
    BY <1>0, <2>1, <2>3, <2>4, TypeNow
<1>11. CASE Evaluate
  <2>1. Replay(ledger)[Current] \in View
    BY <1>0, <1>11, AtHandTyped, ReplayTyped DEF Evaluate
  <2>2. Replay(ledger)[Current].xs \in Seq(Models) /\ Replay(ledger)[Current].nObs \in Nat
    BY <2>1 DEF View
  <2>3. ctx' \in Context /\ ctx'.order = ctx.order
    BY <1>0, <1>11, <2>2 DEF Evaluate, Context
  <2> QED
    BY <1>0, <1>a, <1>11, <2>3, TypeNow DEF Evaluate
<1>12. CASE Pair
  <2> DEFINE row == [RowOf("observe", ctx.inc) EXCEPT !.arm = "incumbent", !.vs = ctx.inc, !.seed = ctx.seed]
  <2>1. RowOf("observe", ctx.inc) \in Row /\ RowOf("observe", ctx.inc).seq = Len(ledger) + 1
    BY <1>0, RowOfTyped DEF Context, Kinds
  <2>2. row \in Row /\ row.seq = Len(ledger) + 1
    BY <1>0, <2>1 DEF Row, Context
  <2>3. LedgerTyped'
    BY <1>0, <1>12, <2>2, WriteTyped DEF Pair
  <2>4. ctx' \in Context /\ ctx'.order = ctx.order
    BY <1>0, <1>12, Spends DEF Pair
  <2> QED
    BY <1>0, <1>12, <2>3, <2>4, TypeNow DEF Pair
<1>13. CASE PairFails
  <2>1. Current \in Models /\ Tail(ctx.order) \in Seq(Candidates) /\ "audit_high" \in Kinds
    BY <1>13, AtHandTyped DEF PairFails, Kinds
  <2>2. LedgerTyped'
    BY <1>13, <2>1, RowWritten DEF PairFails
  <2>3. ctx' \in Context
    <3>1. ctx.spent + 2 \in Nat
      BY <1>0 DEF Context
    <3> QED
      BY <1>0, <1>13, <2>1, <3>1 DEF PairFails, Context
  <2> QED
    BY <1>0, <1>13, <2>2, <2>3, TypeNow DEF PairFails
<1>14. CASE Observe
  <2>1. PICK b \in Boundary(Append(ctx.xs, ctx.inc)) :
            /\ Write([RowOf("observe", Current) EXCEPT !.arm = "candidate", !.vs = ctx.inc, !.seed = ctx.seed,
                         !.boundary = b, !.scored = Current \in ctx.predictions])
            /\ \/ b = "continue" /\ NextCandidate
               \/ b = "prune"    /\ Goto("prune")  /\ UNCHANGED ctx
               \/ b = "confirm"  /\ Goto("canary") /\ UNCHANGED ctx
    BY <1>14 DEF Observe
  <2> DEFINE scored == Current \in ctx.predictions
             row == [RowOf("observe", Current) EXCEPT !.arm = "candidate", !.vs = ctx.inc, !.seed = ctx.seed,
                         !.boundary = b, !.scored = scored]
  <2>2. pc = "paired" /\ UNCHANGED <<adapters, sealed, launches>> /\ b \in {"continue"} \cup Decided
    BY <1>14, BoundaryTyped DEF Observe
  <2>3. RowOf("observe", Current) \in Row /\ RowOf("observe", Current).seq = Len(ledger) + 1
    BY <1>0, <2>2, AtHandTyped, RowOfTyped DEF Context, Kinds
  <2>4. scored \in BOOLEAN
    OBVIOUS
  <2>5. Write(row)
    BY <2>1
  <2>6. row \in Row /\ row.seq = Len(ledger) + 1
    <3> HIDE DEF scored
    <3> QED
      BY <1>0, <2>2, <2>3, <2>4 DEF Row, Context
  <2> HIDE DEF row
  <2>7. LedgerTyped'
    BY <1>0, <2>5, <2>6, WriteTyped
  <2>8. ctx' \in Context /\ pc' \in Steps /\ (pc' \in AtHand => ctx'.order # <<>>)
    BY <1>0, <2>1, <2>2, NextTyped
  <2> QED
    BY <1>0, <2>2, <2>7, <2>8, TypeNow
<1>15. CASE Canary
  <2>1. Current \in Models /\ "audit_high" \in Kinds
    BY <1>15, AtHandTyped DEF Canary, Kinds
  <2>2. LedgerTyped'
    BY <1>0, <1>a, <1>15, <2>1, RowWritten DEF Canary
  <2>3. ctx' \in Context /\ ctx'.order = ctx.order
    <3>1. ctx.spent + 1 \in Nat /\ ctx.spent + 2 \in Nat /\ ctx.anchored \in BOOLEAN
      BY <1>0 DEF Context
    <3>2. PICK measured \in BOOLEAN :
            ctx' = [ctx EXCEPT !.spent = @ + (IF ctx.anchored THEN 1 ELSE 2), !.anchored = @ \/ measured]
      BY <1>15 DEF Canary
    <3> DEFINE spent == ctx.spent + (IF ctx.anchored THEN 1 ELSE 2)
               anchored == ctx.anchored \/ measured
    <3>3. spent \in Nat /\ anchored \in BOOLEAN
      BY <3>1
    <3>4. ctx' = [ctx EXCEPT !.spent = spent, !.anchored = anchored]
      BY <3>2
    <3> HIDE DEF spent, anchored
    <3> QED
      BY <1>0, <3>3, <3>4 DEF Context
  <2>4. pc = "canary" /\ pc' \in {"promote", "badhita"} /\ UNCHANGED <<adapters, sealed, launches>>
    BY <1>15 DEF Canary
  <2> QED
    BY <1>0, <2>2, <2>3, <2>4, TypeNow
<1>16. CASE Promote
  <2>1. Current \in Models /\ Tail(ctx.order) \in Seq(Candidates) /\ "promote" \in Kinds
    BY <1>16, AtHandTyped DEF Promote, Kinds
  <2>2. LedgerTyped'
    BY <1>16, <2>1, RowWritten DEF Promote
  <2>3. ctx' \in Context
    BY <1>0, <1>16, <2>1 DEF Promote, Context
  <2> QED
    BY <1>0, <1>16, <2>2, <2>3, TypeNow DEF Promote
<1>17. CASE Close \/ Crash
  <2>1. /\ ctx' = Idle /\ pc' = "off" /\ UNCHANGED <<ledger, adapters, launches>>
        /\ sealed' \in {sealed, sealed \cup ctx.lines}
    BY <1>17 DEF Close, Crash
  <2>2. sealed' \subseteq Candidates
    BY <1>0, <2>1 DEF Context
  <2> QED
    BY <1>0, <1>a, <2>1, <2>2, IdleTyped, TypeNow
<1>18. CASE Withdraw
  <2>1. PICK i \in DOMAIN ledger : Write([RowOf("sublate", ledger[i].cid) EXCEPT !.target = ledger[i].seq])
    BY <1>18 DEF Withdraw
  <2> DEFINE row == [RowOf("sublate", ledger[i].cid) EXCEPT !.target = ledger[i].seq]
  <2>2. ledger[i] \in Row
    BY <1>0, RowTyped, LenProperties DEF LedgerTyped
  <2>3. ledger[i].cid \in Models /\ ledger[i].seq \in Nat /\ "sublate" \in Kinds
    BY <2>2 DEF Row, Kinds
  <2>4. RowOf("sublate", ledger[i].cid) \in Row /\ RowOf("sublate", ledger[i].cid).seq = Len(ledger) + 1
    BY <1>0, <2>3, RowOfTyped DEF Context
  <2>5. row \in Row /\ row.seq = Len(ledger) + 1
    BY <2>3, <2>4 DEF Row
  <2>6. LedgerTyped'
    BY <1>0, <2>1, <2>5, WriteTyped
  <2> QED
    BY <1>0, <1>18, <2>6, TypeNow DEF Withdraw
<1>19. CASE LoseAdapter
  <2>1. adapters' \subseteq Candidates /\ UNCHANGED <<ledger, sealed, pc, ctx, launches>>
    BY <1>0, <1>19 DEF LoseAdapter
  <2> QED
    BY <1>0, <1>a, <2>1, TypeNow
<1>20. CASE UNCHANGED vars
  BY <1>0, <1>a, <1>20, TypeNow DEF vars
<1> QED
  BY <1>1, <1>2, <1>3, <1>4, <1>5, <1>6, <1>6a, <1>7, <1>7a, <1>8, <1>9, <1>10, <1>11, <1>12, <1>13, <1>14, <1>15,
     <1>16, <1>17, <1>18, <1>19, <1>20 DEF Next, Step

\* Only deliberate()'s loop over the order counts.
LEMMA CountingStep == TypeInv /\ [Next]_vars => Counting'
<1> SUFFICES ASSUME TypeInv, [Next]_vars PROVE Counting'
  OBVIOUS
<1>0. ctx \in Context /\ Counting /\ (pc = "select" => ctx.order # <<>>) /\ ctx.order \in Seq(Candidates)
  BY TypeOKIs DEF TypeInv, Placed, Context, AtHand, Steps
<1>a. ASSUME pc # "select", pc' # "select", ctx'.selected = ctx.selected PROVE Counting'
  BY <1>0, <1>a DEF Counting
<1>b. ASSUME ctx' = ctx, pc' = pc PROVE Counting'
  BY <1>0, <1>b DEF Counting
<1>c. ASSUME ctx' = Idle, pc' = "off" PROVE Counting'
  BY <1>c DEF Counting, Idle
<1> USE DEF Goto, NextCandidate
<1>1. ASSUME NEW n \in 1 .. MaxLaunches, Launch(n) PROVE Counting'
  BY <1>1 DEF Launch, Counting, Idle
<1>2. CASE Propose \/ Predict \/ Predicted
  <2>1. pc # "select" /\ pc' # "select" /\ ctx'.selected = ctx.selected
    BY <1>0, <1>2 DEF Propose, Predict, Predicted, Context
  <2> QED
    BY <1>a, <2>1
<1>3. CASE Proposed \/ LastRound \/ RoundDone \/ Take \/ BadRecipe \/ Skip
  <2>1. pc # "select" /\ pc' # "select" /\ ctx'.selected = ctx.selected
    BY <1>0, <1>3 DEF Proposed, LastRound, RoundDone, Take, BadRecipe, Skip, Context
  <2> QED
    BY <1>a, <2>1
<1>4. CASE Deliberate
  <2>1. ASSUME NEW order \in Seq(Live(Replay(ledger), ctx.inc)),
               ctx' = [ctx EXCEPT !.round = @ + 1, !.order = order],
               pc' = IF order = <<>> THEN "close" ELSE "select"
        PROVE  Counting'
    <3>1. pc = "round"
      BY <1>4 DEF Deliberate
    <3>2. ctx'.selected = 0 /\ ctx'.order = order
      BY <1>0, <2>1, <3>1 DEF Context, Counting
    <3>3. order # <<>> => Len(order) \in Nat \ {0}
      BY EmptySeq
    <3> QED
      BY <2>1, <3>2, <3>3 DEF Counting
  <2> QED
    BY <1>4, <1>c, <2>1, DeliberateStep, Zenon
<1>5. CASE Select
  <2>1. /\ pc = "select"
        /\ \/ /\ ctx.selected + 1 < Len(ctx.order) /\ pc' = "select"
              /\ ctx' = [ctx EXCEPT !.selected = ctx.selected + 1]
           \/ pc' = "take" /\ ctx' = [ctx EXCEPT !.selected = 0]
    BY <1>5 DEF Select
  <2>2. ctx'.order = ctx.order /\ ctx'.selected = IF pc' = "select" THEN ctx.selected + 1 ELSE 0
    BY <1>0, <2>1 DEF Context
  <2> QED
    BY <2>1, <2>2 DEF Counting
<1>6. CASE Train \/ TrainFails \/ TrainFailed \/ Evaluate \/ Pair \/ PairFails
  <2>1. pc # "select" /\ pc' # "select" /\ ctx'.selected = ctx.selected
    BY <1>0, <1>6 DEF Train, TrainFails, TrainFailed, Evaluate, Pair, PairFails, Context
  <2> QED
    BY <1>a, <2>1
<1>7. CASE Observe \/ Prune \/ Canary \/ Promote
  <2>1. pc # "select" /\ pc' # "select" /\ ctx'.selected = ctx.selected
    BY <1>0, <1>7 DEF Observe, Prune, Canary, Promote, Context
  <2> QED
    BY <1>a, <2>1
<1>8. CASE Close \/ Crash
  BY <1>8, <1>c DEF Close, Crash
<1>9. CASE Withdraw \/ LoseAdapter \/ UNCHANGED vars
  BY <1>9, <1>b DEF Withdraw, LoseAdapter, vars
<1> QED
  BY <1>1, <1>2, <1>3, <1>4, <1>5, <1>6, <1>7, <1>8, <1>9 DEF Next, Step

LEMMA TypeStep == TypeInv /\ [Next]_vars => TypeInv'
BY PlacedStep, CountingStep DEF TypeInv

LEMMA TypeAlways == Spec => []TypeInv
BY TypeInit, TypeStep, PTL DEF Spec

\* Every variable keeps its type: the numbering of the ledger, the rows' fields and what
\* the fold hands to the night among them.
THEOREM NightTyped == Spec => []TypeOK
<1>1. TypeInv => TypeOK
  BY DEF TypeInv, Placed
<1> QED
  BY <1>1, TypeAlways, PTL

-----------------------------------------------------------------------------
(* What a step may do to the ledger and to the order the night works off.  *)

Cids(l) == {l[i].cid : i \in 1 .. Len(l)}
In(s) == {s[k] : k \in 1 .. Len(s)}

\* The candidates a night has in hand.
Known == {ctx.inc} \cup In(ctx.order) \cup In(ctx.accepted)

\* The rows that neither end a candidate nor promote it.
Plain == {"propose", "predict", "select", "spend", "observe", "sublate"}

SamePlace == ctx'.order = ctx.order /\ (pc' = "badhita" <=> pc = "badhita")
NextPlace == ctx.order # <<>> /\ ctx'.order = Tail(ctx.order) /\ pc' = "take"

Quiet == ledger' = ledger /\ (SamePlace \/ NextPlace \/ ctx'.order = <<>>)

Notes(row) ==
    /\ Write(row) /\ row.kind \in Plain
    /\ row.kind = "propose" \/ row.cid \in Known \cup Cids(ledger)
    /\ SamePlace \/ NextPlace

Ends(row) ==
    /\ Write(row) /\ row.kind \in Dead /\ row.cid = Current /\ ctx.order # <<>>
    /\ NextPlace \/ (ctx'.order = ctx.order /\ pc' = "badhita")

Crowns(row) == Write(row) /\ row.kind = "promote" /\ row.cid = Current /\ pc = "promote" /\ NextPlace

Picks(order) ==
    /\ order \in Seq(Live(Replay(ledger), ctx.inc)) /\ Once(order)
    /\ ledger' = ledger /\ ctx'.order = order /\ pc' # "badhita"

Move ==
    \/ Quiet
    \/ \E row \in Row : Notes(row) \/ Ends(row) \/ Crowns(row)
    \/ \E order \in Seq(Candidates) : Picks(order)

LEMMA TailIn ==
    ASSUME NEW S, NEW s \in Seq(S), s # <<>>
    PROVE  Head(s) \in In(s) /\ In(Tail(s)) \subseteq In(s) /\ s[1] \in In(s)
<1>1. Len(s) \in Nat \ {0}
  BY EmptySeq
<1>2. Len(Tail(s)) = Len(s) - 1 /\ \A i \in 1 .. Len(Tail(s)) : Tail(s)[i] = s[i + 1]
  BY HeadTailProperties
<1>3. \A i \in 1 .. Len(s) - 1 : i + 1 \in 1 .. Len(s)
  BY <1>1
<1>4. Head(s) = s[1] /\ 1 \in 1 .. Len(s)
  BY <1>1
<1> QED
  BY <1>2, <1>3, <1>4 DEF In

LEMMA AppendIn ==
    ASSUME NEW S, NEW s \in Seq(S), NEW x \in S
    PROVE  In(Append(s, x)) = In(s) \cup {x}
<1>1. Len(s) \in Nat
  BY LenProperties
<1>2. /\ Len(Append(s, x)) = Len(s) + 1 /\ Append(s, x)[Len(s) + 1] = x
      /\ \A i \in 1 .. Len(s) : Append(s, x)[i] = s[i]
  BY AppendProperties
<1>3. \A i \in 1 .. Len(s) + 1 : i \in 1 .. Len(s) \/ i = Len(s) + 1
  BY <1>1
<1>4. \A i \in 1 .. Len(s) : i \in 1 .. Len(s) + 1
  BY <1>1
<1>5. Len(s) + 1 \in 1 .. Len(s) + 1
  BY <1>1
<1> QED
  BY <1>2, <1>3, <1>4, <1>5 DEF In

LEMMA EmptyIn == In(<<>>) = {}
BY DEF In

LEMMA WriteCids ==
    ASSUME ledger \in Seq(Row), NEW row \in Row, Write(row)
    PROVE  Cids(ledger') = Cids(ledger) \cup {row.cid}
<1>1. Len(ledger) \in Nat
  BY LenProperties
<1>2. /\ Len(ledger') = Len(ledger) + 1 /\ ledger'[Len(ledger) + 1] = row
      /\ \A i \in 1 .. Len(ledger) : ledger'[i] = ledger[i]
  BY AppendProperties DEF Write
<1>3. \A i \in 1 .. Len(ledger) + 1 : i \in 1 .. Len(ledger) \/ i = Len(ledger) + 1
  BY <1>1
<1>4. \A i \in 1 .. Len(ledger) : i \in 1 .. Len(ledger) + 1
  BY <1>1
<1>5. Len(ledger) + 1 \in 1 .. Len(ledger) + 1
  BY <1>1
<1> QED
  BY <1>2, <1>3, <1>4, <1>5 DEF Cids

\* Where the last of some promotions is, its candidate is one of the ledger's.
LEMMA InheritKnown ==
    ASSUME ledger \in Seq(Row), NEW a
    PROVE  Inherit(ledger, a) \in Cids(ledger) \cup {Base}
<1>1. Len(ledger) \in Nat /\ DOMAIN ledger = 1 .. Len(ledger)
  BY LenProperties
<1> DEFINE S == {i \in Promotions(ledger) : Counts(ledger, ledger[i])}
<1>2. S \in SUBSET (1 .. Len(ledger))
  BY <1>1 DEF Promotions
<1>3. LastOf(ledger, S) \in Cids(ledger) \cup {Base}
  <2>1. CASE S = {}
    BY <2>1 DEF LastOf
  <2>2. CASE S # {}
    <3>1. Max(S) \in S
      <4> HIDE DEF S
      <4> QED
        BY <1>1, <1>2, <2>2, LastRow
    <3> QED
      BY <1>2, <2>2, <3>1 DEF LastOf, Cids
  <2> QED
    BY <2>1, <2>2
<1> HIDE DEF S
<1>4. Inherit(ledger, a) \in {LastOf(ledger, S), Base}
  BY DEF Inherit, S
<1> QED
  BY <1>3, <1>4

\* What the night has in hand afterwards comes from what it had, from the ledger and
\* from the pool.
KnownStays == Known' \subseteq Known \cup Cids(ledger') \cup {Base} \cup Live(Replay(ledger), ctx.inc)

LEMMA Moves == ASSUME TypeInv, [Next]_vars PROVE Move /\ KnownStays
<1>0. /\ LedgerTyped /\ ledger \in Seq(Row) /\ ctx \in Context /\ pc \in Steps
      /\ pc \in AtHand => ctx.order # <<>>
      /\ ctx.order \in Seq(Candidates) /\ ctx.accepted \in Seq(Candidates)
  BY TypeOKIs DEF TypeInv, Placed, LedgerTyped, Context
<1>a. ASSUME NEW kind \in Kinds, NEW c \in Models
      PROVE  RowOf(kind, c) \in Row /\ RowOf(kind, c).kind = kind /\ RowOf(kind, c).cid = c
  <2>1. RowOf(kind, c) \in Row
    BY <1>0, RowOfTyped DEF Context
  <2> QED
    BY <2>1 DEF RowOf
<1>b. ASSUME ctx.order # <<>>
      PROVE  /\ Current \in In(ctx.order) /\ Current \in Known /\ Current \in Models
             /\ In(Tail(ctx.order)) \subseteq In(ctx.order)
  <2>1. Current \in In(ctx.order) /\ In(Tail(ctx.order)) \subseteq In(ctx.order)
    BY <1>0, <1>b, TailIn DEF Current
  <2> QED
    BY <1>b, <2>1, AtHandTyped DEF Known
<1>c. ASSUME ctx' = ctx, ledger' = ledger, pc' = "badhita" <=> pc = "badhita" PROVE Move /\ KnownStays
  BY <1>c DEF Move, Quiet, SamePlace, KnownStays, Known
<1>d. ASSUME ctx' = Idle, ledger' = ledger PROVE Move /\ KnownStays
  <2>1. ctx'.order = <<>> /\ ctx'.accepted = <<>> /\ ctx'.inc = Base
    BY <1>d DEF Idle
  <2> QED
    BY <1>d, <2>1, EmptyIn DEF Move, Quiet, KnownStays, Known
<1>e. ASSUME ctx'.order = ctx.order, ctx'.accepted = ctx.accepted, ctx'.inc = ctx.inc
      PROVE  KnownStays
  BY <1>e DEF KnownStays, Known
<1>f. ASSUME NextCandidate, ctx.order # <<>>
      PROVE  NextPlace /\ KnownStays
  <2>1. ctx'.order = Tail(ctx.order) /\ ctx'.accepted = ctx.accepted /\ ctx'.inc = ctx.inc /\ pc' = "take"
    BY <1>0, <1>f DEF NextCandidate, Goto, Context
  <2> QED
    BY <1>b, <1>f, <2>1 DEF KnownStays, Known, NextPlace
<1> USE DEF Goto
<1>1. ASSUME NEW n \in 1 .. MaxLaunches, Launch(n) PROVE Move /\ KnownStays
  <2>1. /\ ctx' = [Idle EXCEPT !.night = n, !.inc = Inherit(ledger, adapters), !.predictions = sealed]
        /\ ledger' = ledger
    BY <1>1 DEF Launch
  <2>2. ctx'.order = <<>> /\ ctx'.accepted = <<>> /\ ctx'.inc = Inherit(ledger, adapters)
    BY <2>1 DEF Idle
  <2> QED
    BY <1>0, <2>1, <2>2, EmptyIn, InheritKnown DEF Move, Quiet, KnownStays, Known
<1>2. CASE Propose
  <2> DEFINE row == RowOf("propose", NextId(ledger))
  <2>1. NextId(ledger) \in Candidates /\ "propose" \in Kinds /\ Write(row)
    BY <1>2 DEF Propose, Kinds
  <2>2. row \in Row /\ row.kind = "propose" /\ row.cid = NextId(ledger)
    BY <1>a, <2>1, CandidatesNat
  <2> HIDE DEF row
  <2>3. /\ ctx'.order = ctx.order /\ ctx'.accepted = Append(ctx.accepted, NextId(ledger))
        /\ ctx'.inc = ctx.inc /\ pc' = pc
    BY <1>0, <1>2 DEF Propose, Context
  <2>4. In(ctx'.accepted) = In(ctx.accepted) \cup {NextId(ledger)}
    BY <1>0, <2>1, <2>3, AppendIn
  <2>5. NextId(ledger) \in Cids(ledger')
    BY <1>0, <2>1, <2>2, WriteCids
  <2>6. Notes(row)
    BY <2>1, <2>2, <2>3 DEF Notes, Plain, SamePlace
  <2> QED
    BY <2>2, <2>3, <2>4, <2>5, <2>6 DEF Move, KnownStays, Known
<1>3. CASE Proposed \/ LastRound \/ RoundDone
  <2>1. ctx' = ctx /\ ledger' = ledger /\ pc # "badhita" /\ pc' # "badhita"
    BY <1>3 DEF Proposed, LastRound, RoundDone
  <2> QED
    BY <1>c, <2>1
<1>3a. CASE Take
  <2>1. /\ ctx'.order = ctx.order /\ ctx'.accepted = ctx.accepted /\ ctx'.inc = ctx.inc
        /\ ledger' = ledger /\ pc # "badhita" /\ pc' # "badhita"
    BY <1>0, <1>3a DEF Take, Context
  <2> QED
    BY <1>e, <2>1 DEF Move, Quiet, SamePlace
<1>3b. CASE BadRecipe
  <2>1. NextCandidate /\ ctx.order # <<>> /\ ledger' = ledger
    BY <1>3b DEF BadRecipe
  <2> QED
    BY <1>f, <2>1 DEF Move, Quiet
<1>4. CASE Predict
  <2> DEFINE c == Head(ctx.accepted)
             row == RowOf("predict", c)
  <2>1. ctx.accepted # <<>> /\ pc = "predict" /\ pc' = pc /\ (ledger' = ledger \/ Write(row))
    BY <1>4 DEF Predict
  <2>2. c \in Candidates /\ c \in In(ctx.accepted) /\ In(Tail(ctx.accepted)) \subseteq In(ctx.accepted)
    BY <1>0, <2>1, HeadTailProperties, TailIn
  <2>3. row \in Row /\ row.kind = "predict" /\ row.cid = c
    BY <1>a, <2>2, CandidatesNat DEF Kinds
  <2>4. ctx'.order = ctx.order /\ ctx'.accepted = Tail(ctx.accepted) /\ ctx'.inc = ctx.inc
    BY <1>0, <1>4 DEF Predict, Context
  <2>5. KnownStays
    BY <2>2, <2>4 DEF KnownStays, Known
  <2>6. c \in Known
    BY <2>2 DEF Known
  <2> HIDE DEF c, row
  <2>7. Quiet \/ Notes(row)
    BY <2>1, <2>3, <2>4, <2>6 DEF Quiet, Notes, Plain, SamePlace
  <2> QED
    BY <2>3, <2>5, <2>7 DEF Move
<1>5. CASE Predicted
  <2>1. /\ ctx'.order = ctx.order /\ ctx'.accepted = ctx.accepted /\ ctx'.inc = ctx.inc
        /\ ledger' = ledger /\ pc = "predict" /\ pc' = "round"
    BY <1>0, <1>5 DEF Predicted, Context
  <2> QED
    BY <1>e, <2>1 DEF Move, Quiet, SamePlace
<1>6. CASE Deliberate
  <2>0. ledger' = ledger
    BY <1>6 DEF Deliberate
  <2>1. ASSUME NEW order \in Seq(Live(Replay(ledger), ctx.inc)), Once(order),
               ctx' = [ctx EXCEPT !.round = @ + 1, !.order = order],
               pc' = IF order = <<>> THEN "close" ELSE "select"
        PROVE  Move /\ KnownStays
    <3>1. ctx'.order = order /\ ctx'.accepted = ctx.accepted /\ ctx'.inc = ctx.inc /\ pc' # "badhita"
      BY <1>0, <2>1 DEF Context
    <3>2. order \in Seq(Candidates)
      <4>1. Live(Replay(ledger), ctx.inc) \subseteq Candidates
        BY DEF Live
      <4> QED
        BY <4>1, SeqMonotonic
    <3>3. In(order) \subseteq Live(Replay(ledger), ctx.inc)
      BY ElementOfSeq DEF In
    <3>4. Picks(order)
      BY <2>0, <2>1, <3>1 DEF Picks
    <3> QED
      BY <3>1, <3>2, <3>3, <3>4 DEF Move, KnownStays, Known
  <2> QED
    BY <1>6, <1>d, <2>0, <2>1, DeliberateStep, Zenon
<1>6a. CASE Select
  <2> DEFINE c == ctx.order[ctx.selected + 1]
             row == RowOf("select", c)
  <2>1. c \in Candidates /\ c \in In(ctx.order)
    BY <1>6a, SelectsOne DEF In
  <2>2. Write(row) /\ pc = "select" /\ pc' \in {"select", "take"}
    BY <1>6a DEF Select
  <2>3. row \in Row /\ row.kind = "select" /\ row.cid = c
    BY <1>a, <2>1, CandidatesNat DEF Kinds
  <2>4. ctx'.order = ctx.order /\ ctx'.accepted = ctx.accepted /\ ctx'.inc = ctx.inc
    BY <1>0, <1>6a DEF Select, Context
  <2>5. c \in Known
    BY <2>1 DEF Known
  <2> HIDE DEF c, row
  <2>6. Notes(row)
    BY <2>2, <2>3, <2>4, <2>5 DEF Notes, Plain, SamePlace
  <2> QED
    BY <1>e, <2>3, <2>4, <2>6 DEF Move
<1>7. CASE Skip \/ TrainFailed \/ Prune
  <2>1. \E kind \in Dead : Write(RowOf(kind, Current))
    BY <1>7 DEF Skip, TrainFailed, Prune, Dead
  <2>2. NextCandidate /\ ctx.order # <<>>
    BY <1>0, <1>7 DEF Skip, TrainFailed, Prune, AtHand, Steps
  <2>3. PICK kind \in Dead : Write(RowOf(kind, Current))
    BY <2>1
  <2>4. RowOf(kind, Current) \in Row /\ RowOf(kind, Current).kind = kind /\ RowOf(kind, Current).cid = Current
    BY <1>a, <1>b, <2>2 DEF Dead, Kinds
  <2>5. Ends(RowOf(kind, Current))
    BY <1>f, <2>2, <2>3, <2>4 DEF Ends
  <2> QED
    BY <1>f, <2>2, <2>4, <2>5 DEF Move
<1>8. CASE Train
  <2>1. pc = "train" /\ pc' = "evaluate" /\ Write(RowOf("spend", Current)) /\ ctx.order # <<>>
    BY <1>0, <1>8 DEF Train, AtHand, Steps
  <2>2. /\ RowOf("spend", Current) \in Row /\ RowOf("spend", Current).kind = "spend"
        /\ RowOf("spend", Current).cid = Current
    BY <1>a, <1>b, <2>1 DEF Kinds
  <2>3. ctx'.order = ctx.order /\ ctx'.accepted = ctx.accepted /\ ctx'.inc = ctx.inc
    BY <1>0, <1>8 DEF Train, Context
  <2>4. Notes(RowOf("spend", Current))
    BY <1>b, <2>1, <2>2, <2>3 DEF Notes, Plain, SamePlace
  <2> QED
    BY <1>e, <2>2, <2>3, <2>4 DEF Move
<1>9. CASE TrainFails
  <2>1. /\ ctx'.order = ctx.order /\ ctx'.accepted = ctx.accepted /\ ctx'.inc = ctx.inc
        /\ pc = "train" /\ pc' = "train_failed" /\ (ledger' = ledger \/ Write(RowOf("spend", Current)))
    BY <1>0, <1>9 DEF TrainFails, Context
  <2>2. ctx.order # <<>>
    BY <1>0, <2>1 DEF AtHand, Steps
  <2>3. /\ RowOf("spend", Current) \in Row /\ RowOf("spend", Current).kind = "spend"
        /\ RowOf("spend", Current).cid = Current
    BY <1>a, <1>b, <2>2 DEF Kinds
  <2>4. Quiet \/ Notes(RowOf("spend", Current))
    BY <1>b, <2>1, <2>2, <2>3 DEF Quiet, Notes, Plain, SamePlace
  <2> QED
    BY <1>e, <2>1, <2>3, <2>4 DEF Move
<1>9a. CASE Evaluate
  <2>1. /\ ctx'.order = ctx.order /\ ctx'.accepted = ctx.accepted /\ ctx'.inc = ctx.inc
        /\ ledger' = ledger /\ pc # "badhita" /\ pc' # "badhita"
    BY <1>0, <1>9a DEF Evaluate, Context
  <2> QED
    BY <1>e, <2>1 DEF Move, Quiet, SamePlace
<1>10. CASE Pair
  <2> DEFINE old == RowOf("observe", ctx.inc)
             row == [old EXCEPT !.arm = "incumbent", !.vs = ctx.inc, !.seed = ctx.seed]
  <2>1. old \in Row /\ old.kind = "observe" /\ old.cid = ctx.inc
    BY <1>0, <1>a DEF Context, Kinds
  <2>2. row \in Row /\ row.kind = "observe" /\ row.cid = ctx.inc
    <3> HIDE DEF old
    <3> QED
      BY <1>0, <2>1 DEF Row, Context
  <2>3. Write(row) /\ pc = "pair" /\ pc' = "paired"
    BY <1>10 DEF Pair
  <2>4. ctx'.order = ctx.order /\ ctx'.accepted = ctx.accepted /\ ctx'.inc = ctx.inc
    BY <1>0, <1>10 DEF Pair, Context
  <2> HIDE DEF row
  <2>5. Notes(row)
    BY <2>2, <2>3, <2>4 DEF Notes, Plain, SamePlace, Known
  <2> QED
    BY <1>e, <2>2, <2>4, <2>5 DEF Move
<1>11. CASE PairFails
  <2>1. pc = "pair" /\ pc' = "take" /\ Write(RowOf("audit_high", Current)) /\ ctx.order # <<>>
    BY <1>0, <1>11 DEF PairFails, AtHand, Steps
  <2>2. /\ RowOf("audit_high", Current) \in Row /\ RowOf("audit_high", Current).kind = "audit_high"
        /\ RowOf("audit_high", Current).cid = Current
    BY <1>a, <1>b, <2>1 DEF Kinds
  <2>3. ctx'.order = Tail(ctx.order) /\ ctx'.accepted = ctx.accepted /\ ctx'.inc = ctx.inc
    BY <1>0, <1>11 DEF PairFails, Context
  <2>4. Ends(RowOf("audit_high", Current))
    BY <2>1, <2>2, <2>3 DEF Ends, Dead, NextPlace
  <2> QED
    BY <1>b, <2>1, <2>2, <2>3, <2>4 DEF Move, KnownStays, Known
<1>12. CASE Observe
  <2>1. PICK b \in Boundary(Append(ctx.xs, ctx.inc)) :
            /\ Write([RowOf("observe", Current) EXCEPT !.arm = "candidate", !.vs = ctx.inc, !.seed = ctx.seed,
                         !.boundary = b, !.scored = Current \in ctx.predictions])
            /\ \/ b = "continue" /\ NextCandidate
               \/ b = "prune"    /\ Goto("prune")  /\ UNCHANGED ctx
               \/ b = "confirm"  /\ Goto("canary") /\ UNCHANGED ctx
    BY <1>12 DEF Observe
  <2> DEFINE scored == Current \in ctx.predictions
             old == RowOf("observe", Current)
             row == [old EXCEPT !.arm = "candidate", !.vs = ctx.inc, !.seed = ctx.seed,
                         !.boundary = b, !.scored = scored]
  <2>2. pc = "paired" /\ ctx.order # <<>> /\ b \in {"continue"} \cup Decided
    BY <1>0, <1>12, BoundaryTyped DEF Observe, AtHand, Steps
  <2>3. old \in Row /\ old.kind = "observe" /\ old.cid = Current
    BY <1>a, <1>b, <2>2 DEF Kinds
  <2>4. scored \in BOOLEAN
    OBVIOUS
  <2>5. Write(row)
    BY <2>1
  <2>6. row \in Row /\ row.kind = "observe" /\ row.cid = Current
    <3> HIDE DEF scored, old
    <3> QED
      BY <1>0, <2>2, <2>3, <2>4 DEF Row, Context
  <2> HIDE DEF row
  <2>7. (SamePlace \/ NextPlace) /\ KnownStays
    <3>1. CASE NextCandidate
      BY <1>f, <2>2, <3>1
    <3>2. CASE ctx' = ctx /\ pc' \in {"prune", "canary"}
      BY <1>e, <2>2, <3>2 DEF SamePlace
    <3> QED
      BY <2>1, <3>1, <3>2
  <2>8. Notes(row)
    BY <1>b, <2>2, <2>5, <2>6, <2>7 DEF Notes, Plain
  <2> QED
    BY <2>6, <2>7, <2>8 DEF Move
<1>13. CASE Canary
  <2>1. pc = "canary" /\ ctx.order # <<>>
    BY <1>0, <1>13 DEF Canary, AtHand, Steps
  <2>2. /\ RowOf("audit_high", Current) \in Row /\ RowOf("audit_high", Current).kind = "audit_high"
        /\ RowOf("audit_high", Current).cid = Current
    BY <1>a, <1>b, <2>1 DEF Kinds
  <2>3. ctx'.order = ctx.order /\ ctx'.accepted = ctx.accepted /\ ctx'.inc = ctx.inc
    BY <1>0, <1>13 DEF Canary, Context
  <2>4. \/ ledger' = ledger /\ pc' = "promote"
        \/ pc' = "badhita" /\ Write(RowOf("audit_high", Current))
    BY <1>13 DEF Canary
  <2>5. Quiet \/ Ends(RowOf("audit_high", Current))
    BY <2>1, <2>2, <2>3, <2>4 DEF Quiet, SamePlace, Ends, Dead
  <2> QED
    BY <1>e, <2>2, <2>3, <2>5 DEF Move
<1>14. CASE Promote
  <2>1. pc = "promote" /\ pc' = "take" /\ Write(RowOf("promote", Current)) /\ ctx.order # <<>>
    BY <1>0, <1>14 DEF Promote, AtHand, Steps
  <2>2. /\ RowOf("promote", Current) \in Row /\ RowOf("promote", Current).kind = "promote"
        /\ RowOf("promote", Current).cid = Current
    BY <1>a, <1>b, <2>1 DEF Kinds
  <2>3. ctx'.order = Tail(ctx.order) /\ ctx'.accepted = ctx.accepted /\ ctx'.inc = Current
    BY <1>0, <1>14 DEF Promote, Context
  <2>4. Crowns(RowOf("promote", Current))
    BY <2>1, <2>2, <2>3 DEF Crowns, NextPlace
  <2> QED
    BY <1>b, <2>1, <2>2, <2>3, <2>4 DEF Move, KnownStays, Known
<1>15. CASE Close \/ Crash
  BY <1>15, <1>d DEF Close, Crash
<1>16. CASE Withdraw
  <2>1. PICK i \in DOMAIN ledger : Write([RowOf("sublate", ledger[i].cid) EXCEPT !.target = ledger[i].seq])
    BY <1>16 DEF Withdraw
  <2> DEFINE old == RowOf("sublate", ledger[i].cid)
             row == [old EXCEPT !.target = ledger[i].seq]
  <2>2. i \in 1 .. Len(ledger) /\ ledger[i] \in Row
    BY <1>0, RowTyped, LenProperties
  <2>3. ledger[i].cid \in Models /\ ledger[i].seq \in Nat /\ ledger[i].cid \in Cids(ledger)
    BY <2>2 DEF Row, Cids
  <2>4. old \in Row /\ old.kind = "sublate" /\ old.cid = ledger[i].cid
    BY <1>a, <2>3 DEF Kinds
  <2>5. row \in Row /\ row.kind = "sublate" /\ row.cid = ledger[i].cid
    <3> HIDE DEF old
    <3> QED
      BY <2>3, <2>4 DEF Row
  <2>6. ctx' = ctx /\ pc' = pc
    BY <1>16 DEF Withdraw
  <2>7. Write(row)
    BY <2>1
  <2> HIDE DEF row
  <2>8. Notes(row)
    BY <2>3, <2>5, <2>6, <2>7 DEF Notes, Plain, SamePlace
  <2> QED
    BY <1>e, <2>5, <2>6, <2>8 DEF Move
<1>17. CASE LoseAdapter \/ UNCHANGED vars
  BY <1>17, <1>c DEF LoseAdapter, vars
<1> QED
  BY <1>1, <1>2, <1>3, <1>3a, <1>3b, <1>4, <1>5, <1>6, <1>6a, <1>7, <1>8, <1>9, <1>9a, <1>10, <1>11, <1>12, <1>13, <1>14, <1>15,
     <1>16, <1>17 DEF Next, Step

-----------------------------------------------------------------------------
(* The ledger only grows, and every row is about a candidate proposed      *)
(* before it, which the fold of replay() needs to see the row at all.      *)

Grows(l, m) == Len(l) <= Len(m) /\ \A i \in 1 .. Len(l) : m[i] = l[i]

\* The rows beyond the first n.
New(l, n) == n + 1 .. Len(l)

NamedInv == Named(ledger) /\ \A c \in Known \cup {Base} : c \in Cids(ledger)

\* What a step adds is about candidates in hand, of the ledger, or live.
About(c) == c \in Known \cup Cids(ledger) \cup Live(Replay(ledger), ctx.inc)

LEMMA IsLedgerNow == ASSUME TypeInv, Named(ledger) PROVE IsLedger(ledger) /\ LedgerTyped
<1>1. LedgerTyped
  BY TypeOKIs DEF TypeInv, Placed
<1> QED
  BY <1>1, LenProperties DEF LedgerTyped, IsLedger

LEMMA WriteGrows ==
    ASSUME ledger \in Seq(Row), NEW row \in Row, Write(row)
    PROVE  /\ ledger' \in Seq(Row) /\ Len(ledger) \in Nat /\ Len(ledger') = Len(ledger) + 1
           /\ Grows(ledger, ledger') /\ \A i \in New(ledger', Len(ledger)) : ledger'[i] = row
<1>1. Len(ledger) \in Nat
  BY LenProperties
<1>2. /\ ledger' \in Seq(Row) /\ Len(ledger') = Len(ledger) + 1 /\ ledger'[Len(ledger) + 1] = row
      /\ \A i \in 1 .. Len(ledger) : ledger'[i] = ledger[i]
  BY AppendProperties DEF Write
<1>3. \A i \in Len(ledger) + 1 .. Len(ledger) + 1 : i = Len(ledger) + 1
  BY <1>1
<1> QED
  BY <1>1, <1>2, <1>3 DEF Grows, New

LEMMA PicksGrows ==
    ASSUME TypeInv, NEW order, Picks(order)
    PROVE  /\ order \in Seq(Candidates) /\ ledger' \in Seq(Row) /\ Len(ledger) \in Nat /\ Len(ledger') \in Nat
           /\ Grows(ledger, ledger') /\ New(ledger', Len(ledger)) = {}
           /\ In(order) \subseteq Live(Replay(ledger), ctx.inc)
<1>1. ledger \in Seq(Row) /\ Len(ledger) \in Nat
  BY TypeOKIs, LenProperties DEF TypeInv, Placed, LedgerTyped
<1>2. order \in Seq(Live(Replay(ledger), ctx.inc)) /\ ledger' = ledger
  BY DEF Picks
<1>3. order \in Seq(Candidates)
  <2>1. Live(Replay(ledger), ctx.inc) \subseteq Candidates
    BY DEF Live
  <2> QED
    BY <1>2, <2>1, SeqMonotonic
<1>4. In(order) \subseteq Live(Replay(ledger), ctx.inc)
  BY <1>2, ElementOfSeq DEF In
<1>5. Grows(ledger, ledger') /\ New(ledger', Len(ledger)) = {}
  BY <1>1, <1>2 DEF Grows, New
<1> QED
  BY <1>1, <1>2, <1>3, <1>4, <1>5

LEMMA MoveGrows ==
    ASSUME TypeInv, Move
    PROVE  /\ ledger' \in Seq(Row) /\ Len(ledger) \in Nat /\ Len(ledger') \in Nat
           /\ Grows(ledger, ledger')
           /\ \A i \in New(ledger', Len(ledger)) : ledger'[i].kind = "propose" \/ About(ledger'[i].cid)
<1>1. ledger \in Seq(Row) /\ Len(ledger) \in Nat /\ ctx.order \in Seq(Candidates)
  BY TypeOKIs, LenProperties DEF TypeInv, Placed, LedgerTyped, Context
<1>2. CASE Quiet
  <2>1. New(ledger, Len(ledger)) = {}
    BY <1>1 DEF New
  <2> QED
    BY <1>1, <1>2, <2>1 DEF Quiet, Grows
<1>3. ASSUME NEW row \in Row, Notes(row) \/ Ends(row) \/ Crowns(row)
      PROVE  /\ ledger' \in Seq(Row) /\ Len(ledger) \in Nat /\ Len(ledger') \in Nat
             /\ Grows(ledger, ledger')
             /\ \A i \in New(ledger', Len(ledger)) : ledger'[i].kind = "propose" \/ About(ledger'[i].cid)
  <2>1. Write(row)
    BY <1>3 DEF Notes, Ends, Crowns
  <2>2. row.kind = "propose" \/ About(row.cid)
    <3>1. CASE Notes(row)
      BY <3>1 DEF Notes, About
    <3>2. CASE row.cid = Current /\ ctx.order # <<>>
      BY <1>1, <3>2, TailIn DEF About, Known, Current
    <3> QED
      BY <1>3, <3>1, <3>2 DEF Ends, Crowns, NextPlace
  <2> QED
    BY <1>1, <2>1, <2>2, WriteGrows
<1>4. ASSUME NEW order, Picks(order)
      PROVE  /\ ledger' \in Seq(Row) /\ Len(ledger) \in Nat /\ Len(ledger') \in Nat
             /\ Grows(ledger, ledger')
             /\ \A i \in New(ledger', Len(ledger)) : ledger'[i].kind = "propose" \/ About(ledger'[i].cid)
  BY <1>4, PicksGrows DEF About
<1> QED
  BY <1>2, <1>3, <1>4 DEF Move

LEMMA NamedInit == ASSUME Init PROVE NamedInv
<1>1. ledger[1].kind = "propose" /\ ledger[1].cid = Base /\ Len(ledger) = 1
  BY DEF Init
<1>2. ctx.inc = Base /\ ctx.order = <<>> /\ ctx.accepted = <<>>
  BY DEF Init, Idle
<1>3. \A i \in 1 .. 1 : i = 1 /\ 1 \in 1 .. i
  OBVIOUS
<1>4. Base \in Cids(ledger)
  BY <1>1, <1>3 DEF Cids
<1>5. Known = {Base}
  BY <1>2, EmptyIn DEF Known
<1> QED
  BY <1>1, <1>3, <1>4, <1>5 DEF NamedInv, Named

LEMMA NamedStep == ASSUME TypeInv, NamedInv, [Next]_vars PROVE NamedInv'
<1>1. Move /\ KnownStays
  BY Moves
<1>2. IsLedger(ledger) /\ ledger \in Seq(Row)
  BY IsLedgerNow DEF NamedInv, LedgerTyped
<1>3. /\ Len(ledger) \in Nat /\ Len(ledger') \in Nat /\ Grows(ledger, ledger')
      /\ \A i \in New(ledger', Len(ledger)) : ledger'[i].kind = "propose" \/ About(ledger'[i].cid)
  BY <1>1, MoveGrows
<1>4. ASSUME NEW c, About(c) PROVE \E j \in 1 .. Len(ledger) : ledger[j].kind = "propose" /\ ledger[j].cid = c
  <2>1. CASE c \in Cids(ledger)
    <3>1. PICK i \in 1 .. Len(ledger) : ledger[i].cid = c
      BY <2>1 DEF Cids
    <3>2. PICK j \in 1 .. i : ledger[j].kind = "propose" /\ ledger[j].cid = ledger[i].cid
      BY <3>1 DEF NamedInv, Named
    <3>3. j \in 1 .. Len(ledger)
      BY <1>3
    <3> QED
      BY <3>1, <3>2, <3>3
  <2>2. CASE c \in Live(Replay(ledger), ctx.inc)
    <3>1. Has(ledger, Len(ledger), "propose", c)
      BY <1>2, <2>2, LiveIsFresh
    <3> QED
      BY <3>1 DEF Has
  <2>3. c \in Known => c \in Cids(ledger)
    BY DEF NamedInv
  <2> QED
    BY <1>4, <2>1, <2>2, <2>3 DEF About
<1>5. Cids(ledger) \subseteq Cids(ledger')
  <2>1. \A i \in 1 .. Len(ledger) : i \in 1 .. Len(ledger') /\ ledger'[i] = ledger[i]
    BY <1>3 DEF Grows
  <2> QED
    BY <2>1 DEF Cids
<1>6. \A c \in Known' \cup {Base} : c \in Cids(ledger')
  <2>1. \A c \in Live(Replay(ledger), ctx.inc) : c \in Cids(ledger)
    BY <1>4 DEF About, Cids
  <2> QED
    BY <1>1, <1>5, <2>1 DEF KnownStays, NamedInv
<1>7. ASSUME NEW i \in 1 .. Len(ledger')
      PROVE  \E j \in 1 .. i : ledger'[j].kind = "propose" /\ ledger'[j].cid = ledger'[i].cid
  <2>1. CASE i \in 1 .. Len(ledger)
    <3>1. PICK j \in 1 .. i : ledger[j].kind = "propose" /\ ledger[j].cid = ledger[i].cid
      BY <2>1 DEF NamedInv, Named
    <3>2. j \in 1 .. Len(ledger)
      BY <1>3, <2>1
    <3> QED
      BY <1>3, <2>1, <3>1, <3>2 DEF Grows
  <2>2. CASE i \in New(ledger', Len(ledger))
    <3>1. CASE ledger'[i].kind = "propose"
      BY <3>1
    <3>2. CASE About(ledger'[i].cid)
      <4>1. PICK j \in 1 .. Len(ledger) : ledger[j].kind = "propose" /\ ledger[j].cid = ledger'[i].cid
        BY <1>4, <3>2
      <4>2. j \in 1 .. i
        BY <1>3, <2>2 DEF New
      <4> QED
        BY <1>3, <4>1, <4>2 DEF Grows
    <3> QED
      BY <1>3, <2>2, <3>1, <3>2
  <2> QED
    BY <1>3, <2>1, <2>2 DEF New
<1> QED
  BY <1>6, <1>7 DEF NamedInv, Named

-----------------------------------------------------------------------------
(* What becomes of a candidate: promoted by a row that stands, or ended.   *)

Standing(l, c) == \E i \in 1 .. Len(l) : l[i].kind = "promote" /\ l[i].cid = c /\ Counts(l, l[i])
Ended(l, c)    == \E i \in 1 .. Len(l) : l[i].kind \in Dead /\ l[i].cid = c

\* The candidates still to come have no promotion that stands and were not ended,
\* but for the one whose failed canary was just written down.
Awaits(k) == ~Standing(ledger, ctx.order[k]) /\ ((pc = "badhita" => k # 1) => ~Ended(ledger, ctx.order[k]))

FateInv == Once(ctx.order) /\ \A k \in 1 .. Len(ctx.order) : Awaits(k)

\* What is withdrawn stays withdrawn.
LEMMA CountsStays ==
    ASSUME NEW l \in Seq(Row), NEW m \in Seq(Row), Grows(l, m), NEW r, Counts(m, r)
    PROVE  Counts(l, r)
<1>1. Len(l) \in Nat /\ Len(m) \in Nat /\ DOMAIN l = 1 .. Len(l) /\ DOMAIN m = 1 .. Len(m)
  BY LenProperties
<1>2. \A i \in DOMAIN l : i \in DOMAIN m /\ m[i] = l[i]
  BY <1>1 DEF Grows
<1>3. Withdrawn(l) \subseteq Withdrawn(m)
  BY <1>2 DEF Withdrawn
<1> QED
  BY <1>3 DEF Counts

\* Only a row of that kind about c gives c its promotion or its end.
LEMMA FateStays ==
    ASSUME NEW l \in Seq(Row), NEW m \in Seq(Row), Grows(l, m), NEW c
    PROVE  /\ Standing(m, c) => \/ Standing(l, c)
                                \/ \E i \in New(m, Len(l)) : m[i].kind = "promote" /\ m[i].cid = c
           /\ Ended(m, c) => \/ Ended(l, c)
                             \/ \E i \in New(m, Len(l)) : m[i].kind \in Dead /\ m[i].cid = c
<1>1. Len(l) \in Nat /\ Len(m) \in Nat
  BY LenProperties
<1>2. \A i \in 1 .. Len(m) : i \in New(m, Len(l)) \/ (i \in 1 .. Len(l) /\ m[i] = l[i])
  BY <1>1 DEF Grows, New
<1>3. \A r : Counts(m, r) => Counts(l, r)
  BY CountsStays
<1> QED
  BY <1>2, <1>3 DEF Standing, Ended

LEMMA TailOnce ==
    ASSUME NEW s \in Seq(Candidates), s # <<>>, Once(s)
    PROVE  /\ Once(Tail(s)) /\ 1 \in 1 .. Len(s)
           /\ \A k \in 1 .. Len(Tail(s)) : /\ k + 1 \in 1 .. Len(s) /\ k + 1 # 1
                                           /\ Tail(s)[k] = s[k + 1] /\ Tail(s)[k] # s[1]
<1>1. /\ Len(s) \in Nat \ {0} /\ Tail(s) \in Seq(Candidates) /\ Len(Tail(s)) = Len(s) - 1
      /\ \A i \in 1 .. Len(Tail(s)) : Tail(s)[i] = s[i + 1]
  BY EmptySeq, HeadTailProperties
<1>2. DOMAIN s = 1 .. Len(s) /\ DOMAIN Tail(s) = 1 .. Len(s) - 1
  BY <1>1, LenProperties
<1>3. \A i, j \in 1 .. Len(s) : s[i] = s[j] => i = j
  BY <1>2 DEF Once
<1>4. \A k \in 1 .. Len(s) - 1 : k + 1 \in 1 .. Len(s) /\ k + 1 # 1
  BY <1>1
<1>5. ASSUME NEW i \in 1 .. Len(s) - 1, NEW j \in 1 .. Len(s) - 1, Tail(s)[i] = Tail(s)[j] PROVE i = j
  <2>1. i + 1 = j + 1
    BY <1>1, <1>3, <1>4, <1>5
  <2> QED
    BY <2>1
<1>6. 1 \in 1 .. Len(s)
  BY <1>1
<1> QED
  BY <1>1, <1>2, <1>3, <1>4, <1>5, <1>6 DEF Once

LEMMA FateStep ==
    ASSUME TypeInv, NamedInv, FateInv, Move
    PROVE  FateInv'
<1>1. IsLedger(ledger) /\ ledger \in Seq(Row) /\ ctx.order \in Seq(Candidates) /\ Len(ctx.order) \in Nat
  BY IsLedgerNow, TypeOKIs, LenProperties DEF NamedInv, LedgerTyped, TypeInv, Placed, Context
<1>2. ledger' \in Seq(Row) /\ Len(ledger) \in Nat /\ Len(ledger') \in Nat /\ Grows(ledger, ledger')
  BY MoveGrows
<1>3. ASSUME ctx'.order = <<>> PROVE FateInv'
  BY <1>3 DEF FateInv, Once
<1>4. \A c : /\ Standing(ledger', c) => \/ Standing(ledger, c)
                                        \/ \E i \in New(ledger', Len(ledger)) :
                                                ledger'[i].kind = "promote" /\ ledger'[i].cid = c
             /\ Ended(ledger', c) => \/ Ended(ledger, c)
                                     \/ \E i \in New(ledger', Len(ledger)) :
                                                ledger'[i].kind \in Dead /\ ledger'[i].cid = c
  BY <1>1, <1>2, FateStays
<1>5. ASSUME NextPlace,
             \A c : c # Current => /\ Standing(ledger', c) => Standing(ledger, c)
                                   /\ Ended(ledger', c) => Ended(ledger, c)
      PROVE  FateInv'
  <2>1. ctx.order # <<>> /\ ctx'.order = Tail(ctx.order) /\ pc' = "take"
    BY <1>5 DEF NextPlace
  <2>2. /\ Once(ctx'.order)
        /\ \A k \in 1 .. Len(ctx'.order) : /\ k + 1 \in 1 .. Len(ctx.order) /\ k + 1 # 1
                                           /\ ctx'.order[k] = ctx.order[k + 1] /\ ctx'.order[k] # Current
    BY <1>1, <2>1, TailOnce DEF FateInv, Current
  <2> QED
    BY <1>5, <2>2 DEF FateInv, Awaits
<1>6. ASSUME SamePlace,
             \A c : /\ Standing(ledger', c) => Standing(ledger, c)
                    /\ Ended(ledger', c) => Ended(ledger, c)
      PROVE  FateInv'
  BY <1>6 DEF FateInv, Awaits, SamePlace
<1>7. CASE Quiet
  <2>1. New(ledger', Len(ledger)) = {}
    BY <1>2, <1>7 DEF Quiet, New
  <2> QED
    BY <1>3, <1>4, <1>5, <1>6, <1>7, <2>1 DEF Quiet
<1>8. ASSUME NEW row \in Row, Notes(row) PROVE FateInv'
  <2>1. \A i \in New(ledger', Len(ledger)) : ledger'[i] = row
    BY <1>1, <1>8, WriteGrows DEF Notes
  <2>2. \A c : /\ Standing(ledger', c) => Standing(ledger, c)
               /\ Ended(ledger', c) => Ended(ledger, c)
    BY <1>4, <1>8, <2>1 DEF Notes, Plain, Dead
  <2> QED
    BY <1>5, <1>6, <1>8, <2>2 DEF Notes
<1>9. ASSUME NEW row \in Row, Ends(row) PROVE FateInv'
  <2>1. \A i \in New(ledger', Len(ledger)) : ledger'[i] = row
    BY <1>1, <1>9, WriteGrows DEF Ends
  <2>2. /\ \A c : Standing(ledger', c) => Standing(ledger, c)
        /\ \A c : c # Current => (Ended(ledger', c) => Ended(ledger, c))
    BY <1>4, <1>9, <2>1 DEF Ends, Dead
  <2>3. CASE ctx'.order = ctx.order /\ pc' = "badhita"
    <3>1. \A k \in 1 .. Len(ctx.order) : k # 1 => ctx.order[k] # Current
      BY <1>1, <1>9, TailOnce, LenProperties DEF FateInv, Once, Current, Ends
    <3> QED
      BY <2>2, <2>3, <3>1 DEF FateInv, Awaits
  <2> QED
    BY <1>5, <1>9, <2>2, <2>3 DEF Ends
<1>10. ASSUME NEW row \in Row, Crowns(row) PROVE FateInv'
  <2>1. \A i \in New(ledger', Len(ledger)) : ledger'[i] = row
    BY <1>1, <1>10, WriteGrows DEF Crowns
  <2>2. /\ \A c : c # Current => (Standing(ledger', c) => Standing(ledger, c))
        /\ \A c : Ended(ledger', c) => Ended(ledger, c)
    BY <1>4, <1>10, <2>1 DEF Crowns, Dead
  <2> QED
    BY <1>5, <1>10, <2>2 DEF Crowns
<1>11. ASSUME NEW order, Picks(order) PROVE FateInv'
  <2>1. /\ order \in Seq(Candidates) /\ In(order) \subseteq Live(Replay(ledger), ctx.inc)
        /\ New(ledger', Len(ledger)) = {}
    BY <1>11, PicksGrows
  <2>2. ctx'.order = order /\ Once(order) /\ pc' # "badhita"
    BY <1>11 DEF Picks
  <2>3. ASSUME NEW c \in In(order) PROVE ~Standing(ledger', c) /\ ~Ended(ledger', c)
    <3>1. \A i \in 1 .. Len(ledger) : ledger[i].cid = c =>
            /\ ledger[i].kind \notin Dead
            /\ ledger[i].kind = "promote" => ~Counts(ledger, ledger[i])
      BY <1>1, <2>1, LiveIsFresh
    <3>2. ~Standing(ledger, c) /\ ~Ended(ledger, c)
      BY <3>1 DEF Standing, Ended
    <3> QED
      BY <1>4, <2>1, <3>2 DEF Dead
  <2> QED
    BY <2>2, <2>3 DEF FateInv, Awaits, In
<1> QED
  BY <1>7, <1>8, <1>9, <1>10, <1>11 DEF Move

LEMMA LedgerDomains ==
    ASSUME TypeInv, Move
    PROVE  /\ DOMAIN ledger = 1 .. Len(ledger) /\ DOMAIN ledger' = 1 .. Len(ledger')
           /\ ledger \in Seq(Row) /\ ledger' \in Seq(Row)
           /\ Len(ledger) \in Nat /\ Len(ledger') \in Nat /\ Grows(ledger, ledger')
<1>1. ledger \in Seq(Row)
  BY TypeOKIs DEF TypeInv, Placed, LedgerTyped
<1> QED
  BY <1>1, MoveGrows, LenProperties

\* A promote row enters for the candidate at hand, at the step for it, and alone.
LEMMA Crowned ==
    ASSUME TypeInv, Move, NEW i \in New(ledger', Len(ledger)), ledger'[i].kind = "promote"
    PROVE  i = Len(ledger) + 1 /\ ledger'[i].cid = Current /\ pc = "promote" /\ ctx.order # <<>>
<1>1. ledger \in Seq(Row) /\ Len(ledger) \in Nat
  BY LedgerDomains
<1>2. CASE Quiet
  BY <1>1, <1>2 DEF Quiet, New
<1>3. ASSUME NEW row \in Row, Notes(row) \/ Ends(row) \/ Crowns(row)
      PROVE  i = Len(ledger) + 1 /\ ledger'[i].cid = Current /\ pc = "promote" /\ ctx.order # <<>>
  <2>1. Len(ledger') = Len(ledger) + 1 /\ ledger'[i] = row
    BY <1>1, <1>3, WriteGrows DEF Notes, Ends, Crowns
  <2>2. i = Len(ledger) + 1
    BY <1>1, <2>1 DEF New
  <2>3. row.kind = "promote"
    BY <2>1
  <2> QED
    BY <1>3, <2>1, <2>2, <2>3 DEF Notes, Ends, Crowns, Plain, Dead, NextPlace
<1>4. ASSUME NEW order, Picks(order) PROVE FALSE
  BY <1>4, PicksGrows
<1> QED
  BY <1>2, <1>3, <1>4 DEF Move

LEMMA PromotedOnceStep ==
    ASSUME TypeInv, NamedInv, FateInv, PromotedOnce, Move
    PROVE  PromotedOnce'
<1>1. /\ DOMAIN ledger = 1 .. Len(ledger) /\ DOMAIN ledger' = 1 .. Len(ledger')
      /\ ledger \in Seq(Row) /\ ledger' \in Seq(Row)
      /\ Len(ledger) \in Nat /\ Len(ledger') \in Nat /\ Grows(ledger, ledger')
  BY LedgerDomains
<1>2. \A r : Counts(ledger', r) => Counts(ledger, r)
  BY <1>1, CountsStays
<1>3. \A i \in 1 .. Len(ledger') : i \in New(ledger', Len(ledger)) \/ (i \in 1 .. Len(ledger) /\ ledger'[i] = ledger[i])
  BY <1>1 DEF Grows, New
<1>4. ASSUME NEW i \in 1 .. Len(ledger), NEW j \in New(ledger', Len(ledger)),
             ledger[i].kind = "promote", ledger'[j].kind = "promote", ledger[i].cid = ledger'[j].cid,
             Counts(ledger, ledger[i])
      PROVE  FALSE
  <2>1. ledger'[j].cid = Current /\ pc = "promote" /\ ctx.order # <<>>
    BY <1>4, Crowned
  <2>2. ctx.order \in Seq(Candidates)
    BY TypeOKIs DEF TypeInv, Placed, Context
  <2>3. 1 \in 1 .. Len(ctx.order)
    BY <2>1, <2>2, TailOnce DEF FateInv
  <2>4. ~Standing(ledger, Current)
    BY <2>3 DEF FateInv, Awaits, Current
  <2> QED
    BY <1>4, <2>1, <2>4 DEF Standing
<1>5. ASSUME NEW i \in New(ledger', Len(ledger)), NEW j \in New(ledger', Len(ledger)),
             ledger'[i].kind = "promote", ledger'[j].kind = "promote"
      PROVE  i = j
  BY <1>5, Crowned
<1> QED
  BY <1>1, <1>2, <1>3, <1>4, <1>5 DEF PromotedOnce

LEMMA DeadNotPromotedStep ==
    ASSUME TypeInv, NamedInv, FateInv, DeadNotPromoted, Move
    PROVE  DeadNotPromoted'
<1>1. /\ DOMAIN ledger = 1 .. Len(ledger) /\ DOMAIN ledger' = 1 .. Len(ledger')
      /\ Len(ledger) \in Nat /\ Len(ledger') \in Nat /\ Grows(ledger, ledger')
  BY LedgerDomains
<1>2. SUFFICES ASSUME NEW j \in 1 .. Len(ledger'), ledger'[j].kind = "promote",
                      NEW i \in 1 .. j - 1, ledger'[i].cid = ledger'[j].cid
               PROVE  ledger'[i].kind \notin Dead
  BY <1>1 DEF DeadNotPromoted, Dead
<1>3. CASE j \in 1 .. Len(ledger)
  <2>1. i \in 1 .. Len(ledger)
    BY <1>1, <1>3
  <2> QED
    BY <1>1, <1>2, <1>3, <2>1 DEF DeadNotPromoted, Dead, Grows
<1>4. CASE j \in New(ledger', Len(ledger))
  <2>1. j = Len(ledger) + 1 /\ ledger'[j].cid = Current /\ pc = "promote" /\ ctx.order # <<>>
    BY <1>2, <1>4, Crowned
  <2>2. i \in 1 .. Len(ledger) /\ ledger'[i] = ledger[i]
    BY <1>1, <2>1 DEF Grows
  <2>3. ctx.order \in Seq(Candidates)
    BY TypeOKIs DEF TypeInv, Placed, Context
  <2>4. 1 \in 1 .. Len(ctx.order)
    BY <2>1, <2>3, TailOnce DEF FateInv
  <2>5. ~Ended(ledger, Current)
    BY <2>1, <2>4 DEF FateInv, Awaits, Current
  <2> QED
    BY <1>2, <2>1, <2>2, <2>5 DEF Ended
<1> QED
  BY <1>1, <1>3, <1>4 DEF New

FoldInv == TypeInv /\ NamedInv /\ FateInv /\ PromotedOnce /\ DeadNotPromoted

LEMMA FoldInit == ASSUME Init PROVE FoldInv
<1>1. ledger[1].kind = "propose" /\ Len(ledger) = 1 /\ DOMAIN ledger = {1} /\ ctx.order = <<>>
  BY DEF Init, Idle
<1>2. FateInv
  BY <1>1 DEF FateInv, Once
<1>3. PromotedOnce /\ DeadNotPromoted
  BY <1>1 DEF PromotedOnce, DeadNotPromoted
<1> QED
  BY <1>2, <1>3, TypeInit, NamedInit DEF FoldInv

LEMMA FoldStep == ASSUME FoldInv, [Next]_vars PROVE FoldInv'
<1>1. TypeInv /\ NamedInv /\ FateInv /\ PromotedOnce /\ DeadNotPromoted /\ Move
  BY Moves DEF FoldInv
<1>2. TypeInv' /\ NamedInv'
  BY <1>1, TypeStep, NamedStep
<1> QED
  BY <1>1, <1>2, FateStep, PromotedOnceStep, DeadNotPromotedStep DEF FoldInv

LEMMA FoldAlways == Spec => []FoldInv
<1>1. Init => FoldInv
  BY FoldInit
<1>2. FoldInv /\ [Next]_vars => FoldInv'
  BY FoldStep
<1> QED
  BY <1>1, <1>2, PTL DEF Spec

\* What was pruned, skipped or audited high is never promoted: not by the process that
\* wrote the row, nor by one launched after it died, whatever an operator withdraws.
THEOREM EndedNeverPromoted == Spec => []DeadNotPromoted
<1>1. FoldInv => DeadNotPromoted
  BY DEF FoldInv
<1> QED
  BY <1>1, FoldAlways, PTL

\* No candidate has two promotions that stand, though one whose promotion was withdrawn
\* may be judged and promoted again.
THEOREM PromotedOnlyOnce == Spec => []PromotedOnce
<1>1. FoldInv => PromotedOnce
  BY DEF FoldInv
<1> QED
  BY <1>1, FoldAlways, PTL

\* A launch.
Starts == pc = "off" /\ pc' # "off" => ctx'.inc = Base \/ Replay(ledger)[ctx'.inc].promoted

LEMMA InheritStanding ==
    ASSUME ledger \in Seq(Row), NEW a
    PROVE  Inherit(ledger, a) = Base \/ Standing(ledger, Inherit(ledger, a))
<1>1. Len(ledger) \in Nat /\ DOMAIN ledger = 1 .. Len(ledger)
  BY LenProperties
<1> DEFINE S == {i \in Promotions(ledger) : Counts(ledger, ledger[i])}
           c == LastOf(ledger, S)
<1>2. S \in SUBSET (1 .. Len(ledger))
  BY <1>1 DEF Promotions
<1>3. Inherit(ledger, a) \in {c, Base}
  BY DEF Inherit
<1>4. CASE S = {}
  BY <1>3, <1>4 DEF LastOf
<1>5. CASE S # {}
  <2>1. Max(S) \in S
    <3> HIDE DEF S
    <3> QED
      BY <1>1, <1>2, <1>5, LastRow
  <2>2. c = ledger[Max(S)].cid
    BY <1>5 DEF LastOf
  <2>3. Standing(ledger, c)
    BY <1>1, <2>1, <2>2 DEF Standing, Promotions
  <2> QED
    BY <1>3, <2>3
<1> QED
  BY <1>4, <1>5

\* The fold finds every promotion that stands.
LEMMA StandingShows ==
    ASSUME NEW l, IsLedger(l), NEW c, Standing(l, c)
    PROVE  Replay(l)[c].promoted
<1>1. l \in Seq(Row) /\ Len(l) \in Nat /\ Len(l) \in 0 .. Len(l)
  BY LenProperties DEF IsLedger
<1>2. Has(l, Len(l), "promote", c)
  BY DEF Standing, Has
<1>3. c \in Models
  <2>1. PICK i \in 1 .. Len(l) : l[i].cid = c
    BY DEF Standing
  <2>2. l[i] \in Row
    BY <1>1, RowTyped
  <2> QED
    BY <2>1, <2>2 DEF Row
<1> QED
  BY <1>1, <1>2, <1>3, ViewFlags DEF Flags, Replay

LEMMA StartsStep == ASSUME FoldInv, [Next]_vars PROVE Starts
<1>1. IsLedger(ledger)
  BY IsLedgerNow DEF FoldInv, NamedInv
<1>2. SUFFICES ASSUME pc = "off", pc' # "off"
               PROVE  ctx'.inc = Base \/ Replay(ledger)[ctx'.inc].promoted
  BY DEF Starts
<1>3. PICK n \in 1 .. MaxLaunches : Launch(n)
  BY <1>2 DEF Next, Step, Propose, Proposed, Predict, Predicted, Deliberate, Select, LastRound, Take, BadRecipe,
     Skip, RoundDone, Train, TrainFails, TrainFailed, Evaluate, Pair, PairFails, Observe, Prune, Canary, Promote, Close,
     Crash, Withdraw, LoseAdapter, vars
<1>4. ctx'.inc = Inherit(ledger, adapters)
  BY <1>3 DEF Launch, Idle
<1>5. ledger \in Seq(Row)
  BY <1>1 DEF IsLedger
<1> QED
  BY <1>1, <1>4, <1>5, InheritStanding, StandingShows

\* A launch pairs against the baseline or a candidate whose promotion stands in the very
\* fold the launch goes on to read, whatever was withdrawn and whatever adapter was lost.
THEOREM LaunchedOnStanding == Spec => LaunchOnStanding
<1>1. FoldInv /\ [Next]_vars => [Starts]_vars
  BY StartsStep
<1> QED
  BY <1>1, FoldAlways, PTL DEF Spec, LaunchOnStanding, Starts

-----------------------------------------------------------------------------
(* Where no row is withdrawn, what a boundary decided stays decided.       *)

PairRow(r) == r.kind = "observe" /\ r.arm = "candidate"

NoneWithdrawn(l) == \A i \in 1 .. Len(l) : l[i].kind # "sublate"

\* A pair among the first n rows decided about c.
Settled(l, n, c) == \E i \in 1 .. n : PairRow(l[i]) /\ l[i].cid = c /\ l[i].boundary \in Decided

\* A pair has a decision or none yet; the incumbent's row is about the baseline or a
\* candidate promoted before; no candidate is chosen or paired after its decision.
RowJudged(l, i) ==
    /\ PairRow(l[i]) => l[i].boundary # "none"
    /\ l[i].kind = "observe" /\ ~PairRow(l[i]) =>
            l[i].cid = Base \/ \E j \in 1 .. i - 1 : l[j].kind = "promote" /\ l[j].cid = l[i].cid
    /\ PairRow(l[i]) \/ l[i].kind = "select" => ~Settled(l, i - 1, l[i].cid)

WellJudged(l) == \A i \in 1 .. Len(l) : RowJudged(l, i)

\* The steps at which the boundary has decided about Current.
JudgedSteps == {"prune", "canary", "badhita", "promote"}

Open(k) == (pc \in JudgedSteps => k # 1) => ~Settled(ledger, Len(ledger), ctx.order[k])

JudgedInv ==
    /\ NoneWithdrawn(ledger) /\ WellJudged(ledger)
    /\ ctx.inc = Base \/ Standing(ledger, ctx.inc)
    /\ \A k \in 1 .. Len(ctx.order) : Open(k)

LEMMA AllCount ==
    ASSUME NEW l \in Seq(Row), NoneWithdrawn(l), NEW r
    PROVE  Counts(l, r)
<1>1. DOMAIN l = 1 .. Len(l)
  BY LenProperties
<1> QED
  BY <1>1 DEF NoneWithdrawn, Counts, Withdrawn

LEMMA SettledNext ==
    ASSUME NEW l, NEW k \in Nat, NEW c
    PROVE  Settled(l, k + 1, c) <=>
               Settled(l, k, c) \/ (PairRow(l[k + 1]) /\ l[k + 1].cid = c /\ l[k + 1].boundary \in Decided)
<1>1. \A j \in Nat : j \in 1 .. k + 1 <=> j \in 1 .. k \/ j = k + 1
  OBVIOUS
<1> QED
  BY <1>1 DEF Settled

\* A decision is what the fold finds, unless a promotion has taken its place.
LEMMA SettledShows ==
    ASSUME NEW l, IsLedger(l), NoneWithdrawn(l), WellJudged(l), NEW c \in Candidates,
           Settled(l, Len(l), c)
    PROVE  Replay(l)[c].boundary \in Decided \/ Replay(l)[c].promoted
<1>0. Len(l) \in Nat /\ l \in Seq(Row) /\ c \in Models /\ c # Base
  BY LenProperties, CandidatesNat DEF IsLedger, Base
<1> DEFINE S == {k \in 0 .. Len(l) : Settled(l, k, c) =>
                    Views(l)[k][c].boundary \in Decided \/ Views(l)[k][c].promoted}
<1>1. 0 \in S
  BY <1>0 DEF Settled
<1>2. ASSUME NEW k \in 0 .. Len(l) - 1, k \in S PROVE k + 1 \in S
  <2>1. k + 1 \in 0 .. Len(l) /\ k \in Nat /\ k + 1 \in 1 .. Len(l) /\ k \in 0 .. Len(l) /\ (k + 1) - 1 = k
    BY <1>0
  <2> DEFINE v == Views(l)[k][c]
             w == Views(l)[k + 1][c]
             r == l[k + 1]
  <2>2. /\ v \in View /\ r \in Row
        /\ w = IF r.cid = c /\ Counts(l, r) THEN ApplyTo(v, r) ELSE v
    BY <1>0, ViewReads
  <2>3. Counts(l, r)
    BY <1>0, AllCount
  <2>4. /\ ApplyTo(v, r).promoted <=> v.promoted \/ r.kind = "promote"
        /\ ApplyTo(v, r).boundary = IF r.kind = "observe" THEN r.boundary
                                    ELSE IF r.kind = "select" THEN "none" ELSE v.boundary
    BY <2>2, ApplyFields
  <2>5. Settled(l, k, c) => v.boundary \in Decided \/ v.promoted
    BY <1>2
  <2>6. Settled(l, k + 1, c) => Settled(l, k, c) \/ (PairRow(r) /\ r.cid = c /\ r.boundary \in Decided)
    BY <2>1, SettledNext
  <2>7. r.cid = c /\ r.kind = "observe" /\ ~PairRow(r) => v.promoted
    <3>1. SUFFICES ASSUME r.cid = c, r.kind = "observe", ~PairRow(r) PROVE v.promoted
      OBVIOUS
    <3>2. PICK j \in 1 .. k : l[j].kind = "promote" /\ l[j].cid = c
      BY <1>0, <2>1, <3>1 DEF WellJudged, RowJudged
    <3>3. Has(l, k, "promote", c)
      BY <1>0, <3>2, AllCount DEF Has
    <3> QED
      BY <1>0, <2>1, <3>3, ViewFlags DEF Flags
  <2>8. r.cid = c /\ Settled(l, k, c) => ~PairRow(r) /\ r.kind # "select"
    BY <2>1 DEF WellJudged, RowJudged
  <2> HIDE DEF v, w, r
  <2>9. Settled(l, k + 1, c) => w.boundary \in Decided \/ w.promoted
    BY <2>2, <2>3, <2>4, <2>5, <2>6, <2>7, <2>8 DEF PairRow
  <2> QED
    BY <2>1, <2>9 DEF w
<1> HIDE DEF S
<1>3. \A k \in 0 .. Len(l) - 1 : k \in S => k + 1 \in S
  BY <1>2
<1>4. Len(l) \in S
  BY <1>0, <1>1, <1>3, UpTo, Zenon
<1> QED
  BY <1>4 DEF S, Replay

LEMMA LiveIsOpen ==
    ASSUME NEW l, IsLedger(l), NoneWithdrawn(l), WellJudged(l), NEW inc, NEW c \in Live(Replay(l), inc)
    PROVE  ~Settled(l, Len(l), c)
BY SettledShows DEF Live

\* What a step that samples no effect does.
Unpaired ==
    /\ \A i \in New(ledger', Len(ledger)) : ledger'[i].kind \notin {"observe", "sublate"}
    /\ ctx'.inc \in {ctx.inc, Base} \/ Standing(ledger', ctx'.inc)
    /\ \/ ctx'.order = <<>>
       \/ ctx'.order = ctx.order /\ (pc' \in JudgedSteps <=> pc \in JudgedSteps)
       \/ NextPlace
       \/ \E order \in Seq(Candidates) : Picks(order) /\ pc' \notin JudgedSteps
    /\ \A i \in New(ledger', Len(ledger)) : ledger'[i].kind = "select" =>
            ledger'[i].cid \in In(ctx.order) /\ pc \notin JudgedSteps

InheritArm(row) ==
    /\ Write(row) /\ row.kind = "observe" /\ ~PairRow(row) /\ row.cid = ctx.inc
    /\ ctx'.order = ctx.order /\ ctx'.inc = ctx.inc /\ pc = "pair" /\ pc' = "paired" /\ ctx'.seed = ctx.seed

CandidateArm(row) ==
    /\ Write(row) /\ PairRow(row) /\ row.cid = Current /\ row.seed = ctx.seed /\ row.boundary # "none"
    /\ pc = "paired" /\ ctx.order # <<>> /\ ctx'.inc = ctx.inc
    /\ \/ row.boundary \notin Decided /\ NextPlace
       \/ row.boundary \in Decided /\ pc' \in JudgedSteps /\ ctx'.order = ctx.order

LEMMA NoWithdraw ==
    ASSUME MaxWithdrawals = 0, ledger \in Seq(Row), NoneWithdrawn(ledger), Withdraw
    PROVE  FALSE
<1>1. DOMAIN ledger = 1 .. Len(ledger)
  BY LenProperties
<1>2. Withdrawn(ledger) = {}
  BY <1>1 DEF Withdrawn, NoneWithdrawn
<1>3. Cardinality(Withdrawn(ledger)) = 0
  BY <1>2, FS_EmptySet
<1> QED
  BY <1>3 DEF Withdraw

LEMMA WriteKind ==
    ASSUME LedgerTyped, ctx.night \in Nat, NoneWithdrawn(ledger),
           NEW kind \in Kinds \ {"sublate"}, NEW c \in Models, Write(RowOf(kind, c))
    PROVE  /\ \A i \in New(ledger', Len(ledger)) : ledger'[i].kind = kind
           /\ kind = "promote" => Standing(ledger', c)
<1> DEFINE row == RowOf(kind, c)
<1>1. row \in Row /\ row.kind = kind /\ row.cid = c
  <2>1. row \in Row
    BY RowOfTyped
  <2> QED
    BY <2>1 DEF RowOf
<1>2. Write(row) /\ ledger \in Seq(Row)
  BY DEF LedgerTyped
<1> HIDE DEF row
<1>3. /\ Len(ledger) \in Nat /\ Len(ledger') = Len(ledger) + 1 /\ ledger' \in Seq(Row)
      /\ Grows(ledger, ledger') /\ \A i \in New(ledger', Len(ledger)) : ledger'[i] = row
  BY <1>1, <1>2, WriteGrows
<1>4. NoneWithdrawn(ledger')
  BY <1>1, <1>3 DEF NoneWithdrawn, Grows, New
<1>5. Len(ledger) + 1 \in New(ledger', Len(ledger)) /\ Len(ledger) + 1 \in 1 .. Len(ledger')
  BY <1>3 DEF New
<1>6. kind = "promote" => Standing(ledger', c)
  BY <1>1, <1>3, <1>4, <1>5, AllCount DEF Standing
<1> QED
  BY <1>1, <1>3, <1>6

LEMMA PairStep ==
    ASSUME TypeInv, MaxWithdrawals = 0, IsLedger(ledger), JudgedInv, [Next]_vars
    PROVE  Unpaired \/ \E row \in Row : InheritArm(row) \/ CandidateArm(row)
<1>0. /\ LedgerTyped /\ ledger \in Seq(Row) /\ ctx \in Context /\ pc \in Steps
      /\ pc \in AtHand => ctx.order # <<>> /\ Current \in Models
      /\ ctx.order \in Seq(Candidates) /\ Len(ledger) \in Nat /\ ctx.night \in Nat
      /\ NoneWithdrawn(ledger) /\ DOMAIN ledger = 1 .. Len(ledger)
  BY TypeOKIs, LenProperties, AtHandTyped DEF TypeInv, Placed, LedgerTyped, Context, JudgedInv
<1>a. ASSUME ledger' = ledger PROVE New(ledger', Len(ledger)) = {}
  BY <1>0, <1>a DEF New
<1>b. ASSUME ledger' = ledger, ctx'.inc \in {ctx.inc, Base} \/ Standing(ledger', ctx'.inc),
             \/ ctx'.order = <<>>
             \/ ctx'.order = ctx.order /\ (pc' \in JudgedSteps <=> pc \in JudgedSteps)
             \/ NextPlace
      PROVE  Unpaired
  BY <1>a, <1>b DEF Unpaired
<1>c. ASSUME NEW kind \in Kinds \ {"sublate", "observe", "select"}, NEW c \in Models, Write(RowOf(kind, c)),
             \/ ctx'.inc = ctx.inc
             \/ kind = "promote" /\ ctx'.inc = c,
             \/ ctx'.order = <<>>
             \/ ctx'.order = ctx.order /\ (pc' \in JudgedSteps <=> pc \in JudgedSteps)
             \/ NextPlace
      PROVE  Unpaired
  <2>1. /\ \A i \in New(ledger', Len(ledger)) : ledger'[i].kind = kind
        /\ kind = "promote" => Standing(ledger', c)
    BY <1>0, <1>c, WriteKind
  <2> QED
    BY <1>c, <2>1 DEF Unpaired
<1>d. ASSUME ctx' = Idle, ledger' = ledger PROVE Unpaired
  <2>1. ctx'.order = <<>> /\ ctx'.inc = Base
    BY <1>d DEF Idle
  <2> QED
    BY <1>b, <1>d, <2>1
<1>e. ASSUME NextCandidate, ctx.order # <<>> PROVE NextPlace /\ ctx'.inc = ctx.inc
  BY <1>0, <1>e DEF NextCandidate, NextPlace, Goto, Context
<1> USE DEF Goto
<1>1. ASSUME NEW n \in 1 .. MaxLaunches, Launch(n) PROVE Unpaired
  <2>1. ctx'.order = <<>> /\ ctx'.inc = Inherit(ledger, adapters) /\ ledger' = ledger
    BY <1>1 DEF Launch, Idle
  <2>2. Inherit(ledger, adapters) = Base \/ Standing(ledger, Inherit(ledger, adapters))
    BY <1>0, InheritStanding
  <2> QED
    BY <1>b, <2>1, <2>2
<1>2. CASE Propose
  <2>1. /\ NextId(ledger) \in Models /\ Write(RowOf("propose", NextId(ledger)))
        /\ ctx'.order = ctx.order /\ ctx'.inc = ctx.inc /\ pc' = pc
    BY <1>0, <1>2, CandidatesNat DEF Propose, Context
  <2>2. "propose" \in Kinds \ {"sublate", "observe", "select"}
    BY DEF Kinds
  <2> QED
    BY <1>c, <2>1, <2>2
<1>3. CASE Proposed \/ LastRound \/ RoundDone \/ Take
  <2>1. /\ ctx'.order = ctx.order /\ ctx'.inc = ctx.inc /\ ledger' = ledger
        /\ pc \notin JudgedSteps /\ pc' \notin JudgedSteps
    BY <1>0, <1>3 DEF Proposed, LastRound, RoundDone, Take, Context, JudgedSteps
  <2> QED
    BY <1>b, <2>1
<1>3a. CASE BadRecipe
  BY <1>3a, <1>b, <1>e DEF BadRecipe
<1>4. CASE Predict
  <2>0. Head(ctx.accepted) \in Models
    <3>1. ctx.accepted \in Seq(Candidates) /\ ctx.accepted # <<>>
      BY <1>0, <1>4 DEF Predict, Context
    <3> QED
      BY <3>1, HeadTailProperties, CandidatesNat
  <2>1. /\ Head(ctx.accepted) \in Models /\ (ledger' = ledger \/ Write(RowOf("predict", Head(ctx.accepted))))
        /\ ctx'.order = ctx.order /\ ctx'.inc = ctx.inc /\ pc' = pc
    BY <1>0, <1>4, <2>0 DEF Predict, Context
  <2>2. "predict" \in Kinds \ {"sublate", "observe", "select"}
    BY DEF Kinds
  <2> QED
    BY <1>b, <1>c, <2>1, <2>2
<1>5. CASE Predicted \/ Evaluate
  <2>1. /\ ctx'.order = ctx.order /\ ctx'.inc = ctx.inc /\ ledger' = ledger
        /\ pc \notin JudgedSteps /\ pc' \notin JudgedSteps
    BY <1>0, <1>5 DEF Predicted, Evaluate, Context, JudgedSteps
  <2> QED
    BY <1>b, <2>1
<1>5a. CASE TrainFails
  <2>1. /\ ctx'.order = ctx.order /\ ctx'.inc = ctx.inc /\ pc = "train" /\ pc' = "train_failed"
        /\ ledger' = ledger \/ Write(RowOf("spend", Current))
    BY <1>0, <1>5a DEF TrainFails, Context
  <2>2. "spend" \in Kinds \ {"sublate", "observe", "select"} /\ pc \notin JudgedSteps /\ pc' \notin JudgedSteps
    BY <2>1 DEF Kinds, JudgedSteps
  <2>3. Current \in Models
    BY <1>0, <2>1 DEF AtHand, Steps
  <2> QED
    BY <1>b, <1>c, <2>1, <2>2, <2>3
<1>6. CASE Deliberate
  <2>0. ledger' = ledger
    BY <1>6 DEF Deliberate
  <2>1. ASSUME NEW order \in Seq(Live(Replay(ledger), ctx.inc)), Once(order),
               ctx' = [ctx EXCEPT !.round = @ + 1, !.order = order],
               pc' = IF order = <<>> THEN "close" ELSE "select"
        PROVE  Unpaired
    <3>1. ctx'.order = order /\ ctx'.inc = ctx.inc /\ pc' \notin JudgedSteps /\ pc' # "badhita"
      BY <1>0, <2>1 DEF Context, JudgedSteps
    <3>2. Picks(order)
      BY <2>0, <2>1, <3>1 DEF Picks
    <3>3. order \in Seq(Candidates)
      BY <3>2, PicksGrows
    <3> QED
      BY <1>a, <2>0, <3>1, <3>2, <3>3 DEF Unpaired
  <2> QED
    BY <1>6, <1>d, <2>0, <2>1, DeliberateStep, Zenon
<1>6a. CASE Select
  <2> DEFINE c == ctx.order[ctx.selected + 1]
             row == RowOf("select", c)
  <2>1. c \in Models /\ c \in In(ctx.order) /\ "select" \in Kinds
    BY <1>6a, SelectsOne, CandidatesNat DEF In, Kinds
  <2>2. Write(row) /\ pc = "select" /\ pc' \in {"select", "take"}
    BY <1>6a DEF Select
  <2>3. row \in Row /\ row.kind = "select" /\ row.cid = c
    <3>1. row \in Row
      BY <1>0, <2>1, RowOfTyped
    <3> QED
      BY <3>1 DEF RowOf
  <2>4. ctx'.order = ctx.order /\ ctx'.inc = ctx.inc
    BY <1>0, <1>6a DEF Select, Context
  <2> HIDE DEF c, row
  <2>5. \A i \in New(ledger', Len(ledger)) : ledger'[i] = row
    BY <1>0, <2>2, <2>3, WriteGrows
  <2>6. pc \notin JudgedSteps /\ pc' \notin JudgedSteps
    BY <2>2 DEF JudgedSteps
  <2> QED
    BY <2>1, <2>3, <2>4, <2>5, <2>6 DEF Unpaired
<1>7. CASE Skip \/ TrainFailed \/ Prune
  <2>1. PICK kind \in Dead : Write(RowOf(kind, Current))
    BY <1>7 DEF Skip, TrainFailed, Prune, Dead
  <2>2. NextCandidate /\ ctx.order # <<>>
    BY <1>0, <1>7 DEF Skip, TrainFailed, Prune, AtHand, Steps
  <2>3. kind \in Kinds \ {"sublate", "observe", "select"}
    BY DEF Kinds, Dead
  <2>4. Current \in Models
    BY <1>0, <2>2, AtHandTyped, CandidatesNat
  <2> QED
    BY <1>c, <1>e, <2>1, <2>2, <2>3, <2>4
<1>8. CASE Train
  <2>1. /\ pc = "train" /\ pc' = "evaluate" /\ Write(RowOf("spend", Current)) /\ Current \in Models
        /\ ctx'.order = ctx.order /\ ctx'.inc = ctx.inc
    BY <1>0, <1>8 DEF Train, AtHand, Steps, Context
  <2>2. "spend" \in Kinds \ {"sublate", "observe", "select"} /\ pc \notin JudgedSteps /\ pc' \notin JudgedSteps
    BY <2>1 DEF Kinds, JudgedSteps
  <2> QED
    BY <1>c, <2>1, <2>2
<1>9. CASE Pair
  <2> DEFINE old == RowOf("observe", ctx.inc)
             row == [old EXCEPT !.arm = "incumbent", !.vs = ctx.inc, !.seed = ctx.seed]
  <2>1. ctx.inc \in Models /\ ctx.seed \in Nat /\ "observe" \in Kinds
    BY <1>0 DEF Context, Kinds
  <2>2. old \in Row /\ old.kind = "observe" /\ old.cid = ctx.inc
    <3>1. old \in Row
      BY <1>0, <2>1, RowOfTyped
    <3> QED
      BY <3>1 DEF RowOf
  <2>3. row \in Row /\ row.kind = "observe" /\ row.cid = ctx.inc /\ row.arm = "incumbent"
    <3> HIDE DEF old
    <3> QED
      BY <2>1, <2>2 DEF Row
  <2>4. /\ Write(row) /\ pc = "pair" /\ pc' = "paired"
        /\ ctx'.order = ctx.order /\ ctx'.inc = ctx.inc /\ ctx'.seed = ctx.seed
    BY <1>0, <1>9 DEF Pair, Context
  <2> HIDE DEF row
  <2>5. InheritArm(row)
    BY <2>3, <2>4 DEF InheritArm, PairRow
  <2> QED
    BY <2>3, <2>5
<1>10. CASE PairFails
  <2>1. /\ pc = "pair" /\ pc' = "take" /\ Write(RowOf("audit_high", Current)) /\ ctx.order # <<>>
        /\ ctx'.order = Tail(ctx.order) /\ ctx'.inc = ctx.inc /\ Current \in Models
    BY <1>0, <1>10 DEF PairFails, AtHand, Steps, Context
  <2>2. "audit_high" \in Kinds \ {"sublate", "observe", "select"} /\ NextPlace
    BY <2>1 DEF Kinds, NextPlace
  <2> QED
    BY <1>c, <2>1, <2>2
<1>11. CASE Observe
  <2>1. PICK b \in Boundary(Append(ctx.xs, ctx.inc)) :
            /\ Write([RowOf("observe", Current) EXCEPT !.arm = "candidate", !.vs = ctx.inc, !.seed = ctx.seed,
                         !.boundary = b, !.scored = Current \in ctx.predictions])
            /\ \/ b = "continue" /\ NextCandidate
               \/ b = "prune"    /\ Goto("prune")  /\ UNCHANGED ctx
               \/ b = "confirm"  /\ Goto("canary") /\ UNCHANGED ctx
    BY <1>11 DEF Observe
  <2> DEFINE scored == Current \in ctx.predictions
             old == RowOf("observe", Current)
             row == [old EXCEPT !.arm = "candidate", !.vs = ctx.inc, !.seed = ctx.seed,
                         !.boundary = b, !.scored = scored]
  <2>2. pc = "paired" /\ ctx.order # <<>> /\ Current \in Models /\ b \in {"continue"} \cup Decided
    BY <1>0, <1>11, BoundaryTyped DEF Observe, AtHand, Steps
  <2>3. old \in Row
    BY <1>0, <2>2, RowOfTyped DEF Kinds
  <2>4. scored \in BOOLEAN /\ old.kind = "observe" /\ old.cid = Current
    BY DEF RowOf
  <2>5. Write(row)
    BY <2>1
  <2>6. /\ row \in Row /\ row.kind = "observe" /\ row.cid = Current /\ row.arm = "candidate"
        /\ row.seed = ctx.seed /\ row.boundary = b
    <3> HIDE DEF scored, old
    <3> QED
      BY <1>0, <2>2, <2>3, <2>4 DEF Row, Context
  <2> HIDE DEF row
  <2>7. CASE b = "continue"
    <3>1. NextPlace /\ ctx'.inc = ctx.inc
      BY <1>e, <2>1, <2>2, <2>7
    <3>2. CandidateArm(row)
      BY <2>2, <2>5, <2>6, <2>7, <3>1 DEF CandidateArm, PairRow, Decided
    <3> QED
      BY <2>6, <3>2
  <2>8. CASE b \in Decided
    <3>1. ctx' = ctx /\ pc' \in JudgedSteps
      BY <2>1, <2>8 DEF JudgedSteps, Decided
    <3>2. CandidateArm(row)
      BY <2>2, <2>5, <2>6, <2>8, <3>1 DEF CandidateArm, PairRow, Decided
    <3> QED
      BY <2>6, <3>2
  <2> QED
    BY <2>2, <2>7, <2>8
<1>12. CASE Canary
  <2>1. /\ pc = "canary" /\ ctx.order # <<>> /\ Current \in Models
        /\ ctx'.order = ctx.order /\ ctx'.inc = ctx.inc
    BY <1>0, <1>12 DEF Canary, AtHand, Steps, Context
  <2>2. \/ ledger' = ledger /\ pc' = "promote"
        \/ pc' = "badhita" /\ Write(RowOf("audit_high", Current))
    BY <1>12 DEF Canary
  <2>3. "audit_high" \in Kinds \ {"sublate", "observe", "select"} /\ pc \in JudgedSteps /\ pc' \in JudgedSteps
    BY <2>1, <2>2 DEF Kinds, JudgedSteps
  <2> QED
    BY <1>b, <1>c, <2>1, <2>2, <2>3
<1>13. CASE Promote
  <2>1. /\ pc = "promote" /\ pc' = "take" /\ Write(RowOf("promote", Current)) /\ ctx.order # <<>>
        /\ ctx'.order = Tail(ctx.order) /\ ctx'.inc = Current /\ Current \in Models
    BY <1>0, <1>13 DEF Promote, AtHand, Steps, Context
  <2>2. "promote" \in Kinds \ {"sublate", "observe", "select"} /\ NextPlace
    BY <2>1 DEF Kinds, NextPlace
  <2> QED
    BY <1>c, <2>1, <2>2
<1>14. CASE Close \/ Crash
  BY <1>14, <1>d DEF Close, Crash
<1>15. CASE Withdraw
  BY <1>0, <1>15, NoWithdraw
<1>16. CASE LoseAdapter \/ UNCHANGED vars
  BY <1>16, <1>b DEF LoseAdapter, vars
<1> QED
  BY <1>1, <1>2, <1>3, <1>3a, <1>4, <1>5, <1>5a, <1>6, <1>6a, <1>7, <1>8, <1>9, <1>10, <1>11, <1>12, <1>13, <1>14, <1>15,
     <1>16 DEF Next, Step

LEMMA SettledStays ==
    ASSUME NEW l \in Seq(Row), NEW m \in Seq(Row), Grows(l, m), NEW n \in 0 .. Len(m), NEW c,
           Settled(m, n, c)
    PROVE  \/ Settled(l, Len(l), c)
           \/ \E j \in New(m, Len(l)) : PairRow(m[j]) /\ m[j].cid = c /\ m[j].boundary \in Decided
<1>1. Len(l) \in Nat /\ Len(m) \in Nat
  BY LenProperties
<1>2. \A i \in 1 .. n : i \in New(m, Len(l)) \/ (i \in 1 .. Len(l) /\ m[i] = l[i])
  BY <1>1 DEF Grows, New
<1> QED
  BY <1>2 DEF Settled

LEMMA SettledBefore ==
    ASSUME NEW l, NEW m, Len(l) \in Nat, Grows(l, m), NEW n \in 0 .. Len(l), NEW c
    PROVE  Settled(m, n, c) <=> Settled(l, n, c)
<1>1. \A i \in 1 .. n : i \in 1 .. Len(l) /\ m[i] = l[i]
  BY DEF Grows
<1> QED
  BY <1>1 DEF Settled

LEMMA StandingStays ==
    ASSUME NEW l \in Seq(Row), NEW m \in Seq(Row), Grows(l, m), NoneWithdrawn(m), NEW c, Standing(l, c)
    PROVE  Standing(m, c)
<1>1. Len(l) \in Nat /\ Len(m) \in Nat
  BY LenProperties
<1>2. \A i \in 1 .. Len(l) : i \in 1 .. Len(m) /\ m[i] = l[i]
  BY <1>1 DEF Grows
<1> QED
  BY <1>2, AllCount DEF Standing

LEMMA WellJudgedGrows ==
    ASSUME NEW l \in Seq(Row), NEW m \in Seq(Row), Grows(l, m), WellJudged(l),
           \A i \in New(m, Len(l)) : RowJudged(m, i)
    PROVE  WellJudged(m)
<1>1. Len(l) \in Nat /\ Len(m) \in Nat
  BY LenProperties
<1>2. ASSUME NEW i \in 1 .. Len(l) PROVE RowJudged(m, i)
  <2>1. m[i] = l[i] /\ \A j \in 1 .. i - 1 : m[j] = l[j]
    BY <1>1 DEF Grows
  <2>2. \A c : Settled(m, i - 1, c) <=> Settled(l, i - 1, c)
    BY <1>1, SettledBefore
  <2>3. RowJudged(l, i)
    BY DEF WellJudged
  <2> QED
    BY <2>1, <2>2, <2>3 DEF RowJudged
<1>3. \A i \in 1 .. Len(m) : i \in 1 .. Len(l) \/ i \in New(m, Len(l))
  BY <1>1 DEF New
<1> QED
  BY <1>2, <1>3 DEF WellJudged

LEMMA JudgedStep ==
    ASSUME TypeInv, NamedInv, FateInv, JudgedInv, MaxWithdrawals = 0, [Next]_vars
    PROVE  JudgedInv'
<1>1. /\ IsLedger(ledger) /\ ledger \in Seq(Row) /\ ctx.order \in Seq(Candidates) /\ Len(ctx.order) \in Nat
      /\ NoneWithdrawn(ledger) /\ WellJudged(ledger)
      /\ ctx.inc = Base \/ Standing(ledger, ctx.inc)
      /\ \A k \in 1 .. Len(ctx.order) : Open(k)
  BY IsLedgerNow, TypeOKIs, LenProperties DEF NamedInv, LedgerTyped, TypeInv, Placed, Context, JudgedInv
<1>2. /\ ledger' \in Seq(Row) /\ Len(ledger) \in Nat /\ Len(ledger') \in Nat /\ Grows(ledger, ledger')
  BY Moves, MoveGrows
<1>3. \A c : Settled(ledger', Len(ledger'), c) =>
                \/ Settled(ledger, Len(ledger), c)
                \/ \E j \in New(ledger', Len(ledger)) :
                        PairRow(ledger'[j]) /\ ledger'[j].cid = c /\ ledger'[j].boundary \in Decided
  BY <1>1, <1>2, SettledStays
<1>4. ASSUME \A i \in New(ledger', Len(ledger)) : ledger'[i].kind # "sublate" /\ RowJudged(ledger', i),
             ctx'.inc \in {ctx.inc, Base} \/ Standing(ledger', ctx'.inc),
             \A k \in 1 .. Len(ctx'.order) : Open(k)'
      PROVE  JudgedInv'
  <2>1. NoneWithdrawn(ledger')
    <3>1. \A i \in 1 .. Len(ledger') : i \in New(ledger', Len(ledger)) \/ (i \in 1 .. Len(ledger) /\ ledger'[i] = ledger[i])
      BY <1>2 DEF Grows, New
    <3> QED
      BY <1>1, <1>4, <3>1 DEF NoneWithdrawn
  <2>2. WellJudged(ledger')
    BY <1>1, <1>2, <1>4, WellJudgedGrows
  <2>3. ctx'.inc = Base \/ Standing(ledger', ctx'.inc)
    BY <1>1, <1>2, <1>4, <2>1, StandingStays
  <2> QED
    BY <1>4, <2>1, <2>2, <2>3 DEF JudgedInv
<1>5. ASSUME \A c : Settled(ledger', Len(ledger'), c) => Settled(ledger, Len(ledger), c), NextPlace
      PROVE  \A k \in 1 .. Len(ctx'.order) : Open(k)'
  <2>1. ctx.order # <<>> /\ ctx'.order = Tail(ctx.order)
    BY <1>5 DEF NextPlace
  <2>2. \A k \in 1 .. Len(ctx'.order) : /\ k + 1 \in 1 .. Len(ctx.order) /\ k + 1 # 1
                                        /\ ctx'.order[k] = ctx.order[k + 1]
    BY <1>1, <2>1, TailOnce DEF FateInv
  <2> QED
    BY <1>1, <1>5, <2>2 DEF Open
<1>6. CASE Unpaired
  <2>1. \A i \in New(ledger', Len(ledger)) : ledger'[i].kind \notin {"observe", "sublate"} /\ ~PairRow(ledger'[i])
    BY <1>6 DEF Unpaired, PairRow
  <2>2. \A c : Settled(ledger', Len(ledger'), c) => Settled(ledger, Len(ledger), c)
    BY <1>3, <2>1
  <2>3. ASSUME NEW order, Picks(order), NEW c \in In(order) PROVE ~Settled(ledger, Len(ledger), c)
    BY <1>1, <2>3, PicksGrows, LiveIsOpen
  <2>4. ASSUME NEW i \in New(ledger', Len(ledger)) PROVE RowJudged(ledger', i)
    <3>1. CASE ledger'[i].kind # "select"
      BY <2>1, <3>1 DEF RowJudged
    <3>2. CASE ledger'[i].kind = "select"
      <4>1. ledger'[i].cid \in In(ctx.order) /\ pc \notin JudgedSteps
        BY <1>6, <3>2 DEF Unpaired
      <4>2. ~Settled(ledger, Len(ledger), ledger'[i].cid)
        BY <1>1, <4>1 DEF Open, In
      <4>3. i - 1 \in 0 .. Len(ledger')
        BY <1>2 DEF New
      <4>4. ~Settled(ledger', i - 1, ledger'[i].cid)
        BY <1>1, <1>2, <2>1, <4>2, <4>3, SettledStays
      <4> QED
        BY <2>1, <4>4 DEF RowJudged
    <3> QED
      BY <3>1, <3>2
  <2>5. \A k \in 1 .. Len(ctx'.order) : Open(k)'
    <3>1. CASE ctx'.order = <<>>
      BY <3>1
    <3>2. CASE ctx'.order = ctx.order /\ (pc' \in JudgedSteps <=> pc \in JudgedSteps)
      BY <1>1, <2>2, <3>2 DEF Open
    <3>3. ASSUME NEW order \in Seq(Candidates), Picks(order) PROVE \A k \in 1 .. Len(ctx'.order) : Open(k)'
      <4>1. ctx'.order = order
        BY <3>3 DEF Picks
      <4> QED
        BY <2>2, <2>3, <3>3, <4>1 DEF Open, In
    <3> QED
      BY <1>5, <1>6, <2>2, <3>1, <3>2, <3>3 DEF Unpaired
  <2> QED
    BY <1>4, <1>6, <2>1, <2>4, <2>5 DEF Unpaired
<1>7. ASSUME NEW row \in Row, InheritArm(row) PROVE JudgedInv'
  <2>1. /\ Len(ledger') = Len(ledger) + 1
        /\ \A i \in New(ledger', Len(ledger)) : ledger'[i] = row
    BY <1>1, <1>7, WriteGrows DEF InheritArm
  <2>2. row.kind = "observe" /\ ~PairRow(row) /\ row.cid = ctx.inc
    BY <1>7 DEF InheritArm
  <2>3. ASSUME NEW i \in New(ledger', Len(ledger)) PROVE RowJudged(ledger', i)
    <3>1. i - 1 = Len(ledger) /\ ledger'[i] = row
      BY <1>2, <2>1 DEF New
    <3>2. ctx.inc = Base \/ \E j \in 1 .. Len(ledger) : ledger'[j].kind = "promote" /\ ledger'[j].cid = ctx.inc
      BY <1>1, <1>2 DEF Standing, Grows
    <3> QED
      BY <2>2, <3>1, <3>2 DEF RowJudged
  <2>4. \A c : Settled(ledger', Len(ledger'), c) => Settled(ledger, Len(ledger), c)
    BY <1>3, <2>1, <2>2
  <2>5. \A k \in 1 .. Len(ctx'.order) : Open(k)'
    BY <1>1, <1>7, <2>4 DEF InheritArm, Open, JudgedSteps
  <2> QED
    BY <1>4, <1>7, <2>1, <2>2, <2>3, <2>5 DEF InheritArm
<1>8. ASSUME NEW row \in Row, CandidateArm(row) PROVE JudgedInv'
  <2>1. /\ Len(ledger') = Len(ledger) + 1
        /\ \A i \in New(ledger', Len(ledger)) : ledger'[i] = row
    BY <1>1, <1>8, WriteGrows DEF CandidateArm
  <2>2. /\ PairRow(row) /\ row.kind = "observe" /\ row.cid = Current /\ row.boundary # "none"
        /\ pc = "paired" /\ ctx.order # <<>>
    BY <1>8 DEF CandidateArm, PairRow
  <2>3. \A k \in 1 .. Len(ctx.order) : ~Settled(ledger, Len(ledger), ctx.order[k])
    BY <1>1, <2>2 DEF Open, JudgedSteps
  <2>4. ~Settled(ledger, Len(ledger), Current)
    BY <1>1, <2>2, <2>3, TailOnce DEF FateInv, Current
  <2>5. ASSUME NEW i \in New(ledger', Len(ledger)) PROVE RowJudged(ledger', i)
    <3>1. i - 1 = Len(ledger) /\ ledger'[i] = row
      BY <1>2, <2>1 DEF New
    <3>2. ~Settled(ledger', Len(ledger), Current)
      BY <1>2, <2>4, SettledBefore
    <3> QED
      BY <2>2, <3>1, <3>2 DEF RowJudged
  <2>6. \A k \in 1 .. Len(ctx'.order) : Open(k)'
    <3>1. CASE row.boundary \notin Decided /\ NextPlace
      BY <1>3, <1>5, <2>1, <3>1
    <3>2. CASE row.boundary \in Decided /\ pc' \in JudgedSteps /\ ctx'.order = ctx.order
      <4>1. \A k \in 1 .. Len(ctx.order) : k # 1 => ctx.order[k] # Current
        BY <1>1, <2>2, TailOnce, LenProperties DEF FateInv, Once, Current
      <4>2. \A c : c # Current => (Settled(ledger', Len(ledger'), c) => Settled(ledger, Len(ledger), c))
        BY <1>3, <2>1, <2>2
      <4> QED
        BY <2>3, <3>2, <4>1, <4>2 DEF Open
    <3> QED
      BY <1>8, <3>1, <3>2 DEF CandidateArm
  <2> QED
    BY <1>4, <1>8, <2>1, <2>2, <2>5, <2>6 DEF CandidateArm
<1> QED
  BY <1>1, <1>6, <1>7, <1>8, PairStep

LEMMA JudgedInit == ASSUME Init PROVE JudgedInv
<1>1. ledger[1].kind = "propose" /\ Len(ledger) = 1 /\ ctx.order = <<>> /\ ctx.inc = Base
  BY DEF Init, Idle
<1>2. \A i \in 1 .. 1 : i = 1
  OBVIOUS
<1> QED
  BY <1>1, <1>2 DEF JudgedInv, NoneWithdrawn, WellJudged, RowJudged, PairRow

LEMMA JudgedHolds == ASSUME TypeInv, JudgedInv PROVE JudgedOnce
<1>1. ledger \in Seq(Row) /\ DOMAIN ledger = 1 .. Len(ledger) /\ Len(ledger) \in Nat
  BY TypeOKIs, LenProperties DEF TypeInv, Placed, LedgerTyped
<1>2. SUFFICES ASSUME NEW j \in 1 .. Len(ledger), Paired(j),
                      NEW i \in 1 .. j - 1, Paired(i), ledger[i].cid = ledger[j].cid
               PROVE  ledger[i].boundary = "continue"
  BY <1>1 DEF JudgedOnce, PairedBefore
<1>3. i \in 1 .. Len(ledger) /\ ledger[i] \in Row
  BY <1>1, RowTyped
<1>4. RowJudged(ledger, i) /\ RowJudged(ledger, j)
  BY <1>3 DEF JudgedInv, WellJudged
<1>5. ledger[i].boundary # "none" /\ ledger[i].boundary \notin Decided
  BY <1>2, <1>4 DEF RowJudged, Paired, PairRow, Settled
<1> QED
  BY <1>3, <1>5 DEF Row

-----------------------------------------------------------------------------
(* Seeds: the number of observations the fold counts only grows.           *)

\* Every pair's seed is below the number of its candidate's observations.
SeedsBelow(l) == \A i \in 1 .. Len(l) : PairRow(l[i]) => l[i].seed < Replay(l)[l[i].cid].nObs

\* The seed in hand is above those of the pairs so far.
SeedDrawn ==
    pc \in {"pair", "paired"} =>
        /\ ctx.seed <= Replay(ledger)[Current].nObs
        /\ \A i \in 1 .. Len(ledger) : PairRow(ledger[i]) /\ ledger[i].cid = Current => ledger[i].seed < ctx.seed

SeedInv == SeedsBelow(ledger) /\ SeedDrawn

LEMMA ViewsKeep ==
    ASSUME NEW l \in Seq(Row), NEW m \in Seq(Row), Grows(l, m), NoneWithdrawn(m), NEW n \in 0 .. Len(l)
    PROVE  Views(m)[n] = Views(l)[n]
<1>0. Len(l) \in Nat /\ Len(m) \in Nat /\ n \in Nat
  BY LenProperties
<1>1. \A i \in 1 .. Len(l) : i \in 1 .. Len(m) /\ m[i] = l[i]
  BY <1>0 DEF Grows
<1>2. NoneWithdrawn(l)
  BY <1>1 DEF NoneWithdrawn
<1> DEFINE S == {k \in 0 .. n : Views(m)[k] = Views(l)[k]}
<1>3. 0 \in S
  BY <1>0, ViewsAre
<1>4. ASSUME NEW k \in 0 .. n - 1, k \in S PROVE k + 1 \in S
  <2>1. k + 1 \in 1 .. Len(l) /\ k + 1 \in 1 .. Len(m) /\ (k + 1) - 1 = k /\ k + 1 \in 0 .. n
    BY <1>0, <1>1
  <2>2. Views(l)[k + 1] = Turn(l, Views(l)[k], k + 1) /\ Views(m)[k + 1] = Turn(m, Views(m)[k], k + 1)
    BY <1>0, <2>1, ViewsAre
  <2>3. Counts(l, l[k + 1]) /\ Counts(m, m[k + 1])
    BY <1>2, AllCount
  <2>4. Views(m)[k] = Views(l)[k] /\ m[k + 1] = l[k + 1]
    BY <1>1, <1>4, <2>1
  <2> QED
    BY <2>1, <2>2, <2>3, <2>4 DEF Turn
<1> HIDE DEF S
<1>5. \A k \in 0 .. n - 1 : k \in S => k + 1 \in S
  BY <1>4
<1>6. n \in S
  BY <1>0, <1>3, <1>5, UpTo, Zenon
<1> QED
  BY <1>6 DEF S

LEMMA ObservationsGrow ==
    ASSUME NEW l, IsLedger(l), NEW k \in 0 .. Len(l), NEW c \in Models
    PROVE  Views(l)[k][c].nObs \in Nat /\ Replay(l)[c].nObs \in Nat /\ Views(l)[k][c].nObs <= Replay(l)[c].nObs
<1>0. Len(l) \in Nat /\ k \in Nat /\ l \in Seq(Row)
  BY LenProperties DEF IsLedger
<1>1. \A i \in 0 .. Len(l) : Views(l)[i][c].nObs \in Nat
  BY <1>0, ViewsTyped DEF View
<1> DEFINE S == {j \in 0 .. Len(l) - k : Views(l)[k][c].nObs <= Views(l)[k + j][c].nObs}
<1>2. 0 \in S
  BY <1>0, <1>1
<1>3. ASSUME NEW j \in 0 .. (Len(l) - k) - 1, j \in S PROVE j + 1 \in S
  <2>1. k + j \in 0 .. Len(l) - 1 /\ k + j \in 0 .. Len(l) /\ k + (j + 1) = (k + j) + 1
        /\ (k + j) + 1 \in 0 .. Len(l) /\ j + 1 \in 0 .. Len(l) - k
    BY <1>0
  <2> DEFINE v == Views(l)[k + j][c]
             w == Views(l)[(k + j) + 1][c]
             r == l[(k + j) + 1]
  <2>2. /\ v \in View /\ r \in Row
        /\ w = IF r.cid = c /\ Counts(l, r) THEN ApplyTo(v, r) ELSE v
    BY <2>1, ViewReads
  <2>3. ApplyTo(v, r).nObs = IF r.kind = "observe" THEN v.nObs + 1 ELSE v.nObs
    BY <2>2, ApplyFields
  <2>4. v.nObs \in Nat /\ w.nObs \in Nat
    BY <1>1, <2>1
  <2>5. Views(l)[k][c].nObs <= v.nObs
    BY <1>3
  <2> HIDE DEF v, w, r
  <2>6. v.nObs <= w.nObs
    BY <2>2, <2>3, <2>4
  <2>7. Views(l)[k][c].nObs <= w.nObs
    BY <1>1, <2>4, <2>5, <2>6
  <2> QED
    BY <2>1, <2>7 DEF w
<1> HIDE DEF S
<1>4. \A j \in 0 .. (Len(l) - k) - 1 : j \in S => j + 1 \in S
  BY <1>3
<1>5. Len(l) - k \in S
  <2>1. Len(l) - k \in Nat
    BY <1>0
  <2> QED
    BY <1>2, <1>4, <2>1, UpTo, Zenon
<1>6. k + (Len(l) - k) = Len(l) /\ Len(l) \in 0 .. Len(l)
  BY <1>0
<1> QED
  BY <1>1, <1>5, <1>6 DEF S, Replay

LEMMA ObservationsKept ==
    ASSUME NEW l, NEW m, IsLedger(l), IsLedger(m), Grows(l, m), NoneWithdrawn(m), NEW c \in Models
    PROVE  /\ Replay(l)[c].nObs \in Nat /\ Replay(m)[c].nObs \in Nat
           /\ Replay(l)[c].nObs <= Replay(m)[c].nObs
<1>1. l \in Seq(Row) /\ m \in Seq(Row) /\ Len(l) \in Nat /\ Len(m) \in Nat
      /\ Len(l) \in 0 .. Len(l) /\ Len(l) \in 0 .. Len(m)
  BY LenProperties DEF IsLedger, Grows
<1>2. Views(m)[Len(l)] = Replay(l)
  BY <1>1, ViewsKeep DEF Replay
<1> QED
  BY <1>1, <1>2, ObservationsGrow

LEMMA ObservationCounted ==
    ASSUME NEW l, NEW m, IsLedger(l), IsLedger(m), Grows(l, m), NoneWithdrawn(m), Len(m) = Len(l) + 1,
           m[Len(m)].kind = "observe"
    PROVE  /\ m[Len(m)].cid \in Models
           /\ Replay(m)[m[Len(m)].cid].nObs = Replay(l)[m[Len(m)].cid].nObs + 1
<1>1. l \in Seq(Row) /\ m \in Seq(Row) /\ Len(l) \in Nat
      /\ Len(l) \in 0 .. Len(l) /\ Len(l) \in 0 .. Len(m) - 1 /\ Len(m) \in 1 .. Len(m)
  BY LenProperties DEF IsLedger
<1>2. Views(m)[Len(l)] = Replay(l)
  BY <1>1, ViewsKeep DEF Replay
<1> DEFINE r == m[Len(l) + 1]
           c == r.cid
           v == Views(m)[Len(l)][c]
<1>3. r \in Row
  BY <1>1, RowTyped
<1>4. c \in Models
  BY <1>3 DEF Row
<1>5. v \in View /\ Views(m)[Len(l) + 1][c] = IF r.cid = c /\ Counts(m, r) THEN ApplyTo(v, r) ELSE v
  BY <1>1, <1>4, ViewReads
<1>6. Counts(m, r)
  BY <1>1, AllCount
<1>7. ApplyTo(v, r).nObs = IF r.kind = "observe" THEN v.nObs + 1 ELSE v.nObs
  BY <1>3, <1>5, ApplyFields
<1> QED
  BY <1>2, <1>4, <1>5, <1>6, <1>7 DEF Replay

\* The steps that leave a pair at hand.
LEMMA AtPair ==
    ASSUME MaxWithdrawals = 0, TypeInv, JudgedInv, [Next]_vars, pc' \in {"pair", "paired"}
    PROVE  Evaluate \/ Pair \/ (ledger' = ledger /\ ctx' = ctx /\ pc' = pc)
<1>1. ASSUME Withdraw PROVE FALSE
  BY <1>1, NoWithdraw, TypeOKIs DEF TypeInv, Placed, LedgerTyped, JudgedInv
<1> QED
  BY <1>1 DEF Next, Step, Launch, Propose, Proposed, Predict, Predicted, Deliberate, Select, LastRound, Take,
     BadRecipe, Skip, RoundDone, Train, TrainFails, TrainFailed, PairFails, Observe, Prune, Canary, Promote, Close,
     Crash, LoseAdapter, vars, Goto, NextCandidate

LEMMA SeedStep ==
    ASSUME TypeInv, NamedInv, NamedInv', TypeInv', JudgedInv, JudgedInv', SeedInv, MaxWithdrawals = 0, [Next]_vars
    PROVE  SeedInv'
<1>1. /\ IsLedger(ledger) /\ IsLedger(ledger') /\ ledger \in Seq(Row) /\ ledger' \in Seq(Row)
      /\ NoneWithdrawn(ledger') /\ ctx \in Context
  <2>1. IsLedger(ledger)
    BY IsLedgerNow DEF NamedInv
  <2>2. ledger' \in Seq(Row) /\ (\A i \in DOMAIN ledger' : ledger'[i].seq = i) /\ Named(ledger')
    BY DEF TypeInv, Placed, TypeOK, NamedInv
  <2>3. IsLedger(ledger')
    BY <2>2, LenProperties DEF IsLedger
  <2> QED
    BY <2>1, <2>3, TypeOKIs DEF IsLedger, JudgedInv, TypeInv, Placed
<1>2. /\ Len(ledger) \in Nat /\ Len(ledger') \in Nat /\ Grows(ledger, ledger')
  BY Moves, MoveGrows
<1>3. \A i \in 1 .. Len(ledger') : i \in New(ledger', Len(ledger)) \/ (i \in 1 .. Len(ledger) /\ ledger'[i] = ledger[i])
  BY <1>2 DEF Grows, New
<1>4. \A c \in Models : /\ Replay(ledger)[c].nObs \in Nat /\ Replay(ledger')[c].nObs \in Nat
                        /\ Replay(ledger)[c].nObs <= Replay(ledger')[c].nObs
  BY <1>1, <1>2, ObservationsKept
<1>5. \A i \in 1 .. Len(ledger') : ledger'[i].seed \in Nat /\ ledger'[i].cid \in Models
  BY <1>1, RowTyped DEF Row
<1>6. ASSUME NEW i \in 1 .. Len(ledger), PairRow(ledger'[i]) PROVE ledger'[i].seed < Replay(ledger')[ledger'[i].cid].nObs
  <2>1. ledger'[i] = ledger[i] /\ i \in 1 .. Len(ledger')
    BY <1>2 DEF Grows
  <2>2. ledger[i].seed < Replay(ledger)[ledger[i].cid].nObs
    BY <1>6, <2>1 DEF SeedInv, SeedsBelow
  <2> QED
    BY <1>4, <1>5, <2>1, <2>2
<1>7. CASE Unpaired \/ \E row \in Row : InheritArm(row)
  <2>1. \A i \in New(ledger', Len(ledger)) : ~PairRow(ledger'[i])
    <3>1. ASSUME NEW row \in Row, InheritArm(row) PROVE \A i \in New(ledger', Len(ledger)) : ~PairRow(ledger'[i])
      BY <1>1, <3>1, WriteGrows DEF InheritArm
    <3> QED
      BY <1>7, <3>1 DEF Unpaired, PairRow
  <2>2. SeedsBelow(ledger')
    BY <1>3, <1>6, <2>1 DEF SeedsBelow
  <2>3. ASSUME pc' \in {"pair", "paired"}
        PROVE  /\ ctx'.seed <= Replay(ledger')[Current'].nObs
               /\ \A i \in 1 .. Len(ledger') :
                    PairRow(ledger'[i]) /\ ledger'[i].cid = Current' => ledger'[i].seed < ctx'.seed
    <3>1. CASE Evaluate
      <4>1. ledger' = ledger /\ ctx'.seed = Replay(ledger)[Current].nObs /\ Current' = Current /\ pc = "evaluate"
        BY <1>1, <3>1 DEF Evaluate, Context, Current
      <4>2. Current \in Models
        BY <4>1, AtHandTyped DEF AtHand, Steps
      <4> QED
        BY <1>4, <2>2, <4>1, <4>2 DEF SeedsBelow
    <3>2. CASE Pair
      <4>1. ctx'.seed = ctx.seed /\ Current' = Current /\ pc = "pair" /\ ctx.seed \in Nat
        BY <1>1, <3>2 DEF Pair, Context, Current
      <4>2. Current \in Models
        BY <4>1, AtHandTyped DEF AtHand, Steps
      <4>3. ctx.seed <= Replay(ledger')[Current].nObs
        BY <1>4, <4>1, <4>2 DEF SeedInv, SeedDrawn
      <4> QED
        BY <1>3, <2>1, <4>1, <4>3 DEF SeedInv, SeedDrawn
    <3>3. CASE ledger' = ledger /\ ctx' = ctx /\ pc' = pc
      BY <2>3, <3>3 DEF SeedInv, SeedDrawn, Current
    <3> QED
      BY <2>3, <3>1, <3>2, <3>3, AtPair
  <2> QED
    BY <2>2, <2>3 DEF SeedInv, SeedDrawn
<1>8. ASSUME NEW row \in Row, CandidateArm(row) PROVE SeedInv'
  <2>1. /\ Len(ledger') = Len(ledger) + 1
        /\ \A i \in New(ledger', Len(ledger)) : ledger'[i] = row
    BY <1>1, <1>8, WriteGrows DEF CandidateArm
  <2>2. /\ row.cid = Current /\ row.seed = ctx.seed /\ row.kind = "observe" /\ pc = "paired"
        /\ ledger'[Len(ledger')] = row /\ row.seed \in Nat
    <3>1. Len(ledger') \in New(ledger', Len(ledger))
      BY <1>2, <2>1 DEF New
    <3> QED
      BY <1>8, <2>1, <3>1 DEF CandidateArm, PairRow, Row
  <2>3. Current \in Models /\ Replay(ledger')[Current].nObs = Replay(ledger)[Current].nObs + 1
    BY <1>1, <1>2, <2>1, <2>2, ObservationCounted
  <2>4. row.seed < Replay(ledger')[row.cid].nObs
    BY <1>4, <2>2, <2>3 DEF SeedInv, SeedDrawn
  <2>5. SeedsBelow(ledger')
    BY <1>3, <1>6, <2>1, <2>4 DEF SeedsBelow
  <2>6. pc' \notin {"pair", "paired"}
    BY <1>8 DEF CandidateArm, NextPlace, JudgedSteps
  <2> QED
    BY <2>5, <2>6 DEF SeedInv, SeedDrawn
<1> QED
  BY <1>1, <1>7, <1>8, PairStep

LEMMA SeedInit == ASSUME Init PROVE SeedInv
<1>1. ledger[1].kind = "propose" /\ Len(ledger) = 1 /\ pc = "off"
  BY DEF Init
<1>2. \A i \in 1 .. 1 : i = 1
  OBVIOUS
<1> QED
  BY <1>1, <1>2 DEF SeedInv, SeedsBelow, SeedDrawn, PairRow

LEMMA SeedsDistinctStep ==
    ASSUME TypeInv, NamedInv, JudgedInv, SeedInv, SeedsDistinct, MaxWithdrawals = 0, [Next]_vars
    PROVE  SeedsDistinct'
<1>1. /\ DOMAIN ledger = 1 .. Len(ledger) /\ DOMAIN ledger' = 1 .. Len(ledger')
      /\ ledger \in Seq(Row) /\ ledger' \in Seq(Row)
      /\ Len(ledger) \in Nat /\ Len(ledger') \in Nat /\ Grows(ledger, ledger') /\ IsLedger(ledger)
  BY Moves, LedgerDomains, IsLedgerNow DEF NamedInv
<1>2. SUFFICES ASSUME NEW j \in 1 .. Len(ledger'), PairRow(ledger'[j]),
                      NEW i \in 1 .. j - 1, PairRow(ledger'[i]), ledger'[i].cid = ledger'[j].cid
               PROVE  ledger'[i].seed # ledger'[j].seed
  BY <1>1 DEF SeedsDistinct, PairedBefore, Paired, PairRow
<1>3. CASE j \in 1 .. Len(ledger)
  <2>1. i \in 1 .. Len(ledger) /\ ledger'[i] = ledger[i] /\ ledger'[j] = ledger[j]
    BY <1>1, <1>3 DEF Grows
  <2> QED
    BY <1>1, <1>2, <1>3, <2>1 DEF SeedsDistinct, PairedBefore, Paired, PairRow
<1>4. CASE j \in New(ledger', Len(ledger))
  <2>1. ASSUME NEW row \in Row, CandidateArm(row) PROVE ledger'[i].seed # ledger'[j].seed
    <3>1. Len(ledger') = Len(ledger) + 1 /\ ledger'[j] = row
      BY <1>1, <1>4, <2>1, WriteGrows DEF CandidateArm
    <3>2. i \in 1 .. Len(ledger) /\ ledger'[i] = ledger[i]
      BY <1>1, <1>4, <3>1 DEF New, Grows
    <3>3. row.cid = Current /\ row.seed = ctx.seed /\ pc = "paired"
      BY <2>1 DEF CandidateArm
    <3>4. ledger[i].seed < ctx.seed
      BY <1>2, <3>1, <3>2, <3>3 DEF SeedInv, SeedDrawn
    <3>5. ledger[i].seed \in Nat
      BY <1>1, <3>2, RowTyped DEF Row
    <3> QED
      BY <3>1, <3>2, <3>3, <3>4, <3>5
  <2>2. ASSUME NEW row \in Row, InheritArm(row) PROVE FALSE
    BY <1>1, <1>2, <1>4, <2>2, WriteGrows DEF InheritArm
  <2>3. ~Unpaired
    BY <1>2, <1>4 DEF Unpaired, PairRow
  <2> QED
    BY <1>1, <2>1, <2>2, <2>3, PairStep
<1> QED
  BY <1>1, <1>3, <1>4 DEF New

StandInv == FoldInv /\ JudgedInv /\ SeedInv /\ SeedsDistinct

LEMMA StandAlways == ASSUME MaxWithdrawals = 0 PROVE Spec => []StandInv
<1>1. Init => StandInv
  <2>1. Init => SeedsDistinct
    BY DEF Init, SeedsDistinct, Paired
  <2> QED
    BY <2>1, FoldInit, JudgedInit, SeedInit DEF StandInv
<1>2. StandInv /\ [Next]_vars => StandInv'
  <2>1. SUFFICES ASSUME StandInv, [Next]_vars PROVE StandInv'
    OBVIOUS
  <2>2. FoldInv'
    BY <2>1, FoldStep DEF StandInv
  <2>3. JudgedInv'
    BY <2>1, JudgedStep DEF StandInv, FoldInv
  <2>4. SeedInv'
    BY <2>1, <2>2, <2>3, SeedStep DEF StandInv, FoldInv
  <2>5. SeedsDistinct'
    BY <2>1, SeedsDistinctStep DEF StandInv, FoldInv
  <2> QED
    BY <2>2, <2>3, <2>4, <2>5 DEF StandInv
<1> QED
  BY <1>1, <1>2, PTL DEF Spec

\* Without withdrawals a candidate about which a boundary has decided is never sampled
\* again: not by a later round, not by a relaunch after a death before the row that
\* follows the decision, and not when it has become the incumbent.
THEOREM JudgedOnlyOnce == ASSUME MaxWithdrawals = 0 PROVE Spec => []JudgedOnce
<1>1. StandInv => JudgedOnce
  BY JudgedHolds DEF StandInv, FoldInv
<1> QED
  BY <1>1, StandAlways, PTL

\* Without withdrawals a candidate's pairs all have seeds of their own, though its effects
\* are started afresh whenever the incumbent changes.
THEOREM SeedsNeverAgain == ASSUME MaxWithdrawals = 0 PROVE Spec => []SeedsDistinct
<1>1. StandInv => SeedsDistinct
  BY DEF StandInv
<1> QED
  BY <1>1, StandAlways, PTL

-----------------------------------------------------------------------------
(* What a launch spends.  The budget is compared when a candidate is       *)
(* taken, so the bound at each step is the budget and the jobs the         *)
(* candidate may have cost so far.                                         *)

Fields == {"night", "inc", "predictions", "spent", "accepted", "lines", "recipes", "round", "order",
           "selected", "xs", "seed", "anchored"}

\* The context is a record; nothing is said of what its other fields hold.
IsContext == DOMAIN ctx = Fields /\ ctx.spent \in Nat

SpentInv ==
    /\ IsContext
    /\ ctx.spent < Budget + JobsPerCandidate
    /\ pc \in {"paired", "prune", "canary"} => ctx.spent < Budget + 4
    /\ pc \in {"train_failed", "evaluate", "pair"} => ctx.spent < Budget + 2
    /\ pc = "train" => ctx.spent < Budget

LEMMA SpentInit == Init => SpentInv
BY DEF Init, SpentInv, IsContext, Fields, Idle, JobsPerCandidate

LEMMA SpentStep == SpentInv /\ [Next]_vars => SpentInv'
<1> SUFFICES ASSUME SpentInv, [Next]_vars PROVE SpentInv'
  OBVIOUS
<1> USE DEF SpentInv, IsContext, Fields, JobsPerCandidate, Goto, NextCandidate
<1>1. ASSUME NEW n \in 1 .. MaxLaunches, Launch(n) PROVE SpentInv'
  BY <1>1 DEF Launch, Idle
<1>2. CASE Propose
  BY <1>2 DEF Propose
<1>3. CASE Proposed
  BY <1>3 DEF Proposed
<1>4. CASE Predict
  BY <1>4 DEF Predict
<1>5. CASE Predicted
  BY <1>5 DEF Predicted
<1>6. CASE Deliberate
  <2>1. CASE ctx' = Idle /\ pc' = "off"
    BY <2>1 DEF Idle
  <2>2. ASSUME NEW order, ctx' = [ctx EXCEPT !.round = @ + 1, !.order = order],
               pc' = IF order = <<>> THEN "close" ELSE "select"
        PROVE  SpentInv'
    BY <2>2
  <2> QED
    BY <1>6, <2>1, <2>2, DeliberateStep, Zenon
<1>7. CASE LastRound \/ RoundDone
  BY <1>7 DEF LastRound, RoundDone
<1>7a. CASE Select
  BY <1>7a DEF Select
<1>8. CASE Take \/ BadRecipe
  BY <1>8 DEF Take, BadRecipe
<1>9. CASE Skip
  BY <1>9 DEF Skip
<1>10. CASE Train
  BY <1>10 DEF Train
<1>11. CASE TrainFails
  BY <1>11 DEF TrainFails
<1>12. CASE TrainFailed
  BY <1>12 DEF TrainFailed
<1>13. CASE Evaluate
  BY <1>13 DEF Evaluate
<1>14. CASE Pair
  BY <1>14 DEF Pair
<1>15. CASE PairFails
  BY <1>15 DEF PairFails
<1>16. CASE Observe
  BY <1>16 DEF Observe
<1>17. CASE Prune
  BY <1>17 DEF Prune
<1>18. CASE Canary
  BY <1>18 DEF Canary
<1>19. CASE Promote
  BY <1>19 DEF Promote
<1>20. CASE Close \/ Crash
  BY <1>20 DEF Close, Crash, Idle
<1>21. CASE Withdraw \/ LoseAdapter \/ UNCHANGED vars
  BY <1>21 DEF Withdraw, LoseAdapter, vars
<1> QED
  BY <1>1, <1>2, <1>3, <1>4, <1>5, <1>6, <1>7, <1>7a, <1>8, <1>9, <1>10, <1>11, <1>12, <1>13, <1>14, <1>15,
     <1>16, <1>17, <1>18, <1>19, <1>20, <1>21 DEF Next, Step

\* A launch overspends its budget by less than one candidate's jobs, whatever fails and
\* however often the process dies.
THEOREM SpentWithinOneCandidate == Spec => []SpentBounded
<1>1. SpentInv => SpentBounded
  BY DEF SpentInv, IsContext, SpentBounded
<1> QED
  BY <1>1, SpentInit, SpentStep, PTL DEF Spec

-----------------------------------------------------------------------------
(* The incumbent of a night is the one the ledger names, as long as nobody *)
(* withdraws rows and no adapter is deleted.  A promotion makes Current    *)
(* the incumbent, so the invariant adds that the candidate at hand and the *)
(* last promoted one have their adapters; and that the promotions have a   *)
(* last one, for Max to be that.                                           *)

IsLog(l) == \E T : l \in Seq(T)
HasLast(l) == Promotions(l) # {} => \E m \in Promotions(l) : \A i \in Promotions(l) : m >= i

Sound(l) == IsLog(l) /\ NoneWithdrawn(l) /\ HasLast(l)

\* s is l and more rows after it.
Grown(l, s) == IsLog(s) /\ Len(s) >= Len(l) /\ \A i \in 1 .. Len(l) : s[i] = l[i]

LEMMA LogDomain == ASSUME NEW l, IsLog(l) PROVE Len(l) \in Nat /\ DOMAIN l = 1 .. Len(l)
BY DEF IsLog

LEMMA AppendGrows ==
    ASSUME NEW l, IsLog(l), NEW row
    PROVE  LET s == Append(l, row)
           IN  Grown(l, s) /\ Len(s) = Len(l) + 1 /\ s[Len(l) + 1] = row
<1>1. PICK T : l \in Seq(T)
  BY DEF IsLog
<1> DEFINE S == T \cup {row}
<1>2. l \in Seq(S)
  BY <1>1, SeqMonotonic
<1>3. row \in S
  OBVIOUS
<1> HIDE DEF S
<1> QED
  BY <1>2, <1>3, AppendProperties DEF Grown, IsLog

\* Without withdrawals every promotion stands, and the last is the largest index.
LEMMA AllStand ==
    ASSUME NEW l, IsLog(l), NoneWithdrawn(l)
    PROVE  {i \in Promotions(l) : Counts(l, l[i])} = Promotions(l)
<1>1. Withdrawn(l) = {}
  BY LogDomain DEF Withdrawn, NoneWithdrawn
<1> QED
  BY <1>1 DEF Counts

\* An incumbent whose adapter is on disk is inherited.
LEMMA InheritIs ==
    ASSUME NEW l, NEW a, Sound(l), CurrentIncumbent(l) \in a \cup {Base}
    PROVE  Inherit(l, a) = CurrentIncumbent(l)
BY AllStand DEF Sound, Inherit, CurrentIncumbent

LEMMA MaxIs == ASSUME NEW S \in SUBSET Nat, NEW m \in S, \A i \in S : m >= i PROVE Max(S) = m
<1>1. Max(S) \in S /\ \A y \in S : Max(S) >= y
  BY Zenon DEF Max
<1>2. Max(S) >= m /\ m >= Max(S)
  BY <1>1, Zenon
<1>3. Max(S) \in Nat /\ m \in Nat
  BY <1>1
<1> QED
  BY <1>2, <1>3

LEMMA PromotionsNat == ASSUME NEW l, IsLog(l) PROVE Promotions(l) \in SUBSET (1 .. Len(l))
BY LogDomain DEF Promotions

\* Rows that promote or withdraw nothing leave the last promoted one alone.
LEMMA IncumbentSame ==
    ASSUME NEW l, NEW s, Sound(l), Grown(l, s),
           \A i \in Len(l) + 1 .. Len(s) : s[i].kind \notin {"promote", "sublate"}
    PROVE  Sound(s) /\ CurrentIncumbent(s) = CurrentIncumbent(l)
<1>1. /\ IsLog(l) /\ IsLog(s) /\ Len(l) \in Nat /\ Len(s) \in Nat
      /\ DOMAIN l = 1 .. Len(l) /\ DOMAIN s = 1 .. Len(s)
  BY LogDomain DEF Sound, Grown
<1>2. NoneWithdrawn(s)
  BY <1>1 DEF Sound, Grown, NoneWithdrawn
<1>3. Promotions(s) = Promotions(l)
  BY <1>1 DEF Promotions, Grown
<1>4. HasLast(s)
  BY <1>3 DEF HasLast, Sound
<1>5. LastOf(s, Promotions(s)) = LastOf(l, Promotions(l))
  <2>1. CASE Promotions(l) = {}
    BY <2>1, <1>3 DEF LastOf
  <2>2. CASE Promotions(l) # {}
    <3>1. PICK m \in Promotions(l) : \A i \in Promotions(l) : m >= i
      BY <2>2 DEF Sound, HasLast
    <3>2. Max(Promotions(l)) = m /\ m \in 1 .. Len(l)
      BY <3>1, <1>1, MaxIs, PromotionsNat
    <3>3. s[m] = l[m]
      BY <3>2 DEF Grown
    <3> QED
      BY <2>2, <1>3, <3>2, <3>3 DEF LastOf
  <2> QED
    BY <2>1, <2>2
<1> QED
  BY <1>1, <1>2, <1>4, <1>5 DEF Sound, CurrentIncumbent

\* A promote row names it.
LEMMA IncumbentPromoted ==
    ASSUME NEW l, Sound(l), NEW row, row.kind = "promote"
    PROVE  LET s == Append(l, row) IN Sound(s) /\ CurrentIncumbent(s) = row.cid
<1> DEFINE s == Append(l, row)
           n == Len(l) + 1
<1>1. Grown(l, s) /\ Len(s) = n /\ s[n] = row
  BY AppendGrows DEF Sound
<1>2. /\ IsLog(l) /\ IsLog(s) /\ Len(l) \in Nat
      /\ DOMAIN l = 1 .. Len(l) /\ DOMAIN s = 1 .. Len(s)
  BY <1>1, LogDomain DEF Sound, Grown
<1> HIDE DEF s
<1>3. NoneWithdrawn(s)
  BY <1>1, <1>2 DEF Sound, Grown, NoneWithdrawn
<1>4. n \in Promotions(s) /\ \A i \in Promotions(s) : n >= i
  BY <1>1, <1>2 DEF Promotions
<1>5. Max(Promotions(s)) = n
  BY <1>2, <1>4, MaxIs, PromotionsNat
<1>6. LastOf(s, Promotions(s)) = row.cid
  BY <1>1, <1>4, <1>5 DEF LastOf
<1>7. Sound(s)
  BY <1>2, <1>3, <1>4 DEF Sound, HasLast
<1>8. CurrentIncumbent(s) = row.cid
  BY <1>6 DEF CurrentIncumbent
<1> QED
  BY <1>7, <1>8 DEF s

\* The steps at which the candidate at hand has its adapter.
Measured == {"evaluate", "pair", "paired", "prune", "canary", "badhita", "promote"}

IncumbentInv ==
    /\ Sound(ledger)
    /\ CurrentIncumbent(ledger) \in adapters \cup {Base}
    /\ DOMAIN ctx = Fields
    /\ pc # "off" => ctx.inc = CurrentIncumbent(ledger)
    /\ pc \in Measured => Current \in adapters

LEMMA IncumbentInit == Init => IncumbentInv
<1> SUFFICES ASSUME Init PROVE IncumbentInv
  OBVIOUS
<1>1. Len(ledger) = 1 /\ ledger[1].kind = "propose" /\ DOMAIN ledger = 1 .. 1
  BY DEF Init
<1>2. IsLog(ledger)
  BY <1>1, ledger \in Seq({ledger[1]}) DEF Init, IsLog
<1>3. Promotions(ledger) = {}
  BY <1>1 DEF Promotions
<1>4. Sound(ledger) /\ CurrentIncumbent(ledger) = Base
  BY <1>1, <1>2, <1>3 DEF Sound, NoneWithdrawn, HasLast, CurrentIncumbent, LastOf
<1> QED
  BY <1>4 DEF Init, IncumbentInv, Idle, Fields, Measured

\* One more row that promotes and withdraws nothing.
LEMMA RowKeeps ==
    ASSUME Sound(ledger), NEW row, row.kind \notin {"promote", "sublate"}, Write(row)
    PROVE  Sound(ledger') /\ CurrentIncumbent(ledger') = CurrentIncumbent(ledger)
<1>1. Grown(ledger, ledger') /\ Len(ledger') = Len(ledger) + 1 /\ ledger'[Len(ledger) + 1] = row
  BY AppendGrows DEF Sound, Write
<1>2. \A i \in Len(ledger) + 1 .. Len(ledger') : ledger'[i].kind \notin {"promote", "sublate"}
  BY <1>1, LogDomain DEF Sound
<1> QED
  BY <1>1, <1>2, IncumbentSame

\* No row is withdrawn and no adapter deleted while the incumbent is watched.
Undisturbed == MaxWithdrawals = 0 /\ ~MayLoseAdapters

\* A step that keeps the incumbent of the night and of the ledger, and the candidate.
LEMMA KeepStep ==
    ASSUME IncumbentInv, Sound(ledger'), CurrentIncumbent(ledger') = CurrentIncumbent(ledger),
           adapters \subseteq adapters', DOMAIN ctx' = Fields,
           pc' # "off" => pc # "off" /\ ctx'.inc = ctx.inc,
           pc' \in Measured => Current' \in adapters'
    PROVE  IncumbentInv'
BY DEF IncumbentInv

LEMMA IncumbentStep == ASSUME Undisturbed, IncumbentInv, [Next]_vars PROVE IncumbentInv'
<1> USE DEF Goto, NextCandidate
<1>0. /\ Sound(ledger) /\ DOMAIN ctx = Fields
      /\ pc \in Measured => Current \in adapters
      /\ \A f \in Fields : f \in DOMAIN ctx
  BY DEF IncumbentInv
<1>1. ASSUME NEW n \in 1 .. MaxLaunches, Launch(n) PROVE IncumbentInv'
  <2>1. Inherit(ledger, adapters) = CurrentIncumbent(ledger)
    BY InheritIs DEF IncumbentInv
  <2>2. UNCHANGED <<ledger, adapters>> /\ pc' \in {"round", "propose"}
    BY <1>1 DEF Launch
  <2>3. DOMAIN ctx' = Fields /\ ctx'.inc = Inherit(ledger, adapters)
    BY <1>1 DEF Launch, Idle, Fields
  <2> QED
    BY <2>1, <2>2, <2>3 DEF IncumbentInv, Measured
<1>2. CASE Propose
  <2>1. Write(RowOf("propose", NextId(ledger))) /\ RowOf("propose", NextId(ledger)).kind = "propose"
    BY <1>2 DEF Propose, RowOf
  <2>2. adapters' = adapters /\ pc' = "propose" /\ pc = "propose" /\ DOMAIN ctx' = Fields /\ ctx'.inc = ctx.inc
    BY <1>0, <1>2 DEF Propose, Fields
  <2> QED
    BY <1>0, <2>1, <2>2, RowKeeps, KeepStep DEF Measured
<1>3. CASE Proposed \/ LastRound \/ RoundDone
  <2>1. UNCHANGED <<ledger, adapters, ctx>> /\ pc # "off" /\ pc' \notin Measured
    BY <1>3 DEF Proposed, LastRound, RoundDone, Measured
  <2> QED
    BY <1>0, <2>1, KeepStep
<1>4. CASE Predict
  <2> DEFINE row == RowOf("predict", Head(ctx.accepted))
  <2>1. row.kind = "predict" /\ (Write(row) \/ ledger' = ledger)
    BY <1>4 DEF Predict, RowOf
  <2>2. adapters' = adapters /\ pc' = "predict" /\ pc = "predict" /\ DOMAIN ctx' = Fields /\ ctx'.inc = ctx.inc
    BY <1>0, <1>4 DEF Predict, Fields
  <2> HIDE DEF row
  <2>3. Sound(ledger') /\ CurrentIncumbent(ledger') = CurrentIncumbent(ledger)
    BY <1>0, <2>1, RowKeeps
  <2> QED
    BY <1>0, <2>2, <2>3, KeepStep DEF Measured
<1>5. CASE Predicted
  <2>1. /\ UNCHANGED <<ledger, adapters>> /\ pc' = "round" /\ pc = "predict"
        /\ DOMAIN ctx' = Fields /\ ctx'.inc = ctx.inc
    BY <1>0, <1>5 DEF Predicted, Fields
  <2> QED
    BY <1>0, <2>1, KeepStep DEF Measured
<1>6. CASE Take
  <2>1. /\ UNCHANGED <<ledger, adapters>> /\ pc = "take"
        /\ DOMAIN ctx' = Fields /\ ctx'.inc = ctx.inc /\ ctx'.order = ctx.order
    BY <1>0, <1>6 DEF Take, Fields
  <2>2. pc' \in Measured => Current \in adapters
    BY <1>6 DEF Take, Measured, Trained
  <2> QED
    BY <1>0, <2>1, <2>2, KeepStep DEF Current
<1>6a. CASE BadRecipe
  <2>1. /\ UNCHANGED <<ledger, adapters>> /\ pc = "take" /\ pc' = "take"
        /\ DOMAIN ctx' = Fields /\ ctx'.inc = ctx.inc
    BY <1>0, <1>6a DEF BadRecipe, Fields
  <2> QED
    BY <1>0, <2>1, KeepStep DEF Measured
<1>7. CASE Skip
  <2>1. Write(RowOf("skip", Current)) /\ RowOf("skip", Current).kind = "skip"
    BY <1>7 DEF Skip, RowOf
  <2>2. adapters' = adapters /\ pc' = "take" /\ pc = "take" /\ DOMAIN ctx' = Fields /\ ctx'.inc = ctx.inc
    BY <1>0, <1>7 DEF Skip, Fields
  <2> QED
    BY <1>0, <2>1, <2>2, RowKeeps, KeepStep DEF Measured
<1>8. CASE Train
  <2>1. Write(RowOf("spend", Current)) /\ RowOf("spend", Current).kind = "spend"
    BY <1>8 DEF Train, RowOf
  <2>2. /\ adapters' = adapters \cup {Current} /\ pc' = "evaluate" /\ pc = "train"
        /\ DOMAIN ctx' = Fields /\ ctx'.inc = ctx.inc /\ ctx'.order = ctx.order
    BY <1>0, <1>8 DEF Train, Fields
  <2>3. Current' \in adapters'
    BY <2>2 DEF Current
  <2> QED
    BY <1>0, <2>1, <2>2, <2>3, RowKeeps, KeepStep
<1>9. CASE TrainFails
  <2>1. RowOf("spend", Current).kind = "spend" /\ (Write(RowOf("spend", Current)) \/ ledger' = ledger)
    BY <1>9 DEF TrainFails, RowOf
  <2>2. /\ adapters \subseteq adapters' /\ pc' = "train_failed" /\ pc = "train"
        /\ DOMAIN ctx' = Fields /\ ctx'.inc = ctx.inc
    BY <1>0, <1>9 DEF TrainFails, Fields
  <2>3. Sound(ledger') /\ CurrentIncumbent(ledger') = CurrentIncumbent(ledger)
    BY <1>0, <2>1, RowKeeps
  <2> QED
    BY <1>0, <2>2, <2>3, KeepStep DEF Measured
<1>10. CASE TrainFailed
  <2>1. Write(RowOf("audit_high", Current)) /\ RowOf("audit_high", Current).kind = "audit_high"
    BY <1>10 DEF TrainFailed, RowOf
  <2>2. /\ adapters' = adapters /\ pc' = "take" /\ pc = "train_failed"
        /\ DOMAIN ctx' = Fields /\ ctx'.inc = ctx.inc
    BY <1>0, <1>10 DEF TrainFailed, Fields
  <2> QED
    BY <1>0, <2>1, <2>2, RowKeeps, KeepStep DEF Measured
<1>11. CASE Evaluate
  <2>1. /\ UNCHANGED <<ledger, adapters>> /\ pc = "evaluate"
        /\ DOMAIN ctx' = Fields /\ ctx'.inc = ctx.inc /\ ctx'.order = ctx.order
    BY <1>0, <1>11 DEF Evaluate, Fields
  <2>2. Current' \in adapters'
    BY <1>0, <2>1 DEF Current, Measured
  <2> QED
    BY <1>0, <2>1, <2>2, KeepStep
<1>12. CASE Pair
  <2> DEFINE row == [RowOf("observe", ctx.inc) EXCEPT !.arm = "incumbent", !.vs = ctx.inc, !.seed = ctx.seed]
  <2>1. Write(row) /\ row.kind = "observe"
    BY <1>12 DEF Pair, RowOf
  <2>2. /\ adapters' = adapters /\ pc = "pair"
        /\ DOMAIN ctx' = Fields /\ ctx'.inc = ctx.inc /\ ctx'.order = ctx.order
    BY <1>0, <1>12 DEF Pair, Fields
  <2> HIDE DEF row
  <2>3. Current' \in adapters'
    BY <1>0, <2>2 DEF Current, Measured
  <2> QED
    BY <1>0, <2>1, <2>2, <2>3, RowKeeps, KeepStep
<1>13. CASE PairFails
  <2>1. Write(RowOf("audit_high", Current)) /\ RowOf("audit_high", Current).kind = "audit_high"
    BY <1>13 DEF PairFails, RowOf
  <2>2. /\ adapters' = adapters /\ pc' = "take" /\ pc = "pair"
        /\ DOMAIN ctx' = Fields /\ ctx'.inc = ctx.inc
    BY <1>0, <1>13 DEF PairFails, Fields
  <2> QED
    BY <1>0, <2>1, <2>2, RowKeeps, KeepStep DEF Measured
<1>14. CASE Observe
  <2>1. PICK b \in Boundary(Append(ctx.xs, ctx.inc)) :
            /\ Write([RowOf("observe", Current) EXCEPT !.arm = "candidate", !.vs = ctx.inc, !.seed = ctx.seed,
                         !.boundary = b, !.scored = Current \in ctx.predictions])
            /\ \/ b = "continue" /\ NextCandidate
               \/ b = "prune"    /\ Goto("prune")  /\ UNCHANGED ctx
               \/ b = "confirm"  /\ Goto("canary") /\ UNCHANGED ctx
    BY <1>14 DEF Observe
  <2> DEFINE row == [RowOf("observe", Current) EXCEPT !.arm = "candidate", !.vs = ctx.inc, !.seed = ctx.seed,
                         !.boundary = b, !.scored = Current \in ctx.predictions]
  <2>2. Write(row) /\ row.kind = "observe"
    BY <2>1 DEF RowOf
  <2> HIDE DEF row
  <2>3. adapters' = adapters /\ pc = "paired" /\ DOMAIN ctx' = Fields /\ ctx'.inc = ctx.inc
    BY <1>0, <1>14, <2>1 DEF Observe, Fields
  <2>4. pc' = "take" \/ (pc' \in {"prune", "canary"} /\ ctx' = ctx)
    BY <2>1
  <2>5. pc' \in Measured => Current' \in adapters'
    BY <1>0, <2>3, <2>4 DEF Current, Measured
  <2> QED
    BY <1>0, <2>2, <2>3, <2>5, RowKeeps, KeepStep
<1>15. CASE Prune
  <2>1. Write(RowOf("prune", Current)) /\ RowOf("prune", Current).kind = "prune"
    BY <1>15 DEF Prune, RowOf
  <2>2. adapters' = adapters /\ pc' = "take" /\ pc # "off" /\ DOMAIN ctx' = Fields /\ ctx'.inc = ctx.inc
    BY <1>0, <1>15 DEF Prune, Fields
  <2> QED
    BY <1>0, <2>1, <2>2, RowKeeps, KeepStep DEF Measured
<1>16. CASE Canary
  <2>1. RowOf("audit_high", Current).kind = "audit_high"
    BY DEF RowOf
  <2>2. Write(RowOf("audit_high", Current)) \/ ledger' = ledger
    BY <1>16 DEF Canary
  <2>3. /\ adapters' = adapters /\ pc = "canary"
        /\ DOMAIN ctx' = Fields /\ ctx'.inc = ctx.inc /\ ctx'.order = ctx.order
    BY <1>0, <1>16 DEF Canary, Fields
  <2>4. Sound(ledger') /\ CurrentIncumbent(ledger') = CurrentIncumbent(ledger)
    BY <1>0, <2>1, <2>2, RowKeeps
  <2>5. Current' \in adapters'
    BY <1>0, <2>3 DEF Current, Measured
  <2> QED
    BY <1>0, <2>3, <2>4, <2>5, KeepStep
<1>17. CASE Promote
  <2>1. /\ ledger' = Append(ledger, RowOf("promote", Current))
        /\ RowOf("promote", Current).kind = "promote" /\ RowOf("promote", Current).cid = Current
    BY <1>17 DEF Promote, RowOf, Write
  <2>2. /\ adapters' = adapters /\ pc' = "take" /\ pc = "promote"
        /\ DOMAIN ctx' = Fields /\ ctx'.inc = Current
    BY <1>0, <1>17 DEF Promote, Fields
  <2>3. Sound(ledger') /\ CurrentIncumbent(ledger') = Current
    BY <1>0, <2>1, IncumbentPromoted
  <2>4. Current \in adapters
    BY <1>0, <2>2 DEF Measured
  <2> QED
    BY <2>2, <2>3, <2>4 DEF IncumbentInv, Measured
<1>18. CASE Close \/ Crash
  <2>1. UNCHANGED <<ledger, adapters>> /\ pc' = "off" /\ DOMAIN ctx' = Fields
    BY <1>18 DEF Close, Crash, Idle, Fields
  <2> QED
    BY <1>0, <2>1, KeepStep DEF Measured
<1>19. CASE Deliberate
  <2>1. UNCHANGED <<ledger, adapters>> /\ pc = "round"
    BY <1>19 DEF Deliberate
  <2>2. ASSUME NEW order, ctx' = [ctx EXCEPT !.round = @ + 1, !.order = order],
               pc' = IF order = <<>> THEN "close" ELSE "select"
        PROVE  IncumbentInv'
    <3>1. DOMAIN ctx' = Fields /\ ctx'.inc = ctx.inc
      BY <1>0, <2>2 DEF Fields
    <3> QED
      BY <1>0, <2>1, <2>2, <3>1, KeepStep DEF Measured
  <2>3. ASSUME ctx' = Idle, pc' = "off" PROVE IncumbentInv'
    <3>1. DOMAIN ctx' = Fields
      BY <2>3 DEF Idle, Fields
    <3> QED
      BY <1>0, <2>1, <2>3, <3>1, KeepStep DEF Measured
  <2> QED
    BY <1>19, <2>2, <2>3, DeliberateStep, Zenon
<1>19a. CASE Select
  <2> DEFINE row == RowOf("select", ctx.order[ctx.selected + 1])
  <2>1. Write(row) /\ row.kind = "select"
    BY <1>19a DEF Select, RowOf
  <2>2. /\ adapters' = adapters /\ pc = "select" /\ pc' \in {"select", "take"}
        /\ DOMAIN ctx' = Fields /\ ctx'.inc = ctx.inc
    BY <1>0, <1>19a DEF Select, Fields
  <2> HIDE DEF row
  <2> QED
    BY <1>0, <2>1, <2>2, RowKeeps, KeepStep DEF Measured
<1>20. CASE Withdraw
  <2>1. Withdrawn(ledger) = {}
    BY <1>0, LogDomain DEF Sound, Withdrawn, NoneWithdrawn
  <2>2. Cardinality(Withdrawn(ledger)) = 0
    BY <2>1, FS_EmptySet
  <2> QED
    BY <1>20, <2>2 DEF Withdraw, Undisturbed
<1>21. CASE LoseAdapter
  BY <1>21 DEF LoseAdapter, Undisturbed
<1>22. CASE UNCHANGED vars
  BY <1>22 DEF vars, IncumbentInv, Current
<1> QED
  BY <1>1, <1>2, <1>3, <1>4, <1>5, <1>6, <1>6a, <1>7, <1>8, <1>9, <1>10, <1>11, <1>12, <1>13, <1>14, <1>15,
     <1>16, <1>17, <1>18, <1>19, <1>19a, <1>20, <1>21, <1>22 DEF Next, Step

\* The incumbent a night pairs against in memory is the one a relaunch would inherit
\* from the ledger and the adapters on disk, through promotions in mid-round, failed jobs
\* and deaths between any two writes, when no row is withdrawn and no adapter deleted.
THEOREM IncumbentKept == Undisturbed /\ Spec => []IncumbentFromLedger
<1>1. IncumbentInv => IncumbentFromLedger
  BY InheritIs DEF IncumbentInv, IncumbentFromLedger
<1>2. CASE Undisturbed
  <2>1. IncumbentInv /\ [Next]_vars => IncumbentInv'
    BY <1>2, IncumbentStep
  <2> QED
    BY <1>1, <2>1, IncumbentInit, PTL DEF Spec
<1>3. CASE ~Undisturbed
  BY <1>3
<1> QED
  BY <1>2, <1>3
=============================================================================
