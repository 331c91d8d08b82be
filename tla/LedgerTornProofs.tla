-------------------------- MODULE LedgerTornProofs --------------------------
(***************************************************************************)
(* Theorems about Ledger when any write may be torn, in every way.         *)
(***************************************************************************)
EXTENDS LedgerProofs

-----------------------------------------------------------------------------
(* Neighbouring rows that both parse are chained.  The invariant adds what *)
(* a writer must remember of the row it believes to be the last, torn or   *)
(* not, and that no head equals a digest computed later.                   *)

Follows(a, r) == r.prev = a.this /\ r.seq = a.seq + 1

Linked(s) == \A i \in 2 .. Len(s) :
    s[i].kind # "garbled" /\ s[i - 1].kind # "garbled" => Follows(s[i - 1], s[i])

SeqAgrees(w) ==
    /\ mem[w].head <= digest
    /\ file # <<>> /\ mem[w].head = LastRow.this => mem[w].seq = LastRow.seq

LinkInv ==
    /\ TypeInv
    /\ Linked(file)
    /\ file # <<>> => LastRow.this \in 1 .. digest
    /\ \A w \in Writers : SeqAgrees(w)

LEMMA LinkedAppend ==
    ASSUME NEW s \in Seq(Row), NEW r \in Row, Linked(s),
           s # <<>> /\ s[Len(s)].kind # "garbled" => Follows(s[Len(s)], r)
    PROVE  Linked(Append(s, r))
<1> DEFINE q == Append(s, r)
<1>1. /\ q \in Seq(Row) /\ Len(q) = Len(s) + 1 /\ Len(s) \in Nat
      /\ \A i \in 1 .. Len(s) : q[i] = s[i]
      /\ q[Len(s) + 1] = r
  BY AppendProperties
<1> HIDE DEF q
<1>2. SUFFICES ASSUME NEW i \in 2 .. Len(q), q[i].kind # "garbled", q[i - 1].kind # "garbled"
               PROVE  Follows(q[i - 1], q[i])
  BY DEF Linked, q
<1>3. CASE i \in 2 .. Len(s)
  <2>1. q[i] = s[i] /\ q[i - 1] = s[i - 1]
    BY <1>1, <1>3
  <2> QED
    BY <1>2, <1>3, <2>1 DEF Linked
<1>4. CASE i = Len(s) + 1
  <2>1. q[i] = r /\ q[i - 1] = s[Len(s)] /\ s # <<>>
    BY <1>1, <1>2, <1>4
  <2> QED
    BY <1>2, <2>1
<1> QED
  BY <1>1, <1>3, <1>4

\* The rows of one append(): each follows the one before it, under a digest of its own.
LEMMA LinesFollow ==
    ASSUME LinkInv, NEW w \in Writers, NEW now1 \in Times, NEW now2 \in Times
    PROVE  LET lines == Lines(w, now1, now2)
           IN  /\ lines \in Seq(Row) /\ Len(lines) \in 1 .. 2
               /\ file # <<>> => Follows(LastRow, lines[1])
               /\ Len(lines) = 2 => Follows(lines[1], lines[2])
               /\ \A i \in 1 .. Len(lines) : lines[i].this = digest + i
<1> DEFINE lines == Lines(w, now1, now2)
<1>1. TypeOK /\ mem[w] \in Heads /\ digest \in Nat /\ SeqAgrees(w)
  BY DEF LinkInv, TypeInv, TypeOK, Heads
<1>2. lines \in Seq(Row)
  BY <1>1, LinesType
<1>3. CASE Stale(w)
  <2> DEFINE r == ResyncRow(w, now1)
             e == EventRow(w, HeadOf(r), digest + 2, now2)
  <2>1. lines = <<r, e>>
    BY <1>3 DEF Lines
  <2>2. Follows(LastRow, r) /\ r.this = digest + 1
    BY DEF Follows, ResyncRow
  <2>3. Follows(r, e) /\ e.this = digest + 2
    BY DEF Follows, EventRow, HeadOf
  <2> HIDE DEF r, e, lines
  <2> QED
    BY <1>2, <2>1, <2>2, <2>3 DEF lines
<1>4. CASE ~Stale(w)
  <2> DEFINE e == EventRow(w, mem[w], digest + 1, now2)
  <2>1. lines = <<e>>
    BY <1>4 DEF Lines
  <2>2. e.this = digest + 1 /\ e.prev = mem[w].head /\ e.seq = mem[w].seq + 1
    BY DEF EventRow
  <2>3. file # <<>> => Follows(LastRow, e)
    BY <1>1, <1>4, <2>2 DEF Stale, SeqAgrees, Follows
  <2> HIDE DEF e, lines
  <2> QED
    BY <1>1, <1>2, <2>1, <2>2, <2>3 DEF lines
<1> QED
  BY <1>3, <1>4

\* What a write, whole or torn, does to the heads: it ends in a row that was there or in
\* a new one, and only its own writer remembers a new digest.
LEMMA HeadsAfterWrite ==
    ASSUME LinkInv, TypeInv', NEW w \in Writers, NEW n \in 1 .. 2, digest' = digest + n,
           Linked(file'),
           file' # <<>> => \/ file # <<>> /\ LastRow'.this = LastRow.this /\ LastRow'.seq = LastRow.seq
                           \/ LastRow'.this \in digest + 1 .. digest + n,
           mem'[w].head <= digest',
           file' # <<>> /\ mem'[w].head = LastRow'.this => mem'[w].seq = LastRow'.seq,
           \A v \in Writers \ {w} : mem'[v] = mem[v]
    PROVE  LinkInv'
<1>1. digest \in Nat
  BY DEF LinkInv, TypeInv, TypeOK
<1>2. file' # <<>> => LastRow'.this \in 1 .. digest'
  BY <1>1 DEF LinkInv
<1>3. ASSUME NEW v \in Writers PROVE SeqAgrees(v)'
  <2>1. CASE v = w
    BY <2>1 DEF SeqAgrees
  <2>2. CASE v # w
    <3>1. mem'[v] = mem[v] /\ mem[v].head \in Nat /\ mem[v].head <= digest
      BY <2>2 DEF LinkInv, TypeInv, TypeOK, SeqAgrees
    <3>2. mem'[v].head <= digest'
      BY <3>1, <1>1
    <3>3. ASSUME file' # <<>>, mem'[v].head = LastRow'.this PROVE mem'[v].seq = LastRow'.seq
      <4>1. file # <<>> /\ LastRow'.this = LastRow.this /\ LastRow'.seq = LastRow.seq
        BY <1>1, <3>1, <3>3
      <4> QED
        BY <3>1, <3>3, <4>1 DEF LinkInv, SeqAgrees
    <3> QED
      BY <3>2, <3>3 DEF SeqAgrees
  <2> QED
    BY <2>1, <2>2
<1> QED
  BY <1>2, <1>3 DEF LinkInv

\* A step that writes nothing and sets one writer's head at most.
LEMMA HeadsAfterRead ==
    ASSUME LinkInv, TypeInv', UNCHANGED file, digest' \in {digest, digest + 1},
           NEW w \in Writers, SeqAgrees(w)', \A v \in Writers \ {w} : mem'[v] = mem[v]
    PROVE  LinkInv'
<1>1. digest \in Nat /\ LastRow' = LastRow
  BY DEF LinkInv, TypeInv, TypeOK, LastRow
<1>2. ASSUME NEW v \in Writers PROVE SeqAgrees(v)'
  <2>1. CASE v # w
    <3>1. mem'[v] = mem[v] /\ mem[v].head \in Nat
      BY <2>1 DEF LinkInv, TypeInv, TypeOK
    <3> QED
      BY <3>1, <1>1 DEF LinkInv, SeqAgrees
  <2> QED
    BY <2>1
<1> QED
  BY <1>1, <1>2 DEF LinkInv, Linked

LEMMA One ==
    ASSUME NEW S, NEW s \in Seq(S), Len(s) = 1, NEW x \in S, s[1] = x
    PROVE  s = <<x>>
<1>1. <<x>> \in Seq(S) /\ Len(<<x>>) = 1 /\ \A i \in 1 .. 1 : s[i] = <<x>>[i]
  OBVIOUS
<1> QED
  BY <1>1, SeqEqual

LEMMA ShortSequence ==
    ASSUME NEW S, NEW s \in Seq(S), Len(s) \in 1 .. 2
    PROVE  /\ SubSeq(s, 1, 1) = <<s[1]>>
           /\ Len(s) = 1 => Tail(s) = <<>>
           /\ Len(s) = 2 => SubSeq(s, 1, 2) = <<s[1], s[2]>> /\ Tail(s) = <<s[2]>>
<1>1. s[1] \in S /\ (Len(s) = 2 => s[2] \in S) /\ s # <<>>
  OBVIOUS
<1>2. SubSeq(s, 1, 1) = <<s[1]>>
  <2>1. \A i \in 1 .. 1 : s[i] \in S
    BY <1>1
  <2>2. SubSeq(s, 1, 1) \in Seq(S) /\ Len(SubSeq(s, 1, 1)) = 1 /\ SubSeq(s, 1, 1)[1] = s[1]
    BY <2>1, SubSeqProperties
  <2> QED
    BY <1>1, <2>2, One
<1>3. Tail(s) \in Seq(S) /\ Len(Tail(s)) = Len(s) - 1 /\ \A i \in 1 .. Len(Tail(s)) : Tail(s)[i] = s[i + 1]
  BY <1>1, HeadTailProperties
<1>4. ASSUME Len(s) = 1 PROVE Tail(s) = <<>>
  <2> DEFINE t == Tail(s)
  <2>1. t \in Seq(S) /\ Len(t) = 0
    BY <1>3, <1>4
  <2> HIDE DEF t
  <2>2. t = <<>>
    BY <2>1, EmptySeq
  <2> QED
    BY <2>2 DEF t
<1>5. ASSUME Len(s) = 2 PROVE Tail(s) = <<s[2]>>
  <2>1. Len(Tail(s)) = 1 /\ Tail(s)[1] = s[2]
    BY <1>3, <1>5
  <2> QED
    BY <1>1, <1>3, <1>5, <2>1, One
<1>6. ASSUME Len(s) = 2 PROVE SubSeq(s, 1, 2) = <<s[1], s[2]>>
  <2>1. SubSeq(s, 1, 2) = s
    BY <1>6, SubSeqFull
  <2>2. <<s[1], s[2]>> \in Seq(S) /\ Len(<<s[1], s[2]>>) = 2 /\ \A i \in 1 .. 2 : s[i] = <<s[1], s[2]>>[i]
    BY <1>1, <1>6
  <2> QED
    BY <1>6, <2>1, <2>2, SeqEqual
<1> QED
  BY <1>2, <1>4, <1>5, <1>6

\* The first m lines of an append() after an unbroken last line.
LEMMA WholeLines ==
    ASSUME LinkInv, NEW w \in Writers, NEW now1 \in Times, NEW now2 \in Times,
           NEW lines, lines = Lines(w, now1, now2),
           NEW m \in 0 .. Len(lines), file' = file \o SubSeq(lines, 1, m)
    PROVE  /\ Linked(file')
           /\ m = 0 => LastRow' = LastRow /\ file' = file
           /\ m > 0 => LastRow' = lines[m] /\ file' # <<>>
<1> DEFINE q == Append(file, lines[1])
<1>1. /\ lines \in Seq(Row) /\ Len(lines) \in 1 .. 2
      /\ file # <<>> => Follows(LastRow, lines[1])
      /\ Len(lines) = 2 => Follows(lines[1], lines[2])
  BY LinesFollow
<1>2. file \in Seq(Row) /\ Linked(file) /\ LastRow = file[Len(file)]
  BY DEF LinkInv, TypeInv, TypeOK, LastRow
<1>3. file' = file \o SubSeq(lines, 1, m) /\ m \in 0 .. Len(lines)
  OBVIOUS
<1>4. lines[1] \in Row /\ (Len(lines) = 2 => lines[2] \in Row)
  BY <1>1
<1>5. /\ q \in Seq(Row) /\ q # <<>> /\ Len(q) = Len(file) + 1 /\ Linked(q) /\ q[Len(q)] = lines[1]
  BY <1>1, <1>2, <1>4, LinkedAppend, AppendProperties
<1> HIDE DEF q
<1>6. CASE m = 0
  <2>1. SubSeq(lines, 1, 0) = <<>>
    BY <1>1, SubSeqEmpty
  <2>2. file' = file
    BY <1>2, <1>3, <1>6, <2>1, ConcatEmptySeq
  <2>3. LastRow' = LastRow
    BY <2>2 DEF LastRow
  <2> QED
    BY <1>2, <1>6, <2>2, <2>3 DEF Linked
<1>7. CASE m = 1
  <2>1. SubSeq(lines, 1, 1) = <<lines[1]>>
    BY <1>1, ShortSequence
  <2>2. file' = q
    BY <1>2, <1>3, <1>4, <1>7, <2>1, AppendIsConcat DEF q
  <2>3. LastRow' = file'[Len(file')]
    BY DEF LastRow
  <2> QED
    BY <1>5, <1>7, <2>2, <2>3 DEF Linked
<1>8. CASE m = 2
  <2>1. Len(lines) = 2 /\ SubSeq(lines, 1, 2) = <<lines[1], lines[2]>>
    <3>1. Len(lines) = 2
      BY <1>1, <1>3, <1>8
    <3> QED
      BY <1>1, <3>1, ShortSequence
  <2> DEFINE p == Append(q, lines[2])
  <2>2. file' = p
    BY <1>2, <1>3, <1>4, <1>8, <2>1 DEF q
  <2>3. LastRow' = file'[Len(file')]
    BY DEF LastRow
  <2>4. p # <<>> /\ p[Len(p)] = lines[2]
    BY <1>4, <1>5, <2>1, AppendProperties
  <2>5. Follows(q[Len(q)], lines[2]) /\ lines[2] \in Row
    BY <1>1, <1>4, <1>5, <2>1
  <2>6. Linked(p)
    BY <1>5, <2>5, LinkedAppend
  <2> HIDE DEF p
  <2> QED
    BY <1>8, <2>2, <2>3, <2>4, <2>6 DEF Linked
<1> QED
  BY <1>1, <1>3, <1>6, <1>7, <1>8

\* What becomes of a last row that lacks its newline.
LEMMA GarbledRows ==
    ASSUME TypeOK, file # <<>>
    PROVE  /\ Garbled \in Seq(Row) /\ Len(Garbled) = Len(file) /\ Garbled # <<>>
           /\ \A i \in 1 .. Len(file) : Garbled[i].this = file[i].this /\ Garbled[i].seq = file[i].seq
           /\ \A i \in 1 .. Len(file) - 1 : Garbled[i] = file[i]
           /\ Garbled[Len(file)].kind = "garbled"
<1> DEFINE bad == [file[Len(file)] EXCEPT !.kind = "garbled"]
<1>1. file \in Seq(Row) /\ Len(file) \in 1 .. Len(file)
  BY DEF TypeOK
<1>2. file[Len(file)] \in Row
  BY <1>1
<1>3. bad \in Row /\ bad.kind = "garbled" /\ bad.this = LastRow.this /\ bad.seq = LastRow.seq
  BY <1>2 DEF Row, Kinds, LastRow
<1>4. Garbled = [file EXCEPT ![Len(file)] = bad]
  BY DEF Garbled
<1> HIDE DEF bad
<1>5. /\ Garbled \in Seq(Row) /\ Len(Garbled) = Len(file)
      /\ \A i \in 1 .. Len(file) : Garbled[i] = IF i = Len(file) THEN bad ELSE file[i]
  BY <1>1, <1>3, <1>4, ExceptSeq
<1> HIDE DEF Garbled
<1>6. Garbled # <<>>
  BY <1>1, <1>5
<1> QED
  BY <1>1, <1>3, <1>5, <1>6 DEF LastRow

LEMMA GarbledLinked ==
    ASSUME TypeOK, file # <<>>, Linked(file)
    PROVE  Linked(Garbled)
<1>1. /\ Garbled \in Seq(Row) /\ Len(Garbled) = Len(file) /\ Len(file) \in Nat
      /\ \A i \in 1 .. Len(file) - 1 : Garbled[i] = file[i]
      /\ Garbled[Len(file)].kind = "garbled"
  BY GarbledRows DEF TypeOK
<1> SUFFICES ASSUME NEW i \in 2 .. Len(Garbled), Garbled[i].kind # "garbled", Garbled[i - 1].kind # "garbled"
             PROVE  Follows(Garbled[i - 1], Garbled[i])
  BY DEF Linked
<1>2. i # Len(file) /\ i \in 1 .. Len(file) - 1 /\ i - 1 \in 1 .. Len(file) - 1 /\ i \in 2 .. Len(file)
  BY <1>1
<1>3. Garbled[i] = file[i] /\ Garbled[i - 1] = file[i - 1]
  BY <1>1, <1>2
<1> QED
  BY <1>2, <1>3 DEF Linked

\* The first m lines of an append() after a last line without its newline, which they ruin.
LEMMA GluedLines ==
    ASSUME LinkInv, rest = "bare", NEW w \in Writers, NEW now1 \in Times, NEW now2 \in Times,
           NEW lines, lines = Lines(w, now1, now2),
           NEW m \in 1 .. Len(lines), file' = Glued(SubSeq(lines, 1, m))
    PROVE  /\ Linked(file') /\ file # <<>> /\ file' # <<>>
           /\ m = 1 => LastRow'.this = LastRow.this /\ LastRow'.seq = LastRow.seq
           /\ m = 2 => LastRow' = lines[2]
<1>1. lines \in Seq(Row) /\ Len(lines) \in 1 .. 2
  BY LinesFollow
<1>1a. (Len(lines) = 1 \/ Len(lines) = 2) /\ (m = 1 \/ (m = 2 /\ Len(lines) = 2))
  <2>1. Len(lines) = 1 \/ Len(lines) = 2
    BY <1>1
  <2>2. CASE Len(lines) = 1
    BY <2>2
  <2>3. CASE Len(lines) = 2
    BY <2>3
  <2> QED
    BY <2>1, <2>2, <2>3
<1>2. /\ TypeOK /\ file \in Seq(Row) /\ Linked(file) /\ file # <<>>
      /\ Len(file) \in 1 .. Len(file) /\ LastRow = file[Len(file)]
  BY DEF LinkInv, TypeInv, TypeOK, LastRow
<1>3. file' = Garbled \o Tail(SubSeq(lines, 1, m))
  BY DEF Glued
<1>4. /\ Garbled \in Seq(Row) /\ Len(Garbled) = Len(file) /\ Garbled # <<>> /\ Linked(Garbled)
      /\ Garbled[Len(Garbled)].kind = "garbled"
      /\ Garbled[Len(Garbled)].this = LastRow.this /\ Garbled[Len(Garbled)].seq = LastRow.seq
  BY <1>2, GarbledRows, GarbledLinked
<1>5. LastRow' = file'[Len(file')]
  BY DEF LastRow
<1>6. CASE m = 1
  <2>1. SubSeq(lines, 1, m) = <<lines[1]>> /\ lines[1] \in Row
    BY <1>1, <1>6, ShortSequence
  <2>2. Tail(<<lines[1]>>) = <<>>
    OBVIOUS
  <2>3. file' = Garbled
    BY <1>3, <1>4, <2>1, <2>2, ConcatEmptySeq
  <2> QED
    BY <1>2, <1>4, <1>5, <1>6, <2>3
<1>7. CASE m = 2
  <2>1. Len(lines) = 2
    BY <1>1a, <1>7
  <2>1a. lines[2] \in Row
    <3>1. 2 \in 1 .. Len(lines)
      BY <2>1
    <3> QED
      BY <1>1, <3>1, ElementOfSeq
  <2>2. SubSeq(lines, 1, m) = lines /\ Tail(lines) = <<lines[2]>>
    BY <1>1, <1>7, <2>1, ShortSequence, SubSeqFull
  <2> DEFINE p == Append(Garbled, lines[2])
  <2>3. file' = p
    BY <1>3, <1>4, <2>1a, <2>2, AppendIsConcat
  <2>4. p # <<>> /\ Linked(p) /\ p[Len(p)] = lines[2]
    BY <1>4, <2>1a, LinkedAppend, AppendProperties
  <2> HIDE DEF p
  <2> QED
    BY <1>2, <1>5, <1>7, <2>3, <2>4
<1> QED
  BY <1>1a, <1>6, <1>7

\* What the lines of an append() do to the links and to the last row, however many of them
\* reach the disk.
LEMMA StoredLinks ==
    ASSUME LinkInv, NEW w \in Writers, NEW now1 \in Times, NEW now2 \in Times,
           NEW lines, lines = Lines(w, now1, now2),
           NEW m \in 0 .. Len(lines), StoredLines(SubSeq(lines, 1, m))
    PROVE  /\ Linked(file')
           /\ file' # <<>> => \/ file # <<>> /\ LastRow'.this = LastRow.this /\ LastRow'.seq = LastRow.seq
                              \/ \E i \in 1 .. m : LastRow' = lines[i]
<1> DEFINE stored == SubSeq(lines, 1, m)
<1>1. lines \in Seq(Row) /\ Len(lines) \in 1 .. 2
  BY LinesFollow
<1>2. TypeOK /\ Linked(file) /\ (rest = "bare" => file # <<>>)
  BY DEF LinkInv, TypeInv
<1>3. stored = <<>> => m = 0
  <2>1. stored \in Seq(Row) /\ Len(stored) = m
    BY <1>1, SubSeqProperties
  <2> HIDE DEF stored
  <2> QED
    BY <2>1, EmptySeq
<1>4. CASE stored = <<>> /\ file' = file
  <2>1. LastRow' = LastRow
    BY <1>4 DEF LastRow
  <2> QED
    BY <1>2, <1>4, <2>1
<1>5. CASE rest = "bare" /\ file' = Garbled
  <2>1. LastRow' = Garbled[Len(Garbled)]
    BY <1>5 DEF LastRow
  <2>2. Len(Garbled) = Len(file) /\ Len(file) \in 1 .. Len(file)
    BY <1>2, <1>5, GarbledRows DEF TypeOK
  <2> QED
    BY <1>2, <1>5, <2>1, <2>2, GarbledRows, GarbledLinked DEF LastRow
<1>6. CASE stored # <<>> /\ file' = Glued(stored)
  <2>1. m \in 1 .. Len(lines)
    <3>1. m # 0
      BY <1>1, <1>6, SubSeqEmpty
    <3> QED
      BY <3>1, <1>1
  <2>2. CASE rest = "bare"
    <3>1. /\ Linked(file') /\ file # <<>>
          /\ m = 1 => LastRow'.this = LastRow.this /\ LastRow'.seq = LastRow.seq
          /\ m = 2 => LastRow' = lines[2]
      BY <1>6, <2>1, <2>2, GluedLines
    <3>2. m = 1 \/ m = 2
      <4>1. PICK n \in 1 .. 2 : n = Len(lines)
        BY <1>1
      <4> QED
        BY <2>1, <4>1
    <3> QED
      BY <3>1, <3>2
  <2>3. CASE rest # "bare"
    <3>1. file' = file \o SubSeq(lines, 1, m)
      BY <1>6, <2>3 DEF Glued
    <3>2. Linked(file') /\ LastRow' = lines[m]
      <4>1. m > 0 /\ m \in 0 .. Len(lines)
        BY <2>1
      <4> QED
        BY <3>1, <4>1, WholeLines
    <3>3. m \in 1 .. m
      BY <2>1
    <3> QED
      BY <3>2, <3>3
  <2> QED
    BY <2>2, <2>3
<1> QED
  BY <1>4, <1>5, <1>6 DEF StoredLines

LEMMA LinkInit == Init => LinkInv
<1> SUFFICES ASSUME Init PROVE LinkInv
  OBVIOUS
<1>1. file = <<>> /\ digest = 0 /\ \A w \in Writers : mem[w] = Fresh
  BY DEF Init
<1> QED
  BY <1>1, TypeInit DEF LinkInv, Linked, SeqAgrees, Fresh, Genesis

\* A write, whole or torn, of the lines of an append().
LEMMA LinkWrite ==
    ASSUME LinkInv, TypeInv', NEW w \in Writers, NEW now1 \in Times, NEW now2 \in Times,
           NEW lines, lines = Lines(w, now1, now2),
           NEW m \in 0 .. Len(lines), StoredLines(SubSeq(lines, 1, m)),
           digest' = digest + Len(lines),
           NEW head, head \in {HeadOf(lines[Len(lines)]), Fresh}, mem' = [mem EXCEPT ![w] = head]
    PROVE  LinkInv'
<1>1. /\ lines \in Seq(Row) /\ Len(lines) \in 1 .. 2
      /\ \A i \in 1 .. Len(lines) : lines[i].this = digest + i
  BY LinesFollow
<1>2. PICK n \in 1 .. 2 : n = Len(lines)
  BY <1>1
<1>3. /\ digest \in Nat /\ mem'[w] = head
      /\ \A v \in Writers \ {w} : mem'[v] = mem[v]
      /\ file # <<>> => LastRow.this \in 1 .. digest
  BY DEF LinkInv, TypeInv, TypeOK
<1>4. /\ Linked(file')
      /\ file' # <<>> => \/ file # <<>> /\ LastRow'.this = LastRow.this /\ LastRow'.seq = LastRow.seq
                         \/ \E i \in 1 .. m : LastRow' = lines[i]
  BY StoredLinks
<1>5. lines[n].this = digest + n /\ \A i \in 1 .. m : i \in 1 .. n /\ lines[i].this = digest + i
  BY <1>1, <1>2
<1>6. file' # <<>> => \/ file # <<>> /\ LastRow'.this = LastRow.this /\ LastRow'.seq = LastRow.seq
                      \/ LastRow'.this \in digest + 1 .. digest + n
  <2> SUFFICES ASSUME NEW i \in 1 .. m, LastRow' = lines[i] PROVE LastRow'.this \in digest + 1 .. digest + n
    BY <1>4
  <2> QED
    BY <1>3, <1>5
<1>7. head.head <= digest'
  BY <1>2, <1>3, <1>5 DEF HeadOf, Fresh, Genesis
<1>8. ASSUME file' # <<>>, head.head = LastRow'.this PROVE head.seq = LastRow'.seq
  <2>1. LastRow'.this \in 1 .. digest + n
    BY <1>3, <1>6, <1>8
  <2>2. head = HeadOf(lines[n]) /\ head.head = digest + n
    <3>1. head # Fresh
      BY <1>8, <2>1 DEF Fresh, Genesis
    <3> QED
      BY <1>2, <1>5, <3>1 DEF HeadOf
  <2>3. PICK i \in 1 .. m : LastRow' = lines[i]
    <3>1. LastRow.this # digest + n \/ file = <<>>
      BY <1>3
    <3> QED
      BY <1>4, <1>8, <2>2, <3>1
  <2>4. i = n
    BY <1>3, <1>5, <1>8, <2>2, <2>3
  <2> QED
    BY <2>2, <2>3, <2>4 DEF HeadOf
<1> QED
  BY <1>2, <1>3, <1>4, <1>6, <1>7, <1>8, HeadsAfterWrite

\* A whole write stores all of its lines.
LEMMA WholeWrite ==
    ASSUME TypeOK, NEW w \in Writers, Write(w)
    PROVE  \E now1, now2 \in Times :
               /\ StoredLines(SubSeq(Lines(w, now1, now2), 1, Len(Lines(w, now1, now2))))
               /\ file' = Glued(Lines(w, now1, now2))
               /\ digest' = digest + Len(Lines(w, now1, now2))
               /\ mem' = [mem EXCEPT ![w] = HeadOf(Lines(w, now1, now2)[Len(Lines(w, now1, now2))])]
<1>1. PICK now1 \in Times, now2 \in Times :
          /\ file' = Glued(Lines(w, now1, now2))
          /\ mem' = [mem EXCEPT ![w] = HeadOf(Lines(w, now1, now2)[Len(Lines(w, now1, now2))])]
          /\ digest' = digest + Len(Lines(w, now1, now2))
  BY DEF Write
<1>2. PICK lines : lines = Lines(w, now1, now2)
  OBVIOUS
<1>3. lines \in Seq(Row) /\ Len(lines) \in 1 .. 2
  BY <1>2, LinesType
<1>4. SubSeq(lines, 1, Len(lines)) = lines /\ lines # <<>>
  <2>1. lines # <<>>
    BY <1>3
  <2> QED
    BY <1>3, <2>1, SubSeqFull
<1>5. StoredLines(SubSeq(lines, 1, Len(lines)))
  BY <1>1, <1>2, <1>4 DEF StoredLines, Write
<1> QED
  BY <1>1, <1>2, <1>5

LEMMA LinkStep == LinkInv /\ [Next]_vars => LinkInv'
<1> SUFFICES ASSUME LinkInv, [Next]_vars PROVE LinkInv'
  OBVIOUS
<1>0. TypeInv /\ TypeInv' /\ TypeOK /\ digest \in Nat
  BY TypeStep DEF LinkInv, TypeInv, TypeOK
<1>1. ASSUME NEW w \in Writers, OpenExisting(w) PROVE LinkInv'
  <2>1. /\ file # <<>> /\ UNCHANGED <<file, digest>> /\ file[Len(file)].seq = Len(file) - 1
        /\ mem'[w] = [seq |-> Len(file) - 1, head |-> LastRow.this, t |-> LastRow.t]
        /\ \A v \in Writers \ {w} : mem'[v] = mem[v]
    BY <1>0, <1>1 DEF OpenExisting, VerifyOk, TypeOK
  <2>2. LastRow.this \in 1 .. digest /\ LastRow.seq = Len(file) - 1 /\ LastRow' = LastRow
    BY <2>1 DEF LinkInv, LastRow
  <2>3. SeqAgrees(w)'
    BY <1>0, <2>1, <2>2 DEF SeqAgrees
  <2> QED
    BY <1>0, <2>1, <2>3, HeadsAfterRead
<1>2. ASSUME NEW w \in Writers, OpenEmpty(w) \/ Crash(w) PROVE LinkInv'
  <2>1. UNCHANGED <<file, digest>> /\ mem'[w] = Fresh /\ \A v \in Writers \ {w} : mem'[v] = mem[v]
    BY <1>0, <1>2 DEF OpenEmpty, Crash, TypeOK
  <2>2. SeqAgrees(w)'
    BY <1>0, <2>1 DEF SeqAgrees, Fresh, Genesis, LinkInv, LastRow
  <2> QED
    BY <1>0, <2>1, <2>2, HeadsAfterRead
<1>3. ASSUME NEW w \in Writers, Request(w) \/ Acquire(w) \/ RaiseOnTail(w) \/ Release(w) \/ Publish(w)
      PROVE  LinkInv'
  <2>1. UNCHANGED <<file, digest, mem>>
    BY <1>3 DEF Request, Acquire, RaiseOnTail, Release, Publish
  <2>2. SeqAgrees(w)'
    BY <2>1 DEF LinkInv, SeqAgrees, LastRow
  <2> QED
    BY <1>0, <2>1, <2>2, HeadsAfterRead
<1>4. ASSUME NEW w \in Writers, RaiseOnEvent(w) PROVE LinkInv'
  <2>1. PICK now \in Times :
            IF Stale(w)
            THEN /\ mem' = [mem EXCEPT ![w] = HeadOf(ResyncRow(w, now))]
                 /\ digest' = digest + 1
            ELSE UNCHANGED <<mem, digest>>
    BY <1>4 DEF RaiseOnEvent
  <2>2. UNCHANGED file
    BY <1>4 DEF RaiseOnEvent
  <2>3. CASE Stale(w)
    <3>1. /\ mem'[w].head = digest + 1 /\ \A v \in Writers \ {w} : mem'[v] = mem[v]
          /\ digest' = digest + 1
      BY <1>0, <2>1, <2>3 DEF HeadOf, ResyncRow, TypeOK
    <3>2. LastRow.this \in 1 .. digest /\ LastRow' = LastRow
      BY <2>2, <2>3 DEF Stale, LinkInv, LastRow
    <3>3. SeqAgrees(w)'
      BY <1>0, <3>1, <3>2 DEF SeqAgrees
    <3> QED
      BY <1>0, <2>2, <3>1, <3>3, HeadsAfterRead
  <2>4. CASE ~Stale(w)
    <3>1. UNCHANGED <<file, mem, digest>>
      BY <2>1, <2>2, <2>4
    <3>2. SeqAgrees(w)'
      BY <3>1 DEF LinkInv, SeqAgrees, LastRow
    <3> QED
      BY <1>0, <3>1, <3>2, HeadsAfterRead
  <2> QED
    BY <2>3, <2>4
<1>5. ASSUME NEW w \in Writers, Write(w) PROVE LinkInv'
  <2>1. PICK now1 \in Times, now2 \in Times :
            /\ StoredLines(SubSeq(Lines(w, now1, now2), 1, Len(Lines(w, now1, now2))))
            /\ digest' = digest + Len(Lines(w, now1, now2))
            /\ mem' = [mem EXCEPT ![w] = HeadOf(Lines(w, now1, now2)[Len(Lines(w, now1, now2))])]
    BY <1>0, <1>5, WholeWrite
  <2>2. Len(Lines(w, now1, now2)) \in 0 .. Len(Lines(w, now1, now2))
    BY <1>0, LinesType
  <2> QED
    BY <1>0, <2>1, <2>2, LinkWrite
<1>6. ASSUME NEW w \in Writers, TornWrite(w) PROVE LinkInv'
  <2>1. PICK now1 \in Times, now2 \in Times, how \in {"crash", "short"} :
            TornLines(w, Lines(w, now1, now2), how)
    BY <1>0, <1>6, TornWriteLines
  <2>2. PICK lines : lines = Lines(w, now1, now2)
    OBVIOUS
  <2>3. PICK m \in 0 .. Len(lines) : StoredLines(SubSeq(lines, 1, m))
    BY <2>1, <2>2 DEF TornLines
  <2>4. /\ digest' = digest + Len(lines)
        /\ mem' = [mem EXCEPT ![w] = IF how = "short" THEN HeadOf(lines[Len(lines)]) ELSE Fresh]
    BY <2>1, <2>2 DEF TornLines
  <2> QED
    BY <1>0, <2>2, <2>3, <2>4, LinkWrite
<1>7. CASE UNCHANGED vars
  BY <1>0, <1>7 DEF vars, LinkInv, Linked, SeqAgrees, LastRow
<1> QED
  BY <1>1, <1>2, <1>3, <1>4, <1>5, <1>6, <1>7 DEF Next

\* Torn writes hurt the row they tear and no link elsewhere, in every way a write may be
\* torn and whatever heads the writers remember after it.
THEOREM LinksStayIntact == Spec => []IntactLinks
<1>1. LinkInv => IntactLinks
  BY DEF LinkInv, Linked, Follows, IntactLinks
<1> QED
  BY <1>1, LinkInit, LinkStep, PTL DEF Spec

-----------------------------------------------------------------------------
(* No acknowledged event is lost unseen.  The invariant speaks of the      *)
(* events about to be acknowledged as well: each is in the file, or was    *)
(* torn itself, or some row of the file no longer parses, for good.        *)

Accounted(d) ==
    \/ d \in torn
    \/ \E i \in 1 .. Len(file) : file[i].this = d
    \/ \E i \in 1 .. Len(file) : file[i].kind = "garbled"

LossInv ==
    /\ TypeInv
    /\ \A d \in acked : Accounted(d)
    /\ \A w \in Writers : pc[w] \in {"written", "publish"} => Accounted(mem[w].head)

\* No step takes a row or its digest off the file, or makes an unreadable row readable.
RowsKept ==
    /\ Len(file) <= Len(file')
    /\ \A i \in 1 .. Len(file) :
          file'[i].this = file[i].this /\ (file[i].kind = "garbled" => file'[i].kind = "garbled")

LEMMA GluedKeeps ==
    ASSUME TypeInv, NEW lines \in Seq(Row), lines # <<>>, file' = Glued(lines)
    PROVE  /\ RowsKept
           /\ rest = "bare" => \E i \in 1 .. Len(file') : file'[i].kind = "garbled"
           /\ rest # "bare" => \E i \in 1 .. Len(file') : file'[i] = lines[Len(lines)]
<1>1. TypeOK /\ file \in Seq(Row) /\ Len(file) \in Nat /\ (rest = "bare" => file # <<>>)
  BY DEF TypeInv, TypeOK
<1>2. CASE rest = "bare"
  <2>1. /\ Garbled \in Seq(Row) /\ Len(Garbled) = Len(file) /\ Len(file) \in 1 .. Len(file)
        /\ \A i \in 1 .. Len(file) : Garbled[i].this = file[i].this
        /\ \A i \in 1 .. Len(file) - 1 : Garbled[i] = file[i]
        /\ Garbled[Len(file)].kind = "garbled"
    BY <1>1, <1>2, GarbledRows
  <2>2. Tail(lines) \in Seq(Row) /\ file' = Garbled \o Tail(lines)
    BY <1>2 DEF Glued
  <2>3. Len(file') = Len(file) + Len(Tail(lines)) /\ \A i \in 1 .. Len(file) : file'[i] = Garbled[i]
    <3> DEFINE g == Garbled
               t == Tail(lines)
    <3>1. g \in Seq(Row) /\ t \in Seq(Row) /\ file' = g \o t /\ Len(g) = Len(file)
      BY <2>1, <2>2
    <3> HIDE DEF g, t
    <3>2. Len(g \o t) = Len(g) + Len(t) /\ \A i \in 1 .. Len(g) : (g \o t)[i] = g[i]
      BY <3>1, ConcatProperties
    <3> QED
      BY <3>1, <3>2 DEF g, t
  <2>4. Len(file) <= Len(file') /\ Len(file) \in 1 .. Len(file')
    <3>1. Len(Tail(lines)) \in Nat
      BY <2>2
    <3> QED
      BY <2>1, <2>3, <3>1
  <2>5. file'[Len(file)].kind = "garbled" /\ \A i \in 1 .. Len(file) : file'[i].this = file[i].this
    BY <2>1, <2>3
  <2>6. \A i \in 1 .. Len(file) : file[i].kind = "garbled" => file'[i].kind = "garbled"
    <3>1. \A i \in 1 .. Len(file) : i \in 1 .. Len(file) - 1 \/ i = Len(file)
      BY <1>1
    <3> QED
      BY <2>1, <2>3, <2>5, <3>1
  <2> QED
    BY <1>2, <2>4, <2>5, <2>6 DEF RowsKept
<1>3. CASE rest # "bare"
  <2>1. file' = file \o lines
    BY <1>3 DEF Glued
  <2>2. /\ Len(file') = Len(file) + Len(lines) /\ \A i \in 1 .. Len(file) : file'[i] = file[i]
        /\ \A i \in 1 .. Len(lines) : file'[i + Len(file)] = lines[i]
    BY <1>1, <2>1
  <2>3. Len(lines) \in 1 .. Len(lines) /\ Len(file) <= Len(file') /\ Len(lines) + Len(file) \in 1 .. Len(file')
    BY <1>1, <2>2
  <2>4. file'[Len(lines) + Len(file)] = lines[Len(lines)]
    BY <2>2, <2>3
  <2> QED
    BY <1>3, <2>2, <2>3, <2>4 DEF RowsKept
<1> QED
  BY <1>2, <1>3

LEMMA StoredKeeps ==
    ASSUME TypeInv, NEW stored \in Seq(Row), StoredLines(stored)
    PROVE  RowsKept
<1>1. TypeOK /\ Len(file) \in Nat /\ (rest = "bare" => file # <<>>)
  BY DEF TypeInv, TypeOK
<1>2. CASE stored # <<>> /\ file' = Glued(stored)
  BY <1>2, GluedKeeps
<1>3. CASE file' = file
  BY <1>1, <1>3 DEF RowsKept
<1>4. CASE rest = "bare" /\ file' = Garbled
  <2>1. /\ Len(Garbled) = Len(file)
        /\ \A i \in 1 .. Len(file) : Garbled[i].this = file[i].this
        /\ \A i \in 1 .. Len(file) - 1 : Garbled[i] = file[i]
        /\ Garbled[Len(file)].kind = "garbled"
    BY <1>1, <1>4, GarbledRows
  <2>2. \A i \in 1 .. Len(file) : i \in 1 .. Len(file) - 1 \/ i = Len(file)
    BY <1>1
  <2> HIDE DEF Garbled
  <2> QED
    BY <1>1, <1>4, <2>1, <2>2 DEF RowsKept
<1> QED
  BY <1>2, <1>3, <1>4 DEF StoredLines

LEMMA AccountedKept ==
    ASSUME TypeInv, TypeInv', RowsKept, torn \subseteq torn', NEW d, Accounted(d)
    PROVE  Accounted(d)'
<1>1. Len(file) \in Nat /\ Len(file') \in Nat
  BY DEF TypeInv, TypeOK
<1>2. \A i \in 1 .. Len(file) : i \in 1 .. Len(file')
  BY <1>1 DEF RowsKept
<1> QED
  BY <1>2 DEF Accounted, RowsKept

\* A step that keeps the rows, and lets a writer on its way out of append() only with an
\* event that is accounted for.
LEMMA LossKept ==
    ASSUME LossInv, TypeInv', RowsKept, torn \subseteq torn',
           \A d \in acked' \ acked : \E w \in Writers : pc[w] = "publish" /\ d = mem[w].head,
           \A w \in Writers : pc'[w] \in {"written", "publish"} =>
                \/ pc[w] \in {"written", "publish"} /\ mem'[w] = mem[w]
                \/ Accounted(mem[w].head)'
    PROVE  LossInv'
<1>1. ASSUME NEW d, Accounted(d) PROVE Accounted(d)'
  BY <1>1, AccountedKept DEF LossInv
<1>2. \A d \in acked' : Accounted(d)'
  BY <1>1 DEF LossInv
<1>3. ASSUME NEW w \in Writers, pc'[w] \in {"written", "publish"} PROVE Accounted(mem[w].head)'
  <2>1. CASE pc[w] \in {"written", "publish"} /\ mem'[w] = mem[w]
    <3>1. Accounted(mem[w].head)
      BY <2>1 DEF LossInv
    <3> QED
      BY <2>1, <3>1, <1>1 DEF Accounted
  <2> QED
    BY <1>3, <2>1
<1> QED
  BY <1>2, <1>3 DEF LossInv

LEMMA LossInit == Init => LossInv
<1> SUFFICES ASSUME Init PROVE LossInv
  OBVIOUS
<1>1. acked = {} /\ \A w \in Writers : pc[w] = "closed"
  BY DEF Init
<1> QED
  BY <1>1, TypeInit DEF LossInv

LEMMA LossStep == LossInv /\ [Next]_vars => LossInv'
<1> SUFFICES ASSUME LossInv, [Next]_vars PROVE LossInv'
  OBVIOUS
<1>0. TypeInv /\ TypeInv' /\ TypeOK /\ torn \subseteq torn'
  BY TypeStep, TornStays DEF LossInv, TypeInv
<1>0a. file' = file => RowsKept
  BY <1>0 DEF RowsKept, TypeOK
<1>1. ASSUME NEW w \in Writers, Write(w) PROVE LossInv'
  <2>1. PICK now1 \in Times, now2 \in Times :
            /\ file' = Glued(Lines(w, now1, now2))
            /\ mem' = [mem EXCEPT ![w] = HeadOf(Lines(w, now1, now2)[Len(Lines(w, now1, now2))])]
    BY <1>1 DEF Write
  <2>2. PICK lines : lines = Lines(w, now1, now2)
    OBVIOUS
  <2>3. lines \in Seq(Row) /\ lines # <<>>
    BY <1>0, <2>2, LinesType
  <2>4. /\ pc' = [pc EXCEPT ![w] = "written"] /\ acked' = acked
        /\ \A v \in Writers \ {w} : pc'[v] = pc[v] /\ mem'[v] = mem[v]
        /\ mem'[w].head = lines[Len(lines)].this
    BY <1>0, <1>1, <2>1, <2>2 DEF Write, TypeOK, HeadOf
  <2>5. /\ RowsKept
        /\ rest = "bare" => \E i \in 1 .. Len(file') : file'[i].kind = "garbled"
        /\ rest # "bare" => \E i \in 1 .. Len(file') : file'[i] = lines[Len(lines)]
    BY <1>0, <2>1, <2>2, <2>3, GluedKeeps
  <2>6. Accounted(mem[w].head)'
    BY <2>4, <2>5 DEF Accounted
  <2> QED
    BY <1>0, <2>4, <2>5, <2>6, LossKept
<1>2. ASSUME NEW w \in Writers, TornWrite(w) PROVE LossInv'
  <2>1. PICK now1 \in Times, now2 \in Times, how \in {"crash", "short"} :
            TornLines(w, Lines(w, now1, now2), how)
    BY <1>0, <1>2, TornWriteLines
  <2>2. PICK lines : lines = Lines(w, now1, now2)
    OBVIOUS
  <2>3. lines \in Seq(Row) /\ Len(lines) \in 1 .. 2
    BY <1>0, <2>2, LinesType
  <2>4. /\ pc' = [pc EXCEPT ![w] = IF how = "short" THEN "written" ELSE "closed"]
        /\ mem' = [mem EXCEPT ![w] = IF how = "short" THEN HeadOf(lines[Len(lines)]) ELSE Fresh]
        /\ digest' = digest + Len(lines) /\ torn' = torn \cup {digest'} /\ acked' = acked
    BY <1>2, <2>1, <2>2 DEF TornLines, TornWrite
  <2>5. lines[Len(lines)].this = digest + Len(lines)
    BY <1>0, <2>2 DEF Lines, EventRow, ResyncRow
  <2>6. RowsKept
    <3>1. PICK m \in 0 .. Len(lines) : StoredLines(SubSeq(lines, 1, m))
      BY <2>1, <2>2 DEF TornLines
    <3>2. SubSeq(lines, 1, m) \in Seq(Row)
      BY <2>3, SubSeqProperties
    <3> QED
      BY <1>0, <3>1, <3>2, StoredKeeps
  <2>7. \A v \in Writers \ {w} : pc'[v] = pc[v] /\ mem'[v] = mem[v]
    BY <1>0, <2>4 DEF TypeOK
  <2>8. pc'[w] \in {"written", "publish"} => Accounted(mem[w].head)'
    <3>1. pc'[w] \in {"written", "publish"} => mem'[w] = HeadOf(lines[Len(lines)])
      BY <1>0, <2>4 DEF TypeOK
    <3> QED
      BY <2>4, <2>5, <3>1 DEF Accounted, HeadOf
  <2> QED
    BY <1>0, <2>4, <2>6, <2>7, <2>8, LossKept
<1>3. ASSUME NEW w \in Writers,
             \/ OpenExisting(w) \/ OpenEmpty(w) \/ Request(w) \/ Acquire(w) \/ RaiseOnTail(w)
             \/ RaiseOnEvent(w) \/ Crash(w)
      PROVE  LossInv'
  <2>1. /\ UNCHANGED <<file, acked>> /\ pc'[w] \notin {"written", "publish"}
        /\ \A v \in Writers \ {w} : pc'[v] = pc[v] /\ mem'[v] = mem[v]
    BY <1>0, <1>3 DEF OpenExisting, OpenEmpty, Request, Acquire, RaiseOnTail, RaiseOnEvent, Crash, TypeOK
  <2> QED
    BY <1>0, <1>0a, <2>1, LossKept
<1>4. ASSUME NEW w \in Writers, Release(w) \/ Publish(w) PROVE LossInv'
  <2>1. /\ UNCHANGED <<file, mem>> /\ pc[w] \in {"written", "publish"}
        /\ \A v \in Writers \ {w} : pc'[v] = pc[v]
    BY <1>0, <1>4 DEF Release, Publish, TypeOK
  <2>2. \A d \in acked' \ acked : pc[w] = "publish" /\ d = mem[w].head
    BY <1>4 DEF Release, Publish
  <2> QED
    BY <1>0, <1>0a, <2>1, <2>2, LossKept
<1>5. CASE UNCHANGED vars
  <2>1. UNCHANGED <<file, mem, pc, acked>>
    BY <1>5 DEF vars
  <2> QED
    BY <1>0, <1>0a, <2>1, LossKept
<1> QED
  BY <1>1, <1>2, <1>3, <1>4, <1>5 DEF Next

\* No acknowledged event is lost unseen: however writes are torn, by a power loss or a
\* short os.write, a file verify() accepts holds every event append() returned whose own
\* write was whole.
THEOREM NothingLostUnseen == Spec => []NoSilentLoss
<1>1. LossInv => NoSilentLoss
  BY DEF LossInv, Accounted, VerifyOk, NoSilentLoss
<1> QED
  BY <1>1, LossInit, LossStep, PTL DEF Spec
=============================================================================
