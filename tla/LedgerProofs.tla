---------------------------- MODULE LedgerProofs ----------------------------
(***************************************************************************)
(* Theorems about Ledger for every set of writers, every clock and every   *)
(* bound.                                                                  *)
(***************************************************************************)
EXTENDS Ledger, SequenceTheorems, TLAPS

Heads == [seq : Nat \cup {-1}, head : Nat, t : Nat]

-----------------------------------------------------------------------------
(* What the rows an append() builds are.                                   *)

LEMMA TimesNat == ASSUME TypeOK, NEW now \in Times PROVE now \in Nat
<1>1. setup \in [times : SUBSET Nat, tears : Nat]
  BY LedgerConstants DEF TypeOK
<1> QED
  BY <1>1 DEF Times

\* A resync row is made from the last row of a file that has one.
LEMMA ResyncRowType ==
    ASSUME TypeOK, file # <<>>, NEW w \in Writers, NEW now \in Times
    PROVE  /\ ResyncRow(w, now) \in Row
           /\ LastRow.t <= ResyncRow(w, now).t
<1>1. LastRow \in Row
  BY DEF TypeOK, LastRow
<1>2. LastRow.t \in Nat /\ LastRow.seq \in Nat /\ LastRow.this \in Nat
  BY <1>1 DEF Row
<1>3. now \in Nat /\ mem[w].t \in Nat /\ digest + 1 \in Nat
  BY TimesNat DEF TypeOK
<1>4. /\ Latest(now, Latest(LastRow.t, mem[w].t)) \in Nat
      /\ LastRow.t <= Latest(now, Latest(LastRow.t, mem[w].t))
  BY <1>2, <1>3 DEF Latest
<1> QED
  BY <1>2, <1>3, <1>4 DEF ResyncRow, Row, Kinds

LEMMA EventRowType ==
    ASSUME TypeOK, NEW w \in Writers, NEW now \in Times, NEW m \in Heads, NEW d \in Nat
    PROVE  /\ EventRow(w, m, d, now) \in Row
           /\ m.t <= EventRow(w, m, d, now).t
<1>1. now \in Nat /\ m.t \in Nat /\ m.head \in Nat /\ m.seq + 1 \in Nat
  BY TimesNat DEF Heads
<1>2. Latest(now, m.t) \in Nat /\ m.t <= Latest(now, m.t)
  BY <1>1 DEF Latest
<1>3. asked[w] \in Kinds
  BY DEF TypeOK, Kinds
<1> QED
  BY <1>1, <1>2, <1>3 DEF EventRow, Row

LEMMA HeadOfType ==
    ASSUME NEW row \in Row
    PROVE  HeadOf(row) \in Heads
BY DEF HeadOf, Heads, Row

\* An append() writes its event, after a resync row when its head is stale.
LEMMA LinesType ==
    ASSUME TypeOK, NEW w \in Writers, NEW now1 \in Times, NEW now2 \in Times
    PROVE  /\ Lines(w, now1, now2) \in Seq(Row)
           /\ Len(Lines(w, now1, now2)) \in 1 .. 2
           /\ HeadOf(Lines(w, now1, now2)[Len(Lines(w, now1, now2))]) \in Heads
<1>1. mem[w] \in Heads /\ digest + 1 \in Nat /\ digest + 2 \in Nat
  BY DEF TypeOK, Heads
<1>2. CASE Stale(w)
  <2>1. ResyncRow(w, now1) \in Row
    BY <1>2, ResyncRowType DEF Stale
  <2>2. EventRow(w, HeadOf(ResyncRow(w, now1)), digest + 2, now2) \in Row
    BY <2>1, <1>1, HeadOfType, EventRowType
  <2>3. Lines(w, now1, now2) =
            <<ResyncRow(w, now1), EventRow(w, HeadOf(ResyncRow(w, now1)), digest + 2, now2)>>
    BY <1>2 DEF Lines
  <2> QED
    BY <2>1, <2>2, <2>3, HeadOfType
<1>3. CASE ~Stale(w)
  <2>1. EventRow(w, mem[w], digest + 1, now2) \in Row
    BY <1>1, EventRowType
  <2>2. Lines(w, now1, now2) = <<EventRow(w, mem[w], digest + 1, now2)>>
    BY <1>3 DEF Lines
  <2> QED
    BY <2>1, <2>2, HeadOfType
<1> QED
  BY <1>2, <1>3

LEMMA GarbledType == ASSUME TypeOK, file # <<>> PROVE Garbled \in Seq(Row) /\ Garbled # <<>>
<1>1. file \in Seq(Row) /\ Len(file) \in 1 .. Len(file)
  BY DEF TypeOK
<1>2. file[Len(file)] \in Row
  BY <1>1
<1>3. [file[Len(file)] EXCEPT !.kind = "garbled"] \in Row
  BY <1>2 DEF Row, Kinds
<1> QED
  BY <1>1, <1>3 DEF Garbled

LEMMA GluedType ==
    ASSUME TypeOK, NEW lines \in Seq(Row), lines # <<>>,
           rest = "bare" => file # <<>>
    PROVE  Glued(lines) \in Seq(Row) /\ Glued(lines) # <<>>
<1>1. Tail(lines) \in Seq(Row)
  OBVIOUS
<1>2. CASE rest = "bare"
  <2>1. Garbled \in Seq(Row) /\ Garbled # <<>>
    BY <1>2, GarbledType
  <2> QED
    BY <1>1, <1>2, <2>1 DEF Glued
<1>3. CASE rest # "bare"
  BY <1>3 DEF Glued, TypeOK
<1> QED
  BY <1>2, <1>3

\* What a torn write leaves on the disk, when `stored` are the lines of it that are whole
\* or lack their newline only.
StoredLines(stored) ==
    \/ stored # <<>> /\ file' = Glued(stored) /\ rest' \in {"nl", "bare", "cut"}
    \/ stored = <<>> /\ file' = file /\ rest' \in {rest, "cut"}
    \/ stored = <<>> /\ rest = "bare" /\ file' = Garbled /\ rest' = "cut"

TornLines(w, lines, how) ==
    /\ \E m \in 0 .. Len(lines) : StoredLines(SubSeq(lines, 1, m))
    /\ digest' = digest + Len(lines)
    /\ mem' = [mem EXCEPT ![w] = IF how = "short" THEN HeadOf(lines[Len(lines)]) ELSE Fresh]
    /\ pc' = [pc EXCEPT ![w] = IF how = "short" THEN "written" ELSE "closed"]
    /\ lock' = IF how = "short" THEN lock ELSE NoWriter

LEMMA TornWriteLines ==
    ASSUME TypeOK, NEW w \in Writers, TornWrite(w)
    PROVE  \E now1, now2 \in Times, how \in {"crash", "short"} :
               TornLines(w, Lines(w, now1, now2), how)
<1> DEFINE Lands(lines, j, how, tear) ==
              LET whole == SubSeq(lines, 1, IF tear = "bare" THEN j + 1 ELSE j)
              IN  /\ how = "short" => j > 0 \/ tear # "nl"
                  /\ file' = IF whole # <<>> THEN Glued(whole)
                             ELSE IF rest = "bare" /\ tear = "cut" THEN Garbled ELSE file
                  /\ rest' = IF j = 0 /\ tear = "nl" THEN rest ELSE tear
                  /\ digest' = digest + Len(lines)
                  /\ mem' = [mem EXCEPT ![w] = IF how = "short" THEN HeadOf(lines[Len(lines)])
                                                                ELSE Fresh]
                  /\ pc' = [pc EXCEPT ![w] = IF how = "short" THEN "written" ELSE "closed"]
                  /\ lock' = IF how = "short" THEN lock ELSE NoWriter
<1>1. \E now1, now2 \in Times, how \in {"crash", "short"}, tear \in {"nl", "cut", "bare"} :
          \E j \in 0 .. Len(Lines(w, now1, now2)) - 1 : Lands(Lines(w, now1, now2), j, how, tear)
  BY Zenon DEF TornWrite
<1>2. PICK now1 \in Times, now2 \in Times, how \in {"crash", "short"}, tear \in {"nl", "cut", "bare"} :
          \E j \in 0 .. Len(Lines(w, now1, now2)) - 1 : Lands(Lines(w, now1, now2), j, how, tear)
  <2> HIDE DEF Lands
  <2> QED
    BY <1>1, Zenon
<1>2b. PICK lines : lines = Lines(w, now1, now2)
  OBVIOUS
<1>3. PICK j \in 0 .. Len(lines) - 1 : Lands(lines, j, how, tear)
  <2> HIDE DEF Lands
  <2> QED
    BY <1>2b, <1>2
<1> DEFINE m == IF tear = "bare" THEN j + 1 ELSE j
           stored == SubSeq(lines, 1, m)
<1>4. lines \in Seq(Row) /\ Len(lines) \in 1 .. 2
  BY <1>2b, LinesType
<1>5. m \in 0 .. Len(lines) /\ (tear = "bare" => m > 0) /\ (j = 0 /\ tear # "bare" => m = 0)
  BY <1>4
<1>6. /\ file' = IF stored # <<>> THEN Glued(stored)
                 ELSE IF rest = "bare" /\ tear = "cut" THEN Garbled ELSE file
      /\ rest' = IF j = 0 /\ tear = "nl" THEN rest ELSE tear
  BY <1>3
<1>7. stored = <<>> <=> m = 0
  <2>1. stored \in Seq(Row) /\ Len(stored) = m
    BY <1>4, <1>5, SubSeqProperties
  <2> HIDE DEF stored, m
  <2> QED
    BY <2>1, EmptySeq
<1>8. stored # <<>> => rest' \in {"nl", "bare", "cut"}
  <2>1. j = 0 /\ tear = "nl" => m = 0
    BY <1>5
  <2> QED
    BY <2>1, <1>6, <1>7
<1>9. stored = <<>> => j = 0 /\ tear # "bare"
  BY <1>5, <1>7
<1> HIDE DEF stored
<1>10. StoredLines(stored)
  BY <1>6, <1>8, <1>9 DEF StoredLines
<1>11. /\ digest' = digest + Len(lines)
       /\ mem' = [mem EXCEPT ![w] = IF how = "short" THEN HeadOf(lines[Len(lines)]) ELSE Fresh]
       /\ pc' = [pc EXCEPT ![w] = IF how = "short" THEN "written" ELSE "closed"]
       /\ lock' = IF how = "short" THEN lock ELSE NoWriter
  BY <1>3
<1> HIDE DEF Lands, m
<1>12. TornLines(w, lines, how)
  BY <1>5, <1>10, <1>11 DEF TornLines, stored
<1> QED
  BY <1>2b, <1>12

LEMMA StoredType ==
    ASSUME TypeOK, rest = "bare" => file # <<>>, NEW stored \in Seq(Row), StoredLines(stored)
    PROVE  /\ file' \in Seq(Row) /\ rest' \in {"nl", "bare", "cut"}
           /\ rest' = "bare" => file' # <<>>
<1>1. stored # <<>> => Glued(stored) \in Seq(Row) /\ Glued(stored) # <<>>
  BY GluedType
<1>2. rest = "bare" => Garbled \in Seq(Row)
  BY GarbledType
<1> QED
  BY <1>1, <1>2 DEF StoredLines, TypeOK

-----------------------------------------------------------------------------
(* Type correctness.                                                       *)

\* TypeOK needs that a row without its newline is a row.
TypeInv == TypeOK /\ (rest = "bare" => file # <<>>)

LEMMA TypeInit == Init => TypeInv
BY DEF Init, TypeInv, TypeOK, Fresh, NoHead, Genesis

LEMMA TypeStep == TypeInv /\ [Next]_vars => TypeInv'
<1> SUFFICES ASSUME TypeInv, [Next]_vars
             PROVE  TypeInv'
  OBVIOUS
<1> TypeOK /\ (rest = "bare" => file # <<>>)
  BY DEF TypeInv
<1>1. ASSUME NEW w \in Writers, OpenExisting(w)
      PROVE  TypeInv'
  <2>1. file # <<>> /\ Len(file) - 1 \in Nat
    BY <1>1 DEF OpenExisting, VerifyOk, TypeOK
  <2>2. LastRow \in Row
    BY <2>1 DEF LastRow, TypeOK
  <2>3. [seq |-> Len(file) - 1, head |-> LastRow.this, t |-> LastRow.t] \in Heads
    BY <2>1, <2>2 DEF Heads, Row
  <2> QED
    BY <1>1, <2>3 DEF OpenExisting, TypeInv, TypeOK, Heads
<1>2. ASSUME NEW w \in Writers, OpenEmpty(w)
      PROVE  TypeInv'
  BY <1>2 DEF OpenEmpty, TypeInv, TypeOK, Fresh, Genesis
<1>3. ASSUME NEW w \in Writers, Request(w) \/ Acquire(w) \/ RaiseOnTail(w) \/ Release(w)
      PROVE  TypeInv'
  BY <1>3 DEF Request, Acquire, RaiseOnTail, Release, TypeInv, TypeOK
<1>4. ASSUME NEW w \in Writers, Write(w)
      PROVE  TypeInv'
  <2>1. PICK now1 \in Times, now2 \in Times :
            /\ file' = Glued(Lines(w, now1, now2))
            /\ mem' = [mem EXCEPT ![w] =
                         HeadOf(Lines(w, now1, now2)[Len(Lines(w, now1, now2))])]
            /\ digest' = digest + Len(Lines(w, now1, now2))
    BY <1>4 DEF Write
  <2> DEFINE lines == Lines(w, now1, now2)
  <2>2. /\ lines \in Seq(Row)
        /\ Len(lines) \in 1 .. 2
        /\ HeadOf(lines[Len(lines)]) \in Heads
    BY LinesType
  <2>3. file' = Glued(lines) /\ digest' = digest + Len(lines)
        /\ mem' = [mem EXCEPT ![w] = HeadOf(lines[Len(lines)])]
    BY <2>1
  <2> HIDE DEF lines
  <2>3a. lines # <<>>
    BY <2>2
  <2>4. file' \in Seq(Row)
    BY <2>2, <2>3, <2>3a, GluedType, Zenon
  <2>5. mem' \in [Writers -> Heads] /\ digest' \in Nat
    BY <2>2, <2>3 DEF TypeOK, Heads
  <2> QED
    BY <1>4, <2>4, <2>5 DEF Write, TypeInv, TypeOK, Heads
<1>5. ASSUME NEW w \in Writers, TornWrite(w)
      PROVE  TypeInv'
  <2>1. PICK now1 \in Times, now2 \in Times, how \in {"crash", "short"} :
            TornLines(w, Lines(w, now1, now2), how)
    BY <1>5, TornWriteLines
  <2> DEFINE lines == Lines(w, now1, now2)
  <2>2. /\ lines \in Seq(Row)
        /\ Len(lines) \in 1 .. 2
        /\ HeadOf(lines[Len(lines)]) \in Heads
    BY LinesType
  <2>3. TornLines(w, lines, how)
    BY <2>1
  <2> HIDE DEF lines
  <2>4. PICK m \in 0 .. Len(lines) : StoredLines(SubSeq(lines, 1, m))
    BY <2>3 DEF TornLines
  <2>5. file' \in Seq(Row) /\ rest' \in {"nl", "bare", "cut"} /\ (rest' = "bare" => file' # <<>>)
    <3>1. SubSeq(lines, 1, m) \in Seq(Row)
      BY <2>2, SubSeqProperties
    <3> QED
      BY <2>4, <3>1, StoredType
  <2>6. Fresh \in Heads
    BY DEF Fresh, Heads, Genesis
  <2>7. mem' \in [Writers -> Heads] /\ digest' \in Nat
    BY <2>2, <2>3, <2>6 DEF TornLines, TypeOK, Heads
  <2>8. /\ pc' \in [Writers -> {"closed", "idle", "want", "locked", "written", "publish"}]
        /\ lock' \in Writers \cup {NoWriter}
    BY <2>3 DEF TornLines, TypeOK
  <2>9. torn' \subseteq Nat
    BY <1>5, <2>7 DEF TornWrite, TypeOK
  <2> QED
    BY <1>5, <2>5, <2>7, <2>8, <2>9 DEF TornWrite, TypeInv, TypeOK, Heads
<1>6. ASSUME NEW w \in Writers, RaiseOnEvent(w)
      PROVE  TypeInv'
  <2>1. PICK now \in Times :
            IF Stale(w)
            THEN /\ mem' = [mem EXCEPT ![w] = HeadOf(ResyncRow(w, now))]
                 /\ digest' = digest + 1
            ELSE UNCHANGED <<mem, digest>>
    BY <1>6 DEF RaiseOnEvent
  <2>2. Stale(w) => HeadOf(ResyncRow(w, now)) \in Heads
    BY ResyncRowType, HeadOfType DEF Stale
  <2>3. mem \in [Writers -> Heads] /\ digest \in Nat
    BY DEF TypeOK, Heads
  <2>4. ASSUME Stale(w) PROVE mem' \in [Writers -> Heads] /\ digest' \in Nat
    BY <2>1, <2>2, <2>3, <2>4
  <2>5. ASSUME ~Stale(w) PROVE mem' \in [Writers -> Heads] /\ digest' \in Nat
    BY <2>1, <2>3, <2>5
  <2>6. mem' \in [Writers -> Heads] /\ digest' \in Nat
    BY <2>4, <2>5
  <2> QED
    BY <1>6, <2>6 DEF RaiseOnEvent, TypeInv, TypeOK, Heads
<1>7. ASSUME NEW w \in Writers, Publish(w)
      PROVE  TypeInv'
  BY <1>7 DEF Publish, TypeInv, TypeOK
<1>8. ASSUME NEW w \in Writers, Crash(w)
      PROVE  TypeInv'
  BY <1>8 DEF Crash, TypeInv, TypeOK, Fresh, Genesis
<1>9. CASE UNCHANGED vars
  BY <1>9 DEF vars, TypeInv, TypeOK
<1> QED
  BY <1>1, <1>2, <1>3, <1>4, <1>5, <1>6, <1>7, <1>8, <1>9 DEF Next

\* Every behaviour of the writers, torn writes and crashes included, keeps the
\* types of the file, the lock and each writer's memory.
THEOREM TypeCorrect == Spec => []TypeOK
<1>1. TypeInv => TypeOK
  BY DEF TypeInv
<1> QED
  BY <1>1, TypeInit, TypeStep, PTL DEF Spec

-----------------------------------------------------------------------------
(* The chain verifies as long as no write is torn.  ChainVerifies is not   *)
(* inductive: a writer that believes its head is the last row must also    *)
(* remember that row's seq and time stamp, and no head may equal a digest  *)
(* computed later.  ChainInv is kept by every step that tears no write.    *)

Chained(s) == \A i \in 1 .. Len(s) :
    /\ s[i].kind # "garbled"
    /\ s[i].seq = i - 1
    /\ s[i].prev = IF i = 1 THEN Genesis ELSE s[i - 1].this
    /\ i > 1 => s[i - 1].t <= s[i].t

\* Row r may follow s.
Continues(s, r) ==
    /\ r.kind # "garbled"
    /\ r.seq = Len(s)
    /\ r.prev = IF s = <<>> THEN Genesis ELSE s[Len(s)].this
    /\ s # <<>> => s[Len(s)].t <= r.t

HeadsAgree(w) ==
    /\ mem[w].head <= digest
    /\ file = <<>> => mem[w] = Fresh
    /\ file # <<>> /\ mem[w].head = LastRow.this =>
            mem[w].seq = LastRow.seq /\ mem[w].t = LastRow.t

ChainInv ==
    /\ TypeOK
    /\ rest = "nl"
    /\ Chained(file)
    /\ file # <<>> => LastRow.this \in 1 .. digest
    /\ \A w \in Writers : HeadsAgree(w)

LEMMA ChainedAppend ==
    ASSUME NEW s \in Seq(Row), NEW r \in Row, Chained(s), Continues(s, r)
    PROVE  Chained(Append(s, r))
<1> DEFINE q == Append(s, r)
<1>1. /\ q \in Seq(Row) /\ Len(q) = Len(s) + 1
      /\ \A i \in 1 .. Len(s) : q[i] = s[i]
      /\ q[Len(s) + 1] = r
  BY AppendProperties
<1>2. SUFFICES ASSUME NEW i \in 1 .. Len(q)
               PROVE  /\ q[i].kind # "garbled"
                      /\ q[i].seq = i - 1
                      /\ q[i].prev = IF i = 1 THEN Genesis ELSE q[i - 1].this
                      /\ i > 1 => q[i - 1].t <= q[i].t
  BY DEF Chained
<1> HIDE DEF q
<1>3. CASE i \in 1 .. Len(s)
  <2>1. q[i] = s[i] /\ (i > 1 => q[i - 1] = s[i - 1])
    BY <1>1, <1>3
  <2> QED
    BY <2>1, <1>3 DEF Chained
<1>4. CASE i = Len(s) + 1
  <2>1. q[i] = r /\ (i > 1 => q[i - 1] = s[Len(s)])
    BY <1>1, <1>4
  <2>2. i = 1 <=> s = <<>>
    BY <1>4
  <2> QED
    BY <2>1, <2>2, <1>4 DEF Continues
<1> QED
  BY <1>1, <1>3, <1>4

\* The whole of what the rows of one append() must do to the file.
LEMMA LinesContinue ==
    ASSUME ChainInv, NEW w \in Writers, NEW now1 \in Times, NEW now2 \in Times
    PROVE  LET lines == Lines(w, now1, now2)
               last  == lines[Len(lines)]
           IN  /\ Chained(file \o lines)
               /\ Len(lines) \in 1 .. 2
               /\ last \in Row
               /\ last.this = digest + Len(lines)
               /\ (file \o lines)[Len(file \o lines)] = last
<1> DEFINE lines == Lines(w, now1, now2)
<1>1. /\ TypeOK /\ file \in Seq(Row) /\ Chained(file)
      /\ mem[w] \in Heads /\ digest \in Nat /\ HeadsAgree(w)
      /\ digest + 1 \in Nat /\ digest + 2 \in Nat
  BY DEF ChainInv, TypeOK, Heads
<1>1a. asked[w] # "garbled"
  <2>1. asked[w] \in {"genesis", "event"}
    BY <1>1 DEF TypeOK
  <2> QED
    BY <2>1
<1>2. CASE Stale(w)
  <2> DEFINE r == ResyncRow(w, now1)
             e == EventRow(w, HeadOf(r), digest + 2, now2)
  <2>1. file # <<>> /\ LastRow \in Row /\ LastRow = file[Len(file)] /\ LastRow.seq = Len(file) - 1
    BY <1>1, <1>2 DEF Stale, LastRow, Chained
  <2>2. r \in Row /\ LastRow.t <= r.t /\ r.this = digest + 1
        /\ r.kind = "head_resync" /\ r.seq = LastRow.seq + 1 /\ r.prev = LastRow.this
    BY <2>1, <1>1, ResyncRowType DEF ResyncRow
  <2>3. HeadOf(r) \in Heads /\ HeadOf(r).seq = r.seq /\ HeadOf(r).head = r.this /\ HeadOf(r).t = r.t
    BY <2>2, HeadOfType DEF HeadOf
  <2>4. e \in Row /\ r.t <= e.t /\ e.seq = r.seq + 1 /\ e.prev = r.this
        /\ e.kind = asked[w] /\ e.this = digest + 2
    BY <2>3, <1>1, EventRowType DEF EventRow
  <2>5. lines = <<r, e>>
    BY <1>2 DEF Lines
  <2> HIDE DEF r, e, lines
  <2>6. Continues(file, r)
    BY <2>1, <2>2, <1>1 DEF Continues
  <2> DEFINE q == Append(file, r)
  <2>7. q \in Seq(Row) /\ Len(q) = Len(file) + 1 /\ q # <<>> /\ q[Len(q)] = r
    BY <1>1, <2>2, AppendProperties
  <2>8. Chained(q)
    BY <1>1, <2>2, <2>6, ChainedAppend
  <2>9. file \o lines = Append(q, e)
    BY <1>1, <2>2, <2>4, <2>5
  <2> HIDE DEF q
  <2>10. Continues(q, e)
    BY <2>1, <2>2, <2>4, <2>7, <1>1, <1>1a DEF Continues
  <2>11. Chained(Append(q, e)) /\ Append(q, e)[Len(Append(q, e))] = e
    BY <2>4, <2>7, <2>8, <2>10, ChainedAppend, AppendProperties
  <2>12. Len(lines) = 2 /\ lines[Len(lines)] = e
    BY <2>5
  <2> QED
    BY <2>4, <2>9, <2>11, <2>12 DEF lines
<1>3. CASE ~Stale(w)
  <2> DEFINE e == EventRow(w, mem[w], digest + 1, now2)
  <2>1. e \in Row /\ mem[w].t <= e.t /\ e.seq = mem[w].seq + 1 /\ e.prev = mem[w].head
        /\ e.kind = asked[w] /\ e.this = digest + 1
    BY <1>1, EventRowType DEF EventRow
  <2>2. lines = <<e>>
    BY <1>3 DEF Lines
  <2> HIDE DEF e, lines
  <2>3. ASSUME file = <<>> PROVE Continues(file, e)
    BY <2>1, <2>3, <1>1, <1>1a DEF Continues, HeadsAgree, Fresh, Genesis
  <2>4. ASSUME file # <<>> PROVE Continues(file, e)
    <3>1. mem[w].head = LastRow.this
      BY <1>3, <2>4 DEF Stale
    <3>2. mem[w].seq = LastRow.seq /\ mem[w].t = LastRow.t
      BY <3>1, <2>4, <1>1 DEF HeadsAgree
    <3>3. LastRow = file[Len(file)] /\ LastRow.seq = Len(file) - 1
      BY <2>4, <1>1 DEF LastRow, Chained
    <3> QED
      BY <3>1, <3>2, <3>3, <2>1, <2>4, <1>1, <1>1a DEF Continues
  <2>5. Continues(file, e)
    BY <2>3, <2>4
  <2>6. Chained(Append(file, e)) /\ Append(file, e)[Len(Append(file, e))] = e
    BY <1>1, <2>1, <2>5, ChainedAppend, AppendProperties
  <2>7. file \o lines = Append(file, e)
    BY <1>1, <2>1, <2>2
  <2>8. Len(lines) = 1 /\ lines[Len(lines)] = e
    BY <2>2
  <2> QED
    BY <2>1, <2>6, <2>7, <2>8 DEF lines
<1> QED
  BY <1>2, <1>3

LEMMA ChainInit == Init => ChainInv
<1> SUFFICES ASSUME Init PROVE ChainInv
  OBVIOUS
<1>1. TypeOK
  BY TypeInit DEF TypeInv
<1>2. file = <<>> /\ rest = "nl" /\ digest = 0 /\ \A w \in Writers : mem[w] = Fresh
  BY DEF Init
<1> QED
  BY <1>1, <1>2 DEF ChainInv, Chained, HeadsAgree, Fresh, Genesis

\* A step that leaves the file alone and changes no head, or sets one writer's
\* head to Fresh, to the last row or to a digest computed just now.
LEMMA HeadStep ==
    ASSUME ChainInv, TypeOK', UNCHANGED <<file, rest>>, digest' \in {digest, digest + 1},
           NEW w \in Writers,
           \A v \in Writers \ {w} : mem'[v] = mem[v],
           HeadsAgree(w)'
    PROVE  ChainInv'
<1>1. digest \in Nat /\ LastRow' = LastRow
  BY DEF ChainInv, TypeOK, LastRow
<1>2. ASSUME NEW v \in Writers PROVE HeadsAgree(v)'
  <2>1. CASE v = w
    BY <2>1
  <2>2. CASE v # w
    <3>1. mem'[v] = mem[v] /\ mem[v].head \in Nat
      BY <2>2 DEF ChainInv, TypeOK
    <3> QED
      BY <3>1, <1>1 DEF ChainInv, HeadsAgree, LastRow
  <2> QED
    BY <2>1, <2>2
<1>3. Chained(file)' /\ (file' # <<>> => LastRow'.this \in 1 .. digest')
  BY <1>1 DEF ChainInv, Chained
<1> QED
  BY <1>2, <1>3 DEF ChainInv

\* Once a write was torn, it was.
LEMMA TornStays == ASSUME [Next]_vars PROVE torn \subseteq torn'
BY DEF Next, OpenExisting, OpenEmpty, Request, Acquire, Write, TornWrite, RaiseOnTail,
       RaiseOnEvent, Release, Publish, Crash, vars

LEMMA ChainStep == ChainInv /\ [Next]_vars /\ torn' = {} => ChainInv'
<1> SUFFICES ASSUME ChainInv, [Next]_vars, torn' = {}
             PROVE  ChainInv'
  OBVIOUS
<1>0. TypeOK /\ TypeOK' /\ digest \in Nat
  BY TypeStep DEF ChainInv, TypeInv, TypeOK
<1>1. ASSUME NEW w \in Writers, OpenExisting(w)
      PROVE  ChainInv'
  <2>1. /\ file # <<>> /\ UNCHANGED <<file, rest, digest>>
        /\ mem' = [mem EXCEPT ![w] = [seq |-> Len(file) - 1, head |-> LastRow.this, t |-> LastRow.t]]
    BY <1>1 DEF OpenExisting, VerifyOk
  <2>2. mem'[w] = [seq |-> Len(file) - 1, head |-> LastRow.this, t |-> LastRow.t]
        /\ \A v \in Writers \ {w} : mem'[v] = mem[v]
    BY <2>1, <1>0 DEF TypeOK
  <2>3. LastRow.seq = Len(file) - 1 /\ LastRow.this \in 1 .. digest /\ LastRow' = LastRow
    BY <2>1, <1>0 DEF ChainInv, Chained, LastRow, TypeOK
  <2>4. HeadsAgree(w)'
    BY <2>1, <2>2, <2>3 DEF HeadsAgree
  <2> QED
    BY <1>0, <2>1, <2>2, <2>4, HeadStep
<1>2. ASSUME NEW w \in Writers, OpenEmpty(w) \/ Crash(w)
      PROVE  ChainInv'
  <2>1. UNCHANGED <<file, rest, digest>> /\ mem' = [mem EXCEPT ![w] = Fresh]
    BY <1>2 DEF OpenEmpty, Crash
  <2>2. mem'[w] = Fresh /\ \A v \in Writers \ {w} : mem'[v] = mem[v]
    BY <2>1, <1>0 DEF TypeOK
  <2>3. HeadsAgree(w)'
    BY <2>1, <2>2, <1>0 DEF HeadsAgree, Fresh, Genesis, ChainInv, LastRow
  <2> QED
    BY <1>0, <2>1, <2>2, <2>3, HeadStep
<1>3. ASSUME NEW w \in Writers, Request(w) \/ Acquire(w) \/ RaiseOnTail(w) \/ Release(w) \/ Publish(w)
      PROVE  ChainInv'
  <2>1. UNCHANGED <<file, rest, digest, mem>>
    BY <1>3 DEF Request, Acquire, RaiseOnTail, Release, Publish
  <2>2. HeadsAgree(w)'
    BY <2>1 DEF ChainInv, HeadsAgree, LastRow
  <2> QED
    BY <1>0, <2>1, <2>2, HeadStep
<1>4. ASSUME NEW w \in Writers, Write(w)
      PROVE  ChainInv'
  <2>1. PICK now1 \in Times, now2 \in Times :
            /\ file' = Glued(Lines(w, now1, now2))
            /\ mem' = [mem EXCEPT ![w] =
                         HeadOf(Lines(w, now1, now2)[Len(Lines(w, now1, now2))])]
            /\ digest' = digest + Len(Lines(w, now1, now2))
    BY <1>4 DEF Write
  <2> DEFINE lines == Lines(w, now1, now2)
             last  == lines[Len(lines)]
  <2>2. /\ Chained(file \o lines) /\ Len(lines) \in 1 .. 2
        /\ last \in Row /\ last.this = digest + Len(lines)
        /\ (file \o lines)[Len(file \o lines)] = last
    BY LinesContinue
  <2>3. file' = file \o lines
    BY <2>1 DEF Glued, ChainInv
  <2>4. mem' = [mem EXCEPT ![w] = HeadOf(last)] /\ digest' = digest + Len(lines)
    BY <2>1
  <2>5. lines \in Seq(Row)
    BY <1>0, LinesType
  <2> HIDE DEF last, lines
  <2>6. file' # <<>> /\ LastRow' = last
    <3>1. LastRow' = file'[Len(file')]
      BY DEF LastRow
    <3>2. Len(file') = Len(file) + Len(lines)
      BY <2>3, <2>5, <1>0, ConcatProperties DEF TypeOK
    <3>3. Len(file') # 0
      <4>1. Len(file) \in Nat /\ Len(lines) \in 1 .. 2
        BY <2>2, <1>0 DEF TypeOK
      <4> QED
        BY <4>1, <3>2
    <3> QED
      BY <3>1, <3>3, <2>2, <2>3
  <2>7. LastRow'.this \in 1 .. digest'
    BY <2>2, <2>4, <2>6, <1>0
  <2>8. ASSUME NEW v \in Writers PROVE HeadsAgree(v)'
    <3>1. CASE v = w
      <4>1. mem'[v] = [seq |-> last.seq, head |-> last.this, t |-> last.t]
        BY <3>1, <2>4, <1>0 DEF TypeOK, HeadOf
      <4> QED
        BY <4>1, <2>6, <2>7 DEF HeadsAgree
    <3>2. CASE v # w
      <4>1. mem'[v] = mem[v] /\ mem[v].head \in Nat /\ mem[v].head <= digest
        BY <3>2, <2>4, <1>0 DEF TypeOK, ChainInv, HeadsAgree
      <4>2. LastRow'.this = digest + Len(lines) /\ digest' = digest + Len(lines)
        BY <2>2, <2>4, <2>6
      <4>3. digest < LastRow'.this /\ digest <= digest'
        <5>1. Len(lines) \in 1 .. 2 /\ digest \in Nat
          BY <2>2, <1>0
        <5>2. digest < digest + Len(lines) /\ digest <= digest + Len(lines)
          BY <5>1
        <5> QED
          BY <4>2, <5>2, Zenon
      <4>4. digest' \in Nat /\ LastRow'.this \in Nat
        BY <1>0, <4>2 DEF TypeOK
      <4>5. mem'[v].head < LastRow'.this /\ mem'[v].head <= digest'
        BY <4>1, <4>3, <4>4, <1>0
      <4> QED
        BY <4>1, <4>4, <4>5, <2>6 DEF HeadsAgree
    <3> QED
      BY <3>1, <3>2
  <2>9. rest' = "nl" /\ Chained(file)'
    BY <1>4, <2>2, <2>3 DEF Write, Chained
  <2> QED
    BY <1>0, <2>7, <2>8, <2>9 DEF ChainInv
<1>5. ASSUME NEW w \in Writers, RaiseOnEvent(w)
      PROVE  ChainInv'
  <2>1. PICK now \in Times :
            IF Stale(w)
            THEN /\ mem' = [mem EXCEPT ![w] = HeadOf(ResyncRow(w, now))]
                 /\ digest' = digest + 1
            ELSE UNCHANGED <<mem, digest>>
    BY <1>5 DEF RaiseOnEvent
  <2>2. UNCHANGED <<file, rest>>
    BY <1>5 DEF RaiseOnEvent
  <2>3. CASE Stale(w)
    <3>1. /\ mem'[w].head = digest + 1 /\ \A v \in Writers \ {w} : mem'[v] = mem[v]
          /\ digest' = digest + 1
      BY <2>1, <2>3, <1>0 DEF HeadOf, ResyncRow, TypeOK
    <3>2. file # <<>> /\ LastRow.this \in 1 .. digest /\ LastRow' = LastRow
      BY <2>2, <2>3 DEF Stale, ChainInv, LastRow
    <3>3. HeadsAgree(w)'
      BY <3>1, <3>2, <2>2, <1>0 DEF HeadsAgree
    <3> QED
      BY <1>0, <2>2, <3>1, <3>3, HeadStep
  <2>4. CASE ~Stale(w)
    <3>1. UNCHANGED <<file, mem, digest>>
      BY <2>1, <2>2, <2>4
    <3>2. HeadsAgree(w)'
      BY <3>1 DEF ChainInv, HeadsAgree, LastRow
    <3> QED
      BY <1>0, <2>2, <3>1, <3>2, HeadStep
  <2> QED
    BY <2>3, <2>4
<1>6. ASSUME NEW w \in Writers, TornWrite(w)
      PROVE  ChainInv'
  BY <1>6 DEF TornWrite
<1>7. CASE UNCHANGED vars
  BY <1>7, <1>0 DEF vars, ChainInv, Chained, HeadsAgree, LastRow
<1> QED
  BY <1>1, <1>2, <1>3, <1>4, <1>5, <1>6, <1>7 DEF Next

\* As long as no os.write is torn, whatever is on disk is accepted by verify(): stale
\* heads, refused events, racing genesis rows, clocks that step back and crashes
\* between any two steps never fork or break the chain.
THEOREM ChainHolds == Spec => []ChainVerifies
<1> DEFINE Inv == TypeInv /\ (torn = {} => ChainInv)
<1>1. Init => Inv
  BY TypeInit, ChainInit
<1>2. Inv /\ [Next]_vars => Inv'
  BY TypeStep, ChainStep, TornStays
<1>3. Inv => ChainVerifies
  BY DEF ChainInv, Chained, ChainVerifies, VerifyOk
<1> QED
  BY <1>1, <1>2, <1>3, PTL DEF Spec

-----------------------------------------------------------------------------
(* What the head file names is on the chain, as long as no write is torn:  *)
(* it follows from where the row of a writer is between its write and its  *)
(* return.                                                                 *)

OnDisk(head, this) == head + 1 \in 1 .. Len(file) /\ file[head + 1].this = this

DiskInv ==
    /\ ChainInv
    /\ \A w \in Writers : pc[w] \in {"written", "publish"} => OnDisk(mem[w].seq, mem[w].head)
    /\ headfile = NoHead \/ OnDisk(headfile.seq, headfile.this)

FileGrows == Len(file) <= Len(file') /\ \A i \in 1 .. Len(file) : file'[i] = file[i]

LEMMA WriteGrows ==
    ASSUME ChainInv, NEW w \in Writers, Write(w)
    PROVE  /\ FileGrows /\ mem'[w].seq + 1 = Len(file') /\ Len(file') \in 1 .. Len(file')
           /\ file'[Len(file')].this = mem'[w].head
           /\ \A v \in Writers \ {w} : mem'[v] = mem[v]
<1>1. PICK now1 \in Times, now2 \in Times :
          /\ file' = Glued(Lines(w, now1, now2))
          /\ mem' = [mem EXCEPT ![w] = HeadOf(Lines(w, now1, now2)[Len(Lines(w, now1, now2))])]
  BY DEF Write
<1>2. PICK lines : lines = Lines(w, now1, now2)
  OBVIOUS
<1> DEFINE last == lines[Len(lines)]
<1>3. /\ Chained(file \o lines) /\ Len(lines) \in 1 .. 2 /\ lines \in Seq(Row)
      /\ (file \o lines)[Len(file \o lines)] = last
  BY <1>2, LinesContinue, LinesType DEF ChainInv
<1>4. file' = file \o lines /\ file \in Seq(Row)
  BY <1>1, <1>2 DEF Glued, ChainInv, TypeOK
<1>5. mem'[w] = HeadOf(last) /\ \A v \in Writers \ {w} : mem'[v] = mem[v]
  BY <1>1, <1>2 DEF ChainInv, TypeOK
<1> HIDE DEF last
<1>6. Len(file') = Len(file) + Len(lines) /\ \A i \in 1 .. Len(file) : file'[i] = file[i]
  BY <1>3, <1>4, ConcatProperties
<1>7. Len(file) \in Nat /\ Len(file') \in 1 .. Len(file')
  <2>1. Len(file) \in Nat /\ Len(lines) \in 1 .. 2
    BY <1>3, <1>4
  <2> QED
    BY <1>6, <2>1
<1>8. file'[Len(file')] = last /\ last.seq = Len(file') - 1
  BY <1>3, <1>4, <1>7 DEF Chained
<1>9. mem'[w].seq + 1 = Len(file') /\ mem'[w].head = last.this
  BY <1>5, <1>7, <1>8 DEF HeadOf
<1> QED
  BY <1>3, <1>5, <1>6, <1>7, <1>8, <1>9 DEF FileGrows

\* A step that loses no row, and leaves a writer in a write only with its row on disk.
LEMMA DiskKept ==
    ASSUME DiskInv, ChainInv', FileGrows,
           \A w \in Writers : pc'[w] \in {"written", "publish"} =>
                \/ pc[w] \in {"written", "publish"} /\ mem'[w] = mem[w]
                \/ OnDisk(mem[w].seq, mem[w].head)',
           headfile' = headfile \/ OnDisk(headfile.seq, headfile.this)'
    PROVE  DiskInv'
<1>1. Len(file) \in Nat /\ Len(file') \in Nat
  BY DEF DiskInv, ChainInv, TypeOK
<1>2. ASSUME NEW seq, NEW this, OnDisk(seq, this) PROVE seq + 1 \in 1 .. Len(file') /\ file'[seq + 1].this = this
  BY <1>1, <1>2 DEF OnDisk, FileGrows
<1>3. ASSUME NEW w \in Writers, pc'[w] \in {"written", "publish"} PROVE OnDisk(mem[w].seq, mem[w].head)'
  <2>1. CASE pc[w] \in {"written", "publish"} /\ mem'[w] = mem[w]
    BY <1>2, <2>1 DEF DiskInv, OnDisk
  <2> QED
    BY <1>3, <2>1
<1>4. headfile' = NoHead \/ OnDisk(headfile.seq, headfile.this)'
  BY <1>2 DEF DiskInv, OnDisk
<1> QED
  BY <1>3, <1>4 DEF DiskInv

LEMMA DiskInit == Init => DiskInv
<1> SUFFICES ASSUME Init PROVE DiskInv
  OBVIOUS
<1>1. headfile = NoHead /\ \A w \in Writers : pc[w] = "closed"
  BY DEF Init
<1> QED
  BY <1>1, ChainInit DEF DiskInv

LEMMA DiskStep == ASSUME DiskInv, [Next]_vars, torn' = {} PROVE DiskInv'
<1>0. ChainInv /\ ChainInv' /\ TypeOK
  BY ChainStep DEF DiskInv, ChainInv
<1>1. ASSUME NEW w \in Writers, Write(w) PROVE DiskInv'
  <2>1. pc' = [pc EXCEPT ![w] = "written"] /\ UNCHANGED headfile
    BY <1>1 DEF Write
  <2>2. \A v \in Writers \ {w} : pc'[v] = pc[v] /\ mem'[v] = mem[v]
    BY <1>0, <1>1, <2>1, WriteGrows DEF TypeOK
  <2>3. OnDisk(mem[w].seq, mem[w].head)' /\ FileGrows
    BY <1>0, <1>1, WriteGrows DEF OnDisk
  <2> QED
    BY <1>0, <2>1, <2>2, <2>3, DiskKept
<1>2. ASSUME NEW w \in Writers,
             \/ OpenExisting(w) \/ OpenEmpty(w) \/ Request(w) \/ Acquire(w) \/ RaiseOnTail(w)
             \/ RaiseOnEvent(w) \/ Crash(w)
      PROVE  DiskInv'
  <2>1. /\ UNCHANGED <<file, headfile>> /\ pc'[w] \notin {"written", "publish"}
        /\ \A v \in Writers \ {w} : pc'[v] = pc[v] /\ mem'[v] = mem[v]
    BY <1>0, <1>2 DEF OpenExisting, OpenEmpty, Request, Acquire, RaiseOnTail, RaiseOnEvent, Crash, TypeOK
  <2>2. FileGrows
    BY <1>0, <2>1 DEF FileGrows, TypeOK
  <2> QED
    BY <1>0, <2>1, <2>2, DiskKept
<1>3. ASSUME NEW w \in Writers, Release(w) PROVE DiskInv'
  <2>1. /\ UNCHANGED <<file, mem, headfile>> /\ pc[w] = "written"
        /\ \A v \in Writers \ {w} : pc'[v] = pc[v]
    BY <1>0, <1>3 DEF Release, TypeOK
  <2>2. FileGrows
    BY <1>0, <2>1 DEF FileGrows, TypeOK
  <2> QED
    BY <1>0, <2>1, <2>2, DiskKept
<1>4. ASSUME NEW w \in Writers, Publish(w) PROVE DiskInv'
  <2>1. /\ UNCHANGED <<file, mem>> /\ pc[w] = "publish" /\ pc'[w] = "idle"
        /\ \A v \in Writers \ {w} : pc'[v] = pc[v]
        /\ headfile' = [seq |-> mem[w].seq, this |-> mem[w].head]
    BY <1>0, <1>4 DEF Publish, TypeOK
  <2>2. FileGrows
    BY <1>0, <2>1 DEF FileGrows, TypeOK
  <2>3. OnDisk(mem[w].seq, mem[w].head)
    BY <2>1 DEF DiskInv
  <2>4. OnDisk(headfile.seq, headfile.this)'
    BY <2>1, <2>3 DEF OnDisk
  <2> QED
    BY <1>0, <2>1, <2>2, <2>4, DiskKept
<1>5. ASSUME NEW w \in Writers, TornWrite(w) PROVE DiskInv'
  BY <1>5 DEF TornWrite
<1>6. CASE UNCHANGED vars
  <2>1. UNCHANGED <<file, mem, pc, headfile>>
    BY <1>6 DEF vars
  <2>2. FileGrows
    BY <1>0, <2>1 DEF FileGrows, TypeOK
  <2> QED
    BY <1>0, <2>1, <2>2, DiskKept
<1> QED
  BY <1>1, <1>2, <1>3, <1>4, <1>5, <1>6 DEF Next

\* As long as no os.write is torn, the head file, written outside the lock, always names
\* a row of the chain at its own seq, however late the process that writes it is.
THEOREM HeadFileNamesARow == Spec => []HeadFileOnChain
<1> DEFINE Inv == TypeInv /\ (torn = {} => DiskInv)
<1>1. Init => Inv
  BY TypeInit, DiskInit
<1>2. Inv /\ [Next]_vars => Inv'
  BY TypeStep, DiskStep, TornStays
<1>3. Inv => HeadFileOnChain
  BY DEF DiskInv, OnDisk, HeadFileOnChain
<1> QED
  BY <1>1, <1>2, <1>3, PTL DEF Spec
=============================================================================
