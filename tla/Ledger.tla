------------------------------- MODULE Ledger -------------------------------
(***************************************************************************)
(* The hash-chained evidence ledger of pravrudhi_kernel: any number of     *)
(* LedgerWriter objects, one per process, appending to one JSONL file      *)
(* under an exclusive flock, and the chain verifier that open() and        *)
(* `replay --verify` run.                                                  *)
(*                                                                         *)
(* A SHA-256 digest is a number never used before: digests of different    *)
(* bodies differ.  A body is its seq, its time stamp and its link; payload *)
(* and envelope fields no property reads are left out.                     *)
(***************************************************************************)
EXTENDS Integers, Sequences, FiniteSets

CONSTANTS
    Writers,    \* the processes holding a LedgerWriter on this file
    NoWriter,   \* nobody holds the flock
    Setups,     \* what may happen to a behaviour: the readings of its wall clock, which
                \* may step backwards, and how many writes are torn
    MaxDigest   \* bound: no append() starts after this many digests

ASSUME LedgerConstants ==
    /\ NoWriter \notin Writers
    /\ Setups \subseteq [times : SUBSET Nat, tears : Nat]
    /\ MaxDigest \in Nat

VARIABLES
    setup,   \* this behaviour's member of Setups
    file,    \* the complete lines of the ledger, oldest first
    rest,    \* what follows the last newline: "nl" nothing, "bare" the last row of
             \* `file` lacks its newline, "cut" a line that is not complete JSON
    lock,    \* holder of the exclusive flock
    digest,  \* number of digests computed so far
    pc,      \* where each writer is inside open() or append()
    mem,     \* each writer's self.seq, self.head_hash and self.t_last
    asked,   \* the kind of event each writer is appending
    headfile,\* the content of ledger.jsonl.head
    acked,   \* digests of the events whose append() returned
    torn     \* history: digests of the events whose write was torn

vars == <<setup, file, rest, lock, digest, pc, mem, asked, headfile, acked, torn>>

Times   == setup.times
Genesis == 0                          \* genesis_prev_hash(kernel_release)
Fresh   == [seq |-> -1, head |-> Genesis, t |-> 0]
NoHead  == [seq |-> -1, this |-> Genesis]
Kinds   == {"genesis", "event", "head_resync", "garbled"}
Row     == [seq : Nat, t : Nat, kind : Kinds, by : Writers, prev : Nat, this : Nat]

Latest(a, b) == IF a > b THEN a ELSE b
LastRow      == file[Len(file)]

VerifySkipsGarbled ==
    /\ file # <<>>
    /\ rest # "cut"
    /\ \A i \in 1 .. Len(file) : file[i].kind # "garbled" =>
        /\ file[i].seq = i - 1
        /\ file[i].prev = IF i = 1 THEN Genesis ELSE file[i - 1].this
        /\ i > 1 => file[i - 1].t <= file[i].t

\* verify(): seq contiguity, hash continuity, monotone time stamps; a missing
\* newline after the last row is not noticed.
VerifyOk ==
    /\ file # <<>>
    /\ rest # "cut"
    /\ \A i \in 1 .. Len(file) :
        /\ file[i].kind # "garbled"
        /\ file[i].seq = i - 1
        /\ file[i].prev = IF i = 1 THEN Genesis ELSE file[i - 1].this
        /\ i > 1 => file[i - 1].t <= file[i].t

\* _tail() finds a last line json.loads accepts, or an empty file.
TailReadable ==
    /\ rest # "cut"
    /\ file # <<>> => LastRow.kind # "garbled"

-----------------------------------------------------------------------------
Init ==
    /\ setup \in Setups
    /\ file = <<>> /\ rest = "nl"
    /\ lock = NoWriter
    /\ digest = 0
    /\ pc = [w \in Writers |-> "closed"]
    /\ mem = [w \in Writers |-> Fresh]
    /\ asked = [w \in Writers |-> "event"]
    /\ headfile = NoHead
    /\ acked = {} /\ torn = {}

\* LedgerWriter.open() on a file with content: it must verify, and the head is
\* what verify() read.  A file that does not verify raises ChainBroken.
OpenExisting(w) ==
    /\ pc[w] = "closed"
    /\ VerifyOk
    /\ mem' = [mem EXCEPT ![w] = [seq |-> Len(file) - 1, head |-> LastRow.this, t |-> LastRow.t]]
    /\ pc' = [pc EXCEPT ![w] = "idle"]
    /\ UNCHANGED <<setup, file, rest, lock, digest, asked, headfile, acked, torn>>

\* open() on a missing or empty file: nothing is locked yet, so two processes
\* may both decide to write the genesis row.
OpenEmpty(w) ==
    /\ pc[w] = "closed"
    /\ file = <<>> /\ rest = "nl"
    /\ digest < MaxDigest
    /\ mem' = [mem EXCEPT ![w] = Fresh]
    /\ pc' = [pc EXCEPT ![w] = "want"]
    /\ asked' = [asked EXCEPT ![w] = "genesis"]
    /\ UNCHANGED <<setup, file, rest, lock, digest, headfile, acked, torn>>

\* A caller enters append().
Request(w) ==
    /\ pc[w] = "idle"
    /\ digest < MaxDigest
    /\ pc' = [pc EXCEPT ![w] = "want"]
    /\ asked' = [asked EXCEPT ![w] = "event"]
    /\ UNCHANGED <<setup, file, rest, lock, digest, mem, headfile, acked, torn>>

\* _lock_exclusive(fd)
Acquire(w) ==
    /\ pc[w] = "want"
    /\ lock = NoWriter
    /\ lock' = w
    /\ pc' = [pc EXCEPT ![w] = "locked"]
    /\ UNCHANGED <<setup, file, rest, digest, mem, asked, headfile, acked, torn>>

StaleBySeq(w) == file # <<>> /\ LastRow.seq # mem[w].seq

\* The head this writer remembers is not the file's last line any more.
Stale(w) == file # <<>> /\ LastRow.this # mem[w].head

\* The head_resync row _build makes from the file's last line.
ResyncRow(w, now) ==
    [seq |-> LastRow.seq + 1, t |-> Latest(now, Latest(LastRow.t, mem[w].t)),
     kind |-> "head_resync", by |-> w, prev |-> LastRow.this, this |-> digest + 1]

EventRowSameSeq(w, m, d, now) ==
    [seq |-> m.seq, t |-> Latest(now, m.t),
     kind |-> asked[w], by |-> w, prev |-> m.head, this |-> d]

\* The event's own row, on top of memory m.
EventRow(w, m, d, now) ==
    [seq |-> m.seq + 1, t |-> Latest(now, m.t),
     kind |-> asked[w], by |-> w, prev |-> m.head, this |-> d]

HeadOf(row) == [seq |-> row.seq, head |-> row.this, t |-> row.t]

LinesNoResync(w, now1, now2) == <<EventRow(w, mem[w], digest + 1, now2)>>

\* The lines one append() writes, with the two readings of the clock.
Lines(w, now1, now2) ==
    IF Stale(w)
    THEN LET r == ResyncRow(w, now1)
         IN  <<r, EventRow(w, HeadOf(r), digest + 2, now2)>>
    ELSE <<EventRow(w, mem[w], digest + 1, now2)>>

\* Bytes stored right after a last row that lacks its newline make it unreadable.
Garbled == [file EXCEPT ![Len(file)].kind = "garbled"]

\* O_APPEND: bytes go after whatever ends the file, newline or not.
Glued(lines) ==
    IF rest = "bare" THEN Garbled \o Tail(lines) ELSE file \o lines

\* Under the lock: read the tail, build, write once, fsync.
Write(w) ==
    /\ pc[w] = "locked" /\ TailReadable
    /\ \E now1, now2 \in Times :
        LET lines == Lines(w, now1, now2)
        IN  /\ file' = Glued(lines)
            /\ mem' = [mem EXCEPT ![w] = HeadOf(lines[Len(lines)])]
            /\ digest' = digest + Len(lines)
    /\ rest' = "nl"
    /\ pc' = [pc EXCEPT ![w] = "written"]
    /\ UNCHANGED <<setup, lock, asked, headfile, acked, torn>>

\* os.write stored only the first j lines and perhaps part of the next one: power was
\* lost, or the call returned a short count, which append() ignores.  What is stored goes
\* after whatever ends the file, like a whole write.
TornWrite(w) ==
    /\ pc[w] = "locked" /\ TailReadable /\ Cardinality(torn) < setup.tears
    /\ \E now1, now2 \in Times, how \in {"crash", "short"}, tear \in {"nl", "cut", "bare"} :
        LET lines == Lines(w, now1, now2)
        IN  \E j \in 0 .. Len(lines) - 1 :
            LET whole == SubSeq(lines, 1, IF tear = "bare" THEN j + 1 ELSE j)
            IN  /\ how = "short" => j > 0 \/ tear # "nl"
                /\ file' = IF whole # <<>> THEN Glued(whole)
                           ELSE IF rest = "bare" /\ tear = "cut" THEN Garbled ELSE file
                /\ rest' = IF j = 0 /\ tear = "nl" THEN rest ELSE tear
                /\ digest' = digest + Len(lines)
                /\ mem' = [mem EXCEPT ![w] = IF how = "short" THEN HeadOf(lines[Len(lines)])
                                                              ELSE Fresh]
                /\ pc' = [pc EXCEPT ![w] = IF how = "short" THEN "written" ELSE "closed"]
                /\ lock' = IF how = "short" THEN lock ELSE NoWriter
    /\ torn' = torn \cup {digest'}
    /\ UNCHANGED <<setup, asked, headfile, acked>>

\* append() raises with the lock held and nothing written: _tail() could not
\* parse the last line.  The finally clause unlocks; a failed open() leaves no writer.
RaiseOnTail(w) ==
    /\ pc[w] = "locked" /\ ~TailReadable
    /\ lock' = NoWriter
    /\ pc' = [pc EXCEPT ![w] = IF asked[w] = "genesis" THEN "closed" ELSE "idle"]
    /\ UNCHANGED <<setup, file, rest, digest, mem, asked, headfile, acked, torn>>

RaiseOnEventLocked(w) ==
    /\ pc[w] = "locked" /\ TailReadable /\ asked[w] = "event"
    /\ pc' = [pc EXCEPT ![w] = "idle"]
    /\ UNCHANGED <<setup, file, rest, lock, digest, mem, asked, headfile, acked, torn>>

\* append() raises because the event does not validate, or os.write failed
\* whole.  A resync row already built stays in memory though it is on no disk.
RaiseOnEvent(w) ==
    /\ pc[w] = "locked" /\ TailReadable /\ asked[w] = "event"
    /\ \E now \in Times :
        IF Stale(w)
        THEN /\ mem' = [mem EXCEPT ![w] = HeadOf(ResyncRow(w, now))]
             /\ digest' = digest + 1
        ELSE UNCHANGED <<mem, digest>>
    /\ lock' = NoWriter
    /\ pc' = [pc EXCEPT ![w] = "idle"]
    /\ UNCHANGED <<setup, file, rest, asked, headfile, acked, torn>>

\* _unlock(fd); the head file is written after the lock is gone.
Release(w) ==
    /\ pc[w] = "written"
    /\ lock' = NoWriter
    /\ pc' = [pc EXCEPT ![w] = "publish"]
    /\ UNCHANGED <<setup, file, rest, digest, mem, asked, headfile, acked, torn>>

PublishNextSeq(w) ==
    /\ pc[w] = "publish"
    /\ headfile' = [seq |-> mem[w].seq + 1, this |-> mem[w].head]
    /\ acked' = acked \cup {mem[w].head}
    /\ pc' = [pc EXCEPT ![w] = "idle"]
    /\ UNCHANGED <<setup, file, rest, lock, digest, mem, asked, torn>>

\* head_path.write_text(...), and append() returns the event.
Publish(w) ==
    /\ pc[w] = "publish"
    /\ headfile' = [seq |-> mem[w].seq, this |-> mem[w].head]
    /\ acked' = acked \cup {mem[w].head}
    /\ pc' = [pc EXCEPT ![w] = "idle"]
    /\ UNCHANGED <<setup, file, rest, lock, digest, mem, asked, torn>>

\* The process ends at any point between two steps; the kernel drops its flock.
Crash(w) ==
    /\ pc[w] # "closed"
    /\ pc' = [pc EXCEPT ![w] = "closed"]
    /\ mem' = [mem EXCEPT ![w] = Fresh]
    /\ lock' = IF lock = w THEN NoWriter ELSE lock
    /\ UNCHANGED <<setup, file, rest, digest, asked, headfile, acked, torn>>

InAppend(w) ==
    \/ Write(w) \/ RaiseOnTail(w) \/ RaiseOnEvent(w) \/ Release(w) \/ Publish(w)

Next == \E w \in Writers :
    \/ OpenExisting(w) \/ OpenEmpty(w) \/ Request(w) \/ Acquire(w)
    \/ Write(w) \/ TornWrite(w) \/ RaiseOnTail(w) \/ RaiseOnEvent(w)
    \/ Release(w) \/ Publish(w) \/ Crash(w)

Spec == Init /\ [][Next]_vars

\* flock(2) serves its waiters in order, and a process inside append() runs on.
FairSpec == Spec /\ \A w \in Writers : SF_vars(Acquire(w)) /\ WF_vars(InAppend(w))

-----------------------------------------------------------------------------
\* Every variable keeps its type.
TypeOK ==
    /\ setup \in Setups
    /\ file \in Seq(Row)
    /\ rest \in {"nl", "bare", "cut"}
    /\ lock \in Writers \cup {NoWriter}
    /\ digest \in Nat
    /\ pc \in [Writers -> {"closed", "idle", "want", "locked", "written", "publish"}]
    /\ mem \in [Writers -> [seq : Nat \cup {-1}, head : Nat, t : Nat]]
    /\ asked \in [Writers -> {"genesis", "event"}]
    /\ headfile \in [seq : Nat \cup {-1}, this : Nat]
    /\ acked \subseteq Nat /\ torn \subseteq Nat

\* "concurrent writers interleave, never fork the chain" (writer.py, append): as
\* long as no write is torn, whatever is on disk is accepted by verify(), through
\* stale heads, refused events, racing genesis rows, backward clocks and crashes.
ChainVerifies == torn = {} /\ file # <<>> => VerifyOk

\* The head file is written outside the lock and may name an older row, but, as long as
\* no write is torn, never a row the chain does not hold at that seq.
HeadFileOnChain ==
    torn = {} /\ headfile # NoHead =>
        /\ headfile.seq + 1 \in 1 .. Len(file)
        /\ file[headfile.seq + 1].this = headfile.this

\* Torn writes hurt the row they tear and no link elsewhere: two neighbouring rows
\* that both parse are chained, whatever a crash or a short os.write left of the
\* two rows of an append(), and whatever heads the writers remember after it.
IntactLinks ==
    \A i \in 2 .. Len(file) :
        file[i].kind # "garbled" /\ file[i - 1].kind # "garbled" =>
            /\ file[i].prev = file[i - 1].this
            /\ file[i].seq = file[i - 1].seq + 1

\* No acknowledged event is lost unseen because another write was torn: a file verify()
\* accepts holds every event append() returned, in this process or another, unless that
\* event's own write fell short.  An append() that finds a partial last line raises, and one
\* whose row is glued onto a row without its newline leaves a line verify() refuses.
NoSilentLoss ==
    VerifyOk => \A d \in acked \ torn : \E i \in 1 .. Len(file) : file[i].this = d

\* append() ends, by returning or by raising, for every process that survives.
AppendEnds ==
    \A w \in Writers : pc[w] \in {"want", "locked", "written", "publish"}
                       ~> pc[w] \in {"idle", "closed"}

\* docs/architecture.md says the writer "checks hash continuity on every append,
\* refusing a line that would break the chain": an append() to a file verify()
\* accepts leaves a file verify() accepts.  It does not, after a torn write that
\* lost only the last newline, and no run is kept for it.
AppendKeepsChain == [][VerifyOk /\ digest' > digest /\ pc' # pc
                        /\ (\E w \in Writers : pc'[w] = "written") => VerifyOk']_vars
=============================================================================
