---------------------------- MODULE MatterStore ----------------------------
(***************************************************************************)
(* The papers of matters kept in an object store: ObjectBackedMatterStore  *)
(* of matter_objectstore.py over the local MatterStore of matter_spans.py. *)
(* Workers are processes with a disk of their own; their threads serve     *)
(* calls.  Per matter the object store holds snapshots of the whole        *)
(* database, the pointer HEAD that names the current one, and LOCK.  Every *)
(* request to the object store is a step; so is every step on the local    *)
(* copy that another thread of the worker can see or undo.                 *)
(*                                                                         *)
(* A database is the set of its documents and a snapshot's name a number   *)
(* never used before.  The etag of HEAD is HEAD itself: its name is        *)
(* unique.  One tenant; the size caps, the probe of `_ready`, and requests *)
(* that the store carries out after the client gave them up are left out.  *)
(***************************************************************************)
EXTENDS Integers, FiniteSets

CONSTANTS
    Matter, Doc, Worker, Thread, Nil,
    Standing,     \* the matters that exist when the workers start
    MaxMatters,   \* max_matters_per_tenant
    Setups,       \* the kinds of calls made together, and the worker each thread is on
    SlowHolders,  \* may a lock expire while its holder is still at work
    EarlyUse,     \* may a matter seen in a listing be used before its creation returned
    DiskSurvives, \* may a worker that dies find its disk again
    MaxCalls,     \* bound: calls made
    MaxFaults     \* bound: requests that fail, answers lost, workers that die

Kinds == {"create", "add", "remove", "drop", "purge", "read"}

ASSUME MatterConstants ==
    /\ IsFiniteSet(Matter) /\ IsFiniteSet(Doc) /\ IsFiniteSet(Thread)
    /\ Standing \subseteq Matter
    /\ Setups \subseteq [kinds : SUBSET Kinds, seat : [Thread -> Worker]]
    /\ {SlowHolders, EarlyUse, DiskSurvives} \subseteq BOOLEAN
    /\ {MaxMatters, MaxCalls, MaxFaults} \subseteq Nat
    /\ Nil \notin Thread \cup Matter \cup Doc
    /\ Nil \notin [docs : SUBSET Doc, seq : Int] /\ Nil \notin [seq : Nat, name : Nat]
    /\ \A docs \in SUBSET Doc : docs # Nil

VARIABLES
    head,    \* matter -> [seq, name], the pointer, or Nil
    snaps,   \* matter -> name -> the documents of that snapshot
    lock,    \* matter -> the thread whose token is in LOCK, or Nil
    lapsed,  \* the matters whose lock has expired
    disk,    \* worker -> matter -> [docs, seq], the local copy, or Nil
    turn,    \* worker -> matter -> the thread that holds the local lock, or Nil
    call,    \* thread -> the call it serves, or Idle
    told,    \* matter -> document -> what its callers were told (see Papers)
    closed,  \* the matters whose deletion was acknowledged
    used,    \* what was used of the bounds; names and matter ids given out
    setup    \* the setup of this behaviour

remote == <<head, snaps, lock, lapsed>>
vars == <<head, snaps, lock, lapsed, disk, turn, call, told, closed, used, setup>>

HeadName == 0
LockName == -1   \* in a listing; snapshots are named 1, 2, ...

Fresh == -1      \* `_local_seq` of a copy with no sync.json

Steps == {"turn", "claim", "pointer", "fetch", "unpack", "stamp", "work", "resweep", "mine",
          "upload", "publish", "record", "list", "sweep", "erase", "clear", "release",
          "unlock", "answer", "count", "wipe"}

Idle == [kind |-> "none", m |-> Nil, d |-> Nil, at |-> "idle", prev |-> Nil, copy |-> {},
         new |-> 0, todo |-> {}, tries |-> 0, ok |-> TRUE, owed |-> {}, gone |-> {}]

Writers == {"add", "remove"}

Init ==
    /\ head = [m \in Matter |-> IF m \in Standing THEN [seq |-> 1, name |-> 1] ELSE Nil]
    /\ snaps = [m \in Matter |-> IF m \in Standing THEN [n \in {1} |-> {}] ELSE [n \in {} |-> {}]]
    /\ lock = [m \in Matter |-> Nil]
    /\ lapsed = {}
    /\ disk = [w \in Worker |-> [m \in Matter |-> Nil]]
    /\ turn = [w \in Worker |-> [m \in Matter |-> Nil]]
    /\ call = [t \in Thread |-> Idle]
    /\ told = [m \in Matter |-> [d \in Doc |-> "new"]]
    /\ closed = {}
    /\ used = [calls |-> 0, faults |-> 0, names |-> 1, born |-> Standing]
    /\ setup \in Setups
-----------------------------------------------------------------------------
(* What a thread reads and does.                                           *)

M(t) == call[t].m
W(t) == setup.seat[t]
Local(t) == disk[W(t)][M(t)]
At(t, step) == call[t].at = step

\* The objects of matter m as a listing shows them.
Listed(m) == DOMAIN snaps[m] \cup (IF head[m] # Nil THEN {HeadName} ELSE {})
                             \cup (IF lock[m] # Nil THEN {LockName} ELSE {})

Go(t, step)  == call' = [call EXCEPT ![t].at = step]
SetDisk(t, copy) == disk' = [disk EXCEPT ![W(t)][M(t)] = copy]

Minus(f, n) == [x \in DOMAIN f \ {n} |-> f[x]]
Plus(f, n, v) == [x \in DOMAIN f \cup {n} |-> IF x = n THEN v ELSE f[x]]

\* Mutant: a removal is acknowledged whatever came of it.
After_Removed(kind, ok, was) ==
    CASE kind = "add" /\ ok -> "kept"
      [] kind = "remove"    -> "gone"
      [] OTHER              -> "unsure"

\* What the callers know of document d once a call about it has ended.
After(kind, ok, was) ==
    CASE kind = "add" /\ ok    -> "kept"
      [] kind = "remove" /\ ok -> "gone"
      [] was = "gone"          -> "gone"
      [] OTHER                 -> "unsure"

\* The call returns: the local lock, if it is the thread's, is let go.
Finish(t, ok) ==
    LET c == call[t]
    IN  /\ call' = [call EXCEPT ![t] = Idle]
        /\ turn' = [turn EXCEPT ![W(t)] = [m \in Matter |-> IF @[m] = t THEN Nil ELSE @[m]]]
        /\ told' = IF c.d = Nil THEN told
                   ELSE [told EXCEPT ![c.m][c.d] = After(c.kind, ok, @)]
        /\ closed' = IF c.kind = "drop" /\ ok THEN closed \cup {c.m} ELSE closed

\* Leaving `_write` and delete_matter: the remote lock goes first.
Leave(t, ok) ==
    /\ call' = [call EXCEPT ![t].at = "release", ![t].ok = ok]
    /\ UNCHANGED <<turn, told, closed>>

Guarded == {"work", "resweep", "mine", "upload", "publish", "record", "list", "sweep"}

\* An exception at this step of a call; `_push` swallows one of its last sweep unless
\* the call is a removal.
Raise(t) ==
    LET c == call[t]
        swallowed == c.at \in {"list", "sweep"} /\ c.kind \in {"add", "create"}
    IN  /\ IF c.kind \in Writers \cup {"create"} /\ c.at \in Guarded /\ ~swallowed
           THEN SetDisk(t, Nil)
           ELSE UNCHANGED disk
        /\ IF c.kind \in Writers \cup {"drop"} /\ c.at # "claim"
           THEN Leave(t, swallowed)
           ELSE Finish(t, swallowed)

Stays == UNCHANGED <<turn, told, closed>>

\* A request that changed the store: the caller sees its answer, or an error.
Answered(t, seen, next) ==
    IF seen
    THEN call' = next /\ Stays /\ UNCHANGED <<disk, used>>
    ELSE /\ used.faults < MaxFaults
         /\ used' = [used EXCEPT !.faults = @ + 1]
         /\ Raise(t)
-----------------------------------------------------------------------------
(* Calls.                                                                  *)

Begin(t, c) ==
    /\ call[t] = Idle /\ used.calls < MaxCalls
    /\ c.kind \in setup.kinds
    /\ call' = [call EXCEPT ![t] = c]
    /\ used' = [used EXCEPT !.calls = @ + 1,
                            !.born = IF c.kind = "create" THEN @ \cup {c.m} ELSE @]
    /\ UNCHANGED <<remote, disk, turn, closed, setup>>

Call(kind, m, step) == [Idle EXCEPT !.kind = kind, !.m = m, !.at = step]

\* The id of a matter is given by create_matter's answer, or by list_matters.
Known(m) ==
    /\ m \in used.born
    /\ (EarlyUse /\ head[m] # Nil) \/ \A t \in Thread : call[t].kind = "create" => call[t].m # m

AddDocument(t, m, d) ==
    /\ Known(m) /\ told[m][d] = "new"
    /\ Begin(t, [Call("add", m, "turn") EXCEPT !.d = d])
    /\ told' = [told EXCEPT ![m][d] = "asked"]

DeleteDocument(t, m, d) ==
    /\ Known(m) /\ told[m][d] \in {"kept", "unsure", "leaving"}
    /\ Begin(t, [Call("remove", m, "turn") EXCEPT !.d = d])
    /\ told' = [told EXCEPT ![m][d] = "leaving"]

DeleteMatter(t, m) == Known(m) /\ Begin(t, Call("drop", m, "turn")) /\ UNCHANGED told

\* A matter id is new, and every matter of the tenant is in the listing that is counted.
CreateMatter(t, m) ==
    /\ m \notin used.born
    /\ Begin(t, Call("create", m, "count")) /\ UNCHANGED told

DeleteTenant(t) == Begin(t, Call("purge", Nil, "list")) /\ UNCHANGED told

Read(t, m) ==
    /\ Known(m)
    /\ Begin(t, [Call("read", m, "pointer") EXCEPT
                   !.owed = {d \in Doc : told[m][d] = "kept"},
                   !.gone = {d \in Doc : told[m][d] = "gone"}])
    /\ UNCHANGED told
-----------------------------------------------------------------------------
(* Locks.                                                                  *)

\* The local lock is waited for without a deadline.
TakeTurn(t) ==
    /\ At(t, "turn") /\ turn[W(t)][M(t)] = Nil
    /\ turn' = [turn EXCEPT ![W(t)][M(t)] = t]
    /\ Go(t, "claim")
    /\ UNCHANGED <<remote, disk, told, closed, used, setup>>

\* LOCK is made if there is none; an expired one is replaced, if it is still the one read.
ClaimLock(t, seen) ==
    /\ At(t, "claim")
    /\ lock[M(t)] = Nil \/ M(t) \in lapsed
    /\ lock' = [lock EXCEPT ![M(t)] = t]
    /\ lapsed' = lapsed \ {M(t)}
    /\ Answered(t, seen, [call EXCEPT ![t].at = "pointer"])
    /\ UNCHANGED <<head, snaps, setup>>

\* Mutant: the local lock is kept.
GiveUp_KeepsTurn(t) ==
    /\ At(t, "claim") /\ lock[M(t)] # Nil /\ M(t) \notin lapsed
    /\ call' = [call EXCEPT ![t] = Idle]
    /\ UNCHANGED <<remote, disk, turn, told, closed, used, setup>>

\* LOCK_WAIT_S passed: the call is refused with store_busy.
GiveUp(t) ==
    /\ At(t, "claim") /\ lock[M(t)] # Nil /\ M(t) \notin lapsed
    /\ Finish(t, FALSE)
    /\ UNCHANGED <<remote, disk, used, setup>>

Holding(t) == call[t].kind \in Writers \cup {"drop"} /\ call[t].at \notin {"turn", "claim"}

\* LOCK_TTL_S passed.
Expire(m) ==
    /\ lock[m] # Nil /\ m \notin lapsed
    /\ SlowHolders \/ ~(call[lock[m]].m = m /\ Holding(lock[m]))
    /\ lapsed' = lapsed \cup {m}
    /\ UNCHANGED <<head, snaps, lock, disk, turn, call, told, closed, used, setup>>

Mine(t) == lock[M(t)] = t /\ M(t) \notin lapsed

\* `still_mine`, just before the upload.
StillMine(t) ==
    /\ At(t, "mine")
    /\ IF Mine(t) THEN Go(t, "upload") /\ Stays /\ UNCHANGED disk ELSE Raise(t)
    /\ UNCHANGED <<remote, used, setup>>

\* The lock is read, and deleted if it names this call; nothing ties the two requests.
Release(t) ==
    /\ At(t, "release")
    /\ IF lock[M(t)] = t THEN Go(t, "unlock") /\ Stays ELSE Finish(t, call[t].ok)
    /\ UNCHANGED <<remote, disk, used, setup>>

Unlock(t) ==
    /\ At(t, "unlock")
    /\ lock' = [lock EXCEPT ![M(t)] = Nil]
    /\ lapsed' = lapsed \ {M(t)}
    /\ Finish(t, call[t].ok)
    /\ UNCHANGED <<head, snaps, disk, used, setup>>
-----------------------------------------------------------------------------
(* `_current`: the local copy is brought to the pointer.                   *)

LocalSeq(t) == IF Local(t) = Nil THEN Fresh ELSE Local(t).seq

Ready(t) == IF call[t].kind = "read" THEN "answer" ELSE "work"

\* Mutant: whatever copy is there is taken for the current one.
ReadPointer_AnyCopy(t) ==
    LET h == head[M(t)]
    IN  /\ At(t, "pointer")
        /\ IF h = Nil THEN SetDisk(t, Nil) ELSE UNCHANGED disk
        /\ CASE h = Nil -> IF call[t].kind = "read" THEN Finish(t, FALSE) ELSE Leave(t, FALSE)
             [] h # Nil -> /\ call' = [call EXCEPT ![t].prev = h,
                                 ![t].at = IF Local(t) # Nil THEN Ready(t) ELSE "fetch"]
                           /\ Stays
        /\ UNCHANGED <<remote, used, setup>>

ReadPointer(t) ==
    LET h == head[M(t)]
    IN  /\ At(t, "pointer")
        /\ IF h = Nil THEN SetDisk(t, Nil) ELSE UNCHANGED disk
        /\ CASE h = Nil -> IF call[t].kind = "read" THEN Finish(t, FALSE) ELSE Leave(t, FALSE)
             [] h # Nil -> /\ call' = [call EXCEPT ![t].prev = h,
                                 ![t].at = IF LocalSeq(t) = h.seq THEN Ready(t) ELSE "fetch"]
                           /\ Stays
        /\ UNCHANGED <<remote, used, setup>>

MaxTries == 3

\* A snapshot that is not there, or cannot be read, sends the call back to the pointer.
TryAgain(t) ==
    IF call[t].tries + 1 < MaxTries
    THEN call' = [call EXCEPT ![t].tries = @ + 1, ![t].at = "pointer"] /\ Stays /\ UNCHANGED disk
    ELSE Raise(t)

Fetch(t) ==
    LET name == call[t].prev.name
    IN  /\ At(t, "fetch")
        /\ IF name \in DOMAIN snaps[M(t)]
           THEN /\ call' = [call EXCEPT ![t].copy = snaps[M(t)][name], ![t].at = "unpack"]
                /\ Stays /\ UNCHANGED disk
           ELSE TryAgain(t)
        /\ UNCHANGED <<remote, used, setup>>

\* The database is put in place first and sync.json after it.
Unpack(t) ==
    /\ At(t, "unpack")
    /\ SetDisk(t, [docs |-> call[t].copy, seq |-> LocalSeq(t)])
    /\ call' = [call EXCEPT ![t].copy = {}, ![t].at = "stamp"]
    /\ UNCHANGED <<remote, turn, told, closed, used, setup>>

\* Another thread may have dropped the copy: there is no folder to write sync.json in.
Stamp(t) ==
    /\ At(t, "stamp")
    /\ IF Local(t) = Nil THEN Raise(t)
       ELSE /\ SetDisk(t, [Local(t) EXCEPT !.seq = call[t].prev.seq])
            /\ call' = [call EXCEPT ![t].tries = 0, ![t].at = Ready(t)]
            /\ Stays
    /\ UNCHANGED <<remote, used, setup>>

\* A read answers with what the local copy holds, if it is still there.
Answer(t) ==
    /\ At(t, "answer")
    /\ Finish(t, Local(t) # Nil)
    /\ UNCHANGED <<remote, disk, used, setup>>
-----------------------------------------------------------------------------
(* The change, and `_push`: a snapshot, the pointer, sync.json, the sweep. *)

Snapshots(m, keep) == {<<m, n>> : n \in DOMAIN snaps[m] \ keep}

\* The local store takes the document in, in one transaction of the database.
Ingest(t) ==
    /\ At(t, "work") /\ call[t].kind = "add"
    /\ IF Local(t) = Nil THEN Raise(t)
       ELSE SetDisk(t, [Local(t) EXCEPT !.docs = @ \cup {call[t].d}]) /\ Go(t, "mine") /\ Stays
    /\ UNCHANGED <<remote, used, setup>>

\* The local store takes the document out.
Scrub(t) ==
    /\ At(t, "work") /\ call[t].kind = "remove"
    /\ Local(t) # Nil /\ call[t].d \in Local(t).docs
    /\ SetDisk(t, [Local(t) EXCEPT !.docs = @ \ {call[t].d}]) /\ Go(t, "mine") /\ Stays
    /\ UNCHANGED <<remote, used, setup>>

\* A removal of what is not there sweeps the older snapshots, and is a removal if there
\* were any: an earlier one may have failed in its sweep.
NoSuchDocument(t) ==
    LET old == Snapshots(M(t), {call[t].prev.name})
    IN  /\ At(t, "work") /\ call[t].kind = "remove"
        /\ Local(t) = Nil \/ call[t].d \notin Local(t).docs
        /\ IF Local(t) = Nil \/ old = {} THEN Raise(t)
           ELSE /\ call' = [call EXCEPT ![t].todo = old, ![t].at = "resweep"]
                /\ Stays /\ UNCHANGED disk
        /\ UNCHANGED <<remote, used, setup>>

\* The copy of the database is taken and put under a new name.
Upload(t, seen) ==
    LET n == used.names + 1
    IN  /\ At(t, "upload")
        /\ IF Local(t) = Nil
           THEN Raise(t) /\ seen /\ UNCHANGED <<snaps, used>>
           ELSE /\ snaps' = [snaps EXCEPT ![M(t)] = Plus(@, n, Local(t).docs)]
                /\ IF seen
                   THEN /\ call' = [call EXCEPT ![t].new = n, ![t].at = "publish"]
                        /\ Stays /\ UNCHANGED disk
                        /\ used' = [used EXCEPT !.names = n]
                   ELSE /\ used.faults < MaxFaults
                        /\ used' = [used EXCEPT !.names = n, !.faults = @ + 1]
                        /\ Raise(t)
        /\ UNCHANGED <<head, lock, lapsed, setup>>

\* Mutant: a new matter has the number of no copy.
NextSeq_None(t) == IF call[t].prev = Nil THEN Fresh ELSE call[t].prev.seq + 1

NextSeq(t) == IF call[t].prev = Nil THEN 1 ELSE call[t].prev.seq + 1

\* Mutant: HEAD is replaced whatever it is.
Publish_Forced(t, seen) ==
    /\ At(t, "publish")
    /\ head' = [head EXCEPT ![M(t)] = [seq |-> NextSeq(t), name |-> call[t].new]]
    /\ Answered(t, seen, [call EXCEPT ![t].at = "record"])
    /\ UNCHANGED <<snaps, lock, lapsed, setup>>

\* HEAD is replaced if it is still the one that was read, or made if there is none.
Publish(t, seen) ==
    /\ At(t, "publish")
    /\ IF head[M(t)] = call[t].prev
       THEN /\ head' = [head EXCEPT ![M(t)] = [seq |-> NextSeq(t), name |-> call[t].new]]
            /\ Answered(t, seen, [call EXCEPT ![t].at = "record"])
       ELSE seen /\ Raise(t) /\ UNCHANGED <<head, used>>
    /\ UNCHANGED <<snaps, lock, lapsed, setup>>

Record(t) ==
    /\ At(t, "record")
    /\ IF Local(t) = Nil THEN Raise(t)
       ELSE SetDisk(t, [Local(t) EXCEPT !.seq = NextSeq(t)]) /\ Go(t, "list") /\ Stays
    /\ UNCHANGED <<remote, used, setup>>

\* Mutants: only the one before is spared; the one before is spared by removals too.
Keep_Previous(c) == IF c.prev = Nil THEN {} ELSE {c.prev.name}
Keep_Both(c) == {c.new} \cup (IF c.prev = Nil THEN {} ELSE {c.prev.name})

\* What the sweep spares: the new snapshot and, unless a document was removed, the one before.
Keep(c) == {c.new} \cup (IF c.kind = "add" THEN {c.prev.name} ELSE {})

Done(t) == IF call[t].kind = "create" THEN Finish(t, TRUE) ELSE Leave(t, TRUE)

ListOld(t) ==
    LET todo == Snapshots(M(t), Keep(call[t]))
    IN  /\ At(t, "list") /\ call[t].kind \in Writers \cup {"create"}
        /\ IF todo = {} THEN Done(t)
           ELSE call' = [call EXCEPT ![t].todo = todo, ![t].at = "sweep"] /\ Stays
        /\ UNCHANGED <<remote, disk, used, setup>>

\* The next object of a listing to delete: listings are in the order of the names.
First(todo) == CHOOSE o \in todo : \A p \in todo : o[2] <= p[2]

\* Deleting an object that is not there is no error.
Remove(m, n) ==
    /\ head' = IF n = HeadName THEN [head EXCEPT ![m] = Nil] ELSE head
    /\ lock' = IF n = LockName THEN [lock EXCEPT ![m] = Nil] ELSE lock
    /\ lapsed' = IF n = LockName THEN lapsed \ {m} ELSE lapsed
    /\ snaps' = IF n > 0 THEN [snaps EXCEPT ![m] = Minus(@, n)] ELSE snaps

\* One deletion of a sweep; after the last one the call goes on.
SweepNext(t, o, seen, more, last) ==
    /\ Remove(o[1], o[2])
    /\ IF call[t].todo # {o}
       THEN Answered(t, seen, [call EXCEPT ![t].todo = @ \ {o}, ![t].at = more])
       ELSE IF seen THEN last /\ UNCHANGED <<disk, used>> ELSE Answered(t, FALSE, call)
    /\ UNCHANGED setup

Sweep(t, seen) ==
    /\ At(t, "sweep") /\ call[t].kind \in Writers \cup {"create"}
    /\ \E o \in call[t].todo : o = First(call[t].todo) /\ SweepNext(t, o, seen, "sweep", Done(t))

Resweep(t, seen) ==
    /\ At(t, "resweep")
    /\ \E o \in call[t].todo :
         /\ o = First(call[t].todo)
         /\ SweepNext(t, o, seen, "resweep", call' = [call EXCEPT ![t].todo = {}, ![t].at = "mine"] /\ Stays)
-----------------------------------------------------------------------------
(* create_matter, delete_matter, delete_tenant.                            *)

Live == {m \in Matter : head[m] # Nil}

\* Counted and created without a lock between: only the local folders are under one.
Count(t) ==
    /\ At(t, "count")
    /\ IF Cardinality(Live) >= MaxMatters THEN Finish(t, FALSE) /\ UNCHANGED disk
       ELSE SetDisk(t, [docs |-> {}, seq |-> Fresh]) /\ Go(t, "upload") /\ Stays
    /\ UNCHANGED <<remote, used, setup>>

\* The folder goes, then HEAD, then everything a listing shows but LOCK.
DropLocal(t) ==
    /\ At(t, "work") /\ call[t].kind = "drop"
    /\ IF Local(t) = Nil THEN Raise(t)
       ELSE SetDisk(t, Nil) /\ Go(t, "erase") /\ Stays
    /\ UNCHANGED <<remote, used, setup>>

Erase(t, seen) ==
    /\ At(t, "erase")
    /\ head' = [head EXCEPT ![M(t)] = Nil]
    /\ Answered(t, seen, [call EXCEPT ![t].at = "list"])
    /\ UNCHANGED <<snaps, lock, lapsed, setup>>

\* Mutant: the snapshot that HEAD named stays, as in the other sweeps.
ListMatter_Spared(t) ==
    LET todo == {<<M(t), n>> : n \in Listed(M(t)) \ {LockName, call[t].prev.name}}
    IN  /\ At(t, "list") /\ call[t].kind = "drop"
        /\ IF todo = {} THEN Leave(t, TRUE)
           ELSE call' = [call EXCEPT ![t].todo = todo, ![t].at = "clear"] /\ Stays
        /\ UNCHANGED <<remote, disk, used, setup>>

ListMatter(t) ==
    LET todo == {<<M(t), n>> : n \in Listed(M(t)) \ {LockName}}
    IN  /\ At(t, "list") /\ call[t].kind = "drop"
        /\ IF todo = {} THEN Leave(t, TRUE)
           ELSE call' = [call EXCEPT ![t].todo = todo, ![t].at = "clear"] /\ Stays
        /\ UNCHANGED <<remote, disk, used, setup>>

\* The tenant's objects are listed once; no lock is asked for, and locks are deleted too.
ListTenant(t) ==
    LET todo == UNION {{<<m, n>> : n \in Listed(m)} : m \in Matter}
    IN  /\ At(t, "list") /\ call[t].kind = "purge"
        /\ IF todo = {} THEN Go(t, "wipe") ELSE call' = [call EXCEPT ![t].todo = todo, ![t].at = "clear"]
        /\ UNCHANGED <<remote, disk, turn, told, closed, used, setup>>

Clear(t, seen) ==
    LET heads == {o \in call[t].todo : o[2] = HeadName}
    IN  /\ At(t, "clear")
        /\ \E o \in call[t].todo :
             /\ o = First(IF heads # {} THEN heads ELSE call[t].todo)
             /\ SweepNext(t, o, seen, "clear",
                  IF call[t].kind = "drop" THEN Leave(t, TRUE)
                  ELSE call' = [call EXCEPT ![t].todo = {}, ![t].at = "wipe"] /\ Stays)

\* The local folder of the tenant, with every matter in it.
Wipe(t) ==
    /\ At(t, "wipe")
    /\ disk' = [disk EXCEPT ![W(t)] = [m \in Matter |-> Nil]]
    /\ Finish(t, TRUE)
    /\ UNCHANGED <<remote, used, setup>>
-----------------------------------------------------------------------------
(* What goes wrong.                                                        *)

Asking == Steps \ {"turn", "unpack", "stamp", "work", "record", "answer", "wipe"}

\* A request to the object store fails and changes nothing.
Refuse(t) ==
    /\ call[t].at \in Asking
    /\ used.faults < MaxFaults
    /\ used' = [used EXCEPT !.faults = @ + 1]
    /\ CASE call[t].at = "fetch" -> TryAgain(t)
         [] call[t].at \in {"release", "unlock"} -> Finish(t, call[t].ok) /\ UNCHANGED disk
         [] OTHER -> Raise(t)
    /\ UNCHANGED <<remote, setup>>

\* A worker dies with the calls it serves and comes back, with or without its disk.
Die(w) ==
    LET mine == {t \in Thread : setup.seat[t] = w}
        lost == {<<call[t].m, call[t].d>> : t \in {u \in mine : call[u].d # Nil}}
    IN  /\ \E t \in mine : call[t] # Idle
        /\ used.faults < MaxFaults
        /\ used' = [used EXCEPT !.faults = @ + 1]
        /\ \/ DiskSurvives /\ UNCHANGED disk
           \/ disk' = [disk EXCEPT ![w] = [m \in Matter |-> Nil]]
        /\ call' = [t \in Thread |-> IF t \in mine THEN Idle ELSE call[t]]
        /\ turn' = [turn EXCEPT ![w] = [m \in Matter |-> Nil]]
        /\ told' = [m \in Matter |-> [d \in Doc |->
                      IF <<m, d>> \in lost /\ told[m][d] # "gone" THEN "unsure" ELSE told[m][d]]]
        /\ UNCHANGED <<remote, closed, setup>>
-----------------------------------------------------------------------------
Step(t) ==
    \/ TakeTurn(t) \/ GiveUp(t) \/ StillMine(t) \/ Release(t) \/ Unlock(t)
    \/ ReadPointer(t) \/ Fetch(t) \/ Unpack(t) \/ Stamp(t) \/ Answer(t)
    \/ Ingest(t) \/ Scrub(t) \/ NoSuchDocument(t) \/ Record(t) \/ ListOld(t)
    \/ Count(t) \/ DropLocal(t) \/ ListMatter(t) \/ ListTenant(t) \/ Wipe(t)
    \/ \E seen \in BOOLEAN :
         \/ ClaimLock(t, seen) \/ Upload(t, seen) \/ Publish(t, seen) \/ Sweep(t, seen)
         \/ Resweep(t, seen) \/ Erase(t, seen) \/ Clear(t, seen)

Ask(t) ==
    \/ \E m \in Matter : \/ DeleteMatter(t, m) \/ CreateMatter(t, m) \/ Read(t, m)
                         \/ \E d \in Doc : AddDocument(t, m, d) \/ DeleteDocument(t, m, d)
    \/ DeleteTenant(t)

Next ==
    \/ \E t \in Thread : Step(t) \/ Ask(t) \/ Refuse(t)
    \/ \E m \in Matter : Expire(m)
    \/ \E w \in Worker : Die(w)

Spec == Init /\ [][Next]_vars /\ \A t \in Thread : WF_vars(Step(t))
-----------------------------------------------------------------------------
(* Properties.                                                             *)

Head == [seq : Nat, name : Nat \ {0}]
Copy == [docs : SUBSET Doc, seq : Nat \cup {Fresh}]

\* Every variable holds what the code can put there.
TypeOK ==
    /\ \A m \in Matter :
         /\ head[m] = Nil \/ head[m] \in Head
         /\ DOMAIN snaps[m] \subseteq 1..used.names
         /\ \A n \in DOMAIN snaps[m] : snaps[m][n] \subseteq Doc
         /\ lock[m] = Nil \/ lock[m] \in Thread
         /\ \A w \in Worker : disk[w][m] = Nil \/ disk[w][m] \in Copy
    /\ \A t \in Thread : call[t] = Idle \/ call[t].at \in Steps
    /\ lapsed \cup closed \subseteq Matter

\* What a reader of a cold worker would find in matter m.
Found(m) == IF head[m] = Nil THEN Nil
            ELSE IF head[m].name \in DOMAIN snaps[m] THEN snaps[m][head[m].name] ELSE {}

\* The pointer names a snapshot that is there: through sweeps, removals, crashes and
\* failed requests a matter that is found can be read (`_current`, `_push`, `_sweep`).
HeadResolves == \A m \in Matter : head[m] # Nil => head[m].name \in DOMAIN snaps[m]

\* "lose nothing": a document whose add was acknowledged is in the matter for every
\* worker that comes after, until its removal is asked for or the matter is deleted.
AckedKept == \A m \in Matter, d \in Doc :
                told[m][d] = "kept" /\ head[m] # Nil => d \in Found(m)

\* After an acknowledged delete_document no object holds the text: not the pointer's
\* snapshot, not the one before it, not what a failed or dead writer left.
GoneIsGone == \A m \in Matter, d \in Doc :
                told[m][d] = "gone" => \A n \in DOMAIN snaps[m] : d \notin snaps[m][n]

\* After an acknowledged delete_matter nothing of the matter is in the object store, and
\* no write that was under way brings any of it back.
ClosedIsEmpty == \A m \in closed : head[m] = Nil /\ DOMAIN snaps[m] = {}

\* What a read is about to answer has every document acknowledged before the read began
\* and not removed since, and none whose removal was acknowledged before it began.
ReadsAgree ==
    \A t \in Thread :
        LET c == call[t] IN
        c.at = "answer" /\ Local(t) # Nil =>
            /\ \A d \in c.owed : told[c.m][d] = "kept" => d \in Local(t).docs
            /\ c.gone \cap Local(t).docs = {}

\* A matter that was deleted is never found again: no write that read the old pointer,
\* however late, makes a new one (the condition on the put of HEAD).
StaysClosed == [][\A m \in Matter : head[m] = Nil /\ head'[m] # Nil => head'[m].seq = 1]_vars

\* Every call returns: no thread waits for ever on a lock a dead or failed call left.
CallsEnd == \A t \in Thread : call[t] # Idle ~> call[t] = Idle

\* The store implements what it promises.
P == INSTANCE Papers WITH held <- [m \in Matter |-> Found(m)]
KeepsPromises == P!Spec
=============================================================================
