-------------------------- MODULE MatterStoreProofs --------------------------
(***************************************************************************)
(* Proofs about MatterStore, for any matters, documents, workers, threads, *)
(* calls and faults: its type invariant; that a deleted matter is not      *)
(* found again; and, where locks outlast their holders and no tenant is    *)
(* purged, that the pointer names a snapshot that is there and that an     *)
(* acknowledged deletion leaves nothing and nothing comes back.  Where     *)
(* moreover a worker that reads serves nothing else: that what was         *)
(* acknowledged is found, that what is gone is nowhere, that reads agree   *)
(* with the store, and that the store keeps what Papers promises.          *)
(***************************************************************************)
EXTENDS MatterStore, TLAPS

\* The sets TypeOK is made of.
Snap == UNION {[D -> SUBSET Doc] : D \in SUBSET Nat}
Calls == [kind : Kinds \cup {"none"}, m : Matter \cup {Nil}, d : Doc \cup {Nil},
          at : Steps \cup {"idle"}, prev : Head \cup {Nil}, copy : SUBSET Doc, new : Nat,
          todo : SUBSET (Matter \X Int), tries : Nat, ok : BOOLEAN,
          owed : SUBSET Doc, gone : SUBSET Doc]
Bounds == [calls : Nat, faults : Nat, names : Nat, born : SUBSET Matter]
Disks == [Worker -> [Matter -> Copy \cup {Nil}]]

\* The kinds that ask for the locks, and the steps before the pointer was read or after.
Lockers == Writers \cup {"drop"}
Unread == {"turn", "claim", "pointer", "release", "unlock"}

\* What a call at work can be: which kinds come to which step, and what they hold there.
Working(c) ==
    /\ c.kind \in Kinds /\ c.at \in Steps
    /\ c.kind # "purge" => c.m \in Matter
    /\ c.kind \in Writers => c.d \in Doc
    /\ c.at \in {"turn", "claim", "work", "release", "unlock"} => c.kind \in Lockers
    /\ c.at \in {"pointer", "fetch", "unpack", "stamp"} => c.kind \in Lockers \cup {"read"}
    /\ c.at \in {"resweep", "mine"} => c.kind \in Writers
    /\ c.at \in {"upload", "publish", "record", "sweep"} => c.kind \in Writers \cup {"create"}
    /\ c.at = "list" => c.kind # "read"
    /\ c.at = "clear" => c.kind \in {"drop", "purge"}
    /\ c.at = "erase" => c.kind = "drop"
    /\ c.at = "answer" => c.kind = "read"
    /\ c.at = "count" => c.kind = "create"
    /\ c.at = "wipe" => c.kind = "purge"
    /\ c.at = "publish" => c.new # 0
    /\ c.kind \in Lockers \cup {"read"} /\ c.at \notin Unread => c.prev # Nil

Proper(c) == c = Idle \/ Working(c)

CallTypes == call \in [Thread -> Calls] /\ \A t \in Thread : Proper(call[t])

StoreTypes ==
    /\ head \in [Matter -> Head \cup {Nil}]
    /\ snaps \in [Matter -> Snap]
    /\ \A m \in Matter : DOMAIN snaps[m] \subseteq 1..used.names
    /\ lock \in [Matter -> Thread \cup {Nil}]
    /\ lapsed \subseteq Matter

Types ==
    /\ setup \in Setups /\ used \in Bounds /\ disk \in Disks /\ closed \subseteq Matter
    /\ StoreTypes /\ CallTypes
-----------------------------------------------------------------------------
(* The operators the model is built from.                                  *)

LEMMA SnapType ==
    ASSUME NEW f \in Snap
    PROVE  /\ DOMAIN f \subseteq Nat
           /\ \A n \in DOMAIN f : f[n] \subseteq Doc
BY DEF Snap

LEMMA NewSnap ==
    ASSUME NEW f, DOMAIN f \subseteq Nat, f = [n \in DOMAIN f |-> f[n]],
           \A n \in DOMAIN f : f[n] \subseteq Doc
    PROVE  f \in Snap
<1>1. f \in [DOMAIN f -> SUBSET Doc]
  OBVIOUS
<1> QED
  BY <1>1 DEF Snap

LEMMA PlusSnap ==
    ASSUME NEW f \in Snap, NEW n \in Nat, NEW v \in SUBSET Doc
    PROVE  Plus(f, n, v) \in Snap /\ DOMAIN Plus(f, n, v) = DOMAIN f \cup {n}
<1> DEFINE g == Plus(f, n, v)
<1>1. DOMAIN g = DOMAIN f \cup {n} /\ g = [x \in DOMAIN g |-> g[x]]
  BY DEF Plus
<1>2. \A x \in DOMAIN g : g[x] \subseteq Doc
  BY SnapType DEF Plus
<1>3. DOMAIN g \subseteq Nat
  BY <1>1, SnapType
<1> HIDE DEF g
<1>4. g \in Snap
  BY <1>1, <1>2, <1>3, NewSnap
<1> QED
  BY <1>1, <1>4 DEF g

LEMMA MinusSnap ==
    ASSUME NEW f \in Snap, NEW n
    PROVE  Minus(f, n) \in Snap /\ DOMAIN Minus(f, n) = DOMAIN f \ {n}
<1> DEFINE g == Minus(f, n)
<1>1. DOMAIN g = DOMAIN f \ {n} /\ g = [x \in DOMAIN g |-> g[x]]
  BY DEF Minus
<1>2. \A x \in DOMAIN g : g[x] \subseteq Doc
  BY SnapType DEF Minus
<1>3. DOMAIN g \subseteq Nat
  BY <1>1, SnapType
<1> HIDE DEF g
<1>4. g \in Snap
  BY <1>1, <1>2, <1>3, NewSnap
<1> QED
  BY <1>1, <1>4 DEF g

LEMMA SeatType ==
    ASSUME setup \in Setups, NEW t \in Thread
    PROVE  W(t) \in Worker /\ setup.kinds \subseteq Kinds
BY MatterConstants DEF W

LEMMA LocalType ==
    ASSUME Types, NEW t \in Thread, M(t) \in Matter, Local(t) # Nil
    PROVE  Local(t) \in Copy
BY SeatType DEF Types, Disks, Local

LEMMA DiskType ==
    ASSUME Types, NEW t \in Thread, NEW copy \in Copy \cup {Nil}, SetDisk(t, copy)
    PROVE  disk' \in Disks
BY SeatType DEF Types, Disks, SetDisk

LEMMA NextSeqType ==
    ASSUME Types, NEW t \in Thread
    PROVE  NextSeq(t) \in Nat
<1>1. call[t].prev \in Head \cup {Nil}
  BY DEF Types, CallTypes, Calls
<1> QED
  BY <1>1 DEF NextSeq, Head

LEMMA IdleType == Idle \in Calls /\ Proper(Idle)
BY DEF Idle, Calls, Proper
-----------------------------------------------------------------------------
(* How a call goes on.                                                     *)

LEMMA CallType ==
    ASSUME CallTypes, NEW t \in Thread, NEW c \in Calls, Proper(c),
           call' = [call EXCEPT ![t] = c]
    PROVE  CallTypes'
BY DEF CallTypes

LEMMA GoType ==
    ASSUME CallTypes, NEW t \in Thread, NEW step \in Steps, Go(t, step),
           Working([call[t] EXCEPT !.at = step])
    PROVE  CallTypes'
<1>1. [call[t] EXCEPT !.at = step] \in Calls
  BY DEF CallTypes, Calls
<1>2. call' = [call EXCEPT ![t] = [call[t] EXCEPT !.at = step]]
  BY DEF Go
<1> QED
  BY <1>1, <1>2, CallType DEF Proper

LEMMA FinishType ==
    ASSUME Types, NEW t \in Thread, NEW ok \in BOOLEAN, Finish(t, ok), Working(call[t])
    PROVE  CallTypes' /\ closed' \subseteq Matter
<1>1. call' = [call EXCEPT ![t] = Idle]
  BY DEF Finish
<1>2. CallTypes'
  BY <1>1, IdleType, CallType DEF Types
<1>3. closed' \subseteq Matter
  BY DEF Finish, Types, Working
<1> QED
  BY <1>2, <1>3

LEMMA LeaveType ==
    ASSUME Types, NEW t \in Thread, NEW ok \in BOOLEAN, Leave(t, ok), Working(call[t]),
           call[t].kind \in Lockers
    PROVE  CallTypes' /\ closed' = closed
<1> DEFINE c == [call[t] EXCEPT !.at = "release", !.ok = ok]
<1>1. call[t] \in Calls
  BY DEF Types, CallTypes
<1>2. c \in Calls
  BY <1>1 DEF Calls, Steps
<1>3. Working(c)
  BY <1>1 DEF Working, Calls, Steps, Unread
<1>4. call' = [call EXCEPT ![t] = c]
  BY DEF Leave
<1> QED
  BY <1>2, <1>3, <1>4, CallType DEF Types, Proper, Leave

LEMMA RaiseType ==
    ASSUME Types, NEW t \in Thread, Raise(t), Working(call[t])
    PROVE  CallTypes' /\ closed' \subseteq Matter /\ disk' \in Disks
<1> DEFINE swallowed == call[t].at \in {"list", "sweep"} /\ call[t].kind \in {"add", "create"}
<1>1. disk' \in Disks
  BY DiskType DEF Raise, Types
<1>2. CASE call[t].kind \in Writers \cup {"drop"} /\ call[t].at # "claim"
  BY <1>1, <1>2, LeaveType DEF Raise, Types, Lockers
<1>3. CASE ~(call[t].kind \in Writers \cup {"drop"} /\ call[t].at # "claim")
  BY <1>1, <1>3, FinishType DEF Raise
<1> QED
  BY <1>2, <1>3

LEMMA AnsweredType ==
    ASSUME Types, NEW t \in Thread, NEW seen \in BOOLEAN, NEW next,
           Answered(t, seen, next), Working(call[t]),
           call' = next /\ seen => CallTypes'
    PROVE  /\ CallTypes' /\ closed' \subseteq Matter /\ disk' \in Disks /\ used' \in Bounds
           /\ used'.names = used.names
<1>1. CASE seen
  BY <1>1 DEF Answered, Stays, Types
<1>2. CASE ~seen
  BY <1>2, RaiseType DEF Answered, Types, Bounds
<1> QED
  BY <1>1, <1>2
-----------------------------------------------------------------------------
(* Every step keeps the types.                                             *)

LEMMA AtWork ==
    ASSUME Types, NEW t \in Thread, call[t].at \in Steps
    PROVE  Working(call[t]) /\ call[t] \in Calls
<1>1. call[t] # Idle
  BY DEF Idle, Steps
<1> QED
  BY <1>1 DEF Types, CallTypes, Proper

LEMMA SameStore ==
    ASSUME Types, UNCHANGED remote, used'.names = used.names
    PROVE  StoreTypes'
BY DEF Types, StoreTypes, remote

LEMMA LockTypes ==
    ASSUME Types, NEW t \in Thread, NEW seen \in BOOLEAN,
           TakeTurn(t) \/ ClaimLock(t, seen) \/ GiveUp(t) \/ StillMine(t) \/ Release(t) \/ Unlock(t)
    PROVE  Types'
<1>1. CASE TakeTurn(t)
  <2>1. Working(call[t]) /\ call[t] \in Calls
    BY <1>1, AtWork DEF TakeTurn, At, Steps
  <2>2. Working([call[t] EXCEPT !.at = "claim"])
    BY <1>1, <2>1 DEF Working, Calls, Steps, Unread, TakeTurn, At
  <2>3. CallTypes'
    BY <1>1, <2>2, GoType DEF TakeTurn, Types, Steps
  <2> QED
    BY <1>1, <2>3, SameStore DEF TakeTurn, Types
<1>2. CASE ClaimLock(t, seen)
  <2>1. Working(call[t]) /\ call[t] \in Calls
    BY <1>2, AtWork DEF ClaimLock, At, Steps
  <2>2. Working([call[t] EXCEPT !.at = "pointer"])
    BY <1>2, <2>1 DEF Working, Calls, Steps, Unread, ClaimLock, At, Lockers
  <2>3. ASSUME call' = [call EXCEPT ![t].at = "pointer"]
        PROVE  CallTypes'
    BY <2>2, <2>3, GoType DEF Go, Types, Steps
  <2>4. /\ CallTypes' /\ closed' \subseteq Matter /\ disk' \in Disks /\ used' \in Bounds
        /\ used'.names = used.names
    BY <1>2, <2>1, <2>3, AnsweredType DEF ClaimLock
  <2>5. StoreTypes'
    BY <1>2, <2>4 DEF ClaimLock, Types, StoreTypes
  <2> QED
    BY <1>2, <2>4, <2>5 DEF ClaimLock, Types
<1>3. CASE GiveUp(t)
  <2>1. Working(call[t])
    BY <1>3, AtWork DEF GiveUp, At, Steps
  <2>2. CallTypes' /\ closed' \subseteq Matter
    BY <1>3, <2>1, FinishType DEF GiveUp
  <2> QED
    BY <1>3, <2>2, SameStore DEF GiveUp, Types
<1>4. CASE StillMine(t)
  <2>1. Working(call[t]) /\ call[t] \in Calls
    BY <1>4, AtWork DEF StillMine, At, Steps
  <2>2. CASE Mine(t)
    <3>1. Working([call[t] EXCEPT !.at = "upload"])
      BY <1>4, <2>1 DEF Working, Calls, Steps, Unread, StillMine, At
    <3>2. CallTypes'
      BY <1>4, <2>2, <3>1, GoType DEF StillMine, Types, Steps
    <3> QED
      BY <1>4, <2>2, <3>2, SameStore DEF StillMine, Types, Stays
  <2>3. CASE ~Mine(t)
    BY <1>4, <2>1, <2>3, RaiseType, SameStore DEF StillMine, Types
  <2> QED
    BY <2>2, <2>3
<1>5. CASE Release(t)
  <2>1. Working(call[t]) /\ call[t] \in Calls
    BY <1>5, AtWork DEF Release, At, Steps
  <2>2. CASE lock[M(t)] = t
    <3>1. Working([call[t] EXCEPT !.at = "unlock"])
      BY <1>5, <2>1 DEF Working, Calls, Steps, Unread, Release, At
    <3>2. CallTypes'
      BY <1>5, <2>2, <3>1, GoType DEF Release, Types, Steps
    <3> QED
      BY <1>5, <2>2, <3>2, SameStore DEF Release, Types, Stays
  <2>3. CASE lock[M(t)] # t
    <3>1. call[t].ok \in BOOLEAN
      BY <2>1 DEF Calls
    <3> QED
      BY <1>5, <2>1, <2>3, <3>1, FinishType, SameStore DEF Release, Types
  <2> QED
    BY <2>2, <2>3
<1>6. CASE Unlock(t)
  <2>1. Working(call[t]) /\ call[t].ok \in BOOLEAN
    BY <1>6, AtWork DEF Unlock, At, Steps, Calls
  <2>2. CallTypes' /\ closed' \subseteq Matter
    BY <1>6, <2>1, FinishType DEF Unlock
  <2>3. StoreTypes'
    BY <1>6 DEF Unlock, Types, StoreTypes
  <2> QED
    BY <1>6, <2>2, <2>3 DEF Unlock, Types
<1> QED
  BY <1>1, <1>2, <1>3, <1>4, <1>5, <1>6

LEMMA TryAgainType ==
    ASSUME Types, NEW t \in Thread, TryAgain(t), Working(call[t]), call[t].at = "fetch"
    PROVE  CallTypes' /\ closed' \subseteq Matter /\ disk' \in Disks
<1> DEFINE c == [call[t] EXCEPT !.tries = @ + 1, !.at = "pointer"]
<1>1. CASE call[t].tries + 1 < MaxTries
  <2>1. call[t] \in Calls
    BY DEF Types, CallTypes
  <2>2. call[t].tries + 1 \in Nat
    BY <2>1 DEF Calls
  <2>3. c \in Calls
    <3>1. \A n \in Nat : [call[t] EXCEPT !.tries = n, !.at = "pointer"] \in Calls
      BY <2>1 DEF Calls, Steps
    <3> QED
      BY <2>2, <3>1
  <2>4. Working(c)
    BY <2>1 DEF Working, Calls, Steps, Unread
  <2>5. call' = [call EXCEPT ![t] = c]
    BY <1>1 DEF TryAgain
  <2> QED
    BY <1>1, <2>3, <2>4, <2>5, CallType DEF Types, Proper, TryAgain, Stays
<1>2. CASE ~(call[t].tries + 1 < MaxTries)
  BY <1>2, RaiseType DEF TryAgain
<1> QED
  BY <1>1, <1>2

LEMMA CurrentTypes ==
    ASSUME Types, NEW t \in Thread,
           ReadPointer(t) \/ Fetch(t) \/ Unpack(t) \/ Stamp(t) \/ Answer(t)
    PROVE  Types'
<1>1. CASE ReadPointer(t)
  <2> DEFINE h == head[M(t)]
             step == IF LocalSeq(t) = h.seq THEN Ready(t) ELSE "fetch"
             c == [call[t] EXCEPT !.prev = h, !.at = step]
  <2>1. Working(call[t]) /\ call[t] \in Calls /\ call[t].at = "pointer"
    BY <1>1, AtWork DEF ReadPointer, At, Steps
  <2>2. M(t) \in Matter /\ h \in Head \cup {Nil}
    BY <2>1 DEF Working, M, Types, StoreTypes, Lockers, Writers
  <2>3. CASE h = Nil
    <3>1. disk' \in Disks
      BY <1>1, <2>3, DiskType DEF ReadPointer
    <3>2. CallTypes' /\ closed' \subseteq Matter
      <4>1. CASE call[t].kind = "read"
        BY <1>1, <2>1, <2>3, <4>1, FinishType DEF ReadPointer
      <4>2. CASE call[t].kind # "read"
        BY <1>1, <2>1, <2>3, <4>2, LeaveType DEF ReadPointer, Working, Lockers, Types
      <4> QED
        BY <4>1, <4>2
    <3> QED
      BY <1>1, <3>1, <3>2, SameStore DEF ReadPointer, Types
  <2>4. CASE h # Nil
    <3>1. step \in {"answer", "work", "fetch"} /\ (step = "answer" <=> step # "fetch" /\ call[t].kind = "read")
      BY DEF Ready
    <3> HIDE DEF step
    <3>2. c \in Calls
      BY <2>1, <2>2, <3>1 DEF Calls, Steps
    <3>3. Working(c)
      BY <2>1, <2>2, <2>4, <3>1 DEF Working, Calls, Steps, Unread, Lockers, Writers
    <3>4. call' = [call EXCEPT ![t] = c] /\ Stays /\ UNCHANGED disk
      BY <1>1, <2>4 DEF ReadPointer, step
    <3>5. CallTypes'
      BY <3>2, <3>3, <3>4, CallType DEF Types, Proper
    <3> QED
      BY <1>1, <3>4, <3>5, SameStore DEF ReadPointer, Types, Stays
  <2> QED
    BY <2>3, <2>4
<1>2. CASE Fetch(t)
  <2>1. Working(call[t]) /\ call[t] \in Calls /\ call[t].at = "fetch" /\ M(t) \in Matter
    BY <1>2, AtWork DEF Fetch, At, Steps, Working, M, Lockers, Writers
  <2>2. CASE call[t].prev.name \in DOMAIN snaps[M(t)]
    <3> DEFINE docs == snaps[M(t)][call[t].prev.name]
               c == [call[t] EXCEPT !.copy = docs, !.at = "unpack"]
    <3>1. docs \subseteq Doc
      BY <2>1, <2>2, SnapType DEF Types, StoreTypes
    <3> HIDE DEF docs
    <3>2. c \in Calls
      BY <2>1, <3>1 DEF Calls, Steps
    <3>3. Working(c)
      BY <2>1 DEF Working, Calls, Steps, Unread, Lockers, Writers
    <3>4. call' = [call EXCEPT ![t] = c] /\ Stays /\ UNCHANGED disk
      BY <1>2, <2>2 DEF Fetch, docs
    <3>5. CallTypes'
      BY <3>2, <3>3, <3>4, CallType DEF Types, Proper
    <3> QED
      BY <1>2, <3>4, <3>5, SameStore DEF Fetch, Types, Stays
  <2>3. CASE call[t].prev.name \notin DOMAIN snaps[M(t)]
    BY <1>2, <2>1, <2>3, TryAgainType, SameStore DEF Fetch, Types
  <2> QED
    BY <2>2, <2>3
<1>3. CASE Unpack(t)
  <2> DEFINE c == [call[t] EXCEPT !.copy = {}, !.at = "stamp"]
             copy == [docs |-> call[t].copy, seq |-> LocalSeq(t)]
  <2>1. Working(call[t]) /\ call[t] \in Calls /\ call[t].at = "unpack" /\ M(t) \in Matter
    BY <1>3, AtWork DEF Unpack, At, Steps, Working, M, Lockers, Writers
  <2>2. c \in Calls
    BY <2>1 DEF Calls, Steps
  <2>3. Working(c)
    BY <2>1 DEF Working, Calls, Steps, Unread, Lockers, Writers
  <2>4. LocalSeq(t) \in Nat \cup {Fresh}
    BY <2>1, LocalType DEF LocalSeq, Copy
  <2>5. copy \in Copy
    BY <2>1, <2>4 DEF Copy, Calls
  <2>6. disk' \in Disks
    BY <1>3, <2>5, DiskType DEF Unpack
  <2>7. CallTypes'
    BY <1>3, <2>2, <2>3, CallType DEF Types, Proper, Unpack
  <2> QED
    BY <1>3, <2>6, <2>7, SameStore DEF Unpack, Types
<1>4. CASE Stamp(t)
  <2>1. Working(call[t]) /\ call[t] \in Calls /\ call[t].at = "stamp" /\ M(t) \in Matter
    BY <1>4, AtWork DEF Stamp, At, Steps, Working, M, Lockers, Writers
  <2>2. CASE Local(t) = Nil
    BY <1>4, <2>1, <2>2, RaiseType, SameStore DEF Stamp, Types
  <2>3. CASE Local(t) # Nil
    <3> DEFINE c == [call[t] EXCEPT !.tries = 0, !.at = Ready(t)]
               copy == [Local(t) EXCEPT !.seq = call[t].prev.seq]
    <3>1. call[t].prev \in Head
      BY <2>1 DEF Working, Calls, Lockers, Writers, Unread
    <3>2. copy \in Copy
      BY <2>1, <2>3, <3>1, LocalType DEF Copy, Head
    <3>3. disk' \in Disks
      BY <1>4, <2>3, <3>2, DiskType DEF Stamp
    <3>4. c \in Calls
      BY <2>1 DEF Calls, Steps, Ready
    <3>5. Working(c)
      BY <2>1 DEF Working, Calls, Steps, Unread, Lockers, Writers, Ready
    <3>6. call' = [call EXCEPT ![t] = c] /\ Stays
      BY <1>4, <2>3 DEF Stamp
    <3>7. CallTypes'
      BY <3>4, <3>5, <3>6, CallType DEF Types, Proper
    <3> QED
      BY <1>4, <3>3, <3>6, <3>7, SameStore DEF Stamp, Types, Stays
  <2> QED
    BY <2>2, <2>3
<1>5. CASE Answer(t)
  <2>1. Working(call[t]) /\ (Local(t) # Nil) \in BOOLEAN
    BY <1>5, AtWork DEF Answer, At, Steps
  <2>2. CallTypes' /\ closed' \subseteq Matter
    BY <1>5, <2>1, FinishType DEF Answer
  <2> QED
    BY <1>5, <2>2, SameStore DEF Answer, Types
<1> QED
  BY <1>1, <1>2, <1>3, <1>4, <1>5

LEMMA GoneOn ==
    ASSUME Types, NEW t \in Thread, NEW step \in Steps, NEW todo \in SUBSET (Matter \X Int),
           Working(call[t]), Working([call[t] EXCEPT !.at = step]),
           call' = [call EXCEPT ![t].todo = todo, ![t].at = step]
    PROVE  CallTypes'
<1> DEFINE c == [call[t] EXCEPT !.todo = todo, !.at = step]
<1>1. call[t] \in Calls
  BY DEF Types, CallTypes
<1>2. c \in Calls
  BY <1>1 DEF Calls
<1>3. Working(c)
  BY <1>1 DEF Working, Calls
<1>4. call' = [call EXCEPT ![t] = c]
  OBVIOUS
<1> QED
  BY <1>2, <1>3, <1>4, CallType DEF Types, Proper

LEMMA SnapshotsType ==
    ASSUME Types, NEW m \in Matter, NEW keep
    PROVE  Snapshots(m, keep) \in SUBSET (Matter \X Int)
BY SnapType DEF Snapshots, Types, StoreTypes

LEMMA ListedType ==
    ASSUME Types, NEW m \in Matter
    PROVE  Listed(m) \subseteq Int
BY SnapType DEF Listed, Types, StoreTypes, HeadName, LockName

LEMMA ChangeTypes ==
    ASSUME Types, NEW t \in Thread, Ingest(t) \/ Scrub(t) \/ NoSuchDocument(t) \/ Record(t)
    PROVE  Types'
<1>1. CASE Ingest(t)
  <2>1. Working(call[t]) /\ call[t] \in Calls /\ M(t) \in Matter /\ call[t].d \in Doc
    BY <1>1, AtWork DEF Ingest, At, Steps, Working, M, Lockers, Writers
  <2>2. CASE Local(t) = Nil
    BY <1>1, <2>1, <2>2, RaiseType, SameStore DEF Ingest, Types
  <2>3. CASE Local(t) # Nil
    <3>1. [Local(t) EXCEPT !.docs = @ \cup {call[t].d}] \in Copy
      BY <2>1, <2>3, LocalType DEF Copy
    <3>2. Working([call[t] EXCEPT !.at = "mine"])
      BY <1>1, <2>1 DEF Working, Calls, Steps, Unread, Lockers, Writers, Ingest, At
    <3>3. CallTypes'
      BY <1>1, <2>3, <3>2, GoType DEF Ingest, Types, Steps
    <3>4. disk' \in Disks
      BY <1>1, <2>3, <3>1, DiskType DEF Ingest
    <3> QED
      BY <1>1, <2>3, <3>3, <3>4, SameStore DEF Ingest, Types, Stays
  <2> QED
    BY <2>2, <2>3
<1>2. CASE Scrub(t)
  <2>1. Working(call[t]) /\ call[t] \in Calls /\ M(t) \in Matter
    BY <1>2, AtWork DEF Scrub, At, Steps, Working, M, Lockers, Writers
  <2>2. [Local(t) EXCEPT !.docs = @ \ {call[t].d}] \in Copy
    BY <1>2, <2>1, LocalType DEF Copy, Scrub
  <2>3. Working([call[t] EXCEPT !.at = "mine"])
    BY <1>2, <2>1 DEF Working, Calls, Steps, Unread, Lockers, Writers, Scrub, At
  <2>4. CallTypes'
    BY <1>2, <2>3, GoType DEF Scrub, Types, Steps
  <2>5. disk' \in Disks
    BY <1>2, <2>2, DiskType DEF Scrub
  <2> QED
    BY <1>2, <2>4, <2>5, SameStore DEF Scrub, Types, Stays
<1>3. CASE NoSuchDocument(t)
  <2> DEFINE old == Snapshots(M(t), {call[t].prev.name})
  <2>1. Working(call[t]) /\ call[t] \in Calls /\ M(t) \in Matter
    BY <1>3, AtWork DEF NoSuchDocument, At, Steps, Working, M, Lockers, Writers
  <2>2. CASE Local(t) = Nil \/ old = {}
    BY <1>3, <2>1, <2>2, RaiseType, SameStore DEF NoSuchDocument, Types
  <2>3. CASE ~(Local(t) = Nil \/ old = {})
    <3>1. old \in SUBSET (Matter \X Int)
      BY <2>1, SnapshotsType
    <3>2. Working([call[t] EXCEPT !.at = "resweep"])
      BY <1>3, <2>1 DEF Working, Calls, Steps, Unread, Lockers, Writers, NoSuchDocument, At
    <3>3. call' = [call EXCEPT ![t].todo = old, ![t].at = "resweep"] /\ Stays /\ UNCHANGED disk
      BY <1>3, <2>3 DEF NoSuchDocument
    <3> HIDE DEF old
    <3>4. CallTypes'
      BY <2>1, <3>1, <3>2, <3>3, GoneOn DEF Steps
    <3> QED
      BY <1>3, <3>3, <3>4, SameStore DEF NoSuchDocument, Types, Stays
  <2> QED
    BY <2>2, <2>3
<1>4. CASE Record(t)
  <2>1. Working(call[t]) /\ call[t] \in Calls /\ M(t) \in Matter
    BY <1>4, AtWork DEF Record, At, Steps, Working, M, Writers
  <2>2. CASE Local(t) = Nil
    BY <1>4, <2>1, <2>2, RaiseType, SameStore DEF Record, Types
  <2>3. CASE Local(t) # Nil
    <3>1. [Local(t) EXCEPT !.seq = NextSeq(t)] \in Copy
      BY <2>1, <2>3, LocalType, NextSeqType DEF Copy
    <3>2. Working([call[t] EXCEPT !.at = "list"])
      BY <1>4, <2>1 DEF Working, Calls, Steps, Unread, Lockers, Writers, Record, At
    <3>3. CallTypes'
      BY <1>4, <2>3, <3>2, GoType DEF Record, Types, Steps
    <3>4. disk' \in Disks
      BY <1>4, <2>3, <3>1, DiskType DEF Record
    <3> QED
      BY <1>4, <2>3, <3>3, <3>4, SameStore DEF Record, Types, Stays
  <2> QED
    BY <2>2, <2>3
<1> QED
  BY <1>1, <1>2, <1>3, <1>4

LEMMA PushTypes ==
    ASSUME Types, NEW t \in Thread, NEW seen \in BOOLEAN,
           Upload(t, seen) \/ Publish(t, seen) \/ Erase(t, seen)
    PROVE  Types'
<1>1. CASE Upload(t, seen)
  <2> DEFINE n == used.names + 1
  <2>1. Working(call[t]) /\ call[t] \in Calls /\ M(t) \in Matter
    BY <1>1, AtWork DEF Upload, At, Steps, Working, M, Writers
  <2>2. CASE Local(t) = Nil
    BY <1>1, <2>1, <2>2, RaiseType, SameStore DEF Upload, Types, remote
  <2>3. CASE Local(t) # Nil
    <3>1. n \in Nat /\ n # 0
      BY DEF Types, Bounds
    <3>2. snaps' = [snaps EXCEPT ![M(t)] = Plus(snaps[M(t)], n, Local(t).docs)]
      BY <1>1, <2>3 DEF Upload
    <3>3. snaps[M(t)] \in Snap /\ Local(t).docs \in SUBSET Doc
      BY <2>1, <2>3, LocalType DEF Types, StoreTypes, Copy
    <3>4. /\ Plus(snaps[M(t)], n, Local(t).docs) \in Snap
          /\ DOMAIN Plus(snaps[M(t)], n, Local(t).docs) = DOMAIN snaps[M(t)] \cup {n}
      BY <3>1, <3>3, PlusSnap
    <3>5. used' \in Bounds /\ used'.names = n
      <4> DEFINE f == used.faults + 1
      <4>1. f \in Nat /\ used \in Bounds
        BY DEF Types, Bounds
      <4>2. used' = [used EXCEPT !.names = n] \/ used' = [used EXCEPT !.names = n, !.faults = f]
        BY <1>1, <2>3 DEF Upload
      <4> HIDE DEF n, f
      <4> QED
        BY <3>1, <4>1, <4>2 DEF Bounds
    <3>6. StoreTypes'
      <4>1. \A m \in Matter : DOMAIN snaps[m] \subseteq 1..n
        BY <3>1 DEF Types, StoreTypes, Bounds
      <4>2. DOMAIN snaps[M(t)] \cup {n} \subseteq 1..n
        BY <2>1, <3>1, <4>1
      <4>3. snaps' \in [Matter -> Snap] /\ \A m \in Matter : DOMAIN snaps'[m] \subseteq 1..n
        BY <2>1, <3>2, <3>4, <4>1, <4>2 DEF Types, StoreTypes
      <4> QED
        BY <1>1, <3>5, <4>3 DEF Upload, Types, StoreTypes
    <3>7. CallTypes' /\ closed' \subseteq Matter /\ disk' \in Disks
      <4>1. CASE seen
        <5> DEFINE c == [call[t] EXCEPT !.new = n, !.at = "publish"]
        <5> HIDE DEF n
        <5>1. c \in Calls
          BY <2>1, <3>1 DEF Calls, Steps
        <5>2. Working(c)
          BY <1>1, <2>1, <3>1 DEF Working, Calls, Steps, Unread, Lockers, Writers, Upload, At
        <5>3. call' = [call EXCEPT ![t] = c] /\ Stays /\ UNCHANGED disk
          BY <1>1, <2>3, <4>1 DEF Upload, n
        <5> QED
          BY <5>1, <5>2, <5>3, CallType DEF Types, Proper, Stays
      <4>2. CASE ~seen
        BY <1>1, <2>1, <2>3, <4>2, RaiseType DEF Upload
      <4> QED
        BY <4>1, <4>2
    <3> QED
      BY <1>1, <3>5, <3>6, <3>7 DEF Upload, Types
  <2> QED
    BY <2>2, <2>3
<1>2. CASE Publish(t, seen)
  <2>1. Working(call[t]) /\ call[t] \in Calls /\ M(t) \in Matter /\ call[t].at = "publish"
    BY <1>2, AtWork DEF Publish, At, Steps, Working, M, Writers
  <2>2. CASE head[M(t)] # call[t].prev
    BY <1>2, <2>1, <2>2, RaiseType, SameStore DEF Publish, Types, remote
  <2>3. CASE head[M(t)] = call[t].prev
    <3>1. [seq |-> NextSeq(t), name |-> call[t].new] \in Head
      BY <2>1, NextSeqType DEF Head, Calls, Working
    <3>2. head' \in [Matter -> Head \cup {Nil}]
      BY <1>2, <2>3, <3>1 DEF Publish, Types, StoreTypes
    <3>3. Working([call[t] EXCEPT !.at = "record"])
      BY <2>1 DEF Working, Calls, Steps, Unread, Lockers, Writers
    <3>4. ASSUME call' = [call EXCEPT ![t].at = "record"]
          PROVE  CallTypes'
      BY <3>3, <3>4, GoType DEF Go, Types, Steps
    <3>5. /\ CallTypes' /\ closed' \subseteq Matter /\ disk' \in Disks /\ used' \in Bounds
          /\ used'.names = used.names
      BY <1>2, <2>1, <2>3, <3>4, AnsweredType DEF Publish
    <3> QED
      BY <1>2, <3>2, <3>5 DEF Publish, Types, StoreTypes
  <2> QED
    BY <2>2, <2>3
<1>3. CASE Erase(t, seen)
  <2>1. Working(call[t]) /\ call[t] \in Calls /\ call[t].at = "erase"
    BY <1>3, AtWork DEF Erase, At, Steps
  <2>2. Working([call[t] EXCEPT !.at = "list"])
    BY <2>1 DEF Working, Calls, Steps, Unread, Lockers, Writers
  <2>3. ASSUME call' = [call EXCEPT ![t].at = "list"]
        PROVE  CallTypes'
    BY <2>2, <2>3, GoType DEF Go, Types, Steps
  <2>4. /\ CallTypes' /\ closed' \subseteq Matter /\ disk' \in Disks /\ used' \in Bounds
        /\ used'.names = used.names
    BY <1>3, <2>1, <2>3, AnsweredType DEF Erase
  <2>5. head' \in [Matter -> Head \cup {Nil}]
    BY <1>3 DEF Erase, Types, StoreTypes
  <2> QED
    BY <1>3, <2>4, <2>5 DEF Erase, Types, StoreTypes
<1> QED
  BY <1>1, <1>2, <1>3

LEMMA DoneType ==
    ASSUME Types, NEW t \in Thread, Done(t), Working(call[t]),
           call[t].kind \in Writers \cup {"create"}
    PROVE  CallTypes' /\ closed' \subseteq Matter
<1>1. CASE call[t].kind = "create"
  BY <1>1, FinishType DEF Done
<1>2. CASE call[t].kind # "create"
  BY <1>2, LeaveType DEF Done, Lockers, Types
<1> QED
  BY <1>1, <1>2

LEMMA RemoveType ==
    ASSUME Types, NEW m \in Matter, NEW n \in Int, Remove(m, n), used'.names = used.names
    PROVE  StoreTypes'
<1>1. head' \in [Matter -> Head \cup {Nil}] /\ lock' \in [Matter -> Thread \cup {Nil}] /\ lapsed' \subseteq Matter
  BY DEF Remove, Types, StoreTypes
<1>2. Minus(snaps[m], n) \in Snap /\ DOMAIN Minus(snaps[m], n) = DOMAIN snaps[m] \ {n}
  BY MinusSnap DEF Types, StoreTypes
<1>3. snaps' = snaps \/ snaps' = [snaps EXCEPT ![m] = Minus(snaps[m], n)]
  BY DEF Remove
<1>4. snaps' \in [Matter -> Snap] /\ \A x \in Matter : DOMAIN snaps'[x] \subseteq 1..used.names
  BY <1>2, <1>3 DEF Types, StoreTypes
<1> QED
  BY <1>1, <1>4 DEF StoreTypes

LEMMA SweepNextType ==
    ASSUME Types, NEW t \in Thread, NEW o \in call[t].todo, NEW seen \in BOOLEAN,
           NEW more \in Steps, NEW last, SweepNext(t, o, seen, more, last),
           Working(call[t]), call[t].at = more,
           last => CallTypes' /\ closed' \subseteq Matter
    PROVE  /\ StoreTypes' /\ CallTypes' /\ closed' \subseteq Matter /\ disk' \in Disks
           /\ used' \in Bounds /\ setup' = setup
<1>1. call[t] \in Calls /\ o[1] \in Matter /\ o[2] \in Int
  BY DEF Types, CallTypes, Calls
<1>2. /\ CallTypes' /\ closed' \subseteq Matter /\ disk' \in Disks /\ used' \in Bounds
      /\ used'.names = used.names
  <2>1. CASE call[t].todo # {o}
    <3> DEFINE rest == call[t].todo \ {o}
    <3>1. rest \in SUBSET (Matter \X Int)
      BY <1>1 DEF Calls
    <3>2. Working([call[t] EXCEPT !.at = more])
      BY <1>1 DEF Calls
    <3>3. ASSUME call' = [call EXCEPT ![t].todo = rest, ![t].at = more]
          PROVE  CallTypes'
      BY <3>1, <3>2, <3>3, GoneOn
    <3>4. Answered(t, seen, [call EXCEPT ![t].todo = rest, ![t].at = more])
      BY <2>1 DEF SweepNext
    <3> HIDE DEF rest
    <3> QED
      BY <3>3, <3>4, AnsweredType
  <2>2. CASE call[t].todo = {o} /\ seen
    BY <2>2 DEF SweepNext, Types
  <2>3. CASE call[t].todo = {o} /\ ~seen
    <3>1. Answered(t, FALSE, call)
      BY <2>3 DEF SweepNext
    <3> QED
      BY <3>1, RaiseType DEF Answered, Types, Bounds
  <2> QED
    BY <2>1, <2>2, <2>3
<1>3. StoreTypes'
  BY <1>1, <1>2, RemoveType DEF SweepNext
<1> QED
  BY <1>2, <1>3 DEF SweepNext

LEMMA SweepTypes ==
    ASSUME Types, NEW t \in Thread, NEW seen \in BOOLEAN,
           ListOld(t) \/ Sweep(t, seen) \/ Resweep(t, seen)
    PROVE  Types'
<1>1. CASE ListOld(t)
  <2> DEFINE todo == Snapshots(M(t), Keep(call[t]))
  <2>1. Working(call[t]) /\ call[t] \in Calls /\ M(t) \in Matter
    BY <1>1, AtWork DEF ListOld, At, Steps, Working, M, Writers
  <2>2. CASE todo = {}
    BY <1>1, <2>1, <2>2, DoneType, SameStore DEF ListOld, Types
  <2>3. CASE todo # {}
    <3>1. todo \in SUBSET (Matter \X Int)
      BY <2>1, SnapshotsType
    <3>2. Working([call[t] EXCEPT !.at = "sweep"])
      BY <1>1, <2>1 DEF Working, Calls, Steps, Unread, Lockers, Writers, ListOld, At
    <3>3. call' = [call EXCEPT ![t].todo = todo, ![t].at = "sweep"] /\ Stays
      BY <1>1, <2>3 DEF ListOld
    <3> HIDE DEF todo
    <3>4. CallTypes'
      BY <2>1, <3>1, <3>2, <3>3, GoneOn DEF Steps
    <3> QED
      BY <1>1, <3>3, <3>4, SameStore DEF ListOld, Types, Stays
  <2> QED
    BY <2>2, <2>3
<1>2. CASE Sweep(t, seen)
  <2>1. Working(call[t]) /\ call[t].at = "sweep" /\ call[t].kind \in Writers \cup {"create"}
    BY <1>2, AtWork DEF Sweep, At, Steps
  <2>2. PICK o \in call[t].todo : SweepNext(t, o, seen, "sweep", Done(t))
    BY <1>2 DEF Sweep
  <2>3. Done(t) => CallTypes' /\ closed' \subseteq Matter
    BY <2>1, DoneType
  <2> QED
    BY <2>1, <2>2, <2>3, SweepNextType DEF Types, Steps
<1>3. CASE Resweep(t, seen)
  <2> DEFINE last == call' = [call EXCEPT ![t].todo = {}, ![t].at = "mine"] /\ Stays
  <2>1. Working(call[t]) /\ call[t] \in Calls /\ call[t].at = "resweep"
    BY <1>3, AtWork DEF Resweep, At, Steps
  <2>2. PICK o \in call[t].todo : SweepNext(t, o, seen, "resweep", last)
    BY <1>3 DEF Resweep
  <2>3. last => CallTypes' /\ closed' \subseteq Matter
    <3>1. Working([call[t] EXCEPT !.at = "mine"])
      BY <2>1 DEF Working, Calls, Steps, Unread, Lockers, Writers
    <3>2. "mine" \in Steps /\ {} \in SUBSET (Matter \X Int)
      BY DEF Steps
    <3>3. ASSUME call' = [call EXCEPT ![t].todo = {}, ![t].at = "mine"]
          PROVE  CallTypes'
      BY <2>1, <3>1, <3>2, <3>3, GoneOn
    <3> QED
      BY <3>3 DEF Types, Stays
  <2> HIDE DEF last
  <2> QED
    BY <2>1, <2>2, <2>3, SweepNextType DEF Types, Steps
<1> QED
  BY <1>1, <1>2, <1>3

LEMMA MatterTypes ==
    ASSUME Types, NEW t \in Thread, Count(t) \/ DropLocal(t) \/ ListMatter(t) \/ ListTenant(t) \/ Wipe(t)
    PROVE  Types'
<1>1. CASE Count(t)
  <2>1. Working(call[t]) /\ call[t] \in Calls
    BY <1>1, AtWork DEF Count, At, Steps
  <2>2. CASE Cardinality(Live) >= MaxMatters
    BY <1>1, <2>1, <2>2, FinishType, SameStore DEF Count, Types
  <2>3. CASE ~(Cardinality(Live) >= MaxMatters)
    <3>1. [docs |-> {}, seq |-> Fresh] \in Copy
      BY DEF Copy
    <3>2. Working([call[t] EXCEPT !.at = "upload"])
      BY <1>1, <2>1 DEF Working, Calls, Steps, Unread, Lockers, Writers, Count, At
    <3>3. CallTypes'
      BY <1>1, <2>3, <3>2, GoType DEF Count, Types, Steps
    <3>4. disk' \in Disks
      BY <1>1, <2>3, <3>1, DiskType DEF Count
    <3> QED
      BY <1>1, <2>3, <3>3, <3>4, SameStore DEF Count, Types, Stays
  <2> QED
    BY <2>2, <2>3
<1>2. CASE DropLocal(t)
  <2>1. Working(call[t]) /\ call[t] \in Calls
    BY <1>2, AtWork DEF DropLocal, At, Steps
  <2>2. CASE Local(t) = Nil
    BY <1>2, <2>1, <2>2, RaiseType, SameStore DEF DropLocal, Types
  <2>3. CASE Local(t) # Nil
    <3>1. Working([call[t] EXCEPT !.at = "erase"])
      BY <1>2, <2>1 DEF Working, Calls, Steps, Unread, Lockers, Writers, DropLocal, At
    <3>2. CallTypes'
      BY <1>2, <2>3, <3>1, GoType DEF DropLocal, Types, Steps
    <3>3. disk' \in Disks
      BY <1>2, <2>3, DiskType DEF DropLocal
    <3> QED
      BY <1>2, <2>3, <3>2, <3>3, SameStore DEF DropLocal, Types, Stays
  <2> QED
    BY <2>2, <2>3
<1>3. CASE ListMatter(t)
  <2> DEFINE todo == {<<M(t), n>> : n \in Listed(M(t)) \ {LockName}}
  <2>1. Working(call[t]) /\ call[t] \in Calls /\ M(t) \in Matter /\ call[t].kind = "drop" /\ call[t].at = "list"
    BY <1>3, AtWork DEF ListMatter, At, Steps, Working, M
  <2>2. CASE todo = {}
    BY <1>3, <2>1, <2>2, LeaveType, SameStore DEF ListMatter, Types, Lockers
  <2>3. CASE todo # {}
    <3>1. todo \in SUBSET (Matter \X Int)
      BY <2>1, ListedType
    <3>2. Working([call[t] EXCEPT !.at = "clear"])
      BY <2>1 DEF Working, Calls, Steps, Unread, Lockers, Writers
    <3>3. call' = [call EXCEPT ![t].todo = todo, ![t].at = "clear"] /\ Stays
      BY <1>3, <2>3 DEF ListMatter
    <3> HIDE DEF todo
    <3>4. CallTypes'
      BY <2>1, <3>1, <3>2, <3>3, GoneOn DEF Steps
    <3> QED
      BY <1>3, <3>3, <3>4, SameStore DEF ListMatter, Types, Stays
  <2> QED
    BY <2>2, <2>3
<1>4. CASE ListTenant(t)
  <2> DEFINE todo == UNION {{<<m, n>> : n \in Listed(m)} : m \in Matter}
  <2>1. Working(call[t]) /\ call[t] \in Calls /\ call[t].kind = "purge" /\ call[t].at = "list"
    BY <1>4, AtWork DEF ListTenant, At, Steps
  <2>2. CallTypes'
    <3>1. CASE todo = {}
      <4>1. Working([call[t] EXCEPT !.at = "wipe"])
        BY <2>1 DEF Working, Calls, Steps, Unread, Lockers, Writers
      <4> QED
        BY <1>4, <3>1, <4>1, GoType DEF ListTenant, Types, Steps
    <3>2. CASE todo # {}
      <4>1. todo \in SUBSET (Matter \X Int)
        BY ListedType
      <4>2. Working([call[t] EXCEPT !.at = "clear"])
        BY <2>1 DEF Working, Calls, Steps, Unread, Lockers, Writers
      <4>3. call' = [call EXCEPT ![t].todo = todo, ![t].at = "clear"]
        BY <1>4, <3>2 DEF ListTenant
      <4> HIDE DEF todo
      <4> QED
        BY <2>1, <4>1, <4>2, <4>3, GoneOn DEF Steps
    <3> QED
      BY <3>1, <3>2
  <2> QED
    BY <1>4, <2>2, SameStore DEF ListTenant, Types
<1>5. CASE Wipe(t)
  <2>1. Working(call[t])
    BY <1>5, AtWork DEF Wipe, At, Steps
  <2>2. disk' \in Disks
    BY <1>5, SeatType DEF Wipe, Types, Disks
  <2>3. CallTypes' /\ closed' \subseteq Matter
    BY <1>5, <2>1, FinishType DEF Wipe
  <2> QED
    BY <1>5, <2>2, <2>3, SameStore DEF Wipe, Types
<1> QED
  BY <1>1, <1>2, <1>3, <1>4, <1>5

LEMMA ClearTypes ==
    ASSUME Types, NEW t \in Thread, NEW seen \in BOOLEAN, Clear(t, seen)
    PROVE  Types'
<1> DEFINE last == IF call[t].kind = "drop" THEN Leave(t, TRUE)
                   ELSE call' = [call EXCEPT ![t].todo = {}, ![t].at = "wipe"] /\ Stays
<1>1. Working(call[t]) /\ call[t] \in Calls /\ call[t].at = "clear"
  BY AtWork DEF Clear, At, Steps
<1>2. PICK o \in call[t].todo : SweepNext(t, o, seen, "clear", last)
  BY DEF Clear
<1>3. last => CallTypes' /\ closed' \subseteq Matter
  <2>1. CASE call[t].kind = "drop"
    BY <1>1, <2>1, LeaveType DEF Lockers, Types
  <2>2. CASE call[t].kind # "drop"
    <3>1. Working([call[t] EXCEPT !.at = "wipe"])
      BY <1>1, <2>2 DEF Working, Calls, Steps, Unread, Lockers, Writers
    <3>2. "wipe" \in Steps /\ {} \in SUBSET (Matter \X Int)
      BY DEF Steps
    <3>3. ASSUME call' = [call EXCEPT ![t].todo = {}, ![t].at = "wipe"]
          PROVE  CallTypes'
      BY <1>1, <3>1, <3>2, <3>3, GoneOn
    <3> QED
      BY <2>2, <3>3 DEF Types, Stays
  <2> QED
    BY <2>1, <2>2
<1> HIDE DEF last
<1> QED
  BY <1>1, <1>2, <1>3, SweepNextType DEF Types, Steps

LEMMA RefuseTypes ==
    ASSUME Types, NEW t \in Thread, Refuse(t)
    PROVE  Types'
<1>1. Working(call[t]) /\ call[t] \in Calls
  BY AtWork DEF Refuse, Asking
<1>2. used' \in Bounds /\ used'.names = used.names
  BY DEF Refuse, Types, Bounds
<1>3. CallTypes' /\ closed' \subseteq Matter /\ disk' \in Disks
  <2>1. CASE call[t].at = "fetch"
    BY <1>1, <2>1, TryAgainType DEF Refuse
  <2>2. CASE call[t].at \in {"release", "unlock"}
    <3>1. call[t].ok \in BOOLEAN
      BY <1>1 DEF Calls
    <3> QED
      BY <1>1, <2>2, <3>1, FinishType DEF Refuse, Types
  <2>3. CASE call[t].at \notin {"fetch", "release", "unlock"}
    BY <1>1, <2>3, RaiseType DEF Refuse
  <2> QED
    BY <2>1, <2>2, <2>3
<1> QED
  BY <1>2, <1>3, SameStore DEF Refuse, Types

LEMMA BeginTypes ==
    ASSUME Types, NEW t \in Thread, NEW c \in Calls, Working(c), Begin(t, c), c.kind # "create" \/ c.m \in Matter
    PROVE  Types'
<1>1. CallTypes'
  BY CallType DEF Begin, Types, Proper
<1>2. used' \in Bounds /\ used'.names = used.names
  <2> DEFINE n == used.calls + 1
             born == IF c.kind = "create" THEN used.born \cup {c.m} ELSE used.born
  <2>1. used \in Bounds /\ n \in Nat /\ born \in SUBSET Matter
    BY DEF Types, Bounds
  <2>2. used' = [used EXCEPT !.calls = n, !.born = born]
    BY DEF Begin
  <2> HIDE DEF n, born
  <2> QED
    BY <2>1, <2>2 DEF Bounds
<1> QED
  BY <1>1, <1>2, SameStore DEF Begin, Types

LEMMA AskTypes ==
    ASSUME Types, NEW t \in Thread, Ask(t)
    PROVE  Types'
<1>1. ASSUME NEW m \in Matter, DeleteMatter(t, m) \/ CreateMatter(t, m)
      PROVE  Types'
  <2>1. Call("drop", m, "turn") \in Calls /\ Call("create", m, "count") \in Calls
    BY DEF Call, Idle, Calls, Kinds, Steps
  <2>2. Working(Call("drop", m, "turn")) /\ Working(Call("create", m, "count"))
    BY DEF Call, Idle, Working, Kinds, Steps, Unread, Lockers, Writers
  <2> QED
    BY <1>1, <2>1, <2>2, BeginTypes DEF DeleteMatter, CreateMatter, Call, Idle
<1>2. ASSUME NEW m \in Matter, Read(t, m)
      PROVE  Types'
  <2> DEFINE owed == {d \in Doc : told[m][d] = "kept"}
             gone == {d \in Doc : told[m][d] = "gone"}
             c == [Call("read", m, "pointer") EXCEPT !.owed = owed, !.gone = gone]
  <2>1. owed \in SUBSET Doc /\ gone \in SUBSET Doc
    OBVIOUS
  <2>2. Begin(t, c)
    BY <1>2 DEF Read
  <2> HIDE DEF owed, gone
  <2>3. c \in Calls
    BY <2>1 DEF Call, Idle, Calls, Kinds, Steps
  <2>4. Working(c) /\ c.kind # "create"
    BY DEF Call, Idle, Working, Kinds, Steps, Unread, Lockers, Writers
  <2> HIDE DEF c
  <2> QED
    BY <2>2, <2>3, <2>4, BeginTypes
<1>3. ASSUME NEW m \in Matter, NEW d \in Doc, NEW kind \in Writers, Begin(t, [Call(kind, m, "turn") EXCEPT !.d = d])
      PROVE  Types'
  <2> DEFINE c == [Call(kind, m, "turn") EXCEPT !.d = d]
  <2>1. c \in Calls
    BY DEF Call, Idle, Calls, Kinds, Steps, Writers
  <2>2. Working(c) /\ c.kind # "create"
    BY DEF Call, Idle, Working, Kinds, Steps, Unread, Lockers, Writers
  <2> HIDE DEF c
  <2>3. Begin(t, c)
    BY <1>3 DEF c
  <2> QED
    BY <2>1, <2>2, <2>3, BeginTypes
<1>4. ASSUME DeleteTenant(t)
      PROVE  Types'
  <2>1. Call("purge", Nil, "list") \in Calls
    BY DEF Call, Idle, Calls, Kinds, Steps
  <2>2. Working(Call("purge", Nil, "list")) /\ Call("purge", Nil, "list").kind # "create"
    BY DEF Call, Idle, Working, Kinds, Steps, Unread, Lockers, Writers
  <2> QED
    BY <1>4, <2>1, <2>2, BeginTypes DEF DeleteTenant
<1>5. ASSUME NEW m \in Matter, NEW d \in Doc, AddDocument(t, m, d) \/ DeleteDocument(t, m, d)
      PROVE  Types'
  BY <1>3, <1>5 DEF AddDocument, DeleteDocument, Writers
<1> QED
  BY <1>1, <1>2, <1>4, <1>5 DEF Ask

LEMMA WorldTypes ==
    ASSUME Types, (\E m \in Matter : Expire(m)) \/ (\E w \in Worker : Die(w))
    PROVE  Types'
<1>1. CASE \E m \in Matter : Expire(m)
  BY <1>1 DEF Expire, Types, StoreTypes, CallTypes
<1>2. ASSUME NEW w \in Worker, Die(w)
      PROVE  Types'
  <2> DEFINE mine == {t \in Thread : setup.seat[t] = w}
  <2>1. used' \in Bounds /\ used'.names = used.names
    BY <1>2 DEF Die, Types, Bounds
  <2>2. disk' \in Disks
    <3> DEFINE none == [m \in Matter |-> Nil]
    <3>1. none \in [Matter -> Copy \cup {Nil}]
      OBVIOUS
    <3>2. disk' = disk \/ disk' = [disk EXCEPT ![w] = none]
      BY <1>2 DEF Die
    <3> HIDE DEF none
    <3> QED
      BY <3>1, <3>2 DEF Types, Disks
  <2>3. call' = [t \in Thread |-> IF t \in mine THEN Idle ELSE call[t]]
    BY <1>2 DEF Die
  <2> HIDE DEF mine
  <2>4. CallTypes'
    BY <2>3, IdleType DEF Types, CallTypes
  <2> QED
    BY <1>2, <2>1, <2>2, <2>4, SameStore DEF Die, Types
<1> QED
  BY <1>1, <1>2

LEMMA StepTypes ==
    ASSUME Types, [Next]_vars
    PROVE  Types'
<1>1. ASSUME NEW t \in Thread, Step(t)
      PROVE  Types'
  BY <1>1, LockTypes, CurrentTypes, ChangeTypes, PushTypes, SweepTypes, MatterTypes, ClearTypes DEF Step
<1>2. CASE UNCHANGED vars
  BY <1>2 DEF vars, Types, StoreTypes, CallTypes
<1> QED
  BY <1>1, <1>2, AskTypes, RefuseTypes, WorldTypes DEF Next

LEMMA StartTypes == Init => Types
<1> SUFFICES ASSUME Init PROVE Types
  OBVIOUS
<1> DEFINE one == [n \in {1} |-> {}]
           none == [n \in {} |-> {}]
<1>1. one \in Snap /\ none \in Snap /\ DOMAIN one = {1} /\ DOMAIN none = {}
  <2>1. DOMAIN one = {1} /\ DOMAIN none = {}
    OBVIOUS
  <2>2. one = [n \in DOMAIN one |-> one[n]] /\ \A n \in DOMAIN one : one[n] \subseteq Doc
    BY <2>1
  <2>3. none = [n \in DOMAIN none |-> none[n]] /\ \A n \in DOMAIN none : none[n] \subseteq Doc
    BY <2>1
  <2> HIDE DEF one, none
  <2>4. DOMAIN one \subseteq Nat /\ DOMAIN none \subseteq Nat
    BY <2>1
  <2>5. one \in Snap
    BY <2>2, <2>4, NewSnap
  <2>6. none \in Snap
    BY <2>3, <2>4, NewSnap
  <2> QED
    BY <2>1, <2>5, <2>6
<1>2. snaps = [m \in Matter |-> IF m \in Standing THEN one ELSE none]
  BY DEF Init
<1> HIDE DEF one, none
<1>3. snaps \in [Matter -> Snap] /\ \A m \in Matter : DOMAIN snaps[m] \subseteq 1..1
  BY <1>1, <1>2
<1>4. used \in Bounds /\ used.names = 1
  BY MatterConstants DEF Init, Bounds
<1>5. head \in [Matter -> Head \cup {Nil}]
  BY DEF Init, Head
<1>6. CallTypes
  BY IdleType DEF Init, CallTypes
<1>7. StoreTypes
  BY <1>3, <1>4, <1>5 DEF Init, StoreTypes
<1> QED
  BY <1>4, <1>6, <1>7 DEF Init, Types, Disks

LEMMA AlwaysTypes == Spec => []Types
BY StartTypes, StepTypes, PTL DEF Spec

LEMMA TypesImply == Types => TypeOK
<1> SUFFICES ASSUME Types PROVE TypeOK
  OBVIOUS
<1>1. ASSUME NEW m \in Matter
      PROVE  /\ head[m] = Nil \/ head[m] \in Head
             /\ DOMAIN snaps[m] \subseteq 1..used.names
             /\ \A n \in DOMAIN snaps[m] : snaps[m][n] \subseteq Doc
             /\ lock[m] = Nil \/ lock[m] \in Thread
             /\ \A w \in Worker : disk[w][m] = Nil \/ disk[w][m] \in Copy
  BY SnapType DEF Types, StoreTypes, Disks
<1>2. \A t \in Thread : call[t] = Idle \/ call[t].at \in Steps
  BY DEF Types, CallTypes, Proper, Working
<1> QED
  BY <1>1, <1>2 DEF TypeOK, Types, StoreTypes

\* TypeOK, in every mix of calls: what the object store, the local copies and the
\* calls hold is what matter_objectstore.py can put there.
THEOREM MatterTypeCorrect == Spec => []TypeOK
BY AlwaysTypes, TypesImply, PTL
-----------------------------------------------------------------------------
(* A deleted matter is not found again.                                    *)

LEMMA RemoveHead ==
    ASSUME Types, NEW x, NEW n, Remove(x, n), NEW m \in Matter, head'[m] # Nil
    PROVE  head'[m] = head[m]
BY DEF Remove, Types, StoreTypes

LEMMA PublishHead ==
    ASSUME Types, NEW t \in Thread, NEW seen \in BOOLEAN, Publish(t, seen),
           NEW m \in Matter, head[m] = Nil, head'[m] # Nil
    PROVE  head'[m].seq = 1
<1>1. head[M(t)] = call[t].prev /\ head' = [head EXCEPT ![M(t)] = [seq |-> NextSeq(t), name |-> call[t].new]]
  BY DEF Publish
<1>2. m = M(t)
  BY <1>1 DEF Types, StoreTypes
<1>3. NextSeq(t) = 1
  BY <1>1, <1>2 DEF NextSeq
<1> QED
  BY <1>1, <1>2, <1>3 DEF Types, StoreTypes

LEMMA StepStaysClosed ==
    ASSUME Types, [Next]_vars, NEW m \in Matter, head[m] = Nil, head'[m] # Nil
    PROVE  head'[m].seq = 1
<1>1. ASSUME NEW t \in Thread, NEW seen \in BOOLEAN,
             Sweep(t, seen) \/ Resweep(t, seen) \/ Clear(t, seen)
      PROVE  FALSE
  <2>1. \E x, n : Remove(x, n)
    BY <1>1 DEF Sweep, Resweep, Clear, SweepNext
  <2> QED
    BY <2>1, RemoveHead
<1>2. ASSUME NEW t \in Thread, NEW seen \in BOOLEAN, Erase(t, seen)
      PROVE  FALSE
  BY <1>2 DEF Erase, Types, StoreTypes
<1>3. ASSUME NEW t \in Thread, NEW seen \in BOOLEAN, ClaimLock(t, seen) \/ Upload(t, seen)
      PROVE  FALSE
  BY <1>3 DEF ClaimLock, Upload
<1>4. ASSUME NEW t \in Thread,
             \/ TakeTurn(t) \/ GiveUp(t) \/ StillMine(t) \/ Release(t) \/ Unlock(t)
             \/ ReadPointer(t) \/ Fetch(t) \/ Unpack(t) \/ Stamp(t) \/ Answer(t)
             \/ Ingest(t) \/ Scrub(t) \/ NoSuchDocument(t) \/ Record(t) \/ ListOld(t)
             \/ Count(t) \/ DropLocal(t) \/ ListMatter(t) \/ ListTenant(t) \/ Wipe(t)
      PROVE  FALSE
  BY <1>4 DEF TakeTurn, GiveUp, StillMine, Release, Unlock, ReadPointer, Fetch, Unpack, Stamp, Answer,
              Ingest, Scrub, NoSuchDocument, Record, ListOld, Count, DropLocal, ListMatter, ListTenant,
              Wipe, remote
<1>5. ASSUME NEW t \in Thread, Ask(t) \/ Refuse(t)
      PROVE  FALSE
  BY <1>5 DEF Ask, Refuse, AddDocument, DeleteDocument, DeleteMatter, CreateMatter, DeleteTenant,
              Read, Begin, remote
<1>6. CASE (\E x \in Matter : Expire(x)) \/ (\E w \in Worker : Die(w)) \/ UNCHANGED vars
  BY <1>6 DEF Expire, Die, remote, vars
<1>7. ASSUME NEW t \in Thread, Step(t)
      PROVE  head'[m].seq = 1
  BY <1>1, <1>2, <1>3, <1>4, <1>7, PublishHead DEF Step
<1> QED
  BY <1>5, <1>6, <1>7 DEF Next

\* StaysClosed: HEAD is made anew only by the first snapshot of a matter, since the put of
\* HEAD is on the condition that it is still what the writer read (`_push`).
THEOREM DeletedNotFoundAgain == Spec => StaysClosed
<1>1. Types /\ [Next]_vars => [\A m \in Matter : head[m] = Nil /\ head'[m] # Nil => head'[m].seq = 1]_vars
  BY StepStaysClosed
<1> QED
  BY <1>1, AlwaysTypes, PTL DEF Spec, StaysClosed
-----------------------------------------------------------------------------
(* What a call that holds LOCK, or creates, can rely on.                   *)

\* Locks outlast their holders, a matter is used once its creation has returned, and no
\* tenant is purged.
Orderly == ~SlowHolders /\ ~EarlyUse /\ \A s \in Setups : "purge" \notin s.kinds

Owns(t) == Holding(t) \/ call[t].kind = "create"

\* From the read of the pointer to the put of the next one.
Before == {"fetch", "unpack", "stamp", "work", "resweep", "mine", "upload", "publish"}

\* Nobody else moves the pointer or takes a snapshot away, and what is still to be swept
\* is what the call listed.
Secure(t) ==
    /\ Holding(t) => lock[M(t)] = t /\ M(t) \notin lapsed
    /\ call[t].kind \in Lockers /\ call[t].at \in Before => head[M(t)] = call[t].prev
    /\ call[t].at = "publish" => call[t].new \in DOMAIN snaps[M(t)]
    /\ call[t].kind # "drop" /\ call[t].at \in {"record", "list", "sweep"} =>
         head[M(t)].name = call[t].new
    /\ call[t].at = "resweep" =>
         \A o \in call[t].todo : o[1] = M(t) /\ o[2] > 0 /\ o[2] # call[t].prev.name
    /\ call[t].at = "sweep" =>
         \A o \in call[t].todo : o[1] = M(t) /\ o[2] > 0 /\ o[2] # call[t].new
    /\ call[t].at = "clear" =>
         /\ \A o \in call[t].todo : o[1] = M(t) /\ o[2] >= 0
         /\ \A n \in DOMAIN snaps[M(t)] : <<M(t), n>> \in call[t].todo
    /\ call[t].kind = "drop" /\ call[t].at \in {"list", "clear"} => head[M(t)] = Nil
    /\ call[t].kind = "drop" /\ call[t].at \in {"release", "unlock"} /\ call[t].ok =>
         head[M(t)] = Nil /\ DOMAIN snaps[M(t)] = {}

Sound(m) ==
    /\ head[m] # Nil => head[m].name \in DOMAIN snaps[m]
    /\ m \in closed => head[m] = Nil /\ DOMAIN snaps[m] = {}

\* Nobody else works on a matter while it is made.
Alone == \A t, u \in Thread : t # u /\ call[t].kind = "create" => call[u].m # call[t].m

Born ==
    /\ closed \subseteq used.born
    /\ \A t \in Thread :
         /\ call[t].m \in used.born \cup {Nil}
         /\ call[t].kind # "purge"
         /\ call[t].kind = "create" => call[t].m \notin closed

Inv == /\ Alone /\ Born
       /\ \A t \in Thread : Owns(t) => Secure(t)
       /\ \A m \in Matter : Sound(m)

\* The objects of a matter, and its lock, stay as they are.
Quiet(m) == head'[m] = head[m] /\ snaps'[m] = snaps[m] /\ lock'[m] = lock[m] /\ (m \in lapsed' <=> m \in lapsed)

\* A step of thread t leaves other matters alone, and its own if that is another's.
Calm(t) ==
    /\ \A m \in Matter \ {M(t)} : Quiet(m)
    /\ \A u \in Thread \ {t} : Owns(u) /\ M(u) = M(t) => Quiet(M(t))
    /\ used'.born = used.born

\* It leaves the lock alone.
LockStays(t) == lock'[M(t)] = lock[M(t)] /\ (M(t) \in lapsed' <=> M(t) \in lapsed)

\* The matter is as sound as it was closed before the step.
SoundAfter(m) ==
    /\ head'[m] # Nil => head'[m].name \in DOMAIN snaps'[m]
    /\ m \in closed => head'[m] = Nil /\ DOMAIN snaps'[m] = {}

\* A step of thread t keeps the invariant.
Keeps(t) ==
    /\ Calm(t)
    /\ \A u \in Thread \ {t} : call'[u] = call[u]
    /\ call'[t] = Idle \/ (call'[t].kind = call[t].kind /\ call'[t].m = call[t].m)
    /\ closed' = closed \/ (call[t].kind = "drop" /\ closed' = closed \cup {M(t)})
    /\ Owns(t)' => Secure(t)'
    /\ \A m \in Matter : m = M(t) => Sound(m)'
-----------------------------------------------------------------------------
(* Steps that keep it.                                                     *)

LEMMA OwnerMatter ==
    ASSUME Types, Inv, NEW t \in Thread, call[t].at \in Steps
    PROVE  M(t) \in Matter /\ Working(call[t]) /\ call[t] \in Calls
BY AtWork DEF Inv, Born, Working, M

LEMMA OwnerAtWork ==
    ASSUME Types, Inv, NEW t \in Thread, Owns(t)
    PROVE  M(t) \in Matter /\ Working(call[t]) /\ call[t] \in Calls
<1>1. call[t] # Idle
  BY DEF Owns, Holding, Idle, Writers
<1>2. call[t].at \in Steps
  BY <1>1 DEF Types, CallTypes, Proper, Working
<1> QED
  BY <1>2, OwnerMatter

LEMMA OneOwner ==
    ASSUME Types, Inv, NEW t \in Thread, NEW u \in Thread, t # u, Owns(t), Owns(u)
    PROVE  M(t) # M(u)
<1>1. CASE call[t].kind = "create" \/ call[u].kind = "create"
  BY <1>1 DEF Inv, Alone, M
<1>2. CASE ~(call[t].kind = "create" \/ call[u].kind = "create")
  BY <1>2 DEF Inv, Owns, Secure
<1> QED
  BY <1>1, <1>2

LEMMA SecureStays ==
    ASSUME NEW u \in Thread, Secure(u), call'[u] = call[u], Quiet(M(u))
    PROVE  Secure(u)'
BY DEF Secure, Quiet, M, Holding

LEMMA KeepsInv ==
    ASSUME Types, Inv, NEW t \in Thread, M(t) \in Matter, Keeps(t), CallTypes'
    PROVE  Inv'
<1>1. Alone'
  <2>1. \A u \in Thread : call'[u] = Idle \/ (call'[u].kind = call[u].kind /\ call'[u].m = call[u].m)
    BY DEF Keeps
  <2> SUFFICES ASSUME NEW x \in Thread, NEW u \in Thread, x # u, call'[x].kind = "create"
               PROVE  call'[u].m # call'[x].m
    BY DEF Alone
  <2>2. call[x].kind = "create" /\ call'[x].m = call[x].m
    BY <2>1 DEF Idle
  <2>3. call[x].m \in Matter
    BY <2>2, OwnerAtWork DEF Owns, M
  <2>4. CASE call'[u] = Idle
    BY <2>2, <2>3, <2>4, MatterConstants DEF Idle
  <2>5. CASE call'[u].m = call[u].m
    BY <2>2, <2>5 DEF Inv, Alone
  <2> QED
    BY <2>1, <2>4, <2>5
<1>2. Born'
  <2>1. closed' \subseteq used'.born
    <3>1. M(t) \in used.born
      BY MatterConstants DEF Inv, Born, M
    <3> QED
      BY <3>1 DEF Keeps, Calm, Inv, Born
  <2>2. ASSUME NEW u \in Thread
        PROVE  /\ call'[u].m \in used'.born \cup {Nil}
               /\ call'[u].kind # "purge"
               /\ call'[u].kind = "create" => call'[u].m \notin closed'
    <3>1. call'[u] = Idle \/ (call'[u].kind = call[u].kind /\ call'[u].m = call[u].m)
      BY DEF Keeps
    <3>2. CASE call'[u] = Idle
      BY <3>2 DEF Idle
    <3>3. CASE call'[u].kind = call[u].kind /\ call'[u].m = call[u].m
      <4>1. call[u].kind = "create" => call[u].m \notin closed'
        <5>1. SUFFICES ASSUME call[u].kind = "create", call[t].kind = "drop" PROVE call[u].m # M(t)
          BY DEF Keeps, Inv, Born
        <5> QED
          BY <5>1 DEF Inv, Alone, M
      <4> QED
        BY <3>3, <4>1 DEF Keeps, Calm, Inv, Born
    <3> QED
      BY <3>1, <3>2, <3>3
  <2> QED
    BY <2>1, <2>2 DEF Born
<1>3. ASSUME NEW u \in Thread, Owns(u)'
      PROVE  Secure(u)'
  <2>1. CASE u = t
    BY <1>3, <2>1 DEF Keeps
  <2>2. CASE u # t
    <3>1. call'[u] = call[u]
      BY <2>2 DEF Keeps
    <3>2. Owns(u) /\ Secure(u)
      BY <1>3, <3>1 DEF Owns, Holding, Inv
    <3>3. Quiet(M(u))
      BY <2>2, <3>2, OwnerAtWork DEF Keeps, Calm
    <3> QED
      BY <3>1, <3>2, <3>3, SecureStays
  <2> QED
    BY <2>1, <2>2
<1>4. ASSUME NEW m \in Matter
      PROVE  Sound(m)'
  <2>1. CASE m = M(t)
    BY <2>1 DEF Keeps, Sound
  <2>2. CASE m # M(t)
    BY <2>2 DEF Keeps, Calm, Quiet, Sound, Inv
  <2> QED
    BY <2>1, <2>2
<1> QED
  BY <1>1, <1>2, <1>3, <1>4 DEF Inv

LEMMA CalmSame ==
    ASSUME Types, Inv, NEW t \in Thread, M(t) \in Matter, UNCHANGED remote, used'.born = used.born
    PROVE  Calm(t) /\ SoundAfter(M(t)) /\ LockStays(t)
BY DEF Calm, LockStays, SoundAfter, remote, Quiet, Inv, Sound

LEMMA GoKeeps ==
    ASSUME Types, Inv, NEW t \in Thread, M(t) \in Matter, Calm(t), SoundAfter(M(t)),
           NEW c, call' = [call EXCEPT ![t] = c], c.kind = call[t].kind, c.m = call[t].m,
           closed' = closed, Owns(t)' => Secure(t)'
    PROVE  Keeps(t)
<1>1. call'[t] = c /\ \A u \in Thread \ {t} : call'[u] = call[u]
  BY DEF Types, CallTypes
<1>2. \A m \in Matter : m = M(t) => Sound(m)'
  BY DEF Sound, SoundAfter
<1> QED
  BY <1>1, <1>2 DEF Keeps, Calm

LEMMA IdleKeeps ==
    ASSUME Types, Inv, NEW t \in Thread, M(t) \in Matter, Calm(t), SoundAfter(M(t)),
           NEW ok \in BOOLEAN, Finish(t, ok),
           call[t].kind = "drop" /\ ok => head'[M(t)] = Nil /\ DOMAIN snaps'[M(t)] = {}
    PROVE  Keeps(t)
<1>1. call'[t] = Idle /\ \A u \in Thread \ {t} : call'[u] = call[u]
  BY DEF Finish, Types, CallTypes
<1>2. ~(Owns(t)')
  BY <1>1 DEF Owns, Holding, Idle, Writers
<1>3. closed' = closed \/ (call[t].kind = "drop" /\ ok /\ closed' = closed \cup {M(t)})
  BY DEF Finish, M
<1>4. \A m \in Matter : m = M(t) => Sound(m)'
  BY <1>3 DEF Sound, SoundAfter
<1> QED
  BY <1>1, <1>2, <1>3, <1>4 DEF Keeps, Calm

LEMMA GoAtKeeps ==
    ASSUME Types, Inv, NEW t \in Thread, M(t) \in Matter, Calm(t), SoundAfter(M(t)),
           NEW step, call' = [call EXCEPT ![t].at = step], closed' = closed, Owns(t)' => Secure(t)'
    PROVE  Keeps(t)
<1> DEFINE c == [call[t] EXCEPT !.at = step]
<1>1. call[t] \in Calls
  BY DEF Types, CallTypes
<1>2. c.kind = call[t].kind /\ c.m = call[t].m
  BY <1>1 DEF Calls
<1>3. call' = [call EXCEPT ![t] = c]
  OBVIOUS
<1> QED
  BY <1>2, <1>3, GoKeeps

LEMMA GoOnKeeps ==
    ASSUME Types, Inv, NEW t \in Thread, M(t) \in Matter, Calm(t), SoundAfter(M(t)),
           NEW step, NEW todo, call' = [call EXCEPT ![t].todo = todo, ![t].at = step],
           closed' = closed, Owns(t)' => Secure(t)'
    PROVE  Keeps(t)
<1> DEFINE c == [call[t] EXCEPT !.todo = todo, !.at = step]
<1>1. call[t] \in Calls
  BY DEF Types, CallTypes
<1>2. c.kind = call[t].kind /\ c.m = call[t].m
  BY <1>1 DEF Calls
<1>3. call' = [call EXCEPT ![t] = c]
  OBVIOUS
<1> QED
  BY <1>2, <1>3, GoKeeps

LEMMA LeaveKeeps ==
    ASSUME Types, Inv, NEW t \in Thread, M(t) \in Matter, Calm(t), SoundAfter(M(t)), LockStays(t),
           Holding(t), NEW ok \in BOOLEAN, Leave(t, ok),
           call[t].kind = "drop" /\ ok => head'[M(t)] = Nil /\ DOMAIN snaps'[M(t)] = {}
    PROVE  Keeps(t)
<1> DEFINE c == [call[t] EXCEPT !.at = "release", !.ok = ok]
<1>1. call[t] \in Calls /\ Secure(t)
  BY DEF Types, CallTypes, Inv, Owns
<1>2. /\ c.kind = call[t].kind /\ c.m = call[t].m /\ c.at = "release" /\ c.ok = ok
  BY <1>1 DEF Calls
<1>3. call' = [call EXCEPT ![t] = c] /\ closed' = closed
  BY DEF Leave
<1>4. call'[t] = c
  BY <1>3 DEF Types, CallTypes
<1> HIDE DEF c
<1>5. Secure(t)'
  BY <1>1, <1>2, <1>4 DEF Secure, M, LockStays, Before
<1> QED
  BY <1>2, <1>3, <1>5, GoKeeps

LEMMA RaiseKeeps ==
    ASSUME Types, Inv, NEW t \in Thread, Calm(t), SoundAfter(M(t)),
           call[t].at \in Steps, call[t].at # "turn", Holding(t) => LockStays(t), Raise(t)
    PROVE  Keeps(t)
<1> DEFINE swallowed == call[t].at \in {"list", "sweep"} /\ call[t].kind \in {"add", "create"}
<1>1. M(t) \in Matter
  BY OwnerMatter
<1>2. CASE call[t].kind \in Writers \cup {"drop"} /\ call[t].at # "claim"
  <2>1. Holding(t)
    BY <1>2 DEF Holding
  <2>2. Leave(t, swallowed)
    BY <1>2 DEF Raise
  <2> QED
    BY <1>1, <2>1, <2>2, LeaveKeeps
<1>3. CASE ~(call[t].kind \in Writers \cup {"drop"} /\ call[t].at # "claim")
  <2>1. Finish(t, swallowed)
    BY <1>3 DEF Raise
  <2> QED
    BY <1>1, <2>1, IdleKeeps
<1> QED
  BY <1>2, <1>3

\* A step that changes nothing in the object store and ends in an error.
LEMMA RaiseSameKeeps ==
    ASSUME Types, Inv, NEW t \in Thread, UNCHANGED remote, used'.born = used.born,
           call[t].at \in Steps, call[t].at # "turn", Raise(t)
    PROVE  Keeps(t)
BY CalmSame, RaiseKeeps, OwnerMatter

\* One that goes on.
LEMMA GoSameKeeps ==
    ASSUME Types, Inv, NEW t \in Thread, UNCHANGED remote, used'.born = used.born,
           call[t].at \in Steps, NEW step, Go(t, step), closed' = closed, Owns(t)' => Secure(t)'
    PROVE  Keeps(t)
BY CalmSame, GoAtKeeps, OwnerMatter DEF Go

LEMMA GoneTo ==
    ASSUME Types, NEW t \in Thread, NEW step, call' = [call EXCEPT ![t].at = step]
    PROVE  /\ call'[t] = [call[t] EXCEPT !.at = step] /\ call[t] \in Calls
           /\ M(t)' = M(t)
<1>1. call'[t] = [call[t] EXCEPT !.at = step] /\ call[t] \in Calls
  BY DEF Types, CallTypes
<1> QED
  BY <1>1 DEF M, Calls
-----------------------------------------------------------------------------
LEMMA LockKeeps ==
    ASSUME Types, Inv, NEW t \in Thread, NEW seen \in BOOLEAN,
           TakeTurn(t) \/ ClaimLock(t, seen) \/ GiveUp(t) \/ StillMine(t) \/ Release(t) \/ Unlock(t)
    PROVE  Keeps(t)
<1> USE DEF At
<1>1. CASE TakeTurn(t)
  <2>1. call'[t] = [call[t] EXCEPT !.at = "claim"] /\ call[t] \in Calls /\ call[t].at \in Steps
    BY <1>1, GoneTo DEF TakeTurn, Go, Steps
  <2>2. Working(call[t])
    BY <2>1, AtWork
  <2>3. ~(Owns(t)')
    BY <1>1, <2>1, <2>2 DEF Owns, Holding, Calls, Working, TakeTurn, Lockers, Writers
  <2> QED
    BY <1>1, <2>1, <2>3, GoSameKeeps DEF TakeTurn
<1>2. CASE ClaimLock(t, seen)
  <2>1. M(t) \in Matter /\ Working(call[t]) /\ call[t] \in Calls /\ call[t].at = "claim"
    BY <1>2, OwnerMatter DEF ClaimLock, Steps
  <2>2. call[t].kind \in Lockers /\ ~Holding(t)
    BY <2>1 DEF Working, Holding
  <2>3. lock' = [lock EXCEPT ![M(t)] = t] /\ lapsed' = lapsed \ {M(t)} /\ UNCHANGED <<head, snaps>>
    BY <1>2 DEF ClaimLock
  <2>4. used'.born = used.born
    BY <1>2 DEF ClaimLock, Answered, Types, Bounds
  <2>5. Calm(t)
    <3>1. ASSUME NEW m \in Matter \ {M(t)}
          PROVE  Quiet(m)
      BY <2>3 DEF Quiet, Types, StoreTypes
    <3>2. ASSUME NEW u \in Thread \ {t}, Owns(u), M(u) = M(t)
          PROVE  FALSE
      <4>1. call[u].kind # "create"
        BY <2>1, <3>2 DEF Inv, Alone, M
      <4>2. lock[M(t)] = u /\ M(t) \notin lapsed
        BY <3>2, <4>1 DEF Inv, Owns, Secure
      <4> QED
        BY <1>2, <4>2, MatterConstants DEF ClaimLock
    <3> QED
      BY <2>4, <3>1, <3>2 DEF Calm
  <2>6. SoundAfter(M(t))
    BY <2>1, <2>3 DEF SoundAfter, Inv, Sound
  <2>7. CASE seen
    <3>1. call' = [call EXCEPT ![t].at = "pointer"] /\ closed' = closed
      BY <1>2, <2>7 DEF ClaimLock, Answered, Stays
    <3>2. call'[t] = [call[t] EXCEPT !.at = "pointer"] /\ M(t)' = M(t)
      BY <3>1, GoneTo
    <3>3. Secure(t)'
      BY <2>1, <2>2, <2>3, <3>2 DEF Secure, Before, Calls, Types, StoreTypes
    <3> QED
      BY <2>1, <2>5, <2>6, <3>1, <3>3, GoAtKeeps
  <2>8. CASE ~seen
    BY <1>2, <2>1, <2>2, <2>5, <2>6, <2>8, RaiseKeeps DEF ClaimLock, Answered, Steps
  <2> QED
    BY <2>7, <2>8
<1>3. CASE GiveUp(t)
  <2>1. M(t) \in Matter
    BY <1>3, OwnerMatter DEF GiveUp, Steps
  <2> QED
    BY <1>3, <2>1, CalmSame, IdleKeeps DEF GiveUp
<1>4. CASE StillMine(t)
  <2>1. M(t) \in Matter /\ Working(call[t]) /\ call[t] \in Calls /\ call[t].at = "mine"
    BY <1>4, OwnerMatter DEF StillMine, Steps
  <2>2. CASE Mine(t)
    <3>1. Go(t, "upload") /\ closed' = closed
      BY <1>4, <2>2 DEF StillMine, Stays
    <3>2. call'[t] = [call[t] EXCEPT !.at = "upload"] /\ M(t)' = M(t)
      BY <3>1, GoneTo DEF Go
    <3>3. Holding(t) /\ Secure(t)
      BY <2>1 DEF Working, Holding, Inv, Owns
    <3>4. Secure(t)'
      BY <1>4, <2>1, <3>2, <3>3 DEF Secure, Before, Calls, StillMine, remote, Working, Lockers
    <3> QED
      BY <1>4, <2>1, <3>1, <3>4, GoSameKeeps DEF StillMine, Steps
  <2>3. CASE ~Mine(t)
    BY <1>4, <2>1, <2>3, RaiseSameKeeps DEF StillMine, Steps
  <2> QED
    BY <2>2, <2>3
<1>5. CASE Release(t)
  <2>1. M(t) \in Matter /\ Working(call[t]) /\ call[t] \in Calls /\ call[t].at = "release"
    BY <1>5, OwnerMatter DEF Release, Steps
  <2>2. Holding(t) /\ Secure(t)
    BY <2>1 DEF Working, Holding, Inv, Owns, Lockers
  <2>3. Go(t, "unlock") /\ closed' = closed
    BY <1>5, <2>2 DEF Release, Stays, Secure
  <2>4. call'[t] = [call[t] EXCEPT !.at = "unlock"] /\ M(t)' = M(t)
    BY <2>3, GoneTo DEF Go
  <2>5. Secure(t)'
    BY <1>5, <2>1, <2>2, <2>4 DEF Secure, Before, Calls, Release, remote
  <2> QED
    BY <1>5, <2>1, <2>3, <2>5, GoSameKeeps DEF Release, Steps
<1>6. CASE Unlock(t)
  <2>1. M(t) \in Matter /\ Working(call[t]) /\ call[t] \in Calls /\ call[t].at = "unlock"
    BY <1>6, OwnerMatter DEF Unlock, Steps
  <2>2. Holding(t) /\ Secure(t) /\ Owns(t)
    BY <2>1 DEF Working, Holding, Inv, Owns, Lockers
  <2>3. Calm(t)
    <3>1. ASSUME NEW m \in Matter \ {M(t)}
          PROVE  Quiet(m)
      BY <1>6 DEF Unlock, Quiet, Types, StoreTypes
    <3> QED
      BY <1>6, <2>2, <3>1, OneOwner DEF Calm, Unlock
  <2>4. SoundAfter(M(t))
    BY <1>6, <2>1 DEF SoundAfter, Inv, Sound, Unlock
  <2>5. call[t].kind = "drop" /\ call[t].ok => head'[M(t)] = Nil /\ DOMAIN snaps'[M(t)] = {}
    BY <1>6, <2>1, <2>2 DEF Secure, Unlock
  <2>6. call[t].ok \in BOOLEAN /\ Finish(t, call[t].ok)
    BY <1>6, <2>1 DEF Unlock, Calls
  <2> QED
    BY <2>1, <2>3, <2>4, <2>5, <2>6, IdleKeeps
<1> QED
  BY <1>1, <1>2, <1>3, <1>4, <1>5, <1>6

LEMMA TryAgainKeeps ==
    ASSUME Types, Inv, NEW t \in Thread, UNCHANGED remote, used'.born = used.born,
           call[t].at = "fetch", TryAgain(t)
    PROVE  Keeps(t)
<1> DEFINE c == [call[t] EXCEPT !.tries = @ + 1, !.at = "pointer"]
<1>1. M(t) \in Matter /\ Working(call[t]) /\ call[t] \in Calls /\ call[t].at \in Steps
  BY OwnerMatter DEF Steps
<1>2. CASE call[t].tries + 1 < MaxTries
  <2>1. call' = [call EXCEPT ![t] = c] /\ closed' = closed
    BY <1>2 DEF TryAgain, Stays
  <2>2. c.kind = call[t].kind /\ c.m = call[t].m /\ c.at = "pointer"
    BY <1>1 DEF Calls
  <2>3. call'[t] = c
    BY <2>1 DEF Types, CallTypes
  <2> HIDE DEF c
  <2>4. ASSUME Owns(t)'
        PROVE  Secure(t)'
    <3>1. Owns(t) /\ Secure(t)
      BY <1>1, <2>2, <2>3, <2>4 DEF Owns, Holding, Inv
    <3> QED
      BY <2>2, <2>3, <3>1 DEF Secure, Before, M, remote, Holding
  <2> QED
    BY <1>1, <2>1, <2>2, <2>4, CalmSame, GoKeeps
<1>3. CASE ~(call[t].tries + 1 < MaxTries)
  BY <1>1, <1>3, RaiseSameKeeps DEF TryAgain
<1> QED
  BY <1>2, <1>3

\* A step of `_current` that leaves the store as it is and goes on with call c.
LEMMA CurrentKeeps ==
    ASSUME Types, Inv, NEW t \in Thread, NEW c, UNCHANGED <<remote, used>>, closed' = closed,
           call[t].at \in {"fetch", "unpack", "stamp"},
           call' = [call EXCEPT ![t] = c], c.kind = call[t].kind, c.m = call[t].m,
           c.prev = call[t].prev, c.at \in {"unpack", "stamp", "work", "answer"}
    PROVE  Keeps(t)
<1>1. M(t) \in Matter /\ call[t].at \in Steps
  BY OwnerMatter DEF Steps
<1>2. call'[t] = c
  BY DEF Types, CallTypes
<1>3. ASSUME Owns(t)'
      PROVE  Secure(t)'
  <2>1. Owns(t) /\ Secure(t)
    BY <1>2, <1>3 DEF Owns, Holding, Inv
  <2> QED
    BY <1>2, <2>1 DEF Secure, Before, M, remote, Holding
<1> QED
  BY <1>1, <1>2, <1>3, CalmSame, GoKeeps

LEMMA ReadKeeps ==
    ASSUME Types, Inv, NEW t \in Thread,
           ReadPointer(t) \/ Fetch(t) \/ Unpack(t) \/ Stamp(t) \/ Answer(t)
    PROVE  Keeps(t)
<1> USE DEF At
<1>1. CASE ReadPointer(t)
  <2> DEFINE h == head[M(t)]
             step == IF LocalSeq(t) = h.seq THEN Ready(t) ELSE "fetch"
             c == [call[t] EXCEPT !.prev = h, !.at = step]
  <2>1. M(t) \in Matter /\ Working(call[t]) /\ call[t] \in Calls /\ call[t].at = "pointer"
    BY <1>1, OwnerMatter DEF ReadPointer, Steps
  <2>2. Calm(t) /\ SoundAfter(M(t)) /\ LockStays(t)
    BY <1>1, <2>1, CalmSame DEF ReadPointer
  <2>3. CASE h = Nil /\ call[t].kind = "read"
    <3>1. Finish(t, FALSE)
      BY <1>1, <2>3 DEF ReadPointer
    <3> QED
      BY <2>1, <2>2, <3>1, IdleKeeps
  <2>4. CASE h = Nil /\ call[t].kind # "read"
    <3>1. Leave(t, FALSE) /\ Holding(t)
      BY <1>1, <2>1, <2>4 DEF ReadPointer, Holding, Working, Lockers
    <3> QED
      BY <2>1, <2>2, <3>1, LeaveKeeps
  <2>5. CASE h # Nil
    <3>1. call' = [call EXCEPT ![t] = c] /\ closed' = closed
      BY <1>1, <2>5 DEF ReadPointer, Stays
    <3>2. step \in {"answer", "work", "fetch"}
      BY DEF Ready
    <3> HIDE DEF step
    <3>3. c.kind = call[t].kind /\ c.m = call[t].m /\ c.prev = h /\ c.at = step
      BY <2>1 DEF Calls
    <3>4. call'[t] = c
      BY <3>1 DEF Types, CallTypes
    <3> HIDE DEF c
    <3>5. ASSUME Owns(t)'
          PROVE  Secure(t)'
      <4>1. Owns(t) /\ Secure(t)
        BY <2>1, <3>2, <3>3, <3>4, <3>5 DEF Owns, Holding, Inv
      <4> QED
        BY <1>1, <3>2, <3>3, <3>4, <4>1 DEF Secure, Before, M, remote, Holding, ReadPointer
    <3> QED
      BY <2>1, <2>2, <3>1, <3>3, <3>5, GoKeeps
  <2> QED
    BY <2>3, <2>4, <2>5
<1>2. CASE Fetch(t)
  <2>1. M(t) \in Matter /\ call[t] \in Calls /\ call[t].at = "fetch"
    BY <1>2, OwnerMatter DEF Fetch, Steps
  <2>2. CASE call[t].prev.name \in DOMAIN snaps[M(t)]
    <3> DEFINE docs == snaps[M(t)][call[t].prev.name]
               c == [call[t] EXCEPT !.copy = docs, !.at = "unpack"]
    <3> HIDE DEF docs
    <3>1. c.kind = call[t].kind /\ c.m = call[t].m /\ c.prev = call[t].prev /\ c.at = "unpack"
      BY <2>1 DEF Calls
    <3>2. call' = [call EXCEPT ![t] = c] /\ closed' = closed
      BY <1>2, <2>2 DEF Fetch, Stays, docs
    <3> HIDE DEF c
    <3> QED
      BY <1>2, <2>1, <3>1, <3>2, CurrentKeeps DEF Fetch
  <2>3. CASE call[t].prev.name \notin DOMAIN snaps[M(t)]
    BY <1>2, <2>1, <2>3, TryAgainKeeps DEF Fetch
  <2> QED
    BY <2>2, <2>3
<1>3. CASE Unpack(t)
  <2> DEFINE c == [call[t] EXCEPT !.copy = {}, !.at = "stamp"]
  <2>1. M(t) \in Matter /\ call[t] \in Calls /\ call[t].at = "unpack"
    BY <1>3, OwnerMatter DEF Unpack, Steps
  <2>2. c.kind = call[t].kind /\ c.m = call[t].m /\ c.prev = call[t].prev /\ c.at = "stamp"
    BY <2>1 DEF Calls
  <2>3. call' = [call EXCEPT ![t] = c] /\ closed' = closed
    BY <1>3 DEF Unpack
  <2> HIDE DEF c
  <2> QED
    BY <1>3, <2>1, <2>2, <2>3, CurrentKeeps DEF Unpack
<1>4. CASE Stamp(t)
  <2>1. M(t) \in Matter /\ call[t] \in Calls /\ call[t].at = "stamp"
    BY <1>4, OwnerMatter DEF Stamp, Steps
  <2>2. CASE Local(t) = Nil
    BY <1>4, <2>1, <2>2, RaiseSameKeeps DEF Stamp, Steps
  <2>3. CASE Local(t) # Nil
    <3> DEFINE c == [call[t] EXCEPT !.tries = 0, !.at = Ready(t)]
    <3>1. c.kind = call[t].kind /\ c.m = call[t].m /\ c.prev = call[t].prev /\ c.at \in {"work", "answer"}
      BY <2>1 DEF Calls, Ready
    <3>2. call' = [call EXCEPT ![t] = c] /\ closed' = closed
      BY <1>4, <2>3 DEF Stamp, Stays
    <3> HIDE DEF c
    <3> QED
      BY <1>4, <2>1, <3>1, <3>2, CurrentKeeps DEF Stamp
  <2> QED
    BY <2>2, <2>3
<1>5. CASE Answer(t)
  <2>1. M(t) \in Matter /\ Working(call[t]) /\ call[t].at = "answer" /\ (Local(t) # Nil) \in BOOLEAN
    BY <1>5, OwnerMatter DEF Answer, Steps
  <2>2. call[t].kind # "drop"
    BY <2>1 DEF Working
  <2>3. Calm(t) /\ SoundAfter(M(t))
    BY <1>5, <2>1, CalmSame DEF Answer
  <2>4. Finish(t, Local(t) # Nil)
    BY <1>5 DEF Answer
  <2> QED
    BY <2>1, <2>2, <2>3, <2>4, IdleKeeps
<1> QED
  BY <1>1, <1>2, <1>3, <1>4, <1>5

\* A step of a call that changes only where it is, under the conditions it had.
LEMMA GoSecure ==
    ASSUME Types, Inv, NEW t \in Thread, UNCHANGED remote,
           NEW from, NEW to, call[t].at = from, from \in Steps, from \notin {"turn", "claim"},
           call' = [call EXCEPT ![t].at = to], Owns(t)',
           \/ from = "work" /\ to \in {"mine", "erase"}
           \/ from = "record" /\ to = "list"
           \/ from = "count" /\ to = "upload"
    PROVE  Secure(t)'
<1>1. Working(call[t]) /\ call[t] \in Calls
  BY OwnerMatter
<1>2. call'[t] = [call[t] EXCEPT !.at = to] /\ M(t)' = M(t)
  BY GoneTo
<1>3. /\ call'[t].kind = call[t].kind /\ call'[t].at = to /\ call'[t].prev = call[t].prev
      /\ call'[t].new = call[t].new /\ call'[t].todo = call[t].todo
  BY <1>1, <1>2 DEF Calls
<1>4. Owns(t) /\ Secure(t)
  BY <1>1, <1>3 DEF Owns, Holding, Inv
<1>5. Holding(t)' <=> Holding(t)
  BY <1>3 DEF Holding
<1>6. CASE from = "work" /\ to \in {"mine", "erase"}
  BY <1>2, <1>3, <1>4, <1>5, <1>6 DEF Secure, Before, remote
<1>7. CASE from = "record" /\ to = "list"
  <2>1. call[t].kind # "drop"
    BY <1>1, <1>7 DEF Working, Writers
  <2> QED
    BY <1>2, <1>3, <1>4, <1>5, <1>7, <2>1 DEF Secure, Before, remote
<1>8. CASE from = "count" /\ to = "upload"
  <2>1. call[t].kind = "create"
    BY <1>1, <1>8 DEF Working
  <2> QED
    BY <1>2, <1>3, <1>4, <1>5, <1>8, <2>1 DEF Secure, Before, remote, Lockers, Writers
<1> QED
  BY <1>6, <1>7, <1>8

LEMMA ChangeKeeps ==
    ASSUME Types, Inv, NEW t \in Thread, Ingest(t) \/ Scrub(t) \/ NoSuchDocument(t) \/ Record(t)
    PROVE  Keeps(t)
<1> USE DEF At
<1>1. CASE Ingest(t) \/ Scrub(t)
  <2>1. call[t].at = "work" /\ UNCHANGED <<remote, used>>
    BY <1>1 DEF Ingest, Scrub
  <2>2. CASE Raise(t)
    BY <2>1, <2>2, RaiseSameKeeps DEF Steps
  <2>3. CASE Go(t, "mine") /\ Stays
    <3>1. Owns(t)' => Secure(t)'
      BY <2>1, <2>3, GoSecure DEF Go, Steps
    <3> QED
      BY <2>1, <2>3, <3>1, GoSameKeeps DEF Stays, Steps
  <2> QED
    BY <1>1, <2>2, <2>3 DEF Ingest, Scrub
<1>2. CASE NoSuchDocument(t)
  <2> DEFINE old == Snapshots(M(t), {call[t].prev.name})
  <2>1. M(t) \in Matter /\ Working(call[t]) /\ call[t] \in Calls /\ call[t].at = "work" /\ call[t].kind = "remove"
    BY <1>2, OwnerMatter DEF NoSuchDocument, Steps
  <2>2. CASE Local(t) = Nil \/ old = {}
    BY <1>2, <2>1, <2>2, RaiseSameKeeps DEF NoSuchDocument, Steps
  <2>3. CASE ~(Local(t) = Nil \/ old = {})
    <3> DEFINE c == [call[t] EXCEPT !.todo = old, !.at = "resweep"]
    <3>1. \A o \in old : o[1] = M(t) /\ o[2] > 0 /\ o[2] # call[t].prev.name
      <4>1. DOMAIN snaps[M(t)] \subseteq 1..used.names /\ used.names \in Nat
        BY <2>1 DEF Types, StoreTypes, Bounds
      <4> QED
        BY <4>1 DEF Snapshots
    <3>2. call' = [call EXCEPT ![t].todo = old, ![t].at = "resweep"] /\ closed' = closed /\ UNCHANGED <<remote, used>>
      BY <1>2, <2>3 DEF NoSuchDocument, Stays
    <3> HIDE DEF old
    <3>3. /\ c.kind = call[t].kind /\ c.m = call[t].m /\ c.prev = call[t].prev
          /\ c.at = "resweep" /\ c.todo = old
      BY <2>1 DEF Calls
    <3>4. call'[t] = c
      BY <3>2 DEF Types, CallTypes
    <3> HIDE DEF c
    <3>5. Owns(t) /\ Secure(t)
      BY <2>1 DEF Owns, Holding, Inv, Writers
    <3>6. /\ M(t)' = M(t) /\ call'[t].kind = "remove" /\ call'[t].at = "resweep"
          /\ call'[t].prev = call[t].prev /\ call'[t].todo = old
      BY <2>1, <3>3, <3>4 DEF M
    <3>7. head[M(t)] = call[t].prev /\ lock[M(t)] = t /\ M(t) \notin lapsed
      BY <2>1, <3>5 DEF Secure, Before, Holding, Lockers, Writers
    <3>8. Secure(t)'
      BY <3>1, <3>2, <3>6, <3>7 DEF Secure, remote
    <3> QED
      BY <2>1, <3>2, <3>8, CalmSame, GoOnKeeps
  <2> QED
    BY <2>2, <2>3
<1>3. CASE Record(t)
  <2>1. call[t].at = "record" /\ UNCHANGED <<remote, used>>
    BY <1>3 DEF Record
  <2>2. CASE Raise(t)
    BY <2>1, <2>2, RaiseSameKeeps DEF Steps
  <2>3. CASE Go(t, "list") /\ Stays
    <3>1. Owns(t)' => Secure(t)'
      BY <2>1, <2>3, GoSecure DEF Go, Steps
    <3> QED
      BY <2>1, <2>3, <3>1, GoSameKeeps DEF Stays, Steps
  <2> QED
    BY <1>3, <2>2, <2>3 DEF Record
<1> QED
  BY <1>1, <1>2, <1>3

\* A matter that a writer or a creator works on is not closed.
LEMMA OpenMatter ==
    ASSUME Types, Inv, NEW t \in Thread, call[t].at \in {"upload", "publish"}
    PROVE  /\ M(t) \in Matter /\ Working(call[t]) /\ call[t] \in Calls
           /\ Owns(t) /\ Secure(t) /\ M(t) \notin closed
<1>1. M(t) \in Matter /\ Working(call[t]) /\ call[t] \in Calls
  BY OwnerMatter DEF Steps
<1>2. call[t].kind \in Writers \cup {"create"}
  BY <1>1 DEF Working
<1>3. Owns(t) /\ Secure(t)
  BY <1>2 DEF Owns, Holding, Inv
<1>4. CASE call[t].kind = "create"
  BY <1>1, <1>3, <1>4 DEF Inv, Born, M
<1>5. CASE call[t].kind \in Writers
  <2>1. head[M(t)] = call[t].prev /\ call[t].prev # Nil
    BY <1>1, <1>3, <1>5 DEF Secure, Before, Working, Lockers, Unread
  <2> QED
    BY <1>1, <1>3, <2>1 DEF Inv, Sound
<1> QED
  BY <1>1, <1>2, <1>3, <1>4, <1>5

\* A step of an owner that leaves LOCK and other matters alone.
LEMMA OwnCalm ==
    ASSUME Types, Inv, NEW t \in Thread, Owns(t), UNCHANGED <<lock, lapsed>>, used'.born = used.born,
           \A m \in Matter \ {M(t)} : head'[m] = head[m] /\ snaps'[m] = snaps[m]
    PROVE  Calm(t) /\ LockStays(t)
<1>1. \A u \in Thread \ {t} : ~(Owns(u) /\ M(u) = M(t))
  BY OneOwner
<1> QED
  BY <1>1 DEF Calm, Quiet, LockStays

LEMMA UploadKeeps ==
    ASSUME Types, Inv, NEW t \in Thread, NEW seen \in BOOLEAN, Upload(t, seen)
    PROVE  Keeps(t)
<1> DEFINE n == used.names + 1
<1>1. call[t].at = "upload"
  BY DEF Upload, At
<1>2. /\ M(t) \in Matter /\ Working(call[t]) /\ call[t] \in Calls
      /\ Owns(t) /\ Secure(t) /\ M(t) \notin closed
  BY <1>1, OpenMatter
<1>3. CASE Local(t) = Nil
  BY <1>1, <1>3, RaiseSameKeeps DEF Upload, Steps, remote
<1>4. CASE Local(t) # Nil
  <2>1. n \in Nat
    BY DEF Types, Bounds
  <2>2. /\ snaps' = [snaps EXCEPT ![M(t)] = Plus(snaps[M(t)], n, Local(t).docs)]
        /\ UNCHANGED <<head, lock, lapsed>>
    BY <1>4 DEF Upload
  <2>3. DOMAIN Plus(snaps[M(t)], n, Local(t).docs) = DOMAIN snaps[M(t)] \cup {n}
    BY <1>2, <1>4, <2>1, LocalType, PlusSnap DEF Types, StoreTypes, Copy
  <2>4. snaps' \in [Matter -> {snaps'[m] : m \in Matter}] /\ DOMAIN snaps'[M(t)] = DOMAIN snaps[M(t)] \cup {n}
    BY <1>2, <2>2, <2>3 DEF Types, StoreTypes
  <2>5. used'.born = used.born
    BY <1>4 DEF Upload, Types, Bounds
  <2>6. Calm(t) /\ LockStays(t)
    BY <1>2, <2>2, <2>5, OwnCalm DEF Types, StoreTypes
  <2>7. SoundAfter(M(t))
    BY <1>2, <2>2, <2>4 DEF SoundAfter, Inv, Sound
  <2>8. CASE seen
    <3> DEFINE c == [call[t] EXCEPT !.new = n, !.at = "publish"]
    <3> HIDE DEF n
    <3>1. /\ c.kind = call[t].kind /\ c.m = call[t].m /\ c.prev = call[t].prev
          /\ c.at = "publish" /\ c.new = n
      BY <1>2 DEF Calls
    <3>2. call' = [call EXCEPT ![t] = c] /\ closed' = closed
      BY <1>4, <2>8 DEF Upload, n, Stays
    <3>3. call'[t] = c
      BY <3>2 DEF Types, CallTypes
    <3> HIDE DEF c
    <3>4. Secure(t)'
      BY <1>1, <1>2, <2>2, <2>4, <3>1, <3>3 DEF Secure, Before, M, Holding
    <3> QED
      BY <1>2, <2>6, <2>7, <3>1, <3>2, <3>4, GoKeeps
  <2>9. CASE ~seen
    BY <1>1, <1>4, <2>6, <2>7, <2>9, RaiseKeeps DEF Upload, Steps
  <2> QED
    BY <2>8, <2>9
<1> QED
  BY <1>3, <1>4

LEMMA PublishKeeps ==
    ASSUME Types, Inv, NEW t \in Thread, NEW seen \in BOOLEAN, Publish(t, seen)
    PROVE  Keeps(t)
<1>1. call[t].at = "publish"
  BY DEF Publish, At
<1>2. /\ M(t) \in Matter /\ Working(call[t]) /\ call[t] \in Calls
      /\ Owns(t) /\ Secure(t) /\ M(t) \notin closed
  BY <1>1, OpenMatter
<1>3. CASE head[M(t)] # call[t].prev
  BY <1>1, <1>3, RaiseSameKeeps DEF Publish, Steps, remote
<1>4. CASE head[M(t)] = call[t].prev
  <2>1. /\ head' = [head EXCEPT ![M(t)] = [seq |-> NextSeq(t), name |-> call[t].new]]
        /\ UNCHANGED <<snaps, lock, lapsed>> /\ Answered(t, seen, [call EXCEPT ![t].at = "record"])
    BY <1>4 DEF Publish
  <2>2. head'[M(t)].name = call[t].new
    BY <1>2, <2>1 DEF Types, StoreTypes
  <2>3. used'.born = used.born
    BY <2>1 DEF Answered, Types, Bounds
  <2>4. Calm(t) /\ LockStays(t)
    BY <1>2, <2>1, <2>3, OwnCalm DEF Types, StoreTypes
  <2>5. SoundAfter(M(t))
    BY <1>1, <1>2, <2>1, <2>2 DEF SoundAfter, Secure
  <2>6. CASE seen
    <3>1. call' = [call EXCEPT ![t].at = "record"] /\ closed' = closed
      BY <2>1, <2>6 DEF Answered, Stays
    <3>2. call'[t] = [call[t] EXCEPT !.at = "record"] /\ M(t)' = M(t)
      BY <3>1, GoneTo
    <3>3. Secure(t)'
      BY <1>1, <1>2, <2>1, <2>2, <3>2 DEF Secure, Before, Holding, Calls
    <3> QED
      BY <1>2, <2>4, <2>5, <3>1, <3>3, GoAtKeeps
  <2>7. CASE ~seen
    BY <1>1, <2>1, <2>4, <2>5, <2>7, RaiseKeeps DEF Answered, Steps
  <2> QED
    BY <2>6, <2>7
<1> QED
  BY <1>3, <1>4

LEMMA EraseKeeps ==
    ASSUME Types, Inv, NEW t \in Thread, NEW seen \in BOOLEAN, Erase(t, seen)
    PROVE  Keeps(t)
<1>1. M(t) \in Matter /\ Working(call[t]) /\ call[t] \in Calls /\ call[t].at = "erase"
  BY OwnerMatter DEF Erase, At, Steps
<1>2. call[t].kind = "drop" /\ Owns(t) /\ Secure(t)
  BY <1>1 DEF Working, Owns, Holding, Inv
<1>3. /\ head' = [head EXCEPT ![M(t)] = Nil] /\ UNCHANGED <<snaps, lock, lapsed>>
      /\ Answered(t, seen, [call EXCEPT ![t].at = "list"])
  BY DEF Erase
<1>4. used'.born = used.born
  BY <1>3 DEF Answered, Types, Bounds
<1>5. Calm(t) /\ LockStays(t)
  BY <1>2, <1>3, <1>4, OwnCalm DEF Types, StoreTypes
<1>6. head'[M(t)] = Nil
  BY <1>1, <1>3 DEF Types, StoreTypes
<1>7. SoundAfter(M(t))
  BY <1>1, <1>3, <1>6 DEF SoundAfter, Inv, Sound
<1>8. CASE seen
  <2>1. call' = [call EXCEPT ![t].at = "list"] /\ closed' = closed
    BY <1>3, <1>8 DEF Answered, Stays
  <2>2. call'[t] = [call[t] EXCEPT !.at = "list"] /\ M(t)' = M(t)
    BY <2>1, GoneTo
  <2>3. Secure(t)'
    BY <1>1, <1>2, <1>3, <1>6, <2>2 DEF Secure, Before, Holding, Calls
  <2> QED
    BY <1>1, <1>5, <1>7, <2>1, <2>3, GoAtKeeps
<1>9. CASE ~seen
  BY <1>1, <1>3, <1>5, <1>7, <1>9, RaiseKeeps DEF Answered, Steps
<1> QED
  BY <1>8, <1>9
-----------------------------------------------------------------------------
(* The sweeps.                                                             *)

\* What the deletion of a snapshot, or of HEAD, does to the store.
LEMMA RemoveEffect ==
    ASSUME Types, NEW m \in Matter, NEW n \in Int, n >= 0, Remove(m, n)
    PROVE  /\ UNCHANGED <<lock, lapsed>>
           /\ \A x \in Matter \ {m} : head'[x] = head[x] /\ snaps'[x] = snaps[x]
           /\ n > 0 => head' = head
           /\ n = 0 => head'[m] = Nil
           /\ DOMAIN snaps'[m] = DOMAIN snaps[m] \ {n}
<1>1. n # LockName /\ (n = HeadName <=> n = 0)
  BY DEF LockName, HeadName
<1>2. DOMAIN Minus(snaps[m], n) = DOMAIN snaps[m] \ {n}
  BY MinusSnap DEF Types, StoreTypes
<1>3. CASE n > 0
  BY <1>1, <1>2, <1>3 DEF Remove, Types, StoreTypes
<1>4. CASE n = 0
  <2>1. n \notin DOMAIN snaps[m]
    BY <1>4 DEF Types, StoreTypes
  <2> QED
    BY <1>1, <1>4, <2>1 DEF Remove, Types, StoreTypes
<1> QED
  BY <1>3, <1>4

\* One deletion of a sweep by the owner: what is left to do stays as the call listed it.
LEMMA SweepNextKeeps ==
    ASSUME Types, Inv, NEW t \in Thread, NEW o \in call[t].todo, NEW seen \in BOOLEAN,
           NEW more, NEW last, SweepNext(t, o, seen, more, last),
           call[t].at = more, more \in {"sweep", "resweep", "clear"}, Owns(t),
           o[1] = M(t), o[2] \in Int, o[2] >= 0, SoundAfter(M(t)),
           ASSUME call' = [call EXCEPT ![t].todo = call[t].todo \ {o}, ![t].at = more],
                  call[t].todo # {o}
           PROVE  Secure(t)',
           ASSUME last, call[t].todo = {o}, Calm(t), LockStays(t), UNCHANGED used
           PROVE  Keeps(t)
    PROVE  Keeps(t)
<1>1. M(t) \in Matter /\ call[t].at \in Steps
  BY OwnerMatter DEF Steps
<1>2. Remove(M(t), o[2])
  BY DEF SweepNext
<1>3. used'.born = used.born
  BY DEF SweepNext, Answered, Types, Bounds
<1>4. Calm(t) /\ LockStays(t)
  BY <1>1, <1>2, <1>3, RemoveEffect, OwnCalm
<1>5. CASE Raise(t)
  BY <1>1, <1>4, <1>5, RaiseKeeps
<1>6. CASE call[t].todo # {o} /\ seen
  <2> DEFINE rest == call[t].todo \ {o}
  <2>1. call' = [call EXCEPT ![t].todo = rest, ![t].at = more] /\ closed' = closed
    BY <1>6 DEF SweepNext, Answered, Stays
  <2>2. Secure(t)'
    BY <1>6, <2>1
  <2> HIDE DEF rest
  <2> QED
    BY <1>1, <1>4, <2>1, <2>2, GoOnKeeps
<1>7. CASE call[t].todo = {o} /\ seen
  BY <1>4, <1>7 DEF SweepNext
<1> QED
  BY <1>5, <1>6, <1>7 DEF SweepNext, Answered

LEMMA DoneKeeps ==
    ASSUME Types, Inv, NEW t \in Thread, Calm(t), SoundAfter(M(t)), LockStays(t),
           call[t].at \in {"list", "sweep"}, call[t].kind \in Writers \cup {"create"}, Done(t)
    PROVE  Keeps(t)
<1>1. M(t) \in Matter
  BY OwnerMatter DEF Steps
<1>2. CASE call[t].kind = "create"
  BY <1>1, <1>2, IdleKeeps DEF Done
<1>3. CASE call[t].kind # "create"
  <2>1. Holding(t) /\ call[t].kind # "drop"
    BY <1>3 DEF Holding, Writers
  <2> QED
    BY <1>1, <1>3, <2>1, LeaveKeeps DEF Done
<1> QED
  BY <1>2, <1>3

LEMMA ListOldKeeps ==
    ASSUME Types, Inv, NEW t \in Thread, ListOld(t)
    PROVE  Keeps(t)
<1> DEFINE todo == Snapshots(M(t), Keep(call[t]))
<1>1. /\ M(t) \in Matter /\ call[t] \in Calls /\ call[t].at = "list"
      /\ call[t].kind \in Writers \cup {"create"} /\ call[t].kind # "drop"
  BY OwnerMatter DEF ListOld, At, Steps, Writers
<1>2. Owns(t) /\ Secure(t)
  BY <1>1 DEF Owns, Holding, Inv
<1>3. Calm(t) /\ SoundAfter(M(t)) /\ LockStays(t)
  BY <1>1, CalmSame DEF ListOld
<1>4. CASE todo = {}
  BY <1>1, <1>3, <1>4, DoneKeeps DEF ListOld
<1>5. CASE todo # {}
  <2>1. \A o \in todo : o[1] = M(t) /\ o[2] > 0 /\ o[2] # call[t].new
    <3>1. DOMAIN snaps[M(t)] \subseteq 1..used.names /\ used.names \in Nat
      BY <1>1 DEF Types, StoreTypes, Bounds
    <3> QED
      BY <3>1 DEF Snapshots, Keep
  <2>2. call' = [call EXCEPT ![t].todo = todo, ![t].at = "sweep"] /\ closed' = closed /\ UNCHANGED remote
    BY <1>5 DEF ListOld, Stays
  <2> HIDE DEF todo
  <2>3. call'[t] = [call[t] EXCEPT !.todo = todo, !.at = "sweep"]
    BY <2>2 DEF Types, CallTypes
  <2>4. /\ M(t)' = M(t) /\ call'[t].kind = call[t].kind /\ call'[t].at = "sweep"
        /\ call'[t].new = call[t].new /\ call'[t].todo = todo
    BY <1>1, <2>3 DEF M, Calls
  <2>5. (Holding(t)' => Holding(t)) /\ head[M(t)].name = call[t].new
    BY <1>1, <1>2, <2>4 DEF Holding, Secure
  <2>6. Secure(t)'
    BY <1>1, <1>2, <2>1, <2>2, <2>4, <2>5 DEF Secure, remote, Before
  <2> QED
    BY <1>1, <1>3, <2>2, <2>6, GoOnKeeps
<1> QED
  BY <1>4, <1>5

LEMMA SweepKeeps ==
    ASSUME Types, Inv, NEW t \in Thread, NEW seen \in BOOLEAN, Sweep(t, seen)
    PROVE  Keeps(t)
<1>1. /\ M(t) \in Matter /\ call[t] \in Calls /\ call[t].at = "sweep"
      /\ call[t].kind \in Writers \cup {"create"} /\ call[t].kind # "drop"
  BY OwnerMatter DEF Sweep, At, Steps, Writers
<1>2. Owns(t) /\ Secure(t)
  BY <1>1 DEF Owns, Holding, Inv
<1>3. PICK o \in call[t].todo : SweepNext(t, o, seen, "sweep", Done(t))
  BY DEF Sweep
<1>4. /\ o[1] = M(t) /\ o[2] \in Int /\ o[2] > 0 /\ o[2] >= 0 /\ o[2] # call[t].new
      /\ head[M(t)].name = call[t].new
  <2>1. o \in Matter \X Int
    BY <1>1 DEF Calls
  <2> QED
    BY <1>1, <1>2, <2>1 DEF Secure
<1>5. Remove(M(t), o[2])
  BY <1>3, <1>4 DEF SweepNext
<1>6. head' = head /\ UNCHANGED <<lock, lapsed>> /\ DOMAIN snaps'[M(t)] = DOMAIN snaps[M(t)] \ {o[2]}
  BY <1>1, <1>4, <1>5, RemoveEffect
<1>7. SoundAfter(M(t))
  BY <1>1, <1>4, <1>6 DEF SoundAfter, Inv, Sound
<1>8. ASSUME call' = [call EXCEPT ![t].todo = call[t].todo \ {o}, ![t].at = "sweep"], call[t].todo # {o}
      PROVE  Secure(t)'
  <2> DEFINE rest == call[t].todo \ {o}
  <2>1. call'[t] = [call[t] EXCEPT !.todo = rest, !.at = "sweep"]
    BY <1>8 DEF Types, CallTypes
  <2>2. \A p \in rest : p[1] = M(t) /\ p[2] > 0 /\ p[2] # call[t].new
    BY <1>1, <1>2 DEF Secure
  <2> HIDE DEF rest
  <2>3. /\ M(t)' = M(t) /\ call'[t].kind = call[t].kind /\ call'[t].at = "sweep"
        /\ call'[t].new = call[t].new /\ call'[t].todo = rest
    BY <1>1, <2>1 DEF M, Calls
  <2>4. Holding(t)' => Holding(t)
    BY <1>1, <2>3 DEF Holding
  <2> QED
    BY <1>1, <1>2, <1>4, <1>6, <2>2, <2>3, <2>4 DEF Secure, Before
<1>9. ASSUME Done(t), call[t].todo = {o}, Calm(t), LockStays(t), UNCHANGED used
      PROVE  Keeps(t)
  BY <1>1, <1>7, <1>9, DoneKeeps
<1> QED
  BY <1>1, <1>2, <1>3, <1>4, <1>7, <1>8, <1>9, SweepNextKeeps

LEMMA ResweepKeeps ==
    ASSUME Types, Inv, NEW t \in Thread, NEW seen \in BOOLEAN, Resweep(t, seen)
    PROVE  Keeps(t)
<1> DEFINE last == call' = [call EXCEPT ![t].todo = {}, ![t].at = "mine"] /\ Stays
<1>1. /\ M(t) \in Matter /\ Working(call[t]) /\ call[t] \in Calls /\ call[t].at = "resweep"
      /\ call[t].kind \in Writers /\ call[t].kind # "drop"
  BY OwnerMatter DEF Resweep, At, Steps, Writers, Working
<1>2. Owns(t) /\ Holding(t) /\ Secure(t)
  BY <1>1 DEF Owns, Holding, Inv
<1>3. PICK o \in call[t].todo : SweepNext(t, o, seen, "resweep", last)
  BY DEF Resweep
<1>4. /\ o[1] = M(t) /\ o[2] \in Int /\ o[2] > 0 /\ o[2] >= 0 /\ o[2] # call[t].prev.name
      /\ head[M(t)] = call[t].prev
  <2>1. o \in Matter \X Int
    BY <1>1 DEF Calls
  <2> QED
    BY <1>1, <1>2, <2>1 DEF Secure, Before, Lockers
<1>5. Remove(M(t), o[2])
  BY <1>3, <1>4 DEF SweepNext
<1>6. head' = head /\ UNCHANGED <<lock, lapsed>> /\ DOMAIN snaps'[M(t)] = DOMAIN snaps[M(t)] \ {o[2]}
  BY <1>1, <1>4, <1>5, RemoveEffect
<1>7. SoundAfter(M(t))
  BY <1>1, <1>4, <1>6 DEF SoundAfter, Inv, Sound
<1>8. ASSUME NEW rest \in SUBSET call[t].todo, NEW to \in {"resweep", "mine"},
             call' = [call EXCEPT ![t].todo = rest, ![t].at = to]
      PROVE  Secure(t)'
  <2>1. call'[t] = [call[t] EXCEPT !.todo = rest, !.at = to]
    BY <1>8 DEF Types, CallTypes
  <2>2. \A p \in rest : p[1] = M(t) /\ p[2] > 0 /\ p[2] # call[t].prev.name
    BY <1>1, <1>2 DEF Secure
  <2>3. /\ M(t)' = M(t) /\ call'[t].kind = call[t].kind /\ call'[t].at = to
        /\ call'[t].prev = call[t].prev /\ call'[t].todo = rest
    BY <1>1, <2>1 DEF M, Calls
  <2> QED
    BY <1>1, <1>2, <1>4, <1>6, <2>2, <2>3 DEF Secure
<1>9. ASSUME last, call[t].todo = {o}, Calm(t), LockStays(t), UNCHANGED used
      PROVE  Keeps(t)
  BY <1>1, <1>7, <1>8, <1>9, GoOnKeeps DEF Stays
<1>10. ASSUME call' = [call EXCEPT ![t].todo = call[t].todo \ {o}, ![t].at = "resweep"], call[t].todo # {o}
       PROVE  Secure(t)'
  BY <1>8, <1>10
<1> HIDE DEF last
<1> QED
  BY <1>1, <1>2, <1>3, <1>4, <1>7, <1>9, <1>10, SweepNextKeeps

LEMMA ClearKeeps ==
    ASSUME Types, Inv, NEW t \in Thread, NEW seen \in BOOLEAN, Clear(t, seen)
    PROVE  Keeps(t)
<1> DEFINE last == IF call[t].kind = "drop" THEN Leave(t, TRUE)
                   ELSE call' = [call EXCEPT ![t].todo = {}, ![t].at = "wipe"] /\ Stays
<1>1. /\ M(t) \in Matter /\ call[t] \in Calls /\ call[t].at = "clear" /\ call[t].kind = "drop"
  BY OwnerMatter DEF Clear, At, Steps, Working, Inv, Born
<1>2. Owns(t) /\ Holding(t) /\ Secure(t)
  BY <1>1 DEF Owns, Holding, Inv
<1>3. PICK o \in call[t].todo : SweepNext(t, o, seen, "clear", last)
  BY DEF Clear
<1>4. /\ o[1] = M(t) /\ o[2] \in Int /\ o[2] >= 0 /\ o = <<M(t), o[2]>> /\ head[M(t)] = Nil
      /\ \A n \in DOMAIN snaps[M(t)] : <<M(t), n>> \in call[t].todo
  <2>1. o \in Matter \X Int
    BY <1>1 DEF Calls
  <2> QED
    BY <1>1, <1>2, <2>1 DEF Secure
<1>5. Remove(M(t), o[2])
  BY <1>3, <1>4 DEF SweepNext
<1>6. /\ UNCHANGED <<lock, lapsed>> /\ DOMAIN snaps'[M(t)] = DOMAIN snaps[M(t)] \ {o[2]}
      /\ head'[M(t)] = Nil
  BY <1>1, <1>4, <1>5, RemoveEffect
<1>7. SoundAfter(M(t))
  BY <1>1, <1>6 DEF SoundAfter, Inv, Sound
<1>8. ASSUME call' = [call EXCEPT ![t].todo = call[t].todo \ {o}, ![t].at = "clear"], call[t].todo # {o}
      PROVE  Secure(t)'
  <2> DEFINE rest == call[t].todo \ {o}
  <2>1. call'[t] = [call[t] EXCEPT !.todo = rest, !.at = "clear"]
    BY <1>8 DEF Types, CallTypes
  <2>2. \A p \in rest : p[1] = M(t) /\ p[2] >= 0
    BY <1>1, <1>2 DEF Secure
  <2>3. \A n \in DOMAIN snaps'[M(t)] : <<M(t), n>> \in rest
    BY <1>4, <1>6
  <2> HIDE DEF rest
  <2>4. /\ M(t)' = M(t) /\ call'[t].kind = "drop" /\ call'[t].at = "clear" /\ call'[t].todo = rest
    BY <1>1, <2>1 DEF M, Calls
  <2>5. lock[M(t)] = t /\ M(t) \notin lapsed
    BY <1>2 DEF Secure
  <2> QED
    BY <1>6, <2>2, <2>3, <2>4, <2>5 DEF Secure, Before
<1>9. ASSUME last, call[t].todo = {o}, Calm(t), LockStays(t), UNCHANGED used
      PROVE  Keeps(t)
  <2>1. DOMAIN snaps'[M(t)] = {}
    BY <1>4, <1>6, <1>9
  <2> QED
    BY <1>1, <1>2, <1>6, <1>7, <1>9, <2>1, LeaveKeeps
<1> HIDE DEF last
<1> QED
  BY <1>1, <1>2, <1>3, <1>4, <1>7, <1>8, <1>9, SweepNextKeeps

LEMMA MatterKeeps ==
    ASSUME Types, Inv, NEW t \in Thread, Count(t) \/ DropLocal(t) \/ ListMatter(t) \/ ListTenant(t) \/ Wipe(t)
    PROVE  Keeps(t)
<1> USE DEF At
<1>1. CASE Count(t)
  <2>1. call[t].at = "count" /\ UNCHANGED <<remote, used>>
    BY <1>1 DEF Count
  <2>2. M(t) \in Matter /\ call[t].kind = "create"
    BY <2>1, OwnerMatter DEF Steps, Working
  <2>3. CASE Finish(t, FALSE)
    BY <2>1, <2>2, <2>3, CalmSame, IdleKeeps
  <2>4. CASE Go(t, "upload") /\ Stays
    <3>1. Owns(t)' => Secure(t)'
      BY <2>1, <2>4, GoSecure DEF Go, Steps
    <3> QED
      BY <2>1, <2>4, <3>1, GoSameKeeps DEF Stays, Steps
  <2> QED
    BY <1>1, <2>3, <2>4 DEF Count
<1>2. CASE DropLocal(t)
  <2>1. call[t].at = "work" /\ UNCHANGED <<remote, used>>
    BY <1>2 DEF DropLocal
  <2>2. CASE Raise(t)
    BY <2>1, <2>2, RaiseSameKeeps DEF Steps
  <2>3. CASE Go(t, "erase") /\ Stays
    <3>1. Owns(t)' => Secure(t)'
      BY <2>1, <2>3, GoSecure DEF Go, Steps
    <3> QED
      BY <2>1, <2>3, <3>1, GoSameKeeps DEF Stays, Steps
  <2> QED
    BY <1>2, <2>2, <2>3 DEF DropLocal
<1>3. CASE ListMatter(t)
  <2> DEFINE todo == {<<M(t), n>> : n \in Listed(M(t)) \ {LockName}}
  <2>1. M(t) \in Matter /\ call[t] \in Calls /\ call[t].at = "list" /\ call[t].kind = "drop"
    BY <1>3, OwnerMatter DEF ListMatter, Steps
  <2>2. Owns(t) /\ Holding(t) /\ Secure(t) /\ head[M(t)] = Nil
    BY <2>1 DEF Owns, Holding, Inv, Secure
  <2>3. Calm(t) /\ SoundAfter(M(t)) /\ LockStays(t)
    BY <1>3, <2>1, CalmSame DEF ListMatter
  <2>4. DOMAIN snaps[M(t)] \subseteq 1..used.names /\ used.names \in Nat
    BY <2>1 DEF Types, StoreTypes, Bounds
  <2>5. \A n \in DOMAIN snaps[M(t)] : <<M(t), n>> \in todo
    BY <2>4 DEF Listed, LockName
  <2>6. \A o \in todo : o[1] = M(t) /\ o[2] >= 0
    BY <2>4 DEF Listed, LockName, HeadName
  <2>7. UNCHANGED <<remote, used>>
    BY <1>3 DEF ListMatter
  <2>8. CASE todo = {}
    <3>1. Leave(t, TRUE)
      BY <1>3, <2>8 DEF ListMatter
    <3>2. head'[M(t)] = Nil /\ DOMAIN snaps'[M(t)] = {}
      BY <2>2, <2>5, <2>7, <2>8 DEF remote
    <3> QED
      BY <2>1, <2>2, <2>3, <3>1, <3>2, LeaveKeeps
  <2>9. CASE todo # {}
    <3>1. call' = [call EXCEPT ![t].todo = todo, ![t].at = "clear"] /\ closed' = closed
      BY <1>3, <2>9 DEF ListMatter, Stays
    <3> HIDE DEF todo
    <3>2. call'[t] = [call[t] EXCEPT !.todo = todo, !.at = "clear"]
      BY <3>1 DEF Types, CallTypes
    <3>3. /\ M(t)' = M(t) /\ call'[t].kind = "drop" /\ call'[t].at = "clear" /\ call'[t].todo = todo
      BY <2>1, <3>2 DEF M, Calls
    <3>4. lock[M(t)] = t /\ M(t) \notin lapsed
      BY <2>2 DEF Secure
    <3>5. Secure(t)'
      BY <2>2, <2>5, <2>6, <2>7, <3>3, <3>4 DEF Secure, Before, remote
    <3> QED
      BY <2>1, <2>3, <3>1, <3>5, GoOnKeeps
  <2> QED
    BY <2>8, <2>9
<1>4. CASE ListTenant(t) \/ Wipe(t)
  BY <1>4, OwnerMatter DEF ListTenant, Wipe, Working, Inv, Born, Steps
<1> QED
  BY <1>1, <1>2, <1>3, <1>4

LEMMA RefuseKeeps ==
    ASSUME Types, Inv, NEW t \in Thread, Refuse(t)
    PROVE  Keeps(t)
<1>1. UNCHANGED remote /\ used'.born = used.born
  BY DEF Refuse, Types, Bounds
<1>2. /\ M(t) \in Matter /\ Working(call[t]) /\ call[t] \in Calls /\ call[t].at \in Steps
      /\ call[t].at # "turn"
  BY OwnerMatter DEF Refuse, Asking
<1>3. CASE call[t].at = "fetch"
  BY <1>1, <1>3, TryAgainKeeps DEF Refuse
<1>4. CASE call[t].at \in {"release", "unlock"}
  <2>1. Holding(t) /\ Secure(t) /\ call[t].ok \in BOOLEAN
    BY <1>2, <1>4 DEF Working, Holding, Lockers, Inv, Owns, Calls
  <2>2. call[t].kind = "drop" /\ call[t].ok => head'[M(t)] = Nil /\ DOMAIN snaps'[M(t)] = {}
    BY <1>1, <1>4, <2>1 DEF Secure, remote
  <2>3. Finish(t, call[t].ok)
    BY <1>4 DEF Refuse
  <2> QED
    BY <1>1, <1>2, <2>1, <2>2, <2>3, CalmSame, IdleKeeps
<1>5. CASE call[t].at \notin {"fetch", "release", "unlock"}
  BY <1>1, <1>2, <1>5, RaiseSameKeeps DEF Refuse
<1> QED
  BY <1>3, <1>4, <1>5
-----------------------------------------------------------------------------
(* Calls begin, locks expire, workers die.                                 *)

LEMMA BeginKeeps ==
    ASSUME Orderly, Types, Inv, NEW t \in Thread, NEW c \in Calls, Begin(t, c), Working(c),
           c.kind \in Lockers => c.at = "turn",
           c.kind = "create" => c.at = "count" /\ c.m \notin used.born,
           c.kind \notin {"create", "purge"} => Known(c.m)
    PROVE  Inv'
<1>1. /\ call'[t] = c /\ \A u \in Thread \ {t} : call'[u] = call[u]
      /\ UNCHANGED remote /\ closed' = closed
      /\ used'.born = IF c.kind = "create" THEN used.born \cup {c.m} ELSE used.born
  BY DEF Begin, Types, CallTypes, Bounds
<1>2. c.kind # "purge"
  BY DEF Begin, Orderly, Types
<1>3. c.m \in Matter /\ c.m # Nil /\ c.m \in used'.born
  BY <1>1, <1>2, MatterConstants DEF Working, Known
<1>4. Alone'
  <2> SUFFICES ASSUME NEW x \in Thread, NEW u \in Thread, x # u, call'[x].kind = "create"
               PROVE  call'[u].m # call'[x].m
    BY DEF Alone
  <2>1. CASE x = t
    BY <1>1, <1>3, <2>1 DEF Inv, Born
  <2>2. CASE u = t
    <3>1. call[x].kind = "create" /\ call'[x].m = call[x].m
      BY <1>1, <2>2
    <3>2. CASE c.kind = "create"
      BY <1>1, <1>3, <2>2, <3>1, <3>2 DEF Inv, Born
    <3>3. CASE c.kind # "create"
      BY <1>1, <1>2, <2>2, <3>1, <3>3 DEF Known, Orderly
    <3> QED
      BY <3>2, <3>3
  <2>3. CASE x # t /\ u # t
    BY <1>1, <2>3 DEF Inv, Alone
  <2> QED
    BY <2>1, <2>2, <2>3
<1>5. Born'
  <2>1. closed' \subseteq used'.born
    BY <1>1 DEF Inv, Born
  <2>2. ASSUME NEW u \in Thread
        PROVE  /\ call'[u].m \in used'.born \cup {Nil}
               /\ call'[u].kind # "purge"
               /\ call'[u].kind = "create" => call'[u].m \notin closed'
    <3>1. CASE u = t
      BY <1>1, <1>2, <1>3, <3>1 DEF Inv, Born
    <3>2. CASE u # t
      BY <1>1, <3>2 DEF Inv, Born
    <3> QED
      BY <3>1, <3>2
  <2> QED
    BY <2>1, <2>2 DEF Born
<1>6. ASSUME NEW u \in Thread, Owns(u)'
      PROVE  Secure(u)'
  <2>1. CASE u = t
    <3>1. call'[t].kind = "create" /\ call'[t].at = "count"
      BY <1>1, <1>6, <2>1 DEF Owns, Holding, Lockers
    <3> QED
      BY <2>1, <3>1 DEF Secure, Holding, Lockers, Writers
  <2>2. CASE u # t
    <3>1. call'[u] = call[u]
      BY <1>1, <2>2
    <3>2. Owns(u) /\ Secure(u)
      BY <1>6, <3>1 DEF Owns, Holding, Inv
    <3> QED
      BY <1>1, <3>1, <3>2, SecureStays DEF Quiet, remote
  <2> QED
    BY <2>1, <2>2
<1>7. \A m \in Matter : Sound(m)'
  BY <1>1 DEF Inv, Sound, remote
<1> QED
  BY <1>4, <1>5, <1>6, <1>7 DEF Inv

LEMMA AskKeeps ==
    ASSUME Orderly, Types, Inv, NEW t \in Thread, Ask(t)
    PROVE  Inv'
<1>1. ASSUME NEW m \in Matter, DeleteMatter(t, m) \/ CreateMatter(t, m)
      PROVE  Inv'
  <2> DEFINE c == Call("drop", m, "turn")
             e == Call("create", m, "count")
  <2>1. c \in Calls /\ e \in Calls
    BY DEF Call, Idle, Calls, Kinds, Steps
  <2>2. Working(c) /\ Working(e)
    BY DEF Call, Idle, Working, Kinds, Steps, Unread, Lockers, Writers
  <2>3. c.kind = "drop" /\ c.at = "turn" /\ c.m = m /\ e.kind = "create" /\ e.at = "count" /\ e.m = m
    BY DEF Call, Idle
  <2>4. (Known(m) /\ Begin(t, c)) \/ (m \notin used.born /\ Begin(t, e))
    BY <1>1 DEF DeleteMatter, CreateMatter
  <2> HIDE DEF c, e
  <2>5. e.kind \notin Lockers
    BY <2>3 DEF Lockers, Writers
  <2> QED
    BY <2>1, <2>2, <2>3, <2>4, <2>5, BeginKeeps
<1>2. ASSUME NEW m \in Matter, Read(t, m)
      PROVE  Inv'
  <2> DEFINE owed == {d \in Doc : told[m][d] = "kept"}
             gone == {d \in Doc : told[m][d] = "gone"}
             c == [Call("read", m, "pointer") EXCEPT !.owed = owed, !.gone = gone]
  <2>1. owed \in SUBSET Doc /\ gone \in SUBSET Doc
    OBVIOUS
  <2>2. Begin(t, c) /\ Known(m)
    BY <1>2 DEF Read
  <2> HIDE DEF owed, gone
  <2>3. c \in Calls
    BY <2>1 DEF Call, Idle, Calls, Kinds, Steps
  <2>4. Working(c) /\ c.kind = "read" /\ c.m = m
    BY DEF Call, Idle, Working, Kinds, Steps, Unread, Lockers, Writers
  <2> HIDE DEF c
  <2>5. c.kind \notin Lockers
    BY <2>4 DEF Lockers, Writers
  <2> QED
    BY <2>2, <2>3, <2>4, <2>5, BeginKeeps
<1>3. ASSUME NEW m \in Matter, NEW d \in Doc, NEW kind \in Writers, Known(m),
             Begin(t, [Call(kind, m, "turn") EXCEPT !.d = d])
      PROVE  Inv'
  <2> DEFINE c == [Call(kind, m, "turn") EXCEPT !.d = d]
  <2>1. c \in Calls
    BY DEF Call, Idle, Calls, Kinds, Steps, Writers
  <2>2. Working(c) /\ c.kind = kind /\ c.m = m /\ c.at = "turn"
    BY DEF Call, Idle, Working, Kinds, Steps, Unread, Lockers, Writers
  <2> HIDE DEF c
  <2>3. Begin(t, c) /\ kind # "create"
    BY <1>3 DEF c, Writers
  <2> QED
    BY <1>3, <2>1, <2>2, <2>3, BeginKeeps
<1>4. ASSUME DeleteTenant(t)
      PROVE  FALSE
  BY <1>4 DEF DeleteTenant, Begin, Call, Idle, Orderly, Types
<1>5. ASSUME NEW m \in Matter, NEW d \in Doc, AddDocument(t, m, d) \/ DeleteDocument(t, m, d)
      PROVE  Inv'
  BY <1>3, <1>5 DEF AddDocument, DeleteDocument, Writers
<1> QED
  BY <1>1, <1>2, <1>4, <1>5 DEF Ask

LEMMA ExpireKeeps ==
    ASSUME Orderly, Types, Inv, NEW m \in Matter, Expire(m)
    PROVE  Inv'
<1>1. UNCHANGED <<head, snaps, lock, call, closed, used>> /\ lapsed' = lapsed \cup {m}
  BY DEF Expire
<1>2. ~(call[lock[m]].m = m /\ Holding(lock[m]))
  BY DEF Expire, Orderly
<1>3. ASSUME NEW u \in Thread, Owns(u)'
      PROVE  Secure(u)'
  <2>1. Owns(u) /\ Secure(u)
    BY <1>1, <1>3 DEF Owns, Holding, Inv
  <2>2. Holding(u) => M(u) \notin lapsed'
    BY <1>1, <1>2, <2>1 DEF Secure, M
  <2> QED
    BY <1>1, <2>1, <2>2 DEF Secure, M, Holding
<1>4. Alone' /\ Born' /\ \A x \in Matter : Sound(x)'
  BY <1>1 DEF Inv, Alone, Born, Sound
<1> QED
  BY <1>3, <1>4 DEF Inv

LEMMA DieKeeps ==
    ASSUME Types, Inv, NEW w \in Worker, Die(w)
    PROVE  Inv'
<1>1. UNCHANGED <<remote, closed>> /\ used'.born = used.born
  BY DEF Die, Types, Bounds
<1>2. \A u \in Thread : call'[u] = Idle \/ call'[u] = call[u]
  BY DEF Die
<1>3. Idle.kind = "none" /\ Idle.m = Nil
  BY DEF Idle
<1>4. ASSUME NEW u \in Thread, Owns(u)'
      PROVE  Secure(u)'
  <2>1. call'[u] = call[u]
    BY <1>2, <1>3, <1>4 DEF Owns, Holding, Writers
  <2>2. Owns(u) /\ Secure(u)
    BY <1>4, <2>1 DEF Owns, Holding, Inv
  <2> QED
    BY <1>1, <2>1, <2>2, SecureStays DEF Quiet, remote
<1>5. Alone'
  <2> SUFFICES ASSUME NEW x \in Thread, NEW u \in Thread, x # u, call'[x].kind = "create"
               PROVE  call'[u].m # call'[x].m
    BY DEF Alone
  <2>1. call'[x] = call[x]
    BY <1>2, <1>3
  <2>2. call[x].m # Nil
    BY <2>1, OwnerAtWork, MatterConstants DEF Owns, M
  <2> QED
    BY <1>2, <1>3, <2>1, <2>2 DEF Inv, Alone
<1>6. Born'
  BY <1>1, <1>2, <1>3 DEF Inv, Born
<1>7. \A x \in Matter : Sound(x)'
  BY <1>1 DEF Inv, Sound, remote
<1> QED
  BY <1>4, <1>5, <1>6, <1>7 DEF Inv

LEMMA ThreadKeeps ==
    ASSUME Types, Inv, NEW t \in Thread, Step(t) \/ Refuse(t)
    PROVE  Inv'
<1>1. Keeps(t)
  BY LockKeeps, ReadKeeps, ChangeKeeps, UploadKeeps, PublishKeeps, EraseKeeps, ListOldKeeps,
     SweepKeeps, ResweepKeeps, ClearKeeps, MatterKeeps, RefuseKeeps DEF Step
<1>2. call[t].at \in Steps
  <2> USE DEF At, Steps
  <2>1. CASE Refuse(t)
    BY <2>1 DEF Refuse, Asking
  <2>2. CASE TakeTurn(t) \/ GiveUp(t) \/ StillMine(t) \/ Release(t) \/ Unlock(t)
    BY <2>2 DEF TakeTurn, GiveUp, StillMine, Release, Unlock
  <2>3. CASE ReadPointer(t) \/ Fetch(t) \/ Unpack(t) \/ Stamp(t) \/ Answer(t)
    BY <2>3 DEF ReadPointer, Fetch, Unpack, Stamp, Answer
  <2>4. CASE Ingest(t) \/ Scrub(t) \/ NoSuchDocument(t) \/ Record(t) \/ ListOld(t)
    BY <2>4 DEF Ingest, Scrub, NoSuchDocument, Record, ListOld
  <2>5. CASE Count(t) \/ DropLocal(t) \/ ListMatter(t) \/ ListTenant(t) \/ Wipe(t)
    BY <2>5 DEF Count, DropLocal, ListMatter, ListTenant, Wipe
  <2>6. ASSUME NEW seen \in BOOLEAN,
               \/ ClaimLock(t, seen) \/ Upload(t, seen) \/ Publish(t, seen) \/ Sweep(t, seen)
               \/ Resweep(t, seen) \/ Erase(t, seen) \/ Clear(t, seen)
        PROVE  call[t].at \in Steps
    BY <2>6 DEF ClaimLock, Upload, Publish, Sweep, Resweep, Erase, Clear
  <2> QED
    BY <2>1, <2>2, <2>3, <2>4, <2>5, <2>6 DEF Step
<1>3. Types'
  BY StepTypes DEF Next
<1> QED
  BY <1>1, <1>2, <1>3, OwnerMatter, KeepsInv DEF Types

LEMMA InvStep ==
    ASSUME Orderly, Types, Inv, [Next]_vars
    PROVE  Inv'
<1>1. CASE UNCHANGED vars
  <2>1. Alone' /\ Born' /\ \A x \in Matter : Sound(x)'
    BY <1>1 DEF vars, Inv, Alone, Born, Sound
  <2>2. \A u \in Thread : Owns(u)' => Secure(u)'
    BY <1>1 DEF vars, Inv, Owns, Holding, Secure, M
  <2> QED
    BY <2>1, <2>2 DEF Inv
<1> QED
  BY <1>1, ThreadKeeps, AskKeeps, ExpireKeeps, DieKeeps DEF Next

LEMMA InvStart == Init => Inv
<1> SUFFICES ASSUME Init PROVE Inv
  OBVIOUS
<1>1. \A t \in Thread : call[t].kind = "none" /\ call[t].m = Nil
  BY DEF Init, Idle
<1>2. Alone
  BY <1>1 DEF Alone
<1>3. Born
  BY <1>1 DEF Born, Init
<1>4. \A t \in Thread : ~Owns(t)
  BY <1>1 DEF Owns, Holding, Writers
<1>5. ASSUME NEW m \in Matter
      PROVE  Sound(m)
  <2>1. CASE m \in Standing
    <3>1. head[m] = [seq |-> 1, name |-> 1] /\ snaps[m] = [n \in {1} |-> {}]
      BY <2>1 DEF Init
    <3>2. head[m].name = 1 /\ DOMAIN snaps[m] = {1}
      BY <3>1
    <3> QED
      BY <3>2 DEF Sound, Init
  <2>2. CASE m \notin Standing
    BY <2>2 DEF Sound, Init
  <2> QED
    BY <2>1, <2>2
<1> QED
  BY <1>2, <1>3, <1>4, <1>5 DEF Inv

LEMMA AlwaysInv == Orderly => (Spec => []Inv)
<1> SUFFICES ASSUME Orderly PROVE Spec => []Inv
  OBVIOUS
<1>1. Types /\ Inv /\ [Next]_vars => Inv'
  BY InvStep
<1> QED
  BY <1>1, InvStart, AlwaysTypes, PTL DEF Spec

\* HeadResolves: through sweeps, removals, crashes and failed requests the pointer names a
\* snapshot that is there (`_push`, `_sweep`, delete_document, delete_matter).
THEOREM PointerResolves == Orderly => (Spec => []HeadResolves)
<1>1. Inv => HeadResolves
  BY DEF Inv, Sound, HeadResolves
<1> QED
  BY <1>1, AlwaysInv, PTL

\* ClosedIsEmpty: what an acknowledged delete_matter removed does not come back, whatever
\* write was under way (delete_matter, `_push`).
THEOREM ClosedStaysEmpty == Orderly => (Spec => []ClosedIsEmpty)
<1>1. Types /\ Inv => ClosedIsEmpty
  BY DEF Types, Inv, Sound, ClosedIsEmpty
<1> QED
  BY <1>1, AlwaysInv, AlwaysTypes, PTL

-----------------------------------------------------------------------------
(* What the copies hold, where readers have a worker to themselves.        *)

\* No thread reads on a worker on which another serves calls.
ReadsApart == \A s \in Setups : "read" \in s.kinds => \A t, u \in Thread : s.seat[t] = s.seat[u] => t = u

\* Documents that differ from what a reader finds in m by those whose call failed or is
\* under way only.
Near(docs, m) ==
    /\ \A d \in docs \ Found(m) : told[m][d] \in {"asked", "leaving", "unsure"}
    /\ \A d \in Found(m) \ docs : told[m][d] \in {"leaving", "unsure"}

\* A local copy is not ahead of the pointer, and near to it if it has its number.
Fits(w, m) ==
    head[m] # Nil /\ disk[w][m] # Nil =>
        /\ disk[w][m].seq <= head[m].seq
        /\ disk[w][m].seq = head[m].seq => Near(disk[w][m].docs, m)

\* What callers were told of the documents of a call under way.
Asked(t) ==
    /\ call[t].kind \in setup.kinds \cup {"none"}
    /\ call[t].kind \notin Writers => call[t].d = Nil
    /\ call[t].kind = "add" => told[M(t)][call[t].d] = "asked"
    /\ call[t].kind = "remove" => told[M(t)][call[t].d] \in {"leaving", "unsure", "gone"}
    /\ call[t].kind = "read" => /\ \A d \in call[t].owed : told[M(t)][d] \notin {"new", "asked"}
                                /\ \A d \in call[t].gone : told[M(t)][d] = "gone"

OneAdd == \A t, u \in Thread :
    t # u /\ call[t].kind = "add" /\ call[u].kind = "add" /\ M(t) = M(u) => call[t].d # call[u].d

\* The documents have what the read owes, and nothing that is gone.
Serves(t, docs) ==
    /\ \A d \in call[t].owed : told[M(t)][d] = "kept" => d \in docs
    /\ \A d \in call[t].gone : d \notin docs

\* A call that fetches what the pointer it read names: the copy it replaces is older, and
\* what it fetched is what readers find if the pointer is still the same.
Follows(t) ==
    /\ call[t].at \in {"fetch", "unpack", "stamp"} =>
         /\ head[M(t)] # Nil => /\ call[t].prev.seq <= head[M(t)].seq
                                /\ call[t].prev.seq = head[M(t)].seq => call[t].prev = head[M(t)]
         /\ Local(t) # Nil => Local(t).seq < call[t].prev.seq
         /\ call[t].prev.name <= used.names
    /\ call[t].at = "unpack" /\ call[t].prev = head[M(t)] => call[t].copy = Found(M(t))
    /\ call[t].at = "stamp" => Local(t) # Nil /\ (call[t].prev = head[M(t)] => Local(t).docs = Found(M(t)))
    /\ call[t].kind = "read" =>
         /\ call[t].at = "fetch" /\ call[t].prev.name \in DOMAIN snaps[M(t)] =>
                Serves(t, snaps[M(t)][call[t].prev.name])
         /\ call[t].at = "unpack" => Serves(t, call[t].copy)
         /\ call[t].at \in {"stamp", "answer"} /\ Local(t) # Nil => Serves(t, Local(t).docs)

\* The documents have what is added, and not what is removed.
Bears(t, docs) ==
    /\ call[t].kind = "add" => call[t].d \in docs
    /\ call[t].kind = "remove" => call[t].d \notin docs

\* The pointer names what the call put.
Published(t) ==
    call[t].at \in {"record", "list", "sweep"} \/ (call[t].at \in {"release", "unlock"} /\ call[t].ok)

\* A call that adds or removes works on a copy of the pointer it read; once published its
\* change is what readers find; a removal leaves the document in no copy that counts, and
\* in no snapshot but those it still has to sweep.
Changes(t) ==
    call[t].kind \in Writers =>
      /\ call[t].at \in {"work", "resweep", "mine", "upload", "publish"} =>
           Local(t) # Nil /\ Local(t).seq = call[t].prev.seq
      /\ call[t].at \in {"mine", "upload", "publish"} => Bears(t, Local(t).docs)
      /\ call[t].at = "resweep" => call[t].kind = "remove" /\ call[t].d \notin Local(t).docs
      /\ Published(t) => head[M(t)] # Nil /\ Bears(t, Found(M(t)))
      /\ call[t].kind = "remove" =>
           /\ Published(t) =>
                \A w \in Worker : disk[w][M(t)] # Nil /\ disk[w][M(t)].seq = head[M(t)].seq =>
                    call[t].d \notin disk[w][M(t)].docs
           /\ call[t].at = "sweep" =>
                \A n \in DOMAIN snaps[M(t)] : call[t].d \in snaps[M(t)][n] => <<M(t), n>> \in call[t].todo
           /\ call[t].at \in {"release", "unlock"} /\ call[t].ok =>
                \A n \in DOMAIN snaps[M(t)] : call[t].d \notin snaps[M(t)][n]

\* What is put is the local copy.
Puts(t) ==
    /\ call[t].at = "publish" => Local(t) # Nil /\ snaps[M(t)][call[t].new] = Local(t).docs
    /\ call[t].at = "record" => /\ head[M(t)] # Nil /\ head[M(t)].seq = NextSeq(t)
                                /\ Local(t) # Nil /\ Local(t).docs = Found(M(t))

\* Nobody knows of a matter while it is made.
Makes(t) ==
    call[t].kind = "create" =>
      /\ call[t].prev = Nil /\ \A d \in Doc : told[M(t)][d] = "new"
      /\ \A w \in Worker \ {W(t)} : disk[w][M(t)] = Nil
      /\ call[t].at \in {"count", "upload", "publish"} => head[M(t)] = Nil
      /\ call[t].at \in {"upload", "publish"} => Local(t) = [docs |-> {}, seq |-> Fresh]

Fine(t) == Follows(t) /\ Changes(t) /\ Puts(t) /\ Makes(t)

Unborn == \A m \in Matter \ used.born : /\ head[m] = Nil /\ \A d \in Doc : told[m][d] = "new"
                                        /\ \A w \in Worker : disk[w][m] = Nil

ToldTypes == told \in [Matter -> [Doc -> P!Told]]

Faith ==
    /\ ToldTypes /\ AckedKept /\ GoneIsGone /\ OneAdd /\ Unborn
    /\ \A w \in Worker, m \in Matter : Fits(w, m)
    /\ \A t \in Thread : Asked(t) /\ Fine(t)

\* What is known of a step.
Ground == Types /\ Inv /\ Types' /\ Inv' /\ ReadsApart /\ Faith

\* A name is never given to other documents.
Immutable(m) == \A n \in DOMAIN snaps'[m] : n <= used.names => n \in DOMAIN snaps[m] /\ snaps'[m][n] = snaps[m][n]

\* A pointer stays, goes, or goes up.
Rises(m) == \/ head'[m] = head[m] \/ head'[m] = Nil
            \/ head[m] # Nil /\ head'[m] # Nil /\ head'[m].seq > head[m].seq

\* A pointer that is moved shows what callers were told may be shown.
Shifts(m) ==
    IF head[m] = Nil THEN Found(m)' = {} /\ \A d \in Doc : told[m][d] = "new"
    ELSE \A d \in Doc : /\ d \in Found(m)' /\ d \notin Found(m) => told[m][d] \in {"asked", "leaving", "unsure"}
                        /\ d \in Found(m) /\ d \notin Found(m)' => told[m][d] \in {"leaving", "unsure"}

\* What a step of t does to the object store: only an owner changes its matter.
StoreMove(t) ==
    /\ setup' = setup /\ used'.born = used.born /\ used'.names >= used.names
    /\ \A m \in Matter \ {M(t)} : head'[m] = head[m] /\ snaps'[m] = snaps[m]
    /\ (head'[M(t)] = head[M(t)] /\ snaps'[M(t)] = snaps[M(t)]) \/ Owns(t)
    /\ \A m \in Matter : m = M(t) =>
         /\ Immutable(m)
         /\ \A n \in DOMAIN snaps'[m], d \in Doc : n > used.names /\ told[m][d] = "gone" => d \notin snaps'[m][n]
         /\ Rises(m) \/ call[t].kind = "create"
         /\ head'[m] # head[m] /\ head'[m] # Nil => Shifts(m)

\* To the local copies: only an owner, or a reader that brings its copy to a pointer.
DiskMove(t) ==
    \A w \in Worker, m \in Matter :
        IF w # W(t) \/ m # M(t) THEN disk'[w][m] = disk[w][m]
        ELSE /\ Fits(w, m)'
             /\ \/ disk'[w][m] = disk[w][m] \/ Owns(t)
                \/ /\ call[t].kind = "read"
                   /\ head'[m] # Nil /\ disk'[w][m] # Nil /\ disk'[w][m].seq = head'[m].seq =>
                            disk'[w][m].docs = Found(m)'

\* To the calls: the step tells nobody anything.
CallMove(t) ==
    /\ told' = told
    /\ \A u \in Thread \ {t} : call'[u] = call[u]
    /\ \/ call'[t] = Idle
       \/ /\ call'[t].kind = call[t].kind /\ call'[t].m = call[t].m /\ call'[t].d = call[t].d
          /\ call'[t].owed = call[t].owed /\ call'[t].gone = call[t].gone
-----------------------------------------------------------------------------
LEMMA NilApart == Nil \notin Copy /\ Nil \notin Head
BY MatterConstants DEF Copy, Head, Fresh

LEMMA IdleFaith ==
    ASSUME NEW t \in Thread, call'[t] = Idle
    PROVE  Asked(t)' /\ Fine(t)'
BY DEF Idle, Asked, Fine, Follows, Changes, Puts, Makes, Writers, Published

LEMMA FoundSame ==
    ASSUME Ground, NEW m \in Matter, head'[m] = head[m], Immutable(m)
    PROVE  Found(m)' = Found(m)
<1>1. CASE head[m] = Nil
  BY <1>1 DEF Found
<1>2. CASE head[m] # Nil
  <2>1. head[m].name \in DOMAIN snaps[m] /\ head'[m].name \in DOMAIN snaps'[m]
    BY <1>2 DEF Ground, Inv, Sound
  <2>2. head[m].name <= used.names
    BY <2>1 DEF Ground, Types, StoreTypes, Bounds
  <2> QED
    BY <1>2, <2>1, <2>2 DEF Found, Immutable
<1> QED
  BY <1>1, <1>2

\* What is known of a thread at work.
LEMMA AtHand ==
    ASSUME Ground, NEW t \in Thread, call[t].at \in Steps
    PROVE  /\ M(t) \in Matter /\ W(t) \in Worker /\ Working(call[t]) /\ call[t] \in Calls
           /\ Asked(t) /\ Fine(t) /\ call[t].kind # "purge" /\ (Owns(t) => Secure(t))
           /\ head[M(t)] \in Head \cup {Nil} /\ snaps[M(t)] \in Snap
<1>1. M(t) \in Matter /\ Working(call[t]) /\ call[t] \in Calls
  BY OwnerMatter DEF Ground
<1>2. W(t) \in Worker
  BY SeatType DEF Ground, Types
<1> QED
  BY <1>1, <1>2 DEF Ground, Faith, Inv, Born, Types, StoreTypes

\* A local copy in use is changed by no other thread.
LEMMA OwnCopy ==
    ASSUME Ground, NEW t \in Thread, NEW u \in Thread, t # u, call[u].at \in Steps, call[t].at \in Steps,
           DiskMove(t), setup' = setup, call'[u] = call[u], Owns(u) \/ call[u].kind = "read"
    PROVE  Local(u)' = Local(u)
<1>1. M(u) \in Matter /\ W(u) \in Worker /\ Asked(u) /\ Asked(t) /\ M(t) \in Matter /\ W(t) \in Worker
  BY AtHand
<1>2. M(u)' = M(u) /\ W(u)' = W(u)
  BY DEF M, W
<1>3. CASE W(u) # W(t) \/ M(u) # M(t)
  BY <1>1, <1>2, <1>3 DEF DiskMove, Local
<1>4. CASE W(u) = W(t) /\ M(u) = M(t)
  <2>1. call[t].kind # "read" /\ call[u].kind # "read"
    <3>1. setup \in Setups /\ setup.seat[t] = setup.seat[u] /\ ("read" \notin setup.kinds)
      BY <1>4 DEF Ground, Types, W, ReadsApart
    <3> QED
      BY <1>1, <3>1 DEF Asked
  <2>2. ~Owns(t)
    BY <1>4, <2>1, OneOwner DEF Ground
  <2> QED
    BY <1>1, <1>2, <1>4, <2>1, <2>2 DEF DiskMove, Local
<1> QED
  BY <1>3, <1>4

\* What thread u relies on is kept by a step of another.
LEMMA Aside ==
    ASSUME Ground, NEW t \in Thread, NEW u \in Thread, t # u, call[t].at \in Steps,
           StoreMove(t), DiskMove(t), CallMove(t)
    PROVE  Asked(u)' /\ Fine(u)'
<1>1. /\ call'[u] = call[u] /\ told' = told /\ setup' = setup /\ M(u)' = M(u) /\ W(u)' = W(u)
      /\ used'.names >= used.names /\ used.names \in Nat /\ used'.names \in Nat
  BY DEF CallMove, StoreMove, M, W, Ground, Types, Bounds
<1>2. CASE call[u] = Idle
  BY <1>1, <1>2, IdleFaith
<1>3. CASE call[u] # Idle
  <2>1. call[u].at \in Steps
    BY <1>3 DEF Ground, Types, CallTypes, Proper, Working
  <2>2. /\ M(u) \in Matter /\ W(u) \in Worker /\ Working(call[u]) /\ call[u] \in Calls
        /\ Asked(u) /\ Fine(u) /\ (Owns(u) => Secure(u))
        /\ head[M(u)] \in Head \cup {Nil} /\ snaps[M(u)] \in Snap
    BY <2>1, AtHand
  <2>3. M(t) \in Matter /\ W(t) \in Worker
    BY AtHand
  <2>4. Asked(u)'
    BY <1>1, <2>2 DEF Asked
  <2>5. Owns(u) \/ call[u].kind = "read" => Local(u)' = Local(u)
    BY <1>1, <2>1, OwnCopy
  <2>6. CASE M(u) # M(t)
    <3>1. head'[M(u)] = head[M(u)] /\ snaps'[M(u)] = snaps[M(u)] /\ Found(M(u))' = Found(M(u))
      BY <1>1, <2>2, <2>6 DEF StoreMove, Found
    <3>2. \A w \in Worker : disk'[w][M(u)] = disk[w][M(u)]
      BY <2>2, <2>6 DEF DiskMove
    <3>3. Local(u)' = Local(u)
      BY <1>1, <2>2, <3>2 DEF Local
    <3>4. Follows(u)'
      <4>1. call[u].prev.name <= used.names => call[u].prev.name <= used'.names \/ call[u].prev.name \notin Nat
        BY <1>1
      <4>2. call[u].at \in {"fetch", "unpack", "stamp"} => call[u].prev.name \in Nat
        BY <2>2 DEF Working, Calls, Head, Unread, Lockers, Writers
      <4> QED
        BY <1>1, <2>2, <3>1, <3>3, <4>1, <4>2 DEF Fine, Follows, Serves
    <3>5. Changes(u)'
      BY <1>1, <2>2, <3>1, <3>2, <3>3 DEF Fine, Changes, Bears, Published
    <3>6. Puts(u)'
      BY <1>1, <2>2, <3>1, <3>3 DEF Fine, Puts, NextSeq
    <3>7. Makes(u)'
      BY <1>1, <2>2, <3>1, <3>2, <3>3 DEF Fine, Makes
    <3> QED
      BY <2>4, <3>4, <3>5, <3>6, <3>7 DEF Fine
  <2>7. CASE M(u) = M(t) /\ Owns(u)
    <3>1. ~Owns(t)
      BY <2>7, OneOwner DEF Ground
    <3>2. head'[M(u)] = head[M(u)] /\ snaps'[M(u)] = snaps[M(u)] /\ Found(M(u))' = Found(M(u))
      BY <1>1, <2>2, <2>7, <3>1 DEF StoreMove, Found
    <3>3. Local(u)' = Local(u)
      BY <2>5, <2>7
    <3>4. Follows(u)'
      <4>1. call[u].at \in {"fetch", "unpack", "stamp"} => call[u].prev.name \in Nat
        BY <2>2 DEF Working, Calls, Head, Unread, Lockers, Writers
      <4>2. call[u].at \in {"fetch", "unpack", "stamp"} => call[u].prev.name <= used'.names
        BY <1>1, <2>2, <4>1 DEF Fine, Follows
      <4> QED
        BY <1>1, <2>2, <3>2, <3>3, <4>2 DEF Fine, Follows, Serves
    <3>5. Changes(u)'
      <4>1. ASSUME call[u].kind = "remove", Published(u), NEW w \in Worker,
                   disk'[w][M(u)] # Nil, disk'[w][M(u)].seq = head'[M(u)].seq
            PROVE  call[u].d \notin disk'[w][M(u)].docs
        <5>1. head[M(u)] # Nil /\ call[u].d \notin Found(M(u))
          BY <2>2, <4>1 DEF Fine, Changes, Bears, Writers
        <5>2. CASE disk'[w][M(u)] = disk[w][M(u)]
          BY <2>2, <3>2, <4>1, <5>2 DEF Fine, Changes, Writers
        <5>3. CASE disk'[w][M(u)] # disk[w][M(u)]
          <6>1. disk'[w][M(u)].docs = Found(M(u))'
            BY <1>1, <2>2, <2>7, <3>1, <3>2, <4>1, <5>1, <5>3 DEF DiskMove
          <6> QED
            BY <3>2, <5>1, <6>1
        <5> QED
          BY <5>2, <5>3
      <4>2. Published(u)' <=> Published(u)
        BY <1>1 DEF Published
      <4>3. \A docs : Bears(u, docs)' <=> Bears(u, docs)
        BY <1>1 DEF Bears
      <4> QED
        BY <1>1, <2>2, <3>2, <3>3, <4>1, <4>2, <4>3 DEF Fine, Changes, Bears
    <3>6. Puts(u)'
      BY <1>1, <2>2, <3>2, <3>3 DEF Fine, Puts, NextSeq
    <3>7. call[u].kind # "create"
      <4>1. call[t].m = call[u].m
        BY <2>7 DEF M
      <4> QED
        BY <4>1 DEF Ground, Inv, Alone
    <3> QED
      BY <1>1, <2>4, <3>4, <3>5, <3>6, <3>7 DEF Fine, Makes
  <2>8. CASE M(u) = M(t) /\ ~Owns(u)
    <3>1. call[u].kind = "read" \/ (call[u].kind \in Lockers /\ call[u].at \in {"turn", "claim"})
      BY <2>2, <2>8, AtHand, <2>1 DEF Owns, Holding, Lockers, Working, Kinds, Writers
    <3>2. Changes(u)' /\ Puts(u)' /\ Makes(u)'
      BY <1>1, <2>2, <3>1 DEF Changes, Puts, Makes, Working, Published, Lockers, Writers
    <3>3. Follows(u)'
      <4>1. CASE call[u].kind # "read"
        BY <1>1, <3>1, <4>1 DEF Follows
      <4>2. CASE call[u].kind = "read"
        <5>1. Local(u)' = Local(u)
          BY <2>5, <4>2
        <5>2. call[t].kind # "create"
          BY <2>8 DEF Ground, Inv, Alone, M
        <5>3. Rises(M(u)) /\ Immutable(M(u)) /\ head'[M(u)] \in Head \cup {Nil}
          BY <2>2, <2>8, <5>2 DEF StoreMove, Ground, Types, StoreTypes
        <5>4. call[u].at \in {"fetch", "unpack", "stamp"} =>
                call[u].prev \in Head /\ call[u].prev # Nil /\ call[u].prev.name \in Nat /\ call[u].prev.seq \in Nat
          BY <2>2, <4>2 DEF Working, Calls, Head, Unread, Lockers, Writers
        <5>5. head'[M(u)] = head[M(u)] => Found(M(u))' = Found(M(u))
          BY <1>1, <2>2, <5>3, FoundSame
        <5>6. call[u].at \in {"fetch", "unpack", "stamp"} /\ call[u].prev = head'[M(u)] => head'[M(u)] = head[M(u)]
          <6>1. SUFFICES ASSUME call[u].at \in {"fetch", "unpack", "stamp"}, call[u].prev = head'[M(u)],
                                head[M(u)] # Nil, head'[M(u)] # Nil, head'[M(u)].seq > head[M(u)].seq
                         PROVE  FALSE
            BY <5>3, <5>4 DEF Rises
          <6>2. call[u].prev.seq <= head[M(u)].seq /\ head[M(u)].seq \in Nat
            BY <2>2, <6>1 DEF Fine, Follows, Head
          <6> QED
            BY <5>4, <6>1, <6>2
        <5>7. call[u].at \in {"fetch", "unpack", "stamp"} /\ head'[M(u)] # Nil =>
                /\ call[u].prev.seq <= head'[M(u)].seq
                /\ call[u].prev.seq = head'[M(u)].seq => call[u].prev = head'[M(u)]
          <6>1. SUFFICES ASSUME call[u].at \in {"fetch", "unpack", "stamp"}, head'[M(u)] # Nil
                         PROVE  /\ call[u].prev.seq <= head'[M(u)].seq
                                /\ call[u].prev.seq = head'[M(u)].seq => call[u].prev = head'[M(u)]
            OBVIOUS
          <6>2. CASE head'[M(u)] = head[M(u)]
            BY <2>2, <6>1, <6>2 DEF Fine, Follows
          <6>3. CASE head[M(u)] # Nil /\ head'[M(u)].seq > head[M(u)].seq
            <7>1. call[u].prev.seq <= head[M(u)].seq /\ head[M(u)].seq \in Nat /\ head'[M(u)].seq \in Nat
              BY <2>2, <5>3, <6>1, <6>3 DEF Fine, Follows, Head
            <7> QED
              BY <5>4, <6>1, <6>3, <7>1
          <6> QED
            BY <5>3, <6>1, <6>2, <6>3 DEF Rises
        <5>8. call[u].at = "fetch" /\ call[u].prev.name \in DOMAIN snaps'[M(u)] =>
                /\ call[u].prev.name \in DOMAIN snaps[M(u)]
                /\ snaps'[M(u)][call[u].prev.name] = snaps[M(u)][call[u].prev.name]
          BY <2>2, <5>3 DEF Immutable, Fine, Follows
        <5>9. call[u].at \in {"fetch", "unpack", "stamp"} => call[u].prev.name <= used'.names
          BY <1>1, <2>2, <5>4 DEF Fine, Follows
        <5>10. \A docs : Serves(u, docs)' <=> Serves(u, docs)
          BY <1>1 DEF Serves
        <5> QED
          BY <1>1, <2>2, <4>2, <5>1, <5>5, <5>6, <5>7, <5>8, <5>9, <5>10 DEF Fine, Follows, Serves
      <4> QED
        BY <4>1, <4>2
    <3> QED
      BY <2>4, <3>2, <3>3 DEF Fine
  <2> QED
    BY <2>6, <2>7, <2>8
<1> QED
  BY <1>2, <1>3

\* A copy that stays fits a pointer that stays, goes or goes up.
LEMMA FitsStays ==
    ASSUME Ground, NEW m \in Matter, NEW w \in Worker, disk'[w][m] = disk[w][m], told' = told,
           Rises(m), Immutable(m)
    PROVE  Fits(w, m)'
<1>1. Fits(w, m) /\ disk[w][m] \in Copy \cup {Nil} /\ head[m] \in Head \cup {Nil} /\ head'[m] \in Head \cup {Nil}
  BY DEF Ground, Faith, Types, Disks, StoreTypes
<1>2. CASE head'[m] = head[m]
  <2>1. Found(m)' = Found(m)
    BY <1>2, FoundSame
  <2> QED
    BY <1>1, <1>2, <2>1 DEF Fits, Near
<1>3. CASE head'[m] = Nil
  BY <1>3 DEF Fits
<1>4. CASE head[m] # Nil /\ head'[m] # Nil /\ head'[m].seq > head[m].seq /\ disk[w][m] # Nil
  <2>1. disk[w][m].seq <= head[m].seq /\ head[m].seq \in Nat /\ head'[m].seq \in Nat /\ disk[w][m].seq \in Int
    BY <1>1, <1>4 DEF Fits, Head, Copy, Fresh
  <2> QED
    BY <1>4, <2>1 DEF Fits
<1>5. CASE disk[w][m] = Nil
  BY <1>5 DEF Fits
<1> QED
  BY <1>2, <1>3, <1>4, <1>5 DEF Rises

\* A step of a thread that tells nobody anything.
LEMMA StoreStep ==
    ASSUME Ground, NEW t \in Thread, call[t].at \in Steps,
           StoreMove(t), DiskMove(t), CallMove(t), Fine(t)'
    PROVE  Faith'
<1>1. /\ M(t) \in Matter /\ W(t) \in Worker /\ Working(call[t]) /\ call[t] \in Calls /\ Asked(t) /\ Fine(t)
  BY AtHand
<1>2. told' = told /\ setup' = setup /\ used'.born = used.born
  BY DEF CallMove, StoreMove
<1>3. ToldTypes'
  BY <1>2 DEF ToldTypes, Ground, Faith, P!Told
<1>4. \A m \in Matter : m # M(t) => Found(m)' = Found(m)
  BY DEF StoreMove, Found
<1>5. AckedKept'
  <2>1. ASSUME NEW m \in Matter, NEW d \in Doc, told'[m][d] = "kept", head'[m] # Nil PROVE d \in Found(m)'
    <3>1. CASE m = M(t)
      <4>1. CASE head'[m] = head[m]
        <5>1. Found(m)' = Found(m)
          BY <3>1, <4>1, FoundSame DEF StoreMove
        <5> QED
          BY <1>2, <2>1, <4>1, <5>1 DEF Ground, Faith, AckedKept
      <4>2. CASE head'[m] # head[m]
        <5>1. Shifts(m)
          BY <2>1, <3>1, <4>2 DEF StoreMove
        <5>2. head[m] # Nil => d \in Found(m)
          BY <1>2, <2>1 DEF Ground, Faith, AckedKept
        <5> QED
          BY <1>2, <2>1, <5>1, <5>2 DEF Shifts
      <4> QED
        BY <4>1, <4>2
    <3>2. CASE m # M(t)
      BY <1>2, <1>4, <2>1, <3>2 DEF StoreMove, Ground, Faith, AckedKept
    <3> QED
      BY <3>1, <3>2
  <2> QED
    BY <2>1 DEF AckedKept
<1>6. GoneIsGone'
  <2>1. ASSUME NEW m \in Matter, NEW d \in Doc, told'[m][d] = "gone", NEW n \in DOMAIN snaps'[m]
        PROVE  d \notin snaps'[m][n]
    <3>1. CASE m = M(t)
      <4>1. n \in Nat /\ used.names \in Nat
        BY DEF Ground, Types, StoreTypes, Bounds
      <4>2. CASE n > used.names
        BY <1>2, <2>1, <3>1, <4>2 DEF StoreMove
      <4>3. CASE n <= used.names
        BY <1>2, <2>1, <3>1, <4>3 DEF StoreMove, Immutable, Ground, Faith, GoneIsGone
      <4> QED
        BY <4>1, <4>2, <4>3
    <3>2. CASE m # M(t)
      BY <1>2, <2>1, <3>2 DEF StoreMove, Ground, Faith, GoneIsGone
    <3> QED
      BY <3>1, <3>2
  <2> QED
    BY <2>1 DEF GoneIsGone
<1>7. \A u \in Thread : Asked(u)' /\ Fine(u)'
  <2>1. Asked(t)'
    <3>1. CASE call'[t] = Idle
      BY <3>1, IdleFaith
    <3>2. CASE call'[t] # Idle
      BY <1>1, <1>2, <3>2 DEF CallMove, Asked, M
    <3> QED
      BY <3>1, <3>2
  <2>2. ASSUME NEW u \in Thread, u # t PROVE Asked(u)' /\ Fine(u)'
    BY <2>2, Aside
  <2> QED
    BY <2>1, <2>2
<1>8. OneAdd'
  <2>1. \A u \in Thread : call'[u].kind = "add" => call[u].kind = "add" /\ call'[u].d = call[u].d /\ call'[u].m = call[u].m
    BY DEF CallMove, Idle
  <2> QED
    BY <2>1 DEF OneAdd, Ground, Faith, M
<1>9. Unborn'
  <2>1. M(t) \in used.born
    BY <1>1, MatterConstants DEF Ground, Inv, Born, M
  <2> QED
    BY <1>2, <2>1 DEF Unborn, Ground, Faith, StoreMove, DiskMove
<1>10. ASSUME NEW w \in Worker, NEW m \in Matter PROVE Fits(w, m)'
  <2>1. CASE w = W(t) /\ m = M(t)
    BY <2>1 DEF DiskMove
  <2>2. CASE m # M(t)
    <3>1. disk'[w][m] = disk[w][m] /\ head'[m] = head[m] /\ Immutable(m)
      BY <2>2 DEF DiskMove, StoreMove, Immutable
    <3> QED
      BY <1>2, <3>1, FitsStays DEF Rises
  <2>3. CASE w # W(t) /\ m = M(t)
    <3>1. disk'[w][m] = disk[w][m] /\ Immutable(m)
      BY <2>3 DEF DiskMove, StoreMove
    <3>2. CASE Rises(m)
      BY <1>2, <3>1, <3>2, FitsStays
    <3>3. CASE call[t].kind = "create"
      <4>1. disk[w][m] = Nil
        BY <1>1, <2>3, <3>3 DEF Fine, Makes
      <4> QED
        BY <3>1, <4>1 DEF Fits
    <3> QED
      BY <2>3, <3>2, <3>3 DEF StoreMove
  <2> QED
    BY <2>1, <2>2, <2>3
<1> QED
  BY <1>3, <1>5, <1>6, <1>7, <1>8, <1>9, <1>10 DEF Faith

-----------------------------------------------------------------------------
(* Steps that tell a caller something leave the store as it is.            *)

\* What a caller of d may be told after what it was told last, and what is so then.
Tells(m, d, was, now) ==
    \/ now = was
    \/ was = "new" /\ now = "asked"
    \/ was \in {"kept", "unsure", "leaving"} /\ now = "leaving"
    \/ was = "asked" /\ now = "kept" /\ (head[m] # Nil => d \in Found(m))
    \/ was \in {"asked", "leaving", "unsure"} /\ now = "unsure"
    \/ /\ was \in {"leaving", "unsure"} /\ now = "gone"
       /\ \A n \in DOMAIN snaps[m] : d \notin snaps[m][n]
       /\ head[m] # Nil => d \notin Found(m)
       /\ \A w \in Worker : head[m] # Nil /\ disk[w][m] # Nil /\ disk[w][m].seq = head[m].seq =>
            d \notin disk[w][m].docs

\* A call that goes on through such a step: what it relies on was not told.
Bystander(u) ==
    /\ call'[u] = call[u]
    /\ \A m \in Matter : disk'[W(u)][m] = disk[W(u)][m]
    /\ call[u].kind = "add" => told'[M(u)][call[u].d] = told[M(u)][call[u].d]
    /\ call[u].kind = "create" => told'[M(u)] = told[M(u)]

LEMMA BystanderFine ==
    ASSUME Ground, UNCHANGED <<head, snaps, setup>>, used'.names = used.names,
           \A m \in Matter, d \in Doc : Tells(m, d, told[m][d], told'[m][d]),
           \A w \in Worker, m \in Matter : disk'[w][m] = disk[w][m] \/ disk'[w][m] = Nil,
           NEW u \in Thread, Bystander(u)
    PROVE  Asked(u)' /\ Fine(u)'
<1>1. call'[u] = call[u] /\ M(u)' = M(u) /\ W(u)' = W(u)
  BY DEF Bystander, M, W
<1>2. CASE call[u] = Idle
  BY <1>1, <1>2, IdleFaith
<1>3. CASE call[u] # Idle
  <2>1. call[u].at \in Steps
    BY <1>3 DEF Ground, Types, CallTypes, Proper, Working
  <2>2. /\ M(u) \in Matter /\ W(u) \in Worker /\ Working(call[u]) /\ call[u] \in Calls /\ Asked(u) /\ Fine(u)
    BY <2>1, AtHand
  <2>3. Local(u)' = Local(u)
    BY <1>1, <2>2 DEF Bystander, Local
  <2>4. \A m : Found(m)' = Found(m)
    BY DEF Found
  <2>5. \A d \in Doc : /\ told'[M(u)][d] = "new" => told[M(u)][d] = "new"
                       /\ told'[M(u)][d] = "asked" => told[M(u)][d] \in {"new", "asked"}
                       /\ told'[M(u)][d] = "kept" => told[M(u)][d] \in {"asked", "kept"}
                       /\ told[M(u)][d] = "gone" => told'[M(u)][d] = "gone"
                       /\ told[M(u)][d] \in {"leaving", "unsure", "gone"} =>
                            told'[M(u)][d] \in {"leaving", "unsure", "gone"}
    BY <2>2 DEF Tells
  <2>6. call[u].owed \subseteq Doc /\ call[u].gone \subseteq Doc /\ (call[u].kind \in Writers => call[u].d \in Doc)
    BY <2>2 DEF Calls, Working
  <2>7. Asked(u)'
    BY <1>1, <2>2, <2>5, <2>6 DEF Asked, Bystander, Writers
  <2>8. call[u].kind = "read" => \A docs : Serves(u, docs) => Serves(u, docs)'
    BY <1>1, <2>2, <2>5, <2>6 DEF Serves, Asked
  <2>9. Follows(u)'
    BY <1>1, <2>2, <2>3, <2>4, <2>8 DEF Fine, Follows
  <2>10. Changes(u)'
    BY <1>1, <2>2, <2>3, <2>4 DEF Fine, Changes, Bears, Published
  <2>11. Puts(u)'
    BY <1>1, <2>2, <2>3, <2>4 DEF Fine, Puts, NextSeq
  <2>12. Makes(u)'
    BY <1>1, <2>2, <2>3 DEF Fine, Makes, Bystander
  <2> QED
    BY <2>7, <2>9, <2>10, <2>11, <2>12 DEF Fine
<1> QED
  BY <1>2, <1>3

LEMMA ToldStep ==
    ASSUME Ground, UNCHANGED <<head, snaps, setup>>, used'.names = used.names, ToldTypes',
           \A m \in Matter, d \in Doc : Tells(m, d, told[m][d], told'[m][d]),
           \A w \in Worker, m \in Matter : disk'[w][m] = disk[w][m] \/ disk'[w][m] = Nil,
           \A u \in Thread : Bystander(u) \/ (Asked(u)' /\ Fine(u)'),
           OneAdd', Unborn'
    PROVE  Faith'
<1>1. \A m : Found(m)' = Found(m)
  BY DEF Found
<1>2. AckedKept'
  BY <1>1 DEF Ground, Faith, AckedKept, Tells
<1>3. GoneIsGone'
  BY DEF Ground, Faith, GoneIsGone, Tells
<1>4. ASSUME NEW w \in Worker, NEW m \in Matter PROVE Fits(w, m)'
  <2>1. SUFFICES ASSUME head[m] # Nil, disk'[w][m] # Nil
                 PROVE  /\ disk'[w][m].seq <= head[m].seq
                        /\ disk'[w][m].seq = head[m].seq => Near(disk[w][m].docs, m)'
    BY DEF Fits
  <2>2. disk'[w][m] = disk[w][m]
    BY <2>1
  <2>3. /\ disk[w][m].seq <= head[m].seq
        /\ disk[w][m].seq = head[m].seq => Near(disk[w][m].docs, m)
    BY <2>1, <2>2 DEF Ground, Faith, Fits
  <2>4. disk[w][m].docs \subseteq Doc /\ Found(m) \subseteq Doc
    <3>1. disk[w][m] \in Copy
      BY <2>1, <2>2 DEF Ground, Types, Disks
    <3>2. head[m].name \in DOMAIN snaps[m] /\ snaps[m] \in Snap
      BY <2>1 DEF Ground, Inv, Sound, Types, StoreTypes
    <3> QED
      BY <2>1, <3>1, <3>2, SnapType DEF Copy, Found
  <2>5. ASSUME disk[w][m].seq = head[m].seq PROVE Near(disk[w][m].docs, m)'
    <3> DEFINE docs == disk[w][m].docs
    <3>1. \A d \in Doc : /\ d \in docs \ Found(m) => told[m][d] \in {"asked", "leaving", "unsure"}
                         /\ d \in Found(m) \ docs => told[m][d] \in {"leaving", "unsure"}
      BY <2>3, <2>5 DEF Near
    <3>2. \A d \in Doc : /\ d \in docs \ Found(m) => told'[m][d] \in {"asked", "leaving", "unsure"}
                         /\ d \in Found(m) \ docs => told'[m][d] \in {"leaving", "unsure"}
      <4> TAKE d \in Doc
      <4>1. Tells(m, d, told[m][d], told'[m][d])
        OBVIOUS
      <4> QED
        BY <2>1, <2>2, <2>5, <3>1, <4>1 DEF Tells
    <3> QED
      BY <1>1, <2>2, <2>4, <3>2 DEF Near
  <2> QED
    BY <2>2, <2>3, <2>5
<1>5. \A u \in Thread : Asked(u)' /\ Fine(u)'
  BY BystanderFine
<1> QED
  BY <1>2, <1>3, <1>4, <1>5 DEF Faith

\* The end of a call that adds or removes.
LEMMA EndStep ==
    ASSUME Ground, NEW t \in Thread, call[t].at \in Steps, call[t].kind \in Writers,
           NEW ok \in BOOLEAN, Finish(t, ok), UNCHANGED <<head, snaps, disk, setup>>,
           used'.names = used.names, used'.born = used.born,
           ok => call[t].at \in {"release", "unlock"} /\ call[t].ok
    PROVE  /\ Faith'
           /\ \A m \in Matter, d \in Doc : Tells(m, d, told[m][d], told'[m][d])
           /\ \A m \in Matter, d \in Doc : <<m, d>> # <<M(t), call[t].d>> => told'[m][d] = told[m][d]
<1> DEFINE x == M(t)
           e == call[t].d
           was == told[x][e]
           now == After(call[t].kind, ok, was)
<1>1. x \in Matter /\ e \in Doc /\ Asked(t) /\ Fine(t) /\ Working(call[t])
  BY AtHand DEF Working
<1>2. told \in [Matter -> [Doc -> P!Told]]
  BY DEF Ground, Faith, ToldTypes
<1>3. /\ call'[t] = Idle /\ \A u \in Thread \ {t} : call'[u] = call[u]
      /\ told' = [told EXCEPT ![x][e] = now]
  <2>1. e # Nil
    BY <1>1, MatterConstants
  <2> QED
    BY <2>1 DEF Finish, M, Ground, Types, CallTypes
<1>4. Tells(x, e, was, now) /\ now \in P!Told
  <2>1. CASE call[t].kind = "add"
    <3>1. was = "asked"
      BY <1>1, <2>1 DEF Asked
    <3>2. ok => head[x] # Nil /\ e \in Found(x)
      BY <1>1, <2>1 DEF Fine, Changes, Bears, Published, Writers
    <3> QED
      BY <2>1, <3>1, <3>2 DEF After, Tells, P!Told
  <2>2. CASE call[t].kind = "remove"
    <3>1. was \in {"leaving", "unsure", "gone"}
      BY <1>1, <2>2 DEF Asked
    <3>2. ok => /\ head[x] # Nil /\ e \notin Found(x)
                /\ \A n \in DOMAIN snaps[x] : e \notin snaps[x][n]
                /\ \A w \in Worker : disk[w][x] # Nil /\ disk[w][x].seq = head[x].seq => e \notin disk[w][x].docs
      BY <1>1, <2>2 DEF Fine, Changes, Bears, Published, Writers
    <3>3. CASE ok
      BY <2>2, <3>1, <3>2, <3>3 DEF After, Tells, P!Told
    <3>4. CASE ~ok
      BY <2>2, <3>1, <3>4 DEF After, Tells, P!Told
    <3> QED
      BY <3>3, <3>4
  <2> QED
    BY <2>1, <2>2 DEF Writers
<1> HIDE DEF now
<1>5. /\ told'[x][e] = now
      /\ \A m \in Matter, d \in Doc : <<m, d>> # <<x, e>> => told'[m][d] = told[m][d]
      /\ told' \in [Matter -> [Doc -> P!Told]]
  <2>1. told[x] \in [Doc -> P!Told]
    BY <1>1, <1>2
  <2>2. [told[x] EXCEPT ![e] = now] \in [Doc -> P!Told]
    BY <1>1, <1>4, <2>1
  <2>3. told' = [told EXCEPT ![x] = [told[x] EXCEPT ![e] = now]]
    BY <1>3
  <2>4. told'[x] = [told[x] EXCEPT ![e] = now] /\ \A m \in Matter : m # x => told'[m] = told[m]
    BY <1>1, <1>2, <2>3
  <2> QED
    BY <1>1, <1>2, <2>1, <2>2, <2>3, <2>4
<1>6. \A m \in Matter, d \in Doc : Tells(m, d, told[m][d], told'[m][d])
  <2> TAKE m \in Matter, d \in Doc
  <2>1. CASE m = x /\ d = e
    BY <1>4, <1>5, <2>1
  <2>2. CASE ~(m = x /\ d = e)
    BY <1>5, <2>2 DEF Tells
  <2> QED
    BY <2>1, <2>2
<1>7. ASSUME NEW u \in Thread PROVE Bystander(u) \/ (Asked(u)' /\ Fine(u)')
  <2>1. CASE u = t
    BY <1>3, <2>1, IdleFaith
  <2>2. CASE u # t
    <3>1. call'[u] = call[u]
      BY <1>3, <2>2
    <3>2. call[u].kind = "add" => told'[M(u)][call[u].d] = told[M(u)][call[u].d]
      <4>1. SUFFICES ASSUME call[u].kind = "add", M(u) = x, call[u].d = e PROVE FALSE
        <5>1. call[u].kind = "add" => M(u) \in Matter /\ call[u].d \in Doc
          BY AtHand DEF Ground, Types, CallTypes, Proper, Working, Idle, Writers
        <5> QED
          BY <1>5, <5>1
      <4>2. was = "asked"
        BY <4>1 DEF Ground, Faith, Asked
      <4>3. call[t].kind = "add"
        BY <1>1, <4>2 DEF Asked, Writers
      <4> QED
        BY <2>2, <4>1, <4>3 DEF Ground, Faith, OneAdd
    <3>3. call[u].kind = "create" => told'[M(u)] = told[M(u)]
      <4>1. SUFFICES ASSUME call[u].kind = "create" PROVE told'[M(u)] = told[M(u)]
        OBVIOUS
      <4>2. M(u) # x /\ M(u) \in Matter
        BY <2>2, <4>1, OwnerAtWork DEF Ground, Inv, Alone, M, Owns
      <4> QED
        BY <1>1, <1>2, <1>3, <4>2
    <3> QED
      BY <3>1, <3>2, <3>3 DEF Bystander
  <2> QED
    BY <2>1, <2>2
<1>8. OneAdd'
  <2>1. \A u \in Thread : call'[u].kind = "add" => call'[u] = call[u] /\ call[u].kind = "add"
    BY <1>3 DEF Idle
  <2> QED
    BY <2>1 DEF OneAdd, Ground, Faith, M
<1>9. Unborn'
  <2>1. x \in used.born
    BY <1>1, MatterConstants DEF Ground, Inv, Born, M
  <2> QED
    BY <1>5, <2>1 DEF Unborn, Ground, Faith
<1> QED
  BY <1>5, <1>6, <1>7, <1>8, <1>9, ToldStep DEF ToldTypes

\* A call begins.
LEMMA BeginStep ==
    ASSUME Ground, NEW t \in Thread, NEW c \in Calls, Begin(t, c), c # Idle,
           Asked(t)', Fine(t)', ToldTypes', OneAdd',
           c.kind \notin {"create", "purge"} => Known(c.m),
           c.kind = "create" => c.m \notin used.born /\ c.m \in Matter,
           \A m \in Matter, d \in Doc : \/ told'[m][d] = told[m][d]
                                        \/ m = c.m /\ d = c.d /\ Tells(m, d, told[m][d], told'[m][d]) /\ Known(m),
           \A m \in Matter, d \in Doc : told[m][d] = "asked" => told'[m][d] = told[m][d],
           c.kind # "purge"
    PROVE  Faith'
<1>1. /\ call'[t] = c /\ \A u \in Thread \ {t} : call'[u] = call[u]
      /\ call[t] = Idle /\ UNCHANGED <<head, snaps, disk, setup>> /\ used'.names = used.names
      /\ used'.born = IF c.kind = "create" THEN used.born \cup {c.m} ELSE used.born
  BY DEF Begin, Ground, Types, CallTypes, Bounds, remote
<1>2. told \in [Matter -> [Doc -> P!Told]] /\ told' \in [Matter -> [Doc -> P!Told]]
  BY DEF Ground, Faith, ToldTypes
<1>3. \A m \in Matter, d \in Doc : Tells(m, d, told[m][d], told'[m][d])
  BY DEF Tells
<1>4. ASSUME NEW u \in Thread, u # t PROVE Bystander(u)
  <2>1. call'[u] = call[u]
    BY <1>1, <1>4
  <2>2. call[u].kind = "add" => told'[M(u)][call[u].d] = told[M(u)][call[u].d]
    <3>1. SUFFICES ASSUME call[u].kind = "add" PROVE told'[M(u)][call[u].d] = told[M(u)][call[u].d]
      OBVIOUS
    <3>2. M(u) \in Matter /\ call[u].d \in Doc /\ told[M(u)][call[u].d] = "asked"
      BY <3>1, AtHand DEF Ground, Types, CallTypes, Proper, Working, Idle, Writers, Asked
    <3> QED
      BY <3>2
  <2>3. call[u].kind = "create" => told'[M(u)] = told[M(u)]
    <3>1. SUFFICES ASSUME call[u].kind = "create" PROVE told'[M(u)] = told[M(u)]
      OBVIOUS
    <3>2. M(u) \in Matter
      BY <3>1, OwnerAtWork DEF Ground, Owns
    <3>3. c.m # M(u)
      BY <1>1, <1>4, <2>1, <3>1 DEF Ground, Inv, Alone, M
    <3>4. \A d \in Doc : told'[M(u)][d] = told[M(u)][d]
      BY <3>2, <3>3
    <3>5. told[M(u)] \in [Doc -> P!Told] /\ told'[M(u)] \in [Doc -> P!Told]
      BY <1>2, <3>2
    <3> QED
      BY <3>4, <3>5
  <2> QED
    BY <1>1, <2>1, <2>2, <2>3 DEF Bystander
<1>5. Unborn'
  <2>1. \A m \in Matter \ used'.born : m \notin used.born /\ \A d \in Doc : told'[m][d] = told[m][d]
    BY <1>1 DEF Known
  <2> QED
    BY <1>1, <2>1 DEF Unborn, Ground, Faith
<1> QED
  BY <1>1, <1>3, <1>4, <1>5, ToldStep

LEMMA AskStep ==
    ASSUME Ground, NEW t \in Thread, Ask(t), Orderly
    PROVE  Faith' /\ \A m \in Matter, d \in Doc : Tells(m, d, told[m][d], told'[m][d])
<1> USE DEF Tells
<1>1. ToldTypes /\ OneAdd /\ Unborn
  BY DEF Ground, Faith
<1>2. ASSUME NEW m \in Matter, DeleteMatter(t, m) \/ CreateMatter(t, m) \/ Read(t, m),
             NEW c \in Calls, Begin(t, c), c.kind \in {"drop", "create", "read"}
      PROVE  call'[t] = c /\ told' = told /\ OneAdd' /\ ToldTypes' /\ c # Idle /\ M(t)' = c.m /\ setup' = setup
             /\ call'[t].kind \in setup.kinds
  <2>1. /\ call'[t] = c /\ \A u \in Thread \ {t} : call'[u] = call[u]
        /\ told' = told /\ setup' = setup /\ c.kind \in setup.kinds
    BY <1>2 DEF Begin, Ground, Types, CallTypes, DeleteMatter, CreateMatter, Read
  <2> QED
    BY <1>1, <1>2, <2>1 DEF OneAdd, ToldTypes, Idle, M
<1>3. ASSUME NEW m \in Matter, DeleteMatter(t, m)
      PROVE  Faith' /\ told' = told
  <2> DEFINE c == Call("drop", m, "turn")
  <2>1. c \in Calls
    BY DEF Call, Idle, Calls, Kinds, Steps
  <2>2. c.kind = "drop" /\ c.at = "turn" /\ c.m = m /\ c.d = Nil
    BY DEF Call, Idle
  <2>3. Begin(t, c) /\ Known(m)
    BY <1>3 DEF DeleteMatter
  <2> HIDE DEF c
  <2>4. call'[t] = c /\ told' = told /\ OneAdd' /\ ToldTypes' /\ c # Idle /\ call'[t].kind \in setup'.kinds
    BY <1>2, <1>3, <2>1, <2>2, <2>3
  <2>5. Asked(t)' /\ Fine(t)'
    BY <2>2, <2>4 DEF Asked, Fine, Follows, Changes, Puts, Makes, Writers
  <2> QED
    BY <2>1, <2>2, <2>3, <2>4, <2>5, BeginStep
<1>4. ASSUME NEW m \in Matter, CreateMatter(t, m)
      PROVE  Faith' /\ told' = told
  <2> DEFINE c == Call("create", m, "count")
  <2>1. c \in Calls
    BY DEF Call, Idle, Calls, Kinds, Steps
  <2>2. c.kind = "create" /\ c.at = "count" /\ c.m = m /\ c.d = Nil /\ c.prev = Nil
    BY DEF Call, Idle
  <2>3. Begin(t, c) /\ m \notin used.born
    BY <1>4 DEF CreateMatter
  <2> HIDE DEF c
  <2>4. /\ call'[t] = c /\ told' = told /\ OneAdd' /\ ToldTypes' /\ c # Idle /\ M(t)' = m
        /\ call'[t].kind \in setup'.kinds
    BY <1>2, <1>4, <2>1, <2>2, <2>3
  <2>5. head'[m] = Nil /\ (\A d \in Doc : told'[m][d] = "new") /\ \A w \in Worker : disk'[w][m] = Nil
    BY <1>1, <2>3, <2>4 DEF Unborn, Begin, remote
  <2>6. Asked(t)' /\ Fine(t)'
    BY <2>2, <2>4, <2>5 DEF Asked, Fine, Follows, Changes, Puts, Makes, Writers
  <2> QED
    BY <2>1, <2>2, <2>3, <2>4, <2>6, BeginStep
<1>5. ASSUME NEW m \in Matter, Read(t, m)
      PROVE  Faith' /\ told' = told
  <2> DEFINE owed == {d \in Doc : told[m][d] = "kept"}
             gone == {d \in Doc : told[m][d] = "gone"}
             c == [Call("read", m, "pointer") EXCEPT !.owed = owed, !.gone = gone]
  <2>1. owed \in SUBSET Doc /\ gone \in SUBSET Doc
    OBVIOUS
  <2>2. (\A d \in owed : told[m][d] \notin {"new", "asked"}) /\ \A d \in gone : told[m][d] = "gone"
    OBVIOUS
  <2>3. Begin(t, c) /\ Known(m)
    BY <1>5 DEF Read
  <2> HIDE DEF owed, gone
  <2>4. c \in Calls
    BY <2>1 DEF Call, Idle, Calls, Kinds, Steps
  <2>5. c.kind = "read" /\ c.at = "pointer" /\ c.m = m /\ c.d = Nil /\ c.owed = owed /\ c.gone = gone
    BY DEF Call, Idle
  <2> HIDE DEF c
  <2>6. /\ call'[t] = c /\ told' = told /\ OneAdd' /\ ToldTypes' /\ c # Idle /\ M(t)' = m
        /\ call'[t].kind \in setup'.kinds
    BY <1>2, <1>5, <2>3, <2>4, <2>5
  <2>7. Asked(t)' /\ Fine(t)'
    BY <2>2, <2>5, <2>6 DEF Asked, Fine, Follows, Changes, Puts, Makes, Writers
  <2> QED
    BY <2>3, <2>4, <2>5, <2>6, <2>7, BeginStep
<1>6. ASSUME NEW m \in Matter, NEW d \in Doc, NEW kind \in Writers, NEW now \in {"asked", "leaving"}, Known(m),
             Begin(t, [Call(kind, m, "turn") EXCEPT !.d = d]), told' = [told EXCEPT ![m][d] = now],
             \/ kind = "add" /\ now = "asked" /\ told[m][d] = "new"
             \/ kind = "remove" /\ now = "leaving" /\ told[m][d] \in {"kept", "unsure", "leaving"}
      PROVE  Faith' /\ \A x \in Matter, e \in Doc : Tells(x, e, told[x][e], told'[x][e])
  <2> DEFINE c == [Call(kind, m, "turn") EXCEPT !.d = d]
  <2>1. c \in Calls
    BY DEF Call, Idle, Calls, Kinds, Steps, Writers
  <2>2. c.kind = kind /\ c.at = "turn" /\ c.m = m /\ c.d = d
    BY DEF Call, Idle
  <2>3. Begin(t, c)
    BY <1>6
  <2> HIDE DEF c
  <2>4. /\ call'[t] = c /\ \A u \in Thread \ {t} : call'[u] = call[u]
        /\ setup' = setup /\ c.kind \in setup.kinds /\ M(t)' = m
    BY <2>2, <2>3 DEF Begin, Ground, Types, CallTypes, M
  <2>5. told \in [Matter -> [Doc -> P!Told]] /\ now \in P!Told
    BY <1>1 DEF ToldTypes, P!Told
  <2>6. /\ told'[m][d] = now
        /\ \A x \in Matter, e \in Doc : x # m \/ e # d => told'[x][e] = told[x][e]
        /\ told' \in [Matter -> [Doc -> P!Told]]
    <3>1. told[m] \in [Doc -> P!Told]
      BY <2>5
    <3>2. [told[m] EXCEPT ![d] = now] \in [Doc -> P!Told]
      BY <2>5, <3>1
    <3>3. told' = [told EXCEPT ![m] = [told[m] EXCEPT ![d] = now]]
      BY <1>6
    <3>4. told'[m] = [told[m] EXCEPT ![d] = now] /\ \A x \in Matter : x # m => told'[x] = told[x]
      BY <2>5, <3>3
    <3> QED
      BY <2>5, <3>1, <3>2, <3>3, <3>4
  <2>7. Asked(t)' /\ Fine(t)'
    BY <1>6, <2>2, <2>4, <2>6 DEF Asked, Fine, Follows, Changes, Puts, Makes, Writers, Published
  <2>8. OneAdd'
    <3>1. SUFFICES ASSUME NEW u \in Thread, u # t, call[u].kind = "add", kind = "add", M(u) = m, call[u].d = d
                   PROVE  FALSE
      BY <1>1, <2>2, <2>4 DEF OneAdd, M
    <3>2. told[m][d] = "asked"
      BY <3>1 DEF Ground, Faith, Asked
    <3> QED
      BY <1>6, <3>1, <3>2
  <2>9. \A x \in Matter, e \in Doc : \/ told'[x][e] = told[x][e]
                                     \/ x = m /\ e = d /\ Tells(x, e, told[x][e], told'[x][e])
    BY <1>6, <2>6
  <2>10. \A x \in Matter, e \in Doc : told[x][e] = "asked" => told'[x][e] = told[x][e]
    BY <1>6, <2>6
  <2>11. c # Idle /\ c.kind \notin {"create", "purge"}
    BY <2>2 DEF Idle, Writers
  <2>12. Faith'
    BY <1>6, <2>1, <2>2, <2>3, <2>6, <2>7, <2>8, <2>9, <2>10, <2>11, BeginStep DEF ToldTypes
  <2> QED
    BY <2>9, <2>12
<1>7. ASSUME DeleteTenant(t) PROVE FALSE
  BY <1>7 DEF DeleteTenant, Begin, Call, Idle, Orderly, Ground, Types
<1>8. ASSUME NEW m \in Matter, NEW d \in Doc, AddDocument(t, m, d) \/ DeleteDocument(t, m, d)
      PROVE  Faith' /\ \A x \in Matter, e \in Doc : Tells(x, e, told[x][e], told'[x][e])
  BY <1>6, <1>8 DEF AddDocument, DeleteDocument, Writers
<1> QED
  BY <1>3, <1>4, <1>5, <1>7, <1>8 DEF Ask

LEMMA ExpireStep ==
    ASSUME Ground, NEW m \in Matter, Expire(m)
    PROVE  Faith' /\ told' = told
<1>1. UNCHANGED <<head, snaps, disk, call, told, used, setup>>
  BY DEF Expire
<1>2. \A u \in Thread : Bystander(u)
  BY <1>1 DEF Bystander
<1>3. OneAdd' /\ Unborn' /\ ToldTypes'
  BY <1>1 DEF Ground, Faith, OneAdd, Unborn, ToldTypes, M
<1> QED
  BY <1>1, <1>2, <1>3, ToldStep DEF Tells

\* The calls of a worker that dies end, and their callers are told nothing.
LEMMA DieStep ==
    ASSUME Ground, NEW w \in Worker, Die(w)
    PROVE  Faith' /\ \A m \in Matter, d \in Doc : Tells(m, d, told[m][d], told'[m][d])
<1> DEFINE mine == {t \in Thread : setup.seat[t] = w}
           lost == {<<call[t].m, call[t].d>> : t \in {u \in mine : call[u].d # Nil}}
<1>1. UNCHANGED <<head, snaps, setup>> /\ used'.names = used.names /\ used'.born = used.born
  BY DEF Die, remote, Ground, Types, Bounds
<1>2. \A u \in Thread : call'[u] = IF setup.seat[u] = w THEN Idle ELSE call[u]
  BY DEF Die
<1>3. /\ told' = [m \in Matter |-> [d \in Doc |->
                   IF <<m, d>> \in lost /\ told[m][d] # "gone" THEN "unsure" ELSE told[m][d]]]
      /\ disk' = disk \/ disk' = [disk EXCEPT ![w] = [m \in Matter |-> Nil]]
  BY DEF Die
<1>4. \A m \in Matter, d \in Doc : <<m, d>> \in lost =>
        \E v \in Thread : call[v].kind \in Writers /\ M(v) = m /\ call[v].d = d
  BY DEF Ground, Faith, Asked, M
<1>5. \A m \in Matter, d \in Doc : told'[m][d] = told[m][d] \/ (<<m, d>> \in lost /\ told[m][d] # "gone" /\ told'[m][d] = "unsure")
  BY <1>3
<1>6. told \in [Matter -> [Doc -> P!Told]] /\ told' \in [Matter -> [Doc -> P!Told]]
  <2>1. told \in [Matter -> [Doc -> P!Told]] /\ "unsure" \in P!Told
    BY DEF Ground, Faith, ToldTypes, P!Told
  <2> HIDE DEF lost
  <2> QED
    BY <1>3, <2>1
<1> HIDE DEF lost
<1>7. \A m \in Matter, d \in Doc : <<m, d>> \in lost /\ told[m][d] # "gone" => told[m][d] \in {"asked", "leaving", "unsure"}
  BY <1>4 DEF Ground, Faith, Asked, Writers
<1>8. \A m \in Matter, d \in Doc : Tells(m, d, told[m][d], told'[m][d])
  BY <1>5, <1>7 DEF Tells
<1>9. \A x \in Worker, m \in Matter : (x # w => disk'[x][m] = disk[x][m]) /\ (disk'[x][m] = disk[x][m] \/ disk'[x][m] = Nil)
  BY <1>3 DEF Ground, Types, Disks
<1>10. ASSUME NEW u \in Thread PROVE Bystander(u) \/ (Asked(u)' /\ Fine(u)')
  <2>1. CASE setup.seat[u] = w
    BY <1>2, <2>1, IdleFaith
  <2>2. CASE setup.seat[u] # w
    <3>1. call'[u] = call[u]
      BY <1>2, <2>2
    <3>2. call[u].kind = "add" => told'[M(u)][call[u].d] = told[M(u)][call[u].d]
      <4>1. SUFFICES ASSUME call[u].kind = "add", <<M(u), call[u].d>> \in lost PROVE FALSE
        <5>1. call[u].kind = "add" => M(u) \in Matter /\ call[u].d \in Doc
          BY AtHand DEF Ground, Types, CallTypes, Proper, Working, Idle, Writers
        <5> QED
          BY <1>5, <5>1
      <4>2. told[M(u)][call[u].d] = "asked"
        BY <4>1 DEF Ground, Faith, Asked
      <4>3. PICK v \in Thread : v # u /\ call[v].kind \in Writers /\ M(v) = M(u) /\ call[v].d = call[u].d
        BY <2>2, <4>1 DEF lost, Ground, Faith, Asked, M
      <4>4. call[v].kind = "add"
        BY <4>2, <4>3 DEF Ground, Faith, Asked, Writers
      <4> QED
        BY <4>1, <4>3, <4>4 DEF Ground, Faith, OneAdd
    <3>3. call[u].kind = "create" => told'[M(u)] = told[M(u)]
      <4>1. SUFFICES ASSUME call[u].kind = "create" PROVE told'[M(u)] = told[M(u)]
        OBVIOUS
      <4>2. M(u) \in Matter
        BY <4>1, OwnerAtWork DEF Ground, Owns
      <4>3. \A d \in Doc : <<M(u), d>> \notin lost
        <5>1. SUFFICES ASSUME NEW d \in Doc, <<M(u), d>> \in lost PROVE FALSE
          OBVIOUS
        <5>2. PICK v \in Thread : call[v].kind \in Writers /\ M(v) = M(u)
          BY <1>4, <4>2, <5>1
        <5> QED
          BY <4>1, <5>2 DEF Ground, Inv, Alone, M, Writers
      <4>4. \A d \in Doc : told'[M(u)][d] = told[M(u)][d]
        BY <1>5, <4>2, <4>3
      <4>5. told[M(u)] \in [Doc -> P!Told] /\ told'[M(u)] \in [Doc -> P!Told]
        BY <1>6, <4>2
      <4> QED
        BY <4>4, <4>5
    <3>4. \A m \in Matter : disk'[W(u)][m] = disk[W(u)][m]
      BY <1>9, <2>2, SeatType DEF Ground, Types, W
    <3> QED
      BY <3>1, <3>2, <3>3, <3>4 DEF Bystander
  <2> QED
    BY <2>1, <2>2
<1>11. OneAdd'
  <2>1. \A u \in Thread : call'[u].kind = "add" => call'[u] = call[u] /\ call[u].kind = "add"
    BY <1>2 DEF Idle
  <2> QED
    BY <2>1 DEF OneAdd, Ground, Faith, M
<1>12. Unborn'
  <2>1. ASSUME NEW m \in Matter, m \notin used.born, NEW d \in Doc PROVE <<m, d>> \notin lost
    <3>1. SUFFICES ASSUME <<m, d>> \in lost PROVE FALSE
      OBVIOUS
    <3>2. PICK v \in Thread : call[v].kind \in Writers /\ M(v) = m
      BY <1>4, <3>1
    <3> QED
      BY <2>1, <3>2, MatterConstants DEF Ground, Inv, Born, M
  <2>2. \A m \in Matter \ used.born : \A d \in Doc : told'[m][d] = told[m][d]
    BY <1>5, <2>1
  <2> QED
    BY <1>1, <1>9, <2>2 DEF Unborn, Ground, Faith
<1> QED
  BY <1>1, <1>6, <1>8, <1>9, <1>10, <1>11, <1>12, ToldStep DEF ToldTypes

-----------------------------------------------------------------------------
(* The shapes of a thread's steps.                                         *)

\* What a caller is told, and what readers find, by a step of one thread.
Honest(t) ==
    /\ Faith'
    /\ \/ told' = told /\ StoreMove(t)
       \/ /\ call[t].kind \in Writers /\ UNCHANGED <<head, snaps>>
          /\ \A m \in Matter, d \in Doc : /\ Tells(m, d, told[m][d], told'[m][d])
                                          /\ <<m, d>> # <<M(t), call[t].d>> => told'[m][d] = told[m][d]

LEMMA SameStoreMove ==
    ASSUME Ground, NEW t \in Thread, UNCHANGED <<head, snaps, setup>>,
           used'.names = used.names, used'.born = used.born
    PROVE  StoreMove(t) /\ Rises(M(t))
<1>1. \A m \in Matter : DOMAIN snaps[m] \subseteq 1 .. used.names /\ used.names \in Nat
  BY DEF Ground, Types, StoreTypes, Bounds
<1>2. \A m \in Matter : \A n \in DOMAIN snaps[m] : ~(n > used.names)
  BY <1>1
<1>3. used'.names >= used.names
  BY DEF Ground, Types, Bounds
<1> QED
  BY <1>2, <1>3 DEF StoreMove, Immutable, Rises

LEMMA SameDiskMove ==
    ASSUME Ground, NEW t \in Thread, call[t].at \in Steps, StoreMove(t), told' = told, disk' = disk, Rises(M(t))
    PROVE  DiskMove(t)
<1>1. M(t) \in Matter /\ W(t) \in Worker
  BY AtHand
<1>2. \A w \in Worker, m \in Matter : w = W(t) /\ m = M(t) => Fits(w, m)'
  <2> TAKE w \in Worker, m \in Matter
  <2>1. w = W(t) /\ m = M(t) => disk'[w][m] = disk[w][m] /\ Rises(m) /\ Immutable(m)
    BY DEF StoreMove
  <2> QED
    BY <2>1, FitsStays
<1> QED
  BY <1>2 DEF DiskMove

\* What a step does that gives thread t another copy.
LEMMA DiskSet ==
    ASSUME Ground, NEW t \in Thread, call[t].at \in Steps, NEW copy, SetDisk(t, copy)
    PROVE  /\ disk'[W(t)][M(t)] = copy
           /\ \A w \in Worker, m \in Matter : w # W(t) \/ m # M(t) => disk'[w][m] = disk[w][m]
<1>1. M(t) \in Matter /\ W(t) \in Worker
  BY AtHand
<1> QED
  BY <1>1 DEF SetDisk, Ground, Types, Disks

LEMMA GoneDiskMove ==
    ASSUME Ground, NEW t \in Thread, call[t].at \in Steps, SetDisk(t, Nil), Owns(t) \/ call[t].kind = "read"
    PROVE  DiskMove(t)
BY DiskSet DEF DiskMove, Fits

\* The call goes on as c.
LEMMA GoStep ==
    ASSUME Ground, NEW t \in Thread, call[t].at \in Steps, StoreMove(t), DiskMove(t), told' = told,
           NEW c, call' = [call EXCEPT ![t] = c], Fine(t)',
           c.kind = call[t].kind, c.m = call[t].m, c.d = call[t].d,
           c.owed = call[t].owed, c.gone = call[t].gone
    PROVE  Honest(t)
<1>1. call'[t] = c /\ \A u \in Thread \ {t} : call'[u] = call[u]
  BY DEF Ground, Types, CallTypes
<1>2. CallMove(t)
  BY <1>1 DEF CallMove
<1> QED
  BY <1>2, StoreStep DEF Honest

\* The call ends and its caller learns nothing about a document.
LEMMA EndSame ==
    ASSUME Ground, NEW t \in Thread, call[t].at \in Steps, StoreMove(t), DiskMove(t),
           call[t].kind \notin Writers, NEW ok, Finish(t, ok)
    PROVE  Honest(t)
<1>1. call'[t] = Idle /\ (\A u \in Thread \ {t} : call'[u] = call[u]) /\ call[t].d = Nil
  BY AtHand DEF Finish, Ground, Types, CallTypes, Asked
<1>2. told' = told
  BY <1>1 DEF Finish
<1>3. CallMove(t)
  BY <1>1, <1>2 DEF CallMove
<1> QED
  BY <1>1, <1>2, <1>3, StoreStep, IdleFaith DEF Honest

\* The call ends in a step that changes no object and no copy.
LEMMA FinishStep ==
    ASSUME Ground, NEW t \in Thread, call[t].at \in Steps, UNCHANGED <<head, snaps, disk, setup>>,
           used'.names = used.names, used'.born = used.born, NEW ok \in BOOLEAN, Finish(t, ok),
           ok /\ call[t].kind \in Writers => call[t].at \in {"release", "unlock"} /\ call[t].ok
    PROVE  Honest(t)
<1>1. CASE call[t].kind \in Writers
  BY <1>1, EndStep DEF Honest
<1>2. CASE call[t].kind \notin Writers
  <2>1. call[t].d = Nil /\ told' = told
    BY <1>2, AtHand DEF Asked, Finish
  <2> QED
    BY <1>2, <2>1, EndSame, SameStoreMove, SameDiskMove
<1> QED
  BY <1>1, <1>2

\* The call leaves, with its change acknowledged or not.
LEMMA LeaveFine ==
    ASSUME Ground, NEW t \in Thread, call[t].at \in Steps, Holding(t), NEW ok \in BOOLEAN, Leave(t, ok),
           StoreMove(t), DiskMove(t),
           ok /\ call[t].kind \in Writers => Published(t) /\ head'[M(t)] = head[M(t)] /\ disk' = disk,
           ok /\ call[t].kind = "remove" => \A n \in DOMAIN snaps'[M(t)] : call[t].d \notin snaps'[M(t)][n]
    PROVE  Honest(t)
<1> DEFINE c == [call[t] EXCEPT !.at = "release", !.ok = ok]
           x == M(t)
<1>1. /\ x \in Matter /\ W(t) \in Worker /\ Working(call[t]) /\ call[t] \in Calls /\ Fine(t)
      /\ snaps[x] \in Snap
  BY AtHand
<1>2. /\ c.kind = call[t].kind /\ c.m = call[t].m /\ c.d = call[t].d /\ c.at = "release" /\ c.ok = ok
      /\ c.owed = call[t].owed /\ c.gone = call[t].gone
  BY <1>1 DEF Calls
<1>3. call' = [call EXCEPT ![t] = c] /\ told' = told
  BY DEF Leave
<1>4. call'[t] = c
  BY <1>3 DEF Ground, Types, CallTypes
<1> HIDE DEF c
<1>5. M(t)' = x /\ call'[t].kind = call[t].kind /\ call'[t].d = call[t].d /\ call'[t].at = "release" /\ call'[t].ok = ok
  BY <1>2, <1>4 DEF M
<1>6. Changes(t)'
  <2>1. CASE ~ok
    BY <1>5, <2>1 DEF Changes, Published
  <2>2. CASE ok /\ call[t].kind \in Writers
    <3>1. head[x] # Nil /\ Bears(t, Found(x)) /\ head'[x] = head[x]
      BY <1>1, <2>2 DEF Fine, Changes
    <3>2. Found(x)' = Found(x)
      BY <1>1, <1>5, <3>1, FoundSame DEF StoreMove
    <3>3. ASSUME call[t].kind = "remove", NEW w \in Worker, disk'[w][x] # Nil, disk'[w][x].seq = head[x].seq
          PROVE  call[t].d \notin disk'[w][x].docs
      BY <1>1, <2>2, <3>3 DEF Fine, Changes
    <3> QED
      BY <1>5, <2>2, <3>1, <3>2, <3>3 DEF Changes, Bears, Published
  <2>3. CASE call[t].kind \notin Writers
    BY <1>5, <2>3 DEF Changes
  <2> QED
    BY <2>1, <2>2, <2>3
<1>7. Follows(t)' /\ Puts(t)' /\ Makes(t)'
  BY <1>1, <1>5 DEF Follows, Puts, Makes, Holding, Writers
<1> QED
  BY <1>2, <1>3, <1>6, <1>7, GoStep DEF Fine

\* An exception after the lock was claimed.
LEMMA RaiseStep ==
    ASSUME Ground, NEW t \in Thread, call[t].at \in Steps \ {"turn", "claim"}, StoreMove(t), Raise(t),
           Rises(M(t)) \/ (call[t].kind = "create" /\ call[t].at = "publish"),
           call[t].at \in {"list", "sweep"} => head'[M(t)] = head[M(t)]
    PROVE  Honest(t)
<1> DEFINE swallowed == call[t].at \in {"list", "sweep"} /\ call[t].kind \in {"add", "create"}
<1>1. /\ M(t) \in Matter /\ Working(call[t]) /\ call[t] \in Calls /\ Asked(t) /\ Fine(t)
      /\ call[t].kind # "purge"
  BY AtHand
<1>2. call[t].kind \in Writers \cup {"create"} /\ call[t].at \in Guarded /\ ~swallowed => SetDisk(t, Nil)
  BY DEF Raise
<1>3. ~(call[t].kind \in Writers \cup {"create"} /\ call[t].at \in Guarded /\ ~swallowed) => disk' = disk
  BY DEF Raise
<1>4. call[t].kind \in Writers \cup {"drop"} => Holding(t) /\ Leave(t, swallowed)
  BY DEF Raise, Holding
<1>5. call[t].kind \notin Writers \cup {"drop"} => Finish(t, swallowed) /\ call[t].kind \notin Writers
  BY DEF Raise
<1>6. told' = told
  <2>1. CASE call[t].kind \in Writers \cup {"drop"}
    BY <1>4, <2>1 DEF Leave
  <2>2. CASE call[t].kind \notin Writers \cup {"drop"}
    BY <1>1, <1>5, <2>2 DEF Finish, Asked
  <2> QED
    BY <2>1, <2>2
<1>7. DiskMove(t)
  <2>1. CASE call[t].kind \in Writers \cup {"create"} /\ call[t].at \in Guarded /\ ~swallowed
    BY <1>2, <1>4, <2>1, GoneDiskMove DEF Owns
  <2>2. CASE ~(call[t].kind \in Writers \cup {"create"} /\ call[t].at \in Guarded /\ ~swallowed)
    BY <1>3, <1>6, <2>2, SameDiskMove DEF Guarded
  <2> QED
    BY <2>1, <2>2
<1>8. CASE call[t].kind \in Writers \cup {"drop"}
  <2>1. swallowed /\ call[t].kind \in Writers => Published(t) /\ head'[M(t)] = head[M(t)] /\ disk' = disk /\ call[t].kind # "remove"
    BY <1>3 DEF Published, Writers
  <2> QED
    BY <1>4, <1>7, <1>8, <2>1, LeaveFine DEF Writers
<1>9. CASE call[t].kind \notin Writers \cup {"drop"}
  BY <1>5, <1>7, <1>9, EndSame
<1> QED
  BY <1>8, <1>9

LEMMA RaiseSame ==
    ASSUME Ground, NEW t \in Thread, call[t].at \in Steps \ {"turn"}, Raise(t), UNCHANGED <<head, snaps, setup>>,
           used'.names = used.names, used'.born = used.born
    PROVE  Honest(t)
<1>1. CASE call[t].at # "claim"
  BY <1>1, SameStoreMove, RaiseStep
<1>2. CASE call[t].at = "claim"
  BY <1>2, FinishStep DEF Raise, Guarded
<1> QED
  BY <1>1, <1>2

\* The call only moves on.
LEMMA MoveOn ==
    ASSUME Ground, NEW t \in Thread, call[t].at \in Steps, UNCHANGED <<head, snaps, disk, told, setup>>,
           used'.names = used.names, used'.born = used.born,
           NEW step, call' = [call EXCEPT ![t].at = step], Fine(t)'
    PROVE  Honest(t)
<1> DEFINE c == [call[t] EXCEPT !.at = step]
<1>1. call[t] \in Calls
  BY AtHand
<1>2. /\ c.kind = call[t].kind /\ c.m = call[t].m /\ c.d = call[t].d
      /\ c.owed = call[t].owed /\ c.gone = call[t].gone
  BY <1>1 DEF Calls
<1>3. StoreMove(t) /\ DiskMove(t)
  BY SameStoreMove, SameDiskMove
<1>4. call' = [call EXCEPT ![t] = c]
  OBVIOUS
<1> QED
  BY <1>2, <1>3, <1>4, GoStep

\* Where it is then, in a store and with a copy that stayed.
LEMMA MovedTo ==
    ASSUME Ground, NEW t \in Thread, call[t].at \in Steps, UNCHANGED <<head, snaps, disk, told, setup>>,
           NEW step, call' = [call EXCEPT ![t].at = step]
    PROVE  /\ call'[t].at = step /\ call'[t].kind = call[t].kind /\ call'[t].d = call[t].d
           /\ call'[t].prev = call[t].prev /\ call'[t].copy = call[t].copy /\ call'[t].new = call[t].new
           /\ call'[t].todo = call[t].todo /\ call'[t].ok = call[t].ok /\ M(t)' = M(t) /\ W(t)' = W(t)
           /\ call'[t].owed = call[t].owed /\ call'[t].gone = call[t].gone
           /\ Local(t)' = Local(t) /\ (\A m : Found(m)' = Found(m)) /\ Found(M(t))' = Found(M(t))
<1>1. call'[t] = [call[t] EXCEPT !.at = step] /\ call[t] \in Calls
  BY AtHand DEF Ground, Types, CallTypes
<1> QED
  BY <1>1 DEF Calls, M, W, Local, Found

LEMMA LockStep ==
    ASSUME Ground, NEW t \in Thread, NEW seen \in BOOLEAN,
           TakeTurn(t) \/ ClaimLock(t, seen) \/ GiveUp(t) \/ StillMine(t) \/ Release(t) \/ Unlock(t)
    PROVE  Honest(t)
<1> USE DEF At, Steps, remote, Go, Stays
<1>1. CASE TakeTurn(t)
  <2>1. /\ call[t].at = "turn" /\ UNCHANGED <<head, snaps, disk, told, setup, used>>
        /\ call' = [call EXCEPT ![t].at = "claim"]
    BY <1>1 DEF TakeTurn
  <2>2. call[t].kind \in Lockers
    BY <2>1, AtHand DEF Working
  <2>3. Fine(t)'
    BY <2>1, <2>2, MovedTo DEF Fine, Follows, Changes, Puts, Makes, Published, Lockers, Writers
  <2> QED
    BY <2>1, <2>3, MoveOn
<1>2. CASE ClaimLock(t, seen)
  <2>1. call[t].at = "claim" /\ UNCHANGED <<head, snaps, setup>> /\ call[t].kind \in Lockers
    BY <1>2, AtHand DEF ClaimLock, Working
  <2>2. CASE seen
    <3>1. UNCHANGED <<disk, told, used>> /\ call' = [call EXCEPT ![t].at = "pointer"]
      BY <1>2, <2>2 DEF ClaimLock, Answered
    <3>2. Fine(t)'
      BY <2>1, <3>1, MovedTo DEF Fine, Follows, Changes, Puts, Makes, Published, Lockers, Writers
    <3> QED
      BY <2>1, <3>1, <3>2, MoveOn
  <2>3. CASE ~seen
    BY <1>2, <2>1, <2>3, RaiseSame DEF ClaimLock, Answered, Ground, Types, Bounds
  <2> QED
    BY <2>2, <2>3
<1>3. CASE GiveUp(t)
  BY <1>3, FinishStep DEF GiveUp
<1>4. CASE StillMine(t)
  <2>1. call[t].at = "mine" /\ UNCHANGED <<head, snaps, setup, used>>
    BY <1>4 DEF StillMine
  <2>2. CASE Mine(t)
    <3>1. UNCHANGED <<disk, told>> /\ call' = [call EXCEPT ![t].at = "upload"]
      BY <1>4, <2>2 DEF StillMine
    <3>2. call[t].kind \in Writers /\ Changes(t)
      BY <2>1, AtHand DEF Working, Fine
    <3>3. /\ call'[t].at = "upload" /\ call'[t].kind = call[t].kind /\ call'[t].d = call[t].d
          /\ call'[t].prev = call[t].prev /\ M(t)' = M(t) /\ Local(t)' = Local(t)
      BY <2>1, <3>1, MovedTo
    <3>4. Local(t) # Nil /\ Local(t).seq = call[t].prev.seq /\ Bears(t, Local(t).docs)
      BY <2>1, <3>2 DEF Changes
    <3>5. Changes(t)'
      BY <3>3, <3>4 DEF Changes, Published, Bears
    <3>6. Follows(t)' /\ Puts(t)' /\ Makes(t)'
      BY <3>2, <3>3 DEF Follows, Puts, Makes, Writers
    <3>7. Fine(t)'
      BY <3>5, <3>6 DEF Fine
    <3> QED
      BY <2>1, <3>1, <3>7, MoveOn
  <2>3. CASE ~Mine(t)
    BY <1>4, <2>1, <2>3, RaiseSame DEF StillMine
  <2> QED
    BY <2>2, <2>3
<1>5. CASE Release(t)
  <2>1. call[t].at = "release" /\ UNCHANGED <<head, snaps, disk, setup, used>>
    BY <1>5 DEF Release
  <2>2. CASE lock[M(t)] = t
    <3>1. UNCHANGED told /\ call' = [call EXCEPT ![t].at = "unlock"]
      BY <1>5, <2>2 DEF Release
    <3>2. call[t].kind \in Lockers /\ Changes(t)
      BY <2>1, AtHand DEF Working, Fine
    <3>3. /\ call'[t].at = "unlock" /\ call'[t].kind = call[t].kind /\ call'[t].d = call[t].d
          /\ call'[t].ok = call[t].ok /\ M(t)' = M(t) /\ Found(M(t))' = Found(M(t))
      BY <2>1, <3>1, MovedTo
    <3>4. Follows(t)' /\ Puts(t)' /\ Makes(t)'
      BY <3>2, <3>3 DEF Follows, Puts, Makes, Lockers, Writers
    <3>5. Changes(t)'
      <4>1. Published(t)' <=> Published(t)
        BY <2>1, <3>3 DEF Published
      <4>2. Bears(t, Found(M(t)))' <=> Bears(t, Found(M(t)))
        BY <3>3 DEF Bears
      <4>3. /\ Published(t) /\ call[t].kind \in Writers => head[M(t)] # Nil /\ Bears(t, Found(M(t)))
            /\ Published(t) /\ call[t].kind = "remove" =>
                 \A w \in Worker : disk[w][M(t)] # Nil /\ disk[w][M(t)].seq = head[M(t)].seq =>
                     call[t].d \notin disk[w][M(t)].docs
            /\ call[t].ok /\ call[t].kind = "remove" =>
                 \A n \in DOMAIN snaps[M(t)] : call[t].d \notin snaps[M(t)][n]
        BY <2>1, <3>2 DEF Changes, Writers
      <4> QED
        BY <2>1, <3>3, <4>1, <4>2, <4>3 DEF Changes, Writers
    <3>6. Fine(t)'
      BY <3>4, <3>5 DEF Fine
    <3> QED
      BY <2>1, <3>1, <3>6, MoveOn
  <2>3. CASE lock[M(t)] # t
    BY <1>5, <2>1, <2>3, FinishStep, AtHand DEF Release, Calls
  <2> QED
    BY <2>2, <2>3
<1>6. CASE Unlock(t)
  BY <1>6, FinishStep, AtHand DEF Unlock, Calls
<1> QED
  BY <1>1, <1>2, <1>3, <1>4, <1>5, <1>6

-----------------------------------------------------------------------------
(* The local copy is brought to the pointer.                               *)

\* A copy near to what the pointer names has what a read owes.
LEMMA NearServes ==
    ASSUME Ground, NEW t \in Thread, call[t].at \in Steps, call[t].kind = "read", head[M(t)] # Nil,
           NEW docs \in SUBSET Doc, Near(docs, M(t))
    PROVE  Serves(t, docs)
<1>1. /\ M(t) \in Matter /\ Asked(t) /\ call[t].owed \subseteq Doc /\ call[t].gone \subseteq Doc
      /\ head[M(t)].name \in DOMAIN snaps[M(t)]
  BY AtHand DEF Calls, Ground, Inv, Sound
<1>2. Found(M(t)) = snaps[M(t)][head[M(t)].name]
  BY <1>1 DEF Found
<1>3. \A d \in Doc : told[M(t)][d] = "kept" => d \in Found(M(t))
  BY <1>1 DEF Ground, Faith, AckedKept
<1>4. \A d \in Doc : told[M(t)][d] = "gone" => d \notin Found(M(t))
  BY <1>1, <1>2 DEF Ground, Faith, GoneIsGone
<1>5. \A d \in call[t].gone : told[M(t)][d] = "gone"
  BY <1>1 DEF Asked
<1> QED
  BY <1>1, <1>3, <1>4, <1>5 DEF Near, Serves

LEMMA TryAgainStep ==
    ASSUME Ground, NEW t \in Thread, call[t].at = "fetch", TryAgain(t), UNCHANGED <<head, snaps, setup>>,
           used'.names = used.names, used'.born = used.born
    PROVE  Honest(t)
<1> DEFINE c == [call[t] EXCEPT !.tries = @ + 1, !.at = "pointer"]
<1>1. /\ call[t].at \in Steps /\ call[t] \in Calls /\ call[t].kind \in Lockers \cup {"read"}
  BY AtHand DEF Steps, Working
<1>2. CASE call[t].tries + 1 < MaxTries
  <2>1. call' = [call EXCEPT ![t] = c] /\ told' = told /\ disk' = disk
    BY <1>2 DEF TryAgain, Stays
  <2>2. /\ c.kind = call[t].kind /\ c.m = call[t].m /\ c.d = call[t].d /\ c.at = "pointer"
        /\ c.owed = call[t].owed /\ c.gone = call[t].gone
    BY <1>1 DEF Calls
  <2>3. call'[t] = c
    BY <2>1 DEF Ground, Types, CallTypes
  <2> HIDE DEF c
  <2>4. Fine(t)'
    BY <1>1, <2>2, <2>3 DEF Fine, Follows, Changes, Puts, Makes, Published, Lockers, Writers
  <2>5. StoreMove(t) /\ DiskMove(t)
    BY <1>1, <2>1, SameStoreMove, SameDiskMove
  <2> QED
    BY <1>1, <2>1, <2>2, <2>4, <2>5, GoStep
<1>3. CASE ~(call[t].tries + 1 < MaxTries)
  BY <1>1, <1>3, RaiseSame DEF TryAgain
<1> QED
  BY <1>2, <1>3

LEMMA PointerStep ==
    ASSUME Ground, NEW t \in Thread, ReadPointer(t)
    PROVE  Honest(t)
<1> DEFINE h == head[M(t)]
           step == IF LocalSeq(t) = h.seq THEN Ready(t) ELSE "fetch"
           c == [call[t] EXCEPT !.prev = h, !.at = step]
           x == M(t)
<1>1. call[t].at = "pointer" /\ call[t].at \in Steps /\ UNCHANGED <<head, snaps, setup, used>>
  BY DEF ReadPointer, At, remote, Steps
<1>2. /\ x \in Matter /\ W(t) \in Worker /\ call[t] \in Calls /\ h \in Head \cup {Nil}
      /\ call[t].kind \in Lockers \cup {"read"}
  BY <1>1, AtHand DEF Working
<1>3. StoreMove(t) /\ Rises(x)
  BY <1>1, SameStoreMove
<1>4. CASE h = Nil
  <2>1. DiskMove(t)
    BY <1>1, <1>2, <1>4, GoneDiskMove DEF ReadPointer, Owns, Holding, Lockers
  <2>2. CASE call[t].kind = "read"
    BY <1>1, <1>3, <1>4, <2>1, <2>2, EndSame DEF ReadPointer, Writers
  <2>3. CASE call[t].kind # "read"
    <3>1. Holding(t) /\ Leave(t, FALSE)
      BY <1>1, <1>2, <1>4, <2>3 DEF ReadPointer, Holding, Lockers
    <3> QED
      BY <1>1, <1>3, <2>1, <3>1, LeaveFine
  <2> QED
    BY <2>2, <2>3
<1>5. CASE h # Nil
  <2>1. call' = [call EXCEPT ![t] = c] /\ told' = told /\ disk' = disk
    BY <1>5 DEF ReadPointer, Stays
  <2>2. step \in {"fetch", "work", "answer"} /\ (step = "answer" => call[t].kind = "read")
        /\ (step = "work" => call[t].kind # "read")
    BY DEF Ready
  <2>3. step # "fetch" => LocalSeq(t) = h.seq
    OBVIOUS
  <2>4. step = "fetch" => LocalSeq(t) # h.seq
    BY DEF Ready
  <2> HIDE DEF step
  <2>5. /\ c.kind = call[t].kind /\ c.m = call[t].m /\ c.d = call[t].d /\ c.at = step /\ c.prev = h
        /\ c.owed = call[t].owed /\ c.gone = call[t].gone
    BY <1>2 DEF Calls
  <2>6. call'[t] = c
    BY <2>1 DEF Ground, Types, CallTypes
  <2> HIDE DEF c
  <2>7. M(t)' = x /\ W(t)' = W(t) /\ Local(t)' = Local(t) /\ (\A docs : Serves(t, docs) => Serves(t, docs)')
    BY <1>1, <2>1, <2>5, <2>6 DEF M, W, Local, Serves
  <2>8. /\ Fits(W(t), x) /\ (Local(t) = Nil \/ Local(t) \in Copy) /\ h \in Head
        /\ h.name \in DOMAIN snaps[x] /\ h.name <= used.names
    BY <1>2, <1>5 DEF Ground, Faith, Types, Disks, Local, Inv, Sound, StoreTypes, Bounds
  <2>9. /\ Local(t) # Nil => Local(t).seq <= h.seq
        /\ Local(t) # Nil /\ Local(t).seq = h.seq => Near(Local(t).docs, x)
    BY <1>5, <2>8 DEF Fits, Local
  <2>10. step # "fetch" => Local(t) # Nil /\ Local(t).seq = h.seq
    BY <2>3, <2>8 DEF LocalSeq, Fresh, Head
  <2>11. step = "fetch" /\ Local(t) # Nil => Local(t).seq < h.seq
    BY <2>4, <2>8, <2>9 DEF LocalSeq, Fresh, Head, Copy
  <2>12. call[t].kind = "read" /\ step = "answer" => Serves(t, Local(t).docs)
    BY <1>1, <1>5, <2>8, <2>9, <2>10, NearServes DEF Copy
  <2>13. call[t].kind = "read" => Serves(t, snaps[x][h.name])
    <3>1. snaps[x][h.name] = Found(x) /\ snaps[x][h.name] \in SUBSET Doc
      BY <1>2, <1>5, <2>8, SnapType DEF Found, Ground, Types, StoreTypes
    <3>2. Near(Found(x), x)
      BY DEF Near
    <3> QED
      BY <1>1, <1>5, <3>1, <3>2, NearServes
  <2>14. Follows(t)'
    BY <1>1, <2>1, <2>2, <2>5, <2>6, <2>7, <2>8, <2>11, <2>12, <2>13 DEF Follows, Head
  <2>15. Changes(t)'
    BY <1>1, <2>1, <2>2, <2>5, <2>6, <2>7, <2>10 DEF Changes, Published
  <2>16. Puts(t)' /\ Makes(t)'
    BY <1>2, <2>2, <2>5, <2>6 DEF Puts, Makes, Lockers, Writers
  <2>17. Fine(t)'
    BY <2>14, <2>15, <2>16 DEF Fine
  <2>18. DiskMove(t)
    BY <1>1, <1>3, <2>1, SameDiskMove
  <2> QED
    BY <1>1, <1>3, <2>1, <2>5, <2>17, <2>18, GoStep
<1> QED
  BY <1>4, <1>5

LEMMA FetchStep ==
    ASSUME Ground, NEW t \in Thread, Fetch(t)
    PROVE  Honest(t)
<1> DEFINE name == call[t].prev.name
           x == M(t)
           docs == snaps[x][name]
           c == [call[t] EXCEPT !.copy = docs, !.at = "unpack"]
<1>1. call[t].at = "fetch" /\ call[t].at \in Steps /\ UNCHANGED <<head, snaps, setup, used>>
  BY DEF Fetch, At, remote, Steps
<1>2. /\ x \in Matter /\ W(t) \in Worker /\ call[t] \in Calls /\ head[x] \in Head \cup {Nil}
      /\ call[t].kind \in Lockers \cup {"read"} /\ call[t].prev # Nil /\ Follows(t)
  BY <1>1, AtHand DEF Working, Fine, Lockers, Unread
<1>3. CASE name \in DOMAIN snaps[x]
  <2>1. call' = [call EXCEPT ![t] = c] /\ told' = told /\ disk' = disk
    BY <1>3 DEF Fetch, Stays
  <2>2. call[t].prev = head[x] => docs = Found(x)
    BY <1>2, <1>3 DEF Found
  <2>3. call[t].kind = "read" => Serves(t, docs)
    BY <1>1, <1>2, <1>3 DEF Follows
  <2> HIDE DEF docs
  <2>4. /\ c.kind = call[t].kind /\ c.m = call[t].m /\ c.d = call[t].d /\ c.at = "unpack" /\ c.prev = call[t].prev
        /\ c.copy = docs /\ c.owed = call[t].owed /\ c.gone = call[t].gone
    BY <1>2 DEF Calls
  <2>5. call'[t] = c
    BY <2>1 DEF Ground, Types, CallTypes
  <2> HIDE DEF c
  <2>6. M(t)' = x /\ Local(t)' = Local(t) /\ (Serves(t, docs) => Serves(t, call[t].copy)')
        /\ (\A m : Found(m)' = Found(m))
    BY <1>1, <2>1, <2>4, <2>5 DEF M, W, Local, Serves, Found
  <2>7. Found(M(t))' = Found(x)
    BY <1>1, <2>6 DEF Found
  <2>8. Follows(t)'
    BY <1>1, <1>2, <2>1, <2>2, <2>3, <2>4, <2>5, <2>6, <2>7 DEF Follows
  <2>9. Changes(t)' /\ Puts(t)' /\ Makes(t)'
    BY <1>2, <2>4, <2>5 DEF Changes, Puts, Makes, Published, Lockers, Writers
  <2>10. Fine(t)'
    BY <2>8, <2>9 DEF Fine
  <2>11. StoreMove(t) /\ DiskMove(t)
    BY <1>1, <2>1, SameStoreMove, SameDiskMove
  <2> QED
    BY <1>1, <2>1, <2>4, <2>10, <2>11, GoStep
<1>4. CASE name \notin DOMAIN snaps[x]
  BY <1>1, <1>4, TryAgainStep DEF Fetch
<1> QED
  BY <1>3, <1>4

\* A step that puts another copy in place and leaves the store as it is.
LEMMA CopyMove ==
    ASSUME Ground, NEW t \in Thread, call[t].at \in Steps, UNCHANGED <<head, snaps, told, setup>>,
           NEW copy \in Copy, SetDisk(t, copy),
           head[M(t)] # Nil => /\ copy.seq <= head[M(t)].seq
                               /\ copy.seq = head[M(t)].seq => Near(copy.docs, M(t)),
           \/ Owns(t)
           \/ /\ call[t].kind = "read"
              /\ head[M(t)] # Nil /\ copy.seq = head[M(t)].seq => copy.docs = Found(M(t))
    PROVE  DiskMove(t) /\ M(t) \in Matter /\ W(t) \in Worker /\ disk'[W(t)][M(t)] = copy
<1>1. /\ disk'[W(t)][M(t)] = copy /\ M(t) \in Matter /\ W(t) \in Worker
      /\ \A w \in Worker, m \in Matter : w # W(t) \/ m # M(t) => disk'[w][m] = disk[w][m]
  BY DiskSet, AtHand
<1>2. \A m : Found(m)' = Found(m)
  BY DEF Found
<1>3. \A w \in Worker, m \in Matter : w = W(t) /\ m = M(t) => Fits(w, m)'
  BY <1>1, <1>2 DEF Fits, Near
<1>4. \A w \in Worker, m \in Matter : w = W(t) /\ m = M(t) =>
        \/ Owns(t)
        \/ /\ call[t].kind = "read"
           /\ head'[m] # Nil /\ disk'[w][m] # Nil /\ disk'[w][m].seq = head'[m].seq => disk'[w][m].docs = Found(m)'
  BY <1>1, <1>2
<1> QED
  BY <1>1, <1>3, <1>4 DEF DiskMove

LEMMA UnpackStep ==
    ASSUME Ground, NEW t \in Thread, Unpack(t)
    PROVE  Honest(t)
<1> DEFINE x == M(t)
           copy == [docs |-> call[t].copy, seq |-> LocalSeq(t)]
           c == [call[t] EXCEPT !.copy = {}, !.at = "stamp"]
<1>1. call[t].at = "unpack" /\ call[t].at \in Steps /\ UNCHANGED <<head, snaps, told, setup, used>>
  BY DEF Unpack, At, remote, Steps
<1>2. /\ x \in Matter /\ W(t) \in Worker /\ call[t] \in Calls /\ head[x] \in Head \cup {Nil}
      /\ call[t].kind \in Lockers \cup {"read"} /\ call[t].prev \in Head /\ Follows(t)
  BY <1>1, AtHand DEF Working, Fine, Lockers, Unread, Calls
<1>3. copy \in Copy /\ copy.seq < call[t].prev.seq
  <2>1. Local(t) = Nil \/ Local(t) \in Copy
    BY <1>2 DEF Ground, Types, Disks, Local
  <2>2. LocalSeq(t) \in Nat \cup {Fresh} /\ LocalSeq(t) < call[t].prev.seq
    BY <1>1, <1>2, <2>1 DEF LocalSeq, Copy, Follows, Head, Fresh
  <2> QED
    BY <1>2, <2>2 DEF Copy, Calls
<1>4. head[x] # Nil => copy.seq < head[x].seq
  BY <1>1, <1>2, <1>3 DEF Follows, Head, Copy, Fresh
<1>5. Owns(t) \/ call[t].kind = "read"
  BY <1>1, <1>2 DEF Owns, Holding, Lockers
<1>6. copy.docs = call[t].copy
  OBVIOUS
<1>7. SetDisk(t, copy) /\ call' = [call EXCEPT ![t] = c]
  BY DEF Unpack
<1> HIDE DEF copy
<1>8. DiskMove(t) /\ disk'[W(t)][x] = copy /\ copy # Nil
  <2>1. copy.seq \in Int /\ (head[x] # Nil => head[x].seq \in Int)
    BY <1>2, <1>3 DEF Copy, Head, Fresh
  <2>2. head[x] # Nil => copy.seq <= head[x].seq /\ copy.seq # head[x].seq
    BY <1>4, <2>1
  <2>3. copy # Nil
    BY <1>3, NilApart
  <2> QED
    BY <1>1, <1>3, <1>5, <1>7, <2>2, <2>3, CopyMove
<1>9. /\ c.kind = call[t].kind /\ c.m = call[t].m /\ c.d = call[t].d /\ c.at = "stamp" /\ c.prev = call[t].prev
      /\ c.owed = call[t].owed /\ c.gone = call[t].gone
  BY <1>2 DEF Calls
<1>10. call'[t] = c
  BY <1>7 DEF Ground, Types, CallTypes
<1> HIDE DEF c
<1>11. /\ M(t)' = x /\ Local(t)' = copy /\ (Serves(t, call[t].copy) => Serves(t, Local(t).docs)')
  BY <1>1, <1>6, <1>8, <1>9, <1>10 DEF M, W, Local, Serves
<1>12. Found(M(t))' = Found(x)
  BY <1>1, <1>11 DEF Found
<1>13. Follows(t)'
  BY <1>1, <1>2, <1>3, <1>6, <1>8, <1>9, <1>10, <1>11, <1>12 DEF Follows
<1>14. Changes(t)' /\ Puts(t)' /\ Makes(t)'
  BY <1>2, <1>9, <1>10 DEF Changes, Puts, Makes, Published, Lockers, Writers
<1>15. Fine(t)'
  BY <1>13, <1>14 DEF Fine
<1> QED
  BY <1>1, <1>7, <1>8, <1>9, <1>15, SameStoreMove, GoStep

LEMMA StampStep ==
    ASSUME Ground, NEW t \in Thread, Stamp(t)
    PROVE  Honest(t)
<1> DEFINE x == M(t)
           copy == [Local(t) EXCEPT !.seq = call[t].prev.seq]
           c == [call[t] EXCEPT !.tries = 0, !.at = Ready(t)]
<1>1. call[t].at = "stamp" /\ call[t].at \in Steps /\ UNCHANGED <<head, snaps, setup, used>>
  BY DEF Stamp, At, remote, Steps
<1>2. /\ x \in Matter /\ W(t) \in Worker /\ call[t] \in Calls /\ head[x] \in Head \cup {Nil}
      /\ call[t].kind \in Lockers \cup {"read"} /\ call[t].prev \in Head /\ Follows(t)
  BY <1>1, AtHand DEF Working, Fine, Lockers, Unread, Calls
<1>3. Local(t) # Nil /\ Local(t) \in Copy
  BY <1>1, <1>2, LocalType DEF Follows, Ground
<1>4. told' = told /\ SetDisk(t, copy) /\ call' = [call EXCEPT ![t] = c]
  BY <1>3 DEF Stamp, Stays
<1>5. copy \in Copy /\ copy.docs = Local(t).docs /\ copy.seq = call[t].prev.seq
  BY <1>2, <1>3 DEF Copy, Head
<1> HIDE DEF copy
<1>6. copy # Nil
  BY <1>5, NilApart
<1>7. head[x] # Nil => copy.seq <= head[x].seq /\ (copy.seq = head[x].seq => copy.docs = Found(x))
  BY <1>1, <1>2, <1>5 DEF Follows
<1>8. Owns(t) \/ call[t].kind = "read"
  BY <1>1, <1>2 DEF Owns, Holding, Lockers
<1>9. DiskMove(t) /\ disk'[W(t)][x] = copy
  <2>1. Near(Found(x), x)
    BY DEF Near
  <2> QED
    BY <1>1, <1>4, <1>5, <1>7, <1>8, <2>1, CopyMove
<1>10. /\ c.kind = call[t].kind /\ c.m = call[t].m /\ c.d = call[t].d /\ c.at = Ready(t) /\ c.prev = call[t].prev
       /\ c.owed = call[t].owed /\ c.gone = call[t].gone
  BY <1>2 DEF Calls
<1>11. call'[t] = c
  BY <1>4 DEF Ground, Types, CallTypes
<1> HIDE DEF c
<1>12. /\ M(t)' = x /\ Local(t)' = copy /\ (Serves(t, Local(t).docs) => Serves(t, Local(t).docs)')
  BY <1>1, <1>4, <1>5, <1>9, <1>10, <1>11 DEF M, W, Local, Serves
<1>13. Follows(t)'
  BY <1>1, <1>2, <1>3, <1>10, <1>11, <1>12 DEF Follows, Ready
<1>14. Changes(t)'
  BY <1>5, <1>6, <1>10, <1>11, <1>12 DEF Changes, Ready, Published
<1>15. Puts(t)' /\ Makes(t)'
  BY <1>2, <1>10, <1>11 DEF Puts, Makes, Ready, Lockers, Writers
<1>16. Fine(t)'
  BY <1>13, <1>14, <1>15 DEF Fine
<1> QED
  BY <1>1, <1>4, <1>9, <1>10, <1>16, SameStoreMove, GoStep

LEMMA AnswerStep ==
    ASSUME Ground, NEW t \in Thread, Answer(t)
    PROVE  Honest(t)
<1>1. call[t].at = "answer" /\ call[t].at \in Steps /\ UNCHANGED <<head, snaps, disk, setup, used>>
  BY DEF Answer, At, remote, Steps
<1>2. call[t].kind = "read"
  BY <1>1, AtHand DEF Working
<1>3. (Local(t) # Nil) \in BOOLEAN /\ Finish(t, Local(t) # Nil)
  BY DEF Answer
<1> QED
  BY <1>1, <1>2, <1>3, FinishStep DEF Writers

-----------------------------------------------------------------------------
(* The change of the local copy.                                           *)

\* A writer's own copy, after a change of its document, is still near to the pointer.
LEMMA EditStep ==
    ASSUME Ground, NEW t \in Thread, call[t].at = "work", call[t].kind \in Writers,
           UNCHANGED <<remote, used, setup>>, Local(t) # Nil, NEW docs \in SUBSET Doc,
           SetDisk(t, [Local(t) EXCEPT !.docs = docs]), Go(t, "mine"), Stays,
           \A d \in Doc : d # call[t].d => (d \in docs <=> d \in Local(t).docs),
           Bears(t, docs)
    PROVE  Honest(t)
<1> DEFINE x == M(t)
           copy == [Local(t) EXCEPT !.docs = docs]
           c == [call[t] EXCEPT !.at = "mine"]
<1>1. call[t].at \in Steps /\ UNCHANGED <<head, snaps, told, setup, used>>
  BY DEF remote, Steps, Stays
<1>2. /\ x \in Matter /\ W(t) \in Worker /\ call[t] \in Calls /\ head[x] \in Head \cup {Nil}
      /\ call[t].prev \in Head /\ call[t].d \in Doc /\ Asked(t) /\ Changes(t) /\ Owns(t) /\ Secure(t)
  BY <1>1, AtHand DEF Working, Fine, Lockers, Unread, Calls, Owns, Holding
<1>3. Local(t) \in Copy /\ head[x] = call[t].prev /\ Local(t).seq = head[x].seq
  BY <1>2, LocalType DEF Ground, Secure, Lockers, Before, Changes
<1>4. head[x] # Nil /\ Near(Local(t).docs, x)
  BY <1>2, <1>3, NilApart DEF Ground, Faith, Fits, Local
<1>5. copy \in Copy /\ copy.docs = docs /\ copy.seq = Local(t).seq
  BY <1>3 DEF Copy
<1>6. SetDisk(t, copy) /\ call' = [call EXCEPT ![t] = c] /\ copy # Nil
  BY <1>5, NilApart DEF Go
<1> HIDE DEF copy
<1>7. Near(docs, x)
  <2>1. Found(x) \subseteq Doc /\ Found(x) = snaps[x][head[x].name] /\ head[x].name \in DOMAIN snaps[x]
    BY <1>2, <1>4, SnapType DEF Ground, Inv, Sound, Found, Types, StoreTypes
  <2>2. told[x][call[t].d] = "gone" => call[t].d \notin Found(x)
    BY <1>2, <2>1 DEF Ground, Faith, GoneIsGone
  <2>3. /\ call[t].kind = "add" => call[t].d \in docs /\ told[x][call[t].d] = "asked"
        /\ call[t].kind = "remove" => call[t].d \notin docs /\ told[x][call[t].d] \in {"leaving", "unsure", "gone"}
    BY <1>2 DEF Bears, Asked
  <2>4. call[t].d \in docs \ Found(x) => told[x][call[t].d] \in {"asked", "leaving", "unsure"}
    BY <2>3 DEF Writers
  <2>5. call[t].d \in Found(x) \ docs => told[x][call[t].d] \in {"leaving", "unsure"}
    BY <2>2, <2>3 DEF Writers
  <2> QED
    BY <1>4, <2>1, <2>4, <2>5 DEF Near
<1>8. DiskMove(t) /\ disk'[W(t)][x] = copy
  <2>1. copy.seq <= head[x].seq
    BY <1>2, <1>3, <1>4, <1>5 DEF Head
  <2> QED
    BY <1>1, <1>2, <1>5, <1>6, <1>7, <2>1, CopyMove
<1>9. /\ c.kind = call[t].kind /\ c.m = call[t].m /\ c.d = call[t].d /\ c.at = "mine" /\ c.prev = call[t].prev
      /\ c.owed = call[t].owed /\ c.gone = call[t].gone
  BY <1>2 DEF Calls
<1>10. call'[t] = c
  BY <1>6 DEF Ground, Types, CallTypes
<1> HIDE DEF c
<1>11. M(t)' = x /\ Local(t)' = copy /\ (Bears(t, docs) => Bears(t, Local(t).docs)')
  BY <1>1, <1>5, <1>8, <1>9, <1>10 DEF M, W, Local, Bears
<1>12. Changes(t)'
  BY <1>3, <1>5, <1>6, <1>9, <1>10, <1>11 DEF Changes, Published
<1>13. Follows(t)' /\ Puts(t)' /\ Makes(t)'
  BY <1>9, <1>10 DEF Follows, Puts, Makes, Writers
<1>14. Fine(t)'
  BY <1>12, <1>13 DEF Fine
<1> QED
  BY <1>1, <1>6, <1>8, <1>9, <1>14, SameStoreMove, GoStep

LEMMA ChangeStep ==
    ASSUME Ground, NEW t \in Thread, Ingest(t) \/ Scrub(t) \/ NoSuchDocument(t)
    PROVE  Honest(t)
<1> DEFINE x == M(t)
<1>1. call[t].at = "work" /\ call[t].at \in Steps /\ UNCHANGED <<remote, used, setup>> /\ UNCHANGED <<head, snaps>>
      /\ call[t].kind \in Writers
  BY DEF Ingest, Scrub, NoSuchDocument, At, Steps, Writers, remote
<1>2. /\ x \in Matter /\ W(t) \in Worker /\ call[t] \in Calls /\ call[t].d \in Doc /\ Changes(t)
  BY <1>1, AtHand DEF Working, Fine
<1>3. Local(t) # Nil /\ Local(t) \in Copy /\ Local(t).seq = call[t].prev.seq
  BY <1>1, <1>2, LocalType DEF Changes, Ground
<1>4. CASE Ingest(t)
  <2>1. Bears(t, Local(t).docs \cup {call[t].d})
    BY <1>4 DEF Bears, Ingest
  <2> QED
    BY <1>1, <1>2, <1>3, <1>4, <2>1, EditStep DEF Ingest, Copy
<1>5. CASE Scrub(t)
  <2>1. Bears(t, Local(t).docs \ {call[t].d})
    BY <1>5 DEF Bears, Scrub
  <2> QED
    BY <1>1, <1>2, <1>3, <1>5, <2>1, EditStep DEF Scrub, Copy
<1>6. CASE NoSuchDocument(t)
  <2> DEFINE old == Snapshots(x, {call[t].prev.name})
             c == [call[t] EXCEPT !.todo = old, !.at = "resweep"]
  <2>1. CASE old = {}
    BY <1>1, <1>6, <2>1, RaiseSame DEF NoSuchDocument
  <2>2. CASE old # {}
    <3>1. call' = [call EXCEPT ![t] = c] /\ told' = told /\ disk' = disk /\ call[t].d \notin Local(t).docs
          /\ call[t].kind = "remove"
      BY <1>3, <1>6, <2>2 DEF NoSuchDocument, Stays
    <3> HIDE DEF old
    <3>2. /\ c.kind = call[t].kind /\ c.m = call[t].m /\ c.d = call[t].d /\ c.at = "resweep" /\ c.prev = call[t].prev
          /\ c.owed = call[t].owed /\ c.gone = call[t].gone
      BY <1>2 DEF Calls
    <3>3. call'[t] = c
      BY <3>1 DEF Ground, Types, CallTypes
    <3> HIDE DEF c
    <3>4. M(t)' = x /\ Local(t)' = Local(t)
      BY <1>1, <3>1, <3>2, <3>3 DEF M, W, Local
    <3>5. Changes(t)'
      BY <1>3, <3>1, <3>2, <3>3, <3>4 DEF Changes, Published
    <3>6. Follows(t)' /\ Puts(t)' /\ Makes(t)'
      BY <1>1, <3>2, <3>3 DEF Follows, Puts, Makes, Writers
    <3>7. Fine(t)'
      BY <3>5, <3>6 DEF Fine
    <3> QED
      BY <1>1, <3>1, <3>2, <3>7, SameStoreMove, SameDiskMove, GoStep
  <2> QED
    BY <2>1, <2>2
<1> QED
  BY <1>4, <1>5, <1>6

\* The copy takes the number of the pointer, which names the same documents.
LEMMA RecordStep ==
    ASSUME Ground, NEW t \in Thread, Record(t)
    PROVE  Honest(t)
<1> DEFINE x == M(t)
           copy == [Local(t) EXCEPT !.seq = NextSeq(t)]
           c == [call[t] EXCEPT !.at = "list"]
<1>1. call[t].at = "record" /\ call[t].at \in Steps /\ UNCHANGED <<head, snaps, setup, used>>
  BY DEF Record, At, remote, Steps
<1>2. /\ x \in Matter /\ W(t) \in Worker /\ call[t] \in Calls /\ head[x] \in Head \cup {Nil}
      /\ call[t].kind \in Writers \cup {"create"} /\ Puts(t) /\ Changes(t) /\ Makes(t) /\ Owns(t)
  BY <1>1, AtHand DEF Working, Fine, Owns, Holding
<1>3. /\ Local(t) # Nil /\ Local(t) \in Copy /\ head[x] # Nil /\ head[x].seq = NextSeq(t)
      /\ Local(t).docs = Found(x) /\ NextSeq(t) \in Nat
  BY <1>1, <1>2, LocalType, NextSeqType DEF Puts, Ground
<1>4. told' = told /\ SetDisk(t, copy) /\ call' = [call EXCEPT ![t] = c]
  BY <1>3 DEF Record, Stays, Go
<1>5. copy \in Copy /\ copy.docs = Found(x) /\ copy.seq = head[x].seq
  BY <1>3 DEF Copy
<1> HIDE DEF copy
<1>6. DiskMove(t) /\ disk'[W(t)][x] = copy /\ \A w \in Worker \ {W(t)} : disk'[w][x] = disk[w][x]
  <2>1. Near(Found(x), x) /\ copy.seq <= head[x].seq
    BY <1>2, <1>3, <1>5 DEF Near, Head
  <2> QED
    BY <1>1, <1>2, <1>4, <1>5, <2>1, CopyMove, DiskSet
<1>7. /\ c.kind = call[t].kind /\ c.m = call[t].m /\ c.d = call[t].d /\ c.at = "list" /\ c.prev = call[t].prev
      /\ c.owed = call[t].owed /\ c.gone = call[t].gone
  BY <1>2 DEF Calls
<1>8. call'[t] = c
  BY <1>4 DEF Ground, Types, CallTypes
<1> HIDE DEF c
<1>9. /\ M(t)' = x /\ W(t)' = W(t) /\ Local(t)' = copy
  BY <1>1, <1>4, <1>5, <1>6, <1>7, <1>8 DEF M, W, Local
<1>10. Bears(t, Found(M(t)))' <=> Bears(t, Found(x))
  BY <1>1, <1>7, <1>8, <1>9 DEF Bears, Found
<1>11. Published(t) /\ Published(t)'
  BY <1>1, <1>7, <1>8 DEF Published
<1>12. call[t].kind \in Writers => Bears(t, Found(x))
  BY <1>2, <1>11 DEF Changes
<1>13. call[t].kind = "remove" =>
         \A w \in Worker : disk'[w][x] # Nil /\ disk'[w][x].seq = head[x].seq => call[t].d \notin disk'[w][x].docs
  BY <1>2, <1>5, <1>6, <1>11, <1>12 DEF Changes, Writers, Bears
<1>14. Changes(t)'
  BY <1>1, <1>3, <1>7, <1>8, <1>9, <1>10, <1>12, <1>13 DEF Changes, Writers
<1>15. Makes(t)'
  BY <1>1, <1>2, <1>4, <1>6, <1>7, <1>8, <1>9 DEF Makes
<1>16. Follows(t)' /\ Puts(t)'
  BY <1>2, <1>7, <1>8 DEF Follows, Puts, Writers
<1>17. Fine(t)'
  BY <1>14, <1>15, <1>16 DEF Fine
<1> QED
  BY <1>1, <1>4, <1>6, <1>7, <1>17, SameStoreMove, GoStep

-----------------------------------------------------------------------------
(* The snapshot and the pointer.                                           *)

\* What a call is about to put: a copy of the pointer it read with its change made, or the
\* empty database of a new matter.
LEMMA ToPut ==
    ASSUME Ground, NEW t \in Thread, call[t].at \in {"upload", "publish"}
    PROVE  /\ call[t].at \in Steps /\ M(t) \in Matter /\ W(t) \in Worker /\ call[t] \in Calls
           /\ call[t].kind \in Writers \cup {"create"} /\ Owns(t) /\ Secure(t) /\ Fine(t)
           /\ Local(t) # Nil /\ Local(t) \in Copy /\ snaps[M(t)] \in Snap
           /\ call[t].kind \in Writers =>
                /\ head[M(t)] = call[t].prev /\ head[M(t)] \in Head /\ head[M(t)] # Nil
                /\ Local(t).seq = head[M(t)].seq /\ Near(Local(t).docs, M(t)) /\ Bears(t, Local(t).docs)
           /\ call[t].kind = "create" =>
                /\ head[M(t)] = Nil /\ call[t].prev = Nil /\ Local(t).docs = {} /\ Local(t).seq = Fresh
                /\ \A d \in Doc : told[M(t)][d] = "new"
<1>1. /\ call[t].at \in Steps /\ M(t) \in Matter /\ W(t) \in Worker /\ call[t] \in Calls
      /\ call[t].kind \in Writers \cup {"create"} /\ Owns(t) /\ Secure(t) /\ Fine(t) /\ snaps[M(t)] \in Snap
      /\ head[M(t)] \in Head \cup {Nil} /\ (call[t].kind \in Writers => call[t].prev \in Head)
  BY AtHand, OpenMatter DEF Steps, Working, Ground, Lockers, Unread, Calls
<1>2. CASE call[t].kind \in Writers
  <2>1. /\ Local(t) # Nil /\ Local(t).seq = call[t].prev.seq /\ Bears(t, Local(t).docs)
        /\ head[M(t)] = call[t].prev /\ head[M(t)] # Nil
    BY <1>1, <1>2, NilApart DEF Fine, Changes, Secure, Lockers, Before
  <2>2. Near(Local(t).docs, M(t)) /\ Local(t) \in Copy
    BY <1>1, <2>1, LocalType DEF Ground, Faith, Fits, Local
  <2> QED
    BY <1>1, <1>2, <2>1, <2>2 DEF Writers
<1>3. CASE call[t].kind = "create"
  <2>1. Local(t) = [docs |-> {}, seq |-> Fresh] /\ head[M(t)] = Nil
    BY <1>1, <1>3 DEF Fine, Makes
  <2>2. [docs |-> {}, seq |-> Fresh] \in Copy
    BY DEF Copy
  <2>3. call[t].prev = Nil /\ \A d \in Doc : told[M(t)][d] = "new"
    BY <1>1, <1>3 DEF Fine, Makes
  <2>4. Local(t) # Nil /\ Local(t) \in Copy /\ Local(t).docs = {} /\ Local(t).seq = Fresh
    BY <2>1, <2>2, NilApart
  <2>5. call[t].kind \notin Writers
    BY <1>3 DEF Writers
  <2> QED
    BY <1>1, <2>1, <2>3, <2>4, <2>5
<1> QED
  BY <1>1, <1>2, <1>3

LEMMA UploadStep ==
    ASSUME Ground, NEW t \in Thread, NEW seen \in BOOLEAN, Upload(t, seen)
    PROVE  Honest(t)
<1> DEFINE x == M(t)
           n == used.names + 1
           c == [call[t] EXCEPT !.new = n, !.at = "publish"]
<1>1. call[t].at = "upload"
  BY DEF Upload, At
<1>2. /\ call[t].at \in Steps /\ x \in Matter /\ W(t) \in Worker /\ call[t] \in Calls
      /\ call[t].kind \in Writers \cup {"create"} /\ Owns(t) /\ Fine(t)
      /\ Local(t) # Nil /\ Local(t) \in Copy /\ snaps[x] \in Snap
      /\ call[t].kind \in Writers => /\ Near(Local(t).docs, x) /\ Bears(t, Local(t).docs)
                                     /\ Local(t).seq = call[t].prev.seq /\ head[x] # Nil
      /\ call[t].kind = "create" => Local(t).docs = {}
  BY <1>1, ToPut
<1>3. /\ snaps' = [snaps EXCEPT ![x] = Plus(snaps[x], n, Local(t).docs)] /\ UNCHANGED <<head, setup>>
      /\ used'.names = n /\ used'.born = used.born /\ n \in Nat /\ used.names \in Nat
  BY <1>2 DEF Upload, Ground, Types, Bounds
<1>4. snaps'[x] = Plus(snaps[x], n, Local(t).docs) /\ \A m \in Matter \ {x} : snaps'[m] = snaps[m]
  BY <1>2, <1>3 DEF Ground, Types, StoreTypes
<1>5. DOMAIN snaps'[x] = DOMAIN snaps[x] \cup {n} /\ snaps'[x][n] = Local(t).docs
      /\ \A k \in DOMAIN snaps[x] : k # n => snaps'[x][k] = snaps[x][k]
  BY <1>4 DEF Plus
<1>6. \A k \in DOMAIN snaps[x] : k \in Nat /\ k <= used.names /\ k # n
  BY <1>2, <1>3 DEF Ground, Types, StoreTypes
<1>7. ASSUME NEW d \in Doc, told[x][d] = "gone"
      PROVE  d \notin Local(t).docs
  <2>1. CASE call[t].kind \in Writers
    <3>1. d \notin Found(x)
      BY <1>2, <1>7, <2>1 DEF Ground, Faith, GoneIsGone, Found
    <3> QED
      BY <1>2, <1>7, <2>1, <3>1 DEF Near
  <2>2. CASE call[t].kind = "create"
    BY <1>2, <2>2
  <2> QED
    BY <1>2, <2>1, <2>2
<1> HIDE DEF n
<1>8. StoreMove(t) /\ Rises(x)
  <2>1. Immutable(x)
    BY <1>3, <1>5, <1>6 DEF Immutable, n
  <2>2. \A k \in DOMAIN snaps'[x], d \in Doc : k > used.names /\ told[x][d] = "gone" => d \notin snaps'[x][k]
    BY <1>3, <1>5, <1>6, <1>7
  <2>3. used'.names >= used.names
    BY <1>3 DEF n
  <2> QED
    BY <1>2, <1>3, <1>4, <2>1, <2>2, <2>3 DEF StoreMove, Rises
<1>9. CASE seen
  <2>1. call' = [call EXCEPT ![t] = c] /\ told' = told /\ disk' = disk
    BY <1>2, <1>9 DEF Upload, Stays, n
  <2>2. /\ c.kind = call[t].kind /\ c.m = call[t].m /\ c.d = call[t].d /\ c.at = "publish" /\ c.prev = call[t].prev
        /\ c.owed = call[t].owed /\ c.gone = call[t].gone /\ c.new = n
    BY <1>2 DEF Calls
  <2>3. call'[t] = c
    BY <2>1 DEF Ground, Types, CallTypes
  <2> HIDE DEF c
  <2>4. M(t)' = x /\ W(t)' = W(t) /\ Local(t)' = Local(t) /\ (Bears(t, Local(t).docs)' <=> Bears(t, Local(t).docs))
    BY <1>3, <2>1, <2>2, <2>3 DEF M, W, Local, Bears
  <2>5. Changes(t)'
    BY <1>2, <2>2, <2>3, <2>4 DEF Changes, Published
  <2>6. Puts(t)'
    BY <1>2, <1>5, <2>2, <2>3, <2>4 DEF Puts
  <2>7. Makes(t)'
    <3>1. Makes(t)
      BY <1>2 DEF Fine
    <3> QED
      BY <1>1, <1>3, <2>1, <2>2, <2>3, <2>4, <3>1 DEF Makes
  <2>8. Follows(t)'
    BY <1>2, <2>2, <2>3 DEF Follows, Writers
  <2>9. Fine(t)'
    BY <2>5, <2>6, <2>7, <2>8 DEF Fine
  <2> QED
    BY <1>2, <1>8, <2>1, <2>2, <2>9, SameDiskMove, GoStep
<1>10. CASE ~seen
  BY <1>1, <1>2, <1>8, <1>10, RaiseStep DEF Upload
<1> QED
  BY <1>9, <1>10

LEMMA PublishStep ==
    ASSUME Ground, NEW t \in Thread, NEW seen \in BOOLEAN, Publish(t, seen)
    PROVE  Honest(t)
<1> DEFINE x == M(t)
           h == [seq |-> NextSeq(t), name |-> call[t].new]
           c == [call[t] EXCEPT !.at = "record"]
<1>1. call[t].at = "publish" /\ UNCHANGED <<snaps, setup>>
  BY DEF Publish, At
<1>2. /\ call[t].at \in Steps /\ x \in Matter /\ W(t) \in Worker /\ call[t] \in Calls
      /\ call[t].kind \in Writers \cup {"create"} /\ Owns(t) /\ Secure(t) /\ Fine(t)
      /\ Local(t) # Nil /\ Local(t) \in Copy
      /\ call[t].kind \in Writers => /\ Near(Local(t).docs, x) /\ Bears(t, Local(t).docs)
                                     /\ head[x] \in Head /\ head[x] # Nil /\ head[x] = call[t].prev
                                     /\ Local(t).seq = head[x].seq
      /\ call[t].kind = "create" => /\ head[x] = Nil /\ call[t].prev = Nil /\ Local(t).docs = {}
                                    /\ Local(t).seq = Fresh /\ \A d \in Doc : told[x][d] = "new"
  BY <1>1, ToPut
<1>3. CASE head[x] # call[t].prev
  BY <1>2, <1>3
<1>4. CASE head[x] = call[t].prev
  <2>1. /\ head' = [head EXCEPT ![x] = h] /\ Answered(t, seen, [call EXCEPT ![t].at = "record"])
    BY <1>4 DEF Publish
  <2>2. used'.names = used.names /\ used'.born = used.born /\ used.names \in Nat
    BY <2>1 DEF Answered, Ground, Types, Bounds
  <2>3. head'[x] = h /\ \A m \in Matter \ {x} : head'[m] = head[m]
    BY <1>2, <2>1 DEF Ground, Types, StoreTypes
  <2>4. /\ h.name = call[t].new /\ h.seq = NextSeq(t) /\ NextSeq(t) \in Nat /\ h # Nil
        /\ call[t].kind \in Writers => NextSeq(t) > head[x].seq
        /\ Local(t).seq < NextSeq(t)
    <3>1. NextSeq(t) \in Nat /\ call[t].new \in Nat \ {0}
      BY <1>1, <1>2, NextSeqType, AtHand DEF Ground, Working, Calls
    <3>2. h \in Head
      BY <3>1 DEF Head
    <3>3. h # Nil
      BY <3>2, NilApart
    <3>4. call[t].kind \in Writers => NextSeq(t) > head[x].seq
      BY <1>2 DEF NextSeq, Head
    <3>5. Local(t).seq < NextSeq(t)
      BY <1>2, <3>1, <3>4 DEF Fresh, Copy, Head
    <3> QED
      BY <3>1, <3>3, <3>4, <3>5
  <2> HIDE DEF h
  <2>5. call[t].new \in DOMAIN snaps[x] /\ \A m \in Matter : m = x => Found(m)' = Local(t).docs
    <3>1. call[t].new \in DOMAIN snaps[x] /\ snaps[x][call[t].new] = Local(t).docs
      BY <1>1, <1>2 DEF Secure, Fine, Puts
    <3> QED
      BY <1>1, <2>3, <2>4, <3>1 DEF Found
  <2>6. StoreMove(t)
    <3>1. \A m \in Matter : m = x => Shifts(m)
      <4>1. CASE call[t].kind \in Writers
        BY <1>2, <2>5, <4>1 DEF Shifts, Near
      <4>2. CASE call[t].kind = "create"
        BY <1>2, <2>5, <4>2 DEF Shifts
      <4> QED
        BY <1>2, <4>1, <4>2
    <3>2. Rises(x) \/ call[t].kind = "create"
      BY <1>2, <2>3, <2>4 DEF Rises
    <3>3. Immutable(x) /\ \A k \in DOMAIN snaps[x] : ~(k > used.names)
      <4>1. \A k \in DOMAIN snaps[x] : k \in Nat /\ k <= used.names
        BY <1>2, <2>2 DEF Ground, Types, StoreTypes
      <4> QED
        BY <1>1, <2>2, <4>1 DEF Immutable
    <3> QED
      BY <1>1, <1>2, <2>2, <2>3, <3>1, <3>2, <3>3 DEF StoreMove
  <2>7. CASE seen
    <3>1. call' = [call EXCEPT ![t] = c] /\ told' = told /\ disk' = disk
      BY <2>1, <2>7 DEF Answered, Stays
    <3>2. /\ c.kind = call[t].kind /\ c.m = call[t].m /\ c.d = call[t].d /\ c.at = "record" /\ c.prev = call[t].prev
          /\ c.owed = call[t].owed /\ c.gone = call[t].gone
      BY <1>2 DEF Calls
    <3>3. call'[t] = c
      BY <3>1 DEF Ground, Types, CallTypes
    <3> HIDE DEF c
    <3>4. /\ M(t)' = x /\ W(t)' = W(t) /\ Local(t)' = Local(t) /\ (Bears(t, Local(t).docs)' <=> Bears(t, Local(t).docs))
          /\ NextSeq(t)' = NextSeq(t)
      BY <1>1, <3>1, <3>2, <3>3 DEF M, W, Local, Bears, NextSeq
    <3>5. Found(M(t))' = Local(t).docs
      BY <1>1, <1>2, <2>3, <2>4, <2>5, <3>4 DEF Found
    <3>6. DiskMove(t)
      <4>1. \A w \in Worker, m \in Matter : w = W(t) /\ m = x => Fits(w, m)'
        BY <1>2, <2>3, <2>4, <3>1 DEF Fits, Local, Copy, Fresh
      <4> QED
        BY <1>2, <3>1, <4>1 DEF DiskMove
    <3>7. Puts(t)'
      BY <1>2, <2>3, <2>4, <3>2, <3>3, <3>4, <3>5 DEF Puts
    <3>8. Changes(t)'
      <4>1. Published(t)' /\ call'[t].at \notin {"work", "resweep", "mine", "upload", "publish", "sweep", "release", "unlock"}
        BY <3>2, <3>3 DEF Published
      <4>2. call[t].kind \in Writers => Bears(t, Found(M(t)))'
        BY <1>2, <3>2, <3>3, <3>5 DEF Bears
      <4>3. ASSUME call[t].kind \in Writers, NEW w \in Worker, disk[w][x] # Nil
            PROVE  disk[w][x].seq # NextSeq(t)
        <5>1. disk[w][x] \in Copy /\ disk[w][x].seq <= head[x].seq
          BY <1>2, <4>3 DEF Ground, Types, Disks, Faith, Fits
        <5> QED
          BY <1>2, <2>4, <4>3, <5>1 DEF Copy, Head, Fresh
      <4> QED
        BY <2>3, <2>4, <3>1, <3>2, <3>3, <3>4, <4>1, <4>2, <4>3 DEF Changes, Writers
    <3>9. Makes(t)'
      <4>1. Makes(t)
        BY <1>2 DEF Fine
      <4> QED
        BY <1>1, <3>1, <3>2, <3>3, <3>4, <4>1 DEF Makes
    <3>10. Follows(t)'
      BY <1>2, <3>2, <3>3 DEF Follows, Writers
    <3>11. Fine(t)'
      BY <3>7, <3>8, <3>9, <3>10 DEF Fine
    <3> QED
      BY <1>2, <2>6, <3>1, <3>2, <3>6, <3>11, GoStep
  <2>8. CASE ~seen
    <3>1. Rises(x) \/ call[t].kind = "create"
      BY <1>2, <2>3, <2>4 DEF Rises
    <3> QED
      BY <1>1, <1>2, <2>1, <2>6, <2>8, <3>1, RaiseStep DEF Answered
  <2> QED
    BY <2>7, <2>8
<1> QED
  BY <1>3, <1>4

-----------------------------------------------------------------------------
(* The sweeps.                                                             *)

\* An owner deletes a snapshot of its matter, or HEAD.
LEMMA RemoveMove ==
    ASSUME Ground, NEW t \in Thread, call[t].at \in Steps, Owns(t), setup' = setup,
           used'.names = used.names, used'.born = used.born,
           NEW n \in Int, n >= 0, Remove(M(t), n)
    PROVE  /\ StoreMove(t) /\ Rises(M(t)) /\ (n > 0 => head' = head)
           /\ DOMAIN snaps'[M(t)] = DOMAIN snaps[M(t)] \ {n}
           /\ \A k \in DOMAIN snaps'[M(t)] : snaps'[M(t)][k] = snaps[M(t)][k]
<1> DEFINE x == M(t)
<1>1. x \in Matter
  BY AtHand
<1>2. /\ \A m \in Matter \ {x} : head'[m] = head[m] /\ snaps'[m] = snaps[m]
      /\ n > 0 => head' = head
      /\ n = 0 => head'[x] = Nil
      /\ DOMAIN snaps'[x] = DOMAIN snaps[x] \ {n}
  BY <1>1, RemoveEffect DEF Ground
<1>3. \A k \in DOMAIN snaps'[x] : snaps'[x][k] = snaps[x][k]
  BY <1>1, <1>2 DEF Remove, Minus, Ground, Types, StoreTypes
<1>4. head'[x] = head[x] \/ head'[x] = Nil
  BY <1>2
<1>5. \A k \in DOMAIN snaps'[x] : k \in DOMAIN snaps[x] /\ k \in Nat /\ k <= used.names /\ ~(k > used.names)
  BY <1>1, <1>2 DEF Ground, Types, StoreTypes, Bounds
<1>6. used'.names >= used.names
  BY DEF Ground, Types, Bounds
<1> QED
  BY <1>2, <1>3, <1>4, <1>5, <1>6 DEF StoreMove, Rises, Immutable

\* One deletion of a sweep by the owner.
LEMMA SweepNextStep ==
    ASSUME Ground, NEW t \in Thread, NEW o \in call[t].todo, NEW seen \in BOOLEAN,
           NEW more, NEW last, SweepNext(t, o, seen, more, last),
           call[t].at = more, more \in {"sweep", "resweep", "clear"}, Owns(t),
           o[1] = M(t), o[2] \in Int, o[2] >= 0, more = "sweep" => o[2] > 0,
           ASSUME call' = [call EXCEPT ![t].todo = call[t].todo \ {o}, ![t].at = more],
                  call[t].todo # {o}, UNCHANGED <<told, disk>>
           PROVE  Fine(t)',
           ASSUME last, call[t].todo = {o}, UNCHANGED disk
           PROVE  Honest(t)
    PROVE  Honest(t)
<1>1. M(t) \in Matter /\ call[t].at \in Steps /\ call[t] \in Calls
  BY AtHand DEF Steps
<1>2. Remove(M(t), o[2]) /\ setup' = setup
  BY DEF SweepNext
<1>3. used'.born = used.born /\ used'.names = used.names
  BY DEF SweepNext, Answered, Ground, Types, Bounds
<1>4. StoreMove(t) /\ Rises(M(t)) /\ (more = "sweep" => head' = head)
  BY <1>1, <1>2, <1>3, RemoveMove
<1>5. CASE Raise(t)
  BY <1>1, <1>4, <1>5, RaiseStep
<1>6. CASE call[t].todo # {o} /\ seen
  <2> DEFINE rest == call[t].todo \ {o}
             c == [call[t] EXCEPT !.todo = rest, !.at = more]
  <2>1. call' = [call EXCEPT ![t].todo = rest, ![t].at = more] /\ told' = told /\ disk' = disk
    BY <1>6 DEF SweepNext, Answered, Stays
  <2>2. Fine(t)'
    BY <1>6, <2>1
  <2>3. DiskMove(t)
    BY <1>1, <1>4, <2>1, SameDiskMove
  <2> HIDE DEF rest
  <2>4. /\ c.kind = call[t].kind /\ c.m = call[t].m /\ c.d = call[t].d
        /\ c.owed = call[t].owed /\ c.gone = call[t].gone
    BY <1>1 DEF Calls
  <2>5. call' = [call EXCEPT ![t] = c]
    BY <2>1
  <2> QED
    BY <1>1, <1>4, <2>1, <2>2, <2>3, <2>4, <2>5, GoStep
<1>7. CASE call[t].todo = {o} /\ seen
  BY <1>7 DEF SweepNext
<1> QED
  BY <1>5, <1>6, <1>7 DEF SweepNext, Answered

\* A change is complete when its sweep is.
LEMMA DoneStep ==
    ASSUME Ground, NEW t \in Thread, call[t].at \in {"list", "sweep"}, call[t].kind \in Writers \cup {"create"},
           StoreMove(t), head' = head, disk' = disk, Done(t),
           call[t].kind = "remove" => \A n \in DOMAIN snaps'[M(t)] : call[t].d \notin snaps'[M(t)][n]
    PROVE  Honest(t)
<1>1. call[t].at \in Steps /\ Rises(M(t))
  BY DEF Steps, Rises
<1>2. told' = told
  <2>1. CASE call[t].kind = "create"
    BY <1>1, <2>1, AtHand DEF Done, Finish, Asked, Writers
  <2>2. CASE call[t].kind # "create"
    BY <2>2 DEF Done, Leave
  <2> QED
    BY <2>1, <2>2
<1>3. DiskMove(t)
  BY <1>1, <1>2, SameDiskMove
<1>4. CASE call[t].kind = "create"
  BY <1>1, <1>3, <1>4, EndSame DEF Done, Writers
<1>5. CASE call[t].kind # "create"
  BY <1>1, <1>3, <1>5, LeaveFine DEF Done, Holding, Published, Writers
<1> QED
  BY <1>4, <1>5

\* What is known once the pointer names what the call put.
LEMMA Put ==
    ASSUME Ground, NEW t \in Thread, call[t].at \in {"list", "sweep"}, call[t].kind \in Writers \cup {"create"}
    PROVE  /\ call[t].at \in Steps /\ M(t) \in Matter /\ W(t) \in Worker /\ call[t] \in Calls /\ Owns(t)
           /\ Changes(t) /\ Makes(t) /\ Published(t)
           /\ head[M(t)] # Nil => head[M(t)].name = call[t].new /\ call[t].new \in DOMAIN snaps[M(t)]
           /\ \A n \in DOMAIN snaps[M(t)] : n > 0 /\ n \in Nat
           /\ call[t].kind \in Writers => head[M(t)] # Nil /\ Bears(t, Found(M(t))) /\ Found(M(t)) = snaps[M(t)][call[t].new]
<1>1. /\ call[t].at \in Steps /\ M(t) \in Matter /\ W(t) \in Worker /\ call[t] \in Calls /\ Owns(t) /\ Fine(t)
      /\ Secure(t) /\ Published(t) /\ call[t].kind # "drop"
  BY AtHand DEF Steps, Owns, Holding, Published, Writers
<1>2. head[M(t)] # Nil => head[M(t)].name = call[t].new /\ call[t].new \in DOMAIN snaps[M(t)]
  BY <1>1 DEF Secure, Ground, Inv, Sound
<1>3. \A n \in DOMAIN snaps[M(t)] : n > 0 /\ n \in Nat
  BY <1>1 DEF Ground, Types, StoreTypes, Bounds
<1>4. call[t].kind \in Writers => head[M(t)] # Nil /\ Bears(t, Found(M(t)))
  BY <1>1 DEF Fine, Changes
<1> QED
  BY <1>1, <1>2, <1>3, <1>4 DEF Found, Fine

LEMMA ListOldStep ==
    ASSUME Ground, NEW t \in Thread, ListOld(t)
    PROVE  Honest(t)
<1> DEFINE x == M(t)
           todo == Snapshots(x, Keep(call[t]))
           c == [call[t] EXCEPT !.todo = todo, !.at = "sweep"]
<1>1. call[t].at = "list" /\ call[t].kind \in Writers \cup {"create"} /\ UNCHANGED <<head, snaps, disk, used, setup>>
  BY DEF ListOld, At, remote
<1>2. /\ call[t].at \in Steps /\ x \in Matter /\ W(t) \in Worker /\ call[t] \in Calls /\ Owns(t)
      /\ Changes(t) /\ Makes(t) /\ Published(t)
      /\ call[t].kind \in Writers => head[x] # Nil /\ Bears(t, Found(x)) /\ Found(x) = snaps[x][call[t].new]
  BY <1>1, Put
<1>3. StoreMove(t) /\ Rises(x)
  BY <1>1, SameStoreMove
<1>4. call[t].kind = "remove" => \A n \in DOMAIN snaps[x] : call[t].d \in snaps[x][n] => <<x, n>> \in todo
  BY <1>2 DEF Snapshots, Keep, Bears, Writers
<1>5. CASE todo = {}
  BY <1>1, <1>3, <1>4, <1>5, DoneStep DEF ListOld
<1>6. CASE todo # {}
  <2>1. call' = [call EXCEPT ![t] = c] /\ told' = told
    BY <1>6 DEF ListOld, Stays
  <2> HIDE DEF todo
  <2>2. /\ c.kind = call[t].kind /\ c.m = call[t].m /\ c.d = call[t].d /\ c.at = "sweep" /\ c.prev = call[t].prev
        /\ c.owed = call[t].owed /\ c.gone = call[t].gone /\ c.todo = todo
    BY <1>2 DEF Calls
  <2>3. call'[t] = c
    BY <2>1 DEF Ground, Types, CallTypes
  <2> HIDE DEF c
  <2>4. M(t)' = x /\ W(t)' = W(t)
    BY <1>1, <2>2, <2>3 DEF M, W
  <2>5. Bears(t, Found(M(t)))' <=> Bears(t, Found(x))
    BY <1>1, <2>2, <2>3, <2>4 DEF Bears, Found
  <2>6. call[t].kind = "remove" => \A w \in Worker :
          disk[w][x] # Nil /\ disk[w][x].seq = head[x].seq => call[t].d \notin disk[w][x].docs
    BY <1>2 DEF Changes, Writers
  <2>7. Changes(t)'
    BY <1>1, <1>2, <1>4, <2>2, <2>3, <2>4, <2>5, <2>6 DEF Changes, Writers
  <2>8. Makes(t)'
    BY <1>1, <1>2, <2>1, <2>2, <2>3, <2>4 DEF Makes
  <2>9. Follows(t)' /\ Puts(t)'
    BY <1>1, <2>2, <2>3 DEF Follows, Puts, Writers
  <2>10. Fine(t)'
    BY <2>7, <2>8, <2>9 DEF Fine
  <2>11. DiskMove(t)
    BY <1>1, <1>2, <1>3, <2>1, SameDiskMove
  <2> QED
    BY <1>2, <1>3, <2>1, <2>2, <2>10, <2>11, GoStep
<1> QED
  BY <1>5, <1>6

LEMMA SweepStep ==
    ASSUME Ground, NEW t \in Thread, NEW seen \in BOOLEAN, Sweep(t, seen)
    PROVE  Honest(t)
<1> DEFINE x == M(t)
<1>1. call[t].at = "sweep" /\ call[t].kind \in Writers \cup {"create"}
  BY DEF Sweep, At
<1>2. /\ call[t].at \in Steps /\ x \in Matter /\ W(t) \in Worker /\ call[t] \in Calls /\ Owns(t)
      /\ Changes(t) /\ Makes(t) /\ Published(t)
      /\ call[t].kind \in Writers => head[x] # Nil /\ Bears(t, Found(x)) /\ Found(x) = snaps[x][call[t].new]
  BY <1>1, Put
<1>3. PICK o \in call[t].todo : SweepNext(t, o, seen, "sweep", Done(t))
  BY DEF Sweep
<1>4. o[1] = x /\ o[2] \in Int /\ o[2] > 0 /\ o[2] >= 0 /\ o = <<x, o[2]>>
  <2>1. o \in Matter \X Int /\ Secure(t)
    BY <1>2 DEF Calls, Ground, Inv
  <2> QED
    BY <1>1, <2>1 DEF Secure
<1>5. Remove(x, o[2]) /\ setup' = setup /\ used'.born = used.born /\ used'.names = used.names
  BY <1>3, <1>4 DEF SweepNext, Answered, Ground, Types, Bounds
<1>6. /\ StoreMove(t) /\ head' = head /\ DOMAIN snaps'[x] = DOMAIN snaps[x] \ {o[2]}
      /\ \A k \in DOMAIN snaps'[x] : snaps'[x][k] = snaps[x][k]
  BY <1>2, <1>4, <1>5, RemoveMove
<1>7. call[t].kind = "remove" => \A k \in DOMAIN snaps'[x] : call[t].d \in snaps'[x][k] => <<x, k>> \in call[t].todo \ {o}
  BY <1>1, <1>2, <1>4, <1>6 DEF Changes, Writers
<1>8. \A m \in Matter : m = x => Found(m)' = Found(m)
  <2>1. Immutable(x)
    BY <1>2, <1>6 DEF StoreMove
  <2> QED
    BY <1>2, <1>6, <2>1, FoundSame
<1>9. ASSUME call' = [call EXCEPT ![t].todo = call[t].todo \ {o}, ![t].at = "sweep"], call[t].todo # {o},
             UNCHANGED <<told, disk>>
      PROVE  Fine(t)'
  <2> DEFINE rest == call[t].todo \ {o}
             c == [call[t] EXCEPT !.todo = rest, !.at = "sweep"]
  <2> HIDE DEF rest
  <2>1. /\ c.kind = call[t].kind /\ c.m = call[t].m /\ c.d = call[t].d /\ c.at = "sweep" /\ c.prev = call[t].prev
        /\ c.todo = rest
    BY <1>2 DEF Calls
  <2>2. call'[t] = c
    BY <1>9 DEF Ground, Types, CallTypes, rest
  <2> HIDE DEF c
  <2>3. M(t)' = x /\ W(t)' = W(t)
    BY <1>5, <2>1, <2>2 DEF M, W
  <2>4. \A k \in DOMAIN snaps'[x] : call[t].kind = "remove" /\ call[t].d \in snaps'[x][k] => <<x, k>> \in rest
    BY <1>7 DEF rest
  <2>5. Found(M(t))' = Found(x)
    BY <1>2, <1>8, <2>3 DEF Found
  <2>6. Bears(t, Found(M(t)))' <=> Bears(t, Found(x))
    BY <2>1, <2>2, <2>5 DEF Bears
  <2>7. call[t].kind = "remove" => \A w \in Worker :
          disk[w][x] # Nil /\ disk[w][x].seq = head[x].seq => call[t].d \notin disk[w][x].docs
    BY <1>2 DEF Changes, Writers
  <2>8. Changes(t)'
    BY <1>1, <1>2, <1>6, <1>9, <2>1, <2>2, <2>3, <2>4, <2>6, <2>7 DEF Changes, Writers
  <2>9. Makes(t)'
    BY <1>1, <1>2, <1>6, <1>9, <2>1, <2>2, <2>3 DEF Makes
  <2>10. Follows(t)' /\ Puts(t)'
    BY <1>1, <2>1, <2>2 DEF Follows, Puts, Writers
  <2> QED
    BY <2>8, <2>9, <2>10 DEF Fine
<1>10. ASSUME Done(t), call[t].todo = {o}, UNCHANGED disk
       PROVE  Honest(t)
  BY <1>1, <1>6, <1>7, <1>10, DoneStep
<1> QED
  BY <1>1, <1>2, <1>3, <1>4, <1>9, <1>10, SweepNextStep

\* A removal of what is not there goes on to a push of the same copy.
LEMMA ResweepStep ==
    ASSUME Ground, NEW t \in Thread, NEW seen \in BOOLEAN, Resweep(t, seen)
    PROVE  Honest(t)
<1> DEFINE x == M(t)
           last == call' = [call EXCEPT ![t].todo = {}, ![t].at = "mine"] /\ Stays
<1>1. /\ x \in Matter /\ W(t) \in Worker /\ call[t] \in Calls /\ call[t].at = "resweep" /\ call[t].at \in Steps
      /\ call[t].kind \in Writers /\ Owns(t) /\ Secure(t)
  BY AtHand DEF Resweep, At, Steps, Writers, Working, Owns, Holding
<1>2. Local(t) # Nil /\ Local(t).seq = call[t].prev.seq /\ call[t].kind = "remove" /\ call[t].d \notin Local(t).docs
  BY <1>1, AtHand DEF Fine, Changes
<1>3. PICK o \in call[t].todo : SweepNext(t, o, seen, "resweep", last)
  BY DEF Resweep
<1>4. o[1] = x /\ o[2] \in Int /\ o[2] > 0 /\ o[2] >= 0
  <2>1. o \in Matter \X Int
    BY <1>1 DEF Calls
  <2> QED
    BY <1>1, <2>1 DEF Secure
<1>5. Remove(x, o[2]) /\ setup' = setup /\ used'.born = used.born /\ used'.names = used.names
  BY <1>3, <1>4 DEF SweepNext, Answered, Ground, Types, Bounds
<1>6. StoreMove(t) /\ Rises(x)
  BY <1>1, <1>4, <1>5, RemoveMove
<1>7. ASSUME NEW rest, NEW to \in {"resweep", "mine"}, NEW c, c = [call[t] EXCEPT !.todo = rest, !.at = to],
             call' = [call EXCEPT ![t] = c], UNCHANGED <<told, disk>>
      PROVE  Fine(t)'
  <2>1. c.kind = "remove" /\ c.m = call[t].m /\ c.d = call[t].d /\ c.at = to /\ c.prev = call[t].prev
    BY <1>1, <1>2, <1>7 DEF Calls
  <2>2. call'[t] = c
    BY <1>7 DEF Ground, Types, CallTypes
  <2>3. Local(t)' = Local(t)
    BY <1>5, <1>7, <2>1, <2>2 DEF M, W, Local
  <2>4. Changes(t)'
    BY <1>2, <2>1, <2>2, <2>3 DEF Changes, Published, Bears
  <2>5. Follows(t)' /\ Puts(t)' /\ Makes(t)'
    BY <2>1, <2>2 DEF Follows, Puts, Makes
  <2> QED
    BY <2>4, <2>5 DEF Fine
<1>8. ASSUME call' = [call EXCEPT ![t].todo = call[t].todo \ {o}, ![t].at = "resweep"], UNCHANGED <<told, disk>>
      PROVE  Fine(t)'
  BY <1>7, <1>8
<1>9. ASSUME last, UNCHANGED disk
      PROVE  Honest(t)
  <2> DEFINE c == [call[t] EXCEPT !.todo = {}, !.at = "mine"]
  <2>1. call' = [call EXCEPT ![t] = c] /\ told' = told
    BY <1>9 DEF Stays
  <2>2. Fine(t)'
    BY <1>7, <1>9, <2>1
  <2>3. /\ c.kind = call[t].kind /\ c.m = call[t].m /\ c.d = call[t].d
        /\ c.owed = call[t].owed /\ c.gone = call[t].gone
    BY <1>1 DEF Calls
  <2>4. DiskMove(t)
    BY <1>1, <1>6, <1>9, <2>1, SameDiskMove
  <2> QED
    BY <1>1, <1>6, <2>1, <2>2, <2>3, <2>4, GoStep
<1> HIDE DEF last
<1> QED
  BY <1>1, <1>3, <1>4, <1>8, <1>9, SweepNextStep
-----------------------------------------------------------------------------
(* Matters made and deleted, and requests that fail.                       *)

LEMMA CountStep ==
    ASSUME Ground, NEW t \in Thread, Count(t)
    PROVE  Honest(t)
<1> DEFINE x == M(t)
           copy == [docs |-> {}, seq |-> Fresh]
           c == [call[t] EXCEPT !.at = "upload"]
<1>1. call[t].at = "count" /\ call[t].at \in Steps /\ UNCHANGED <<head, snaps, used, setup>>
  BY DEF Count, At, Steps, remote
<1>2. /\ x \in Matter /\ W(t) \in Worker /\ call[t] \in Calls /\ call[t].kind = "create" /\ Owns(t)
      /\ Makes(t) /\ head[x] = Nil
  BY <1>1, AtHand DEF Working, Owns, Fine, Makes
<1>3. CASE Cardinality(Live) >= MaxMatters
  BY <1>1, <1>2, <1>3, FinishStep DEF Count
<1>4. CASE ~(Cardinality(Live) >= MaxMatters)
  <2>1. SetDisk(t, copy) /\ call' = [call EXCEPT ![t] = c] /\ told' = told
    BY <1>4 DEF Count, Go, Stays
  <2>2. copy \in Copy
    BY DEF Copy
  <2>3. DiskMove(t) /\ disk'[W(t)][x] = copy /\ \A w \in Worker \ {W(t)} : disk'[w][x] = disk[w][x]
    BY <1>1, <1>2, <2>1, <2>2, CopyMove, DiskSet
  <2>4. /\ c.kind = call[t].kind /\ c.m = call[t].m /\ c.d = call[t].d /\ c.at = "upload" /\ c.prev = call[t].prev
        /\ c.owed = call[t].owed /\ c.gone = call[t].gone
    BY <1>2 DEF Calls
  <2>5. call'[t] = c
    BY <2>1 DEF Ground, Types, CallTypes
  <2> HIDE DEF c
  <2>6. M(t)' = x /\ W(t)' = W(t) /\ Local(t)' = copy
    BY <1>1, <2>3, <2>4, <2>5 DEF M, W, Local
  <2>7. Makes(t)'
    BY <1>1, <1>2, <2>1, <2>3, <2>4, <2>5, <2>6 DEF Makes
  <2>8. Follows(t)' /\ Changes(t)' /\ Puts(t)'
    BY <1>2, <2>4, <2>5 DEF Follows, Changes, Puts, Writers
  <2>9. Fine(t)'
    BY <2>7, <2>8 DEF Fine
  <2> QED
    BY <1>1, <2>1, <2>3, <2>4, <2>9, SameStoreMove, GoStep
<1> QED
  BY <1>3, <1>4

\* The deletion of a matter, once it has the local copy, relies on no documents.
LEMMA DropFine ==
    ASSUME NEW t \in Thread, call'[t].kind = "drop",
           call'[t].at \notin {"fetch", "unpack", "stamp", "publish", "record"}
    PROVE  Fine(t)'
BY DEF Fine, Follows, Changes, Puts, Makes, Writers

LEMMA DropStep ==
    ASSUME Ground, NEW t \in Thread, DropLocal(t) \/ ListMatter(t)
    PROVE  Honest(t)
<1> DEFINE x == M(t)
<1>1. call[t].at \in {"work", "list"} /\ call[t].at \in Steps /\ call[t].kind = "drop"
      /\ UNCHANGED <<head, snaps, used, setup>> /\ Holding(t)
  BY DEF DropLocal, ListMatter, At, Steps, remote, Holding
<1>2. x \in Matter /\ W(t) \in Worker /\ call[t] \in Calls /\ Owns(t) /\ StoreMove(t) /\ Rises(x)
  BY <1>1, AtHand, SameStoreMove DEF Owns
<1>3. CASE DropLocal(t)
  <2>1. CASE Local(t) = Nil
    BY <1>1, <1>3, <2>1, RaiseSame DEF DropLocal
  <2>2. CASE Local(t) # Nil
    <3> DEFINE c == [call[t] EXCEPT !.at = "erase"]
    <3>1. SetDisk(t, Nil) /\ call' = [call EXCEPT ![t] = c] /\ told' = told
      BY <1>3, <2>2 DEF DropLocal, Go, Stays
    <3>2. DiskMove(t)
      BY <1>1, <1>2, <3>1, GoneDiskMove
    <3>3. /\ c.kind = call[t].kind /\ c.m = call[t].m /\ c.d = call[t].d /\ c.at = "erase"
          /\ c.owed = call[t].owed /\ c.gone = call[t].gone
      BY <1>2 DEF Calls
    <3>4. call'[t] = c
      BY <3>1 DEF Ground, Types, CallTypes
    <3> HIDE DEF c
    <3>5. Fine(t)'
      BY <1>1, <3>3, <3>4, DropFine
    <3> QED
      BY <1>1, <1>2, <3>1, <3>2, <3>3, <3>5, GoStep
  <2> QED
    BY <2>1, <2>2
<1>4. CASE ListMatter(t)
  <2> DEFINE todo == {<<M(t), n>> : n \in Listed(M(t)) \ {LockName}}
             c == [call[t] EXCEPT !.todo = todo, !.at = "clear"]
  <2>1. told' = told /\ disk' = disk
    BY <1>4 DEF ListMatter, Leave, Stays
  <2>2. DiskMove(t)
    BY <1>1, <1>2, <2>1, SameDiskMove
  <2>3. CASE todo = {}
    BY <1>1, <1>2, <1>4, <2>2, <2>3, LeaveFine DEF ListMatter, Writers
  <2>4. CASE todo # {}
    <3>1. call' = [call EXCEPT ![t] = c]
      BY <1>4, <2>4 DEF ListMatter
    <3> HIDE DEF todo
    <3>2. /\ c.kind = call[t].kind /\ c.m = call[t].m /\ c.d = call[t].d /\ c.at = "clear"
          /\ c.owed = call[t].owed /\ c.gone = call[t].gone
      BY <1>2 DEF Calls
    <3>3. call'[t] = c
      BY <3>1 DEF Ground, Types, CallTypes
    <3> HIDE DEF c
    <3>4. Fine(t)'
      BY <1>1, <3>2, <3>3, DropFine
    <3> QED
      BY <1>1, <1>2, <2>1, <2>2, <3>1, <3>2, <3>4, GoStep
  <2> QED
    BY <2>3, <2>4
<1> QED
  BY <1>3, <1>4

LEMMA EraseStep ==
    ASSUME Ground, NEW t \in Thread, NEW seen \in BOOLEAN, Erase(t, seen)
    PROVE  Honest(t)
<1> DEFINE x == M(t)
           c == [call[t] EXCEPT !.at = "list"]
<1>1. /\ x \in Matter /\ call[t] \in Calls /\ call[t].at = "erase" /\ call[t].at \in Steps
      /\ call[t].kind = "drop" /\ Owns(t)
  BY AtHand DEF Erase, At, Steps, Working, Owns, Holding
<1>2. /\ head' = [head EXCEPT ![x] = Nil] /\ UNCHANGED <<snaps, setup>>
      /\ Answered(t, seen, [call EXCEPT ![t].at = "list"])
  BY DEF Erase
<1>3. used'.born = used.born /\ used'.names = used.names /\ used.names \in Nat
  BY <1>2 DEF Answered, Ground, Types, Bounds
<1>4. head'[x] = Nil /\ \A m \in Matter \ {x} : head'[m] = head[m]
  BY <1>1, <1>2 DEF Ground, Types, StoreTypes
<1>5. StoreMove(t) /\ Rises(x)
  <2>1. \A k \in DOMAIN snaps[x] : k \in Nat /\ k <= used.names
    BY <1>1, <1>3 DEF Ground, Types, StoreTypes
  <2>2. Immutable(x) /\ \A k \in DOMAIN snaps[x] : ~(k > used.names)
    BY <1>2, <1>3, <2>1 DEF Immutable
  <2> QED
    BY <1>1, <1>2, <1>3, <1>4, <2>2 DEF StoreMove, Rises
<1>6. CASE seen
  <2>1. call' = [call EXCEPT ![t] = c] /\ told' = told /\ disk' = disk
    BY <1>2, <1>6 DEF Answered, Stays
  <2>2. /\ c.kind = call[t].kind /\ c.m = call[t].m /\ c.d = call[t].d /\ c.at = "list"
        /\ c.owed = call[t].owed /\ c.gone = call[t].gone
    BY <1>1 DEF Calls
  <2>3. call'[t] = c
    BY <2>1 DEF Ground, Types, CallTypes
  <2> HIDE DEF c
  <2>4. Fine(t)' /\ DiskMove(t)
    BY <1>1, <1>5, <2>1, <2>2, <2>3, DropFine, SameDiskMove
  <2> QED
    BY <1>1, <1>5, <2>1, <2>2, <2>4, GoStep
<1>7. CASE ~seen
  BY <1>1, <1>2, <1>5, <1>7, RaiseStep DEF Answered
<1> QED
  BY <1>6, <1>7

LEMMA ClearStep ==
    ASSUME Ground, NEW t \in Thread, NEW seen \in BOOLEAN, Clear(t, seen)
    PROVE  Honest(t)
<1> DEFINE x == M(t)
           last == IF call[t].kind = "drop" THEN Leave(t, TRUE)
                   ELSE call' = [call EXCEPT ![t].todo = {}, ![t].at = "wipe"] /\ Stays
<1>1. /\ x \in Matter /\ call[t] \in Calls /\ call[t].at = "clear" /\ call[t].at \in Steps
      /\ call[t].kind = "drop" /\ Owns(t) /\ Holding(t) /\ Secure(t)
  BY AtHand DEF Clear, At, Steps, Working, Owns, Holding
<1>2. PICK o \in call[t].todo : SweepNext(t, o, seen, "clear", last)
  BY DEF Clear
<1>3. o[1] = x /\ o[2] \in Int /\ o[2] >= 0
  <2>1. o \in Matter \X Int
    BY <1>1 DEF Calls
  <2> QED
    BY <1>1, <2>1 DEF Secure
<1>4. Remove(x, o[2]) /\ setup' = setup /\ used'.born = used.born /\ used'.names = used.names
  BY <1>2, <1>3 DEF SweepNext, Answered, Ground, Types, Bounds
<1>5. StoreMove(t) /\ Rises(x)
  BY <1>1, <1>3, <1>4, RemoveMove
<1>6. ASSUME call' = [call EXCEPT ![t].todo = call[t].todo \ {o}, ![t].at = "clear"]
      PROVE  Fine(t)'
  <2> DEFINE rest == call[t].todo \ {o}
  <2> HIDE DEF rest
  <2>1. call'[t] = [call[t] EXCEPT !.todo = rest, !.at = "clear"]
    BY <1>6 DEF Ground, Types, CallTypes, rest
  <2>2. call'[t].kind = "drop" /\ call'[t].at = "clear"
    BY <1>1, <2>1 DEF Calls
  <2> QED
    BY <2>2, DropFine
<1>7. ASSUME last, UNCHANGED disk
      PROVE  Honest(t)
  <2>1. Leave(t, TRUE) /\ told' = told
    BY <1>1, <1>7 DEF Leave
  <2>2. DiskMove(t)
    BY <1>1, <1>5, <1>7, <2>1, SameDiskMove
  <2> QED
    BY <1>1, <1>5, <2>1, <2>2, LeaveFine DEF Writers
<1> HIDE DEF last
<1> QED
  BY <1>1, <1>2, <1>3, <1>6, <1>7, SweepNextStep

LEMMA RefuseStep ==
    ASSUME Ground, NEW t \in Thread, Refuse(t)
    PROVE  Honest(t)
<1>1. /\ call[t].at \in Steps \ {"turn"} /\ UNCHANGED <<head, snaps, setup>>
      /\ used'.names = used.names /\ used'.born = used.born
  BY DEF Refuse, Asking, remote, Ground, Types, Bounds
<1>2. CASE call[t].at = "fetch"
  BY <1>1, <1>2, TryAgainStep DEF Refuse
<1>3. CASE call[t].at \in {"release", "unlock"}
  BY <1>1, <1>3, FinishStep, AtHand DEF Refuse, Calls
<1>4. CASE call[t].at \notin {"fetch", "release", "unlock"}
  BY <1>1, <1>4, RaiseSame DEF Refuse
<1> QED
  BY <1>2, <1>3, <1>4

\* No step of a call breaks what is known of the copies.
LEMMA ThreadHonest ==
    ASSUME Ground, NEW t \in Thread, Step(t) \/ Refuse(t)
    PROVE  Honest(t)
<1>1. ~ListTenant(t) /\ ~Wipe(t)
  BY AtHand DEF ListTenant, Wipe, At, Steps, Working
<1>2. TRUE \in BOOLEAN
  OBVIOUS
<1>3. CASE Refuse(t)
  BY <1>3, RefuseStep
<1>4. CASE TakeTurn(t) \/ GiveUp(t) \/ StillMine(t) \/ Release(t) \/ Unlock(t)
           \/ \E seen \in BOOLEAN : ClaimLock(t, seen)
  BY <1>2, <1>4, LockStep
<1>5. CASE ReadPointer(t) \/ Fetch(t) \/ Unpack(t) \/ Stamp(t) \/ Answer(t)
  BY <1>5, PointerStep, FetchStep, UnpackStep, StampStep, AnswerStep
<1>6. CASE Ingest(t) \/ Scrub(t) \/ NoSuchDocument(t) \/ Record(t)
  BY <1>6, ChangeStep, RecordStep
<1>7. CASE ListOld(t) \/ Count(t) \/ DropLocal(t) \/ ListMatter(t)
  BY <1>7, ListOldStep, CountStep, DropStep
<1>8. CASE \E seen \in BOOLEAN : Upload(t, seen) \/ Publish(t, seen) \/ Sweep(t, seen) \/ Resweep(t, seen)
                                 \/ Erase(t, seen) \/ Clear(t, seen)
  BY <1>8, UploadStep, PublishStep, SweepStep, ResweepStep, EraseStep, ClearStep
<1> QED
  BY <1>1, <1>3, <1>4, <1>5, <1>6, <1>7, <1>8 DEF Step

-----------------------------------------------------------------------------
(* What was acknowledged is found, and what is gone is nowhere.            *)

LEMMA IdleStep ==
    ASSUME Ground, UNCHANGED vars
    PROVE  Faith'
<1>1. UNCHANGED <<head, snaps, disk, call, told, used, setup>>
  BY DEF vars
<1>2. \A u \in Thread : Bystander(u)
  BY <1>1 DEF Bystander
<1>3. OneAdd' /\ Unborn' /\ ToldTypes'
  BY <1>1 DEF Ground, Faith, OneAdd, Unborn, ToldTypes, M
<1> QED
  BY <1>1, <1>2, <1>3, ToldStep DEF Tells

LEMMA FaithStep ==
    ASSUME Orderly, Ground, [Next]_vars
    PROVE  Faith'
<1>1. ASSUME NEW t \in Thread, Step(t) \/ Refuse(t)
      PROVE  Faith'
  BY <1>1, ThreadHonest DEF Honest
<1>2. ASSUME NEW t \in Thread, Ask(t)
      PROVE  Faith'
  BY <1>2, AskStep
<1>3. ASSUME NEW m \in Matter, Expire(m)
      PROVE  Faith'
  BY <1>3, ExpireStep
<1>4. ASSUME NEW w \in Worker, Die(w)
      PROVE  Faith'
  BY <1>4, DieStep
<1> QED
  BY <1>1, <1>2, <1>3, <1>4, IdleStep DEF Next

LEMMA FaithStart == Init => Faith
<1> SUFFICES ASSUME Init PROVE Faith
  OBVIOUS
<1>1. told = [m \in Matter |-> [d \in Doc |-> "new"]] /\ \A t \in Thread : call[t] = Idle
  BY DEF Init
<1>2. ToldTypes /\ AckedKept /\ GoneIsGone
  BY <1>1 DEF ToldTypes, P!Told, AckedKept, GoneIsGone
<1>3. OneAdd
  BY <1>1 DEF OneAdd, Idle
<1>4. \A w \in Worker, m \in Matter : disk[w][m] = Nil
  BY DEF Init
<1>5. Unborn
  BY <1>1, <1>4 DEF Unborn, Init
<1>6. \A w \in Worker, m \in Matter : Fits(w, m)
  BY <1>4 DEF Fits
<1>7. ASSUME NEW t \in Thread
      PROVE  Asked(t) /\ Fine(t)
  BY <1>1 DEF Idle, Asked, Fine, Follows, Changes, Puts, Makes, Writers, Published
<1> QED
  BY <1>2, <1>3, <1>5, <1>6, <1>7 DEF Faith

LEMMA AlwaysFaith == Orderly /\ ReadsApart => (Spec => []Faith)
<1> SUFFICES ASSUME Orderly, ReadsApart PROVE Spec => []Faith
  OBVIOUS
<1>1. Types /\ Inv /\ Faith /\ Types' /\ Inv' /\ [Next]_vars => Faith'
  BY FaithStep DEF Ground
<1>2. Spec => []Types /\ []Inv
  BY AlwaysTypes, AlwaysInv, PTL
<1> QED
  BY <1>1, <1>2, FaithStart, PTL DEF Spec

\* AckedKept: a document whose add was acknowledged is in the matter for every worker that
\* comes after, until its removal is asked for (add_document, `_push`, `_current`).
THEOREM NothingLost == Orderly /\ ReadsApart => (Spec => []AckedKept)
<1>1. Faith => AckedKept
  BY DEF Faith
<1> QED
  BY <1>1, AlwaysFaith, PTL

\* GoneIsGone: after an acknowledged delete_document no snapshot of the matter holds the
\* text (delete_document, `_sweep`).
THEOREM RemovalComplete == Orderly /\ ReadsApart => (Spec => []GoneIsGone)
<1>1. Faith => GoneIsGone
  BY DEF Faith
<1> QED
  BY <1>1, AlwaysFaith, PTL

\* ReadsAgree: a read answers with every document acknowledged before it began and with
\* none whose removal was (`_current` under a read, on a worker of its own).
THEOREM ReadsCurrent == Orderly /\ ReadsApart => (Spec => []ReadsAgree)
<1>1. Types /\ Faith => ReadsAgree
  <2> SUFFICES ASSUME Types, Faith, NEW t \in Thread, call[t].at = "answer", Local(t) # Nil
               PROVE  /\ \A d \in call[t].owed : told[call[t].m][d] = "kept" => d \in Local(t).docs
                      /\ call[t].gone \cap Local(t).docs = {}
    BY DEF ReadsAgree
  <2>1. call[t].kind = "read" /\ Follows(t)
    BY AtWork DEF Steps, Working, Faith, Fine
  <2> QED
    BY <2>1 DEF Follows, Serves, M
<1> QED
  BY <1>1, AlwaysFaith, AlwaysTypes, PTL
-----------------------------------------------------------------------------
(* The store keeps its promises: it implements Papers.                     *)

\* What readers find, and when it is nothing.
LEMMA FoundType ==
    ASSUME Types, NEW m \in Matter
    PROVE  /\ head[m] = Nil => Found(m) = Nil
           /\ head[m] # Nil => Found(m) \in SUBSET Doc /\ Found(m) # Nil
<1>1. snaps[m] \in Snap
  BY DEF Types, StoreTypes
<1>2. head[m] # Nil => Found(m) \in SUBSET Doc
  BY <1>1, SnapType DEF Found
<1> QED
  BY <1>2, MatterConstants DEF Found

\* A move of the pointer is a change, an opening or a closing of the matter.
LEMMA MovePromise ==
    ASSUME Ground, NEW t \in Thread, M(t) \in Matter, StoreMove(t), told' = told
    PROVE  [P!Next]_(P!vars)
<1> DEFINE x == M(t)
<1>1. PICK m \in Matter : m = x
  OBVIOUS
<1>2. /\ \A y \in Matter \ {m} : Found(y)' = Found(y)
      /\ head'[m] # head[m] /\ head'[m] # Nil => Shifts(m)
      /\ Immutable(m)
  BY <1>1 DEF StoreMove, Found
<1>3. /\ head[m] = Nil => Found(m) = Nil
      /\ head[m] # Nil => Found(m) \in SUBSET Doc /\ Found(m) # Nil
      /\ head'[m] = Nil => Found(m)' = Nil
      /\ head'[m] # Nil => Found(m)' \in SUBSET Doc
  <2>1. snaps'[m] \in Snap
    BY DEF Ground, Types, StoreTypes
  <2>2. head'[m] # Nil => Found(m)' \in SUBSET Doc
    BY <2>1, SnapType DEF Found
  <2> QED
    BY <2>2, FoundType DEF Ground, Found
<1> DEFINE held == [y \in Matter |-> Found(y)]
<1>4. held[m] = Found(m) /\ held' = [held EXCEPT ![m] = Found(m)']
  BY <1>2
<1>5. CASE head'[m] = head[m]
  <2>1. Found(m)' = Found(m)
    BY <1>2, <1>5, FoundSame
  <2>2. held' = held
    BY <1>2, <2>1
  <2> QED
    BY <2>2 DEF P!vars
<1>6. CASE head'[m] # head[m] /\ head'[m] = Nil
  <2>1. Found(m)' = Nil /\ Found(m) # Nil
    BY <1>3, <1>6
  <2>2. P!Close(m)
    BY <1>4, <2>1 DEF P!Close
  <2> QED
    BY <2>2 DEF P!Next
<1>7. CASE head'[m] # head[m] /\ head[m] = Nil
  <2>1. Found(m)' = {} /\ Found(m) = Nil
    BY <1>2, <1>3, <1>7 DEF Shifts
  <2>2. P!Open(m)
    BY <1>4, <2>1 DEF P!Open
  <2> QED
    BY <2>2 DEF P!Next
<1>8. CASE head'[m] # head[m] /\ head[m] # Nil /\ head'[m] # Nil
  <2> DEFINE in == Found(m)' \ Found(m)
             out == Found(m) \ Found(m)'
  <2>1. Found(m) \in SUBSET Doc /\ Found(m)' \in SUBSET Doc /\ Found(m) # Nil
    BY <1>3, <1>8
  <2>2. in \in SUBSET P!MayEnter(m) /\ out \in SUBSET P!MayLeave(m)
    <3>1. Shifts(m)
      BY <1>2, <1>8
    <3>2. \A d \in Doc : /\ d \in Found(m)' /\ d \notin Found(m) => told[m][d] \in {"asked", "leaving", "unsure"}
                         /\ d \in Found(m) /\ d \notin Found(m)' => told[m][d] \in {"leaving", "unsure"}
      BY <1>8, <3>1 DEF Shifts
    <3>3. /\ \A d \in in : d \in Doc /\ told[m][d] \in {"asked", "leaving", "unsure"}
          /\ \A d \in out : d \in Doc /\ told[m][d] \in {"leaving", "unsure"}
      BY <2>1, <3>2
    <3> HIDE DEF in, out
    <3> QED
      BY <3>3 DEF P!MayEnter, P!MayLeave
  <2>3. (Found(m) \cup in) \ out = Found(m)'
    OBVIOUS
  <2>4. held' = [held EXCEPT ![m] = (held[m] \cup in) \ out]
    BY <1>4, <2>3
  <2> HIDE DEF in, out
  <2>5. P!Change(m)
    BY <1>4, <2>1, <2>2, <2>4 DEF P!Change
  <2> QED
    BY <2>5 DEF P!Next
<1> QED
  BY <1>5, <1>6, <1>7, <1>8

LEMMA TellsCases ==
    ASSUME NEW m, NEW d, NEW was, NEW now, Tells(m, d, was, now)
    PROVE  \/ now = was
           \/ was = "new" /\ now = "asked"
           \/ was \in {"kept", "unsure", "leaving"} /\ now = "leaving"
           \/ was = "asked" /\ now = "kept" /\ (head[m] # Nil => d \in Found(m))
           \/ was \in {"leaving", "unsure"} /\ now = "gone" /\ (head[m] # Nil => d \notin Found(m))
           \/ was \in {"asked", "leaving", "unsure"} /\ now = "unsure"
BY DEF Tells

\* What callers are told of one document is what readers find, or nothing certain.
LEMMA TellPromise ==
    ASSUME Ground, UNCHANGED <<head, snaps>>, NEW m \in Matter, NEW d \in Doc, NEW now,
           told' = [told EXCEPT ![m][d] = now], Tells(m, d, told[m][d], now)
    PROVE  [P!Next]_(P!vars)
<1> DEFINE held == [y \in Matter |-> Found(y)]
<1>1. held' = held /\ held[m] = Found(m)
  BY DEF Found
<1>2. told \in [Matter -> [Doc -> P!Told]]
  BY DEF Ground, Faith, ToldTypes
<1>3. held[m] # Nil => head[m] # Nil
  BY <1>1, FoundType DEF Ground
<1> HIDE DEF held
<1>4. CASE now = told[m][d]
  <2>1. told' = told
    BY <1>2, <1>4
  <2> QED
    BY <1>1, <2>1 DEF P!vars, held
<1>5. CASE \/ told[m][d] = "new" /\ now = "asked"
           \/ told[m][d] \in {"kept", "unsure", "leaving"} /\ now = "leaving"
  <2>1. P!Ask(m, d)
    BY <1>1, <1>5 DEF P!Ask, P!Tell, held
  <2> QED
    BY <2>1 DEF P!Next
<1>6. CASE told[m][d] = "asked" /\ now = "kept" /\ (head[m] # Nil => d \in Found(m))
  <2>1. P!Acknowledge(m, d)
    BY <1>1, <1>3, <1>6 DEF P!Acknowledge, P!Tell, P!Keep, held
  <2> QED
    BY <2>1 DEF P!Next
<1>7. CASE told[m][d] \in {"leaving", "unsure"} /\ now = "gone" /\ (head[m] # Nil => d \notin Found(m))
  <2>1. P!Acknowledge(m, d)
    BY <1>1, <1>3, <1>7 DEF P!Acknowledge, P!Tell, held
  <2> QED
    BY <2>1 DEF P!Next
<1>8. CASE told[m][d] \in {"asked", "leaving", "unsure"} /\ now = "unsure"
  <2> DEFINE lost == {<<m, d>>}
  <2>1. lost \in SUBSET (Matter \X Doc) /\ \A p \in lost : told[p[1]][p[2]] \in {"asked", "leaving", "unsure"}
    BY <1>8
  <2>2. told' = [y \in Matter |-> [e \in Doc |-> IF <<y, e>> \in lost THEN "unsure" ELSE told[y][e]]]
    BY <1>2, <1>8
  <2> HIDE DEF lost
  <2>3. P!Forget
    BY <1>1, <2>1, <2>2 DEF P!Forget, held
  <2> QED
    BY <2>3 DEF P!Next
<1> QED
  BY <1>4, <1>5, <1>6, <1>7, <1>8, TellsCases

\* The calls a worker takes with it.
LEMMA DiePromise ==
    ASSUME Ground, NEW w \in Worker, Die(w)
    PROVE  [P!Next]_(P!vars)
<1> DEFINE mine == {t \in Thread : setup.seat[t] = w}
           cut == {<<call[t].m, call[t].d>> : t \in {u \in mine : call[u].d # Nil}}
           lost == {p \in Matter \X Doc : p \in cut /\ told[p[1]][p[2]] # "gone"}
           held == [y \in Matter |-> Found(y)]
<1>1. held' = held
  BY DEF Die, remote, Found
<1>2. \A p \in cut : \E v \in Thread : call[v].kind \in Writers /\ p = <<M(v), call[v].d>>
  BY DEF Ground, Faith, Asked, M
<1>3. \A p \in lost : told[p[1]][p[2]] \in {"asked", "leaving", "unsure"}
  BY <1>2 DEF Ground, Faith, Asked, Writers
<1>4. told' = [m \in Matter |-> [d \in Doc |-> IF <<m, d>> \in cut /\ told[m][d] # "gone" THEN "unsure" ELSE told[m][d]]]
  BY DEF Die
<1> HIDE DEF cut, held
<1>5. told' = [m \in Matter |-> [d \in Doc |-> IF <<m, d>> \in lost THEN "unsure" ELSE told[m][d]]]
  BY <1>4
<1> HIDE DEF lost
<1>6. lost \in SUBSET (Matter \X Doc)
  BY DEF lost
<1>7. P!Forget
  BY <1>1, <1>3, <1>5, <1>6 DEF P!Forget, held
<1> QED
  BY <1>7 DEF P!Next

LEMMA PromiseStep ==
    ASSUME Orderly, Ground, [Next]_vars
    PROVE  [P!Next]_(P!vars)
<1>1. ASSUME UNCHANGED <<head, snaps, told>>
      PROVE  [P!Next]_(P!vars)
  BY <1>1 DEF P!vars, Found
<1>2. ASSUME NEW t \in Thread, Step(t) \/ Refuse(t)
      PROVE  [P!Next]_(P!vars)
  <2>1. Honest(t)
    BY <1>2, ThreadHonest
  <2>2. call[t].at \in Steps
    BY <1>2 DEF Step, Refuse, Asking, Steps, At, TakeTurn, ClaimLock, GiveUp, StillMine, Release, Unlock,
         ReadPointer, Fetch, Unpack, Stamp, Answer, Ingest, Scrub, NoSuchDocument, Record, ListOld, Count,
         DropLocal, ListMatter, ListTenant, Wipe, Upload, Publish, Sweep, Resweep, Erase, Clear
  <2>3. M(t) \in Matter /\ Working(call[t])
    BY <2>2, AtHand
  <2>4. CASE told' = told /\ StoreMove(t)
    BY <2>3, <2>4, MovePromise
  <2>5. CASE /\ call[t].kind \in Writers /\ UNCHANGED <<head, snaps>>
             /\ \A m \in Matter, d \in Doc : /\ Tells(m, d, told[m][d], told'[m][d])
                                             /\ <<m, d>> # <<M(t), call[t].d>> => told'[m][d] = told[m][d]
    <3>1. PICK m \in Matter, d \in Doc : m = M(t) /\ d = call[t].d
      BY <2>3, <2>5 DEF Working
    <3>2. told \in [Matter -> [Doc -> P!Told]] /\ told' \in [Matter -> [Doc -> P!Told]]
      BY <2>1 DEF Honest, Ground, Faith, ToldTypes
    <3>3. told' = [told EXCEPT ![m][d] = told'[m][d]]
      BY <2>5, <3>1, <3>2
    <3> QED
      BY <2>5, <3>3, TellPromise
  <2> QED
    BY <2>1, <2>4, <2>5 DEF Honest
<1>3. ASSUME NEW t \in Thread, Ask(t)
      PROVE  [P!Next]_(P!vars)
  <2>1. UNCHANGED <<head, snaps>>
    BY <1>3 DEF Ask, DeleteMatter, CreateMatter, Read, AddDocument, DeleteDocument, DeleteTenant, Begin, remote
  <2>2. CASE UNCHANGED told
    BY <1>1, <2>1, <2>2
  <2>3. ASSUME NEW m \in Matter, NEW d \in Doc, AddDocument(t, m, d) \/ DeleteDocument(t, m, d)
        PROVE  [P!Next]_(P!vars)
    <3>1. CASE AddDocument(t, m, d)
      BY <2>1, <3>1, TellPromise DEF AddDocument, Tells
    <3>2. CASE DeleteDocument(t, m, d)
      BY <2>1, <3>2, TellPromise DEF DeleteDocument, Tells
    <3> QED
      BY <2>3, <3>1, <3>2
  <2> QED
    BY <1>3, <2>2, <2>3 DEF Ask, DeleteMatter, CreateMatter, Read, DeleteTenant
<1>4. ASSUME NEW m \in Matter, Expire(m)
      PROVE  [P!Next]_(P!vars)
  BY <1>1, <1>4 DEF Expire
<1>5. CASE UNCHANGED vars
  BY <1>1, <1>5 DEF vars
<1> QED
  BY <1>2, <1>3, <1>4, <1>5, DiePromise DEF Next

LEMMA PromiseStart == Init => P!Init
<1> SUFFICES ASSUME Init PROVE P!Init
  OBVIOUS
<1>1. ASSUME NEW m \in Matter
      PROVE  Found(m) \in {{}, Nil}
  <2>1. CASE m \in Standing
    BY <2>1 DEF Init, Found
  <2>2. CASE m \notin Standing
    BY <2>2 DEF Init, Found
  <2> QED
    BY <2>1, <2>2
<1> QED
  BY <1>1 DEF P!Init, Init

\* KeepsPromises: the store implements Papers: a change takes effect at one moment for every
\* reader, before it is acknowledged, and is never undone but by another that was asked for
\* (`_write`, `_push`, `_current`, create_matter, delete_matter).
THEOREM PromisesKept == Orderly /\ ReadsApart => (Spec => KeepsPromises)
<1> SUFFICES ASSUME Orderly, ReadsApart PROVE Spec => KeepsPromises
  OBVIOUS
<1>1. Types /\ Inv /\ Faith /\ Types' /\ Inv' /\ [Next]_vars => [P!Next]_(P!vars)
  BY PromiseStep DEF Ground
<1>2. Spec => []Types /\ []Inv /\ []Faith
  BY AlwaysTypes, AlwaysInv, AlwaysFaith, PTL
<1> QED
  BY <1>1, <1>2, PromiseStart, PTL DEF Spec, KeepsPromises, P!Spec
=============================================================================
