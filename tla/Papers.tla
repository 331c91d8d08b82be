------------------------------- MODULE Papers -------------------------------
(***************************************************************************)
(* What the store of papers promises its callers, whatever copies, locks   *)
(* and workers stand behind it.  A matter holds a set of documents.  A     *)
(* caller asks for a change; the change takes effect at one moment, for    *)
(* every reader, before it is acknowledged; a change that was never        *)
(* acknowledged may take effect late or not at all; an acknowledged one is *)
(* never undone but by another change that was asked for.                  *)
(***************************************************************************)
CONSTANTS Matter, Doc, Nil

VARIABLES held,  \* matter -> the documents a reader finds in it, Nil: no such matter
          told   \* matter -> document -> what its callers were told last

vars == <<held, told>>

Told == {"new",      \* not seen yet
         "asked",    \* an add is under way
         "kept",     \* its add was acknowledged
         "leaving",  \* a removal is under way
         "gone",     \* its removal was acknowledged
         "unsure"}   \* the last call for it failed: either may be true

MayEnter(m) == {d \in Doc : told[m][d] \in {"asked", "unsure", "leaving"}}
MayLeave(m) == {d \in Doc : told[m][d] \in {"leaving", "unsure"}}

Init == /\ held \in [Matter -> {{}, Nil}]
        /\ told = [m \in Matter |-> [d \in Doc |-> "new"]]

Tell(m, d, was, now) == /\ told[m][d] \in was
                        /\ told' = [told EXCEPT ![m][d] = now]
                        /\ UNCHANGED held

Ask(m, d) == \/ Tell(m, d, {"new"}, "asked")
             \/ Tell(m, d, {"kept", "unsure", "leaving"}, "leaving")

\* Acknowledging says what readers find at that moment.
Keep(m, d)   == held[m] # Nil => d \in held[m]
Acknowledge(m, d) ==
  \/ Tell(m, d, {"asked"}, "kept") /\ Keep(m, d)
  \/ Tell(m, d, {"leaving", "unsure"}, "gone") /\ (held[m] # Nil => d \notin held[m])

\* A worker that dies takes with it every call it was serving.
Forget == /\ \E lost \in SUBSET (Matter \X Doc) :
               /\ \A p \in lost : told[p[1]][p[2]] \in {"asked", "leaving", "unsure"}
               /\ told' = [m \in Matter |-> [d \in Doc |->
                             IF <<m, d>> \in lost THEN "unsure" ELSE told[m][d]]]
          /\ UNCHANGED held

\* The one moment at which changes take effect.
Change(m) ==
  /\ held[m] # Nil
  /\ \E in \in SUBSET MayEnter(m), out \in SUBSET MayLeave(m) :
       held' = [held EXCEPT ![m] = (@ \cup in) \ out]
  /\ UNCHANGED told

Open(m)  == held[m] = Nil /\ held' = [held EXCEPT ![m] = {}] /\ UNCHANGED told
Close(m) == held[m] # Nil /\ held' = [held EXCEPT ![m] = Nil] /\ UNCHANGED told

Next == \/ \E m \in Matter : Change(m) \/ Open(m) \/ Close(m)
        \/ \E m \in Matter, d \in Doc : Ask(m, d) \/ Acknowledge(m, d)
        \/ Forget

Spec == Init /\ [][Next]_vars
=============================================================================
