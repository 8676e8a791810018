--------------------------- MODULE SlotAllocator ---------------------------
(***************************************************************************)
(* What the command protocol of SocketSlots promises about each slot: it   *)
(* is free, held by one process, being closed, or lost for good, and it    *)
(* moves between these only in the order of an allocator.  Only a slot     *)
(* being closed becomes free again; a held slot is never taken away.       *)
(***************************************************************************)
CONSTANTS Apps, Slots, Circulating

VARIABLE holder

States == {"free", "closing", "lost"} \cup Apps

Init == holder = [s \in Slots |-> IF s \in Circulating THEN "free" ELSE "lost"]

Acquire(a, s) == holder[s] = "free" /\ holder' = [holder EXCEPT ![s] = a]

Release(a, s) == holder[s] = a /\ holder' = [holder EXCEPT ![s] = "closing"]

Reclaim(s) == holder[s] = "closing" /\ holder' = [holder EXCEPT ![s] = "free"]

Lose(s) == holder[s] # "free" /\ holder' = [holder EXCEPT ![s] = "lost"]

Next ==
  \E s \in Slots :
    Reclaim(s) \/ Lose(s) \/ \E a \in Apps : Acquire(a, s) \/ Release(a, s)

Spec == Init /\ [][Next]_holder
=============================================================================
