------------------------------ MODULE RingFifo ------------------------------
(***************************************************************************)
(* What a ring promises its users: a bounded first-in first-out queue on   *)
(* which an enqueue adds the objects it was given, or the first of them,   *)
(* in one piece, and a dequeue removes the oldest ones.  Either may be     *)
(* refused at any time: an operation of another thread that is half done   *)
(* can make the queue look full or empty.                                  *)
(***************************************************************************)
EXTENDS Naturals, Sequences

CONSTANTS Producers, Consumers, Objects, Capacity

VARIABLES
  queue,         \* the objects on the ring
  in,            \* per producer: what it is enqueueing, << >> outside a call
  out            \* per consumer: what it is given, << >> outside a call

vars == <<queue, in, out>>

Init ==
  /\ queue = << >>
  /\ in = [p \in Producers |-> << >>]
  /\ out = [c \in Consumers |-> << >>]

Offer(p) ==
  /\ in[p] = << >>
  /\ in'[p] # << >> /\ \A i \in DOMAIN in'[p] : in'[p][i] \in Objects
  /\ in' = [in EXCEPT ![p] = in'[p]]
  /\ UNCHANGED <<queue, out>>

Enqueue(p) ==
  /\ \E n \in 1 .. Len(in[p]) : queue' = queue \o SubSeq(in[p], 1, n)
  /\ Len(queue') <= Capacity
  /\ in' = [in EXCEPT ![p] = << >>]
  /\ UNCHANGED out

Refuse(p) ==
  /\ in' = [in EXCEPT ![p] = << >>]
  /\ UNCHANGED <<queue, out>>

Dequeue(c) ==
  /\ out[c] = << >>
  /\ \E n \in 1 .. Len(queue) :
       /\ out' = [out EXCEPT ![c] = SubSeq(queue, 1, n)]
       /\ queue' = SubSeq(queue, n + 1, Len(queue))
  /\ UNCHANGED in

Take(c) ==
  /\ out' = [out EXCEPT ![c] = << >>]
  /\ UNCHANGED <<queue, in>>

Next ==
  \/ \E p \in Producers : Offer(p) \/ Enqueue(p) \/ Refuse(p)
  \/ \E c \in Consumers : Dequeue(c) \/ Take(c)

Spec == Init /\ [][Next]_vars
=============================================================================
