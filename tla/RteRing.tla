------------------------------ MODULE RteRing -------------------------------
(***************************************************************************)
(* The ring of librte_ring, which carries every command, connection slot,  *)
(* buffer and event between the service and the applications.              *)
(*                                                                         *)
(* An operation claims entries by moving the head of its side, copies      *)
(* pointers to or from the table, and publishes by moving the tail of its  *)
(* side.  Each access to a shared index is a step of its own.  The indices *)
(* run modulo Wrap (2^32 in the code) and are masked only to index the     *)
(* table.  A multi-producer (multi-consumer) ring moves the head with a    *)
(* compare-and-set and waits for the operations before it; a               *)
(* single-producer (single-consumer) ring does neither.                    *)
(*                                                                         *)
(* Loads are not reordered with loads, nor stores with stores or earlier   *)
(* loads, on x86, and the code keeps the compiler from it; a delayed store *)
(* of a tail only makes the operation end later.  So steps interleave      *)
(* without a store buffer here.                                            *)
(***************************************************************************)
EXTENDS Integers, Sequences

CONSTANTS
  Producers, Consumers,  \* threads that enqueue, threads that dequeue
  Mortals,       \* threads that may be killed at any point
  Size,          \* entries of the table, a power of two
  Wrap,          \* 2^32, the range of the indices
  Bases,         \* values the four indices may start with
  MultiProd,     \* the ring was created without RING_F_SP_ENQ
  MultiCons,     \* the ring was created without RING_F_SC_DEQ
  MaxBulk,       \* bound: objects per operation
  MaxObjs        \* bound: objects ever offered

Threads == Producers \cup Consumers

ASSUME RingAssumption ==
  /\ Size \in Nat \ {0} /\ Wrap \in Nat
  /\ \E k \in 1 .. Wrap : Wrap = k * Size
  /\ MaxBulk \in Nat \ {0} /\ MaxObjs \in Nat
  /\ Bases \subseteq 0 .. Wrap - 1
  /\ Producers \cap Consumers = {} /\ Mortals \subseteq Threads
  /\ MultiProd \in BOOLEAN /\ MultiCons \in BOOLEAN

VARIABLES
  prodHead, prodTail,    \* r->prod.head, r->prod.tail
  consHead, consTail,    \* r->cons.head, r->cons.tail
  ring,          \* r->ring[]
  pc,            \* per thread: where in the operation it is
  head,          \* per thread: its copy of prod.head or cons.head
  max,           \* per thread: how many objects the caller asked for
  num,           \* per thread: n, how many of them the operation moves
  objs,          \* per thread: obj_table
  alive,         \* threads that have not been killed
  made,          \* number of objects offered so far: object i is the i-th
  base,          \* history: what the indices started with
  log,           \* history: objects in the order their entries were claimed
  at,            \* history: the four indices and the threads' heads, not wrapped
  pos

indices == <<prodHead, prodTail, consHead, consTail>>
vars == <<indices, ring, pc, head, max, num, objs, alive, made, base, log, at, pos>>

Slot(i, k) == (i + k) % Size

Init ==
  /\ base \in Bases
  /\ prodHead = base /\ prodTail = base /\ consHead = base /\ consTail = base
  /\ ring = [i \in 0 .. Size - 1 |-> 0]
  /\ pc = [t \in Threads |-> "idle"]
  /\ head = [t \in Threads |-> 0]
  /\ max = [t \in Threads |-> 0]
  /\ num = [t \in Threads |-> 0]
  /\ objs = [t \in Threads |-> << >>]
  /\ alive = Threads
  /\ made = 0
  /\ log = << >>
  /\ at = [ph |-> 0, pt |-> 0, ch |-> 0, ct |-> 0]
  /\ pos = [t \in Threads |-> 0]

Goto(t, l) == pc' = [pc EXCEPT ![t] = l]

(* The operation returns and its local variables are gone.                 *)

Return(t) ==
  /\ Goto(t, "idle")
  /\ head' = [head EXCEPT ![t] = 0]
  /\ max' = [max EXCEPT ![t] = 0]
  /\ num' = [num EXCEPT ![t] = 0]
  /\ objs' = [objs EXCEPT ![t] = << >>]
  /\ pos' = [pos EXCEPT ![t] = 0]

----------------------------------------------------------------------------
(* __rte_ring_mp_do_enqueue and __rte_ring_sp_do_enqueue.                  *)

ReadProdHead(p) ==
  /\ head' = [head EXCEPT ![p] = prodHead]
  /\ pos' = [pos EXCEPT ![p] = at.ph]
  /\ Goto(p, "check")

EnqueueCall(p) ==
  /\ pc[p] = "idle"
  /\ \E k \in 1 .. MaxBulk :
       /\ made + k <= MaxObjs
       /\ made' = made + k
       /\ max' = [max EXCEPT ![p] = k]
       /\ objs' = [objs EXCEPT ![p] = [i \in 1 .. k |-> made + i]]
  /\ ReadProdHead(p)
  /\ UNCHANGED <<indices, ring, num, alive, base, log, at>>

EnqueueAgain(p) ==
  /\ pc[p] = "again"
  /\ ReadProdHead(p)
  /\ UNCHANGED <<indices, ring, max, num, objs, alive, made, base, log, at>>

(* With cons.tail now read: n becomes what there is room for in a burst;   *)
(* a bulk that does not fit, or a burst without any room, is refused.      *)

FreeEntries(p) == (Size - 1 + consTail - head[p]) % Wrap

EnqueueCheck(p) ==
  LET free == FreeEntries(p) IN
  /\ pc[p] = "check"
  /\ \/ /\ max[p] <= free
        /\ num' = [num EXCEPT ![p] = max[p]]
        /\ Goto(p, "claim")
        /\ UNCHANGED <<head, max, objs, pos>>
     \/ /\ max[p] > free /\ free # 0
        /\ num' = [num EXCEPT ![p] = free]
        /\ Goto(p, "claim")
        /\ UNCHANGED <<head, max, objs, pos>>
     \/ max[p] > free /\ Return(p)
  /\ UNCHANGED <<indices, ring, alive, made, base, log, at>>

AdvanceUnwrapped(i, n) == i + n
Advance(i, n) == (i + n) % Wrap

ClaimUncompared(p) ==
  /\ pc[p] = "claim"
  /\ prodHead' = Advance(head[p], num[p])
  /\ log' = log \o SubSeq(objs[p], 1, num[p])
  /\ at' = [at EXCEPT !.ph = pos[p] + num[p]]
  /\ Goto(p, "copy")
  /\ UNCHANGED <<prodTail, consHead, consTail, ring, head, max, num, objs, alive, made,
                 base, pos>>

EnqueueClaim(p) ==
  /\ pc[p] = "claim"
  /\ IF MultiProd /\ prodHead # head[p]
       THEN Goto(p, "again") /\ UNCHANGED <<prodHead, log, at>>
       ELSE /\ prodHead' = Advance(head[p], num[p])
            /\ log' = log \o SubSeq(objs[p], 1, num[p])
            /\ at' = [at EXCEPT !.ph = pos[p] + num[p]]
            /\ Goto(p, "copy")
  /\ UNCHANGED <<prodTail, consHead, consTail, ring, head, max, num, objs, alive, made,
                 base, pos>>

(* ENQUEUE_PTRS *)

EnqueueCopy(p) ==
  /\ pc[p] = "copy"
  /\ ring' = [s \in 0 .. Size - 1 |->
                IF \E k \in 0 .. num[p] - 1 : s = Slot(head[p], k)
                  THEN objs[p][1 + CHOOSE k \in 0 .. num[p] - 1 : s = Slot(head[p], k)]
                  ELSE ring[s]]
  /\ Goto(p, "publish")
  /\ UNCHANGED <<indices, head, max, num, objs, alive, made, base, log, at, pos>>

PublishAtOnce(p) ==
  /\ pc[p] = "publish"
  /\ prodTail' = Advance(head[p], num[p])
  /\ at' = [at EXCEPT !.pt = pos[p] + num[p]]
  /\ Return(p)
  /\ UNCHANGED <<prodHead, consHead, consTail, ring, alive, made, base, log>>

EnqueuePublish(p) ==
  /\ pc[p] = "publish"
  /\ MultiProd => prodTail = head[p]
  /\ prodTail' = Advance(head[p], num[p])
  /\ at' = [at EXCEPT !.pt = pos[p] + num[p]]
  /\ Return(p)
  /\ UNCHANGED <<prodHead, consHead, consTail, ring, alive, made, base, log>>

Enqueue(p) ==
  \/ EnqueueCall(p) \/ EnqueueAgain(p) \/ EnqueueCheck(p)
  \/ EnqueueClaim(p) \/ EnqueueCopy(p) \/ EnqueuePublish(p)

----------------------------------------------------------------------------
(* __rte_ring_mc_do_dequeue and __rte_ring_sc_do_dequeue.                  *)

ReadConsHead(c) ==
  /\ head' = [head EXCEPT ![c] = consHead]
  /\ pos' = [pos EXCEPT ![c] = at.ch]
  /\ Goto(c, "check")

DequeueCall(c) ==
  /\ pc[c] = "idle"
  /\ \E k \in 1 .. MaxBulk : max' = [max EXCEPT ![c] = k]
  /\ ReadConsHead(c)
  /\ UNCHANGED <<indices, ring, num, objs, alive, made, base, log, at>>

DequeueAgain(c) ==
  /\ pc[c] = "again"
  /\ ReadConsHead(c)
  /\ UNCHANGED <<indices, ring, max, num, objs, alive, made, base, log, at>>

EntriesClaimed(c) == (prodHead - head[c]) % Wrap
Entries(c) == (prodTail - head[c]) % Wrap

DequeueCheck(c) ==
  LET entries == Entries(c) IN
  /\ pc[c] = "check"
  /\ \/ /\ max[c] <= entries
        /\ num' = [num EXCEPT ![c] = max[c]]
        /\ Goto(c, "claim")
        /\ UNCHANGED <<head, max, objs, pos>>
     \/ /\ max[c] > entries /\ entries # 0
        /\ num' = [num EXCEPT ![c] = entries]
        /\ Goto(c, "claim")
        /\ UNCHANGED <<head, max, objs, pos>>
     \/ max[c] > entries /\ Return(c)
  /\ UNCHANGED <<indices, ring, alive, made, base, log, at>>

ClaimBlindly(c) ==
  /\ pc[c] = "claim"
  /\ IF MultiCons /\ consHead # head[c]
       THEN UNCHANGED <<consHead, at, pc>>
       ELSE /\ consHead' = Advance(head[c], num[c])
            /\ at' = [at EXCEPT !.ch = pos[c] + num[c]]
            /\ Goto(c, "copy")
  /\ UNCHANGED <<prodHead, prodTail, consTail, ring, head, max, num, objs, alive, made,
                 base, log, pos>>

DequeueClaim(c) ==
  /\ pc[c] = "claim"
  /\ IF MultiCons /\ consHead # head[c]
       THEN Goto(c, "again") /\ UNCHANGED <<consHead, at>>
       ELSE /\ consHead' = Advance(head[c], num[c])
            /\ at' = [at EXCEPT !.ch = pos[c] + num[c]]
            /\ Goto(c, "copy")
  /\ UNCHANGED <<prodHead, prodTail, consTail, ring, head, max, num, objs, alive, made,
                 base, log, pos>>

(* DEQUEUE_PTRS *)

InTable(i, n) == [k \in 1 .. n |-> ring[Slot(i, k - 1)]]

DequeueCopy(c) ==
  /\ pc[c] = "copy"
  /\ objs' = [objs EXCEPT ![c] = InTable(head[c], num[c])]
  /\ Goto(c, "publish")
  /\ UNCHANGED <<indices, ring, head, max, num, alive, made, base, log, at, pos>>

DequeuePublish(c) ==
  /\ pc[c] = "publish"
  /\ MultiCons => consTail = head[c]
  /\ consTail' = Advance(head[c], num[c])
  /\ at' = [at EXCEPT !.ct = pos[c] + num[c]]
  /\ Return(c)
  /\ UNCHANGED <<prodHead, prodTail, consHead, ring, alive, made, base, log>>

Dequeue(c) ==
  \/ DequeueCall(c) \/ DequeueAgain(c) \/ DequeueCheck(c)
  \/ DequeueClaim(c) \/ DequeueCopy(c) \/ DequeuePublish(c)

----------------------------------------------------------------------------
(* A terminating signal stops a thread for good in the middle of an        *)
(* operation.  What sig_handler then enqueues itself is the work of        *)
(* another thread here.                                                    *)

Kill(t) ==
  /\ t \in Mortals /\ t \in alive /\ pc[t] # "idle"
  /\ alive' = alive \ {t}
  /\ UNCHANGED <<indices, ring, pc, head, max, num, objs, made, base, log, at, pos>>

Step(t) ==
  /\ t \in alive
  /\ \/ t \in Producers /\ Enqueue(t)
     \/ t \in Consumers /\ Dequeue(t)

Next == \E t \in Threads : Step(t) \/ Kill(t)

Spec == Init /\ [][Next]_vars

(* A thread inside an operation keeps running; nobody has to start one.    *)
FairSpec == Spec /\ \A t \in Threads : WF_vars(pc[t] # "idle" /\ Step(t))

----------------------------------------------------------------------------
(* Properties.                                                             *)

Labels == {"idle", "again", "check", "claim", "copy", "publish"}

(* Type invariant: the four indices stay in the range of uint32_t.         *)
TypeOK ==
  /\ {prodHead, prodTail, consHead, consTail, base} \subseteq 0 .. Wrap - 1
  /\ ring \in [0 .. Size - 1 -> Nat]
  /\ pc \in [Threads -> Labels]
  /\ head \in [Threads -> 0 .. Wrap - 1]
  /\ max \in [Threads -> Nat] /\ num \in [Threads -> Nat]
  /\ objs \in [Threads -> Seq(Nat)]
  /\ alive \subseteq Threads
  /\ made \in 0 .. MaxObjs
  /\ log \in Seq(Nat)
  /\ at \in [ph : Nat, pt : Nat, ch : Nat, ct : Nat]
  /\ pos \in [Threads -> Nat]

(* A ring created for a single producer (consumer) has one.                *)
UsedAsCreated ==
  /\ ~MultiProd => \A p, q \in Producers : p = q
  /\ ~MultiCons => \A c, d \in Consumers : c = d

(* No thread sleeps between reading its side's head and the compare-and-set*)
(* while Wrap objects pass.                                                *)
NoLapping ==
  /\ \A p \in Producers : pc[p] = "claim" => at.ph - pos[p] < Wrap
  /\ \A c \in Consumers : pc[c] = "claim" => at.ch - pos[c] < Wrap

(* Between claiming and publishing an operation has its entries of the     *)
(* table to itself: no two enqueues write the same entry, and none writes  *)
(* an entry a dequeue is still to copy, however stale the index was that   *)
(* an operation computed its room from and wherever the indices wrap.      *)
Working(t) == pc[t] \in {"copy", "publish"}
Claimed(t) == {Slot(head[t], k) : k \in 0 .. num[t] - 1}
ClaimsDisjoint ==
  \A t, u \in Threads : t # u /\ Working(t) /\ Working(u) => Claimed(t) \cap Claimed(u) = {}

(* What a dequeue copied are the objects enqueued at its positions: the    *)
(* dequeues together give out every object once, in the order of enqueue.  *)
GotInOrder ==
  \A c \in Consumers :
    pc[c] = "publish" => objs[c] = [k \in 1 .. num[c] |-> log[pos[c] + k]]

(* The ring implements a bounded FIFO queue of Size - 1 objects.  An       *)
(* enqueue takes effect when it publishes, a dequeue when it claims.       *)
Fifo == INSTANCE RingFifo
          WITH Objects <- 1 .. MaxObjs, Capacity <- Size - 1,
               queue <- InTable(consHead, (prodTail - consHead) % Wrap),
               in <- [p \in Producers |-> objs[p]],
               out <- [c \in Consumers |->
                         IF pc[c] = "copy" THEN InTable(head[c], num[c]) ELSE objs[c]]
FifoSpec == Fifo!Spec

(* An operation that has claimed entries publishes them, unless one of its *)
(* side that claimed earlier was killed before it published: it waits for  *)
(* that one for ever, and the other side goes on.  An operation that has   *)
(* not claimed yet waits for nobody, but its compare-and-set may fail      *)
(* again and again; each time, another thread of its side has claimed      *)
(* entries meanwhile.                                                      *)
Side(t) == IF t \in Producers THEN Producers ELSE Consumers
Position(t) == IF t \in Producers THEN at.ph ELSE at.ch
BehindKilled(t) == \E u \in Side(t) \ alive : Working(u) /\ pos[u] < pos[t]
Claiming(t) == pc[t] \in {"again", "check", "claim"}
OperationsEnd ==
  \A t \in Threads :
    /\ Working(t) ~> (~Working(t) \/ t \notin alive \/ BehindKilled(t))
    /\ <>[](Claiming(t) /\ t \in alive) => []<><<Position(t)' # Position(t)>>_vars
=============================================================================
