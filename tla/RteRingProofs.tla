--------------------------- MODULE RteRingProofs ----------------------------
(***************************************************************************)
(* Proofs about RteRing, for rings of any size, any number of threads and  *)
(* objects, all four combinations of single and multiple producers and     *)
(* consumers, and threads that are killed anywhere.                        *)
(*                                                                         *)
(* ClaimsDisjoint and GotInOrder speak of wrapped indices; the invariant   *)
(* speaks of positions that do not wrap.  The consumers' claims lie        *)
(* between cons.tail and cons.head, the producers' between prod.tail and   *)
(* prod.head, and the whole window is shorter than the table.  A thread    *)
(* that has yet to claim may hold a stale copy of its head, and then what  *)
(* it computed is arbitrary; only for one whose copy is current is there   *)
(* room.  That is enough, as the compare-and-set fails for the others.     *)
(*                                                                         *)
(* The last part shows that the entries between cons.head and prod.tail    *)
(* are the queue of RingFifo.                                              *)
(***************************************************************************)
EXTENDS RteRing, TLAPS

(* Leaves name another backend where Zenon does not find the proof. *)
USE ZenonT(20)

----------------------------------------------------------------------------
(* Modular arithmetic.                                                     *)

(* Division with remainder. *)
LEMMA Division ==
  ASSUME NEW n \in Int, n > 0, NEW x \in Int
  PROVE  x = (x \div n) * n + (x % n) /\ x \div n \in Int /\ x % n \in 0 .. n - 1
<1>1. x = (x \div n) * n + (x % n)
  BY Z3
<1> QED
  BY <1>1, Z3

(* The remainder is determined by its range. *)
LEMMA Remainder ==
  ASSUME NEW n \in Int, n > 0, NEW q \in Int, NEW r \in 0 .. n - 1
  PROVE  (q * n + r) % n = r
  BY SMTT(60)

(* A positive multiple of n is at least n. *)
LEMMA MultipleGap ==
  ASSUME NEW n \in Int, n > 0, NEW k \in Int, k * n > 0
  PROVE  k * n >= n
<1>1. k >= 1
  BY Z3
<1>2. (k - 1) * n >= 0
  BY <1>1, Z3
<1>3. (k - 1) * n = k * n - n
  BY Z3
<1> QED
  BY SMTT(60), <1>2, <1>3

(* Two numbers less than n apart have different remainders. *)
LEMMA RemaindersDiffer ==
  ASSUME NEW n \in Int, n > 0, NEW x \in Int, NEW y \in Int, x < y, y - x < n
  PROVE  x % n # y % n
<1> SUFFICES ASSUME x % n = y % n
             PROVE  FALSE
  OBVIOUS
<1>1. PICK a \in Int : x = a * n + (x % n)
  BY Division
<1>2. PICK b \in Int : y = b * n + (y % n)
  BY Division
<1>3. x % n \in Int
  BY SMTT(60), Division
<1>4. y - x = b * n - a * n
  BY SMTT(60), <1>1, <1>2, <1>3
<1>5. b * n - a * n = (b - a) * n /\ b - a \in Int
  BY SMTT(60), <1>1, <1>2
<1>6. PICK k \in Int : y - x = k * n
  BY <1>4, <1>5
<1>7. k * n > 0 /\ k * n < n
  BY SMTT(60), <1>6
<1> QED
  BY SMTT(60), <1>7, MultipleGap

(* An index that is advanced after it was wrapped. *)
LEMMA WrapThenAdd ==
  ASSUME NEW n \in Int, n > 0, NEW a \in Int, NEW k \in Int
  PROVE  ((a % n) + k) % n = (a + k) % n
<1>1. PICK p \in Int : a = p * n + (a % n)
  BY Division
<1>2. PICK q \in Int : a + k = q * n + ((a + k) % n)
  BY SMTT(60), Division
<1>3. a % n \in Int /\ (a + k) % n \in 0 .. n - 1
  BY SMTT(60), Division
<1>4. (a % n) + k = q * n - p * n + ((a + k) % n)
  BY SMTT(60), <1>1, <1>2, <1>3
<1>5. q * n - p * n = (q - p) * n /\ q - p \in Int
  BY SMTT(60), <1>1, <1>2
<1>6. PICK d \in Int : (a % n) + k = d * n + ((a + k) % n)
  BY <1>4, <1>5
<1> QED
  BY SMTT(60), <1>3, <1>6, Remainder

(* The difference of two wrapped indices. *)
LEMMA WrappedDifference ==
  ASSUME NEW n \in Int, n > 0, NEW a \in Int, NEW b \in Int, NEW c \in Int
  PROVE  (c + (a % n) - (b % n)) % n = (c + a - b) % n
<1>1. PICK p \in Int : a = p * n + (a % n)
  BY Division
<1>2. PICK q \in Int : b = q * n + (b % n)
  BY Division
<1>3. a % n \in Int /\ b % n \in Int
  BY SMTT(60), Division
<1>4. PICK e \in Int : e = c + a - b
  BY SMTT(60)
<1>5. PICK r \in Int : e = r * n + (e % n)
  BY Division
<1>6. e % n \in 0 .. n - 1
  BY Division
<1>7. c + (a % n) - (b % n) = (q * n - p * n) + r * n + (e % n)
  BY SMTT(60), <1>1, <1>2, <1>3, <1>4, <1>5, <1>6
<1>8. (q * n - p * n) + r * n = (q - p + r) * n /\ q - p + r \in Int
  BY SMTT(60), <1>1, <1>2, <1>5
<1>9. PICK d \in Int : c + (a % n) - (b % n) = d * n + (e % n)
  BY <1>7, <1>8
<1>10. (d * n + (e % n)) % n = e % n
  BY <1>6, Remainder
<1> QED
  BY <1>4, <1>9, <1>10

(* A number in range is its own remainder. *)
LEMMA InRange ==
  ASSUME NEW n \in Int, n > 0, NEW x \in 0 .. n - 1
  PROVE  x % n = x
  BY SMTT(60)

(* Masking a wrapped index: the table size divides the range of indices. *)
LEMMA WrapThenMask ==
  ASSUME NEW m \in Int, m > 0, NEW w \in Int, w > 0, NEW j \in Int, w = j * m,
         NEW a \in Int, NEW k \in Int
  PROVE  ((a % w) + k) % m = (a + k) % m
<1>1. PICK p \in Int : a = p * w + (a % w)
  BY Division
<1>2. PICK q \in Int : a + k = q * m + ((a + k) % m)
  BY SMTT(60), Division
<1>3. a % w \in Int /\ (a + k) % m \in 0 .. m - 1
  BY SMTT(60), Division
<1>4. (a % w) + k = q * m - p * w + ((a + k) % m)
  BY SMTT(60), <1>1, <1>2, <1>3
<1>5. q * m - p * w = (q - p * j) * m /\ q - p * j \in Int
  BY SMTT(60), <1>1, <1>2
<1>6. PICK d \in Int : (a % w) + k = d * m + ((a + k) % m)
  BY <1>4, <1>5
<1>7. (d * m + ((a + k) % m)) % m = (a + k) % m
  BY <1>3, Remainder
<1> QED
  BY <1>6, <1>7

----------------------------------------------------------------------------
(* The invariant.                                                          *)

(* The wrapped index, and the entry of the table, of a position. *)
Ix(x) == (base + x) % Wrap
Cell(x) == (base + x) % Size

(* A thread that has read its side's head holds the index of that position.*)
HeadInv ==
  /\ prodHead = Ix(at.ph) /\ prodTail = Ix(at.pt)
  /\ consHead = Ix(at.ch) /\ consTail = Ix(at.ct)
  /\ \A t \in Threads : pc[t] \in {"check", "claim", "copy", "publish"} => head[t] = Ix(pos[t])

WindowInv ==
  /\ at.ct <= at.ch /\ at.ch <= at.pt /\ at.pt <= at.ph
  /\ at.ph <= at.ct + Size - 1
  /\ Len(log) = at.ph

ProducerOK(p) ==
  /\ pc[p] # "idle" => Len(objs[p]) = max[p] /\ max[p] >= 1
  /\ pc[p] \in {"check", "claim"} => pos[p] <= at.ph
  /\ pc[p] = "claim" => /\ 1 <= num[p] /\ num[p] <= max[p]
                        /\ pos[p] = at.ph => pos[p] + num[p] <= at.ct + Size - 1
  /\ Working(p) => /\ 1 <= num[p] /\ num[p] <= max[p]
                   /\ at.pt <= pos[p] /\ pos[p] + num[p] <= at.ph
                   /\ \A k \in 1 .. num[p] : log[pos[p] + k] = objs[p][k]
ProducerInv == \A p \in Producers : ProducerOK(p)

ConsumerOK(c) ==
  /\ pc[c] # "idle" => max[c] >= 1
  /\ pc[c] \in {"check", "claim"} => pos[c] <= at.ch
  /\ pc[c] = "claim" => /\ 1 <= num[c]
                        /\ pos[c] = at.ch => pos[c] + num[c] <= at.pt
  /\ Working(c) => /\ 1 <= num[c]
                   /\ at.ct <= pos[c] /\ pos[c] + num[c] <= at.ch
ConsumerInv == \A c \in Consumers : ConsumerOK(c)

Apart(t, u) == pos[t] + num[t] <= pos[u] \/ pos[u] + num[u] <= pos[t]
ApartInv ==
  /\ \A p, q \in Producers : p # q /\ Working(p) /\ Working(q) => Apart(p, q)
  /\ \A c, d \in Consumers : c # d /\ Working(c) /\ Working(d) => Apart(c, d)

(* Without RING_F_SP_ENQ's (RING_F_SC_DEQ's) compare-and-set the only      *)
(* producer (consumer) finds its side quiet.                               *)
SingleInv ==
  /\ ~MultiProd => \A p \in Producers :
       /\ pc[p] \in {"check", "claim"} => pos[p] = at.ph
       /\ IF Working(p) THEN pos[p] = at.pt /\ pos[p] + num[p] = at.ph ELSE at.pt = at.ph
  /\ ~MultiCons => \A c \in Consumers :
       /\ pc[c] \in {"check", "claim"} => pos[c] = at.ch
       /\ IF Working(c) THEN pos[c] = at.ct /\ pos[c] + num[c] = at.ch ELSE at.ct = at.ch

(* An entry of the window holds its object once the producer that claimed  *)
(* it has copied it there.                                                 *)
BeingWritten(i) ==
  \E p \in Producers : pc[p] = "copy" /\ pos[p] <= i /\ i < pos[p] + num[p]
TableInv ==
  \A i \in at.ct .. at.ph - 1 : ~BeingWritten(i) => ring[Cell(i)] = log[i + 1]

Inv ==
  /\ TypeOK /\ HeadInv /\ WindowInv /\ ProducerInv /\ ConsumerInv
  /\ ApartInv /\ SingleInv /\ TableInv /\ GotInOrder

(* The constants as the arithmetic lemmas want them. *)
LEMMA Constants ==
  /\ Size \in Int /\ Size > 0 /\ Wrap \in Int /\ Wrap > 0 /\ Size <= Wrap
  /\ \E j \in Int : j > 0 /\ Wrap = j * Size
<1>1. PICK j \in 1 .. Wrap : Wrap = j * Size
  BY RingAssumption DEF RingAssumption
<1>2. Size \in Int /\ Size > 0 /\ j \in Int /\ j > 0 /\ Wrap \in Int
  BY SMTT(60), RingAssumption, <1>1 DEF RingAssumption
<1>3. j * Size >= Size
  <2>1. j * Size > 0
    BY <1>2, Z3
  <2> QED
    BY <2>1, <1>2, MultipleGap
<1> QED
  BY SMTT(60), <1>1, <1>2, <1>3

(* Advancing the index of a position gives the index of a later one. *)
LEMMA IxAdvance ==
  ASSUME base \in Nat, NEW x \in Nat, NEW k \in Nat
  PROVE  Advance(Ix(x), k) = Ix(x + k)
<1>1. PICK a \in Int : a = base + x
  BY SMTT(60)
<1>2. ((a % Wrap) + k) % Wrap = (a + k) % Wrap
  <2>1. Wrap \in Int /\ Wrap > 0 /\ k \in Int
    BY SMTT(60), Constants
  <2> QED
    BY <2>1, WrapThenAdd, Zenon
<1>3. a + k = base + (x + k)
  BY SMTT(60), <1>1
<1> QED
  BY <1>1, <1>2, <1>3 DEF Advance, Ix

(* An index is in range. *)
LEMMA IxRange ==
  ASSUME base \in Nat, NEW x \in Nat
  PROVE  Ix(x) \in 0 .. Wrap - 1
  BY SMTT(60), Constants, Division DEF Ix

(* Positions less than Wrap apart have different indices. *)
LEMMA IxInjective ==
  ASSUME base \in Nat, NEW x \in Nat, NEW y \in Nat, x <= y, y - x < Wrap, Ix(x) = Ix(y)
  PROVE  x = y
<1> SUFFICES ASSUME x < y
             PROVE  FALSE
  BY SMTT(60)
<1>1. PICK a \in Int : a = base + x
  BY SMTT(60)
<1>2. PICK b \in Int : b = base + y
  BY SMTT(60)
<1>3. a < b /\ b - a < Wrap
  BY SMTT(60), <1>1, <1>2, Constants
<1>4. a % Wrap # b % Wrap
  BY <1>3, Constants, RemaindersDiffer
<1> QED
  BY <1>1, <1>2, <1>4 DEF Ix

(* The entry an operation uses is that of the position. *)
LEMMA SlotCell ==
  ASSUME base \in Nat, NEW x \in Nat, NEW k \in Nat
  PROVE  Slot(Ix(x), k) = Cell(x + k)
<1>1. PICK j \in Int : j > 0 /\ Wrap = j * Size
  BY Constants
<1>2. PICK a \in Int : a = base + x
  BY SMTT(60)
<1>3. ((a % Wrap) + k) % Size = (a + k) % Size
  <2>1. Size \in Int /\ Size > 0 /\ Wrap \in Int /\ Wrap > 0 /\ k \in Int
    BY SMTT(60), Constants
  <2>2. \A u, z \in Int : ((u % Wrap) + z) % Size = (u + z) % Size
    BY <2>1, <1>1, WrapThenMask
  <2> QED
    BY <2>1, <2>2
<1>4. a + k = base + (x + k)
  BY SMTT(60), <1>2
<1> QED
  BY <1>1, <1>2, <1>3, <1>4 DEF Slot, Cell, Ix

(* Positions less than Size apart have different entries. *)
LEMMA CellInjective ==
  ASSUME base \in Nat, NEW x \in Nat, NEW y \in Nat, x < y, y - x < Size
  PROVE  Cell(x) # Cell(y) /\ Cell(x) \in 0 .. Size - 1
<1>1. (base + x) % Size # (base + y) % Size
  BY SMTT(60), Constants, RemaindersDiffer
<1> QED
  BY SMTT(60), <1>1, Constants, Division DEF Cell

(* What a thread with a current copy of the head computes is exact. *)
LEMMA FreeExact ==
  ASSUME base \in Nat, NEW p, NEW x \in Nat, NEW y \in Nat, head[p] = Ix(x), consTail = Ix(y),
         y <= x, x <= y + Size - 1
  PROVE  FreeEntries(p) = Size - 1 + y - x
<1>1. PICK a \in Int : a = base + y
  BY SMTT(60)
<1>2. PICK b \in Int : b = base + x
  BY SMTT(60)
<1>3. PICK c \in Int : c = Size - 1
  BY SMTT(60), Constants
<1>4. c + a - b \in 0 .. Wrap - 1 /\ c + a - b = Size - 1 + y - x
  BY SMTT(60), <1>1, <1>2, <1>3, Constants
<1>5. (c + (a % Wrap) - (b % Wrap)) % Wrap = (c + a - b) % Wrap
  <2>1. Wrap \in Int /\ Wrap > 0
    BY Constants
  <2>2. \A u, v, z \in Int : (z + (u % Wrap) - (v % Wrap)) % Wrap = (z + u - v) % Wrap
    BY <2>1, WrappedDifference
  <2> QED
    BY SMTT(60), <2>1, <2>2
<1> QED
  BY <1>1, <1>2, <1>3, <1>4, <1>5, Constants, InRange DEF FreeEntries, Ix

LEMMA EntriesExact ==
  ASSUME base \in Nat, NEW c, NEW x \in Nat, NEW y \in Nat, head[c] = Ix(x), prodTail = Ix(y),
         x <= y, y - x <= Size - 1
  PROVE  Entries(c) = y - x
<1>1. PICK a \in Int : a = base + y
  BY SMTT(60)
<1>2. PICK b \in Int : b = base + x
  BY SMTT(60)
<1>3. 0 + a - b \in 0 .. Wrap - 1 /\ 0 + a - b = y - x
  BY SMTT(60), <1>1, <1>2, Constants
<1>4. (0 + (a % Wrap) - (b % Wrap)) % Wrap = (0 + a - b) % Wrap
  <2>1. Wrap \in Int /\ Wrap > 0 /\ 0 \in Int
    BY SMTT(60), Constants
  <2>2. \A u, v, z \in Int : (z + (u % Wrap) - (v % Wrap)) % Wrap = (z + u - v) % Wrap
    BY <2>1, WrappedDifference
  <2> QED
    BY ZenonT(60), <2>1, <2>2
<1>5. a % Wrap \in Int /\ b % Wrap \in Int
  BY SMTT(60), Constants, Division
<1> QED
  BY SMTT(60), <1>1, <1>2, <1>3, <1>4, <1>5, Constants, InRange DEF Entries, Ix

(* Init establishes the invariant. *)
LEMMA InvInit == Init => Inv
<1> SUFFICES ASSUME Init
             PROVE  Inv
  OBVIOUS
<1>0. base \in 0 .. Wrap - 1 /\ base \in Nat /\ Ix(0) = base
  <2>1. base \in 0 .. Wrap - 1 /\ base \in Nat /\ base + 0 = base
    BY SMTT(60), RingAssumption, Constants DEF Init, RingAssumption
  <2> QED
    BY <2>1, Constants, InRange DEF Ix
<1>1. TypeOK
  <2>1. /\ ring \in [0 .. Size - 1 -> Nat] /\ log \in Seq(Nat) /\ made \in 0 .. MaxObjs
        /\ at \in [ph : Nat, pt : Nat, ch : Nat, ct : Nat] /\ alive \subseteq Threads
    BY SMTT(60), RingAssumption DEF Init, RingAssumption
  <2>2. /\ head \in [Threads -> 0 .. Wrap - 1] /\ pos \in [Threads -> Nat]
        /\ max \in [Threads -> Nat] /\ num \in [Threads -> Nat]
    BY SMTT(60), Constants DEF Init
  <2>3. pc \in [Threads -> Labels] /\ objs \in [Threads -> Seq(Nat)]
    BY SMTT(60) DEF Init, Labels
  <2> QED
    BY <1>0, <2>1, <2>2, <2>3 DEF TypeOK, Init
<1>2. HeadInv
  BY <1>0 DEF Init, HeadInv
<1>3. WindowInv
  BY SMTT(60), Constants DEF Init, WindowInv
<1>4. ProducerInv /\ ConsumerInv /\ ApartInv /\ GotInOrder
  BY DEF Init, ProducerInv, ProducerOK, ConsumerInv, ConsumerOK, ApartInv, GotInOrder, Working,
         Threads
<1>5. SingleInv
  BY DEF Init, SingleInv, Working, Threads
<1>6. TableInv
  BY SMTT(60) DEF Init, TableInv
<1> QED
  BY <1>1, <1>2, <1>3, <1>4, <1>5, <1>6 DEF Inv

(* The arithmetic facts of the type invariant. *)
LEMMA Numbers ==
  ASSUME TypeOK
  PROVE  /\ prodHead \in Int /\ prodTail \in Int /\ consHead \in Int /\ consTail \in Int
         /\ base \in Nat /\ at.ph \in Nat /\ at.pt \in Nat /\ at.ch \in Nat /\ at.ct \in Nat
         /\ \A t \in Threads : head[t] \in Int /\ max[t] \in Nat /\ num[t] \in Nat /\ pos[t] \in Nat
<1>1. prodHead \in Int /\ prodTail \in Int /\ consHead \in Int /\ consTail \in Int /\ base \in Nat
  BY SMTT(60), Constants DEF TypeOK
<1>2. \A t \in Threads : head[t] \in Int /\ max[t] \in Nat /\ num[t] \in Nat /\ pos[t] \in Nat
  BY SMTT(60), Constants DEF TypeOK
<1>3. at.ph \in Nat /\ at.pt \in Nat /\ at.ch \in Nat /\ at.ct \in Nat
  BY DEF TypeOK
<1> QED
  BY <1>1, <1>2, <1>3

(* A step that only concerns the local variables of a thread that holds no *)
(* claim.                                                                  *)
Others(t) ==
  \A u \in Threads : u # t =>
    /\ pc'[u] = pc[u] /\ head'[u] = head[u] /\ max'[u] = max[u] /\ num'[u] = num[u]
    /\ objs'[u] = objs[u] /\ pos'[u] = pos[u]

LEMMA LocalStep ==
  ASSUME Inv, NEW t \in Threads, TypeOK', Others(t),
         UNCHANGED <<indices, ring, base, log, at>>,
         ~Working(t), ~Working(t)',
         pc'[t] \in {"check", "claim"} => head'[t] = Ix(pos'[t]),
         t \in Producers => ProducerOK(t)',
         t \in Consumers => ConsumerOK(t)',
         t \in Producers /\ ~MultiProd /\ pc'[t] \in {"check", "claim"} => pos'[t] = at.ph,
         t \in Consumers /\ ~MultiCons /\ pc'[t] \in {"check", "claim"} => pos'[t] = at.ch
  PROVE  Inv'
<1> USE DEF Inv
<1>0. Producers \subseteq Threads /\ Consumers \subseteq Threads
  BY DEF Threads
<1>1. /\ prodHead' = prodHead /\ prodTail' = prodTail /\ consHead' = consHead
      /\ consTail' = consTail /\ ring' = ring /\ base' = base /\ log' = log /\ at' = at
  BY DEF indices
<1>2. HeadInv'
  <2>1. \A u \in Threads : pc'[u] \in {"check", "claim", "copy", "publish"}
          => head'[u] = Ix(pos'[u])
    <3> SUFFICES ASSUME NEW u \in Threads, pc'[u] \in {"check", "claim", "copy", "publish"}
                 PROVE  head'[u] = Ix(pos'[u])
      OBVIOUS
    <3>1. CASE u = t
      BY <3>1 DEF Working
    <3>2. CASE u # t
      BY <3>2 DEF Others, HeadInv
    <3> QED
      BY <3>1, <3>2
  <2> QED
    BY <1>1, <2>1 DEF HeadInv, Ix
<1>3. WindowInv'
  BY <1>1 DEF WindowInv
<1>4. ProducerInv'
  <2> SUFFICES ASSUME NEW q \in Producers, q # t
               PROVE  ProducerOK(q)'
    BY DEF ProducerInv
  <2>1. /\ pc'[q] = pc[q] /\ max'[q] = max[q] /\ num'[q] = num[q] /\ pos'[q] = pos[q]
        /\ objs'[q] = objs[q]
    BY <1>0 DEF Others
  <2> QED
    BY SMTT(60), <1>1, <2>1 DEF ProducerInv, ProducerOK, Working
<1>5. ConsumerInv'
  <2> SUFFICES ASSUME NEW q \in Consumers, q # t
               PROVE  ConsumerOK(q)'
    BY DEF ConsumerInv
  <2>1. pc'[q] = pc[q] /\ max'[q] = max[q] /\ num'[q] = num[q] /\ pos'[q] = pos[q]
    BY <1>0 DEF Others
  <2> QED
    BY <1>1, <2>1 DEF ConsumerInv, ConsumerOK, Working
<1>6. ApartInv'
  BY <1>0, <1>1 DEF ApartInv, Apart, Others, Working
<1>7. SingleInv'
  BY SMTT(60), <1>0, <1>1 DEF SingleInv, Others, Working
<1>8. TableInv'
  BY SMTT(60), <1>0, <1>1 DEF TableInv, BeingWritten, Cell, Others, Working
<1>9. GotInOrder'
  <2> SUFFICES ASSUME NEW c \in Consumers, pc'[c] = "publish"
               PROVE  objs'[c] = [k \in 1 .. num'[c] |-> log'[pos'[c] + k]]
    BY DEF GotInOrder
  <2>1. c # t
    BY DEF Working
  <2>2. pc[c] = "publish" /\ objs'[c] = objs[c] /\ num'[c] = num[c] /\ pos'[c] = pos[c]
    BY <1>0, <2>1 DEF Others
  <2> QED
    BY <1>1, <2>2 DEF GotInOrder
<1> QED
  BY <1>2, <1>3, <1>4, <1>5, <1>6, <1>7, <1>8, <1>9

(* A call that returns without having claimed anything, or the beginning   *)
(* of another attempt after a lost race.                                   *)
LEMMA GiveUpStep ==
  ASSUME Inv, NEW t \in Threads, pc[t] \in {"check", "claim"},
         UNCHANGED <<indices, ring, alive, made, base, log, at>>,
         \/ Return(t)
         \/ Goto(t, "again") /\ UNCHANGED <<head, max, num, objs, pos>>
  PROVE  Inv'
<1> USE DEF Inv
<1>1. TypeOK' /\ Others(t) /\ ~Working(t) /\ ~Working(t)' /\ pc'[t] \in {"idle", "again"}
  <2>1. CASE Return(t)
    <3>1. 0 \in 0 .. Wrap - 1 /\ 0 \in Nat /\ << >> \in Seq(Nat) /\ "idle" \in Labels
      BY SMTT(60), Constants DEF Labels
    <3>2. /\ pc' \in [Threads -> Labels] /\ head' \in [Threads -> 0 .. Wrap - 1]
          /\ max' \in [Threads -> Nat] /\ num' \in [Threads -> Nat]
          /\ objs' \in [Threads -> Seq(Nat)] /\ pos' \in [Threads -> Nat]
      BY <2>1, <3>1 DEF TypeOK, Return, Goto
    <3>3. TypeOK'
      BY <3>2 DEF TypeOK, indices
    <3>4. Others(t)
      BY <2>1 DEF TypeOK, Return, Goto, Others
    <3> QED
      BY <2>1, <3>3, <3>4 DEF TypeOK, Return, Goto, Working
  <2>2. CASE Goto(t, "again") /\ UNCHANGED <<head, max, num, objs, pos>>
    BY <2>2 DEF TypeOK, Goto, Others, Working, Labels, indices
  <2> QED
    BY <2>1, <2>2
<1>2. pc'[t] = "again" => max'[t] = max[t] /\ objs'[t] = objs[t]
  BY DEF Return, Goto, TypeOK
<1>3. t \in Producers => ProducerOK(t)'
  BY <1>1, <1>2 DEF ProducerInv, ProducerOK, Working
<1>4. t \in Consumers => ConsumerOK(t)'
  BY <1>1, <1>2 DEF ConsumerInv, ConsumerOK, Working
<1> QED
  BY <1>1, <1>3, <1>4, LocalStep

(* A producer reads prod.head, at the beginning or after a lost race. *)
LEMMA ReadProdHeadStep ==
  ASSUME Inv, NEW p \in Producers, EnqueueCall(p) \/ EnqueueAgain(p)
  PROVE  Inv'
<1> USE DEF Inv
<1>0. p \in Threads /\ p \notin Consumers
  BY RingAssumption DEF RingAssumption, Threads
<1>1. /\ UNCHANGED <<indices, ring, num, alive, base, log, at>>
      /\ head' = [head EXCEPT ![p] = prodHead]
      /\ pos' = [pos EXCEPT ![p] = at.ph]
      /\ pc' = [pc EXCEPT ![p] = "check"]
      /\ pc[p] \in {"idle", "again"}
  BY DEF EnqueueCall, EnqueueAgain, ReadProdHead, Goto
<1>2. /\ max' \in [Threads -> Nat] /\ objs' \in [Threads -> Seq(Nat)] /\ made' \in 0 .. MaxObjs
      /\ Len(objs'[p]) = max'[p] /\ max'[p] >= 1
      /\ \A t \in Threads : t # p => max'[t] = max[t] /\ objs'[t] = objs[t]
  <2>1. CASE EnqueueAgain(p)
    BY <2>1, <1>0 DEF EnqueueAgain, TypeOK, ProducerInv, ProducerOK
  <2>2. CASE EnqueueCall(p)
    <3>1. PICK k \in 1 .. MaxBulk :
            /\ made + k <= MaxObjs
            /\ made' = made + k
            /\ max' = [max EXCEPT ![p] = k]
            /\ objs' = [objs EXCEPT ![p] = [i \in 1 .. k |-> made + i]]
      BY <2>2 DEF EnqueueCall
    <3>2. k \in Nat /\ k >= 1 /\ made \in Nat
      BY SMTT(60), RingAssumption DEF RingAssumption, TypeOK
    <3>3. [i \in 1 .. k |-> made + i] \in Seq(Nat) /\ Len([i \in 1 .. k |-> made + i]) = k
      BY SMTT(60), <3>2
    <3>4. /\ max' \in [Threads -> Nat] /\ objs' \in [Threads -> Seq(Nat)]
          /\ max'[p] = k /\ objs'[p] = [i \in 1 .. k |-> made + i]
          /\ \A t \in Threads : t # p => max'[t] = max[t] /\ objs'[t] = objs[t]
      BY <3>1, <3>2, <3>3, <1>0 DEF TypeOK
    <3>5. made' \in 0 .. MaxObjs
      BY SMTT(60), <3>1, <3>2, RingAssumption DEF RingAssumption
    <3> QED
      BY <3>2, <3>3, <3>4, <3>5
  <2> QED
    BY <2>1, <2>2
<1>3. TypeOK' /\ Others(p)
  BY <1>0, <1>1, <1>2 DEF TypeOK, indices, Labels, Others
<1>4. pc'[p] = "check" /\ head'[p] = Ix(pos'[p]) /\ pos'[p] = at.ph /\ at' = at
  BY <1>0, <1>1 DEF TypeOK, HeadInv
<1>5. ProducerOK(p)'
  BY SMTT(60), <1>2, <1>3, <1>4 DEF ProducerOK, Working, TypeOK
<1>6. ~Working(p) /\ ~Working(p)'
  BY <1>1, <1>4 DEF Working
<1> QED
  BY <1>0, <1>1, <1>3, <1>4, <1>5, <1>6, LocalStep

(* A producer reads cons.tail and computes how many objects fit. *)
LEMMA EnqueueCheckStep ==
  ASSUME Inv, NEW p \in Producers, EnqueueCheck(p)
  PROVE  Inv'
<1> USE DEF Inv
<1>0. p \in Threads /\ p \notin Consumers /\ pc[p] = "check"
  BY RingAssumption DEF RingAssumption, Threads, EnqueueCheck
<1>1. CASE Return(p)
  BY <1>0, <1>1, GiveUpStep DEF EnqueueCheck
<1>2. CASE ~Return(p)
  <2>1. /\ UNCHANGED <<indices, ring, head, max, objs, alive, made, base, log, at, pos>>
        /\ pc' = [pc EXCEPT ![p] = "claim"]
    BY <1>2 DEF EnqueueCheck, Goto
  <2>2. FreeEntries(p) \in Nat
    <3>1. Size - 1 + consTail - head[p] \in Int
      BY SMTT(60), <1>0, Constants, Numbers
    <3> QED
      BY SMTT(60), <3>1, Constants, Division DEF FreeEntries
  <2>3. PICK n \in Nat : /\ num' = [num EXCEPT ![p] = n]
                         /\ 1 <= n /\ n <= max[p] /\ n <= FreeEntries(p)
    <3>1. max[p] \in Nat /\ max[p] >= 1
      BY <1>0, Numbers DEF ProducerInv, ProducerOK
    <3>2. CASE max[p] <= FreeEntries(p)
      BY SMTT(60), <1>2, <3>1, <3>2, <2>2 DEF EnqueueCheck
    <3>3. CASE ~(max[p] <= FreeEntries(p))
      BY SMTT(60), <1>2, <3>1, <3>3, <2>2 DEF EnqueueCheck
    <3> QED
      BY <3>2, <3>3
  <2>4. pos[p] = at.ph => pos[p] + n <= at.ct + Size - 1
    <3> SUFFICES ASSUME pos[p] = at.ph
                 PROVE  pos[p] + n <= at.ct + Size - 1
      OBVIOUS
    <3>1. /\ base \in Nat /\ at.ph \in Nat /\ at.ct \in Nat /\ head[p] = Ix(at.ph)
          /\ consTail = Ix(at.ct) /\ at.ct <= at.ph /\ at.ph <= at.ct + Size - 1
      BY SMTT(60), <1>0 DEF TypeOK, HeadInv, WindowInv
    <3>2. FreeEntries(p) = Size - 1 + at.ct - at.ph
      BY <3>1, FreeExact
    <3> QED
      BY SMTT(60), <2>3, <3>1, <3>2, Constants
  <2>5. TypeOK' /\ Others(p)
    BY <1>0, <2>1, <2>3 DEF TypeOK, indices, Labels, Others
  <2>6. /\ pc'[p] = "claim" /\ num'[p] = n /\ pos'[p] = pos[p] /\ head'[p] = head[p] /\ at' = at
        /\ max'[p] = max[p] /\ objs'[p] = objs[p]
    BY <1>0, <2>1, <2>3 DEF TypeOK
  <2>7. ProducerOK(p)'
    BY <1>0, <2>3, <2>4, <2>6 DEF ProducerInv, ProducerOK, Working
  <2>8. head'[p] = Ix(pos'[p]) /\ ~Working(p) /\ ~Working(p)' /\ (~MultiProd => pos'[p] = at.ph)
    BY <1>0, <2>6 DEF HeadInv, SingleInv, Working
  <2> QED
    BY <1>0, <2>1, <2>5, <2>7, <2>8, LocalStep
<1> QED
  BY <1>1, <1>2

(* A consumer reads cons.head, at the beginning or after a lost race. *)
LEMMA ReadConsHeadStep ==
  ASSUME Inv, NEW c \in Consumers, DequeueCall(c) \/ DequeueAgain(c)
  PROVE  Inv'
<1> USE DEF Inv
<1>0. c \in Threads /\ c \notin Producers
  BY RingAssumption DEF RingAssumption, Threads
<1>1. /\ UNCHANGED <<indices, ring, num, objs, alive, made, base, log, at>>
      /\ head' = [head EXCEPT ![c] = consHead]
      /\ pos' = [pos EXCEPT ![c] = at.ch]
      /\ pc' = [pc EXCEPT ![c] = "check"]
      /\ pc[c] \in {"idle", "again"}
  BY DEF DequeueCall, DequeueAgain, ReadConsHead, Goto
<1>2. /\ max' \in [Threads -> Nat] /\ max'[c] >= 1
      /\ \A t \in Threads : t # c => max'[t] = max[t]
  <2>1. CASE DequeueAgain(c)
    BY <2>1, <1>0 DEF DequeueAgain, TypeOK, ConsumerInv, ConsumerOK
  <2>2. CASE DequeueCall(c)
    <3>1. PICK k \in 1 .. MaxBulk : max' = [max EXCEPT ![c] = k]
      BY <2>2 DEF DequeueCall
    <3>2. k \in Nat /\ k >= 1
      BY SMTT(60), RingAssumption DEF RingAssumption
    <3> QED
      BY <3>1, <3>2, <1>0 DEF TypeOK
  <2> QED
    BY <2>1, <2>2
<1>3. TypeOK' /\ Others(c)
  BY <1>0, <1>1, <1>2 DEF TypeOK, indices, Labels, Others
<1>4. pc'[c] = "check" /\ head'[c] = Ix(pos'[c]) /\ pos'[c] = at.ch /\ at' = at
  BY <1>0, <1>1 DEF TypeOK, HeadInv
<1>5. ConsumerOK(c)'
  BY SMTT(60), <1>2, <1>3, <1>4 DEF ConsumerOK, Working, TypeOK
<1>6. ~Working(c) /\ ~Working(c)'
  BY <1>1, <1>4 DEF Working
<1> QED
  BY <1>0, <1>1, <1>3, <1>4, <1>5, <1>6, LocalStep

(* A consumer reads prod.tail and computes how many objects there are. *)
LEMMA DequeueCheckStep ==
  ASSUME Inv, NEW c \in Consumers, DequeueCheck(c)
  PROVE  Inv'
<1> USE DEF Inv
<1>0. c \in Threads /\ c \notin Producers /\ pc[c] = "check"
  BY RingAssumption DEF RingAssumption, Threads, DequeueCheck
<1>1. CASE Return(c)
  BY <1>0, <1>1, GiveUpStep DEF DequeueCheck
<1>2. CASE ~Return(c)
  <2>1. /\ UNCHANGED <<indices, ring, head, max, objs, alive, made, base, log, at, pos>>
        /\ pc' = [pc EXCEPT ![c] = "claim"]
    BY <1>2 DEF DequeueCheck, Goto
  <2>2. Entries(c) \in Nat
    <3>1. prodTail - head[c] \in Int
      BY SMTT(60), <1>0, Constants, Numbers
    <3> QED
      BY SMTT(60), <3>1, Constants, Division DEF Entries
  <2>3. PICK n \in Nat : num' = [num EXCEPT ![c] = n] /\ 1 <= n /\ n <= Entries(c)
    <3>1. max[c] \in Nat /\ max[c] >= 1
      BY <1>0, Numbers DEF ConsumerInv, ConsumerOK
    <3>2. CASE max[c] <= Entries(c)
      BY SMTT(60), <1>2, <3>1, <3>2, <2>2 DEF DequeueCheck
    <3>3. CASE ~(max[c] <= Entries(c))
      BY SMTT(60), <1>2, <3>1, <3>3, <2>2 DEF DequeueCheck
    <3> QED
      BY <3>2, <3>3
  <2>4. pos[c] = at.ch => pos[c] + n <= at.pt
    <3> SUFFICES ASSUME pos[c] = at.ch
                 PROVE  pos[c] + n <= at.pt
      OBVIOUS
    <3>1. /\ base \in Nat /\ at.ch \in Nat /\ at.pt \in Nat /\ head[c] = Ix(at.ch)
          /\ prodTail = Ix(at.pt) /\ at.ch <= at.pt /\ at.pt - at.ch <= Size - 1
      BY SMTT(60), <1>0, Constants, Numbers DEF HeadInv, WindowInv
    <3>2. Entries(c) = at.pt - at.ch
      BY <3>1, EntriesExact
    <3> QED
      BY SMTT(60), <2>3, <3>1, <3>2
  <2>5. TypeOK' /\ Others(c)
    BY <1>0, <2>1, <2>3 DEF TypeOK, indices, Labels, Others
  <2>6. /\ pc'[c] = "claim" /\ num'[c] = n /\ pos'[c] = pos[c] /\ head'[c] = head[c] /\ at' = at
        /\ max'[c] = max[c]
    BY <1>0, <2>1, <2>3 DEF TypeOK
  <2>7. ConsumerOK(c)'
    BY <1>0, <2>3, <2>4, <2>6 DEF ConsumerInv, ConsumerOK, Working
  <2>8. head'[c] = Ix(pos'[c]) /\ ~Working(c) /\ ~Working(c)' /\ (~MultiCons => pos'[c] = at.ch)
    BY <1>0, <2>6 DEF HeadInv, SingleInv, Working
  <2> QED
    BY <1>0, <2>1, <2>5, <2>7, <2>8, LocalStep
<1> QED
  BY <1>1, <1>2

(* What appending a sequence gives. *)
LEMMA Concat ==
  ASSUME NEW s \in Seq(Nat), NEW t \in Seq(Nat)
  PROVE  /\ s \o t \in Seq(Nat) /\ Len(s \o t) = Len(s) + Len(t)
         /\ \A k \in 1 .. Len(s) : (s \o t)[k] = s[k]
         /\ \A k \in 1 .. Len(t) : (s \o t)[Len(s) + k] = t[k]
  BY SMTT(60)

LEMMA Prefix ==
  ASSUME NEW s \in Seq(Nat), NEW n \in Nat, n <= Len(s)
  PROVE  /\ SubSeq(s, 1, n) \in Seq(Nat) /\ Len(SubSeq(s, 1, n)) = n
         /\ \A k \in 1 .. n : SubSeq(s, 1, n)[k] = s[k]
  BY SMTT(60)

(* What moving one of the four indices gives. *)
LEMMA Moved ==
  ASSUME NEW r \in [ph : Nat, pt : Nat, ch : Nat, ct : Nat], NEW v \in Nat
  PROVE  /\ [r EXCEPT !.ph = v] \in [ph : Nat, pt : Nat, ch : Nat, ct : Nat]
         /\ [r EXCEPT !.ph = v].ph = v /\ [r EXCEPT !.ph = v].pt = r.pt
         /\ [r EXCEPT !.ph = v].ch = r.ch /\ [r EXCEPT !.ph = v].ct = r.ct
         /\ [r EXCEPT !.pt = v] \in [ph : Nat, pt : Nat, ch : Nat, ct : Nat]
         /\ [r EXCEPT !.pt = v].ph = r.ph /\ [r EXCEPT !.pt = v].pt = v
         /\ [r EXCEPT !.pt = v].ch = r.ch /\ [r EXCEPT !.pt = v].ct = r.ct
         /\ [r EXCEPT !.ch = v] \in [ph : Nat, pt : Nat, ch : Nat, ct : Nat]
         /\ [r EXCEPT !.ch = v].ph = r.ph /\ [r EXCEPT !.ch = v].pt = r.pt
         /\ [r EXCEPT !.ch = v].ch = v /\ [r EXCEPT !.ch = v].ct = r.ct
         /\ [r EXCEPT !.ct = v] \in [ph : Nat, pt : Nat, ch : Nat, ct : Nat]
         /\ [r EXCEPT !.ct = v].ph = r.ph /\ [r EXCEPT !.ct = v].pt = r.pt
         /\ [r EXCEPT !.ct = v].ch = r.ch /\ [r EXCEPT !.ct = v].ct = v
  OBVIOUS

(* A producer moves prod.head: its copy was current. *)
LEMMA EnqueueClaimStep ==
  ASSUME Inv, UsedAsCreated, NoLapping, NEW p \in Producers, EnqueueClaim(p)
  PROVE  Inv'
<1> USE DEF Inv
<1>0. /\ p \in Threads /\ p \notin Consumers /\ pc[p] = "claim"
      /\ Producers \subseteq Threads /\ Consumers \subseteq Threads
  BY RingAssumption DEF RingAssumption, Threads, EnqueueClaim
<1>1. CASE MultiProd /\ prodHead # head[p]
  <2>1. /\ Goto(p, "again") /\ UNCHANGED <<indices, ring, alive, made, base, log, at>>
        /\ UNCHANGED <<head, max, num, objs, pos>>
    BY <1>1 DEF EnqueueClaim, indices
  <2> QED
    BY <1>0, <2>1, GiveUpStep
<1>2. CASE ~(MultiProd /\ prodHead # head[p])
  <2>0. PICK n \in Nat : n = num[p]
    BY <1>0, Numbers
  <2>1. /\ prodHead' = Advance(head[p], n) /\ log' = log \o SubSeq(objs[p], 1, n)
        /\ at' = [at EXCEPT !.ph = pos[p] + n]
        /\ pc' = [pc EXCEPT ![p] = "copy"]
        /\ UNCHANGED <<prodTail, consHead, consTail, ring, head, max, num, objs, alive, made,
                       base, pos>>
    BY <1>2, <2>0 DEF EnqueueClaim, Goto
  <2>2. pos[p] = at.ph
    <3>1. CASE MultiProd
      <4>1. Ix(pos[p]) = Ix(at.ph) /\ pos[p] <= at.ph /\ at.ph - pos[p] < Wrap
        BY <1>0, <1>2, <3>1 DEF HeadInv, ProducerInv, ProducerOK, NoLapping
      <4> QED
        BY <1>0, <4>1, Numbers, IxInjective
    <3>2. CASE ~MultiProd
      BY <1>0, <3>2 DEF SingleInv
    <3> QED
      BY <3>1, <3>2
  <2>3. /\ n \in Nat /\ n >= 1 /\ n <= Len(objs[p]) /\ objs[p] \in Seq(Nat) /\ log \in Seq(Nat)
        /\ at.ph + n <= at.ct + Size - 1 /\ Len(log) = at.ph
    BY <1>0, <2>0, <2>2, Numbers DEF ProducerInv, ProducerOK, WindowInv, TypeOK
  <2>4. /\ SubSeq(objs[p], 1, n) \in Seq(Nat) /\ Len(SubSeq(objs[p], 1, n)) = n
        /\ \A k \in 1 .. n : SubSeq(objs[p], 1, n)[k] = objs[p][k]
    BY <2>3, Prefix
  <2>5. /\ log' \in Seq(Nat) /\ Len(log') = at.ph + n
        /\ \A k \in 1 .. at.ph : log'[k] = log[k]
        /\ \A k \in 1 .. n : log'[at.ph + k] = objs[p][k]
    <3>1. PICK t \in Seq(Nat) : t = SubSeq(objs[p], 1, n)
      BY <2>4
    <3>2. /\ log \o t \in Seq(Nat) /\ Len(log \o t) = Len(log) + Len(t)
          /\ \A k \in 1 .. Len(log) : (log \o t)[k] = log[k]
          /\ \A k \in 1 .. Len(t) : (log \o t)[Len(log) + k] = t[k]
      BY <2>3, <3>1, Concat
    <3>3. log' = log \o t /\ Len(t) = n /\ Len(log) = at.ph /\ \A k \in 1 .. n : t[k] = objs[p][k]
      BY <2>1, <2>3, <2>4, <3>1
    <3> QED
      BY <3>2, <3>3
  <2>nats. at.ph \in Nat /\ at.pt \in Nat /\ at.ch \in Nat /\ at.ct \in Nat
    BY Numbers
  <2>6. /\ at'.ph = at.ph + n /\ at'.pt = at.pt /\ at'.ch = at.ch /\ at'.ct = at.ct
        /\ at' \in [ph : Nat, pt : Nat, ch : Nat, ct : Nat]
    <3>1. at.ph + n \in Nat
      BY SMTT(60), <2>nats
    <3>2. at \in [ph : Nat, pt : Nat, ch : Nat, ct : Nat]
      BY DEF TypeOK
    <3>3. at' = [at EXCEPT !.ph = at.ph + n]
      BY <2>1, <2>2
    <3> QED
      BY <3>1, <3>2, <3>3, Moved
  <2>7. prodHead' = Ix(at.ph + n) /\ prodHead' \in 0 .. Wrap - 1
    <3>1. base \in Nat /\ at.ph \in Nat /\ head[p] = Ix(at.ph)
      BY <1>0, <2>2, Numbers DEF ProducerInv, ProducerOK, HeadInv
    <3>2. Advance(Ix(at.ph), n) = Ix(at.ph + n) /\ Ix(at.ph + n) \in 0 .. Wrap - 1
      <4>1. PICK x \in Nat : x = at.ph + n
        BY SMTT(60), <3>1
      <4>2. Ix(x) \in 0 .. Wrap - 1
        BY <3>1, IxRange
      <4>3. Advance(Ix(at.ph), n) = Ix(at.ph + n)
        BY <3>1, IxAdvance
      <4> QED
        BY <4>1, <4>2, <4>3
    <3> QED
      BY <2>1, <3>1, <3>2
  <2>8. TypeOK'
    <3>1. pc' \in [Threads -> Labels]
      BY <1>0, <2>1 DEF TypeOK, Labels
    <3>2. {prodHead', prodTail', consHead', consTail', base'} \subseteq 0 .. Wrap - 1
      BY <2>1, <2>7 DEF TypeOK
    <3> QED
      BY <2>1, <2>5, <2>6, <3>1, <3>2 DEF TypeOK
  <2>9. HeadInv'
    BY <1>0, <2>1, <2>6, <2>7 DEF HeadInv, Ix, TypeOK
  <2>10. WindowInv'
    <3>1. at.ct <= at.ch /\ at.ch <= at.pt /\ at.pt <= at.ph
      BY DEF WindowInv
    <3>2. at.pt <= at.ph + n
      BY SMTT(60), <2>nats, <3>1
    <3> QED
      BY <2>3, <2>5, <2>6, <3>1, <3>2 DEF WindowInv
  <2>11. ProducerInv'
    <3> SUFFICES ASSUME NEW q \in Producers
                 PROVE  ProducerOK(q)'
      BY DEF ProducerInv
    <3>1. /\ max' = max /\ num' = num /\ pos' = pos /\ objs' = objs
          /\ ProducerOK(q) /\ pos[q] \in Nat /\ num[q] \in Nat /\ at.ph \in Nat /\ at.pt \in Nat
      BY <1>0, <2>1, Numbers DEF ProducerInv
    <3>2. CASE q = p
      <4>1. pc'[p] = "copy" /\ pos[p] = at.ph /\ num[p] = n /\ at.pt <= at.ph
        BY <1>0, <2>0, <2>1, <2>2 DEF TypeOK, WindowInv
      <4>2. Len(objs[p]) = max[p] /\ max[p] >= 1 /\ 1 <= num[p] /\ num[p] <= max[p]
        BY <1>0, <3>1, <3>2 DEF ProducerOK
      <4>3. at'.pt <= pos[p] /\ pos[p] + num[p] <= at'.ph
        BY SMTT(60), <4>1, <2>6, <2>nats
      <4>4. \A k \in 1 .. num[p] : log'[pos[p] + k] = objs[p][k]
        BY <4>1, <2>5
      <4> QED
        BY <3>1, <3>2, <4>1, <4>2, <4>3, <4>4 DEF ProducerOK, Working
    <3>3. CASE q # p
      <4>1. pc'[q] = pc[q]
        BY <1>0, <2>1, <3>3 DEF TypeOK
      <4>2. Working(q) => \A k \in 1 .. num[q] : log'[pos[q] + k] = objs[q][k]
        <5> SUFFICES ASSUME Working(q), NEW k \in 1 .. num[q]
                     PROVE  log'[pos[q] + k] = objs[q][k]
          OBVIOUS
        <5>1. pos[q] + k \in 1 .. at.ph /\ log[pos[q] + k] = objs[q][k]
          BY SMTT(60), <3>1 DEF ProducerOK
        <5> QED
          BY <5>1, <2>5
      <4> QED
        <5>1. /\ pc'[q] \in {"check", "claim"} => pos[q] <= at'.ph /\ pos[q] # at'.ph
              /\ Working(q) => at'.pt <= pos[q] /\ pos[q] + num[q] <= at'.ph
          <6>1. at'.ph = at.ph + n /\ at'.pt = at.pt /\ n >= 1
            BY <2>3, <2>6
          <6>2. pc'[q] \in {"check", "claim"} => pos[q] <= at.ph
            BY <3>1, <4>1 DEF ProducerOK
          <6>3. Working(q) => at.pt <= pos[q] /\ pos[q] + num[q] <= at.ph
            BY <3>1 DEF ProducerOK
          <6> QED
            BY SMTT(60), <3>1, <6>1, <6>2, <6>3
        <5> QED
          BY <3>1, <4>1, <4>2, <5>1 DEF ProducerOK, Working
    <3> QED
      BY <3>2, <3>3
  <2>12. ConsumerInv'
    BY <1>0, <2>1, <2>6 DEF ConsumerInv, ConsumerOK, Working, TypeOK
  <2>13. ApartInv'
    <3>1. \A c \in Consumers : Working(c)' = Working(c)
      BY <1>0, <2>1 DEF Working, TypeOK
    <3>2. \A q \in Producers : q # p => Working(q)' = Working(q)
      BY <1>0, <2>1 DEF Working, TypeOK
    <3>3. \A q \in Producers : Working(q) => pos[q] + num[q] <= pos[p]
      BY <2>2 DEF ProducerInv, ProducerOK
    <3> QED
      BY <2>1, <3>1, <3>2, <3>3 DEF ApartInv, Apart
  <2>14. SingleInv'
    <3>1. ~MultiProd => \A q \in Producers : q = p
      BY DEF UsedAsCreated
    <3>2. ~MultiProd => at.pt = at.ph
      BY <1>0 DEF SingleInv, Working
    <3> QED
      BY <1>0, <2>0, <2>1, <2>2, <2>6, <3>1, <3>2 DEF SingleInv, Working, TypeOK
  <2>15. TableInv'
    <3>0. base' = base /\ ring' = ring /\ pos' = pos /\ num' = num
      BY <2>1
    <3> SUFFICES ASSUME NEW i \in at'.ct .. at'.ph - 1,
                        ~\E q \in Producers : pc'[q] = "copy" /\ pos[q] <= i /\ i < pos[q] + num[q]
                 PROVE  ring[Cell(i)] = log'[i + 1]
      BY <3>0 DEF TableInv, Cell, BeingWritten
    <3>1. i \in Nat /\ at.ph \in Nat /\ at.ct \in Nat /\ at.ct <= i /\ i < at.ph + n
      <4>1. at'.ct = at.ct /\ at'.ph = at.ph + n
        BY <2>6
      <4> QED
        BY SMTT(60), <2>nats, <4>1
    <3>2. pc'[p] = "copy" /\ \A q \in Producers : pc[q] = "copy" => pc'[q] = "copy"
      BY <1>0, <2>1 DEF TypeOK
    <3>3. i < at.ph
      BY SMTT(60), <2>0, <2>2, <2>3, <3>1, <3>2
    <3>4. ~BeingWritten(i)
      BY <3>2 DEF BeingWritten
    <3>5. i \in at.ct .. at.ph - 1 /\ i + 1 \in 1 .. at.ph
      BY SMTT(60), <3>1, <3>3
    <3> QED
      BY <3>4, <3>5, <2>5 DEF TableInv
  <2>16. GotInOrder'
    <3> SUFFICES ASSUME NEW c \in Consumers, pc'[c] = "publish"
                 PROVE  objs'[c] = [k \in 1 .. num'[c] |-> log'[pos'[c] + k]]
      BY DEF GotInOrder
    <3>1. pc[c] = "publish" /\ objs'[c] = objs[c] /\ num'[c] = num[c] /\ pos'[c] = pos[c]
      BY <1>0, <2>1 DEF TypeOK
    <3>2. \A k \in 1 .. num[c] : log'[pos[c] + k] = log[pos[c] + k]
      <4>1. /\ pos[c] + num[c] <= at.ph /\ pos[c] \in Nat /\ num[c] \in Nat /\ at.ph \in Nat
        BY SMTT(60), <1>0, <3>1, Numbers DEF ConsumerInv, ConsumerOK, Working, WindowInv
      <4>2. \A k \in 1 .. num[c] : pos[c] + k \in 1 .. at.ph
        BY SMTT(60), <4>1
      <4> QED
        BY <4>2, <2>5
    <3> QED
      BY SMTT(60), <3>1, <3>2 DEF GotInOrder
  <2> QED
    BY <2>8, <2>9, <2>10, <2>11, <2>12, <2>13, <2>14, <2>15, <2>16
<1> QED
  BY <1>1, <1>2

(* Two positions of the window have different entries. *)
LEMMA WindowCells ==
  ASSUME Inv, NEW i \in Nat, NEW j \in Nat, at.ct <= i, i < at.ph, at.ct <= j, j < at.ph, i # j
  PROVE  Cell(i) # Cell(j)
<1>1. /\ base \in Nat /\ at.ct \in Nat /\ at.ph \in Nat /\ at.ph <= at.ct + Size - 1 /\ Size \in Int
  BY Numbers, Constants DEF Inv, WindowInv
<1>2. CASE i < j
  BY SMTT(60), <1>1, <1>2, CellInjective
<1>3. CASE j < i
  BY SMTT(60), <1>1, <1>3, CellInjective
<1> QED
  BY SMTT(60), <1>2, <1>3

(* A producer fills the entries it claimed. *)
LEMMA EnqueueCopyStep ==
  ASSUME Inv, NEW p \in Producers, EnqueueCopy(p)
  PROVE  Inv'
<1> USE DEF Inv
<1>0. /\ p \in Threads /\ p \notin Consumers /\ pc[p] = "copy"
      /\ Producers \subseteq Threads /\ Consumers \subseteq Threads
  BY RingAssumption DEF RingAssumption, Threads, EnqueueCopy
<1>1. /\ pc' = [pc EXCEPT ![p] = "publish"]
      /\ prodHead' = prodHead /\ prodTail' = prodTail /\ consHead' = consHead
      /\ consTail' = consTail /\ base' = base /\ log' = log /\ at' = at /\ head' = head
      /\ max' = max /\ num' = num /\ objs' = objs /\ pos' = pos /\ alive' = alive /\ made' = made
  BY DEF EnqueueCopy, Goto, indices
<1>2. /\ pc'[p] = "publish" /\ \A t \in Threads : t # p => pc'[t] = pc[t]
      /\ \A t \in Threads : Working(t)' = Working(t)
  <2>1. pc'[p] = "publish" /\ \A t \in Threads : t # p => pc'[t] = pc[t]
    BY <1>0, <1>1 DEF TypeOK
  <2> QED
    BY SMTT(60), <1>0, <2>1 DEF Working
<1>3. PICK n \in Nat : n = num[p]
  BY <1>0, Numbers
<1>4. PICK x \in Nat : x = pos[p]
  BY <1>0, Numbers
<1>5. /\ n >= 1 /\ n <= Len(objs[p]) /\ objs[p] \in Seq(Nat) /\ head[p] = Ix(x) /\ base \in Nat
      /\ at.ct <= x /\ x + n <= at.ph /\ at.ct \in Nat /\ at.ph \in Nat
      /\ \A k \in 1 .. n : log[x + k] = objs[p][k]
  <2>1. /\ n >= 1 /\ n <= max[p] /\ Len(objs[p]) = max[p] /\ at.pt <= x /\ x + n <= at.ph
        /\ \A k \in 1 .. n : log[x + k] = objs[p][k]
    BY <1>0, <1>3, <1>4 DEF ProducerInv, ProducerOK, Working
  <2>2. objs[p] \in Seq(Nat) /\ head[p] = Ix(x)
    BY <1>0, <1>4 DEF TypeOK, HeadInv
  <2>3. at.ct <= at.pt /\ base \in Nat /\ at.ct \in Nat /\ at.ph \in Nat /\ at.pt \in Nat
    BY SMTT(60), Numbers DEF WindowInv
  <2> QED
    BY SMTT(60), <2>1, <2>2, <2>3
<1>6. \A k \in 0 .. n - 1 : Slot(head[p], k) = Cell(x + k)
  <2> SUFFICES ASSUME NEW k \in 0 .. n - 1
               PROVE  Slot(Ix(x), k) = Cell(x + k)
    BY <1>5
  <2>1. k \in Nat /\ base \in Nat
    BY SMTT(60), <1>5
  <2> QED
    BY <2>1, SlotCell
<1>7. ring' = [s \in 0 .. Size - 1 |->
                 IF \E k \in 0 .. n - 1 : s = Slot(head[p], k)
                   THEN objs[p][1 + CHOOSE k \in 0 .. n - 1 : s = Slot(head[p], k)]
                   ELSE ring[s]]
  BY <1>3 DEF EnqueueCopy
<1>8. ring' \in [0 .. Size - 1 -> Nat]
  <2> SUFFICES ASSUME NEW s \in 0 .. Size - 1
               PROVE  ring'[s] \in Nat
    BY <1>7
  <2>1. CASE \E k \in 0 .. n - 1 : s = Slot(head[p], k)
    <3>1. PICK k \in 0 .. n - 1 : k = CHOOSE j \in 0 .. n - 1 : s = Slot(head[p], j)
      BY <2>1
    <3>2. 1 + k \in 1 .. Len(objs[p])
      BY SMTT(60), <1>5
    <3>3. ring'[s] = objs[p][1 + k]
      BY <1>7, <2>1, <3>1
    <3>4. objs[p][1 + k] \in Nat
      <4>1. PICK y \in 1 .. Len(objs[p]) : y = 1 + k
        BY <3>2
      <4>2. PICK q \in Seq(Nat) : q = objs[p]
        BY <1>5
      <4>3. q[y] \in Nat
        BY SMTT(60), <4>1, <4>2
      <4> QED
        BY <4>1, <4>2, <4>3
    <3> QED
      BY <3>3, <3>4
  <2>2. CASE ~\E k \in 0 .. n - 1 : s = Slot(head[p], k)
    BY <1>7, <2>2 DEF TypeOK
  <2> QED
    BY <2>1, <2>2
<1>9. TypeOK'
  <2>1. pc' \in [Threads -> Labels]
    BY <1>0, <1>1 DEF TypeOK, Labels
  <2> QED
    BY <1>1, <1>8, <2>1 DEF TypeOK
<1>10. HeadInv'
  BY <1>0, <1>1, <1>2 DEF HeadInv, Ix
<1>11. WindowInv'
  BY <1>1 DEF WindowInv
<1>12. ProducerInv'
  <2> SUFFICES ASSUME NEW q \in Producers
               PROVE  ProducerOK(q)'
    BY DEF ProducerInv
  <2>1. ProducerOK(q) /\ Working(q)' = Working(q) /\ (q # p => pc'[q] = pc[q])
    BY <1>0, <1>2 DEF ProducerInv
  <2> QED
    BY <1>0, <1>1, <1>2, <2>1 DEF ProducerOK
<1>13. ConsumerInv'
  BY <1>0, <1>1, <1>2 DEF ConsumerInv, ConsumerOK
<1>14. ApartInv'
  BY <1>0, <1>1, <1>2 DEF ApartInv, Apart
<1>15. SingleInv'
  BY <1>0, <1>1, <1>2 DEF SingleInv
<1>16. TableInv'
  <2> SUFFICES ASSUME NEW i \in at.ct .. at.ph - 1,
                      ~\E q \in Producers : pc'[q] = "copy" /\ pos[q] <= i /\ i < pos[q] + num[q]
               PROVE  ring'[Cell(i)] = log[i + 1]
    BY <1>1 DEF TableInv, Cell, BeingWritten
  <2>0. /\ at.ct <= x /\ x + n <= at.ph /\ at.ct \in Nat /\ at.ph \in Nat /\ base \in Nat
    BY <1>5
  <2>1. i \in Nat /\ at.ct <= i /\ i < at.ph
    BY SMTT(60), <2>0
  <2>2. Cell(i) \in 0 .. Size - 1
    BY SMTT(60), <2>0, <2>1, Constants, Division DEF Cell
  <2>3. CASE x <= i /\ i < x + n
    <3>1. PICK j \in 0 .. n - 1 : i = x + j
      <4>1. i - x \in 0 .. n - 1 /\ i = x + (i - x)
        BY SMTT(60), <2>1, <2>3
      <4> QED
        BY <4>1
    <3>2. Cell(i) = Slot(head[p], j)
      BY <1>6, <3>1
    <3>3. \A k \in 0 .. n - 1 : Cell(i) = Slot(head[p], k) => k = j
      <4> SUFFICES ASSUME NEW k \in 0 .. n - 1, k # j
                   PROVE  Cell(i) # Cell(x + k)
        BY <1>6
      <4>1. PICK y \in Nat : y = x + k
        BY SMTT(60)
      <4>2. at.ct <= y /\ y < at.ph /\ y # i
        BY SMTT(60), <2>0, <3>1, <4>1
      <4>3. Cell(i) # Cell(y)
        BY <2>1, <4>2, WindowCells
      <4> QED
        BY <4>1, <4>3
    <3>4. (CHOOSE k \in 0 .. n - 1 : Cell(i) = Slot(head[p], k)) = j
      BY <3>2, <3>3
    <3>5. ring'[Cell(i)] = objs[p][1 + j]
      BY <1>7, <2>2, <3>2, <3>4
    <3>6. 1 + j \in 1 .. n /\ x + (1 + j) = i + 1
      BY SMTT(60), <3>1
    <3>7. log[x + (1 + j)] = objs[p][1 + j]
      BY <1>5, <3>6
    <3> QED
      BY <3>5, <3>6, <3>7
  <2>4. CASE ~(x <= i /\ i < x + n)
    <3>1. \A k \in 0 .. n - 1 : Cell(i) # Slot(head[p], k)
      <4> SUFFICES ASSUME NEW k \in 0 .. n - 1
                   PROVE  Cell(i) # Cell(x + k)
        BY <1>6
      <4>1. PICK y \in Nat : y = x + k
        BY SMTT(60)
      <4>2. at.ct <= y /\ y < at.ph /\ y # i
        BY SMTT(60), <2>0, <2>1, <2>4, <4>1
      <4>3. Cell(i) # Cell(y)
        BY <2>1, <4>2, WindowCells
      <4> QED
        BY <4>1, <4>3
    <3>2. ring'[Cell(i)] = ring[Cell(i)]
      BY <1>7, <2>2, <3>1
    <3>3. ~BeingWritten(i)
      BY <1>0, <1>2, <1>3, <1>4, <2>4 DEF BeingWritten
    <3> QED
      BY <3>2, <3>3 DEF TableInv
  <2> QED
    BY <2>3, <2>4
<1>17. GotInOrder'
  <2> SUFFICES ASSUME NEW c \in Consumers, pc'[c] = "publish"
               PROVE  objs[c] = [k \in 1 .. num[c] |-> log[pos[c] + k]]
    BY ZenonT(60), <1>1 DEF GotInOrder
  <2> QED
    BY <1>0, <1>2 DEF GotInOrder
<1> QED
  BY <1>9, <1>10, <1>11, <1>12, <1>13, <1>14, <1>15, <1>16, <1>17

(* The producer that may publish is the first of those that have claimed   *)
(* and not published.                                                      *)
LEMMA EnqueuePublishAtTail ==
  ASSUME Inv, NEW p \in Producers, EnqueuePublish(p)
  PROVE  pos[p] = at.pt
<1>0. p \in Threads /\ pc[p] = "publish" /\ Working(p)
  BY DEF Threads, EnqueuePublish, Working
<1>1. /\ at.pt <= pos[p] /\ pos[p] + num[p] <= at.ph /\ at.ph <= at.ct + Size - 1
      /\ at.ct <= at.ch /\ at.ch <= at.pt /\ head[p] = Ix(pos[p])
  BY <1>0 DEF Inv, ProducerInv, ProducerOK, WindowInv, HeadInv
<1>2. /\ base \in Nat /\ pos[p] \in Nat /\ num[p] \in Nat
      /\ at.pt \in Nat /\ at.ph \in Nat /\ at.ct \in Nat /\ at.ch \in Nat
      /\ Size \in Int /\ Wrap \in Int /\ Size <= Wrap
  BY <1>0, Numbers, Constants DEF Inv
<1>3. CASE MultiProd
  <2>1. Ix(at.pt) = Ix(pos[p]) /\ at.pt <= pos[p] /\ pos[p] - at.pt < Wrap
    BY SMTT(60), <1>1, <1>2, <1>3 DEF EnqueuePublish, Inv, HeadInv
  <2> QED
    BY <1>2, <2>1, IxInjective
<1>4. CASE ~MultiProd
  BY <1>0, <1>4 DEF Inv, SingleInv
<1> QED
  BY <1>3, <1>4

(* A producer hands its entries to the consumers: it is the first of those *)
(* that have claimed and not published.                                    *)
LEMMA EnqueuePublishStep ==
  ASSUME Inv, NEW p \in Producers, EnqueuePublish(p)
  PROVE  Inv'
<1> USE DEF Inv
<1>0. /\ p \in Threads /\ p \notin Consumers /\ pc[p] = "publish" /\ Working(p)
      /\ Producers \subseteq Threads /\ Consumers \subseteq Threads
  BY RingAssumption DEF RingAssumption, Threads, EnqueuePublish, Working
<1>1. PICK n \in Nat : n = num[p]
  BY <1>0, Numbers
<1>2. /\ prodTail' = Advance(head[p], n) /\ at' = [at EXCEPT !.pt = pos[p] + n]
      /\ prodHead' = prodHead /\ consHead' = consHead /\ consTail' = consTail
      /\ ring' = ring /\ alive' = alive /\ made' = made /\ base' = base /\ log' = log
  BY <1>1 DEF EnqueuePublish
<1>3. /\ n >= 1 /\ at.pt <= pos[p] /\ pos[p] + n <= at.ph /\ at.ph <= at.ct + Size - 1
      /\ at.ct <= at.ch /\ at.ch <= at.pt /\ head[p] = Ix(pos[p])
      /\ base \in Nat /\ pos[p] \in Nat
      /\ at.pt \in Nat /\ at.ph \in Nat /\ at.ct \in Nat /\ at.ch \in Nat
      /\ Size \in Int /\ Wrap \in Int /\ Size <= Wrap
  <2>1. /\ n >= 1 /\ at.pt <= pos[p] /\ pos[p] + n <= at.ph
    BY <1>0, <1>1 DEF ProducerInv, ProducerOK
  <2>2. /\ at.ph <= at.ct + Size - 1 /\ at.ct <= at.ch /\ at.ch <= at.pt
    BY DEF WindowInv
  <2>3. head[p] = Ix(pos[p])
    BY <1>0 DEF HeadInv
  <2> QED
    BY <1>0, <2>1, <2>2, <2>3, Numbers, Constants
<1>4. pos[p] = at.pt
  BY EnqueuePublishAtTail
<1>5. /\ at'.ph = at.ph /\ at'.pt = at.pt + n /\ at'.ch = at.ch /\ at'.ct = at.ct
      /\ at' \in [ph : Nat, pt : Nat, ch : Nat, ct : Nat]
  <2>0. at \in [ph : Nat, pt : Nat, ch : Nat, ct : Nat]
    BY DEF TypeOK
  <2>1. at.pt + n \in Nat
    BY SMTT(60), <1>3
  <2>2. at' = [at EXCEPT !.pt = at.pt + n]
    BY <1>2, <1>4
  <2> QED
    BY <2>0, <2>1, <2>2, Moved
<1>6. prodTail' = Ix(at.pt + n) /\ prodTail' \in 0 .. Wrap - 1
  <2>1. PICK x \in Nat : x = at.pt + n
    BY SMTT(60), <1>3
  <2>2. Ix(x) \in 0 .. Wrap - 1
    BY <1>3, IxRange
  <2>3. PICK y \in Nat : y = at.pt
    BY <1>3
  <2>4. base \in Nat
    BY <1>3
  <2>5. Advance(Ix(y), n) = Ix(y + n)
    BY <2>4, IxAdvance
  <2> QED
    BY <1>2, <1>3, <1>4, <2>1, <2>2, <2>3, <2>5
<1>7. /\ pc' \in [Threads -> Labels] /\ head' \in [Threads -> 0 .. Wrap - 1]
      /\ max' \in [Threads -> Nat] /\ num' \in [Threads -> Nat]
      /\ objs' \in [Threads -> Seq(Nat)] /\ pos' \in [Threads -> Nat]
  <2>1. 0 \in 0 .. Wrap - 1 /\ 0 \in Nat /\ << >> \in Seq(Nat) /\ "idle" \in Labels
    BY SMTT(60), Constants DEF Labels
  <2> QED
    BY <2>1 DEF TypeOK, EnqueuePublish, Return, Goto
<1>8. Others(p) /\ pc'[p] = "idle" /\ ~Working(p)'
  <2>1. Others(p) /\ pc'[p] = "idle"
    BY <1>0 DEF TypeOK, EnqueuePublish, Return, Goto, Others
  <2> QED
    BY <2>1 DEF Working
<1>9. TypeOK'
  <2>1. {prodHead', prodTail', consHead', consTail', base'} \subseteq 0 .. Wrap - 1
    BY <1>2, <1>6 DEF TypeOK
  <2> QED
    BY <1>2, <1>5, <1>7, <2>1 DEF TypeOK
<1>10. HeadInv'
  <2>1. \A u \in Threads : pc'[u] \in {"check", "claim", "copy", "publish"} => head'[u] = Ix(pos'[u])
    BY <1>8 DEF Others, HeadInv
  <2> QED
    BY <1>2, <1>5, <1>6, <2>1 DEF HeadInv, Ix
<1>11. WindowInv'
  <2>1. at.pt + n <= at.ph
    BY <1>3, <1>4
  <2>2. at.ch <= at.pt + n
    BY SMTT(60), <1>3
  <2> QED
    BY <1>2, <1>3, <1>5, <2>1, <2>2 DEF WindowInv
<1>12. ProducerInv'
  <2> SUFFICES ASSUME NEW q \in Producers
               PROVE  ProducerOK(q)'
    BY DEF ProducerInv
  <2>1. CASE q = p
    BY <1>8, <2>1 DEF ProducerOK
  <2>2. CASE q # p
    <3>1. /\ pc'[q] = pc[q] /\ max'[q] = max[q] /\ num'[q] = num[q] /\ pos'[q] = pos[q]
          /\ objs'[q] = objs[q] /\ ProducerOK(q) /\ Working(q)' = Working(q)
      BY <1>0, <1>8, <2>2 DEF Others, ProducerInv, Working
    <3>2. Working(q) => at'.pt <= pos[q]
      <4> SUFFICES ASSUME Working(q)
                   PROVE  at'.pt <= pos[q]
        OBVIOUS
      <4>1. (pos[q] + num[q] <= pos[p] \/ pos[p] + n <= pos[q]) /\ at.pt <= pos[q] /\ 1 <= num[q]
        BY <1>0, <1>1, <2>2, <3>1 DEF ApartInv, Apart, ProducerOK
      <4>2. pos[q] \in Nat /\ num[q] \in Nat
        BY <1>0, Numbers
      <4> QED
        BY SMTT(60), <1>3, <1>4, <1>5, <4>1, <4>2
    <3>3. at'.ph = at.ph /\ at'.ct = at.ct /\ log' = log
      BY <1>2, <1>5
    <3> QED
      BY <3>1, <3>2, <3>3 DEF ProducerOK
  <2> QED
    BY <2>1, <2>2
<1>13. ConsumerInv'
  <2> SUFFICES ASSUME NEW c \in Consumers
               PROVE  ConsumerOK(c)'
    BY DEF ConsumerInv
  <2>1. /\ pc'[c] = pc[c] /\ max'[c] = max[c] /\ num'[c] = num[c] /\ pos'[c] = pos[c]
        /\ ConsumerOK(c) /\ Working(c)' = Working(c) /\ pos[c] \in Nat /\ num[c] \in Nat
    BY <1>0, <1>8, Numbers DEF Others, ConsumerInv, Working
  <2>2. at'.ch = at.ch /\ at'.ct = at.ct /\ at'.pt = at.pt + n /\ at.pt \in Nat
    BY <1>3, <1>5
  <2>3. pos[c] + num[c] <= at.pt => pos[c] + num[c] <= at'.pt
    BY SMTT(60), <2>1, <2>2
  <2> QED
    BY <2>1, <2>2, <2>3 DEF ConsumerOK
<1>14. ApartInv'
  BY <1>0, <1>8 DEF ApartInv, Apart, Others, Working
<1>15. SingleInv'
  <2>1. ~MultiProd => at.pt + n = at.ph
    BY <1>0, <1>1, <1>4 DEF SingleInv
  <2>2. ~MultiProd => \A q \in Producers :
          /\ pc[q] \in {"check", "claim"} => pos[q] = at.ph
          /\ Working(q) => pos[q] = pos[p]
    BY <1>4 DEF SingleInv
  <2>3. ~MultiProd => \A q \in Producers : ~Working(q)'
    <3> SUFFICES ASSUME ~MultiProd, NEW q \in Producers, q # p, Working(q)
                 PROVE  FALSE
      BY <1>0, <1>8 DEF Others, Working
    <3>1. pos[q] = pos[p] /\ pos[q] \in Nat /\ num[q] \in Nat
      BY <1>0, <2>2, Numbers
    <3>2. num[q] >= 1 /\ (pos[q] + num[q] <= pos[p] \/ pos[p] + n <= pos[q])
      BY <1>0, <1>1 DEF ApartInv, Apart, ProducerInv, ProducerOK
    <3> QED
      BY SMTT(60), <1>3, <3>1, <3>2
  <2>4. \A q \in Producers : pc'[q] \in {"check", "claim"} =>
          pc[q] \in {"check", "claim"} /\ pos'[q] = pos[q]
    BY <1>0, <1>8 DEF Others
  <2>5. \A c \in Consumers : pc'[c] = pc[c] /\ pos'[c] = pos[c] /\ num'[c] = num[c]
    BY <1>0, <1>8 DEF Others
  <2>6. (~MultiProd => \A q \in Producers :
           /\ pc[q] \in {"check", "claim"} => pos[q] = at.ph
           /\ IF Working(q) THEN pos[q] = at.pt /\ pos[q] + num[q] = at.ph
                            ELSE at.pt = at.ph)'
    BY <1>5, <2>1, <2>2, <2>3, <2>4
  <2> QED
    BY <1>5, <2>5, <2>6 DEF SingleInv, Working
<1>16. TableInv'
  <2>1. \A q \in Producers : pc[q] = "copy" =>
          pc'[q] = "copy" /\ pos'[q] = pos[q] /\ num'[q] = num[q]
    BY <1>0, <1>8 DEF Others
  <2> SUFFICES ASSUME NEW i \in at.ct .. at.ph - 1,
                      ~\E q \in Producers : pc'[q] = "copy" /\ pos'[q] <= i /\ i < pos'[q] + num'[q]
               PROVE  ring[Cell(i)] = log[i + 1]
    BY <1>2, <1>5 DEF TableInv, Cell, BeingWritten
  <2>2. ~BeingWritten(i)
    BY <2>1 DEF BeingWritten
  <2> QED
    BY <2>2 DEF TableInv
<1>17. GotInOrder'
  <2> SUFFICES ASSUME NEW c \in Consumers, pc'[c] = "publish"
               PROVE  objs'[c] = [k \in 1 .. num'[c] |-> log'[pos'[c] + k]]
    BY DEF GotInOrder
  <2>1. pc[c] = "publish" /\ objs'[c] = objs[c] /\ num'[c] = num[c] /\ pos'[c] = pos[c]
    BY <1>0, <1>8 DEF Others
  <2> QED
    BY <1>2, <2>1 DEF GotInOrder
<1> QED
  BY <1>9, <1>10, <1>11, <1>12, <1>13, <1>14, <1>15, <1>16, <1>17

(* The consumer whose compare-and-set succeeds has a current copy. *)
LEMMA DequeueClaimAtHead ==
  ASSUME Inv, NoLapping, NEW c \in Consumers, DequeueClaim(c), ~(MultiCons /\ consHead # head[c])
  PROVE  pos[c] = at.ch
<1>0. c \in Threads /\ pc[c] = "claim"
  BY DEF Threads, DequeueClaim
<1>1. CASE MultiCons
  <2>1. Ix(pos[c]) = Ix(at.ch) /\ pos[c] <= at.ch /\ at.ch - pos[c] < Wrap
    BY <1>0, <1>1 DEF Inv, HeadInv, ConsumerInv, ConsumerOK, NoLapping
  <2> QED
    BY <1>0, <2>1, Numbers, IxInjective DEF Inv
<1>2. CASE ~MultiCons
  BY <1>0, <1>2 DEF Inv, SingleInv
<1> QED
  BY <1>1, <1>2

(* A consumer moves cons.head: its copy was current. *)
LEMMA DequeueClaimStep ==
  ASSUME Inv, UsedAsCreated, NoLapping, NEW c \in Consumers, DequeueClaim(c)
  PROVE  Inv'
<1> USE DEF Inv
<1>0. /\ c \in Threads /\ c \notin Producers /\ pc[c] = "claim"
      /\ Producers \subseteq Threads /\ Consumers \subseteq Threads
  BY RingAssumption DEF RingAssumption, Threads, DequeueClaim
<1>1. CASE MultiCons /\ consHead # head[c]
  <2>1. /\ Goto(c, "again") /\ UNCHANGED <<indices, ring, alive, made, base, log, at>>
        /\ UNCHANGED <<head, max, num, objs, pos>>
    BY <1>1 DEF DequeueClaim, indices
  <2> QED
    BY <1>0, <2>1, GiveUpStep
<1>2. CASE ~(MultiCons /\ consHead # head[c])
  <2>0. PICK n \in Nat : n = num[c]
    BY <1>0, Numbers
  <2>1. /\ consHead' = Advance(head[c], n) /\ at' = [at EXCEPT !.ch = pos[c] + n]
        /\ pc' = [pc EXCEPT ![c] = "copy"]
        /\ prodHead' = prodHead /\ prodTail' = prodTail /\ consTail' = consTail
        /\ ring' = ring /\ head' = head /\ max' = max /\ num' = num /\ objs' = objs
        /\ alive' = alive /\ made' = made /\ base' = base /\ log' = log /\ pos' = pos
    BY <1>2, <2>0 DEF DequeueClaim, Goto
  <2>2. pos[c] = at.ch
    BY <1>2, DequeueClaimAtHead
  <2>3. /\ n >= 1 /\ at.ch + n <= at.pt /\ at.ct <= at.ch /\ at.pt <= at.ph
        /\ at.ph \in Nat /\ at.pt \in Nat /\ at.ch \in Nat /\ at.ct \in Nat /\ base \in Nat
    BY <1>0, <2>0, <2>2, Numbers DEF ConsumerInv, ConsumerOK, WindowInv
  <2>4. /\ at'.ph = at.ph /\ at'.pt = at.pt /\ at'.ch = at.ch + n /\ at'.ct = at.ct
        /\ at' \in [ph : Nat, pt : Nat, ch : Nat, ct : Nat]
    <3>0. at \in [ph : Nat, pt : Nat, ch : Nat, ct : Nat]
      BY DEF TypeOK
    <3>1. at.ch + n \in Nat
      BY SMTT(60), <2>3
    <3>2. at' = [at EXCEPT !.ch = at.ch + n]
      BY <2>1, <2>2
    <3> QED
      BY <3>0, <3>1, <3>2, Moved
  <2>5. consHead' = Ix(at.ch + n) /\ consHead' \in 0 .. Wrap - 1
    <3>1. head[c] = Ix(at.ch)
      BY <1>0, <2>2 DEF HeadInv
    <3>2. PICK x \in Nat : x = at.ch + n
      BY SMTT(60), <2>3
    <3>3. Ix(x) \in 0 .. Wrap - 1
      BY <2>3, IxRange
    <3>4. Advance(Ix(at.ch), n) = Ix(at.ch + n)
      BY <2>3, IxAdvance
    <3> QED
      BY <2>1, <3>1, <3>2, <3>3, <3>4
  <2>6. pc'[c] = "copy" /\ \A t \in Threads : t # c => pc'[t] = pc[t]
    BY <1>0, <2>1 DEF TypeOK
  <2>7. TypeOK'
    <3>1. pc' \in [Threads -> Labels]
      BY <1>0, <2>1 DEF TypeOK, Labels
    <3>2. {prodHead', prodTail', consHead', consTail', base'} \subseteq 0 .. Wrap - 1
      BY <2>1, <2>5 DEF TypeOK
    <3> QED
      BY <2>1, <2>4, <3>1, <3>2 DEF TypeOK
  <2>8. HeadInv'
    <3>1. \A t \in Threads : pc'[t] \in {"check", "claim", "copy", "publish"} => head[t] = Ix(pos[t])
      BY <1>0, <2>6 DEF HeadInv
    <3> QED
      BY <2>1, <2>4, <2>5, <3>1 DEF HeadInv, Ix
  <2>9. WindowInv'
    BY SMTT(60), <2>1, <2>3, <2>4 DEF WindowInv
  <2>10. ProducerInv'
    <3> SUFFICES ASSUME NEW q \in Producers
                 PROVE  ProducerOK(q)'
      BY DEF ProducerInv
    <3>1. pc'[q] = pc[q] /\ ProducerOK(q)
      BY <1>0, <2>6 DEF ProducerInv
    <3> QED
      BY <2>1, <2>4, <3>1 DEF ProducerOK, Working
  <2>11. ConsumerInv'
    <3> SUFFICES ASSUME NEW d \in Consumers
                 PROVE  ConsumerOK(d)'
      BY DEF ConsumerInv
    <3>1. ConsumerOK(d) /\ pos[d] \in Nat /\ num[d] \in Nat
      BY <1>0, Numbers DEF ConsumerInv
    <3>2. CASE d = c
      BY SMTT(60), <1>0, <2>0, <2>1, <2>2, <2>3, <2>4, <2>6, <3>1, <3>2 DEF ConsumerOK, Working
    <3>3. CASE d # c
      <4>1. pc'[d] = pc[d]
        BY <1>0, <2>6, <3>3
      <4>2. /\ pc[d] \in {"check", "claim"} => pos[d] <= at'.ch /\ pos[d] # at'.ch
            /\ Working(d) => at'.ct <= pos[d] /\ pos[d] + num[d] <= at'.ch
        <5>1. at'.ch = at.ch + n /\ at'.ct = at.ct
          BY <2>4
        <5>2. /\ pc[d] \in {"check", "claim"} => pos[d] <= at.ch
              /\ Working(d) => at.ct <= pos[d] /\ pos[d] + num[d] <= at.ch
          BY <3>1 DEF ConsumerOK
        <5> QED
          BY SMTT(60), <2>3, <3>1, <5>1, <5>2
      <4> QED
        BY <2>1, <3>1, <4>1, <4>2 DEF ConsumerOK, Working
    <3> QED
      BY <3>2, <3>3
  <2>12. ApartInv'
    <3>1. \A t \in Threads : t # c => Working(t)' = Working(t)
      BY <2>6 DEF Working
    <3>2. \A d \in Consumers : Working(d) => pos[d] + num[d] <= pos[c]
      BY <2>2 DEF ConsumerInv, ConsumerOK
    <3> QED
      BY <1>0, <2>1, <3>1, <3>2 DEF ApartInv, Apart
  <2>13. SingleInv'
    <3>1. ~MultiCons => \A d \in Consumers : d = c
      BY DEF UsedAsCreated
    <3>2. ~MultiCons => at.ct = at.ch
      BY <1>0 DEF SingleInv, Working
    <3>3. \A q \in Producers : pc'[q] = pc[q]
      BY <1>0, <2>6
    <3> QED
      BY <2>0, <2>1, <2>2, <2>4, <2>6, <3>1, <3>2, <3>3 DEF SingleInv, Working
  <2>14. TableInv'
    <3>1. \A q \in Producers : pc'[q] = pc[q]
      BY <1>0, <2>6
    <3> QED
      BY SMTT(60), <2>1, <2>4, <3>1 DEF TableInv, Cell, BeingWritten
  <2>15. GotInOrder'
    <3> SUFFICES ASSUME NEW d \in Consumers, pc'[d] = "publish"
                 PROVE  objs[d] = [k \in 1 .. num[d] |-> log[pos[d] + k]]
      BY SMTT(60), <2>1 DEF GotInOrder
    <3>1. pc[d] = "publish"
      BY <1>0, <2>6
    <3> QED
      BY <3>1 DEF GotInOrder
  <2> QED
    BY <2>7, <2>8, <2>9, <2>10, <2>11, <2>12, <2>13, <2>14, <2>15
<1> QED
  BY <1>1, <1>2

(* A consumer copies the objects of the positions it claimed. *)
LEMMA DequeueCopyStep ==
  ASSUME Inv, NEW c \in Consumers, DequeueCopy(c)
  PROVE  Inv'
<1> USE DEF Inv
<1>0. /\ c \in Threads /\ c \notin Producers /\ pc[c] = "copy" /\ Working(c)
      /\ Producers \subseteq Threads /\ Consumers \subseteq Threads
  BY RingAssumption DEF RingAssumption, Threads, DequeueCopy, Working
<1>1. /\ pc' = [pc EXCEPT ![c] = "publish"]
      /\ objs' = [objs EXCEPT ![c] = InTable(head[c], num[c])]
      /\ prodHead' = prodHead /\ prodTail' = prodTail /\ consHead' = consHead
      /\ consTail' = consTail /\ ring' = ring /\ base' = base /\ log' = log /\ at' = at
      /\ head' = head /\ max' = max /\ num' = num /\ pos' = pos /\ alive' = alive /\ made' = made
  BY DEF DequeueCopy, Goto, indices
<1>2. /\ pc'[c] = "publish" /\ \A t \in Threads : t # c => pc'[t] = pc[t] /\ objs'[t] = objs[t]
      /\ objs'[c] = InTable(head[c], num[c])
  BY <1>0, <1>1 DEF TypeOK
<1>3. \A t \in Threads : Working(t)' = Working(t)
  BY SMTT(60), <1>0, <1>2 DEF Working
<1>4. PICK n \in Nat : n = num[c]
  BY <1>0, Numbers
<1>5. PICK x \in Nat : x = pos[c]
  BY <1>0, Numbers
<1>6. /\ head[c] = Ix(x) /\ base \in Nat /\ at.ct <= x /\ x + n <= at.pt /\ at.pt <= at.ph
      /\ at.ct \in Nat /\ at.pt \in Nat /\ at.ph \in Nat /\ Len(log) = at.ph /\ log \in Seq(Nat)
  <2>1. at.ct <= x /\ x + n <= at.ch
    BY <1>0, <1>4, <1>5 DEF ConsumerInv, ConsumerOK
  <2>2. at.ch <= at.pt /\ at.pt <= at.ph /\ Len(log) = at.ph
    BY DEF WindowInv
  <2>3. head[c] = Ix(x) /\ log \in Seq(Nat)
    BY <1>0, <1>5 DEF HeadInv, TypeOK
  <2>4. /\ base \in Nat /\ at.ct \in Nat /\ at.pt \in Nat /\ at.ph \in Nat /\ at.ch \in Nat
    BY Numbers
  <2> QED
    BY SMTT(60), <2>1, <2>2, <2>3, <2>4
<1>7. \A k \in 1 .. n : ring[Slot(head[c], k - 1)] = log[x + k]
  <2> SUFFICES ASSUME NEW k \in 1 .. n
               PROVE  ring[Slot(Ix(x), k - 1)] = log[x + k]
    BY <1>6
  <2>1. PICK j \in Nat : j = k - 1
    BY SMTT(60)
  <2>2. PICK i \in Nat : i = x + j
    BY SMTT(60)
  <2>3. Slot(Ix(x), j) = Cell(i)
    BY <1>6, <2>2, SlotCell
  <2>4. i \in at.ct .. at.ph - 1 /\ i < at.pt /\ i + 1 = x + k
    BY SMTT(60), <1>6, <2>1, <2>2
  <2>5. ~BeingWritten(i)
    <3> SUFFICES ASSUME NEW q \in Producers, pc[q] = "copy"
                 PROVE  ~(pos[q] <= i)
      BY DEF BeingWritten
    <3>1. at.pt <= pos[q] /\ pos[q] \in Nat
      BY <1>0, Numbers DEF ProducerInv, ProducerOK, Working
    <3> QED
      BY SMTT(60), <1>6, <2>4, <3>1
  <2> QED
    BY <2>1, <2>3, <2>4, <2>5 DEF TableInv
<1>8. objs'[c] = [k \in 1 .. n |-> log[x + k]]
  BY <1>2, <1>4, <1>7 DEF InTable
<1>9. objs'[c] \in Seq(Nat)
  <2>1. \A k \in 1 .. n : log[x + k] \in Nat
    <3> SUFFICES ASSUME NEW k \in 1 .. n
                 PROVE  log[x + k] \in Nat
      OBVIOUS
    <3>1. PICK y \in 1 .. Len(log) : y = x + k
      BY SMTT(60), <1>6
    <3>2. log[y] \in Nat
      BY SMTT(60), <1>6
    <3> QED
      BY <3>1, <3>2
  <2> QED
    BY SMTT(60), <1>8, <2>1
<1>10. TypeOK'
  <2>1. pc' \in [Threads -> Labels]
    BY <1>0, <1>1 DEF TypeOK, Labels
  <2>2. objs' \in [Threads -> Seq(Nat)]
    BY <1>0, <1>1, <1>2, <1>9 DEF TypeOK
  <2> QED
    BY <1>1, <2>1, <2>2 DEF TypeOK
<1>11. HeadInv'
  BY <1>0, <1>1, <1>2 DEF HeadInv, Ix
<1>12. WindowInv'
  BY <1>1 DEF WindowInv
<1>13. ProducerInv'
  <2> SUFFICES ASSUME NEW q \in Producers
               PROVE  ProducerOK(q)'
    BY DEF ProducerInv
  <2>1. ProducerOK(q) /\ Working(q)' = Working(q) /\ pc'[q] = pc[q] /\ objs'[q] = objs[q]
    BY <1>0, <1>2, <1>3 DEF ProducerInv
  <2> QED
    BY <1>1, <2>1 DEF ProducerOK
<1>14. ConsumerInv'
  <2> SUFFICES ASSUME NEW d \in Consumers
               PROVE  ConsumerOK(d)'
    BY DEF ConsumerInv
  <2>1. ConsumerOK(d) /\ Working(d)' = Working(d) /\ (d # c => pc'[d] = pc[d])
    BY <1>0, <1>2, <1>3 DEF ConsumerInv
  <2> QED
    BY <1>0, <1>1, <1>2, <2>1 DEF ConsumerOK
<1>15. ApartInv'
  BY <1>0, <1>1, <1>3 DEF ApartInv, Apart
<1>16. SingleInv'
  BY <1>0, <1>1, <1>2, <1>3 DEF SingleInv
<1>17. TableInv'
  <2>1. \A q \in Producers : pc'[q] = pc[q]
    BY <1>0, <1>2
  <2> QED
    BY <1>1, <2>1 DEF TableInv, Cell, BeingWritten
<1>18. GotInOrder'
  <2> SUFFICES ASSUME NEW d \in Consumers, pc'[d] = "publish"
               PROVE  objs'[d] = [k \in 1 .. num[d] |-> log[pos[d] + k]]
    BY SMTT(60), <1>1 DEF GotInOrder
  <2>1. CASE d = c
    BY <1>4, <1>5, <1>8, <2>1
  <2>2. CASE d # c
    BY <1>0, <1>2, <2>2 DEF GotInOrder
  <2> QED
    BY <2>1, <2>2
<1> QED
  BY <1>10, <1>11, <1>12, <1>13, <1>14, <1>15, <1>16, <1>17, <1>18

(* A consumer gives its entries back to the producers: it is the first of  *)
(* those that have claimed and not published.                              *)
LEMMA DequeuePublishStep ==
  ASSUME Inv, NEW c \in Consumers, DequeuePublish(c)
  PROVE  Inv'
<1> USE DEF Inv
<1>0. /\ c \in Threads /\ c \notin Producers /\ pc[c] = "publish" /\ Working(c)
      /\ Producers \subseteq Threads /\ Consumers \subseteq Threads
  BY RingAssumption DEF RingAssumption, Threads, DequeuePublish, Working
<1>1. PICK n \in Nat : n = num[c]
  BY <1>0, Numbers
<1>2. /\ consTail' = Advance(head[c], n) /\ at' = [at EXCEPT !.ct = pos[c] + n]
      /\ prodHead' = prodHead /\ prodTail' = prodTail /\ consHead' = consHead
      /\ ring' = ring /\ alive' = alive /\ made' = made /\ base' = base /\ log' = log
  BY <1>1 DEF DequeuePublish
<1>3. /\ n >= 1 /\ at.ct <= pos[c] /\ pos[c] + n <= at.ch /\ at.ph <= at.ct + Size - 1
      /\ at.ch <= at.pt /\ at.pt <= at.ph /\ head[c] = Ix(pos[c])
      /\ base \in Nat /\ pos[c] \in Nat
      /\ at.pt \in Nat /\ at.ph \in Nat /\ at.ct \in Nat /\ at.ch \in Nat
      /\ Size \in Int /\ Wrap \in Int /\ Size <= Wrap
  <2>1. /\ n >= 1 /\ at.ct <= pos[c] /\ pos[c] + n <= at.ch
    BY <1>0, <1>1 DEF ConsumerInv, ConsumerOK
  <2>2. /\ at.ph <= at.ct + Size - 1 /\ at.ch <= at.pt /\ at.pt <= at.ph
    BY DEF WindowInv
  <2>3. head[c] = Ix(pos[c])
    BY <1>0 DEF HeadInv
  <2> QED
    BY <1>0, <2>1, <2>2, <2>3, Numbers, Constants
<1>4. pos[c] = at.ct
  <2>1. CASE MultiCons
    <3>1. Ix(at.ct) = Ix(pos[c]) /\ at.ct <= pos[c] /\ pos[c] - at.ct < Wrap
      BY SMTT(60), <1>3, <2>1 DEF DequeuePublish, HeadInv
    <3> QED
      BY <1>3, <3>1, IxInjective
  <2>2. CASE ~MultiCons
    BY <1>0, <2>2 DEF SingleInv
  <2> QED
    BY <2>1, <2>2
<1>5. /\ at'.ph = at.ph /\ at'.pt = at.pt /\ at'.ch = at.ch /\ at'.ct = at.ct + n
      /\ at' \in [ph : Nat, pt : Nat, ch : Nat, ct : Nat]
  <2>0. at \in [ph : Nat, pt : Nat, ch : Nat, ct : Nat]
    BY DEF TypeOK
  <2>1. at.ct + n \in Nat
    BY SMTT(60), <1>3
  <2>2. at' = [at EXCEPT !.ct = at.ct + n]
    BY <1>2, <1>4
  <2> QED
    BY <2>0, <2>1, <2>2, Moved
<1>6. consTail' = Ix(at.ct + n) /\ consTail' \in 0 .. Wrap - 1
  <2>1. PICK x \in Nat : x = at.ct + n
    BY SMTT(60), <1>3
  <2>2. Ix(x) \in 0 .. Wrap - 1
    BY <1>3, IxRange
  <2>3. PICK y \in Nat : y = at.ct
    BY <1>3
  <2>4. base \in Nat
    BY <1>3
  <2>5. Advance(Ix(y), n) = Ix(y + n)
    BY ZenonT(60), <2>4, IxAdvance
  <2> QED
    BY <1>2, <1>3, <1>4, <2>1, <2>2, <2>3, <2>5
<1>7. /\ pc' \in [Threads -> Labels] /\ head' \in [Threads -> 0 .. Wrap - 1]
      /\ max' \in [Threads -> Nat] /\ num' \in [Threads -> Nat]
      /\ objs' \in [Threads -> Seq(Nat)] /\ pos' \in [Threads -> Nat]
  <2>1. 0 \in 0 .. Wrap - 1 /\ 0 \in Nat /\ << >> \in Seq(Nat) /\ "idle" \in Labels
    BY SMTT(60), Constants DEF Labels
  <2> QED
    BY <2>1 DEF TypeOK, DequeuePublish, Return, Goto
<1>8. Others(c) /\ pc'[c] = "idle" /\ ~Working(c)'
  <2>1. Others(c) /\ pc'[c] = "idle"
    BY <1>0 DEF TypeOK, DequeuePublish, Return, Goto, Others
  <2> QED
    BY <2>1 DEF Working
<1>9. TypeOK'
  <2>1. {prodHead', prodTail', consHead', consTail', base'} \subseteq 0 .. Wrap - 1
    BY <1>2, <1>6 DEF TypeOK
  <2> QED
    BY <1>2, <1>5, <1>7, <2>1 DEF TypeOK
<1>10. HeadInv'
  <2>1. \A u \in Threads : pc'[u] \in {"check", "claim", "copy", "publish"} => head'[u] = Ix(pos'[u])
    BY <1>8 DEF Others, HeadInv
  <2> QED
    BY <1>2, <1>5, <1>6, <2>1 DEF HeadInv, Ix
<1>11. WindowInv'
  <2>1. at.ct + n <= at.ch /\ at.ph <= (at.ct + n) + Size - 1
    BY SMTT(60), <1>3, <1>4
  <2> QED
    BY <1>2, <1>3, <1>5, <2>1 DEF WindowInv
<1>12. ConsumerInv'
  <2> SUFFICES ASSUME NEW d \in Consumers
               PROVE  ConsumerOK(d)'
    BY DEF ConsumerInv
  <2>1. CASE d = c
    BY <1>8, <2>1 DEF ConsumerOK
  <2>2. CASE d # c
    <3>1. /\ pc'[d] = pc[d] /\ max'[d] = max[d] /\ num'[d] = num[d] /\ pos'[d] = pos[d]
          /\ ConsumerOK(d) /\ Working(d)' = Working(d)
      BY <1>0, <1>8, <2>2 DEF Others, ConsumerInv, Working
    <3>2. Working(d) => at'.ct <= pos[d]
      <4> SUFFICES ASSUME Working(d)
                   PROVE  at'.ct <= pos[d]
        OBVIOUS
      <4>1. (pos[d] + num[d] <= pos[c] \/ pos[c] + n <= pos[d]) /\ at.ct <= pos[d] /\ 1 <= num[d]
        BY <1>0, <1>1, <2>2, <3>1 DEF ApartInv, Apart, ConsumerOK
      <4>2. pos[d] \in Nat /\ num[d] \in Nat
        BY <1>0, Numbers
      <4> QED
        BY SMTT(60), <1>3, <1>4, <1>5, <4>1, <4>2
    <3>3. at'.ch = at.ch /\ at'.pt = at.pt
      BY <1>5
    <3> QED
      BY <3>1, <3>2, <3>3 DEF ConsumerOK
  <2> QED
    BY <2>1, <2>2
<1>13. ProducerInv'
  <2> SUFFICES ASSUME NEW q \in Producers
               PROVE  ProducerOK(q)'
    BY DEF ProducerInv
  <2>1. /\ pc'[q] = pc[q] /\ max'[q] = max[q] /\ num'[q] = num[q] /\ pos'[q] = pos[q]
        /\ objs'[q] = objs[q]
        /\ ProducerOK(q) /\ Working(q)' = Working(q) /\ pos[q] \in Nat /\ num[q] \in Nat
    BY <1>0, <1>8, Numbers DEF Others, ProducerInv, Working
  <2>2. at'.ph = at.ph /\ at'.pt = at.pt /\ log' = log /\ at'.ct = at.ct + n
    BY <1>2, <1>5
  <2>3. pos[q] + num[q] <= at.ct + Size - 1 => pos[q] + num[q] <= at'.ct + Size - 1
    BY SMTT(60), <1>3, <2>1, <2>2
  <2> QED
    BY <2>1, <2>2, <2>3 DEF ProducerOK
<1>14. ApartInv'
  BY <1>0, <1>8 DEF ApartInv, Apart, Others, Working
<1>15. SingleInv'
  <2>1. ~MultiCons => at.ct + n = at.ch
    BY <1>0, <1>1, <1>4 DEF SingleInv
  <2>2. ~MultiCons => \A d \in Consumers :
          /\ pc[d] \in {"check", "claim"} => pos[d] = at.ch
          /\ Working(d) => pos[d] = pos[c]
    BY <1>4 DEF SingleInv
  <2>3. ~MultiCons => \A d \in Consumers : ~Working(d)'
    <3> SUFFICES ASSUME ~MultiCons, NEW d \in Consumers, d # c, Working(d)
                 PROVE  FALSE
      BY <1>0, <1>8 DEF Others, Working
    <3>1. pos[d] = pos[c] /\ pos[d] \in Nat /\ num[d] \in Nat
      BY <1>0, <2>2, Numbers
    <3>2. num[d] >= 1 /\ (pos[d] + num[d] <= pos[c] \/ pos[c] + n <= pos[d])
      BY <1>0, <1>1 DEF ApartInv, Apart, ConsumerInv, ConsumerOK
    <3> QED
      BY SMTT(60), <1>3, <3>1, <3>2
  <2>4. \A d \in Consumers : pc'[d] \in {"check", "claim"} =>
          pc[d] \in {"check", "claim"} /\ pos'[d] = pos[d]
    BY <1>0, <1>8 DEF Others
  <2>5. \A q \in Producers : pc'[q] = pc[q] /\ pos'[q] = pos[q] /\ num'[q] = num[q]
    BY <1>0, <1>8 DEF Others
  <2>6. (~MultiCons => \A d \in Consumers :
           /\ pc[d] \in {"check", "claim"} => pos[d] = at.ch
           /\ IF Working(d) THEN pos[d] = at.ct /\ pos[d] + num[d] = at.ch
                            ELSE at.ct = at.ch)'
    BY <1>5, <2>1, <2>2, <2>3, <2>4
  <2> QED
    BY <1>5, <2>5, <2>6 DEF SingleInv, Working
<1>16. TableInv'
  <2>1. \A q \in Producers : pc[q] = "copy" =>
          pc'[q] = "copy" /\ pos'[q] = pos[q] /\ num'[q] = num[q]
    BY <1>0, <1>8 DEF Others
  <2> SUFFICES ASSUME NEW i \in at'.ct .. at'.ph - 1,
                      ~\E q \in Producers : pc'[q] = "copy" /\ pos'[q] <= i /\ i < pos'[q] + num'[q]
               PROVE  ring[Cell(i)] = log[i + 1]
    BY <1>2 DEF TableInv, Cell, BeingWritten
  <2>2. ~BeingWritten(i)
    BY <2>1 DEF BeingWritten
  <2>3. i \in at.ct .. at.ph - 1
    BY SMTT(60), <1>3, <1>5
  <2> QED
    BY <2>2, <2>3 DEF TableInv
<1>17. GotInOrder'
  <2> SUFFICES ASSUME NEW d \in Consumers, pc'[d] = "publish"
               PROVE  objs'[d] = [k \in 1 .. num'[d] |-> log'[pos'[d] + k]]
    BY DEF GotInOrder
  <2>1. pc[d] = "publish" /\ objs'[d] = objs[d] /\ num'[d] = num[d] /\ pos'[d] = pos[d]
    BY <1>0, <1>8 DEF Others
  <2> QED
    BY <1>2, <2>1 DEF GotInOrder
<1> QED
  BY <1>9, <1>10, <1>11, <1>12, <1>13, <1>14, <1>15, <1>16, <1>17

(* Every step keeps the invariant. *)
LEMMA InvNext ==
  ASSUME Inv, UsedAsCreated, NoLapping, [Next]_vars
  PROVE  Inv'
<1>1. CASE UNCHANGED vars
  <2>1. /\ prodHead' = prodHead /\ prodTail' = prodTail /\ consHead' = consHead
        /\ consTail' = consTail /\ ring' = ring /\ pc' = pc /\ head' = head /\ max' = max
        /\ num' = num /\ objs' = objs /\ alive' = alive /\ made' = made /\ base' = base
        /\ log' = log /\ at' = at /\ pos' = pos
    BY <1>1 DEF vars, indices
  <2>2. TypeOK'
    BY <2>1 DEF Inv, TypeOK
  <2>3. HeadInv' /\ WindowInv' /\ ProducerInv' /\ ConsumerInv'
    BY <2>1 DEF Inv, HeadInv, WindowInv, ProducerInv, ProducerOK, ConsumerInv, ConsumerOK,
                Working, Ix
  <2>4. ApartInv' /\ SingleInv' /\ TableInv' /\ GotInOrder'
    BY ZenonT(60), <2>1 DEF Inv, ApartInv, Apart, SingleInv, TableInv, BeingWritten, GotInOrder, Working, Cell
  <2> QED
    BY <2>2, <2>3, <2>4 DEF Inv
<1>2. ASSUME NEW t \in Threads, Kill(t)
      PROVE  Inv'
  <2>1. /\ prodHead' = prodHead /\ prodTail' = prodTail /\ consHead' = consHead
        /\ consTail' = consTail /\ ring' = ring /\ pc' = pc /\ head' = head /\ max' = max
        /\ num' = num /\ objs' = objs /\ alive' \subseteq alive /\ made' = made /\ base' = base
        /\ log' = log /\ at' = at /\ pos' = pos
    BY <1>2 DEF Kill, indices
  <2>2. TypeOK'
    BY <2>1 DEF Inv, TypeOK
  <2>3. HeadInv' /\ WindowInv' /\ ProducerInv' /\ ConsumerInv'
    BY <2>1 DEF Inv, HeadInv, WindowInv, ProducerInv, ProducerOK, ConsumerInv, ConsumerOK,
                Working, Ix
  <2>4. ApartInv' /\ SingleInv' /\ TableInv' /\ GotInOrder'
    BY ZenonT(60), <2>1 DEF Inv, ApartInv, Apart, SingleInv, TableInv, BeingWritten, GotInOrder, Working, Cell
  <2> QED
    BY <2>2, <2>3, <2>4 DEF Inv
<1>3. ASSUME NEW p \in Producers, Enqueue(p)
      PROVE  Inv'
  BY <1>3, ReadProdHeadStep, EnqueueCheckStep, EnqueueClaimStep, EnqueueCopyStep,
     EnqueuePublishStep DEF Enqueue
<1>4. ASSUME NEW c \in Consumers, Dequeue(c)
      PROVE  Inv'
  BY <1>4, ReadConsHeadStep, DequeueCheckStep, DequeueClaimStep, DequeueCopyStep,
     DequeuePublishStep DEF Dequeue
<1> QED
  BY <1>1, <1>2, <1>3, <1>4 DEF Next, Step

(* The positions two operations work on are different ones of the window,  *)
(* hence so are their entries.                                             *)
LEMMA InvDisjoint ==
  ASSUME Inv
  PROVE  ClaimsDisjoint
<1> SUFFICES ASSUME NEW t \in Threads, NEW u \in Threads, t # u, Working(t), Working(u),
                    NEW j \in 0 .. num[t] - 1, NEW k \in 0 .. num[u] - 1,
                    Slot(head[t], j) = Slot(head[u], k)
             PROVE  FALSE
  BY DEF ClaimsDisjoint, Claimed
<1>1. /\ pos[t] \in Nat /\ num[t] \in Nat /\ pos[u] \in Nat /\ num[u] \in Nat /\ base \in Nat
      /\ at.ct \in Nat /\ at.ch \in Nat /\ at.pt \in Nat /\ at.ph \in Nat
      /\ at.ct <= at.ch /\ at.ch <= at.pt /\ at.pt <= at.ph
  BY Numbers DEF Inv, WindowInv
<1>2. head[t] = Ix(pos[t]) /\ head[u] = Ix(pos[u])
  BY DEF Inv, HeadInv, Working
<1>3. PICK x \in Nat : x = pos[t] + j
  BY SMTT(60), <1>1
<1>4. PICK y \in Nat : y = pos[u] + k
  BY SMTT(60), <1>1
<1>5. Cell(x) = Cell(y)
  <2>1. j \in Nat /\ k \in Nat
    BY SMTT(60), <1>1
  <2>2. Slot(Ix(pos[t]), j) = Cell(pos[t] + j)
    BY <1>1, <2>1, SlotCell
  <2>3. Slot(Ix(pos[u]), k) = Cell(pos[u] + k)
    BY <1>1, <2>1, SlotCell
  <2> QED
    BY <1>2, <1>3, <1>4, <2>2, <2>3
<1>6. /\ t \in Producers => at.pt <= pos[t] /\ pos[t] + num[t] <= at.ph
      /\ t \in Consumers => at.ct <= pos[t] /\ pos[t] + num[t] <= at.ch
      /\ u \in Producers => at.pt <= pos[u] /\ pos[u] + num[u] <= at.ph
      /\ u \in Consumers => at.ct <= pos[u] /\ pos[u] + num[u] <= at.ch
      /\ (t \in Producers \/ t \in Consumers) /\ (u \in Producers \/ u \in Consumers)
  BY DEF Inv, ProducerInv, ProducerOK, ConsumerInv, ConsumerOK, Threads
<1>7. at.ct <= x /\ x < at.ph /\ at.ct <= y /\ y < at.ph
  BY SMTT(60), <1>1, <1>3, <1>4, <1>6
<1>8. x # y
  <2>1. CASE t \in Producers /\ u \in Producers
    <3>1. pos[t] + num[t] <= pos[u] \/ pos[u] + num[u] <= pos[t]
      BY <2>1 DEF Inv, ApartInv, Apart
    <3> QED
      BY SMTT(60), <1>1, <1>3, <1>4, <3>1
  <2>2. CASE t \in Consumers /\ u \in Consumers
    <3>1. pos[t] + num[t] <= pos[u] \/ pos[u] + num[u] <= pos[t]
      BY <2>2 DEF Inv, ApartInv, Apart
    <3> QED
      BY SMTT(60), <1>1, <1>3, <1>4, <3>1
  <2>3. CASE t \in Producers /\ u \in Consumers
    BY SMTT(60), <1>1, <1>3, <1>4, <1>6, <2>3
  <2>4. CASE t \in Consumers /\ u \in Producers
    BY SMTT(60), <1>1, <1>3, <1>4, <1>6, <2>4
  <2> QED
    BY <1>6, <2>1, <2>2, <2>3, <2>4
<1> QED
  BY <1>5, <1>7, <1>8, WindowCells

(* The invariant holds on a ring used by as many threads as it was created *)
(* for, no thread being overtaken by Wrap objects within one attempt.      *)
LEMMA InvHolds ==
  ASSUME UsedAsCreated
  PROVE  Spec /\ []NoLapping => []Inv
<1>1. Init => Inv
  BY InvInit
<1>2. Inv /\ NoLapping /\ [Next]_vars => Inv'
  BY InvNext
<1> QED
  BY <1>1, <1>2, PTL DEF Spec

(* On such a ring every index, position and copied object keeps its type.  *)
THEOREM RingTyped ==
  ASSUME UsedAsCreated
  PROVE  Spec /\ []NoLapping => []TypeOK
<1>1. Inv => TypeOK
  BY DEF Inv
<1> QED
  BY <1>1, InvHolds, PTL

(* On such a ring the entries of the operations in progress (rte_ring.h's  *)
(* claimed, not yet published ranges) never overlap.                       *)
THEOREM ClaimsAreDisjoint ==
  ASSUME UsedAsCreated
  PROVE  Spec /\ []NoLapping => []ClaimsDisjoint
  BY InvDisjoint, InvHolds, PTL

(* On such a ring a dequeue returns the objects enqueued at its positions, *)
(* so that no object is lost, given out twice or out of order, wherever    *)
(* the 32-bit indices wrap.                                                *)
THEOREM ObjectsInOrder ==
  ASSUME UsedAsCreated
  PROVE  Spec /\ []NoLapping => []GotInOrder
<1>1. Inv => GotInOrder
  BY DEF Inv
<1> QED
  BY <1>1, InvHolds, PTL

----------------------------------------------------------------------------
(* The ring implements the bounded queue of RingFifo, for any number of    *)
(* threads and any size of the ring.  The queue is the part of the window  *)
(* between cons.head and prod.tail.  By the invariant the table holds the  *)
(* objects of that part in the order in which they were claimed, so that   *)
(* only two steps change the queue: the publishing of an enqueue and the   *)
(* claim of a dequeue.                                                     *)

Queue == InTable(consHead, (prodTail - consHead) % Wrap)
In == [p \in Producers |-> objs[p]]
Out == [c \in Consumers |-> IF pc[c] = "copy" THEN InTable(head[c], num[c]) ELSE objs[c]]

Slice(x, n) == [k \in 1 .. n |-> log[x + k]]

(* Between two calls a thread holds no objects, and a consumer has none    *)
(* before it has copied them.                                              *)
EmptyInv ==
  /\ \A p \in Producers : pc[p] = "idle" => objs[p] = << >>
  /\ \A c \in Consumers : pc[c] # "publish" => objs[c] = << >>

LEMMA EmptyInit ==
  ASSUME Init
  PROVE  EmptyInv
  BY DEF Init, EmptyInv, Threads

LEMMA EmptyNext ==
  ASSUME TypeOK, EmptyInv, [Next]_vars
  PROVE  EmptyInv'
<1>0. /\ Producers \subseteq Threads /\ Consumers \subseteq Threads
      /\ Producers \cap Consumers = {}
  BY RingAssumption DEF RingAssumption, Threads
<1>1. CASE UNCHANGED vars
  BY <1>1 DEF vars, EmptyInv
<1>2. ASSUME NEW t \in Threads, Kill(t)
      PROVE  EmptyInv'
  BY <1>2 DEF Kill, EmptyInv
<1>3. ASSUME NEW p \in Producers, Enqueue(p)
      PROVE  EmptyInv'
  <2>1. \A u \in Threads : u # p => pc'[u] = pc[u] /\ objs'[u] = objs[u]
    BY <1>0, <1>3 DEF TypeOK, Enqueue, EnqueueCall, EnqueueAgain, EnqueueCheck, EnqueueClaim,
       EnqueueCopy, EnqueuePublish, ReadProdHead, Return, Goto
  <2>2. pc'[p] = "idle" => objs'[p] = << >>
    BY <1>0, <1>3 DEF TypeOK, Enqueue, EnqueueCall, EnqueueAgain, EnqueueCheck, EnqueueClaim,
       EnqueueCopy, EnqueuePublish, ReadProdHead, Return, Goto
  <2> QED
    BY <1>0, <2>1, <2>2 DEF EmptyInv
<1>4. ASSUME NEW c \in Consumers, Dequeue(c)
      PROVE  EmptyInv'
  <2>1. \A u \in Threads : u # c => pc'[u] = pc[u] /\ objs'[u] = objs[u]
    BY <1>0, <1>4 DEF TypeOK, Dequeue, DequeueCall, DequeueAgain, DequeueCheck, DequeueClaim,
       DequeueCopy, DequeuePublish, ReadConsHead, Return, Goto
  <2>2. pc'[c] # "publish" => objs'[c] = << >>
    BY <1>0, <1>4 DEF TypeOK, EmptyInv, Dequeue, DequeueCall, DequeueAgain, DequeueCheck,
       DequeueClaim, DequeueCopy, DequeuePublish, ReadConsHead, Return, Goto
  <2> QED
    BY <1>0, <2>1, <2>2 DEF EmptyInv
<1> QED
  BY <1>1, <1>2, <1>3, <1>4 DEF Next, Step

(* The table holds the objects of published positions. *)
LEMMA Stored ==
  ASSUME Inv, NEW x \in Nat, NEW n \in Nat, at.ct <= x, x + n <= at.pt
  PROVE  InTable(Ix(x), n) = Slice(x, n)
<1>0. /\ base \in Nat /\ at.ct \in Nat /\ at.pt \in Nat /\ at.ph \in Nat /\ at.pt <= at.ph
  BY Numbers DEF Inv, WindowInv
<1> SUFFICES ASSUME NEW k \in 1 .. n
             PROVE  ring[Slot(Ix(x), k - 1)] = log[x + k]
  BY DEF InTable, Slice
<1>1. PICK j \in Nat : j = k - 1
  BY SMTT(60)
<1>2. PICK i \in Nat : i = x + j
  BY SMTT(60)
<1>3. Slot(Ix(x), j) = Cell(i)
  BY <1>0, <1>2, SlotCell
<1>4. i \in at.ct .. at.ph - 1 /\ i < at.pt /\ i + 1 = x + k
  BY SMTT(60), <1>0, <1>1, <1>2
<1>5. ~BeingWritten(i)
  <2> SUFFICES ASSUME NEW q \in Producers, pc[q] = "copy"
               PROVE  ~(pos[q] <= i)
    BY DEF BeingWritten
  <2>1. at.pt <= pos[q] /\ pos[q] \in Nat
    BY Numbers DEF Inv, ProducerInv, ProducerOK, Working, Threads
  <2> QED
    BY SMTT(60), <1>0, <1>4, <2>1
<1> QED
  BY <1>1, <1>3, <1>4, <1>5 DEF Inv, TableInv

LEMMA QueueIs ==
  ASSUME Inv
  PROVE  /\ Queue = Slice(at.ch, at.pt - at.ch)
         /\ at.pt - at.ch \in Nat /\ at.ch \in Nat /\ at.pt \in Nat /\ at.pt <= Len(log)
         /\ at.pt - at.ch <= Size - 1
<1>0. /\ base \in Nat /\ at.ct \in Nat /\ at.pt \in Nat /\ at.ph \in Nat /\ at.ch \in Nat
      /\ at.pt <= at.ph /\ at.ct <= at.ch /\ at.ch <= at.pt /\ at.ph <= at.ct + Size - 1
      /\ Len(log) = at.ph /\ Size \in Int /\ Size <= Wrap /\ Wrap \in Int /\ Wrap > 0
  BY Numbers, Constants DEF Inv, WindowInv
<1>1. PICK n \in Nat : n = at.pt - at.ch
  BY SMTT(60), <1>0
<1>2. consHead = Ix(at.ch) /\ prodTail = Ix(at.pt)
  BY DEF Inv, HeadInv
<1>3. (prodTail - consHead) % Wrap = n
  <2>1. PICK a \in Int : a = base + at.pt
    BY SMTT(60), <1>0
  <2>2. PICK b \in Int : b = base + at.ch
    BY SMTT(60), <1>0
  <2>3. 0 + a - b \in 0 .. Wrap - 1 /\ 0 + a - b = n
    <3>1. n <= Size - 1 /\ n < Wrap
      BY SMTT(60), <1>0, <1>1
    <3>2. 0 + a - b = n
      BY SMTT(60), <1>0, <1>1, <2>1, <2>2
    <3> QED
      BY SMTT(60), <1>0, <3>1, <3>2
  <2>4. (0 + (a % Wrap) - (b % Wrap)) % Wrap = (0 + a - b) % Wrap
    <3>1. \A u, v, z \in Int : (z + (u % Wrap) - (v % Wrap)) % Wrap = (z + u - v) % Wrap
      BY <1>0, WrappedDifference
    <3> QED
      BY SMTT(60), <3>1
  <2>5. (0 + a - b) % Wrap = n
    BY <1>0, <2>3, InRange
  <2>6. a % Wrap = prodTail /\ b % Wrap = consHead
    BY <1>2, <2>1, <2>2 DEF Ix
  <2>7. prodTail \in Int /\ consHead \in Int
    BY Numbers DEF Inv
  <2> QED
    BY SMTT(60), <2>4, <2>5, <2>6, <2>7
<1>4. InTable(Ix(at.ch), n) = Slice(at.ch, n)
  BY SMTT(60), <1>0, <1>1, Stored
<1> QED
  BY SMTT(60), <1>0, <1>1, <1>2, <1>3, <1>4 DEF Queue

(* What a consumer has claimed, copied or not. *)
LEMMA OutIs ==
  ASSUME Inv, NEW c \in Consumers, Working(c)
  PROVE  Out[c] = Slice(pos[c], num[c])
<1>1. CASE pc[c] = "copy"
  <2>1. /\ pos[c] \in Nat /\ num[c] \in Nat /\ at.ch \in Nat /\ at.pt \in Nat
        /\ at.ct <= pos[c] /\ pos[c] + num[c] <= at.ch /\ at.ch <= at.pt /\ head[c] = Ix(pos[c])
    BY <1>1, Numbers DEF Inv, ConsumerInv, ConsumerOK, WindowInv, HeadInv, Threads
  <2>2. InTable(Ix(pos[c]), num[c]) = Slice(pos[c], num[c])
    BY SMTT(60), <2>1, Stored
  <2> QED
    BY <1>1, <2>1, <2>2 DEF Out
<1>2. CASE pc[c] = "publish"
  BY <1>2 DEF Inv, GotInOrder, Out, Slice
<1> QED
  BY <1>1, <1>2 DEF Working

(* The same facts of the next state. *)
LEMMA QueueIsNext ==
  (Inv => /\ Queue = Slice(at.ch, at.pt - at.ch)
          /\ at.pt <= Len(log) /\ at.pt - at.ch <= Size - 1)'
<1>1. Inv => /\ Queue = Slice(at.ch, at.pt - at.ch)
             /\ at.pt <= Len(log) /\ at.pt - at.ch <= Size - 1
  BY QueueIs
<1> QED
  BY <1>1, PTL

LEMMA OutIsNext ==
  (Inv => \A c \in Consumers : Working(c) => Out[c] = Slice(pos[c], num[c]))'
<1>1. Inv => \A c \in Consumers : Working(c) => Out[c] = Slice(pos[c], num[c])
  BY OutIs
<1> QED
  BY <1>1, PTL

(* Sequences of the same length with the same entries are the same. *)
LEMMA SameSequence ==
  ASSUME NEW s \in Seq(Nat), NEW t \in Seq(Nat), Len(s) = Len(t),
         \A i \in 1 .. Len(s) : s[i] = t[i]
  PROVE  s = t
  BY SMTT(60)

(* What is left without the first n entries. *)
LEMMA Suffix ==
  ASSUME NEW s \in Seq(Nat), NEW n \in Nat, NEW m \in Nat, m = Len(s), n <= m
  PROVE  /\ SubSeq(s, n + 1, m) \in Seq(Nat) /\ Len(SubSeq(s, n + 1, m)) = m - n
         /\ \A k \in 1 .. m - n : SubSeq(s, n + 1, m)[k] = s[n + k]
  BY SMTT(60)

(* Slices of a sequence. *)
LEMMA SliceSeq ==
  ASSUME log \in Seq(Nat), NEW x \in Nat, NEW n \in Nat, x + n <= Len(log)
  PROVE  Slice(x, n) \in Seq(Nat) /\ Len(Slice(x, n)) = n
<1>1. \A k \in 1 .. n : log[x + k] \in Nat
  <2> SUFFICES ASSUME NEW k \in 1 .. n
               PROVE  log[x + k] \in Nat
    OBVIOUS
  <2>1. PICK y \in 1 .. Len(log) : y = x + k
    BY SMTT(60)
  <2>2. log[y] \in Nat
    BY SMTT(60)
  <2> QED
    BY <2>1, <2>2
<1> QED
  BY SMTT(60), <1>1 DEF Slice

LEMMA SliceSplit ==
  ASSUME log \in Seq(Nat), NEW x \in Nat, NEW n \in Nat, NEW m \in Nat, x + m <= Len(log), n <= m
  PROVE  /\ Slice(x, n) = SubSeq(Slice(x, m), 1, n)
         /\ Slice(x + n, m - n) = SubSeq(Slice(x, m), n + 1, m)
<1>1. Slice(x, m) \in Seq(Nat) /\ Len(Slice(x, m)) = m /\ \A k \in 1 .. m : Slice(x, m)[k] = log[x + k]
  BY SliceSeq DEF Slice
<1>2. PICK q \in Seq(Nat) : q = Slice(x, m)
  BY <1>1
<1>3. Len(q) = m /\ \A k \in 1 .. m : q[k] = log[x + k]
  BY <1>1, <1>2
<1>4. \A k \in 1 .. m : q[k] \in Nat
  BY SMTT(60), <1>2, <1>3
<1>5. Slice(x, n) = SubSeq(q, 1, n)
  <2>1. Slice(x, n) \in Seq(Nat) /\ Len(Slice(x, n)) = n /\ \A k \in 1 .. n : Slice(x, n)[k] = log[x + k]
    BY SMTT(60), SliceSeq DEF Slice
  <2>2. /\ SubSeq(q, 1, n) \in Seq(Nat) /\ Len(SubSeq(q, 1, n)) = n
        /\ \A k \in 1 .. n : SubSeq(q, 1, n)[k] = q[k]
    BY <1>2, <1>3, Prefix
  <2>3. \A k \in 1 .. n : SubSeq(q, 1, n)[k] = log[x + k]
    BY SMTT(60), <1>3, <2>2
  <2> QED
    BY <2>1, <2>2, <2>3, SameSequence
<1>6. Slice(x + n, m - n) = SubSeq(q, n + 1, m)
  <2>0. PICK y \in Nat : y = x + n
    BY SMTT(60)
  <2>00. PICK d \in Nat : d = m - n
    BY SMTT(60)
  <2>1. Slice(y, d) \in Seq(Nat) /\ Len(Slice(y, d)) = d /\ \A k \in 1 .. d : Slice(y, d)[k] = log[y + k]
    <3>1. y + d <= Len(log)
      BY SMTT(60), <2>0, <2>00
    <3> QED
      BY <3>1, SliceSeq DEF Slice
  <2>2. /\ SubSeq(q, n + 1, m) \in Seq(Nat) /\ Len(SubSeq(q, n + 1, m)) = d
        /\ \A k \in 1 .. d : SubSeq(q, n + 1, m)[k] = q[n + k]
    BY ZenonT(60), <1>2, <1>3, <2>00, Suffix
  <2>3. \A k \in 1 .. d : SubSeq(q, n + 1, m)[k] = log[y + k]
    <3> SUFFICES ASSUME NEW k \in 1 .. d
                 PROVE  SubSeq(q, n + 1, m)[k] = log[y + k]
      BY ZenonT(60)
    <3>1. PICK j \in 1 .. m : j = n + k
      BY SMTT(60), <2>00
    <3>2. q[j] = log[x + j] /\ x + j = y + k
      BY SMTT(60), <1>3, <2>0, <3>1
    <3> QED
      BY <2>2, <3>1, <3>2
  <2>4. Slice(y, d) = SubSeq(q, n + 1, m)
    BY <2>1, <2>2, <2>3, SameSequence
  <2> QED
    BY <2>0, <2>00, <2>4
<1> QED
  BY <1>2, <1>5, <1>6

LEMMA SliceExtend ==
  ASSUME log \in Seq(Nat), NEW x \in Nat, NEW m \in Nat, NEW n \in Nat, x + (m + n) <= Len(log),
         NEW s \in Seq(Nat), n <= Len(s), \A k \in 1 .. n : log[(x + m) + k] = s[k]
  PROVE  Slice(x, m + n) = Slice(x, m) \o SubSeq(s, 1, n)
<1>1. Slice(x, m) \in Seq(Nat) /\ Len(Slice(x, m)) = m /\ \A k \in 1 .. m : Slice(x, m)[k] = log[x + k]
  <2>1. x + m <= Len(log)
    BY SMTT(60)
  <2> QED
    BY <2>1, SliceSeq DEF Slice
<1>2. PICK d \in Nat : d = m + n
  BY SMTT(60)
<1>3. Slice(x, d) \in Seq(Nat) /\ Len(Slice(x, d)) = d /\ \A k \in 1 .. d : Slice(x, d)[k] = log[x + k]
  BY <1>2, SliceSeq DEF Slice
<1>4. /\ SubSeq(s, 1, n) \in Seq(Nat) /\ Len(SubSeq(s, 1, n)) = n
      /\ \A k \in 1 .. n : SubSeq(s, 1, n)[k] = s[k]
  BY Prefix
<1>5. PICK u \in Seq(Nat) : u = Slice(x, m)
  BY <1>1
<1>6. PICK v \in Seq(Nat) : v = SubSeq(s, 1, n)
  BY <1>4
<1>7. /\ u \o v \in Seq(Nat) /\ Len(u \o v) = Len(u) + Len(v)
      /\ \A k \in 1 .. Len(u) : (u \o v)[k] = u[k]
      /\ \A k \in 1 .. Len(v) : (u \o v)[Len(u) + k] = v[k]
  BY Concat
<1>8. Len(u) = m /\ Len(v) = n /\ Len(u \o v) = d
  BY <1>1, <1>2, <1>4, <1>5, <1>6, <1>7
<1>9. \A k \in 1 .. d : (u \o v)[k] = log[x + k]
  <2> SUFFICES ASSUME NEW k \in 1 .. d
               PROVE  (u \o v)[k] = log[x + k]
    BY ZenonT(60)
  <2>1. CASE k <= m
    BY SMTT(60), <1>1, <1>5, <1>7, <1>8, <2>1
  <2>2. CASE k > m
    <3>1. PICK j \in 1 .. n : k = m + j
      <4>1. k - m \in 1 .. n /\ k = m + (k - m)
        BY SMTT(60), <1>2, <2>2
      <4> QED
        BY <4>1
    <3>2. (u \o v)[m + j] = v[j] /\ v[j] = s[j]
      BY <1>4, <1>6, <1>7, <1>8
    <3>3. log[(x + m) + j] = s[j] /\ (x + m) + j = x + k
      BY SMTT(60), <3>1
    <3> QED
      BY <3>1, <3>2, <3>3
  <2>3. k <= m \/ k > m
    BY SMTT(60)
  <2> QED
    BY <2>1, <2>2, <2>3, Zenon
<1>10. Slice(x, d) = u \o v
  <2>1. PICK z \in Seq(Nat) : z = u \o v
    BY <1>7
  <2>2. Len(z) = d /\ \A k \in 1 .. d : z[k] = log[x + k]
    BY <1>8, <1>9, <2>1
  <2>3. Slice(x, d) = z
    <3>1. PICK y \in Seq(Nat) : y = Slice(x, d)
      BY <1>3
    <3>2. Len(y) = Len(z) /\ \A k \in 1 .. Len(y) : y[k] = z[k]
      BY <1>3, <2>2, <3>1
    <3>3. y = z
      BY <3>2, SameSequence
    <3> QED
      BY <3>1, <3>3
  <2> QED
    BY <2>1, <2>3
<1> QED
  BY <1>2, <1>5, <1>6, <1>10

(* The initial states are initial states of the queue. *)
LEMMA RefineInit ==
  ASSUME Init
  PROVE  Fifo!Init
<1>1. Inv /\ at.pt = 0 /\ at.ch = 0
  BY InvInit DEF Init
<1>2. Queue = << >>
  <2>1. Queue = Slice(0, 0 - 0)
    BY <1>1, QueueIs
  <2> QED
    BY SMTT(60), <2>1 DEF Slice
<1>3. In = [p \in Producers |-> << >>] /\ Out = [c \in Consumers |-> << >>]
  BY DEF Init, In, Out, Threads
<1> QED
  BY <1>2, <1>3 DEF Fifo!Init, Queue, In, Out

(* A step that changes none of the objects held is a stutter. *)
LEMMA Stutter ==
  ASSUME Queue' = Queue, In' = In, Out' = Out
  PROVE  [Fifo!Next]_(Fifo!vars)
  BY DEF Fifo!vars, Queue, In, Out

LEMMA RefineEnqueue ==
  ASSUME Inv, Inv', EmptyInv, NEW p \in Producers, Enqueue(p)
  PROVE  [Fifo!Next]_(Fifo!vars)
<1>0. /\ p \in Threads /\ p \notin Consumers
      /\ Producers \subseteq Threads /\ Consumers \subseteq Threads
      /\ pc \in [Threads -> Labels] /\ objs \in [Threads -> Seq(Nat)]
      /\ num \in [Threads -> Nat] /\ head \in [Threads -> 0 .. Wrap - 1]
  BY RingAssumption DEF RingAssumption, Threads, Inv, TypeOK
<1>1. \A c \in Consumers : pc'[c] = pc[c] /\ objs'[c] = objs[c] /\ head'[c] = head[c] /\ num'[c] = num[c]
  BY <1>0 DEF Enqueue, EnqueueCall, EnqueueAgain, EnqueueCheck, EnqueueClaim,
     EnqueueCopy, EnqueuePublish, ReadProdHead, Return, Goto
<1>2. ring' = ring => Out' = Out
  BY <1>1 DEF Out, InTable
<1>3. ring' = ring /\ consHead' = consHead /\ prodTail' = prodTail => Queue' = Queue
  BY DEF Queue, InTable
<1>4. CASE EnqueueCall(p)
  <2>1. In[p] = << >> /\ Queue' = Queue /\ Out' = Out
    BY <1>0, <1>2, <1>3, <1>4 DEF EnqueueCall, indices, EmptyInv, In
  <2>2. PICK k \in 1 .. MaxBulk :
          /\ made + k <= MaxObjs /\ objs' = [objs EXCEPT ![p] = [i \in 1 .. k |-> made + i]]
    BY <1>4 DEF EnqueueCall
  <2>3. In'[p] = [i \in 1 .. k |-> made + i]
    BY <1>0, <2>2 DEF In
  <2>4. In' = [In EXCEPT ![p] = In'[p]]
    BY <1>0, <2>2 DEF In
  <2>5. In'[p] # << >> /\ \A i \in DOMAIN In'[p] : In'[p][i] \in 1 .. MaxObjs
    <3>1. made \in Nat /\ k \in Nat /\ k >= 1 /\ MaxObjs \in Nat
      BY SMTT(60), RingAssumption DEF RingAssumption, Inv, TypeOK
    <3>2. DOMAIN In'[p] = 1 .. k
      BY <2>3
    <3>3. 1 \in DOMAIN In'[p]
      BY SMTT(60), <3>1, <3>2
    <3>4. \A i \in 1 .. k : made + i \in 1 .. MaxObjs
      BY SMTT(60), <2>2, <3>1
    <3> QED
      BY SMTT(60), <2>3, <3>2, <3>3, <3>4
  <2>6. Fifo!Offer(p)
    BY <2>1, <2>4, <2>5 DEF Fifo!Offer, Queue, In, Out
  <2> QED
    BY <2>6 DEF Fifo!Next
<1>5. CASE EnqueueAgain(p) \/ EnqueueClaim(p)
  <2>1. objs' = objs /\ ring' = ring /\ consHead' = consHead /\ prodTail' = prodTail
    BY <1>5 DEF EnqueueAgain, EnqueueClaim, indices
  <2>2. In' = In
    BY <2>1 DEF In
  <2> QED
    BY <1>2, <1>3, <2>1, <2>2, Stutter
<1>6. CASE EnqueueCheck(p)
  <2>1. ring' = ring /\ consHead' = consHead /\ prodTail' = prodTail
    BY <1>6 DEF EnqueueCheck, indices
  <2>2. CASE objs' = objs
    <3>1. In' = In
      BY <2>2 DEF In
    <3> QED
      BY <1>2, <1>3, <2>1, <3>1, Stutter
  <2>3. CASE Return(p)
    <3>1. In' = [In EXCEPT ![p] = << >>]
      BY <1>0, <2>3 DEF Return, In
    <3>2. Fifo!Refuse(p)
      BY <1>2, <1>3, <2>1, <3>1 DEF Fifo!Refuse, Queue, In, Out
    <3> QED
      BY <3>2 DEF Fifo!Next
  <2> QED
    BY <1>6, <2>2, <2>3 DEF EnqueueCheck
<1>7. CASE EnqueueCopy(p)
  <2>1. /\ objs' = objs /\ log' = log /\ at' = at /\ pos' = pos /\ num' = num
    BY <1>7 DEF EnqueueCopy
  <2>2. In' = In
    BY <2>1 DEF In
  <2>3. Queue' = Queue
    <3>1. Queue' = (Slice(at.ch, at.pt - at.ch))'
      BY QueueIsNext
    <3>2. (Slice(at.ch, at.pt - at.ch))' = Slice(at.ch, at.pt - at.ch)
      BY <2>1 DEF Slice
    <3> QED
      BY <3>1, <3>2, QueueIs
  <2>4. Out' = Out
    <3>1. \A c \in Consumers : Out'[c] = Out[c]
      <4> SUFFICES ASSUME NEW c \in Consumers
                   PROVE  Out'[c] = Out[c]
        OBVIOUS
      <4>1. CASE Working(c)
        <5>1. Working(c)'
          BY <1>1, <4>1 DEF Working
        <5>2. Out'[c] = (Slice(pos[c], num[c]))'
          BY <5>1, OutIsNext
        <5>3. (Slice(pos[c], num[c]))' = Slice(pos[c], num[c])
          BY <2>1 DEF Slice
        <5> QED
          BY <4>1, <5>2, <5>3, OutIs
      <4>2. CASE ~Working(c)
        BY <1>1, <4>2 DEF Working, Out
      <4> QED
        BY <4>1, <4>2
    <3> QED
      BY <3>1 DEF Out
  <2> QED
    BY <2>2, <2>3, <2>4, Stutter
<1>8. CASE EnqueuePublish(p)
  <2>1. ring' = ring /\ log' = log /\ consHead' = consHead /\ Return(p)
        /\ at' = [at EXCEPT !.pt = pos[p] + num[p]] /\ pc[p] = "publish"
    BY <1>8 DEF EnqueuePublish
  <2>2. In' = [In EXCEPT ![p] = << >>]
    BY <1>0, <2>1 DEF Return, In
  <2>3. PICK n \in Nat : n = num[p]
    BY <1>0
  <2>4. PICK m \in Nat : m = at.pt - at.ch
    BY QueueIs
  <2>5. pos[p] = at.pt
    BY EnqueuePublishAtTail, <1>8
  <2>6. at'.ch = at.ch /\ at'.pt = at.pt + n
    <3>1. at \in [ph : Nat, pt : Nat, ch : Nat, ct : Nat] /\ at.pt \in Nat
      BY Numbers DEF Inv, TypeOK
    <3>2. at.pt + n \in Nat /\ at' = [at EXCEPT !.pt = at.pt + n]
      BY SMTT(60), <2>1, <2>3, <2>5, <3>1
    <3> QED
      BY <3>1, <3>2, Moved
  <2>7. Queue = Slice(at.ch, m) /\ at.ch \in Nat /\ at.pt = at.ch + m
    BY SMTT(60), <2>4, QueueIs
  <2>8. /\ Queue' = (Slice(at.ch, at.pt - at.ch))' /\ at'.pt <= Len(log')
        /\ at'.pt - at'.ch <= Size - 1
    BY QueueIsNext
  <2>9. at'.pt - at'.ch = m + n
    BY SMTT(60), <2>4, <2>6, <2>7
  <2>10. Queue' = Slice(at.ch, m + n) /\ m + n <= Size - 1 /\ at.ch + (m + n) <= Len(log)
    BY SMTT(60), <2>1, <2>6, <2>7, <2>8, <2>9 DEF Slice
  <2>11. /\ n >= 1 /\ n <= Len(objs[p]) /\ objs[p] \in Seq(Nat) /\ log \in Seq(Nat)
         /\ \A k \in 1 .. n : log[(at.ch + m) + k] = objs[p][k]
    <3>1. ProducerOK(p) /\ Working(p) /\ pc[p] # "idle"
      BY <2>1 DEF Inv, ProducerInv, Working
    <3>2. /\ 1 <= n /\ n <= max[p] /\ Len(objs[p]) = max[p]
          /\ \A k \in 1 .. n : log[at.pt + k] = objs[p][k]
      BY <2>3, <2>5, <3>1 DEF ProducerOK
    <3>3. objs[p] \in Seq(Nat) /\ log \in Seq(Nat)
      BY <1>0 DEF Inv, TypeOK
    <3> QED
      BY <2>7, <3>2, <3>3
  <2>12. Slice(at.ch, m + n) = Slice(at.ch, m) \o SubSeq(objs[p], 1, n)
    BY ZenonT(60), <2>7, <2>10, <2>11, SliceExtend
  <2>13. Queue' = Queue \o SubSeq(In[p], 1, n) /\ n \in 1 .. Len(In[p])
    <3>1. In[p] = objs[p]
      BY DEF In
    <3>2. n \in 1 .. Len(objs[p])
      BY SMTT(60), <2>11
    <3> QED
      BY <2>7, <2>10, <2>12, <3>1, <3>2
  <2>14. Len(Queue') <= Size - 1
    <3>1. PICK d \in Nat : d = m + n
      BY SMTT(60)
    <3>2. Len(Slice(at.ch, d)) = d
      BY <2>7, <2>10, <2>11, <3>1, SliceSeq
    <3> QED
      BY <2>10, <3>1, <3>2
  <2>15. Fifo!Enqueue(p)
    BY <1>2, <2>1, <2>2, <2>13, <2>14 DEF Fifo!Enqueue, Queue, In, Out
  <2> QED
    BY <2>15 DEF Fifo!Next
<1> QED
  BY <1>4, <1>5, <1>6, <1>7, <1>8 DEF Enqueue

LEMMA RefineDequeue ==
  ASSUME Inv, Inv', EmptyInv, NoLapping, NEW c \in Consumers, Dequeue(c)
  PROVE  [Fifo!Next]_(Fifo!vars)
<1>0. /\ c \in Threads /\ c \notin Producers
      /\ Producers \subseteq Threads /\ Consumers \subseteq Threads
      /\ pc \in [Threads -> Labels] /\ objs \in [Threads -> Seq(Nat)]
      /\ num \in [Threads -> Nat] /\ head \in [Threads -> 0 .. Wrap - 1]
  BY RingAssumption DEF RingAssumption, Threads, Inv, TypeOK
<1>1. /\ \A p \in Producers : objs'[p] = objs[p]
      /\ \A d \in Consumers : d # c =>
           pc'[d] = pc[d] /\ objs'[d] = objs[d] /\ head'[d] = head[d] /\ num'[d] = num[d]
      /\ ring' = ring
  BY <1>0 DEF Dequeue, DequeueCall, DequeueAgain, DequeueCheck, DequeueClaim,
     DequeueCopy, DequeuePublish, ReadConsHead, Return, Goto
<1>2. In' = In
  BY <1>1 DEF In
<1>3. \A d \in Consumers : d # c => Out'[d] = Out[d]
  BY <1>1 DEF Out, InTable
<1>4. consHead' = consHead /\ prodTail' = prodTail => Queue' = Queue
  BY <1>1 DEF Queue, InTable
<1>5. Out'[c] = Out[c] => Out' = Out
  BY <1>3 DEF Out
<1>6. CASE DequeueCall(c) \/ DequeueAgain(c) \/ DequeueCheck(c)
  <2>1. /\ pc[c] \in {"idle", "again", "check"} /\ pc'[c] \in {"idle", "check", "claim"}
        /\ objs'[c] \in {objs[c], << >>} /\ consHead' = consHead /\ prodTail' = prodTail
    BY <1>0, <1>6 DEF DequeueCall, DequeueAgain, DequeueCheck, ReadConsHead, Return, Goto, indices
  <2>2. Out'[c] = Out[c]
    BY <2>1 DEF Out, EmptyInv
  <2> QED
    BY <1>2, <1>4, <1>5, <2>1, <2>2, Stutter
<1>7. CASE DequeueClaim(c) /\ MultiCons /\ consHead # head[c]
  <2>1. /\ pc[c] = "claim" /\ pc'[c] = "again" /\ objs' = objs
        /\ consHead' = consHead /\ prodTail' = prodTail
    BY <1>0, <1>7 DEF DequeueClaim, Goto
  <2>2. Out'[c] = Out[c]
    BY <2>1 DEF Out
  <2> QED
    BY <1>2, <1>4, <1>5, <2>1, <2>2, Stutter
<1>8. CASE DequeueClaim(c) /\ ~(MultiCons /\ consHead # head[c])
  <2>1. /\ pc[c] = "claim" /\ pc'[c] = "copy" /\ log' = log /\ num' = num /\ pos' = pos
        /\ at' = [at EXCEPT !.ch = pos[c] + num[c]]
    BY <1>0, <1>8 DEF DequeueClaim, Goto
  <2>2. PICK n \in Nat : n = num[c]
    BY <1>0
  <2>3. PICK m \in Nat : m = at.pt - at.ch
    BY QueueIs
  <2>4. pos[c] = at.ch
    BY <1>8, DequeueClaimAtHead
  <2>5. /\ Queue = Slice(at.ch, m) /\ at.ch \in Nat /\ at.pt \in Nat /\ at.pt = at.ch + m
        /\ at.pt <= Len(log) /\ log \in Seq(Nat)
    <3>1. log \in Seq(Nat)
      BY DEF Inv, TypeOK
    <3> QED
      BY SMTT(60), <2>3, <3>1, QueueIs
  <2>6. n >= 1 /\ n <= m
    <3>1. 1 <= n /\ at.ch + n <= at.pt
      BY <2>1, <2>2, <2>4 DEF Inv, ConsumerInv, ConsumerOK
    <3> QED
      BY SMTT(60), <2>5, <3>1
  <2>7. at'.ch = at.ch + n /\ at'.pt = at.pt
    <3>1. at \in [ph : Nat, pt : Nat, ch : Nat, ct : Nat]
      BY DEF Inv, TypeOK
    <3>2. at.ch + n \in Nat /\ at' = [at EXCEPT !.ch = at.ch + n]
      BY SMTT(60), <2>1, <2>2, <2>4, <2>5
    <3> QED
      BY <3>1, <3>2, Moved
  <2>8. Queue' = Slice(at.ch + n, m - n)
    <3>1. Queue' = (Slice(at.ch, at.pt - at.ch))'
      BY QueueIsNext
    <3>2. at'.pt - at'.ch = m - n
      BY SMTT(60), <2>5, <2>7
    <3> QED
      BY SMTT(60), <2>1, <2>7, <3>1, <3>2 DEF Slice
  <2>9. Out'[c] = Slice(at.ch, n)
    <3>1. Working(c)'
      BY <2>1 DEF Working
    <3>2. Out'[c] = (Slice(pos[c], num[c]))'
      BY <3>1, OutIsNext
    <3> QED
      BY <2>1, <2>2, <2>4, <3>2 DEF Slice
  <2>10. Out[c] = << >>
    BY <2>1 DEF Out, EmptyInv
  <2>11. Len(Queue) = m
    BY <2>5, SliceSeq
  <2>12. Slice(at.ch, n) = SubSeq(Queue, 1, n) /\ Slice(at.ch + n, m - n) = SubSeq(Queue, n + 1, m)
    <3>1. at.ch + m <= Len(log) /\ n <= m
      BY <2>5, <2>6
    <3> QED
      BY ZenonT(60), <2>5, <3>1, SliceSplit
  <2>13. Out' = [Out EXCEPT ![c] = SubSeq(Queue, 1, n)]
    <3>1. Out'[c] = SubSeq(Queue, 1, n)
      BY <2>9, <2>12
    <3> QED
      BY <1>3, <3>1 DEF Out
  <2>14. Queue' = SubSeq(Queue, n + 1, Len(Queue)) /\ n \in 1 .. Len(Queue)
    BY SMTT(60), <2>6, <2>8, <2>11, <2>12
  <2>15. Fifo!Dequeue(c)
    BY <1>2, <2>10, <2>13, <2>14 DEF Fifo!Dequeue, Queue, In, Out
  <2> QED
    BY <2>15 DEF Fifo!Next
<1>9. CASE DequeueCopy(c)
  <2>1. /\ pc[c] = "copy" /\ pc'[c] = "publish" /\ objs'[c] = InTable(head[c], num[c])
        /\ consHead' = consHead /\ prodTail' = prodTail
    BY <1>0, <1>9 DEF DequeueCopy, Goto, indices
  <2>2. Out'[c] = Out[c]
    BY <2>1 DEF Out
  <2> QED
    BY <1>2, <1>4, <1>5, <2>1, <2>2, Stutter
<1>10. CASE DequeuePublish(c)
  <2>1. pc'[c] = "idle" /\ objs'[c] = << >> /\ consHead' = consHead /\ prodTail' = prodTail
    BY <1>0, <1>10 DEF DequeuePublish, Return, Goto
  <2>2. Out' = [Out EXCEPT ![c] = << >>]
    BY <1>3, <2>1 DEF Out
  <2>3. Fifo!Take(c)
    BY <1>2, <1>4, <2>1, <2>2 DEF Fifo!Take, Queue, In, Out
  <2> QED
    BY <2>3 DEF Fifo!Next
<1> QED
  BY <1>6, <1>7, <1>8, <1>9, <1>10 DEF Dequeue

(* Used by as many threads as it was created for, and no thread being      *)
(* overtaken by Wrap objects within one attempt, a ring is a bounded FIFO  *)
(* queue of Size - 1 objects: every step of rte_ring.h's enqueue and       *)
(* dequeue, and a thread's death anywhere in one, is an operation of the   *)
(* queue or leaves it as it is.                                            *)
THEOREM RingImplementsFifo ==
  ASSUME UsedAsCreated
  PROVE  Spec /\ []NoLapping => FifoSpec
<1>1. Init => Inv /\ EmptyInv /\ Fifo!Init
  BY InvInit, EmptyInit, RefineInit
<1>2. Inv /\ EmptyInv /\ NoLapping /\ [Next]_vars => Inv' /\ EmptyInv'
  BY InvNext, EmptyNext DEF Inv
<1>3. Inv /\ Inv' /\ EmptyInv /\ NoLapping /\ [Next]_vars => [Fifo!Next]_(Fifo!vars)
  <2> SUFFICES ASSUME Inv, Inv', EmptyInv, NoLapping, [Next]_vars
               PROVE  [Fifo!Next]_(Fifo!vars)
    OBVIOUS
  <2>1. ASSUME NEW p \in Producers, Enqueue(p)
        PROVE  [Fifo!Next]_(Fifo!vars)
    BY <2>1, RefineEnqueue
  <2>2. ASSUME NEW c \in Consumers, Dequeue(c)
        PROVE  [Fifo!Next]_(Fifo!vars)
    BY <2>2, RefineDequeue
  <2>3. ASSUME NEW t \in Threads, Kill(t)
        PROVE  [Fifo!Next]_(Fifo!vars)
    <3>1. /\ consHead' = consHead /\ prodTail' = prodTail /\ ring' = ring /\ objs' = objs
          /\ pc' = pc /\ head' = head /\ num' = num
      BY <2>3 DEF Kill, indices
    <3>2. Queue' = Queue /\ In' = In /\ Out' = Out
      BY <3>1 DEF Queue, In, Out, InTable
    <3> QED
      BY <3>2, Stutter
  <2>4. CASE UNCHANGED vars
    <3>1. /\ consHead' = consHead /\ prodTail' = prodTail /\ ring' = ring /\ objs' = objs
          /\ pc' = pc /\ head' = head /\ num' = num
      BY <2>4 DEF vars, indices
    <3>2. Queue' = Queue /\ In' = In /\ Out' = Out
      BY <3>1 DEF Queue, In, Out, InTable
    <3> QED
      BY <3>2, Stutter
  <2> QED
    BY <2>1, <2>2, <2>3, <2>4 DEF Next, Step
<1> QED
  BY <1>1, <1>2, <1>3, PTL DEF Spec, FifoSpec, Fifo!Spec
=============================================================================
