-------------------------- MODULE ShadowReadProofs --------------------------
(***************************************************************************)
(* Proofs about ShadowRead: for every size of the ring, of the segments    *)
(* and of the stream, and for every set of limits, successive calls of     *)
(* service_receive give the application exactly the stream, as long as     *)
(* buffers have one segment or reads have no limit.  That no buffer is     *)
(* lost or freed twice holds for all chains and limits.                    *)
(***************************************************************************)
EXTENDS ShadowRead, WellFoundedInduction, TLAPS

USE ZenonT(20)

----------------------------------------------------------------------------
(* Sums of sequences of lengths. *)

(* Induction over the natural numbers, for sets.                             *)
LEMMA SetInduction ==
  ASSUME NEW S, 0 \in S, \A n \in Nat : n \in S => n + 1 \in S
  PROVE  Nat \subseteq S
<1> SUFFICES ASSUME Nat \ S # {} PROVE FALSE
  BY Zenon
<1> DEFINE R == OpToRel(<, Nat)
<1>1. IsWellFoundedOn(R, Nat)
  BY NatLessThanWellFounded
<1> HIDE DEF R
<1>2. PICK x \in Nat \ S : \A y \in Nat \ S : ~ (<<y, x>> \in R)
  BY <1>1, WFMin, Zenon
<1>3. x # 0 /\ x - 1 \in Nat
  BY <1>2, SMT
<1>4. <<x - 1, x>> \in R
  BY <1>2, <1>3, SMT DEF R, OpToRel
<1>5. x - 1 \in S
  BY <1>2, <1>3, <1>4, Zenon
<1>6. x - 1 + 1 = x
  BY <1>2, SMT
<1> QED
  BY <1>2, <1>3, <1>5, <1>6, Zenon

(* f satisfies the recursive definition in Sum.                              *)
Sums(ns, f) == f = [i \in 0 .. Len(ns) |-> IF i = 0 THEN 0 ELSE f[i - 1] + ns[i]]

(* f[i] is the sum of the first i lengths, for every i up to n.              *)
UpTo(ns, n, f) ==
  /\ f \in [0 .. n -> Nat] /\ f[0] = 0
  /\ \A i \in 1 .. n : f[i] = f[i - 1] + ns[i]

(* Every sequence of lengths has a function of partial sums.                 *)
LEMMA UpToExists ==
  ASSUME NEW ns \in Seq(Nat)
  PROVE  \E f : UpTo(ns, Len(ns), f)
<1> DEFINE S == {n \in Nat : n <= Len(ns) => \E f : UpTo(ns, n, f)}
<1>1. 0 \in S
  <2> DEFINE f == [i \in 0 .. 0 |-> 0]
  <2>1. UpTo(ns, 0, f)
    BY SMT DEF UpTo
  <2> QED
    BY <2>1, SMT
<1>2. ASSUME NEW n \in Nat, n \in S PROVE n + 1 \in S
  <2>1. CASE n + 1 <= Len(ns)
    <3>1. PICK f : UpTo(ns, n, f)
      BY <1>2, <2>1, SMT
    <3> DEFINE g == [i \in 0 .. n + 1 |-> IF i <= n THEN f[i] ELSE f[n] + ns[n + 1]]
    <3>2. ns[n + 1] \in Nat
      BY <2>1, SMT
    <3>3. g \in [0 .. n + 1 -> Nat]
      BY <3>1, <3>2, SMT DEF UpTo
    <3>4. g[0] = 0
      BY <3>1, SMT DEF UpTo
    <3>5. ASSUME NEW i \in 1 .. n + 1 PROVE g[i] = g[i - 1] + ns[i]
      <4>1. i \in 0 .. n + 1 /\ i - 1 \in 0 .. n + 1 /\ i - 1 <= n
        BY SMT
      <4>2. g[i - 1] = f[i - 1]
        BY <4>1, Zenon
      <4>3. CASE i <= n
        <5>1. i \in 1 .. n
          BY <4>3, SMT
        <5>2. f[i] = f[i - 1] + ns[i]
          BY <3>1, <5>1, Zenon DEF UpTo
        <5> QED
          BY <4>1, <4>2, <4>3, <5>2, Zenon
      <4>4. CASE ~ (i <= n)
        <5>1. i = n + 1 /\ i - 1 = n
          BY <4>4, SMT
        <5>2. g[i] = f[n] + ns[n + 1]
          BY <4>1, <4>4, Zenon
        <5> HIDE DEF g
        <5> QED
          BY <4>2, <5>1, <5>2, Zenon
      <4> QED
        BY <4>3, <4>4
    <3> HIDE DEF g
    <3>6. UpTo(ns, n + 1, g)
      BY <3>3, <3>4, <3>5, Zenon DEF UpTo
    <3>7. \E h : UpTo(ns, n + 1, h)
      BY <3>6, Zenon
    <3> QED
      BY <3>7, SMT
  <2>2. CASE ~ (n + 1 <= Len(ns))
    BY <2>2, SMT
  <2> QED
    BY <2>1, <2>2
<1> HIDE DEF S
<1>3. Nat \subseteq S
  BY <1>1, <1>2, SetInduction, Zenon
<1>4. Len(ns) \in S
  BY <1>3, SMT
<1> QED
  BY <1>4, SMT DEF S

(* Sum is the last of the partial sums.                                      *)
LEMMA SumIsUpTo ==
  ASSUME NEW ns \in Seq(Nat)
  PROVE  \E f : UpTo(ns, Len(ns), f) /\ Sum(ns) = f[Len(ns)]
<1>1. PICK g : UpTo(ns, Len(ns), g)
  BY UpToExists
<1>2. Sums(ns, g)
  <2>1. DOMAIN g = 0 .. Len(ns) /\ g = [i \in 0 .. Len(ns) |-> g[i]]
    BY <1>1 DEF UpTo
  <2>2. ASSUME NEW i \in 0 .. Len(ns) PROVE g[i] = IF i = 0 THEN 0 ELSE g[i - 1] + ns[i]
    BY <1>1, SMT DEF UpTo
  <2>3. [i \in 0 .. Len(ns) |-> g[i]] = [i \in 0 .. Len(ns) |-> IF i = 0 THEN 0 ELSE g[i - 1] + ns[i]]
    BY <2>2, Zenon
  <2> QED
    BY <2>1, <2>3, Zenon DEF Sums
<1>3. PICK f : Sums(ns, f) /\ Sum(ns) = f[Len(ns)]
  BY <1>2 DEF Sum, Sums
<1>4. f[0] = 0 /\ DOMAIN f = 0 .. Len(ns) /\ f = [i \in 0 .. Len(ns) |-> f[i]]
  BY <1>3, SMT DEF Sums
<1>5. ASSUME NEW i \in 1 .. Len(ns) PROVE f[i] = f[i - 1] + ns[i]
  <2>1. i \in 0 .. Len(ns) /\ i # 0
    BY SMT
  <2> DEFINE h == [j \in 0 .. Len(ns) |-> IF j = 0 THEN 0 ELSE f[j - 1] + ns[j]]
  <2>2. h[i] = f[i - 1] + ns[i]
    BY <2>1, Zenon
  <2>3. f = h
    BY <1>3, Zenon DEF Sums
  <2> HIDE DEF h
  <2> QED
    BY <2>2, <2>3, Zenon
<1> DEFINE S == {n \in Nat : n <= Len(ns) => f[n] \in Nat}
<1>6. 0 \in S
  BY <1>4, SMT
<1>7. ASSUME NEW n \in Nat, n \in S PROVE n + 1 \in S
  <2>1. CASE n + 1 <= Len(ns)
    <3>1. f[n] \in Nat /\ n + 1 \in 1 .. Len(ns) /\ ns[n + 1] \in Nat /\ n + 1 - 1 = n
      BY <1>7, <2>1, SMT
    <3>2. f[n + 1] = f[n] + ns[n + 1]
      BY <3>1, <1>5, SMT
    <3> QED
      BY <3>1, <3>2, SMT
  <2> QED
    BY <2>1, SMT
<1>8. Nat \subseteq S
  <2> HIDE DEF S
  <2> QED
    BY <1>6, <1>7, SetInduction, Zenon
<1>9. f \in [0 .. Len(ns) -> Nat]
  <2>1. ASSUME NEW i \in 0 .. Len(ns) PROVE f[i] \in Nat
    BY <1>8, SMT
  <2> QED
    BY <2>1, <1>4, Zenon
<1> QED
  BY <1>3, <1>4, <1>5, <1>9, Zenon DEF UpTo

(* A partial sum is the one before and the next length.                      *)
LEMMA UpToStep ==
  ASSUME NEW ns, NEW n, NEW f, UpTo(ns, n, f), NEW i \in 1 .. n
  PROVE  f[i] = f[i - 1] + ns[i]
BY DEF UpTo

(* The partial sums of a prefix are those of the sequence.                   *)
LEMMA UpToUnique ==
  ASSUME NEW ns, NEW n \in Nat, NEW f, UpTo(ns, n, f), NEW m \in 0 .. n, NEW g, UpTo(ns, m, g)
  PROVE  f[m] = g[m]
<1> DEFINE S == {i \in Nat : i <= m => f[i] = g[i]}
<1>1. 0 \in S
  BY SMT DEF UpTo
<1>2. ASSUME NEW i \in Nat, i \in S PROVE i + 1 \in S
  <2>1. CASE i + 1 <= m
    <3> DEFINE j == i + 1
    <3>1. f[i] = g[i] /\ j \in 1 .. n /\ j \in 1 .. m /\ j - 1 = i
      BY <1>2, <2>1, SMT
    <3> HIDE DEF j
    <3>2. j \in 1 .. n /\ j \in 1 .. m
      BY <3>1
    <3>3. f[j] = f[j - 1] + ns[j] /\ g[j] = g[j - 1] + ns[j]
      <4>1. f[j] = f[j - 1] + ns[j]
        BY <3>2, UpToStep
      <4>2. g[j] = g[j - 1] + ns[j]
        BY <3>2, UpToStep
      <4> QED
        BY <4>1, <4>2
    <3>4. f[j] = g[j]
      BY <3>1, <3>3
    <3> QED
      BY <3>4, SMT DEF j
  <2> QED
    BY <2>1, SMT
<1>3. Nat \subseteq S
  <2> HIDE DEF S
  <2> QED
    BY <1>1, <1>2, SetInduction, Zenon
<1> QED
  BY <1>3, SMT

(* Partial sums do not fall.                                                 *)
LEMMA UpToGrows ==
  ASSUME NEW ns \in Seq(Nat), NEW n \in Nat, n <= Len(ns), NEW f, UpTo(ns, n, f), NEW k \in 0 .. n
  PROVE  f[k] <= f[n]
<1> DEFINE S == {i \in Nat : k + i <= n => f[k] <= f[k + i]}
<1>1. 0 \in S
  <2>1. f[k] \in Nat /\ k + 0 = k
    BY SMT DEF UpTo
  <2> QED
    BY <2>1, SMT
<1>2. ASSUME NEW i \in Nat, i \in S PROVE i + 1 \in S
  <2>1. CASE k + (i + 1) <= n
    <3> DEFINE j == k + i + 1
    <3>1. j \in 1 .. n /\ j \in 1 .. Len(ns) /\ j - 1 \in 0 .. n /\ j - 1 = k + i /\ j = k + (i + 1)
      BY <2>1, SMT
    <3>2. f[k] <= f[k + i]
      BY <1>2, <2>1, SMT
    <3> HIDE DEF j
    <3>3. f[j] = f[j - 1] + ns[j]
      <4>1. j \in 1 .. n
        BY <3>1
      <4> QED
        BY <4>1, UpToStep
    <3>4. f[k] \in Nat /\ f[j - 1] \in Nat /\ f[k] <= f[j - 1]
      BY <3>1, <3>2, Zenon DEF UpTo
    <3>5. ns[j] \in Nat
      BY <3>1, SMT
    <3>6. f[k] <= f[j]
      BY <3>3, <3>4, <3>5, SMT
    <3> QED
      BY <3>1, <3>6, SMT
  <2> QED
    BY <2>1, SMT
<1>3. Nat \subseteq S
  <2> HIDE DEF S
  <2> QED
    BY <1>1, <1>2, SetInduction, Zenon
<1>4. n - k \in Nat /\ k + (n - k) = n /\ n <= n
  BY SMT
<1>5. n - k \in S
  BY <1>3, <1>4, Zenon
<1> QED
  BY <1>4, <1>5, Zenon

(* A sum of lengths is a length.                                             *)
LEMMA SumType ==
  ASSUME NEW ns \in Seq(Nat)
  PROVE  Sum(ns) \in Nat
<1>1. PICK f : UpTo(ns, Len(ns), f) /\ Sum(ns) = f[Len(ns)]
  BY SumIsUpTo
<1> QED
  BY <1>1, SMT DEF UpTo

(* The sum of a prefix is no more than the sum: the segments of a chain lie  *)
(* within it.                                                                *)
LEMMA SumPrefix ==
  ASSUME NEW ns \in Seq(Nat), NEW k \in 0 .. Len(ns)
  PROVE  /\ SubSeq(ns, 1, k) \in Seq(Nat) /\ Sum(SubSeq(ns, 1, k)) \in Nat
         /\ Sum(SubSeq(ns, 1, k)) <= Sum(ns)
<1> DEFINE ms == SubSeq(ns, 1, k)
<1>1. ms \in Seq(Nat) /\ Len(ms) = k /\ \A i \in 1 .. k : ms[i] = ns[i] /\ ns[i] \in Nat
  BY SMT
<1> HIDE DEF ms
<1>2. PICK f : UpTo(ns, Len(ns), f) /\ Sum(ns) = f[Len(ns)]
  BY SumIsUpTo
<1>3. PICK g : UpTo(ms, k, g) /\ Sum(ms) = g[k]
  BY <1>1, SumIsUpTo
<1>4. UpTo(ns, k, g)
  BY <1>1, <1>3, Zenon DEF UpTo
<1>5. Len(ns) \in Nat /\ k \in Nat /\ k <= Len(ns) /\ k \in 0 .. k /\ Len(ns) <= Len(ns)
  BY SMT
<1>6. f[k] = g[k]
  <2> DEFINE n == Len(ns)
  <2>1. UpTo(ns, n, f)
    BY <1>2
  <2>2. n \in Nat /\ k \in 0 .. n
    BY <1>5
  <2> HIDE DEF n
  <2> QED
    BY <1>4, <2>1, <2>2, UpToUnique, SMTT(30)
<1>7. f[k] <= f[Len(ns)]
  BY <1>2, <1>5, UpToGrows, Zenon
<1>8. Sum(ms) \in Nat
  BY <1>1, SumType
<1> QED
  BY <1>1, <1>2, <1>3, <1>6, <1>7, <1>8, Zenon DEF ms

(* Sums of no, one and two lengths.                                          *)
LEMMA SumShort ==
  /\ Sum(<< >>) = 0
  /\ \A a \in Nat : Sum(<<a>>) = a
  /\ \A a, b \in Nat : Sum(<<a, b>>) = a + b
<1>1. Sum(<< >>) = 0
  <2>1. << >> \in Seq(Nat) /\ Len(<< >>) = 0
    BY SMT
  <2>2. PICK f : UpTo(<< >>, 0, f) /\ Sum(<< >>) = f[0]
    BY <2>1, SumIsUpTo
  <2> QED
    BY <2>2 DEF UpTo
<1>2. ASSUME NEW a \in Nat PROVE Sum(<<a>>) = a
  <2>1. <<a>> \in Seq(Nat) /\ Len(<<a>>) = 1
    BY SMT
  <2>2. PICK f : UpTo(<<a>>, 1, f) /\ Sum(<<a>>) = f[1]
    BY <2>1, SumIsUpTo
  <2> QED
    BY <2>2, SMT DEF UpTo
<1>3. ASSUME NEW a \in Nat, NEW b \in Nat PROVE Sum(<<a, b>>) = a + b
  <2>1. <<a, b>> \in Seq(Nat) /\ Len(<<a, b>>) = 2
    BY SMT
  <2>2. PICK f : UpTo(<<a, b>>, 2, f) /\ Sum(<<a, b>>) = f[2]
    BY <2>1, SumIsUpTo
  <2>3. f[1] = f[0] + a /\ f[2] = f[1] + b /\ f[0] = 0
    BY <2>2, SMT DEF UpTo
  <2> QED
    BY <2>2, <2>3, SMT
<1> QED
  BY <1>1, <1>2, <1>3

----------------------------------------------------------------------------
(* Totals of chains. *)

(* The lengths of a chain's segments are as many as its segments, and its    *)
(* total is a length.                                                        *)
LEMMA LensType ==
  ASSUME NEW chain \in Seq(Segs)
  PROVE  Lens(chain) \in Seq(Nat) /\ Len(Lens(chain)) = Len(chain) /\ Total(chain) \in Nat
<1>1. \A s \in Segs : s.len \in Nat
  BY SMT DEF Segs
<1>2. Lens(chain) \in Seq(Nat) /\ Len(Lens(chain)) = Len(chain)
  BY <1>1, SMT DEF Lens
<1> QED
  BY <1>2, SumType DEF Total

(* Totals of chains of no, one and two segments.                             *)
LEMMA TotalShort ==
  /\ Total(<< >>) = 0
  /\ \A s : s.len \in Nat => Total(<<s>>) = s.len
  /\ \A s, t : s.len \in Nat /\ t.len \in Nat => Total(<<s, t>>) = s.len + t.len
<1>1. Total(<< >>) = 0
  <2>1. Lens(<< >>) = << >>
    BY SMT DEF Lens
  <2> QED
    BY <2>1, SumShort DEF Total
<1>2. ASSUME NEW s, s.len \in Nat PROVE Total(<<s>>) = s.len
  <2>1. Lens(<<s>>) = <<s.len>>
    BY SMT DEF Lens
  <2>2. Sum(<<s.len>>) = s.len
    BY <1>2, SumShort
  <2> QED
    BY <2>1, <2>2 DEF Total
<1>3. ASSUME NEW s, NEW t, s.len \in Nat, t.len \in Nat PROVE Total(<<s, t>>) = s.len + t.len
  <2>1. Lens(<<s, t>>) = <<s.len, t.len>>
    BY SMT DEF Lens
  <2>2. Sum(<<s.len, t.len>>) = s.len + t.len
    BY <1>3, SumShort
  <2> QED
    BY <2>1, <2>2 DEF Total
<1> QED
  BY <1>1, <1>2, <1>3

----------------------------------------------------------------------------
(* Chains as they arrive and as they wait on the ring. *)

(* A chain as the service submits it: at least one segment, none empty at    *)
(* its head, the bytes in order.                                             *)
SoundChain(c) ==
  /\ c \in Seq(Segs) /\ c # << >> /\ c[1].len > 0
  /\ MaxSegs = 1 => Len(c) = 1
  /\ ContiguousFrom(c[1].at, c)

(* What Arrive is given: at least one length, none of them zero.             *)
LEMMA SegLensType ==
  ASSUME NEW lens \in SegLens
  PROVE  /\ lens \in Seq(Nat) /\ Len(lens) \in 1 .. MaxSegs /\ DOMAIN lens = 1 .. Len(lens)
         /\ \A i \in 1 .. Len(lens) : lens[i] \in 1 .. MaxSegLen
<1>1. PICK n \in 1 .. MaxSegs : lens \in [1 .. n -> 1 .. MaxSegLen]
  BY DEF SegLens
<1>2. n \in Nat /\ 1 .. MaxSegLen \subseteq Nat
  BY ReadAssumption, SMT
<1>3. lens \in [1 .. n -> Nat]
  BY <1>1, <1>2, SMT
<1>4. lens \in Seq(Nat) /\ Len(lens) = n
  BY <1>2, <1>3, SMT
<1> QED
  BY <1>1, <1>4

(* service_submit_rx_buf: a chain's first k segments have the first k        *)
(* lengths it was made of.                                                   *)
LEMMA ChainLens ==
  ASSUME NEW lens \in SegLens, NEW p, NEW k \in 0 .. Len(lens)
  PROVE  Lens(SubSeq(Chain(p, lens), 1, k)) = SubSeq(lens, 1, k)
<1> DEFINE c == Chain(p, lens)
           n == Len(lens)
<1>1. n \in Nat /\ lens \in Seq(Nat) /\ DOMAIN lens = 1 .. n
  BY SegLensType, SMT
<1>2. c = [i \in 1 .. n |-> Seg(p + Sum(SubSeq(lens, 1, i - 1)), lens[i])]
  BY <1>1 DEF Chain
<1>3. DOMAIN c = 1 .. n /\ \A i \in 1 .. n : c[i].len = lens[i]
  <2>1. \A i \in 1 .. n : c[i] = [at |-> p + Sum(SubSeq(lens, 1, i - 1)), len |-> lens[i],
                                  buf |-> p + Sum(SubSeq(lens, 1, i - 1))]
    BY <1>2 DEF Seg
  <2>2. DOMAIN c = 1 .. n
    BY <1>2
  <2> HIDE DEF c, n
  <2> QED
    BY <2>1, <2>2, SMT
<1>4. Len(c) = n
  BY <1>1, <1>2, SMT
<1> HIDE DEF c, n
<1>5. SubSeq(c, 1, k) = [i \in 1 .. k |-> c[i]] /\ SubSeq(lens, 1, k) = [i \in 1 .. k |-> lens[i]]
  BY <1>1, <1>4, SMTT(30) DEF n
<1>6. \A i \in 1 .. k : i \in 1 .. n
  BY <1>1, SMT DEF n
<1> QED
  BY <1>3, <1>5, <1>6 DEF Lens, c

(* service_submit_rx_buf: a chain that arrives covers the bytes from p on,   *)
(* one segment after the other, and ends where the next one starts.          *)
LEMMA ChainSound ==
  ASSUME NEW lens \in SegLens, NEW p \in Nat, p + Sum(lens) <= MaxBytes
  PROVE  LET c == Chain(p, lens)
         IN  SoundChain(c) /\ c[1].at = p /\ End(c) = p + Sum(lens)
<1> DEFINE c == Chain(p, lens)
           n == Len(lens)
           At(i) == p + Sum(SubSeq(lens, 1, i - 1))
<1>1. n \in Nat /\ n >= 1 /\ (MaxSegs = 1 => n = 1) /\ lens \in Seq(Nat) /\ DOMAIN lens = 1 .. n
  <2>1. lens \in Seq(Nat) /\ n \in 1 .. MaxSegs /\ DOMAIN lens = 1 .. n
    BY SegLensType
  <2> HIDE DEF n
  <2> QED
    BY <2>1, ReadAssumption, SMT
<1>2. \A i \in 1 .. n : lens[i] \in 1 .. MaxSegLen
  BY SegLensType
<1>3. \A i \in 1 .. n : At(i) \in 0 .. MaxBytes
  <2> TAKE i \in 1 .. n
  <2>1. i - 1 \in 0 .. Len(lens)
    BY <1>1, SMT
  <2>2. Sum(SubSeq(lens, 1, i - 1)) \in Nat /\ Sum(SubSeq(lens, 1, i - 1)) <= Sum(lens)
    BY <1>1, <2>1, SumPrefix
  <2>3. Sum(lens) \in Nat
    BY <1>1, SumType
  <2> QED
    BY <2>2, <2>3, ReadAssumption, SMT
<1>4. c = [i \in 1 .. n |-> Seg(At(i), lens[i])]
  BY <1>1 DEF Chain
<1>5. \A i \in 1 .. n : c[i] = Seg(At(i), lens[i])
  BY <1>4
<1> HIDE DEF c, n, At
<1>6. \A i \in 1 .. n : c[i] \in Segs /\ c[i].at = At(i) /\ c[i].len = lens[i]
  <2> TAKE i \in 1 .. n
  <2>1. c[i] = [at |-> At(i), len |-> lens[i], buf |-> At(i)]
    BY <1>5 DEF Seg
  <2>2. lens[i] \in 0 .. MaxSegLen /\ At(i) \in 0 .. MaxBytes
    BY <1>2, <1>3, SMT
  <2> QED
    BY <2>1, <2>2, SMT DEF Segs
<1>7. c \in Seq(Segs) /\ Len(c) = n /\ DOMAIN c = 1 .. n
  BY <1>1, <1>4, <1>6, SMT
<1>8. \A i \in 1 .. n : Total(SubSeq(c, 1, i - 1)) = Sum(SubSeq(lens, 1, i - 1))
  <2> TAKE i \in 1 .. n
  <2>1. i - 1 \in 0 .. Len(lens)
    BY <1>1, SMT DEF n
  <2> QED
    BY <2>1, ChainLens DEF Total, c
<1>9. 1 \in 1 .. n
  BY <1>1, SMT
<1>10. c[1].at = p
  <2>1. SubSeq(lens, 1, 1 - 1) = << >>
    BY <1>1, SMT
  <2>2. At(1) = p + 0
    BY <2>1, SumShort DEF At
  <2> QED
    BY <1>6, <1>9, <2>2, SMT
<1>11. ContiguousFrom(p, c)
  BY <1>6, <1>7, <1>8 DEF ContiguousFrom, At
<1>12. End(c) = p + Sum(lens)
  <2>1. SubSeq(c, 1, n) = c /\ SubSeq(lens, 1, n) = lens /\ n \in 0 .. n
    BY <1>1, <1>7, SMT DEF n
  <2>2. Lens(c) = lens
    BY <2>1, ChainLens DEF n, c
  <2> QED
    BY <2>2, <1>10 DEF End, Total
<1>13. SoundChain(c)
  <2>1. c[1].len > 0
    BY <1>2, <1>6, <1>9, SMT
  <2>2. c # << >>
    BY <1>1, <1>7, SMT
  <2> QED
    BY <1>1, <1>7, <1>10, <1>11, <2>1, <2>2 DEF SoundChain
<1> QED
  BY <1>10, <1>12, <1>13 DEF c

(* A chain of one segment is that segment.                                   *)
LEMMA OneSegment ==
  ASSUME NEW c, SoundChain(c), MaxSegs = 1
  PROVE  /\ c = <<c[1]>> /\ c[1] \in Segs /\ c[1].len \in Nat /\ c[1].at \in Nat
         /\ Total(c) = c[1].len /\ End(c) = c[1].at + c[1].len
<1>1. c \in Seq(Segs) /\ Len(c) = 1
  BY DEF SoundChain
<1>2. c = <<c[1]>> /\ c[1] \in Segs
  BY <1>1, SMT
<1>3. c[1].len \in Nat /\ c[1].at \in Nat
  BY <1>2, SMT DEF Segs
<1>4. Total(<<c[1]>>) = c[1].len
  BY <1>3, TotalShort
<1>5. Total(c) = c[1].len
  BY <1>2, <1>4
<1> QED
  BY <1>2, <1>3, <1>5 DEF End

(* service_dequeue_rx_buf: when the first chain is taken, the ring covers    *)
(* what follows it.                                                          *)
LEMMA CoversTail ==
  ASSUME NEW q \in Seq(Seq(Segs)), q # << >>, NEW from, NEW to, Covers(q, from, to)
  PROVE  Covers(Tail(q), End(q[1]), to)
<1> DEFINE t == Tail(q)
           n == Len(q)
<1>1. n \in Nat /\ n >= 1 /\ t \in Seq(Seq(Segs)) /\ Len(t) = n - 1
      /\ \A i \in 1 .. n - 1 : t[i] = q[i + 1]
  BY SMT
<1>2. \A i \in 1 .. n - 1 : q[i + 1][1].at = End(q[i])
  BY DEF Covers
<1>3. End(q[n]) = to
  BY DEF Covers
<1> HIDE DEF t, n
<1>4. CASE n = 1
  <2>1. t = << >>
    BY <1>1, <1>4, SMT
  <2>2. End(q[1]) = to
    BY <1>3, <1>4
  <2> QED
    BY <2>1, <2>2 DEF Covers, t
<1>5. CASE n # 1
  <2>1. 1 \in 1 .. n - 1 /\ n - 1 \in 1 .. n - 1 /\ n - 1 + 1 = n /\ 1 + 1 = 2
    BY <1>1, <1>5, SMT
  <2>2. t[1][1].at = End(q[1])
    BY <1>1, <1>2, <2>1
  <2>3. End(t[Len(t)]) = to
    BY <1>1, <1>3, <2>1
  <2>4. ASSUME NEW i \in 1 .. Len(t) - 1 PROVE t[i + 1][1].at = End(t[i])
    <3>1. i \in 1 .. n - 1 /\ i + 1 \in 1 .. n - 1
      BY <1>1, SMT
    <3>2. t[i] = q[i + 1] /\ t[i + 1] = q[i + 1 + 1]
      BY <1>1, <3>1
    <3> QED
      BY <1>2, <3>1, <3>2
  <2>5. t # << >>
    BY <1>1, <1>5, SMT
  <2> QED
    BY <2>2, <2>3, <2>4, <2>5 DEF Covers, t
<1> QED
  BY <1>4, <1>5

(* service_submit_rx_buf: a chain that starts where the ring ends extends    *)
(* what the ring covers.                                                     *)
LEMMA CoversAppend ==
  ASSUME NEW q \in Seq(Seq(Segs)), NEW from, NEW to, Covers(q, from, to),
         NEW c \in Seq(Segs), c[1].at = to
  PROVE  Covers(Append(q, c), from, End(c))
<1> DEFINE a == Append(q, c)
           n == Len(q)
<1>1. n \in Nat /\ a # << >> /\ Len(a) = n + 1 /\ a[n + 1] = c /\ \A i \in 1 .. n : a[i] = q[i]
  <2>1. n \in Nat /\ Len(a) = n + 1 /\ a[n + 1] = c
    BY SMT
  <2>2. \A i \in 1 .. n : a[i] = q[i]
    BY SMT
  <2>3. a # << >>
    BY <2>1, SMT
  <2> QED
    BY <2>1, <2>2, <2>3
<1> HIDE DEF a, n
<1>2. CASE q = << >>
  <2>1. n = 0 /\ n + 1 = 1 /\ n + 1 - 1 = 0 /\ 1 .. 0 = {}
    BY <1>2, SMT DEF n
  <2>2. from = to
    BY <1>2 DEF Covers
  <2>3. a[1] = c
    BY <1>1, <2>1
  <2>4. 1 .. Len(a) - 1 = {} /\ a[Len(a)] = c
    <3>1. Len(a) = 1 /\ 1 - 1 = 0
      BY <1>1, <2>1, SMT
    <3> QED
      BY <2>1, <2>3, <3>1
  <2>5. a[1][1].at = from
    BY <2>2, <2>3
  <2> QED
    BY <1>1, <2>4, <2>5, Zenon DEF Covers, a
<1>3. CASE q # << >>
  <2>1. n >= 1 /\ 1 \in 1 .. n /\ n + 1 - 1 = n
    BY <1>3, <1>1, SMT DEF n
  <2>2. q[1][1].at = from /\ End(q[n]) = to /\ \A i \in 1 .. n - 1 : q[i + 1][1].at = End(q[i])
    BY <1>3 DEF Covers, n
  <2>3. ASSUME NEW i \in 1 .. n PROVE a[i + 1][1].at = End(a[i])
    <3>1. CASE i = n
      <4>1. a[i + 1] = c /\ a[i] = q[n]
        BY <1>1, <3>1, <2>1
      <4> QED
        BY <4>1, <2>2
    <3>2. CASE i # n
      <4>1. i \in 1 .. n - 1 /\ i + 1 \in 1 .. n
        BY <1>1, <3>2, SMT
      <4>2. a[i] = q[i] /\ a[i + 1] = q[i + 1]
        BY <1>1, <4>1
      <4> QED
        BY <2>2, <4>1, <4>2
    <3> QED
      BY <3>1, <3>2
  <2>4. \A i \in 1 .. Len(a) - 1 : a[i + 1][1].at = End(a[i])
    <3>1. Len(a) - 1 = n
      BY <1>1, SMT
    <3> QED
      BY <2>3, <3>1
  <2>5. a[1][1].at = from /\ End(a[Len(a)]) = End(c)
    BY <1>1, <2>1, <2>2
  <2> QED
    BY <1>1, <2>4, <2>5 DEF Covers, a
<1> QED
  BY <1>2, <1>3

----------------------------------------------------------------------------
(* service_try_read_exact_amount on a chain of one segment. *)

(* The first n bytes of a segment. *)
Short(s, n) == [s EXCEPT !.len = n]

(* What service_try_read_exact_amount does with one segment s.               *)
Took(t, s, limit, f) ==
  IF s.len <= limit
    THEN t.chain = <<s>> /\ t.total = s.len /\ t.first = s.len /\ t.fields = f
    ELSE /\ t.chain = <<Short(s, limit)>> /\ t.total = limit /\ t.first = limit
         /\ t.fields = [shadow |-> <<Short(s, limit)>>, next |-> << >>, rem |-> s.len - limit,
                        del |-> limit, linked |-> FALSE]

(* The parts of a sequence of one element.                                   *)
LEMMA PartsOfOne ==
  ASSUME NEW s
  PROVE  /\ DOMAIN <<s>> = {1} /\ SubSeq(<<s>>, 1, 1) = <<s>>
         /\ SubSeq(<<s>>, 1, 1 - 1) = << >> /\ SubSeq(<<s>>, 1 + 1, 1) = << >>
<1> DEFINE c == <<s>>
<1>1. c \in Seq({s}) /\ Len(c) = 1 /\ DOMAIN c = {1}
  BY SMT
<1> HIDE DEF c
<1>2. SubSeq(c, 1, 1) = c
  BY <1>1, SMT
<1>3. SubSeq(c, 1, 1 - 1) = << >>
  BY <1>1, SMT
<1>4. SubSeq(c, 1 + 1, 1) = << >>
  BY <1>1, SMT
<1> QED
  BY <1>1, <1>2, <1>3, <1>4 DEF c

(* service_try_read_exact_amount: the loop stops at the only segment, or     *)
(* runs off the chain when the segment is shorter than the limit.            *)
LEMMA CutOne ==
  ASSUME NEW s, s.len \in Nat, NEW limit \in Nat \ {0}
  PROVE  Cut(<<s>>, limit) = IF s.len < limit THEN {} ELSE {1}
<1>1. DOMAIN <<s>> = {1} /\ SubSeq(<<s>>, 1, 1) = <<s>> /\ SubSeq(<<s>>, 1, 1 - 1) = << >>
  BY PartsOfOne
<1>2. Total(<<s>>) = s.len /\ Total(<< >>) = 0
  BY TotalShort
<1> DEFINE Here(i) == Total(SubSeq(<<s>>, 1, i)) >= limit /\ Total(SubSeq(<<s>>, 1, i - 1)) < limit
<1>3. Cut(<<s>>, limit) = {i \in {1} : Here(i)}
  BY <1>1 DEF Cut
<1>4. Here(1) <=> s.len >= limit /\ 0 < limit
  BY <1>1, <1>2
<1>5. Here(1) <=> ~ (s.len < limit)
  BY <1>4, SMT
<1> HIDE DEF Here
<1>6. {i \in {1} : Here(i)} = IF s.len < limit THEN {} ELSE {1}
  BY <1>5
<1> QED
  BY <1>3, <1>6

(* service_try_read_exact_amount on one segment: all of it is given, or as   *)
(* much as the limit with the rest kept in the descriptor.                   *)
LEMMA TryReadOne ==
  ASSUME NEW s \in Segs, NEW limit \in Nat \ {0}, NEW f
  PROVE  Took(TryRead(<<s>>, limit, f), s, limit, f)
<1> DEFINE c == <<s>>
           t == TryRead(c, limit, f)
<1>1. s.len \in Nat
  BY SMT DEF Segs
<1>2. Cut(c, limit) = IF s.len < limit THEN {} ELSE {1}
  BY <1>1, CutOne
<1>3. Total(c) = s.len /\ Len(c) = 1 /\ c[1] = s
  BY <1>1, TotalShort
<1>4. SubSeq(c, 1, 1) = c /\ SubSeq(c, 1, 1 - 1) = << >> /\ SubSeq(c, 1 + 1, 1) = << >>
  BY PartsOfOne
<1>5. CASE s.len < limit
  <2>1. Cut(c, limit) = {}
    BY <1>2, <1>5
  <2>2. t = [chain |-> c, total |-> s.len, first |-> s.len, fields |-> f]
    BY <2>1, <1>3 DEF TryRead
  <2>3. s.len <= limit
    BY <1>1, <1>5, SMT
  <2> HIDE DEF t
  <2>4. t.chain = c /\ t.total = s.len /\ t.first = s.len /\ t.fields = f
    BY <2>2, SMT
  <2> QED
    BY <2>3, <2>4 DEF Took, t
<1>6. CASE ~ (s.len < limit)
  <2>1. Cut(c, limit) = {1} /\ Cut(c, limit) # {} /\ (CHOOSE j \in Cut(c, limit) : TRUE) = 1
    <3>1. Cut(c, limit) = {1}
      BY <1>2, <1>6
    <3>2. (CHOOSE j \in {1} : TRUE) = 1
      BY SMT
    <3> QED
      BY <3>1, <3>2
  <2> DEFINE more == s.len - limit
             short == [s EXCEPT !.len = s.len - more]
  <2>2. short = Short(s, limit) /\ s.len - more = limit
    <3>1. s.len - more = limit
      BY <1>1, SMT
    <3> QED
      BY <3>1 DEF Short
  <2>3. t = IF more > 0
              THEN [chain |-> << >> \o <<short>>, total |-> limit, first |-> s.len - more,
                    fields |-> [shadow |-> <<short>>, next |-> << >>, rem |-> more,
                                del |-> s.len - more, linked |-> FALSE]]
              ELSE [chain |-> c, total |-> limit, first |-> s.len, fields |-> f]
    BY <2>1, <1>3, <1>4 DEF TryRead
  <2>4. << >> \o <<short>> = <<short>>
    BY SMT
  <2> HIDE DEF short, t, c
  <2>5. CASE more > 0
    <3>1. t = [chain |-> <<short>>, total |-> limit, first |-> limit,
               fields |-> [shadow |-> <<short>>, next |-> << >>, rem |-> more, del |-> limit,
                           linked |-> FALSE]]
      BY <2>2, <2>3, <2>4, <2>5
    <3>2. t.chain = <<short>> /\ t.total = limit /\ t.first = limit
          /\ t.fields = [shadow |-> <<short>>, next |-> << >>, rem |-> more, del |-> limit,
                         linked |-> FALSE]
      BY <3>1
    <3>3. ~ (s.len <= limit)
      BY <1>1, <2>5, SMT
    <3> QED
      BY <2>2, <3>2, <3>3 DEF Took, t, c
  <2>6. CASE ~ (more > 0)
    <3>1. s.len = limit /\ s.len <= limit
      BY <1>1, <1>6, <2>6, SMT
    <3>2. t.chain = c /\ t.total = limit /\ t.first = s.len /\ t.fields = f
      BY <2>3, <2>6
    <3> QED
      BY <3>1, <3>2 DEF Took, t, c
  <2> QED
    BY <2>5, <2>6
<1> QED
  BY <1>5, <1>6

(* What is kept for the next read: nothing, or a segment cut after the     *)
(* byte g of the stream.                                                   *)
Rest(sh, next, rem, del, lk, g) ==
  /\ sh \in Seq(Segs) /\ Len(sh) <= 1 /\ next = << >> /\ lk = FALSE
  /\ rem \in 0 .. MaxSegLen /\ del \in 0 .. MaxSegLen
  /\ sh # << >> => MaxSegs = 1 /\ rem > 0 /\ sh[1].at + del = g

(* The fields of a descriptor without a shadow.                              *)
Clear(f) ==
  /\ f.shadow = << >> /\ f.next = << >> /\ f.linked = FALSE
  /\ f.rem \in 0 .. MaxSegLen /\ f.del \in 0 .. MaxSegLen

(* u is what a read with the limit gives of the segment s. *)
Reads(t, s, limit, f, u) ==
  /\ t.chain = <<u>> /\ t.total = u.len /\ t.first = u.len
  /\ u.at = s.at /\ u.len > 0 /\ u.len <= limit
  /\ Rest(shadow', shadowNext', remainder', delivered', linked', s.at + u.len)
  /\ Kept' \in Nat /\ u.len + Kept' = s.len
  /\ s.len < limit => t.fields = f

(* The same in terms of the stream: the part u that is given starts where    *)
(* the segment starts, does not exceed the limit, and with what is kept      *)
(* makes up the segment; a segment shorter than the limit leaves the         *)
(* descriptor alone.                                                         *)
LEMMA SegmentRead ==
  ASSUME NEW s \in Segs, s.len > 0, NEW limit \in Nat \ {0}, MaxSegs = 1, NEW f, Clear(f),
         NEW t, Took(t, s, limit, f), SetFields(t.fields)
  PROVE  \E u \in Segs : Reads(t, s, limit, f, u)
<1>1. s.len \in Nat /\ s.at \in Nat /\ s.len <= MaxSegLen /\ s.at \in 0 .. MaxBytes
  BY ReadAssumption, SMT DEF Segs
<1> DEFINE g == t.fields
<1>2. shadow' = g.shadow /\ shadowNext' = g.next /\ remainder' = g.rem /\ delivered' = g.del
      /\ linked' = g.linked
  BY DEF SetFields
<1>3. Kept' = IF shadow' = << >> THEN 0 ELSE remainder' + Total(shadowNext')
  BY DEF Kept
<1>4. << >> \in Seq(Segs) /\ Len(<< >>) = 0 /\ 0 <= 1
  BY SMT
<1>5. CASE s.len <= limit
  <2>1. t.chain = <<s>> /\ t.total = s.len /\ t.first = s.len /\ g = f
    BY <1>5 DEF Took
  <2>2. shadow' = << >> /\ shadowNext' = << >> /\ linked' = FALSE
        /\ remainder' \in 0 .. MaxSegLen /\ delivered' \in 0 .. MaxSegLen
    BY <1>2, <2>1 DEF Clear
  <2>3. Rest(shadow', shadowNext', remainder', delivered', linked', s.at + s.len)
    BY <1>4, <2>2 DEF Rest
  <2>4. Kept' \in Nat /\ s.len + Kept' = s.len
    <3>1. Kept' = 0
      BY <1>3, <2>2
    <3> QED
      BY <1>1, <3>1, SMT
  <2> QED
    BY <1>5, <2>1, <2>3, <2>4 DEF Reads
<1>6. CASE ~ (s.len <= limit)
  <2> DEFINE u == Short(s, limit)
  <2>1. t.chain = <<u>> /\ t.total = limit /\ t.first = limit
        /\ g = [shadow |-> <<u>>, next |-> << >>, rem |-> s.len - limit, del |-> limit,
                linked |-> FALSE]
    BY <1>6 DEF Took
  <2>2. u.at = s.at /\ u.len = limit /\ u \in Segs
    <3>1. u = [s EXCEPT !.len = limit]
      BY DEF Short
    <3>2. limit \in 0 .. MaxSegLen
      BY <1>1, <1>6, ReadAssumption, SMT
    <3> QED
      BY <1>1, <3>1, <3>2, SMT DEF Segs
  <2> HIDE DEF u
  <2>3. g.shadow = <<u>> /\ g.next = << >> /\ g.rem = s.len - limit /\ g.del = limit
        /\ g.linked = FALSE
    <3> HIDE DEF g
    <3> QED
      BY <2>1, SMT
  <2>4. shadow' = <<u>> /\ shadowNext' = << >> /\ remainder' = s.len - limit
        /\ delivered' = limit /\ linked' = FALSE
    BY <1>2, <2>3
  <2>5. remainder' \in 0 .. MaxSegLen /\ delivered' \in 0 .. MaxSegLen /\ remainder' > 0
    BY <1>1, <1>6, <2>4, ReadAssumption, SMT
  <2>6. shadow' \in Seq(Segs) /\ Len(shadow') <= 1 /\ shadow' # << >> /\ shadow'[1] = u
    BY <2>2, <2>4, SMT
  <2>7. Rest(shadow', shadowNext', remainder', delivered', linked', s.at + u.len)
    <3>1. shadow'[1].at + delivered' = s.at + u.len
      BY <2>2, <2>4, <2>6
    <3> QED
      BY <2>4, <2>5, <2>6, <3>1 DEF Rest
  <2>8. Kept' \in Nat /\ u.len + Kept' = s.len
    <3>1. Kept' = s.len - limit + 0
      BY <1>3, <2>4, <2>6, TotalShort
    <3> QED
      BY <1>1, <1>6, <2>2, <3>1, SMT
  <2>9. ~ (s.len < limit) /\ limit <= limit /\ limit > 0
    BY <1>1, <1>6, SMT
  <2> QED
    BY <2>1, <2>2, <2>7, <2>8, <2>9 DEF Reads
<1> QED
  BY <1>5, <1>6

----------------------------------------------------------------------------
(* The inductive invariant. *)

(* Buffers of one segment, or an application that never limits a read, with  *)
(* 0 in total_len. With longer chains and limits the code does not deliver   *)
(* the stream: run ReadChainsLimited.                                        *)
SingleOrUnlimited == MaxSegs = 1 \/ Limits \subseteq {0}

(* What service_receive can have returned.                                   *)
Results == [chain : Seq(Segs), total : Nat, first : Nat, limit : Limits \cup {0}]

(* The shadow starts with the first byte not given, and only single segments *)
(* are ever cut; the chains on the ring are sound and follow one another.    *)
Ind ==
  /\ rx \in Seq(Seq(Segs)) /\ \A i \in DOMAIN rx : SoundChain(rx[i])
  /\ arrived \in 0 .. MaxBytes
  /\ Rest(shadow, shadowNext, remainder, delivered, linked, Given)
  /\ announced \in BOOLEAN /\ held \in BOOLEAN /\ live \subseteq 0 .. MaxBytes
  /\ before \in 0 .. MaxBytes
  /\ result \in Results /\ ContiguousFrom(before, result.chain) /\ LengthsExact
  /\ NothingLost

(* What was given and what is kept lies within the bytes that can arrive,    *)
(* and what is kept is shadow_len_remainder.                                 *)
LEMMA GivenAndKept ==
  ASSUME Ind
  PROVE  /\ Given \in 0 .. MaxBytes /\ Kept \in Nat /\ Given + Kept \in 0 .. MaxBytes
         /\ shadow = << >> => Kept = 0
         /\ shadow # << >> => Kept = remainder
<1>1. Total(result.chain) \in Nat
  <2>1. result.chain \in Seq(Segs)
    BY SMT DEF Ind, Results
  <2> QED
    BY <2>1, LensType
<1>2. before \in Nat
  BY SMT DEF Ind
<1>3. Given \in Nat
  BY <1>1, <1>2, SMT DEF Given
<1>4. remainder \in Nat /\ shadowNext = << >>
  BY SMT DEF Ind, Rest
<1>5. shadow = << >> => Kept = 0
  BY DEF Kept
<1>6. shadow # << >> => Kept = remainder
  <2>1. Total(shadowNext) = 0
    BY <1>4, TotalShort
  <2>2. shadow # << >> => Kept = remainder + 0
    BY <2>1 DEF Kept
  <2> QED
    BY <1>4, <2>2, SMT
<1>7. Kept \in Nat
  BY <1>4, <1>5, <1>6, SMT
<1>8. Given + Kept \in 0 .. MaxBytes
  <2>1. Covers(rx, Given + Kept, arrived)
    BY DEF Ind, NothingLost
  <2>2. CASE rx = << >>
    BY <2>1, <2>2 DEF Covers, Ind
  <2>3. CASE rx # << >>
    <3>1. rx[1][1].at = Given + Kept
      BY <2>1, <2>3 DEF Covers
    <3>2. 1 \in DOMAIN rx
      <4>1. rx \in Seq(Seq(Segs))
        BY DEF Ind
      <4> QED
        BY <4>1, <2>3, SMT
    <3>3. rx[1] \in Seq(Segs) /\ rx[1] # << >>
      BY <3>2 DEF Ind, SoundChain
    <3>4. rx[1][1] \in Segs
      BY <3>3, SMT
    <3>5. rx[1][1].at \in 0 .. MaxBytes
      BY <3>4, SMT DEF Segs
    <3> QED
      BY <3>1, <3>5
  <2> QED
    BY <2>2, <2>3
<1>9. Given \in 0 .. MaxBytes
  BY <1>3, <1>7, <1>8, ReadAssumption, SMT
<1> QED
  BY <1>5, <1>6, <1>7, <1>8, <1>9

(* What each path of service_receive has to show: the chain it gives starts  *)
(* after the last byte given, the lengths it returns are those of the chain, *)
(* what it keeps starts after the chain, and the ring covers the bytes after *)
(* that.                                                                     *)
LEMMA ReadStep ==
  ASSUME Ind, NEW chain \in Seq(Segs), chain # << >>, ContiguousFrom(Given, chain),
         NEW total, total = Total(chain), NEW first, first = chain[1].len,
         NEW limit \in Limits \cup {0}, limit > 0 => total <= limit,
         Give(chain, total, first, limit),
         arrived' = arrived, rx' = rx \/ (rx # << >> /\ rx' = Tail(rx)),
         announced' \in BOOLEAN,
         Rest(shadow', shadowNext', remainder', delivered', linked', Given + Total(chain)),
         Covers(rx', Given + Total(chain) + Kept', arrived)
  PROVE  Ind'
<1>1. before' = Given
      /\ result' = [chain |-> chain, total |-> total, first |-> first, limit |-> limit]
  BY DEF Give, Given
<1>2. result'.chain = chain /\ result'.total = total /\ result'.first = first
      /\ result'.limit = limit
  BY <1>1, SMT
<1>3. Given' = Given + Total(chain)
  BY <1>1, <1>2 DEF Given
<1>4. total \in Nat
  BY LensType
<1>5. chain[1] \in Segs
  BY SMT
<1>6. first \in Nat
  BY <1>5, SMT DEF Segs
<1>7. result' \in Results
  BY <1>1, <1>4, <1>6 DEF Results
<1>8. ContiguousFrom(before', result'.chain)
  BY <1>1, <1>2
<1>9. LengthsExact'
  BY <1>2 DEF LengthsExact
<1>10. rx' \in Seq(Seq(Segs)) /\ \A i \in DOMAIN rx' : SoundChain(rx'[i])
  <2>1. rx \in Seq(Seq(Segs)) /\ \A i \in DOMAIN rx : SoundChain(rx[i])
    BY DEF Ind
  <2>2. CASE rx' = rx
    BY <2>1, <2>2
  <2>3. CASE rx # << >> /\ rx' = Tail(rx)
    <3>1. Tail(rx) \in Seq(Seq(Segs)) /\ \A i \in DOMAIN Tail(rx) : i + 1 \in DOMAIN rx
          /\ Tail(rx)[i] = rx[i + 1]
      BY <2>1, <2>3, SMT
    <3>2. \A i \in DOMAIN Tail(rx) : SoundChain(Tail(rx)[i])
      BY <2>1, <3>1
    <3> QED
      BY <2>3, <3>1, <3>2
  <2> QED
    BY <2>2, <2>3
<1>11. NothingLost'
  BY <1>3 DEF NothingLost
<1>12. before' \in 0 .. MaxBytes
  BY <1>1, GivenAndKept
<1>13. arrived' \in 0 .. MaxBytes
  BY DEF Ind
<1>14. Rest(shadow', shadowNext', remainder', delivered', linked', Given')
  BY <1>3
<1>15. announced' \in BOOLEAN /\ held' \in BOOLEAN /\ live' \subseteq 0 .. MaxBytes
  BY DEF Give, Ind
<1> QED
  BY <1>7, <1>8, <1>9, <1>10, <1>11, <1>12, <1>13, <1>14, <1>15 DEF Ind

(* Chains of one and of two segments without a gap.                          *)
LEMMA ContiguousShort ==
  /\ \A u : u.at + 0 = u.at => ContiguousFrom(u.at, <<u>>)
  /\ \A u, v :
       u.at + 0 = u.at /\ u.len \in Nat /\ v.at = u.at + u.len => ContiguousFrom(u.at, <<u, v>>)
<1>1. ASSUME NEW u, u.at + 0 = u.at PROVE ContiguousFrom(u.at, <<u>>)
  <2>1. DOMAIN <<u>> = {1} /\ SubSeq(<<u>>, 1, 1 - 1) = << >> /\ <<u>>[1] = u
    BY PartsOfOne
  <2>2. Total(<< >>) = 0
    BY TotalShort
  <2> QED
    BY <1>1, <2>1, <2>2 DEF ContiguousFrom
<1>2. ASSUME NEW u, NEW v, u.at + 0 = u.at, u.len \in Nat, v.at = u.at + u.len
      PROVE  ContiguousFrom(u.at, <<u, v>>)
  <2> DEFINE c == <<u, v>>
  <2>1. c \in Seq({u, v}) /\ Len(c) = 2 /\ DOMAIN c = {1, 2} /\ c[1] = u /\ c[2] = v
    BY SMT
  <2> HIDE DEF c
  <2>2. SubSeq(c, 1, 1 - 1) = << >>
    BY <2>1, SMT
  <2>3. SubSeq(c, 1, 2 - 1) = <<u>>
    <3> DEFINE d == SubSeq(c, 1, 2 - 1)
    <3>1. d \in Seq({u, v}) /\ Len(d) = 1
      BY <2>1, SMT
    <3>2. d[1] = u
      BY <2>1, SMT
    <3> HIDE DEF d
    <3>3. d = <<u>>
      BY <3>1, <3>2, SMT
    <3> QED
      BY <3>3 DEF d
  <2>4. Total(<< >>) = 0 /\ Total(<<u>>) = u.len
    BY <1>2, TotalShort
  <2>5. c[1].at = u.at + Total(SubSeq(c, 1, 1 - 1)) /\ c[2].at = u.at + Total(SubSeq(c, 1, 2 - 1))
    BY <1>2, <2>1, <2>2, <2>3, <2>4
  <2>6. ContiguousFrom(u.at, c)
    BY <2>1, <2>5 DEF ContiguousFrom
  <2> QED
    BY <2>6 DEF c
<1> QED
  BY <1>1, <1>2

----------------------------------------------------------------------------
(* The actions. *)

(* service_dequeue_rx_buf: the first chain of the ring starts after what is  *)
(* given and kept, and the others cover the bytes after it.                  *)
LEMMA RingHead ==
  ASSUME Ind, rx # << >>
  PROVE  /\ SoundChain(rx[1]) /\ rx[1] \in Seq(Segs) /\ rx[1] # << >> /\ rx[1][1] \in Segs
         /\ rx[1][1].at = Given + Kept /\ Covers(Tail(rx), End(rx[1]), arrived)
<1>1. rx \in Seq(Seq(Segs)) /\ \A i \in DOMAIN rx : SoundChain(rx[i])
  BY DEF Ind
<1>2. 1 \in DOMAIN rx
  BY <1>1, SMT
<1>3. SoundChain(rx[1])
  BY <1>1, <1>2
<1>4. rx[1] \in Seq(Segs) /\ rx[1] # << >>
  BY <1>3 DEF SoundChain
<1>5. rx[1][1] \in Segs
  BY <1>4, SMT
<1>6. Covers(rx, Given + Kept, arrived)
  BY DEF Ind, NothingLost
<1>7. rx[1][1].at = Given + Kept
  BY <1>6 DEF Covers
<1>8. Covers(Tail(rx), End(rx[1]), arrived)
  BY <1>1, <1>6, CoversTail
<1> QED
  BY <1>3, <1>4, <1>5, <1>7, <1>8

(* A descriptor that was reset satisfies the invariant.                      *)
LEMMA InitInd ==
  ASSUME Init
  PROVE  Ind
<1>1. << >> \in Seq(Segs) /\ Len(<< >>) = 0 /\ << >> \in Seq(Seq(Segs)) /\ DOMAIN << >> = {}
  BY SMT
<1>2. result.chain = << >> /\ result.total = 0 /\ result.first = 0 /\ result.limit = 0
  BY SMT DEF Init, Nothing
<1>3. result \in Results
  <2>1. 0 \in Nat /\ 0 \in Limits \cup {0}
    BY SMT
  <2> QED
    BY <1>1, <2>1 DEF Results, Init, Nothing
<1>4. 0 \in 0 .. MaxBytes /\ 0 \in 0 .. MaxSegLen /\ 0 + 0 = 0 /\ 0 <= 1 /\ ~ (0 > 0)
  BY ReadAssumption, SMT
<1>5. Given = 0 /\ Kept = 0
  BY <1>2, <1>4, TotalShort DEF Given, Kept, Init
<1>6. NothingLost
  BY <1>4, <1>5 DEF NothingLost, Covers, Init
<1>7. LengthsExact
  BY <1>2, <1>4, TotalShort DEF LengthsExact
<1>8. ContiguousFrom(before, result.chain)
  BY <1>1, <1>2 DEF ContiguousFrom
<1>9. Rest(shadow, shadowNext, remainder, delivered, linked, Given)
  BY <1>1, <1>4 DEF Rest, Init
<1>10. rx \in Seq(Seq(Segs)) /\ \A i \in DOMAIN rx : SoundChain(rx[i])
  BY <1>1 DEF Init
<1> QED
  BY <1>3, <1>4, <1>6, <1>7, <1>8, <1>9, <1>10 DEF Ind, Init

(* service_submit_rx_buf keeps the invariant.                                *)
LEMMA ArriveInd ==
  ASSUME Ind, NEW lens \in SegLens, Arrive(lens)
  PROVE  Ind'
<1> DEFINE c == Chain(arrived, lens)
<1>1. arrived \in Nat /\ Sum(lens) \in Nat /\ arrived + Sum(lens) <= MaxBytes
  <2>1. Sum(lens) \in Nat
    BY SegLensType, SumType
  <2>2. arrived \in Nat
    BY SMT DEF Ind
  <2> QED
    BY <2>1, <2>2 DEF Arrive
<1>2. SoundChain(c) /\ c[1].at = arrived /\ End(c) = arrived + Sum(lens)
  BY <1>1, ChainSound
<1>3. rx' = Append(rx, c) /\ arrived' = arrived + Sum(lens)
  BY DEF Arrive
<1>4. UNCHANGED <<shadow, shadowNext, remainder, delivered, linked, announced, held, before,
                result>> /\ live' = live \cup Bufs(c)
  BY DEF Arrive, fields
<1> HIDE DEF c
<1>5. arrived' \in 0 .. MaxBytes
  BY <1>1, <1>3, ReadAssumption, SMT
<1>6. rx' \in Seq(Seq(Segs)) /\ \A i \in DOMAIN rx' : SoundChain(rx'[i])
  <2>1. rx \in Seq(Seq(Segs)) /\ \A i \in DOMAIN rx : SoundChain(rx[i])
    BY DEF Ind
  <2>2. c \in Seq(Segs)
    BY <1>2 DEF SoundChain
  <2>3. rx' \in Seq(Seq(Segs)) /\ \A i \in DOMAIN rx' : rx'[i] = c
        \/ (i \in DOMAIN rx /\ rx'[i] = rx[i])
    BY <1>3, <2>1, <2>2, SMT
  <2> QED
    BY <1>2, <2>1, <2>3
<1>7. Given' = Given /\ Kept' = Kept
  BY <1>4 DEF Given, Kept
<1>8. NothingLost'
  <2>1. Covers(rx, Given + Kept, arrived)
    BY DEF Ind, NothingLost
  <2>2. rx \in Seq(Seq(Segs)) /\ c \in Seq(Segs)
    BY <1>2 DEF Ind, SoundChain
  <2>3. Covers(Append(rx, c), Given + Kept, End(c))
    BY <1>2, <2>1, <2>2, CoversAppend
  <2> QED
    BY <1>2, <1>3, <1>7, <2>3 DEF NothingLost
<1>9. Rest(shadow', shadowNext', remainder', delivered', linked', Given')
  BY <1>4, <1>7 DEF Ind
<1>10. LengthsExact' /\ announced' \in BOOLEAN /\ held' \in BOOLEAN /\ before' \in 0 .. MaxBytes
       /\ result' \in Results /\ ContiguousFrom(before', result'.chain)
  BY <1>4 DEF Ind, LengthsExact
<1>11. live' \subseteq 0 .. MaxBytes
  <2>1. c \in Seq(Segs)
    BY <1>2 DEF SoundChain
  <2> HIDE DEF c
  <2>2. ASSUME NEW i \in DOMAIN c PROVE c[i].buf \in 0 .. MaxBytes
    <3>1. c[i] \in Segs
      BY <2>1, SMT
    <3> QED
      BY <3>1, Zenon DEF Segs
  <2> QED
    BY <1>4, <2>2 DEF Bufs, Ind
<1> QED
  BY <1>5, <1>6, <1>8, <1>9, <1>10, <1>11 DEF Ind

(* A read of a whole chain keeps the invariant.                              *)
LEMMA ReceiveAllInd ==
  ASSUME Ind, ReceiveAll
  PROVE  Ind'
<1> DEFINE c == rx[1]
<1>1. SoundChain(c) /\ c \in Seq(Segs) /\ c # << >> /\ c[1].at = Given + Kept
      /\ Covers(Tail(rx), End(c), arrived)
  BY RingHead DEF ReceiveAll
<1>2. Kept = 0 /\ Given \in Nat
  BY GivenAndKept, SMT DEF ReceiveAll
<1>3. c[1].at = Given
  BY <1>1, <1>2, SMT
<1>4. ContiguousFrom(Given, c)
  BY <1>1, <1>3 DEF SoundChain
<1>5. Give(c, Total(c), c[1].len, 0) /\ rx' = Tail(rx) /\ rx # << >> /\ announced' = FALSE
      /\ arrived' = arrived
  BY DEF ReceiveAll
<1>6. UNCHANGED <<shadow, shadowNext, remainder, delivered, linked>> /\ shadow = << >>
  BY DEF ReceiveAll, fields
<1>7. Total(c) \in Nat
  BY <1>1, LensType
<1> HIDE DEF c
<1>8. Rest(shadow', shadowNext', remainder', delivered', linked', Given + Total(c))
  BY <1>6 DEF Ind, Rest
<1>9. Given + Total(c) + Kept' = End(c)
  <2>1. Kept' = 0
    BY <1>6 DEF Kept
  <2>2. End(c) = Given + Total(c)
    BY <1>3 DEF End
  <2> QED
    BY <1>2, <1>7, <2>1, <2>2, SMT
<1>10. Covers(rx', Given + Total(c) + Kept', arrived)
  BY <1>1, <1>5, <1>9
<1>11. 0 \in Limits \cup {0} /\ ~ (0 > 0) /\ announced' \in BOOLEAN
  <2>1. ~ (0 > 0)
    BY SMT
  <2> QED
    BY <1>5, <2>1
<1> QED
  BY <1>1, <1>4, <1>5, <1>8, <1>10, <1>11, ReadStep

(* service_get_from_shadow leaves a descriptor without a shadow.             *)
LEMMA FieldsClear ==
  ASSUME Ind
  PROVE  Clear(Unshadowed) /\ (shadow = << >> => Clear(Fields))
<1>1. shadowNext = << >> /\ linked = FALSE /\ remainder \in 0 .. MaxSegLen
      /\ delivered \in 0 .. MaxSegLen
  BY DEF Ind, Rest
<1> DEFINE F == Fields
           U == Unshadowed
<1>2. F.shadow = shadow /\ F.next = shadowNext /\ F.rem = remainder /\ F.del = delivered
      /\ F.linked = linked
  BY SMT DEF Fields
<1>3. U.shadow = << >> /\ U.next = << >> /\ U.rem = remainder /\ U.del = delivered
      /\ U.linked = FALSE
  BY SMT DEF Fields, Unshadowed
<1> QED
  BY <1>1, <1>2, <1>3 DEF Clear

(* service_get_from_shadow: the shadow starts with the first byte not given, *)
(* and holds what is kept.                                                   *)
LEMMA ShadowSegment ==
  ASSUME Ind, shadow # << >>
  PROVE  \E w \in Segs : /\ FromShadow = <<w>> /\ w.at = Given /\ w.len = remainder
                         /\ w.len > 0 /\ MaxSegs = 1 /\ Kept = w.len
<1>1. shadowNext = << >> /\ MaxSegs = 1 /\ remainder > 0 /\ shadow[1].at + delivered = Given
      /\ remainder \in 0 .. MaxSegLen
  BY DEF Ind, Rest
<1> DEFINE w == [shadow[1] EXCEPT !.at = @ + delivered, !.len = remainder]
<1>2. FromShadow = <<w>> \o << >>
  BY <1>1 DEF FromShadow
<1>6. shadow[1] \in Segs
  BY SMT DEF Ind, Rest
<1>7. shadow[1].at + delivered \in 0 .. MaxBytes
  BY <1>1, GivenAndKept, SMT
<1>3. w \in Segs
  BY <1>1, <1>6, <1>7, Zenon DEF Segs
<1>4. w.at = Given /\ w.len = remainder
  BY <1>1, <1>6, SMT DEF Segs
<1> HIDE DEF w
<1>5. <<w>> \o << >> = <<w>>
  BY SMT
<1> QED
  BY <1>1, <1>2, <1>3, <1>4, <1>5, GivenAndKept

(* A limited read of a chain from the ring keeps the invariant.              *)
LEMMA ReceiveLimitedInd ==
  ASSUME Ind, SingleOrUnlimited, NEW limit \in Limits, ReceiveLimited(limit)
  PROVE  Ind'
<1> DEFINE s == rx[1][1]
           one == TryRead(rx[1], limit, Fields)
<1>1. limit \in Nat \ {0} /\ MaxSegs = 1 /\ limit \in Limits \cup {0}
  BY ReadAssumption, SMT DEF SingleOrUnlimited, ReceiveLimited
<1>2. shadow = << >> /\ rx # << >> /\ rx' = Tail(rx) /\ arrived' = arrived
      /\ announced' \in BOOLEAN
  BY DEF ReceiveLimited, Announce
<1>3. SetFields(one.fields) /\ Give(one.chain, one.total, one.first, limit)
  BY DEF ReceiveLimited
<1>4. SoundChain(rx[1]) /\ s \in Segs /\ s.at = Given + Kept
      /\ Covers(Tail(rx), End(rx[1]), arrived)
  BY <1>2, RingHead
<1>5. rx[1] = <<s>> /\ End(rx[1]) = s.at + s.len /\ s.len \in Nat /\ s.at \in Nat
  BY <1>1, <1>4, OneSegment
<1>6. s.len > 0
  BY <1>4 DEF SoundChain
<1>7. Took(one, s, limit, Fields)
  <2>1. Took(TryRead(<<s>>, limit, Fields), s, limit, Fields)
    BY <1>1, <1>4, TryReadOne
  <2> QED
    BY <1>5, <2>1
<1>8. Clear(Fields)
  BY <1>2, FieldsClear
<1>9. Given \in Nat /\ s.at = Given
  BY <1>2, <1>4, GivenAndKept, SMT
<1> HIDE DEF one, s
<1>10. PICK u \in Segs : Reads(one, s, limit, Fields, u)
  BY <1>1, <1>3, <1>4, <1>6, <1>7, <1>8, SegmentRead
<1> DEFINE c == <<u>>
<1>11. u.len \in Nat /\ Kept' \in Nat /\ u.len + Kept' = s.len /\ u.at = s.at /\ u.len <= limit
  <2>1. u.len \in Nat
    BY SMT DEF Segs
  <2> QED
    BY <1>10, <2>1 DEF Reads
<1>12. c \in Seq(Segs) /\ c # << >> /\ c[1] = u
  BY SMT
<1>13. Total(c) = u.len
  BY <1>11, TotalShort
<1>14. ContiguousFrom(Given, c)
  <2>1. u.at = Given /\ u.at + 0 = u.at
    BY <1>9, <1>11, SMT
  <2>2. ContiguousFrom(u.at, <<u>>)
    BY <2>1, ContiguousShort
  <2> QED
    BY <2>1, <2>2
<1>15. Give(c, u.len, u.len, limit)
  BY <1>3, <1>10 DEF Reads
<1> HIDE DEF c
<1>16. Rest(shadow', shadowNext', remainder', delivered', linked', Given + Total(c))
  BY <1>9, <1>10, <1>13 DEF Reads
<1>17. Given + Total(c) + Kept' = End(rx[1])
  BY <1>5, <1>9, <1>11, <1>13, SMT
<1>18. Covers(rx', Given + Total(c) + Kept', arrived)
  BY <1>2, <1>4, <1>17
<1> QED
  BY <1>1, <1>2, <1>11, <1>12, <1>13, <1>14, <1>15, <1>16, <1>18, ReadStep

(* A chain of two segments, joined from two of one.                          *)
LEMMA JoinOne ==
  ASSUME NEW w, NEW u
  PROVE  <<w>> \o <<u>> = <<w, u>>
<1>1. <<w>> \o <<u>> = Append(<<w>>, u)
  BY SMT
<1>2. Append(<<w>>, u) = <<w, u>>
  <2> DEFINE S == {w, u}
             a == <<w>>
             c == <<w, u>>
             d == Append(a, u)
  <2> w \in S /\ u \in S
    OBVIOUS
  <2> HIDE DEF S
  <2>0. a \in Seq(S)
    BY SMT
  <2>1. Len(a) = 1 /\ a[1] = w
    BY SMT
  <2> HIDE DEF a
  <2>2. d \in Seq(S) /\ Len(d) = 2 /\ d[1] = w /\ d[2] = u
    <3>1. d \in Seq(S) /\ Len(d) = Len(a) + 1
      BY <2>0, SMT
    <3>2. d[Len(a) + 1] = u
      BY <2>0, SMT
    <3>3. \A i \in 1 .. Len(a) : d[i] = a[i]
      BY <2>0, SMT
    <3> HIDE DEF d
    <3> QED
      BY <2>1, <3>1, <3>2, <3>3, SMT
  <2>3. c \in Seq(S) /\ Len(c) = 2 /\ c[1] = w /\ c[2] = u
    BY SMT
  <2> HIDE DEF c, d
  <2>4. d = c
    BY <2>2, <2>3, SMT
  <2> QED
    BY <2>4 DEF a, c, d
<1> QED
  BY <1>1, <1>2

(* A limited read that the shadow satisfies, or that finds the ring empty,   *)
(* keeps the invariant.                                                      *)
LEMMA ShadowLimitedShort ==
  ASSUME Ind, NEW limit \in Limits, limit > 0, shadow # << >>, NEW one,
         one = TryRead(FromShadow, limit, Unshadowed), SetFields(one.fields), NEW total,
         total = IF one.total > 0 /\ one.total < limit THEN one.total ELSE limit,
         Give(one.chain, total, one.first, limit),
         rx' = rx, arrived' = arrived, announced' \in BOOLEAN
  PROVE  Ind'
<1>1. PICK w \in Segs : /\ FromShadow = <<w>> /\ w.at = Given /\ w.len = remainder
                        /\ w.len > 0 /\ MaxSegs = 1 /\ Kept = w.len
  BY ShadowSegment
<1>2. limit \in Nat \ {0} /\ limit \in Limits \cup {0}
  BY ReadAssumption, SMT
<1>3. Took(one, w, limit, Unshadowed)
  <2>1. Took(TryRead(<<w>>, limit, Unshadowed), w, limit, Unshadowed)
    BY <1>1, <1>2, TryReadOne
  <2> QED
    BY <1>1, <2>1
<1>4. Clear(Unshadowed)
  BY FieldsClear
<1>5. PICK u \in Segs : Reads(one, w, limit, Unshadowed, u)
  BY <1>1, <1>2, <1>3, <1>4, SegmentRead
<1> DEFINE c == <<u>>
<1>6. u.len \in Nat /\ Kept' \in Nat /\ u.len + Kept' = Kept /\ u.at = Given /\ u.len <= limit
      /\ u.len > 0 /\ one.total = u.len
  <2>1. u.len \in Nat
    BY SMT DEF Segs
  <2> QED
    BY <1>1, <1>5, <2>1 DEF Reads
<1>7. c \in Seq(Segs) /\ c # << >> /\ c[1] = u
  BY SMT
<1>8. Total(c) = u.len
  BY <1>6, TotalShort
<1>9. Given \in Nat /\ Kept \in Nat
  BY GivenAndKept, SMT
<1>10. ContiguousFrom(Given, c)
  <2>1. u.at + 0 = u.at
    BY <1>6, <1>9, SMT
  <2>2. ContiguousFrom(u.at, <<u>>)
    BY <2>1, ContiguousShort
  <2> QED
    BY <1>6, <2>2
<1>11. total = u.len
  BY <1>2, <1>6, SMT
<1>12. Give(c, u.len, u.len, limit)
  BY <1>5, <1>11 DEF Reads
<1> HIDE DEF c
<1>13. Rest(shadow', shadowNext', remainder', delivered', linked', Given + Total(c))
  BY <1>1, <1>5, <1>8 DEF Reads
<1>14. Given + Total(c) + Kept' = Given + Kept
  BY <1>6, <1>8, <1>9, SMT
<1>15. Covers(rx', Given + Total(c) + Kept', arrived)
  BY <1>14 DEF Ind, NothingLost
<1> QED
  BY <1>2, <1>6, <1>7, <1>8, <1>10, <1>12, <1>13, <1>15, ReadStep

(* A limited read that takes the shadow and goes on with the ring keeps the  *)
(* invariant: the chain from the ring is read with what the shadow left of   *)
(* the limit.                                                                *)
LEMMA ShadowLimitedMore ==
  ASSUME Ind, NEW limit \in Limits, limit > 0, shadow # << >>, rx # << >>, NEW one,
         one = TryRead(FromShadow, limit, Unshadowed), one.total > 0, one.total < limit, NEW two,
         two = TryRead(rx[1], limit - one.total, one.fields), SetFields(two.fields),
         Give(one.chain \o two.chain, one.total + two.total, one.first, limit),
         rx' = Tail(rx), arrived' = arrived, announced' \in BOOLEAN
  PROVE  Ind'
<1> DEFINE s == rx[1][1]
<1>1. PICK w \in Segs : /\ FromShadow = <<w>> /\ w.at = Given /\ w.len = remainder
                        /\ w.len > 0 /\ MaxSegs = 1 /\ Kept = w.len
  BY ShadowSegment
<1>2. limit \in Nat \ {0} /\ limit \in Limits \cup {0}
  BY ReadAssumption, SMT
<1>3. Took(one, w, limit, Unshadowed)
  <2>1. Took(TryRead(<<w>>, limit, Unshadowed), w, limit, Unshadowed)
    BY <1>1, <1>2, TryReadOne
  <2> QED
    BY <1>1, <2>1
<1>4. w.len \in Nat
  BY SMT DEF Segs
<1>5. one.chain = <<w>> /\ one.total = w.len /\ one.first = w.len /\ one.fields = Unshadowed
  <2>1. one.total # limit
    BY <1>2, SMT
  <2> QED
    BY <1>3, <2>1 DEF Took
<1> DEFINE left == limit - w.len
<1>6. left \in Nat \ {0} /\ left = limit - one.total
  BY <1>2, <1>4, <1>5, SMT
<1>7. SoundChain(rx[1]) /\ s \in Segs /\ s.at = Given + Kept
      /\ Covers(Tail(rx), End(rx[1]), arrived)
  BY RingHead
<1>8. rx[1] = <<s>> /\ End(rx[1]) = s.at + s.len /\ s.len \in Nat /\ s.at \in Nat
  BY <1>1, <1>7, OneSegment
<1>9. s.len > 0
  BY <1>7 DEF SoundChain
<1> HIDE DEF left, s
<1>10. Took(two, s, left, Unshadowed)
  <2>1. Took(TryRead(<<s>>, left, Unshadowed), s, left, Unshadowed)
    BY <1>6, <1>7, TryReadOne
  <2> QED
    BY <1>5, <1>6, <1>8, <2>1
<1>11. PICK u \in Segs : Reads(two, s, left, Unshadowed, u)
  <2>1. Clear(Unshadowed)
    BY FieldsClear
  <2> QED
    BY <1>1, <1>6, <1>7, <1>9, <1>10, <2>1, SegmentRead
<1>12. u.len \in Nat /\ Kept' \in Nat /\ u.len + Kept' = s.len /\ u.at = s.at /\ u.len <= left
  <2>1. u.len \in Nat
    BY SMT DEF Segs
  <2> QED
    BY <1>11, <2>1 DEF Reads
<1> DEFINE c == <<w, u>>
<1>13. c \in Seq(Segs) /\ c # << >> /\ c[1] = w
  BY SMT
<1>14. Total(c) = w.len + u.len
  BY <1>4, <1>12, TotalShort
<1>15. Given \in Nat
  BY GivenAndKept, SMT
<1>16. ContiguousFrom(Given, c)
  <2>1. w.at + 0 = w.at /\ u.at = w.at + w.len
    BY <1>1, <1>7, <1>12, <1>15, SMT
  <2>2. ContiguousFrom(w.at, <<w, u>>)
    BY <1>4, <2>1, ContiguousShort
  <2> QED
    BY <1>1, <2>2
<1>17. Give(c, w.len + u.len, w.len, limit)
  <2>1. <<w>> \o <<u>> = <<w, u>>
    BY JoinOne
  <2> QED
    BY <1>5, <1>11, <2>1 DEF Reads
<1>18. w.len + u.len <= limit
  BY <1>2, <1>4, <1>12, SMT DEF left
<1> HIDE DEF c
<1>19. s.at + u.len = Given + Total(c) /\ Given + Total(c) + Kept' = End(rx[1])
  <2>1. s.at = Given + w.len /\ End(rx[1]) = s.at + s.len
    BY <1>1, <1>7, <1>8
  <2>2. u.len \in Nat /\ Kept' \in Nat /\ u.len + Kept' = s.len
    BY <1>12
  <2> QED
    BY <1>4, <1>14, <1>15, <2>1, <2>2, SMT
<1>20. Rest(shadow', shadowNext', remainder', delivered', linked', Given + Total(c))
  BY <1>11, <1>19 DEF Reads
<1>21. Covers(rx', Given + Total(c) + Kept', arrived)
  BY <1>7, <1>19
<1> QED
  BY <1>2, <1>13, <1>14, <1>16, <1>17, <1>18, <1>20, <1>21, ReadStep

(* A limited read with a shadow keeps the invariant.                         *)
LEMMA ReceiveShadowLimitedInd ==
  ASSUME Ind, NEW limit \in Limits, ReceiveShadowLimited(limit)
  PROVE  Ind'
<1> DEFINE one == TryRead(FromShadow, limit, Unshadowed)
           two == TryRead(rx[1], limit - one.total, one.fields)
           wants == one.total > 0 /\ one.total < limit
           total == IF wants THEN one.total ELSE limit
<1>1. shadow # << >> /\ limit > 0 /\ announced' \in BOOLEAN /\ arrived' = arrived
  BY DEF ReceiveShadowLimited, Announce
<1>2. \/ /\ wants /\ rx # << >> /\ SetFields(two.fields)
         /\ Give(one.chain \o two.chain, one.total + two.total, one.first, limit)
         /\ rx' = Tail(rx)
      \/ SetFields(one.fields) /\ Give(one.chain, total, one.first, limit) /\ rx' = rx
  BY DEF ReceiveShadowLimited
<1>3. CASE /\ wants /\ rx # << >> /\ SetFields(two.fields)
           /\ Give(one.chain \o two.chain, one.total + two.total, one.first, limit)
           /\ rx' = Tail(rx)
  BY <1>1, <1>3, ShadowLimitedMore
<1>4. CASE SetFields(one.fields) /\ Give(one.chain, total, one.first, limit) /\ rx' = rx
  BY <1>1, <1>4, ShadowLimitedShort
<1> QED
  BY <1>2, <1>3, <1>4

(* A read of the shadow and a whole chain keeps the invariant.               *)
LEMMA ReceiveShadowAllInd ==
  ASSUME Ind, ReceiveShadowAll
  PROVE  Ind'
<1> DEFINE more == IF rx = << >> THEN << >> ELSE rx[1]
<1>1. shadow # << >> /\ SetFields(Unshadowed) /\ announced' = FALSE /\ arrived' = arrived
      /\ rx' = IF rx = << >> THEN rx ELSE Tail(rx)
  BY DEF ReceiveShadowAll
<1>2. PICK w \in Segs : /\ FromShadow = <<w>> /\ w.at = Given /\ w.len = remainder
                        /\ w.len > 0 /\ MaxSegs = 1 /\ Kept = w.len
  BY <1>1, ShadowSegment
<1>3. w.len \in Nat
  BY SMT DEF Segs
<1>4. Give(<<w>> \o more, w.len + Total(more), w.len, 0)
  <2>1. ShadowPktLen = {remainder}
    BY DEF ShadowPktLen, Ind, Rest
  <2>2. PICK len \in ShadowPktLen : Give(FromShadow \o more, len + Total(more), remainder, 0)
    BY DEF ReceiveShadowAll
  <2>3. len = w.len
    BY <1>2, <2>1
  <2> QED
    BY <1>2, <2>2, <2>3
<1>5. shadow' = << >> /\ shadowNext' = << >> /\ linked' = FALSE
      /\ remainder' \in 0 .. MaxSegLen /\ delivered' \in 0 .. MaxSegLen
  BY <1>1, FieldsClear DEF SetFields, Clear
<1>6. Kept' = 0
  BY <1>5 DEF Kept
<1>7. ASSUME NEW g PROVE Rest(shadow', shadowNext', remainder', delivered', linked', g)
  <2>1. << >> \in Seq(Segs) /\ Len(<< >>) <= 1
    BY SMT
  <2> QED
    BY <1>5, <2>1 DEF Rest
<1>8. Given \in Nat /\ w.at + 0 = w.at
  BY <1>2, GivenAndKept, SMT
<1>9. 0 \in Limits \cup {0} /\ ~ (0 > 0) /\ announced' \in BOOLEAN
  <2>1. ~ (0 > 0)
    BY SMT
  <2> QED
    BY <1>1, <2>1
<1>10. CASE rx = << >>
  <2> DEFINE c == <<w>>
  <2>1. c \in Seq(Segs) /\ c # << >> /\ c[1] = w /\ c \o << >> = c
    BY SMT
  <2>2. Total(c) = w.len /\ Total(<< >>) = 0
    BY <1>3, TotalShort
  <2>3. Give(c, w.len, w.len, 0)
    <3>1. w.len + 0 = w.len
      BY <1>3, SMT
    <3> QED
      BY <1>4, <1>10, <2>1, <2>2, <3>1
  <2>4. ContiguousFrom(Given, c)
    BY <1>2, <1>8, ContiguousShort
  <2> HIDE DEF c
  <2>5. Given + Total(c) + Kept' = Given + Kept
    BY <1>2, <1>3, <1>6, <1>8, <2>2, SMT
  <2>6. Covers(rx', Given + Total(c) + Kept', arrived)
    BY <1>1, <1>10, <2>5 DEF Ind, NothingLost
  <2>7. rx' = rx
    BY <1>1, <1>10
  <2> QED
    BY <1>1, <1>7, <1>9, <2>1, <2>2, <2>3, <2>4, <2>6, <2>7, ReadStep
<1>11. CASE rx # << >>
  <2> DEFINE s == rx[1][1]
             c == <<w, s>>
  <2>1. SoundChain(rx[1]) /\ s \in Segs /\ s.at = Given + Kept
        /\ Covers(Tail(rx), End(rx[1]), arrived)
    BY <1>11, RingHead
  <2>2. rx[1] = <<s>> /\ End(rx[1]) = s.at + s.len /\ s.len \in Nat /\ Total(rx[1]) = s.len
    BY <1>2, <2>1, OneSegment
  <2> HIDE DEF s
  <2>3. c \in Seq(Segs) /\ c # << >> /\ c[1] = w /\ <<w>> \o <<s>> = c
    <3>1. c \in Seq(Segs) /\ c # << >> /\ c[1] = w
      BY <2>1, SMT
    <3> QED
      BY <3>1, JoinOne
  <2>4. Total(c) = w.len + s.len
    BY <1>3, <2>2, TotalShort
  <2>5. Give(c, w.len + s.len, w.len, 0)
    BY <1>4, <1>11, <2>2, <2>3
  <2>6. ContiguousFrom(Given, c)
    <3>1. s.at = w.at + w.len
      BY <1>2, <2>1
    <3>2. ContiguousFrom(w.at, <<w, s>>)
      BY <1>3, <1>8, <3>1, ContiguousShort
    <3> QED
      BY <1>2, <3>2
  <2> HIDE DEF c
  <2>7. Given + Total(c) + Kept' = End(rx[1])
    BY <1>2, <1>3, <1>6, <1>8, <2>1, <2>2, <2>4, SMT
  <2>8. rx' = Tail(rx)
    BY <1>1, <1>11
  <2>9. Covers(rx', Given + Total(c) + Kept', arrived)
    BY <2>1, <2>7, <2>8
  <2> QED
    BY <1>1, <1>7, <1>9, <1>11, <2>3, <2>4, <2>5, <2>6, <2>8, <2>9, ReadStep
<1> QED
  BY <1>10, <1>11

(* Every step keeps the invariant.                                           *)
LEMMA NextInd ==
  ASSUME SingleOrUnlimited, Ind, [Next]_vars
  PROVE  Ind'
<1>1. ASSUME NEW lens \in SegLens, Arrive(lens) PROVE Ind'
  BY <1>1, ArriveInd
<1>2. ASSUME NEW limit \in Limits, ReceiveShadowLimited(limit) PROVE Ind'
  BY <1>2, ReceiveShadowLimitedInd
<1>3. ASSUME NEW limit \in Limits, ReceiveLimited(limit) PROVE Ind'
  BY <1>3, ReceiveLimitedInd
<1>4. CASE ReceiveShadowAll
  BY <1>4, ReceiveShadowAllInd
<1>5. CASE ReceiveAll
  BY <1>5, ReceiveAllInd
<1>6. CASE Release \/ UNCHANGED vars
  <2>1. /\ UNCHANGED <<rx, arrived, shadow, shadowNext, remainder, delivered, linked, announced,
                       before, result>>
        /\ held' \in {held, FALSE} /\ live' \subseteq live
    BY <1>6 DEF Release, vars, fields
  <2>2. Given' = Given /\ Kept' = Kept
    BY <2>1 DEF Given, Kept
  <2>3. held' \in BOOLEAN /\ live' \subseteq 0 .. MaxBytes
    BY <2>1 DEF Ind
  <2> QED
    BY <2>1, <2>2, <2>3 DEF Ind, LengthsExact, NothingLost
<1> QED
  BY <1>1, <1>2, <1>3, <1>4, <1>5, <1>6 DEF Next, Receive

(* The inductive invariant holds whenever segments come one to a chain or    *)
(* reads have no limit.                                                      *)
THEOREM ReadInvariant == SingleOrUnlimited => (Spec => []Ind)
<1> SUFFICES ASSUME SingleOrUnlimited PROVE Spec => []Ind
  OBVIOUS
<1>1. Init => Ind
  BY InitInd
<1>2. Ind /\ [Next]_vars => Ind'
  BY NextInd
<1> QED
  BY <1>1, <1>2, PTL DEF Spec

(* service_receive gives the application the stream: whatever the sizes of   *)
(* the segments and the order of the limits, each call starts with the byte  *)
(* after the last one given and leaves none out.                             *)
THEOREM StreamIsContiguous == SingleOrUnlimited => (Spec => []ReadsContiguous)
<1>1. Ind => ReadsContiguous
  <2> SUFFICES ASSUME Ind PROVE ReadsContiguous
    OBVIOUS
  <2>1. TypeOK
    <3>1. rx \in Seq(Seq(Segs)) /\ arrived \in 0 .. MaxBytes /\ announced \in BOOLEAN
          /\ held \in BOOLEAN /\ live \subseteq 0 .. MaxBytes
          /\ before \in 0 .. MaxBytes /\ result \in Results
      BY DEF Ind
    <3>2. shadow \in Seq(Segs) /\ Len(shadow) <= 1 /\ shadowNext = << >> /\ linked = FALSE
          /\ remainder \in 0 .. MaxSegLen /\ delivered \in 0 .. MaxSegLen
      BY DEF Ind, Rest
    <3>3. << >> \in Seq(Segs)
      BY SMT
    <3> QED
      BY <3>1, <3>2, <3>3 DEF TypeOK, Results
  <2> QED
    BY <2>1 DEF Ind, ReadsContiguous
<1> QED
  BY <1>1, ReadInvariant, PTL

(* service_receive and the ring lose nothing: what was given, what the       *)
(* shadow keeps and what the ring holds follow one another up to the last    *)
(* byte that arrived.                                                        *)
THEOREM StreamIsComplete == SingleOrUnlimited => (Spec => []NothingLost)
<1>1. Ind => NothingLost
  BY DEF Ind
<1> QED
  BY <1>1, ReadInvariant, PTL

(* The lengths service_receive returns are those of the chain it returns,    *)
(* and no more than was asked for.                                           *)
THEOREM LengthsAreExact == SingleOrUnlimited => (Spec => []LengthsExact)
<1>1. Ind => LengthsExact
  BY DEF Ind
<1> QED
  BY <1>1, ReadInvariant, PTL
----------------------------------------------------------------------------
(* Who has which buffer, for chains of any length and any limits.           *)

Record(s) == s = [at |-> s.at, len |-> s.len, buf |-> s.buf]

(* A sequence of segments, each in a buffer of its own.                      *)
Proper(c) ==
  /\ \E S : c \in Seq(S)
  /\ \A i \in 1 .. Len(c) : Record(c[i])
  /\ \A i, j \in 1 .. Len(c) : c[i].buf = c[j].buf => i = j

(* The segments of a proper chain are counted from 1.                        *)
LEMMA ProperDomain ==
  ASSUME NEW c, Proper(c)
  PROVE  Len(c) \in Nat /\ DOMAIN c = 1 .. Len(c) /\ Bufs(c) = {c[i].buf : i \in 1 .. Len(c)}
<1>1. PICK S : c \in Seq(S)
  BY DEF Proper
<1>2. Len(c) \in Nat /\ DOMAIN c = 1 .. Len(c)
  BY <1>1, SMT
<1> QED
  BY <1>2 DEF Bufs

(* The empty chain.                                                          *)
LEMMA ProperNone == Proper(<< >>) /\ Bufs(<< >>) = {} /\ Len(<< >>) = 0
<1>1. << >> \in Seq({}) /\ Len(<< >>) = 0 /\ 1 .. 0 = {} /\ DOMAIN << >> = 1 .. 0
  BY SMT
<1> QED
  BY <1>1 DEF Proper, Bufs

(* A chain of one segment.                                                   *)
LEMMA ProperOne ==
  ASSUME NEW s, Record(s)
  PROVE  Proper(<<s>>) /\ Bufs(<<s>>) = {s.buf} /\ Len(<<s>>) = 1
<1>1. <<s>> \in Seq({s}) /\ Len(<<s>>) = 1 /\ 1 .. 1 = {1} /\ DOMAIN <<s>> = 1 .. 1 /\ <<s>>[1] = s
  BY SMT
<1> QED
  BY <1>1 DEF Proper, Bufs

(* The buffers of the segments in D.                                         *)
Img(c, D) == {c[i].buf : i \in D}

(* p is the segments m to n of a chain.                                      *)
Part(p, c, m, n) ==
  /\ Proper(p) /\ Len(p) = (IF m <= n THEN n - m + 1 ELSE 0)
  /\ \A i \in 1 .. Len(p) : p[i] = c[i + m - 1]
  /\ Bufs(p) = Img(c, m .. n)

(* Different segments of a proper chain are in different buffers.            *)
LEMMA PartsDiffer ==
  ASSUME NEW c, Proper(c), NEW A, A \subseteq 1 .. Len(c), NEW B, B \subseteq 1 .. Len(c),
         A \cap B = {}
  PROVE  Img(c, A) \cap Img(c, B) = {}
<1>1. \A i \in A, j \in B : c[i].buf # c[j].buf
  BY DEF Proper
<1> QED
  BY <1>1 DEF Img

(* Any part of a proper chain is one.                                        *)
LEMMA ProperPart ==
  ASSUME NEW c, Proper(c), NEW m \in Nat \ {0}, NEW n \in Nat, n <= Len(c)
  PROVE  Part(SubSeq(c, m, n), c, m, n)
<1> DEFINE p == SubSeq(c, m, n)
<1>1. PICK S : c \in Seq(S)
  BY DEF Proper
<1>2. p \in Seq(S) /\ Len(p) = (IF m <= n THEN n - m + 1 ELSE 0)
      /\ \A i \in 1 .. Len(p) : p[i] = c[i + m - 1]
  <2>1. p \in Seq(S)
    BY <1>1, SMT
  <2>2. Len(p) = (IF m <= n THEN n - m + 1 ELSE 0)
    BY <1>1, SMT
  <2>3. \A i \in 1 .. Len(p) : p[i] = c[i + m - 1]
    BY <1>1, SMT
  <2> QED
    BY <2>1, <2>2, <2>3
<1> HIDE DEF p
<1>3. Len(p) \in Nat /\ Len(c) \in Nat
  BY <1>1, <1>2, SMT
<1>4. ASSUME NEW i \in 1 .. Len(p) PROVE i + m - 1 \in m .. n /\ i + m - 1 \in 1 .. Len(c)
  BY <1>2, <1>3, <1>4, SMT
<1>5. \A i, j \in 1 .. Len(p) : i + m - 1 = j + m - 1 => i = j
  BY <1>3, SMT
<1>6. Proper(p)
  BY <1>2, <1>4, <1>5, Zenon DEF Proper
<1>7. ASSUME NEW i \in m .. n PROVE i - m + 1 \in 1 .. Len(p) /\ (i - m + 1) + m - 1 = i
  BY <1>2, <1>3, <1>7, SMT
<1>8. Bufs(p) = {c[i].buf : i \in m .. n}
  <2>1. Bufs(p) = {p[i].buf : i \in 1 .. Len(p)}
    BY <1>6, ProperDomain
  <2>2. ASSUME NEW b \in Bufs(p) PROVE b \in {c[i].buf : i \in m .. n}
    BY <1>2, <1>4, <2>1, <2>2, Zenon
  <2>3. ASSUME NEW i \in m .. n PROVE c[i].buf \in Bufs(p)
    <3>1. PICK k \in 1 .. Len(p) : k + m - 1 = i
      BY <1>7, Zenon
    <3>2. p[k] = c[i]
      BY <1>2, <3>1, Zenon
    <3> QED
      BY <2>1, <3>1, <3>2, Zenon
  <2> QED
    BY <2>2, <2>3
<1> QED
  BY <1>2, <1>6, <1>8 DEF p, Part, Img

(* c is a chain that starts with a and ends with b.                          *)
Joined(c, a, b) ==
  /\ Proper(c) /\ Bufs(c) = Bufs(a) \cup Bufs(b) /\ Len(c) = Len(a) + Len(b)
  /\ \A i \in 1 .. Len(a) : c[i] = a[i]
  /\ \A i \in 1 .. Len(b) : c[i + Len(a)] = b[i]

(* Two proper chains that share no buffer, one after the other.              *)
LEMMA ProperJoin ==
  ASSUME NEW a, Proper(a), NEW b, Proper(b), Bufs(a) \cap Bufs(b) = {}
  PROVE  Joined(a \o b, a, b)
<1> DEFINE c == a \o b
           n == Len(a)
<1>1. PICK S : a \in Seq(S)
  BY DEF Proper
<1>2. PICK T : b \in Seq(T)
  BY DEF Proper
<1> DEFINE U == S \cup T
<1>3. a \in Seq(U) /\ b \in Seq(U)
  BY <1>1, <1>2, SMT
<1> HIDE DEF U
<1>4. n \in Nat /\ Len(b) \in Nat
  BY <1>3, SMT
<1>5. c \in Seq(U) /\ Len(c) = n + Len(b)
  BY <1>3, SMT
<1>6. \A i \in 1 .. n : c[i] = a[i]
  BY <1>3, SMT
<1>7. \A i \in 1 .. Len(b) : c[i + n] = b[i]
  BY <1>3, SMT
<1> HIDE DEF c, n
<1>8. ASSUME NEW i \in 1 .. Len(c)
      PROVE  (i \in 1 .. n) \/ (i - n \in 1 .. Len(b) /\ (i - n) + n = i)
  BY <1>4, <1>5, <1>8, SMT
<1>9. \A i \in 1 .. n : i \in 1 .. Len(c)
  BY <1>4, <1>5, SMT
<1>10. \A i \in 1 .. Len(b) : i + n \in 1 .. Len(c)
  BY <1>4, <1>5, SMT
<1>11. Bufs(a) = {a[i].buf : i \in 1 .. n} /\ Bufs(b) = {b[i].buf : i \in 1 .. Len(b)}
  BY ProperDomain DEF n
<1>12. ASSUME NEW i \in 1 .. Len(c), i \in 1 .. n
       PROVE  c[i].buf \in Bufs(a) /\ Record(c[i])
  BY <1>6, <1>11, <1>12, Zenon DEF Proper, n
<1>13. ASSUME NEW i \in 1 .. Len(c), i - n \in 1 .. Len(b), (i - n) + n = i
       PROVE  c[i].buf \in Bufs(b) /\ Record(c[i]) /\ c[i] = b[i - n]
  BY <1>7, <1>11, <1>13, Zenon DEF Proper
<1>14. ASSUME NEW i \in 1 .. Len(c), NEW j \in 1 .. Len(c), c[i].buf = c[j].buf PROVE i = j
  <2>1. CASE i \in 1 .. n /\ j \in 1 .. n
    BY <1>6, <1>14, <2>1, Zenon DEF Proper, n
  <2>2. CASE i \notin 1 .. n /\ j \notin 1 .. n
    <3>1. i - n \in 1 .. Len(b) /\ (i - n) + n = i /\ j - n \in 1 .. Len(b) /\ (j - n) + n = j
      BY <1>8, <2>2
    <3>2. i - n = j - n
      BY <1>13, <1>14, <3>1, Zenon DEF Proper
    <3> QED
      BY <3>1, <3>2, Zenon
  <2>3. CASE i \in 1 .. n /\ j \notin 1 .. n
    BY <1>8, <1>12, <1>13, <1>14, <2>3, Zenon
  <2>4. CASE i \notin 1 .. n /\ j \in 1 .. n
    BY <1>8, <1>12, <1>13, <1>14, <2>4, Zenon
  <2> QED
    BY <2>1, <2>2, <2>3, <2>4
<1>15. Proper(c)
  BY <1>5, <1>8, <1>12, <1>13, <1>14, Zenon DEF Proper
<1>16. Bufs(c) = Bufs(a) \cup Bufs(b)
  <2>1. Bufs(c) = {c[i].buf : i \in 1 .. Len(c)}
    BY <1>15, ProperDomain
  <2>2. Bufs(c) \subseteq Bufs(a) \cup Bufs(b)
    BY <1>8, <1>12, <1>13, <2>1, Zenon
  <2>3. Bufs(a) \subseteq Bufs(c)
    BY <1>6, <1>9, <1>11, <2>1, Zenon
  <2>4. Bufs(b) \subseteq Bufs(c)
    BY <1>7, <1>10, <1>11, <2>1, Zenon
  <2> QED
    BY <2>2, <2>3, <2>4
<1> QED
  BY <1>5, <1>6, <1>7, <1>15, <1>16 DEF c, n, Joined

(* What service_try_read_exact_amount does to the buffers of a chain: each   *)
(* one is given or kept, and at most the last one given is the shadow.       *)
Shared(t, bufs) ==
  LET kept == t.fields.shadow
      next == t.fields.next
  IN  /\ Proper(t.chain) /\ Proper(kept) /\ Proper(next) /\ Len(kept) <= 1
      /\ kept = << >> => next = << >>
      /\ Bufs(t.chain) \cup Bufs(kept) \cup Bufs(next) = bufs
      /\ Bufs(kept) \cap Bufs(next) = {} /\ Bufs(t.chain) \cap Bufs(next) = {}
      /\ \A i \in 1 .. Len(t.chain) : t.chain[i].buf \in Bufs(kept) => i = Len(t.chain)

Divided(t, c, limit, f) ==
  Shared(t, Bufs(c)) /\ (t.total = limit \/ (t.chain = c /\ t.fields = f))

(* service_try_read_exact_amount divides the chain, and changes the          *)
(* descriptor only if it gives as much as was asked for.                     *)
LEMMA TryReadShares ==
  ASSUME NEW c, Proper(c), NEW limit, NEW f, f.shadow = << >>, f.next = << >>
  PROVE  Divided(TryRead(c, limit, f), c, limit, f)
<1> USE DEF Divided
<1> DEFINE t == TryRead(c, limit, f)
           n == Len(c)
<1>1. n \in Nat /\ DOMAIN c = 1 .. n /\ Bufs(c) = {c[i].buf : i \in 1 .. n}
  BY ProperDomain
<1>2. CASE Cut(c, limit) = {}
  <2>1. t = [chain |-> c, total |-> Total(c), first |-> c[1].len, fields |-> f]
    BY <1>2 DEF TryRead
  <2> HIDE DEF t
  <2>2. t.chain = c /\ t.fields = f
    BY <2>1, SMT
  <2>3. 0 <= 1
    BY SMT
  <2> QED
    BY <2>2, <2>3, ProperNone DEF Shared, t
<1>3. CASE Cut(c, limit) # {}
  <2> DEFINE i == CHOOSE j \in Cut(c, limit) : TRUE
             more == Total(SubSeq(c, 1, i)) - limit
             part == c[i].len - more
             rest == SubSeq(c, i + 1, n)
             after == SubSeq(c, i + 2, n)
             short == [c[i] EXCEPT !.len = part]
  <2>1. i \in 1 .. n
    BY <1>1, <1>3 DEF Cut
  <2>2. t = IF more > 0
              THEN [chain |-> SubSeq(c, 1, i - 1) \o <<short>>, total |-> limit,
                    first |-> part,
                    fields |-> [shadow |-> <<short>>, next |-> rest, rem |-> more, del |-> part,
                               linked |-> FALSE]]
              ELSE [chain |-> SubSeq(c, 1, i), total |-> limit, first |-> c[1].len,
                    fields |-> IF rest = << >> THEN f
                               ELSE [shadow |-> <<rest[1]>>, next |-> after,
                                     rem |-> IF after = << >> THEN f.rem ELSE after[1].len,
                                     del |-> IF after = << >> THEN f.del ELSE 0,
                                     linked |-> after # << >>]]
    BY <1>3, Zenon DEF TryRead
  <2> HIDE DEF t, i, more, part
  <2> DEFINE front == SubSeq(c, 1, i - 1)
  <2>3. i \in Nat \ {0} /\ i - 1 \in Nat /\ i - 1 <= n /\ i <= n /\ n <= n /\ 1 \in Nat \ {0}
        /\ i + 1 \in Nat \ {0} /\ i + 2 \in Nat \ {0} /\ i \in Nat
    BY <1>1, <2>1, SMT
  <2>4. Part(front, c, 1, i - 1) /\ Part(rest, c, i + 1, n) /\ Part(after, c, i + 2, n)
    BY <1>1, <2>3, ProperPart, Zenon
  <2>5. Bufs(front) = Img(c, 1 .. i - 1) /\ Bufs(rest) = Img(c, i + 1 .. n)
        /\ Bufs(after) = Img(c, i + 2 .. n) /\ Bufs(c) = Img(c, 1 .. n)
    BY <1>1, <2>4 DEF Part, Img
  <2>6. Proper(front) /\ Proper(rest) /\ Proper(after)
    BY <2>4 DEF Part
  <2>7. Record(short) /\ short.buf = c[i].buf
    <3>1. c[i] = [at |-> c[i].at, len |-> c[i].len, buf |-> c[i].buf]
      BY <2>1 DEF Proper, Record
    <3>2. short = [at |-> c[i].at, len |-> part, buf |-> c[i].buf]
      BY <3>1, SMT
    <3> QED
      BY <3>2 DEF Record
  <2> HIDE DEF front, rest, after, short
  <2>8. CASE more > 0
    <3> DEFINE s == <<short>>
    <3>1. t.chain = front \o s /\ t.total = limit /\ t.fields.shadow = s /\ t.fields.next = rest
      BY <2>2, <2>8 DEF front
    <3>2. Proper(s) /\ Bufs(s) = Img(c, {i}) /\ Len(s) = 1
      BY <2>7, ProperOne DEF Img
    <3> HIDE DEF s
    <3>3. /\ 1 .. i - 1 \subseteq 1 .. n /\ {i} \subseteq 1 .. n /\ i + 1 .. n \subseteq 1 .. n
          /\ (1 .. i - 1) \cap {i} = {} /\ {i} \cap (i + 1 .. n) = {}
          /\ (1 .. i - 1) \cap (i + 1 .. n) = {}
          /\ (1 .. i - 1) \cup {i} \cup (i + 1 .. n) = 1 .. n
      BY <1>1, <2>1, SMT
    <3>4. Img(c, 1 .. i - 1) \cup Img(c, {i}) \cup Img(c, i + 1 .. n) = Img(c, 1 .. n)
      BY <3>3 DEF Img
    <3>5. Bufs(front) \cap Bufs(s) = {} /\ Bufs(s) \cap Bufs(rest) = {} /\ Bufs(front) \cap Bufs(rest) = {}
      BY <2>5, <3>2, <3>3, PartsDiffer, Zenon
    <3>6. Proper(front \o s) /\ Bufs(front \o s) = Bufs(front) \cup Bufs(s)
          /\ Len(front \o s) = Len(front) + Len(s)
          /\ \A j \in 1 .. Len(front) : (front \o s)[j] = front[j]
      BY <2>6, <3>2, <3>5, ProperJoin DEF Joined
    <3>7. Bufs(front) = {front[j].buf : j \in 1 .. Len(front)} /\ Len(front) = i - 1
      <4>1. 1 <= i - 1 \/ i - 1 = 0
        BY <2>3, SMT
      <4>2. Len(front) = (IF 1 <= i - 1 THEN i - 1 - 1 + 1 ELSE 0)
        BY <2>4 DEF Part
      <4> QED
        BY <2>3, <2>6, <4>1, <4>2, ProperDomain, SMT
    <3>8. Bufs(front) \cup Bufs(s) \cup Bufs(rest) = Bufs(c)
      BY <2>5, <3>2, <3>4
    <3>9. ASSUME NEW j \in 1 .. Len(t.chain), t.chain[j].buf \in Bufs(s) PROVE j = Len(t.chain)
      <4>1. Len(t.chain) = i /\ (j \in 1 .. i - 1 \/ j = i)
        BY <2>3, <3>1, <3>2, <3>6, <3>7, SMT
      <4>2. CASE j \in 1 .. i - 1
        <5>1. t.chain[j].buf \in Bufs(front)
          BY <3>1, <3>6, <3>7, <4>2
        <5> QED
          BY <3>5, <3>9, <5>1
      <4> QED
        BY <4>1, <4>2
    <3>10. Len(s) <= 1 /\ s # << >>
      BY <3>2, ProperNone, SMT
    <3>11. (Bufs(front) \cup Bufs(s)) \cap Bufs(rest) = {}
      BY <3>5
    <3>12. Bufs(front) \cup Bufs(s) \cup Bufs(s) \cup Bufs(rest) = Bufs(c)
      BY <3>8
    <3>13. Shared(t, Bufs(c))
      BY <2>6, <3>1, <3>2, <3>5, <3>6, <3>9, <3>10, <3>11, <3>12, Zenon DEF Shared
    <3> QED
      BY <3>1, <3>13 DEF t
  <2>9. CASE ~(more > 0)
    <3> DEFINE g == SubSeq(c, 1, i)
               others == [shadow |-> <<rest[1]>>, next |-> after,
                          rem |-> IF after = << >> THEN f.rem ELSE after[1].len,
                          del |-> IF after = << >> THEN f.del ELSE 0,
                          linked |-> after # << >>]
    <3>0. t = [chain |-> g, total |-> limit, first |-> c[1].len,
               fields |-> IF rest = << >> THEN f ELSE others]
      BY <2>2, <2>9, Zenon
    <3>2. Part(g, c, 1, i)
      BY <2>3, ProperPart, Zenon
    <3> HIDE DEF g, others
    <3>1. t.chain = g /\ t.total = limit /\ t.fields = IF rest = << >> THEN f ELSE others
      BY <3>0, SMT
    <3>3. Proper(g) /\ Bufs(g) = Img(c, 1 .. i) /\ Len(g) = i
      <4>1. 1 <= i /\ i - 1 + 1 = i
        BY <2>3, SMT
      <4> QED
        BY <3>2, <4>1 DEF Part
    <3>4. CASE rest = << >>
      <4>1. t.fields = f
        BY <3>1, <3>4
      <4>2. i = n
        <5>1. Len(rest) = (IF i + 1 <= n THEN n - (i + 1) + 1 ELSE 0)
          BY <2>4 DEF Part
        <5> QED
          BY <1>1, <2>3, <3>4, <5>1, ProperNone, SMT
      <4>3. Bufs(g) = Bufs(c)
        BY <2>5, <3>3, <4>2
      <4>5. 0 <= 1
        BY SMT
      <4>4. Shared(t, Bufs(c))
        BY <3>1, <3>3, <4>1, <4>3, <4>5, ProperNone DEF Shared
      <4> QED
        BY <3>1, <4>4 DEF t
    <3>5. CASE rest # << >>
      <4> DEFINE s == <<rest[1]>>
      <4>1. t.fields.shadow = s /\ t.fields.next = after
        <5>1. t.fields = others
          BY <3>1, <3>5
        <5> QED
          BY <5>1, SMT DEF others
      <4>2. Len(rest) # 0
        <5>1. PICK S : rest \in Seq(S)
          BY <2>6 DEF Proper
        <5> QED
          BY <3>5, <5>1, SMT
      <4>3. i + 1 \in 1 .. n /\ 1 \in 1 .. Len(rest) /\ 1 + (i + 1) - 1 = i + 1
        <5>1. Len(rest) = (IF i + 1 <= n THEN n - (i + 1) + 1 ELSE 0)
          BY <2>4 DEF Part
        <5> QED
          BY <1>1, <2>3, <4>2, <5>1, SMTT(20)
      <4>4. rest[1] = c[i + 1]
        BY <2>4, <4>3, Zenon DEF Part
      <4>5. Record(rest[1])
        BY <4>3, <4>4 DEF Proper
      <4>6. Proper(s) /\ Bufs(s) = Img(c, {i + 1}) /\ Len(s) = 1
        BY <4>4, <4>5, ProperOne DEF Img
      <4> HIDE DEF s
      <4>7. /\ 1 .. i \subseteq 1 .. n /\ {i + 1} \subseteq 1 .. n /\ i + 2 .. n \subseteq 1 .. n
            /\ (1 .. i) \cap {i + 1} = {} /\ {i + 1} \cap (i + 2 .. n) = {}
            /\ (1 .. i) \cap (i + 2 .. n) = {}
            /\ (1 .. i) \cup {i + 1} \cup (i + 2 .. n) = 1 .. n
        BY <1>1, <2>3, <4>3, SMT
      <4>8. Bufs(g) \cap Bufs(s) = {} /\ Bufs(s) \cap Bufs(after) = {} /\ Bufs(g) \cap Bufs(after) = {}
        <5>1. Bufs(g) \cap Bufs(s) = {}
          BY <3>3, <4>6, <4>7, PartsDiffer, Zenon
        <5>2. Bufs(s) \cap Bufs(after) = {}
          BY <2>5, <4>6, <4>7, PartsDiffer, Zenon
        <5>3. Bufs(g) \cap Bufs(after) = {}
          BY <2>5, <3>3, <4>7, PartsDiffer, Zenon
        <5> QED
          BY <5>1, <5>2, <5>3
      <4>10. Img(c, 1 .. i) \cup Img(c, {i + 1}) \cup Img(c, i + 2 .. n) = Img(c, 1 .. n)
        BY <4>7 DEF Img
      <4>11. Bufs(g) \cup Bufs(s) \cup Bufs(after) = Bufs(c)
        BY <2>5, <3>3, <4>6, <4>10
      <4>12. \A j \in 1 .. Len(g) : g[j].buf \in Bufs(g)
        BY <3>3, ProperDomain
      <4>13. \A j \in 1 .. Len(g) : g[j].buf \in Bufs(s) => j = Len(g)
        BY <4>8, <4>12
      <4>14. Len(s) <= 1 /\ s # << >>
        BY <4>6, ProperNone, SMT
      <4>15. Shared(t, Bufs(c))
        BY <2>6, <3>1, <3>3, <4>1, <4>6, <4>8, <4>11, <4>13, <4>14, Zenon DEF Shared
      <4> QED
        BY <3>1, <4>15 DEF t
    <3> QED
      BY <3>4, <3>5
  <2> QED
    BY <2>8, <2>9
<1> QED
  BY <1>2, <1>3

(* The chains of a ring, each proper and none with a buffer of another.      *)
Ring(q) == UNION {Bufs(q[i]) : i \in DOMAIN q}

Distinct(q) ==
  /\ \E S : q \in Seq(S)
  /\ \A k \in 1 .. Len(q) : Proper(q[k])
  /\ \A k, l \in 1 .. Len(q) : k # l => Bufs(q[k]) \cap Bufs(q[l]) = {}

(* What holds the buffers of each chain holds those of the ring.             *)
LEMMA RingWithin ==
  ASSUME NEW q, NEW X, \A i \in DOMAIN q : Bufs(q[i]) \subseteq X
  PROVE  Ring(q) \subseteq X
BY Zenon DEF Ring

(* A chain leaves the ring.                                                  *)
LEMMA DistinctTail ==
  ASSUME NEW q, Distinct(q), q # << >>
  PROVE  /\ Distinct(Tail(q)) /\ Proper(q[1]) /\ Ring(q) = Bufs(q[1]) \cup Ring(Tail(q))
         /\ Bufs(q[1]) \cap Ring(Tail(q)) = {}
<1> DEFINE t == Tail(q)
           n == Len(q)
<1>1. PICK S : q \in Seq(S)
  BY DEF Distinct
<1>2. n \in Nat /\ n # 0 /\ DOMAIN q = 1 .. n
  BY <1>1, SMT
<1>3. t \in Seq(S) /\ Len(t) = n - 1 /\ DOMAIN t = 1 .. n - 1 /\ \A k \in 1 .. n - 1 : t[k] = q[k + 1]
  BY <1>1, SMT
<1> HIDE DEF t, n
<1>4. \A k \in 1 .. n - 1 : k + 1 \in 1 .. n /\ k + 1 # 1
  BY <1>2, SMT
<1>5. \A k, l \in 1 .. n - 1 : k + 1 = l + 1 => k = l
  BY <1>2, SMT
<1>6. \A k \in 1 .. n : k = 1 \/ \E l \in 1 .. n - 1 : k = l + 1
  <2> SUFFICES ASSUME NEW k \in 1 .. n, k # 1 PROVE k - 1 \in 1 .. n - 1 /\ k = (k - 1) + 1
    OBVIOUS
  <2> QED
    BY <1>2, SMT
<1>7. 1 \in 1 .. n
  BY <1>2, SMT
<1>8. /\ \A k \in 1 .. n : Proper(q[k])
      /\ \A k, l \in 1 .. n : k # l => Bufs(q[k]) \cap Bufs(q[l]) = {}
  BY DEF Distinct, n
<1>9. Distinct(t)
  <2>1. \A k \in 1 .. n - 1 : Proper(t[k])
    BY <1>3, <1>4, <1>8, Zenon
  <2>2. ASSUME NEW k \in 1 .. n - 1, NEW l \in 1 .. n - 1, k # l
        PROVE  Bufs(t[k]) \cap Bufs(t[l]) = {}
    <3>1. k + 1 # l + 1 /\ k + 1 \in 1 .. n /\ l + 1 \in 1 .. n
      BY <1>4, <1>5, <2>2, Zenon
    <3> QED
      BY <1>3, <1>8, <3>1, Zenon
  <2> QED
    BY <1>3, <2>1, <2>2, Zenon DEF Distinct
<1>10. Ring(q) \subseteq Bufs(q[1]) \cup Ring(t)
  <2> SUFFICES ASSUME NEW k \in 1 .. n, NEW b \in Bufs(q[k]), k # 1 PROVE b \in Ring(t)
    BY <1>2 DEF Ring
  <2>1. PICK l \in 1 .. n - 1 : k = l + 1
    BY <1>6
  <2> QED
    BY <1>3, <2>1 DEF Ring
<1>11. Bufs(q[1]) \subseteq Ring(q)
  BY <1>2, <1>7 DEF Ring
<1>12. ASSUME NEW k \in 1 .. n - 1
       PROVE  Bufs(t[k]) \subseteq Ring(q) /\ Bufs(q[1]) \cap Bufs(t[k]) = {}
  <2>1. t[k] = q[k + 1] /\ k + 1 \in 1 .. n /\ k + 1 # 1
    BY <1>3, <1>4
  <2>2. Bufs(q[k + 1]) \subseteq Ring(q)
    BY <1>2, <2>1 DEF Ring
  <2>3. Bufs(q[1]) \cap Bufs(q[k + 1]) = {}
    BY <1>7, <1>8, <2>1, Zenon
  <2> QED
    BY <2>1, <2>2, <2>3, Zenon
<1>13. Ring(t) \subseteq Ring(q) /\ Bufs(q[1]) \cap Ring(t) = {}
  <2> DEFINE X == Ring(q) \ Bufs(q[1])
  <2>1. \A k \in DOMAIN t : Bufs(t[k]) \subseteq X
    BY <1>3, <1>12, Zenon
  <2> HIDE DEF X
  <2>2. Ring(t) \subseteq X
    BY <2>1, RingWithin
  <2> QED
    BY <2>2, Zenon DEF X
<1> QED
  BY <1>7, <1>8, <1>9, <1>10, <1>11, <1>13 DEF t

(* A chain is put on the ring.                                               *)
LEMMA DistinctAppend ==
  ASSUME NEW q, Distinct(q), NEW c, Proper(c), Bufs(c) \cap Ring(q) = {}
  PROVE  Distinct(Append(q, c)) /\ Ring(Append(q, c)) = Ring(q) \cup Bufs(c)
<1> DEFINE t == Append(q, c)
           n == Len(q)
<1>1. PICK S : q \in Seq(S)
  BY DEF Distinct
<1> DEFINE U == S \cup {c}
<1>2. q \in Seq(U) /\ c \in U
  BY <1>1, SMT
<1> HIDE DEF U
<1>3. n \in Nat /\ DOMAIN q = 1 .. n
  BY <1>2, SMT
<1>4. t \in Seq(U) /\ Len(t) = n + 1 /\ DOMAIN t = 1 .. n + 1 /\ t[n + 1] = c
      /\ \A k \in 1 .. n : t[k] = q[k]
  BY <1>2, SMT
<1> HIDE DEF t, n
<1>5. (\A k \in 1 .. n + 1 : k \in 1 .. n \/ k = n + 1) /\ (\A k \in 1 .. n : k \in 1 .. n + 1)
      /\ n + 1 \in 1 .. n + 1
  BY <1>3, SMT
<1>6. /\ \A k \in 1 .. n : Proper(q[k])
      /\ \A k, l \in 1 .. n : k # l => Bufs(q[k]) \cap Bufs(q[l]) = {}
  BY DEF Distinct, n
<1>7. \A k \in 1 .. n : Bufs(q[k]) \subseteq Ring(q)
  BY <1>3 DEF Ring
<1>8. \A k \in 1 .. n + 1 : Proper(t[k])
  BY <1>4, <1>5, <1>6, Zenon
<1>9. ASSUME NEW k \in 1 .. n + 1, NEW l \in 1 .. n + 1, k # l
      PROVE  Bufs(t[k]) \cap Bufs(t[l]) = {}
  <2>1. CASE k \in 1 .. n /\ l \in 1 .. n
    BY <1>4, <1>6, <1>9, <2>1, Zenon
  <2>2. CASE k \in 1 .. n /\ l = n + 1
    BY <1>4, <1>7, <2>2, Zenon
  <2>3. CASE k = n + 1 /\ l \in 1 .. n
    BY <1>4, <1>7, <2>3, Zenon
  <2> QED
    BY <1>5, <1>9, <2>1, <2>2, <2>3, Zenon
<1>10. Distinct(t)
  BY <1>4, <1>8, <1>9, Zenon DEF Distinct
<1>11. Ring(t) = Ring(q) \cup Bufs(c)
  <2>1. \A k \in 1 .. n + 1 : Bufs(t[k]) \subseteq Ring(q) \cup Bufs(c)
    BY <1>4, <1>5, <1>7, Zenon
  <2>2. Ring(t) \subseteq Ring(q) \cup Bufs(c)
    <3> DEFINE X == Ring(q) \cup Bufs(c)
    <3>1. \A k \in DOMAIN t : Bufs(t[k]) \subseteq X
      BY <1>4, <2>1, Zenon
    <3> HIDE DEF X
    <3>2. Ring(t) \subseteq X
      BY <3>1, RingWithin
    <3> QED
      BY <3>2 DEF X
  <2>3. Bufs(c) \subseteq Ring(t)
    BY <1>4, <1>5, Zenon DEF Ring
  <2>4. Ring(q) \subseteq Ring(t)
    BY <1>3, <1>4, <1>5, Zenon DEF Ring
  <2> QED
    BY <2>2, <2>3, <2>4, Zenon
<1> QED
  BY <1>10, <1>11 DEF t

(* The invariant behind BuffersAccounted: chains and shadow are proper, and  *)
(* of what the application holds at most the last segment is the shadow.     *)
LastIsShadow ==
  \A i \in 1 .. Len(result.chain) :
    result.chain[i].buf \in Bufs(shadow) => i = Len(result.chain)

Owned ==
  /\ Distinct(rx) /\ Proper(result.chain)
  /\ Proper(shadow) /\ Len(shadow) <= 1 /\ Proper(shadowNext)
  /\ shadow = << >> => shadowNext = << >>
  /\ Bufs(shadow) \cap Bufs(shadowNext) = {}
  /\ held => LastIsShadow
  /\ arrived \in Nat /\ \A b \in live : b \in Nat /\ b < arrived
  /\ BuffersAccounted

(* A read that divides the buffers it takes between the application and the  *)
(* descriptor, and leaves the others on the ring.                            *)
LEMMA GiveOwned ==
  ASSUME Owned, NEW t, NEW bufs, Shared(t, bufs), SetFields(t.fields), result'.chain = t.chain,
         held' = TRUE, live' = live, arrived' = arrived, Distinct(rx'),
         live = Ring(rx') \cup bufs, Ring(rx') \cap bufs = {}
  PROVE  Owned'
<1>1. shadow' = t.fields.shadow /\ shadowNext' = t.fields.next
  BY DEF SetFields
<1>2. /\ Proper(result'.chain) /\ Proper(shadow') /\ Proper(shadowNext') /\ Len(shadow') <= 1
      /\ shadow' = << >> => shadowNext' = << >>
      /\ Bufs(result'.chain) \cup Bufs(shadow') \cup Bufs(shadowNext') = bufs
      /\ Bufs(shadow') \cap Bufs(shadowNext') = {} /\ Bufs(result'.chain) \cap Bufs(shadowNext') = {}
      /\ \A i \in 1 .. Len(result'.chain) :
           result'.chain[i].buf \in Bufs(shadow') => i = Len(result'.chain)
  BY <1>1 DEF Shared
<1>3. OnRing' = Ring(rx') /\ InShadow' = Bufs(shadow') \cup Bufs(shadowNext')
      /\ WithApp' = Bufs(result'.chain)
  BY DEF OnRing, Ring, InShadow, WithApp, Bufs
<1>4. live' = OnRing' \cup InShadow' \cup WithApp'
  BY <1>2, <1>3
<1>5. OnRing' \cap (InShadow' \cup WithApp') = {} /\ InShadow' \cap WithApp' \subseteq Bufs(shadow')
  BY <1>2, <1>3
<1>6. BuffersAccounted'
  BY <1>4, <1>5 DEF BuffersAccounted, Bufs
<1>7. (Distinct(rx))' /\ (Proper(result.chain))' /\ (Proper(shadow))' /\ (Proper(shadowNext))'
      /\ (Bufs(shadow) \cap Bufs(shadowNext) = {})' /\ LastIsShadow'
  BY <1>2 DEF Distinct, Proper, Bufs, LastIsShadow, Record
<1>8. arrived' \in Nat /\ \A b \in live' : b \in Nat /\ b < arrived'
  BY DEF Owned
<1> QED
  BY <1>2, <1>6, <1>7, <1>8 DEF Owned

(* What a read gives after a proper chain it gives whole.                    *)
LEMMA SharedAfter ==
  ASSUME NEW a, Proper(a), NEW t, NEW bufs, Shared(t, bufs), Bufs(a) \cap bufs = {},
         NEW u, u.chain = a \o t.chain, u.fields = t.fields
  PROVE  Shared(u, Bufs(a) \cup bufs)
<1> DEFINE g == t.chain
           c == u.chain
           kept == t.fields.shadow
           next == t.fields.next
<1>1. /\ Proper(g) /\ Proper(kept) /\ Proper(next) /\ Len(kept) <= 1
      /\ kept = << >> => next = << >>
      /\ Bufs(g) \cup Bufs(kept) \cup Bufs(next) = bufs
      /\ Bufs(kept) \cap Bufs(next) = {} /\ Bufs(g) \cap Bufs(next) = {}
      /\ \A i \in 1 .. Len(g) : g[i].buf \in Bufs(kept) => i = Len(g)
  BY DEF Shared
<1>2. c = a \o g /\ u.fields.shadow = kept /\ u.fields.next = next
  OBVIOUS
<1> HIDE DEF g, kept, next, c
<1>3. Bufs(a) \cap Bufs(g) = {} /\ Bufs(a) \cap Bufs(next) = {} /\ Bufs(a) \cap Bufs(kept) = {}
  BY <1>1
<1>4. /\ Proper(c) /\ Bufs(c) = Bufs(a) \cup Bufs(g) /\ Len(c) = Len(a) + Len(g)
      /\ \A i \in 1 .. Len(a) : c[i] = a[i]
      /\ \A i \in 1 .. Len(g) : c[i + Len(a)] = g[i]
  <2>1. Joined(c, a, g)
    BY <1>1, <1>2, <1>3, ProperJoin, Zenon
  <2> QED
    BY <2>1 DEF Joined
<1>5. Len(a) \in Nat /\ Len(g) \in Nat /\ \A i \in 1 .. Len(a) : a[i].buf \in Bufs(a)
  <2>1. Len(g) \in Nat
    BY <1>1, ProperDomain, Zenon
  <2>2. Len(a) \in Nat /\ Bufs(a) = {a[i].buf : i \in 1 .. Len(a)}
    BY ProperDomain, Zenon
  <2> QED
    BY <2>1, <2>2
<1>6. ASSUME NEW i \in 1 .. Len(c), c[i].buf \in Bufs(kept) PROVE i = Len(c)
  <2>1. i \in 1 .. Len(a) \/ (i - Len(a) \in 1 .. Len(g) /\ (i - Len(a)) + Len(a) = i)
    BY <1>4, <1>5, SMT
  <2>2. CASE i \in 1 .. Len(a)
    BY <1>3, <1>4, <1>5, <1>6, <2>2, Zenon
  <2>3. CASE i - Len(a) \in 1 .. Len(g) /\ (i - Len(a)) + Len(a) = i
    <3>1. c[i] = g[i - Len(a)]
      BY <1>4, <2>3, Zenon
    <3>2. i - Len(a) = Len(g)
      BY <1>1, <1>6, <2>3, <3>1, Zenon
    <3> QED
      BY <1>4, <1>5, <2>3, <3>2, SMT
  <2> QED
    BY <2>1, <2>2, <2>3
<1>7. Bufs(c) \cup Bufs(kept) \cup Bufs(next) = Bufs(a) \cup bufs /\ Bufs(c) \cap Bufs(next) = {}
  BY <1>1, <1>3, <1>4
<1>8. u.chain = c
  BY DEF c
<1> QED
  BY <1>1, <1>2, <1>4, <1>6, <1>7, <1>8, Zenon DEF Shared

(* Setting two fields of a segment keeps the third.                          *)
LEMMA TwoFields ==
  ASSUME NEW v, Record(v), NEW x, NEW y
  PROVE  [v EXCEPT !.at = x, !.len = y] = [at |-> x, len |-> y, buf |-> v.buf]
<1> DEFINE w == [v EXCEPT !.at = x]
<1>1. w = [at |-> x, len |-> v.len, buf |-> v.buf]
  BY SMT DEF Record
<1>2. [v EXCEPT !.at = x, !.len = y] = [w EXCEPT !.len = y]
  OBVIOUS
<1> HIDE DEF w
<1>3. [w EXCEPT !.len = y] = [at |-> x, len |-> y, buf |-> v.buf]
  BY <1>1, SMT
<1> QED
  BY <1>2, <1>3

(* service_get_from_shadow gives the buffers of the shadow and of            *)
(* shadow_next.                                                              *)
LEMMA FromShadowProper ==
  ASSUME Owned, shadow # << >>
  PROVE  /\ Proper(FromShadow) /\ Bufs(FromShadow) = InShadow
         /\ Bufs(shadow) = {shadow[1].buf}
<1>1. Proper(shadow) /\ Len(shadow) <= 1 /\ Proper(shadowNext) /\ Bufs(shadow) \cap Bufs(shadowNext) = {}
  BY DEF Owned
<1>2. PICK S : shadow \in Seq(S)
  BY <1>1 DEF Proper
<1>3. Len(shadow) = 1 /\ 1 .. 1 = {1}
  <2>1. Len(shadow) \in Nat /\ Len(shadow) # 0
    BY <1>2, SMT
  <2>2. Len(shadow) <= 1
    BY <1>1
  <2> DEFINE k == Len(shadow)
  <2> HIDE DEF k
  <2>3. k = 1
    <3>1. k \in Nat /\ k # 0 /\ k <= 1
      BY <2>1, <2>2 DEF k
    <3> QED
      BY <3>1, SMT
  <2>4. 1 .. 1 = {1}
    BY SMT
  <2> QED
    BY <2>3, <2>4 DEF k
<1>4. Bufs(shadow) = {shadow[1].buf} /\ Record(shadow[1])
  <2>1. Bufs(shadow) = {shadow[i].buf : i \in 1 .. Len(shadow)}
    BY <1>1, ProperDomain, Zenon
  <2>2. \A i \in 1 .. Len(shadow) : Record(shadow[i])
    BY <1>1 DEF Proper
  <2> QED
    BY <1>3, <2>1, <2>2
<1> DEFINE w == [shadow[1] EXCEPT !.at = @ + delivered, !.len = remainder]
<1>5. w = [at |-> shadow[1].at + delivered, len |-> remainder, buf |-> shadow[1].buf]
  <2> DEFINE r == shadow[1]
             x == shadow[1].at + delivered
  <2>1. r = [at |-> r.at, len |-> r.len, buf |-> r.buf]
    BY <1>4 DEF Record
  <2>2. w = [r EXCEPT !.at = x, !.len = remainder]
    OBVIOUS
  <2> HIDE DEF r, x
  <2>3. [r EXCEPT !.at = x, !.len = remainder] = [at |-> x, len |-> remainder, buf |-> r.buf]
    BY <2>1, TwoFields, Zenon DEF Record
  <2> HIDE DEF w
  <2> QED
    BY <2>2, <2>3 DEF r, x
<1>6. FromShadow = <<w>> \o shadowNext
  BY DEF FromShadow
<1> HIDE DEF w
<1>7. Record(w) /\ w.buf = shadow[1].buf
  BY <1>5 DEF Record
<1>8. Proper(<<w>>) /\ Bufs(<<w>>) = {shadow[1].buf}
  BY <1>7, ProperOne
<1>9. Bufs(<<w>>) \cap Bufs(shadowNext) = {}
  BY <1>1, <1>4, <1>8
<1> DEFINE a == <<w>>
<1> HIDE DEF a
<1>10. Proper(a \o shadowNext) /\ Bufs(a \o shadowNext) = Bufs(a) \cup Bufs(shadowNext)
  BY <1>1, <1>8, <1>9, ProperJoin DEF a, Joined
<1> QED
  BY <1>4, <1>6, <1>8, <1>10 DEF a, InShadow

(* The ring, in the terms of BuffersAccounted, when the application holds    *)
(* nothing.                                                                  *)
LEMMA RingOwned ==
  ASSUME Owned, ~held
  PROVE  /\ live = Ring(rx) \cup InShadow /\ Ring(rx) \cap InShadow = {} /\ Distinct(rx)
         /\ shadow = << >> => InShadow = {}
<1>1. OnRing = Ring(rx) /\ WithApp = {}
  BY DEF OnRing, Ring, WithApp
<1>2. shadow = << >> => InShadow = {}
  BY ProperNone DEF Owned, InShadow
<1> QED
  BY <1>1, <1>2 DEF Owned, BuffersAccounted

(* service_receive without a limit gives a chain of the ring whole.          *)
LEMMA ReceiveAllOwned ==
  ASSUME Owned, ReceiveAll
  PROVE  Owned'
<1> DEFINE t == [chain |-> rx[1], fields |-> Fields]
           bufs == Bufs(rx[1])
<1>1. /\ shadow = << >> /\ rx # << >> /\ rx' = Tail(rx) /\ arrived' = arrived /\ ~held
      /\ held' = TRUE /\ live' = live /\ result'.chain = rx[1]
      /\ UNCHANGED <<shadow, shadowNext, remainder, delivered, linked>>
  BY DEF ReceiveAll, Give, fields
<1>2. live = Ring(rx) /\ Distinct(rx) /\ shadowNext = << >>
  BY <1>1, RingOwned DEF Owned
<1>3. /\ Distinct(Tail(rx)) /\ Proper(rx[1]) /\ Ring(rx) = bufs \cup Ring(Tail(rx))
      /\ bufs \cap Ring(Tail(rx)) = {}
  BY <1>1, <1>2, DistinctTail
<1>4. t.chain = rx[1] /\ t.fields = Fields /\ Fields.shadow = << >> /\ Fields.next = << >>
  BY <1>1, <1>2 DEF Fields
<1>5. SetFields(t.fields)
  <2>1. Fields.shadow = shadow /\ Fields.next = shadowNext /\ Fields.rem = remainder
        /\ Fields.del = delivered /\ Fields.linked = linked
    BY DEF Fields
  <2> QED
    BY <1>1, <1>4, <2>1 DEF SetFields
<1> HIDE DEF t, bufs
<1>6. Shared(t, bufs)
  <2>1. 0 <= 1
    BY SMT
  <2> QED
    BY <1>3, <1>4, <2>1, ProperNone DEF Shared, bufs
<1>7. live = Ring(rx') \cup bufs /\ Ring(rx') \cap bufs = {} /\ Distinct(rx')
  BY <1>1, <1>2, <1>3
<1> QED
  BY <1>1, <1>4, <1>5, <1>6, <1>7, GiveOwned

(* service_receive with a limit divides a chain of the ring.                 *)
LEMMA ReceiveLimitedOwned ==
  ASSUME Owned, NEW limit, ReceiveLimited(limit)
  PROVE  Owned'
<1> DEFINE t == TryRead(rx[1], limit, Fields)
           bufs == Bufs(rx[1])
<1>1. /\ shadow = << >> /\ rx # << >> /\ rx' = Tail(rx) /\ arrived' = arrived /\ ~held
      /\ held' = TRUE /\ live' = live /\ SetFields(t.fields) /\ result'.chain = t.chain
  BY DEF ReceiveLimited, Give
<1>2. live = Ring(rx) /\ Distinct(rx) /\ shadowNext = << >>
  BY <1>1, RingOwned DEF Owned
<1>3. /\ Distinct(Tail(rx)) /\ Proper(rx[1]) /\ Ring(rx) = bufs \cup Ring(Tail(rx))
      /\ bufs \cap Ring(Tail(rx)) = {}
  BY <1>1, <1>2, DistinctTail
<1>4. Fields.shadow = << >> /\ Fields.next = << >>
  BY <1>1, <1>2 DEF Fields
<1>5. Shared(t, bufs)
  BY <1>3, <1>4, TryReadShares, Zenon DEF Divided
<1> HIDE DEF t, bufs
<1>6. live = Ring(rx') \cup bufs /\ Ring(rx') \cap bufs = {} /\ Distinct(rx')
  BY <1>1, <1>2, <1>3
<1> QED
  BY <1>1, <1>5, <1>6, GiveOwned

(* Reading the shadow together with the next chain of the ring, or a part    *)
(* of it.                                                                    *)
LEMMA ShadowMoreOwned ==
  ASSUME Owned, ~held, shadow # << >>, rx # << >>, NEW t, Shared(t, Bufs(rx[1])),
         SetFields(t.fields), result'.chain = FromShadow \o t.chain, held' = TRUE, live' = live,
         arrived' = arrived, rx' = Tail(rx)
  PROVE  Owned'
<1> DEFINE a == FromShadow
           u == [chain |-> a \o t.chain, fields |-> t.fields]
           bufs == Bufs(a) \cup Bufs(rx[1])
<1>1. live = Ring(rx) \cup InShadow /\ Ring(rx) \cap InShadow = {} /\ Distinct(rx)
  BY RingOwned
<1>2. /\ Distinct(Tail(rx)) /\ Ring(rx) = Bufs(rx[1]) \cup Ring(Tail(rx))
      /\ Bufs(rx[1]) \cap Ring(Tail(rx)) = {}
  BY <1>1, DistinctTail
<1>3. Proper(a) /\ Bufs(a) = InShadow
  BY FromShadowProper
<1>4. u.chain = a \o t.chain /\ u.fields = t.fields
  BY SMT
<1>5. result'.chain = u.chain
  BY <1>4
<1> HIDE DEF a, u
<1>6. Bufs(a) \cap Bufs(rx[1]) = {}
  BY <1>1, <1>2, <1>3
<1>7. Shared(u, bufs)
  BY <1>3, <1>4, <1>6, SharedAfter, Zenon
<1>8. live = Ring(rx') \cup bufs /\ Ring(rx') \cap bufs = {} /\ Distinct(rx')
  BY <1>1, <1>2, <1>3
<1> HIDE DEF bufs
<1> QED
  BY <1>4, <1>5, <1>7, <1>8, GiveOwned

(* Reading the shadow alone, or a part of it.                                *)
LEMMA ShadowOnlyOwned ==
  ASSUME Owned, ~held, shadow # << >>, NEW t, Shared(t, Bufs(FromShadow)), SetFields(t.fields),
         result'.chain = t.chain, held' = TRUE, live' = live, arrived' = arrived, rx' = rx
  PROVE  Owned'
<1>1. live = Ring(rx) \cup InShadow /\ Ring(rx) \cap InShadow = {} /\ Distinct(rx)
  BY RingOwned
<1>2. Bufs(FromShadow) = InShadow
  BY FromShadowProper
<1>3. live = Ring(rx') \cup Bufs(FromShadow) /\ Ring(rx') \cap Bufs(FromShadow) = {} /\ Distinct(rx')
  BY <1>1, <1>2
<1> DEFINE bufs == Bufs(FromShadow)
<1> HIDE DEF bufs
<1>4. Shared(t, bufs) /\ live = Ring(rx') \cup bufs /\ Ring(rx') \cap bufs = {}
  BY <1>3 DEF bufs
<1> QED
  BY <1>3, <1>4, GiveOwned

(* Nothing is kept of a proper chain that is given whole.                    *)
LEMMA SharedWhole ==
  ASSUME NEW t, Proper(t.chain), t.fields.shadow = << >>, t.fields.next = << >>
  PROVE  Shared(t, Bufs(t.chain))
<1>1. 0 <= 1
  BY SMT
<1> QED
  BY <1>1, ProperNone DEF Shared

(* service_receive without a limit gives the shadow, and after it the next   *)
(* chain of the ring.                                                        *)
LEMMA ReceiveShadowAllOwned ==
  ASSUME Owned, ReceiveShadowAll
  PROVE  Owned'
<1> DEFINE more == IF rx = << >> THEN << >> ELSE rx[1]
<1>1. /\ shadow # << >> /\ SetFields(Unshadowed) /\ ~held /\ held' = TRUE /\ live' = live
      /\ arrived' = arrived /\ rx' = (IF rx = << >> THEN rx ELSE Tail(rx))
      /\ result'.chain = FromShadow \o more
  <2>1. PICK len \in ShadowPktLen : Give(FromShadow \o more, len + Total(more), remainder, 0)
    BY DEF ReceiveShadowAll
  <2>2. ~held /\ held' = TRUE /\ live' = live /\ result'.chain = FromShadow \o more
    BY <2>1 DEF Give
  <2>3. shadow # << >> /\ SetFields(Unshadowed) /\ arrived' = arrived
        /\ rx' = (IF rx = << >> THEN rx ELSE Tail(rx))
    BY DEF ReceiveShadowAll
  <2> QED
    BY <2>2, <2>3
<1>2. Unshadowed.shadow = << >> /\ Unshadowed.next = << >>
  BY SMT DEF Unshadowed, Fields
<1>3. Proper(FromShadow)
  BY <1>1, FromShadowProper
<1>4. CASE rx = << >>
  <2> DEFINE t == [chain |-> FromShadow, fields |-> Unshadowed]
  <2>1. t.chain = FromShadow /\ t.fields = Unshadowed
    BY SMT
  <2> HIDE DEF t
  <2>2. Shared(t, Bufs(FromShadow))
    BY <1>2, <1>3, <2>1, SharedWhole
  <2>3. result'.chain = t.chain
    <3>1. PICK S : FromShadow \in Seq(S)
      BY <1>3 DEF Proper
    <3>2. FromShadow \o << >> = FromShadow
      BY <3>1, SMT
    <3> QED
      BY <1>1, <1>4, <2>1, <3>2
  <2> QED
    BY <1>1, <1>4, <2>1, <2>2, <2>3, ShadowOnlyOwned
<1>5. CASE rx # << >>
  <2> DEFINE t == [chain |-> rx[1], fields |-> Unshadowed]
  <2>1. t.chain = rx[1] /\ t.fields = Unshadowed
    BY SMT
  <2> HIDE DEF t
  <2>2. Proper(rx[1])
    BY <1>5, DistinctTail DEF Owned
  <2>3. Shared(t, Bufs(rx[1]))
    BY <1>2, <2>1, <2>2, SharedWhole
  <2> QED
    BY <1>1, <1>5, <2>1, <2>3, ShadowMoreOwned
<1> QED
  BY <1>4, <1>5

(* service_receive with a limit divides what the shadow keeps or, when that  *)
(* is too little, the next chain of the ring.                                *)
LEMMA ReceiveShadowLimitedOwned ==
  ASSUME Owned, NEW limit \in Limits, ReceiveShadowLimited(limit)
  PROVE  Owned'
<1> DEFINE one == TryRead(FromShadow, limit, Unshadowed)
           two == TryRead(rx[1], limit - one.total, one.fields)
<1>1. /\ shadow # << >> /\ ~held /\ held' = TRUE /\ live' = live /\ arrived' = arrived
      /\ \/ /\ one.total < limit /\ rx # << >> /\ SetFields(two.fields)
            /\ result'.chain = one.chain \o two.chain /\ rx' = Tail(rx)
         \/ SetFields(one.fields) /\ result'.chain = one.chain /\ rx' = rx
  <2>1. ASSUME NEW c, NEW total, NEW first, Give(c, total, first, limit)
        PROVE  ~held /\ held' = TRUE /\ live' = live /\ result'.chain = c
    BY <2>1 DEF Give
  <2> DEFINE wants == one.total > 0 /\ one.total < limit
  <2>2. /\ shadow # << >> /\ arrived' = arrived
        /\ \/ /\ wants /\ rx # << >> /\ SetFields(two.fields) /\ rx' = Tail(rx)
              /\ Give(one.chain \o two.chain, one.total + two.total, one.first, limit)
           \/ /\ SetFields(one.fields) /\ rx' = rx
              /\ Give(one.chain, IF wants THEN one.total ELSE limit, one.first, limit)
    BY DEF ReceiveShadowLimited
  <2> HIDE DEF one, two
  <2> QED
    BY <2>1, <2>2, Zenon
<1>2. Unshadowed.shadow = << >> /\ Unshadowed.next = << >>
  BY SMT DEF Unshadowed, Fields
<1>3. Proper(FromShadow)
  BY <1>1, FromShadowProper
<1>4. /\ Shared(one, Bufs(FromShadow))
      /\ one.total = limit \/ (one.chain = FromShadow /\ one.fields = Unshadowed)
  <2>1. Divided(one, FromShadow, limit, Unshadowed)
    BY <1>2, <1>3, TryReadShares, Zenon
  <2> HIDE DEF one
  <2> QED
    BY <2>1 DEF Divided
<1> HIDE DEF one
<1>5. CASE one.total < limit /\ rx # << >> /\ SetFields(two.fields)
           /\ result'.chain = one.chain \o two.chain /\ rx' = Tail(rx)
  <2>1. one.total # limit
    <3>1. limit \in Nat
      BY ReadAssumption
    <3>2. ~(limit < limit)
      BY <3>1, SMT
    <3> QED
      BY <1>5, <3>2
  <2>2. one.chain = FromShadow /\ one.fields = Unshadowed
    BY <1>4, <2>1
  <2>3. Proper(rx[1])
    BY <1>5, DistinctTail DEF Owned
  <2>4. Shared(two, Bufs(rx[1]))
    BY <1>2, <2>2, <2>3, TryReadShares, Zenon DEF Divided
  <2>5. SetFields(two.fields) /\ result'.chain = FromShadow \o two.chain
    BY <1>5, <2>2
  <2> HIDE DEF two
  <2> QED
    BY <1>1, <1>5, <2>4, <2>5, ShadowMoreOwned
<1>6. CASE SetFields(one.fields) /\ result'.chain = one.chain /\ rx' = rx
  BY <1>1, <1>4, <1>6, ShadowOnlyOwned
<1> QED
  BY <1>1, <1>5, <1>6

(* service_release_rx_buffer frees what the application held, and leaves the *)
(* shadow.                                                                   *)
LEMMA ReleaseOwned ==
  ASSUME Owned, Release
  PROVE  Owned'
<1> DEFINE chain == result.chain
           isShadow(i) == shadow # << >> /\ chain[i].buf = shadow[1].buf
           released == {i \in DOMAIN chain : \A j \in 1 .. i : ~isShadow(j)}
           freed == {chain[i].buf : i \in released}
<1>1. held /\ held' = FALSE /\ live' = live \ freed
      /\ rx' = rx /\ arrived' = arrived /\ shadow' = shadow /\ shadowNext' = shadowNext
      /\ result' = result
  BY DEF Release, fields
<1>2. Len(chain) \in Nat /\ DOMAIN chain = 1 .. Len(chain)
      /\ Bufs(chain) = {chain[i].buf : i \in 1 .. Len(chain)}
  BY ProperDomain DEF Owned
<1>3. live = OnRing \cup InShadow \cup Bufs(chain) /\ OnRing \cap (InShadow \cup Bufs(chain)) = {}
      /\ InShadow \cap Bufs(chain) \subseteq Bufs(shadow)
      /\ \A i \in 1 .. Len(chain) : chain[i].buf \in Bufs(shadow) => i = Len(chain)
  BY <1>1 DEF Owned, BuffersAccounted, WithApp, LastIsShadow
<1>4. shadow # << >> => Bufs(shadow) = {shadow[1].buf} /\ shadow[1].buf \in InShadow
  <2>1. shadow # << >> => Bufs(shadow) = {shadow[1].buf}
    BY FromShadowProper
  <2> QED
    BY <2>1 DEF InShadow
<1>5. shadow = << >> => Bufs(shadow) = {}
  BY ProperNone
<1>6. ASSUME NEW i \in released PROVE chain[i].buf \in Bufs(chain) /\ chain[i].buf \notin InShadow
  <2>1. i \in 1 .. Len(chain) /\ i \in 1 .. i
    <3>1. i \in 1 .. Len(chain)
      BY <1>2
    <3> QED
      BY <1>2, <3>1, SMT
  <2>2. ~isShadow(i)
    BY <2>1
  <2>3. chain[i].buf \in Bufs(chain)
    BY <1>2, <2>1
  <2> HIDE DEF chain
  <2> QED
    BY <1>3, <1>4, <1>5, <2>2, <2>3
<1>7. ASSUME NEW b \in Bufs(chain), b \notin InShadow PROVE b \in freed
  <2>1. PICK i \in 1 .. Len(chain) : b = chain[i].buf
    BY <1>2
  <2>2. ASSUME NEW j \in 1 .. i, isShadow(j) PROVE FALSE
    <3>1. j \in 1 .. Len(chain) /\ j <= i /\ i <= Len(chain) /\ i \in Nat /\ j \in Nat
      BY <1>2, <2>1, SMTT(20)
    <3>2. j = Len(chain)
      BY <1>3, <1>4, <2>2, <3>1
    <3>3. i = j
      BY <1>2, <3>1, <3>2, SMT
    <3> QED
      BY <1>4, <1>7, <2>1, <2>2, <3>3
  <2> QED
    BY <1>2, <2>1, <2>2
<1> HIDE DEF freed
<1>8. freed \subseteq Bufs(chain) /\ freed \cap InShadow = {}
  BY <1>6 DEF freed
<1>9. live' = OnRing \cup InShadow
  BY <1>1, <1>3, <1>7, <1>8
<1>10. OnRing' = OnRing /\ InShadow' = InShadow /\ WithApp' = {} /\ (Bufs(shadow))' = Bufs(shadow)
  <2>1. OnRing' = OnRing
    <3>1. Ring(rx') = Ring(rx)
      BY <1>1
    <3>2. OnRing' = Ring(rx') /\ OnRing = Ring(rx)
      BY DEF OnRing, Ring, Bufs
    <3> QED
      BY <3>1, <3>2
  <2>2. InShadow' = InShadow /\ (Bufs(shadow))' = Bufs(shadow)
    BY <1>1 DEF InShadow, Bufs
  <2>3. WithApp' = {}
    BY <1>1 DEF WithApp
  <2> QED
    BY <2>1, <2>2, <2>3
<1>11. BuffersAccounted'
  BY <1>3, <1>9, <1>10 DEF BuffersAccounted
<1>12. \A b \in live' : b \in live
  BY <1>1
<1>13. /\ arrived' \in Nat /\ \A b \in live' : b \in Nat /\ b < arrived'
  BY <1>1, <1>12 DEF Owned
<1>14. /\ (Distinct(rx))' /\ (Proper(result.chain))' /\ (Proper(shadow))' /\ (Len(shadow) <= 1)'
       /\ (Proper(shadowNext))' /\ (shadow = << >> => shadowNext = << >>)'
       /\ (Bufs(shadow) \cap Bufs(shadowNext) = {})'
  <2>1. (Distinct(rx))'
    <3>1. Distinct(rx')
      BY <1>1 DEF Owned
    <3> QED
      BY <3>1 DEF Distinct, Proper, Record, Bufs
  <2>2. (Proper(result.chain))'
    BY <1>1 DEF Owned, Proper, Record
  <2>3. (Proper(shadow))' /\ (Proper(shadowNext))'
    BY <1>1 DEF Owned, Proper, Record
  <2>4. (Len(shadow) <= 1)' /\ (shadow = << >> => shadowNext = << >>)'
    BY <1>1 DEF Owned
  <2>5. (Bufs(shadow) \cap Bufs(shadowNext) = {})'
    BY <1>1 DEF Owned, Bufs
  <2> QED
    BY <2>1, <2>2, <2>3, <2>4, <2>5
<1> QED
  BY <1>1, <1>11, <1>13, <1>14 DEF Owned

(* The segments of a new chain are in buffers of their own, named by         *)
(* positions no earlier buffer has.                                          *)
LEMMA ChainProper ==
  ASSUME NEW lens \in SegLens, NEW p \in Nat
  PROVE  Proper(Chain(p, lens)) /\ \A b \in Bufs(Chain(p, lens)) : b \in Nat /\ p <= b /\ b < p + Sum(lens)
<1> DEFINE c == Chain(p, lens)
           n == Len(lens)
           At(i) == Sum(SubSeq(lens, 1, i - 1))
<1>1. lens \in Seq(Nat) /\ n \in Nat /\ DOMAIN lens = 1 .. n /\ \A i \in 1 .. n : lens[i] \in Nat \ {0}
  <2>1. lens \in Seq(Nat) /\ DOMAIN lens = 1 .. n /\ \A i \in 1 .. n : lens[i] \in 1 .. MaxSegLen
    BY SegLensType
  <2> QED
    BY <2>1, ReadAssumption, SMT
<1>2. c = [i \in 1 .. n |-> [at |-> p + At(i), len |-> lens[i], buf |-> p + At(i)]]
  BY <1>1 DEF Chain, Seg
<1>3. PICK f : UpTo(lens, n, f) /\ Sum(lens) = f[n]
  BY <1>1, SumIsUpTo
<1>4. ASSUME NEW i \in 1 .. n PROVE At(i) = f[i - 1]
  <2> DEFINE ms == SubSeq(lens, 1, i - 1)
             k == i - 1
  <2>1. ms \in Seq(Nat) /\ Len(ms) = k /\ k \in 0 .. n /\ k \in Nat
    BY <1>1, SMT
  <2>2. \A j \in 1 .. k : ms[j] = lens[j]
    BY <1>1, SMT
  <2> HIDE DEF ms, k
  <2>3. PICK g : UpTo(ms, k, g) /\ Sum(ms) = g[k]
    BY <2>1, SumIsUpTo
  <2>4. UpTo(lens, k, g)
    BY <2>2, <2>3, Zenon DEF UpTo
  <2> HIDE DEF n
  <2>5. f[k] = g[k]
    BY <1>1, <1>3, <2>1, <2>4, UpToUnique, SMTT(30)
  <2> QED
    BY <2>3, <2>5 DEF ms, k
<1> HIDE DEF At, c
<1>5. \A i \in 0 .. n : f[i] \in Nat
  BY <1>3 DEF UpTo
<1>6. ASSUME NEW j \in 1 .. n, NEW i \in 1 .. j - 1 PROVE f[i - 1] < f[j - 1]
  <2> DEFINE k == j - 1
  <2>1. k \in Nat /\ k \in 0 .. n /\ i \in 0 .. k /\ i \in 1 .. n /\ k <= n /\ i - 1 \in 0 .. n /\ i \in 0 .. n
    BY <1>1, SMT
  <2>3. f[i] = f[i - 1] + lens[i] /\ lens[i] \in Nat \ {0}
    BY <1>1, <1>3, <2>1 DEF UpTo
  <2> DEFINE g == [l \in 0 .. k |-> f[l]]
  <2>4. g[i] = f[i] /\ g[k] = f[k]
    BY <2>1, SMT
  <2> HIDE DEF g, k
  <2>2. UpTo(lens, k, g)
    <3>1. 0 \in 0 .. k /\ \A l \in 1 .. k : l \in 0 .. k /\ l - 1 \in 0 .. k /\ l \in 1 .. n
      BY <1>1, <2>1, SMT
    <3>2. \A l \in 0 .. k : l \in 0 .. n
      BY <1>1, <2>1, SMT
    <3>3. g \in [0 .. k -> Nat] /\ \A l \in 0 .. k : g[l] = f[l]
      BY <1>5, <3>2 DEF g
    <3>4. f[0] = 0 /\ \A l \in 1 .. n : f[l] = f[l - 1] + lens[l]
      BY <1>3 DEF UpTo
    <3>5. g[0] = 0 /\ \A l \in 1 .. k : g[l] = g[l - 1] + lens[l]
      BY <3>1, <3>3, <3>4, Zenon
    <3> QED
      BY <3>3, <3>5 DEF UpTo
  <2>5. g[i] <= g[k]
    BY <1>1, <2>1, <2>2, UpToGrows
  <2>6. f[i - 1] \in Nat /\ f[k] \in Nat /\ f[i] <= f[k]
    BY <1>5, <2>1, <2>4, <2>5
  <2>7. f[i - 1] < f[k]
    BY <2>3, <2>6, SMT
  <2> QED
    BY <2>7 DEF k
<1>7. ASSUME NEW i \in 1 .. n PROVE f[i - 1] \in Nat /\ f[i - 1] < f[n]
  <2>1. i - 1 \in 0 .. n /\ i \in 0 .. n /\ n <= n
    BY <1>1, SMT
  <2>2. f[i] = f[i - 1] + lens[i] /\ lens[i] \in Nat \ {0}
    BY <1>1, <1>3 DEF UpTo
  <2>3. f[i] <= f[n]
    BY <1>1, <1>3, <2>1, UpToGrows
  <2>4. f[i - 1] \in Nat /\ f[i] \in Nat /\ f[n] \in Nat
    <3>1. n \in 0 .. n
      BY <1>1, SMT
    <3> QED
      BY <1>5, <2>1, <3>1
  <2> QED
    BY <2>2, <2>3, <2>4, SMT
<1>8. Len(c) = n /\ \E S : c \in Seq(S)
  <2> DEFINE S == {c[i] : i \in 1 .. n}
  <2>1. DOMAIN c = 1 .. n /\ c \in [1 .. n -> S]
    BY <1>2
  <2> HIDE DEF S
  <2>2. c \in Seq(S) /\ Len(c) = n
    BY <1>1, <2>1, SMT
  <2> QED
    BY <2>2
<1>9. \A i \in 1 .. n : c[i].buf = p + f[i - 1] /\ Record(c[i])
  <2> SUFFICES ASSUME NEW i \in 1 .. n PROVE c[i].buf = p + f[i - 1] /\ Record(c[i])
    OBVIOUS
  <2>1. c[i] = [at |-> p + At(i), len |-> lens[i], buf |-> p + At(i)]
    BY <1>2
  <2>2. c[i].buf = p + At(i)
    BY <2>1, SMT
  <2>3. Record(c[i])
    BY <2>1 DEF Record
  <2> QED
    BY <1>4, <2>2, <2>3
<1>10. ASSUME NEW i \in 1 .. n, NEW j \in 1 .. n, c[i].buf = c[j].buf PROVE i = j
  <2>1. p + f[i - 1] = p + f[j - 1]
    BY <1>9, <1>10
  <2>2. f[i - 1] \in Nat /\ f[j - 1] \in Nat
    BY <1>7
  <2>3. f[i - 1] = f[j - 1]
    BY <2>1, <2>2, SMTT(20)
  <2>4. ~(f[i - 1] < f[j - 1]) /\ ~(f[j - 1] < f[i - 1])
    BY <2>2, <2>3, SMT
  <2>5. i \in 1 .. j - 1 \/ j \in 1 .. i - 1 \/ i = j
    BY <1>1, SMT
  <2> QED
    BY <1>6, <2>4, <2>5
<1>11. Proper(c)
  BY <1>8, <1>9, <1>10, Zenon DEF Proper
<1>12. ASSUME NEW i \in 1 .. n
       PROVE  c[i].buf \in Nat /\ p <= c[i].buf /\ c[i].buf < p + Sum(lens)
  <2>1. f[i - 1] \in Nat /\ f[i - 1] < Sum(lens) /\ Sum(lens) \in Nat
    BY <1>1, <1>3, <1>7, SumType
  <2>2. c[i].buf = p + f[i - 1]
    BY <1>9
  <2> QED
    BY <2>1, <2>2, SMT
<1>13. Bufs(c) = {c[i].buf : i \in 1 .. n}
  BY <1>8, <1>11, ProperDomain
<1> QED
  BY <1>11, <1>12, <1>13 DEF c

(* service_submit_rx_buf puts buffers nobody has on the ring.                *)
LEMMA ArriveOwned ==
  ASSUME Owned, NEW lens \in SegLens, Arrive(lens)
  PROVE  Owned'
<1> DEFINE c == Chain(arrived, lens)
<1>1. /\ rx' = Append(rx, c) /\ arrived' = arrived + Sum(lens) /\ live' = live \cup Bufs(c)
      /\ shadow' = shadow /\ shadowNext' = shadowNext /\ held' = held /\ result' = result
  BY DEF Arrive, fields
<1>2. arrived \in Nat /\ Sum(lens) \in Nat
  BY SegLensType, SumType DEF Owned
<1>3. Proper(c) /\ \A b \in Bufs(c) : b \in Nat /\ arrived <= b /\ b < arrived + Sum(lens)
  BY <1>2, ChainProper
<1> HIDE DEF c
<1>4. Bufs(c) \cap live = {}
  <2> SUFFICES ASSUME NEW b \in Bufs(c), b \in live PROVE FALSE
    OBVIOUS
  <2>1. b \in Nat /\ arrived <= b /\ b < arrived
    BY <1>3 DEF Owned
  <2> QED
    BY <1>2, <2>1, SMT
<1>5. live = Ring(rx) \cup InShadow \cup WithApp /\ Ring(rx) \cap (InShadow \cup WithApp) = {}
      /\ InShadow \cap WithApp \subseteq Bufs(shadow)
  BY DEF Owned, BuffersAccounted, OnRing, Ring
<1>6. Distinct(rx') /\ Ring(rx') = Ring(rx) \cup Bufs(c)
  BY <1>1, <1>3, <1>4, <1>5, DistinctAppend DEF Owned
<1>7. OnRing' = Ring(rx')
  BY DEF OnRing, Ring, Bufs
<1>8. InShadow' = InShadow /\ (Bufs(shadow))' = Bufs(shadow)
  BY <1>1 DEF InShadow, Bufs
<1>9. WithApp' = WithApp
  BY <1>1 DEF WithApp, Bufs
<1>10. /\ live' = OnRing' \cup InShadow' \cup WithApp' /\ OnRing' \cap (InShadow' \cup WithApp') = {}
       /\ InShadow' \cap WithApp' \subseteq (Bufs(shadow))'
  BY <1>1, <1>4, <1>5, <1>6, <1>7, <1>8, <1>9
<1>11. BuffersAccounted'
  BY <1>10 DEF BuffersAccounted
<1>12. arrived' \in Nat /\ \A b \in live' : b \in Nat /\ b < arrived'
  <2>1. arrived' \in Nat
    BY <1>1, <1>2, SMT
  <2>2. ASSUME NEW b \in live PROVE b \in Nat /\ b < arrived'
    <3>1. b \in Nat /\ b < arrived
      BY DEF Owned
    <3> QED
      BY <1>1, <1>2, <3>1, SMT
  <2>3. ASSUME NEW b \in Bufs(c) PROVE b \in Nat /\ b < arrived'
    BY <1>1, <1>3
  <2> QED
    BY <1>1, <2>1, <2>2, <2>3
<1>13. (Distinct(rx))'
  BY <1>6 DEF Distinct, Proper, Record, Bufs
<1>14. (Proper(result.chain))' /\ (Proper(shadow))' /\ (Proper(shadowNext))'
  BY <1>1 DEF Owned, Proper, Record
<1>15. (Len(shadow) <= 1)' /\ (shadow = << >> => shadowNext = << >>)'
       /\ (Bufs(shadow) \cap Bufs(shadowNext) = {})'
  BY <1>1 DEF Owned, Bufs
<1>16. (held => LastIsShadow)'
  BY <1>1 DEF Owned, LastIsShadow, Bufs
<1> QED
  BY <1>11, <1>12, <1>13, <1>14, <1>15, <1>16 DEF Owned

(* At the start there is no buffer.                                          *)
LEMMA InitOwned ==
  ASSUME Init
  PROVE  Owned
<1>1. rx = << >> /\ arrived = 0 /\ shadow = << >> /\ shadowNext = << >> /\ held = FALSE
      /\ live = {} /\ result = Nothing
  BY DEF Init
<1>2. result.chain = << >>
  BY <1>1, SMT DEF Nothing
<1>3. 0 \in Nat /\ 0 <= 1 /\ << >> \in Seq({}) /\ DOMAIN << >> = {} /\ 1 .. 0 = {}
  BY SMT
<1>4. Distinct(rx)
  BY <1>1, <1>3, ProperNone DEF Distinct
<1>5. OnRing = {} /\ InShadow = {} /\ WithApp = {}
  BY <1>1, <1>3, ProperNone DEF OnRing, InShadow, WithApp
<1>6. BuffersAccounted
  BY <1>1, <1>5 DEF BuffersAccounted
<1> QED
  BY <1>1, <1>2, <1>3, <1>4, <1>6, ProperNone DEF Owned

(* Every buffer a chain arrives in is on the ring, in the shadow or with the *)
(* application until it releases it, and in one place only, whatever the     *)
(* lengths of the chains and the limits of service_receive:                  *)
(* service_release_rx_buffer frees what it should and nothing else.          *)
THEOREM BuffersAreAccounted == Spec => []BuffersAccounted
<1>1. Init => Owned
  BY InitOwned
<1>2. Owned /\ [Next]_vars => Owned'
  <2> SUFFICES ASSUME Owned, [Next]_vars PROVE Owned'
    OBVIOUS
  <2>1. ASSUME NEW lens \in SegLens, Arrive(lens) PROVE Owned'
    BY <2>1, ArriveOwned
  <2>2. ASSUME NEW limit \in Limits, Receive(limit) PROVE Owned'
    BY <2>2, ReceiveShadowLimitedOwned, ReceiveLimitedOwned, ReceiveShadowAllOwned, ReceiveAllOwned
       DEF Receive
  <2>3. CASE Release
    BY <2>3, ReleaseOwned
  <2>4. CASE UNCHANGED vars
    <3>1. rx' = rx /\ arrived' = arrived /\ shadow' = shadow /\ shadowNext' = shadowNext
          /\ held' = held /\ live' = live /\ result' = result
      BY <2>4 DEF vars, fields
    <3>2. BuffersAccounted'
      <4>1. OnRing' = OnRing
        <5>1. Ring(rx') = Ring(rx)
          BY <3>1
        <5>2. OnRing' = Ring(rx') /\ OnRing = Ring(rx)
          BY DEF OnRing, Ring, Bufs
        <5> QED
          BY <5>1, <5>2
      <4>2. InShadow' = InShadow /\ (Bufs(shadow))' = Bufs(shadow)
        BY <3>1 DEF InShadow, Bufs
      <4>3. WithApp' = WithApp
        BY <3>1 DEF WithApp, Bufs
      <4> QED
        BY <3>1, <4>1, <4>2, <4>3 DEF Owned, BuffersAccounted
    <3>3. (Distinct(rx))'
      <4>1. Distinct(rx')
        BY <3>1 DEF Owned
      <4> QED
        BY <4>1 DEF Distinct, Proper, Record, Bufs
    <3>4. (Proper(result.chain))' /\ (Proper(shadow))' /\ (Proper(shadowNext))'
      BY <3>1 DEF Owned, Proper, Record
    <3>5. (Len(shadow) <= 1)' /\ (shadow = << >> => shadowNext = << >>)'
          /\ (Bufs(shadow) \cap Bufs(shadowNext) = {})'
      BY <3>1 DEF Owned, Bufs
    <3>6. (held => LastIsShadow)'
      BY <3>1 DEF Owned, LastIsShadow, Bufs
    <3>7. arrived' \in Nat /\ \A b \in live' : b \in Nat /\ b < arrived'
      BY <3>1 DEF Owned
    <3> QED
      BY <3>2, <3>3, <3>4, <3>5, <3>6, <3>7 DEF Owned
  <2> QED
    BY <2>1, <2>2, <2>3, <2>4 DEF Next
<1>3. Owned => BuffersAccounted
  BY DEF Owned
<1> QED
  BY <1>1, <1>2, <1>3, PTL DEF Spec
=============================================================================
