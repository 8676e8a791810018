-------------------------- MODULE GlueSocketsProofs --------------------------
(***************************************************************************)
(* Proofs about GlueSockets, for any set of cells and slots.               *)
(*                                                                         *)
(* The functions of the socket layer come first: what each may change of a *)
(* net, stated for the one cell it is called for (Stays, Freed, Gone) and  *)
(* for the others (Apart).  Then the inductive invariant Ind, one lemma    *)
(* per action, and the properties of the module, which all follow from it. *)
(*                                                                         *)
(* The properties are not inductive on their own.  That a queued           *)
(* connection is announced needs that its listener listens, hence that it  *)
(* is open and has its upcall, or has been shut down since, which leaves   *)
(* it open and on the list it was on; that a closure is reported needs that every *)
(* held socket has one; that soclose frees the cell or leaves it to TCP    *)
(* needs that a held socket counts as open; and that no cell leaks needs   *)
(* all of these.                                                           *)
(***************************************************************************)
EXTENDS GlueSockets, TLAPS

USE ZenonT(20)

----------------------------------------------------------------------------
(* Lists and the pool: sequences in which no cell occurs twice.            *)

(* An appended cell is one more, and no second one if it was not there. *)
LEMMA AppendFacts ==
  ASSUME NEW s \in Seq(Cells), NEW k \in Cells
  PROVE  /\ Append(s, k) \in Seq(Cells) /\ Len(Append(s, k)) = Len(s) + 1
         /\ Range(Append(s, k)) = Range(s) \cup {k}
         /\ IsInjective(s) /\ k \notin Range(s) => IsInjective(Append(s, k))
<1>1. /\ Append(s, k) \in Seq(Cells) /\ Len(Append(s, k)) = Len(s) + 1 /\ Len(s) \in Nat
      /\ DOMAIN s = 1 .. Len(s) /\ DOMAIN Append(s, k) = 1 .. Len(s) + 1
      /\ Append(s, k)[Len(s) + 1] = k /\ \A i \in 1 .. Len(s) : Append(s, k)[i] = s[i]
  BY SMTT(30)
<1> DEFINE t == Append(s, k)
<1> HIDE DEF t
<1>2. \A i \in 1 .. Len(s) + 1 : i = Len(s) + 1 \/ i \in 1 .. Len(s)
  BY <1>1, SMTT(30)
<1>3. \A i \in 1 .. Len(s) : i \in 1 .. Len(s) + 1 /\ i # Len(s) + 1
  BY <1>1, SMTT(30)
<1>4. Len(s) + 1 \in 1 .. Len(s) + 1
  BY <1>1, SMTT(30)
<1>5. Range(t) = Range(s) \cup {k}
  <2>1. ASSUME NEW x \in Range(t) PROVE x \in Range(s) \cup {k}
    BY <1>1, <1>2, <2>1 DEF Range, t
  <2>2. ASSUME NEW x \in Range(s) \cup {k} PROVE x \in Range(t)
    BY <1>1, <1>3, <1>4, <2>2 DEF Range, t
  <2> QED
    BY <2>1, <2>2
<1>6. ASSUME IsInjective(s), k \notin Range(s) PROVE IsInjective(t)
  <2>1. SUFFICES ASSUME NEW a \in DOMAIN t, NEW b \in DOMAIN t, t[a] = t[b] PROVE a = b
    BY DEF IsInjective
  <2>2. CASE a = Len(s) + 1 /\ b # Len(s) + 1
    BY <1>1, <1>2, <1>6, <2>1, <2>2 DEF Range, t
  <2>3. CASE b = Len(s) + 1 /\ a # Len(s) + 1
    BY <1>1, <1>2, <1>6, <2>1, <2>3 DEF Range, t
  <2>4. CASE a # Len(s) + 1 /\ b # Len(s) + 1
    BY <1>1, <1>2, <1>6, <2>1, <2>4 DEF IsInjective, t
  <2> QED
    BY <2>2, <2>3, <2>4
<1> QED
  BY <1>1, <1>5, <1>6 DEF t

(* TAILQ_REMOVE takes the one occurrence of a cell off its list. *)
LEMMA WithoutFacts ==
  ASSUME NEW s \in Seq(Cells), NEW k, IsInjective(s)
  PROVE  /\ Without(s, k) \in Seq(Cells) /\ Len(Without(s, k)) <= Len(s)
         /\ Range(Without(s, k)) = Range(s) \ {k}
         /\ IsInjective(Without(s, k))
<1>1. Len(s) \in Nat /\ DOMAIN s = 1 .. Len(s) /\ \A i \in 1 .. Len(s) : s[i] \in Cells
  BY SMTT(30)
<1>2. CASE k \notin Range(s)
  <2>1. Without(s, k) = s
    BY <1>2 DEF Without
  <2> QED
    BY <1>1, <1>2, <2>1, SMTT(30)
<1>3. CASE k \in Range(s)
  <2> DEFINE i == CHOOSE j \in DOMAIN s : s[j] = k
             n == Len(s)
             t == [j \in 1 .. n - 1 |-> IF j < i THEN s[j] ELSE s[j + 1]]
  <2>1. Without(s, k) = t
    BY <1>3 DEF Without
  <2>2. i \in 1 .. n /\ s[i] = k
    BY <1>1, <1>3 DEF Range
  <2>3. \A j \in 1 .. n : s[j] = k => j = i
    BY <1>1, <2>2 DEF IsInjective
  <2> HIDE DEF i
  <2>4. n - 1 \in Nat /\ \A j \in 1 .. n - 1 : j \in 1 .. n /\ j + 1 \in 1 .. n
    BY <1>1, <2>2, SMTT(30)
  <2>5. t \in Seq(Cells) /\ Len(t) = n - 1 /\ DOMAIN t = 1 .. n - 1
    BY <1>1, <2>4, SMTT(30)
  <2> DEFINE at(j) == IF j < i THEN j ELSE j + 1
  <2>6. \A j \in 1 .. n - 1 : at(j) \in 1 .. n /\ at(j) # i /\ t[j] = s[at(j)]
    BY <1>1, <2>2, <2>4, SMTT(30)
  <2>7. \A x \in 1 .. n : x # i => \E j \in 1 .. n - 1 : at(j) = x
    <3> SUFFICES ASSUME NEW x \in 1 .. n, x # i PROVE \E j \in 1 .. n - 1 : at(j) = x
      OBVIOUS
    <3>1. CASE x < i
      BY <1>1, <2>2, <3>1, SMTT(30)
    <3>2. CASE ~(x < i)
      <4>1. x - 1 \in 1 .. n - 1 /\ at(x - 1) = x
        BY <1>1, <2>2, <3>2, SMTT(30)
      <4> QED
        BY <4>1
    <3> QED
      BY <3>1, <3>2
  <2>8. \A a, b \in 1 .. n - 1 : at(a) = at(b) => a = b
    BY <1>1, <2>2, SMTT(30)
  <2> HIDE DEF t, at
  <2>9. ASSUME NEW x \in Range(t) PROVE x \in Range(s) \ {k}
    <3>1. PICK j \in 1 .. n - 1 : x = t[j]
      BY <2>5, <2>9 DEF Range
    <3>2. at(j) \in 1 .. n /\ at(j) # i /\ x = s[at(j)]
      BY <2>6, <3>1
    <3> QED
      BY <1>1, <2>3, <3>2 DEF Range
  <2>10. ASSUME NEW x \in Range(s) \ {k} PROVE x \in Range(t)
    <3>1. PICK y \in 1 .. n : x = s[y]
      BY <1>1, <2>10 DEF Range
    <3>2. y # i
      BY <2>2, <2>10, <3>1
    <3>3. PICK j \in 1 .. n - 1 : at(j) = y
      BY <2>7, <3>2
    <3> QED
      BY <2>5, <2>6, <3>1, <3>3 DEF Range
  <2>11. IsInjective(t)
    <3>1. SUFFICES ASSUME NEW a \in 1 .. n - 1, NEW b \in 1 .. n - 1, t[a] = t[b] PROVE a = b
      BY <2>5 DEF IsInjective
    <3>2. s[at(a)] = s[at(b)] /\ at(a) \in DOMAIN s /\ at(b) \in DOMAIN s
      BY <1>1, <2>6, <3>1
    <3> QED
      BY <2>8, <3>2 DEF IsInjective
  <2>12. n - 1 <= n
    BY <1>1, SMTT(30)
  <2> QED
    BY <2>1, <2>5, <2>9, <2>10, <2>11, <2>12
<1> QED
  BY <1>2, <1>3

----------------------------------------------------------------------------
(* The fields of a socket layer, and what every update must keep: the      *)
(* flags of a socket say which lists it is on, it is on each at most once, *)
(* the counters cover their lists, and no cell is in the pool twice.       *)

ListsAgree(w) ==
  /\ \A n \in Lists : w.present[n] = Range(w.list[n]) /\ IsInjective(w.list[n])
  /\ \A n \in Counted : w.len[n] >= Len(w.list[n])

WellFormed(w) ==
  /\ w \in NetType /\ ListsAgree(w)
  /\ IsInjective(w.pool) /\ w.aborting = {}

(* The types of the fields. *)
LEMMA NetFields ==
  ASSUME NEW w \in NetType
  PROVE  /\ w.pcb \in [Cells -> States \cup {"udp", None}]
         /\ w.st \in [Cells -> SUBSET Flags]
         /\ w.stream \subseteq Cells /\ w.upcall \subseteq Cells /\ w.aborting \subseteq Cells
         /\ w.head \in [Cells -> Cells \cup {None}]
         /\ w.q \in [Cells -> Seq(Cells)]
         /\ w.glue \in [Cells -> Slots \cup {None}]
         /\ w.list \in [Lists -> Seq(Cells)]
         /\ w.present \in [Lists -> SUBSET Cells]
         /\ w.len \in [Counted -> Nat]
         /\ w.pool \in Seq(Cells)
  BY DEF NetType

(* Everything but the lists is the same. *)

SameSockets(w, v) ==
  /\ v.pcb = w.pcb /\ v.st = w.st /\ v.stream = w.stream /\ v.head = w.head
  /\ v.q = w.q /\ v.upcall = w.upcall /\ v.pool = w.pool /\ v.aborting = w.aborting

(* What a wakeup may do: put cell k on lists. *)

Announced(w, v, k) ==
  /\ WellFormed(v) /\ SameSockets(w, v)
  /\ \A n \in Lists : w.present[n] \subseteq v.present[n] /\ v.present[n] \subseteq w.present[n] \cup {k}

(* A cell put on a list it was not on, and counted where the list has a    *)
(* counter.                                                                *)
LEMMA Inserted ==
  ASSUME NEW w, WellFormed(w), NEW n \in Lists, NEW k \in Cells, k \notin w.present[n],
         NEW v, v \in NetType, SameSockets(w, v),
         v.list[n] = Append(w.list[n], k), v.present[n] = w.present[n] \cup {k},
         \A m \in Lists : m # n => v.list[m] = w.list[m] /\ v.present[m] = w.present[m],
         \A m \in Counted : v.len[m] = IF m = n THEN w.len[m] + 1 ELSE w.len[m]
  PROVE  Announced(w, v, k) /\ k \in v.present[n]
<1> DEFINE s == w.list[n]
<1>1. w \in NetType /\ ListsAgree(w)
  BY DEF WellFormed
<1>2. s \in Seq(Cells) /\ w.present[n] = Range(s) /\ IsInjective(s)
  BY <1>1, NetFields DEF ListsAgree
<1> HIDE DEF s
<1>3. /\ Append(s, k) \in Seq(Cells) /\ Len(Append(s, k)) = Len(s) + 1
      /\ Range(Append(s, k)) = Range(s) \cup {k} /\ IsInjective(Append(s, k))
  <2>1. k \notin Range(s)
    BY <1>2
  <2> QED
    BY <1>2, <2>1, AppendFacts
<1>4. \A m \in Lists : v.present[m] = Range(v.list[m]) /\ IsInjective(v.list[m])
  <2>1. v.present[n] = Range(v.list[n]) /\ IsInjective(v.list[n])
    BY <1>2, <1>3 DEF s
  <2> QED
    BY <1>1, <2>1 DEF ListsAgree
<1>5. ASSUME NEW m \in Counted PROVE v.len[m] >= Len(v.list[m])
  <2>1. m \in Lists /\ w.len[m] \in Nat /\ w.len[m] >= Len(w.list[m])
    BY <1>1, NetFields DEF ListsAgree, Counted, Lists
  <2>2. CASE m = n
    <3>1. v.len[m] = w.len[m] + 1 /\ Len(v.list[m]) = Len(s) + 1 /\ w.len[m] >= Len(s)
      BY <1>3, <2>1, <2>2 DEF s
    <3>2. Len(s) \in Nat
      BY <1>2, SMTT(30)
    <3> QED
      BY <2>1, <3>1, <3>2, SMTT(30)
  <2>3. CASE m # n
    BY <2>1, <2>3
  <2> QED
    BY <2>2, <2>3
<1>6. WellFormed(v)
  BY <1>4, <1>5 DEF WellFormed, ListsAgree, SameSockets
<1>7. \A m \in Lists : w.present[m] \subseteq v.present[m]
                        /\ v.present[m] \subseteq w.present[m] \cup {k}
  <2>1. w.present[n] \subseteq v.present[n] /\ v.present[n] \subseteq w.present[n] \cup {k}
    OBVIOUS
  <2> QED
    BY <2>1
<1> QED
  BY <1>6, <1>7 DEF Announced

(* A socket is put on a list once. *)
LEMMA InsertFacts ==
  ASSUME NEW w, WellFormed(w), NEW n \in Lists, NEW k \in Cells
  PROVE  Announced(w, Insert(w, n, k), k) /\ k \in Insert(w, n, k).present[n]
<1> DEFINE v == Insert(w, n, k)
<1>1. w \in NetType
  BY DEF WellFormed
<1>2. CASE k \in w.present[n]
  <2>1. v = w
    BY <1>2 DEF Insert
  <2> QED
    BY <1>2, <2>1 DEF Announced, SameSockets
<1>3. CASE k \notin w.present[n]
  <2>1. /\ w.list \in [Lists -> Seq(Cells)] /\ w.present \in [Lists -> SUBSET Cells]
        /\ w.len \in [Counted -> Nat]
    BY <1>1, NetFields
  <2>2. /\ v.list = [w.list EXCEPT ![n] = Append(@, k)]
        /\ v.present = [w.present EXCEPT ![n] = @ \cup {k}]
        /\ v.len = [c \in Counted |-> IF c = n THEN w.len[c] + 1 ELSE w.len[c]]
        /\ SameSockets(w, v)
    BY <1>1, <1>3, SMTT(30) DEF Insert, NetType, SameSockets
  <2>3. Append(w.list[n], k) \in Seq(Cells)
    BY <2>1, AppendFacts
  <2>4. [c \in Counted |-> IF c = n THEN w.len[c] + 1 ELSE w.len[c]] \in [Counted -> Nat]
    BY <2>1, SMTT(30)
  <2>5. v \in NetType
    BY ZenonT(60), <1>1, <1>3, <2>1, <2>3, <2>4 DEF Insert, NetType
  <2> HIDE DEF v
  <2>6. /\ v.list[n] = Append(w.list[n], k) /\ v.present[n] = w.present[n] \cup {k}
        /\ \A m \in Lists : m # n => v.list[m] = w.list[m] /\ v.present[m] = w.present[m]
        /\ \A m \in Counted : v.len[m] = IF m = n THEN w.len[m] + 1 ELSE w.len[m]
    BY <2>1, <2>2
  <2> QED
    BY <1>3, <2>2, <2>5, <2>6, Inserted DEF v
<1> QED
  BY <1>2, <1>3

(* The list of the waiters has no counter. *)
LEMMA WaiterInserted ==
  ASSUME NEW w, WellFormed(w), NEW k \in Cells
  PROVE  Announced(w, InsertUncounted(w, "wait", k), k)
<1> DEFINE v == InsertUncounted(w, "wait", k)
<1>0. "wait" \in Lists /\ \A m \in Counted : m # "wait"
  BY DEF Lists, Counted
<1>1. w \in NetType
  BY DEF WellFormed
<1>2. CASE k \in w.present["wait"]
  <2>1. v = w
    BY <1>2 DEF InsertUncounted
  <2> QED
    BY <1>2, <2>1 DEF Announced, SameSockets
<1>3. CASE k \notin w.present["wait"]
  <2>1. /\ w.list \in [Lists -> Seq(Cells)] /\ w.present \in [Lists -> SUBSET Cells]
    BY <1>1, NetFields
  <2>2. /\ v.list = [w.list EXCEPT !["wait"] = Append(@, k)]
        /\ v.present = [w.present EXCEPT !["wait"] = @ \cup {k}]
        /\ v.len = w.len /\ SameSockets(w, v)
    BY <1>1, <1>3, SMTT(30) DEF InsertUncounted, NetType, SameSockets
  <2>3. Append(w.list["wait"], k) \in Seq(Cells)
    BY <1>0, <2>1, AppendFacts
  <2>4. v \in NetType
    BY ZenonT(60), <1>0, <1>1, <1>3, <2>1, <2>3 DEF InsertUncounted, NetType
  <2> HIDE DEF v
  <2>5. /\ v.list["wait"] = Append(w.list["wait"], k)
        /\ v.present["wait"] = w.present["wait"] \cup {k}
        /\ \A m \in Lists : m # "wait" => v.list[m] = w.list[m] /\ v.present[m] = w.present[m]
        /\ \A m \in Counted : v.len[m] = IF m = "wait" THEN w.len[m] + 1 ELSE w.len[m]
    BY <1>0, <2>1, <2>2
  <2> QED
    BY <1>0, <1>3, <2>2, <2>4, <2>5, Inserted DEF v
<1> QED
  BY <1>2, <1>3

(* Two wakeups of the same socket make one. *)
LEMMA AnnouncedTwice ==
  ASSUME NEW w, NEW u, NEW v, NEW k, Announced(w, u, k), Announced(u, v, k)
  PROVE  Announced(w, v, k)
<1>1. \A n \in Lists : w.present[n] \subseteq v.present[n] /\ v.present[n] \subseteq w.present[n] \cup {k}
  BY DEF Announced
<1>2. SameSockets(w, v)
  BY DEF Announced, SameSockets
<1> QED
  BY <1>1, <1>2 DEF Announced

(* A wakeup of a socket with an upcall announces it: on the list of closed *)
(* sockets once it is disconnected, on the list of listeners while it      *)
(* listens.  A socket without an upcall is put on no list.                 *)
LEMMA WakeupFacts ==
  ASSUME NEW w, WellFormed(w), NEW k \in Cells, NEW room
  PROVE  LET v == Wakeup(w, k, room) IN
         /\ Announced(w, v, k)
         /\ k \notin w.upcall => v.present = w.present
         /\ k \in w.upcall /\ "DISCONNECTED" \in w.st[k] => k \in v.present["closed"]
         /\ k \in w.upcall /\ "DISCONNECTED" \notin w.st[k] /\ w.pcb[k] = "LISTEN" =>
              k \in v.present["accept"]
<1> DEFINE u == SockReadable(w, k)
           v == SockWriteSpace(u, k, room)
<1>0. "closed" \in Lists /\ "accept" \in Lists /\ "read" \in Lists /\ "write" \in Lists
  BY DEF Lists
<1>1. Announced(w, w, k)
  BY DEF Announced, SameSockets
<1>2. Announced(w, u, k)
  BY <1>0, <1>1, InsertFacts DEF SockReadable
<1>3. "DISCONNECTED" \in w.st[k] => k \in u.present["closed"]
  BY <1>0, InsertFacts DEF SockReadable
<1>4. "DISCONNECTED" \notin w.st[k] /\ w.pcb[k] = "LISTEN" => k \in u.present["accept"]
  BY <1>0, InsertFacts DEF SockReadable
<1> HIDE DEF u
<1>5. WellFormed(u)
  BY <1>2 DEF Announced
<1>6. Announced(u, u, k)
  BY <1>5 DEF Announced, SameSockets
<1>7. Announced(u, v, k)
  BY <1>0, <1>5, <1>6, InsertFacts DEF SockWriteSpace
<1>8. Wakeup(w, k, room) = IF k \in w.upcall THEN v ELSE w
  BY DEF Wakeup, u
<1> HIDE DEF v
<1>9. Announced(w, v, k)
  BY <1>2, <1>7, AnnouncedTwice
<1>10. \A n \in Lists : u.present[n] \subseteq v.present[n]
  BY <1>7 DEF Announced
<1> QED
  BY <1>0, <1>1, <1>3, <1>4, <1>8, <1>9, <1>10

----------------------------------------------------------------------------
(* How the functions of the socket layer change the one socket they are    *)
(* called for.  Apart: the other cells, and the accept queues, are as they *)
(* were.  Stays: k is still allocated and open or not open as before, it   *)
(* leaves no list, joins one only through its upcall, and if it has become *)
(* disconnected its upcall has put it on the list of closed sockets.       *)
(* Freed: k has gone back to the pool.                                     *)

Apart(w, v, k) ==
  /\ WellFormed(v) /\ v.head = w.head /\ v.q = w.q
  /\ \A c \in Cells \ {k} :
       /\ v.pcb[c] = w.pcb[c] /\ v.st[c] = w.st[c]
       /\ (c \in v.upcall <=> c \in w.upcall) /\ (c \in v.stream <=> c \in w.stream)
       /\ (c \in Range(v.pool) <=> c \in Range(w.pool))
       /\ \A n \in Lists : c \in v.present[n] <=> c \in w.present[n]

Stays(w, v, k) ==
  /\ Apart(w, v, k)
  /\ v.pool = w.pool /\ v.upcall = w.upcall /\ v.stream = w.stream
  /\ \A n \in Lists : w.present[n] \subseteq v.present[n]
  /\ k \notin w.upcall => v.present = w.present
  /\ "NOFDREF" \in v.st[k] <=> "NOFDREF" \in w.st[k]
  /\ "DISCONNECTED" \in w.st[k] => "DISCONNECTED" \in v.st[k]
  /\ k \in w.upcall /\ "DISCONNECTED" \in v.st[k] =>
       "DISCONNECTED" \in w.st[k] \/ k \in v.present["closed"]

Freed(w, v, k) ==
  /\ Apart(w, v, k)
  /\ v.pcb[k] = None /\ v.st[k] = {} /\ k \notin v.upcall /\ k \notin v.stream
  /\ k \in Range(v.pool)

(* Two changes of the same cell make one. *)
LEMMA ApartTwice ==
  ASSUME NEW w, NEW u, NEW v, NEW k, Apart(w, u, k), Apart(u, v, k)
  PROVE  Apart(w, v, k)
  BY DEF Apart

(* A socket that stays through two changes stays. *)
LEMMA StaysTwice ==
  ASSUME NEW w, NEW u, NEW v, NEW k, Stays(w, u, k), Stays(u, v, k)
  PROVE  Stays(w, v, k)
<1>1. Apart(w, v, k)
  BY ApartTwice DEF Stays
<1>2. v.pool = w.pool /\ v.upcall = w.upcall /\ v.stream = w.stream
  BY DEF Stays
<1>3. \A n \in Lists : w.present[n] \subseteq v.present[n]
  BY DEF Stays
<1>4. k \notin w.upcall => v.present = w.present
  BY DEF Stays
<1>5. /\ "NOFDREF" \in v.st[k] <=> "NOFDREF" \in w.st[k]
      /\ "DISCONNECTED" \in w.st[k] => "DISCONNECTED" \in v.st[k]
  BY DEF Stays
<1>6. "closed" \in Lists
  BY DEF Lists
<1>7. k \in w.upcall /\ "DISCONNECTED" \in v.st[k] =>
        "DISCONNECTED" \in w.st[k] \/ k \in v.present["closed"]
  BY <1>6 DEF Stays
<1> QED
  BY <1>1, <1>2, <1>3, <1>4, <1>5, <1>7 DEF Stays

(* A socket may change before it is freed. *)
LEMMA StaysThenFreed ==
  ASSUME NEW w, NEW u, NEW v, NEW k, Stays(w, u, k), Freed(u, v, k)
  PROVE  Freed(w, v, k)
  BY ApartTwice DEF Stays, Freed

(* No change is one the socket stays through. *)
LEMMA StaysItself ==
  ASSUME NEW w, WellFormed(w), NEW k
  PROVE  Stays(w, w, k)
  BY DEF Stays, Apart

(* Only the flags and the control block of k differ. *)

Touched(w, v, k) ==
  /\ WellFormed(v)
  /\ v.present = w.present /\ v.stream = w.stream /\ v.head = w.head /\ v.q = w.q
  /\ v.upcall = w.upcall /\ v.pool = w.pool
  /\ \A c \in Cells \ {k} : v.pcb[c] = w.pcb[c] /\ v.st[c] = w.st[c]

SetPcb(w, k, p) == [w EXCEPT !.pcb[k] = p]

(* so_state changes, and nothing else does. *)
LEMMA SetStateFacts ==
  ASSUME NEW w, WellFormed(w), NEW k \in Cells, NEW on, on \subseteq Flags, NEW off
  PROVE  LET v == SetState(w, k, on, off) IN
         /\ Touched(w, v, k) /\ v.pcb = w.pcb
         /\ \A f : f \in v.st[k] <=> (f \in w.st[k] /\ f \notin off) \/ f \in on
<1> DEFINE v == SetState(w, k, on, off)
<1>1. w \in NetType
  BY DEF WellFormed
<1>2. w.st \in [Cells -> SUBSET Flags]
  BY <1>1, NetFields
<1>3. /\ v.st = [w.st EXCEPT ![k] = (@ \ off) \cup on]
      /\ v.pcb = w.pcb /\ v.stream = w.stream /\ v.head = w.head /\ v.q = w.q
      /\ v.upcall = w.upcall /\ v.list = w.list /\ v.present = w.present
      /\ v.len = w.len /\ v.aborting = w.aborting /\ v.pool = w.pool
  BY <1>1, SMTT(30) DEF NetType, SetState
<1>4. (w.st[k] \ off) \cup on \in SUBSET Flags
  BY <1>2
<1>5. v \in NetType
  BY <1>1, <1>4 DEF NetType, SetState
<1> HIDE DEF v
<1>6. v.st[k] = (w.st[k] \ off) \cup on /\ \A c \in Cells \ {k} : v.st[c] = w.st[c]
  BY <1>2, <1>3
<1>7. WellFormed(v)
  BY <1>3, <1>5 DEF WellFormed, ListsAgree
<1>8. \A f : f \in v.st[k] <=> (f \in w.st[k] /\ f \notin off) \/ f \in on
  BY <1>6
<1> QED
  BY <1>3, <1>6, <1>7, <1>8 DEF Touched, v

(* The control block changes, and nothing else does. *)
LEMMA SetPcbFacts ==
  ASSUME NEW w, WellFormed(w), NEW k \in Cells, NEW p \in States \cup {"udp", None}
  PROVE  LET v == SetPcb(w, k, p) IN
         Touched(w, v, k) /\ v.st = w.st /\ v.pcb[k] = p
<1> DEFINE v == SetPcb(w, k, p)
<1>1. w \in NetType
  BY DEF WellFormed
<1>2. w.pcb \in [Cells -> States \cup {"udp", None}]
  BY <1>1, NetFields
<1>3. /\ v.pcb = [w.pcb EXCEPT ![k] = p]
      /\ v.st = w.st /\ v.stream = w.stream /\ v.head = w.head /\ v.q = w.q
      /\ v.upcall = w.upcall /\ v.list = w.list /\ v.present = w.present
      /\ v.len = w.len /\ v.aborting = w.aborting /\ v.pool = w.pool
  BY <1>1, SMTT(30) DEF NetType, SetPcb
<1>5. v \in NetType
  BY <1>1 DEF NetType, SetPcb
<1> HIDE DEF v
<1>6. v.pcb[k] = p /\ \A c \in Cells \ {k} : v.pcb[c] = w.pcb[c]
  BY <1>2, <1>3
<1>7. WellFormed(v)
  BY <1>3, <1>5 DEF WellFormed, ListsAgree
<1> QED
  BY <1>3, <1>6, <1>7 DEF Touched, v

(* Such a change leaves the other cells alone. *)
LEMMA TouchedApart ==
  ASSUME NEW w, NEW v, NEW k, Touched(w, v, k)
  PROVE  Apart(w, v, k)
  BY DEF Touched, Apart

(* A new state of the control block leaves the rest of the socket alone. *)
LEMMA SetPcbStays ==
  ASSUME NEW w, WellFormed(w), NEW k \in Cells, NEW p \in States \cup {"udp", None}
  PROVE  LET v == SetPcb(w, k, p) IN Stays(w, v, k) /\ v.pcb[k] = p /\ v.st = w.st
<1> DEFINE v == SetPcb(w, k, p)
<1>1. Touched(w, v, k) /\ v.st = w.st /\ v.pcb[k] = p
  BY SetPcbFacts
<1> HIDE DEF v
<1>2. Apart(w, v, k)
  BY <1>1, TouchedApart
<1>3. Stays(w, v, k)
  BY <1>1, <1>2 DEF Stays, Touched
<1> QED
  BY <1>1, <1>3 DEF v

(* A change of so_state followed by a wakeup: what soisconnected,          *)
(* soisdisconnected, socantsendmore and the like do.  None of them sets or *)
(* clears NOFDREF, none clears DISCONNECTED.                               *)

Marks(on, off) ==
  on \subseteq Flags \ {"NOFDREF"} /\ off \subseteq Flags \ {"NOFDREF", "DISCONNECTED"}

(* The socket stays through the change of its flags and the wakeup that    *)
(* follows.                                                                *)
LEMMA MarkedAndWoken ==
  ASSUME NEW w, WellFormed(w), NEW k \in Cells, NEW room, NEW on, NEW off, Marks(on, off),
         NEW v, v = Wakeup(SetState(w, k, on, off), k, room)
  PROVE  /\ Stays(w, v, k) /\ v.pcb = w.pcb
         /\ \A f : f \in v.st[k] <=> (f \in w.st[k] /\ f \notin off) \/ f \in on
<1> DEFINE u == SetState(w, k, on, off)
<1>0. on \subseteq Flags
  BY DEF Marks
<1>1. /\ Touched(w, u, k) /\ u.pcb = w.pcb
      /\ \A f : f \in u.st[k] <=> (f \in w.st[k] /\ f \notin off) \/ f \in on
  BY <1>0, SetStateFacts
<1> HIDE DEF u
<1>2. WellFormed(u)
  BY <1>1 DEF Touched
<1>3. /\ Announced(u, v, k) /\ (k \notin u.upcall => v.present = u.present)
      /\ (k \in u.upcall /\ "DISCONNECTED" \in u.st[k] => k \in v.present["closed"])
  BY <1>2, WakeupFacts DEF u
<1>4. /\ v.pcb = w.pcb /\ v.st = u.st /\ v.stream = w.stream /\ v.head = w.head /\ v.q = w.q
      /\ v.upcall = w.upcall /\ v.pool = w.pool /\ WellFormed(v)
  BY <1>1, <1>3 DEF Announced, SameSockets, Touched
<1>5. \A n \in Lists : w.present[n] \subseteq v.present[n]
                       /\ v.present[n] \subseteq w.present[n] \cup {k}
  BY <1>1, <1>3 DEF Announced, Touched
<1>6. \A c \in Cells \ {k} : v.pcb[c] = w.pcb[c] /\ v.st[c] = w.st[c]
  BY <1>1, <1>4 DEF Touched
<1>7. Apart(w, v, k)
  BY <1>4, <1>5, <1>6 DEF Apart
<1>8. /\ "NOFDREF" \in v.st[k] <=> "NOFDREF" \in w.st[k]
      /\ "DISCONNECTED" \in w.st[k] => "DISCONNECTED" \in v.st[k]
  BY <1>1, <1>4 DEF Marks
<1>9. /\ k \notin w.upcall => v.present = w.present
      /\ k \in w.upcall /\ "DISCONNECTED" \in v.st[k] => k \in v.present["closed"]
  BY <1>1, <1>3, <1>4 DEF Touched
<1>10. Stays(w, v, k)
  BY <1>4, <1>5, <1>7, <1>8, <1>9 DEF Stays
<1> QED
  BY <1>1, <1>4, <1>10

(* The functions that mark and wake. *)
LEMMA MarkFacts ==
  ASSUME NEW w, WellFormed(w), NEW k \in Cells
  PROVE  /\ Stays(w, SoIsConnected(w, k), k) /\ SoIsConnected(w, k).pcb = w.pcb
         /\ Stays(w, SoIsDisconnecting(w, k), k) /\ SoIsDisconnecting(w, k).pcb = w.pcb
         /\ Stays(w, SoIsDisconnected(w, k), k) /\ SoIsDisconnected(w, k).pcb = w.pcb
         /\ "DISCONNECTED" \in SoIsDisconnected(w, k).st[k]
<1> DEFINE yes == TRUE
<1>1. Stays(w, SoIsConnected(w, k), k) /\ SoIsConnected(w, k).pcb = w.pcb
  <2> DEFINE on == {"CONNECTED"}
             off == {"CONNECTING", "DISCONNECTING"}
  <2>1. Marks(on, off)
    BY DEF Marks, Flags
  <2>2. SoIsConnected(w, k) = Wakeup(SetState(w, k, on, off), k, yes)
    BY DEF SoIsConnected
  <2> HIDE DEF on, off, yes
  <2> QED
    BY <2>1, <2>2, MarkedAndWoken, SMTT(30)
<1>2. Stays(w, SoIsDisconnecting(w, k), k) /\ SoIsDisconnecting(w, k).pcb = w.pcb
  <2> DEFINE on == {"DISCONNECTING", "CANTRCVMORE", "CANTSENDMORE"}
             off == {"CONNECTING"}
  <2>1. Marks(on, off)
    BY DEF Marks, Flags
  <2>2. SoIsDisconnecting(w, k) = Wakeup(SetState(w, k, on, off), k, yes)
    BY DEF SoIsDisconnecting
  <2> HIDE DEF on, off, yes
  <2> QED
    BY <2>1, <2>2, MarkedAndWoken, SMTT(30)
<1>3. /\ Stays(w, SoIsDisconnected(w, k), k) /\ SoIsDisconnected(w, k).pcb = w.pcb
      /\ "DISCONNECTED" \in SoIsDisconnected(w, k).st[k]
  <2> DEFINE on == {"CANTRCVMORE", "CANTSENDMORE", "DISCONNECTED"}
             off == {"CONNECTING", "CONNECTED", "DISCONNECTING"}
             v == SoIsDisconnected(w, k)
  <2>1. Marks(on, off) /\ "DISCONNECTED" \in on
    BY DEF Marks, Flags
  <2>2. v = Wakeup(SetState(w, k, on, off), k, yes)
    BY DEF SoIsDisconnected
  <2> HIDE DEF on, off, yes, v
  <2>3. /\ Stays(w, v, k) /\ v.pcb = w.pcb
        /\ \A f : f \in v.st[k] <=> (f \in w.st[k] /\ f \notin off) \/ f \in on
    BY <2>1, <2>2, MarkedAndWoken, SMTT(30)
  <2>4. "DISCONNECTED" \in v.st[k]
    BY <2>1, <2>3
  <2> QED
    BY <2>3, <2>4 DEF v
<1> QED
  BY <1>1, <1>2, <1>3

(* socantrcvmore and socantsendmore keep the control block and do not      *)
(* disconnect.                                                             *)
LEMMA CantFacts ==
  ASSUME NEW w, WellFormed(w), NEW k \in Cells, NEW room
  PROVE  /\ Stays(w, SoCantRcvMore(w, k, room), k) /\ SoCantRcvMore(w, k, room).pcb = w.pcb
         /\ Stays(w, SoCantSendMore(w, k, room), k) /\ SoCantSendMore(w, k, room).pcb = w.pcb
         /\ "DISCONNECTED" \in SoCantRcvMore(w, k, room).st[k] => "DISCONNECTED" \in w.st[k]
         /\ "DISCONNECTED" \in SoCantSendMore(w, k, room).st[k] => "DISCONNECTED" \in w.st[k]
<1> DEFINE on == {"CANTRCVMORE"}
           send == {"CANTSENDMORE"}
           none == {}
           v == SoCantRcvMore(w, k, room)
           u == SoCantSendMore(w, k, room)
<1>1. /\ Marks(on, none) /\ Marks(send, none)
      /\ "DISCONNECTED" \notin on /\ "DISCONNECTED" \notin send
  BY DEF Marks, Flags
<1>2. v = Wakeup(SetState(w, k, on, none), k, room)
  BY DEF SoCantRcvMore
<1>3. u = Wakeup(SetState(w, k, send, none), k, room)
  BY DEF SoCantSendMore
<1> HIDE DEF on, send, none, v, u
<1>4. /\ Stays(w, v, k) /\ v.pcb = w.pcb
      /\ \A f : f \in v.st[k] <=> (f \in w.st[k] /\ f \notin none) \/ f \in on
  BY <1>1, <1>2, MarkedAndWoken, SMTT(30)
<1>5. /\ Stays(w, u, k) /\ u.pcb = w.pcb
      /\ \A f : f \in u.st[k] <=> (f \in w.st[k] /\ f \notin none) \/ f \in send
  BY <1>1, <1>3, MarkedAndWoken, SMTT(30)
<1> QED
  BY <1>1, <1>4, <1>5 DEF v, u

----------------------------------------------------------------------------
(* The end of a socket. *)

(* soput: the cell is wiped and goes to the end of the pool. *)
LEMMA SoPutFacts ==
  ASSUME NEW w, WellFormed(w), NEW k \in Cells, k \notin Range(w.pool), w.pcb[k] = None
  PROVE  Freed(w, SoPut(w, k), k)
<1> DEFINE v == SoPut(w, k)
<1>1. w \in NetType /\ ListsAgree(w) /\ IsInjective(w.pool) /\ w.aborting = {}
  BY DEF WellFormed
<1>2. /\ w.st \in [Cells -> SUBSET Flags] /\ w.pool \in Seq(Cells)
      /\ w.stream \subseteq Cells /\ w.upcall \subseteq Cells
      /\ w.glue \in [Cells -> Slots \cup {None}]
  BY <1>1, NetFields
<1>3. /\ v.st = [w.st EXCEPT ![k] = {}] /\ v.pool = Append(w.pool, k)
      /\ v.stream = w.stream \ {k} /\ v.upcall = w.upcall \ {k}
      /\ v.pcb = w.pcb /\ v.head = w.head /\ v.q = w.q /\ v.list = w.list
      /\ v.present = w.present /\ v.len = w.len /\ v.aborting = w.aborting
  BY <1>1, SMTT(30) DEF NetType, SoPut
<1>4. /\ Append(w.pool, k) \in Seq(Cells) /\ Range(Append(w.pool, k)) = Range(w.pool) \cup {k}
      /\ IsInjective(Append(w.pool, k))
  <2> DEFINE s == w.pool
  <2>1. s \in Seq(Cells) /\ IsInjective(s) /\ k \notin Range(s)
    BY <1>1, <1>2
  <2> HIDE DEF s
  <2>2. /\ Append(s, k) \in Seq(Cells) /\ Range(Append(s, k)) = Range(s) \cup {k}
        /\ IsInjective(Append(s, k))
    BY <2>1, AppendFacts
  <2> QED
    BY <2>2 DEF s
<1>5. v \in NetType
  <2>1. w.stream \ {k} \in SUBSET Cells /\ w.upcall \ {k} \in SUBSET Cells
        /\ {} \in SUBSET Flags /\ Append(w.pool, k) \in Seq(Cells)
        /\ (IF k \in w.present["wait"] THEN w.glue[k] ELSE None) \in Slots \cup {None}
    BY <1>2, <1>4
  <2> QED
    BY ZenonT(60), <1>1, <2>1 DEF NetType, SoPut
<1> HIDE DEF v
<1>6. v.st[k] = {} /\ \A c \in Cells \ {k} : v.st[c] = w.st[c]
  BY <1>2, <1>3
<1>7. WellFormed(v)
  BY <1>1, <1>3, <1>4, <1>5 DEF WellFormed, ListsAgree
<1>8. \A c \in Cells \ {k} : c \in Range(v.pool) <=> c \in Range(w.pool)
  BY <1>3, <1>4
<1>9. Apart(w, v, k)
  BY <1>3, <1>6, <1>7, <1>8 DEF Apart
<1> QED
  BY <1>3, <1>4, <1>6, <1>9 DEF Freed, v

(* sofree frees a socket without a control block that counts as not open   *)
(* and is on no accept queue.                                              *)
LEMMA SoFreeFacts ==
  ASSUME NEW w, WellFormed(w), NEW k \in Cells, k \notin Range(w.pool)
  PROVE  IF w.pcb[k] # None \/ "NOFDREF" \notin w.st[k] \/ w.head[k] # None
           THEN SoFree(w, k) = w
           ELSE Freed(w, SoFree(w, k), k)
<1>1. CASE w.pcb[k] # None \/ "NOFDREF" \notin w.st[k] \/ w.head[k] # None
  BY <1>1 DEF SoFree
<1>2. CASE ~(w.pcb[k] # None \/ "NOFDREF" \notin w.st[k] \/ w.head[k] # None)
  <2> DEFINE u == SoCantRcvMore(w, k, FALSE)
  <2>1. k \notin w.aborting
    BY DEF WellFormed
  <2>2. SoFree(w, k) = SoPut(u, k)
    BY <1>2, <2>1 DEF SoFree
  <2>3. Stays(w, u, k) /\ u.pcb = w.pcb
    BY CantFacts
  <2> HIDE DEF u
  <2>4. WellFormed(u) /\ k \notin Range(u.pool) /\ u.pcb[k] = None
    BY <1>2, <2>3 DEF Stays, Apart
  <2>5. Freed(u, SoPut(u, k), k)
    BY <2>4, SoPutFacts
  <2> QED
    BY <1>2, <2>2, <2>3, <2>5, StaysThenFreed
<1> QED
  BY <1>1, <1>2

(* A control block given up: the socket goes with it when nothing else     *)
(* refers to it.                                                           *)
LEMMA PcbDetachFacts ==
  ASSUME NEW w, WellFormed(w), NEW k \in Cells, k \notin Range(w.pool)
  PROVE  LET v == PcbDetach(w, k) IN
         IF "NOFDREF" \in w.st[k] /\ w.head[k] = None
           THEN Freed(w, v, k)
           ELSE Stays(w, v, k) /\ v.pcb[k] = None /\ v.st = w.st
<1> DEFINE u == SetPcb(w, k, None)
           v == PcbDetach(w, k)
<1>1. None \in States \cup {"udp", None}
  OBVIOUS
<1>2. Stays(w, u, k) /\ u.pcb[k] = None /\ u.st = w.st
  BY <1>1, SetPcbStays
<1>3. v = SoFree(u, k)
  BY DEF PcbDetach, SetPcb
<1> HIDE DEF u, v
<1>4. WellFormed(u) /\ k \notin Range(u.pool) /\ u.head = w.head
  BY <1>2 DEF Stays, Apart
<1>5. CASE "NOFDREF" \in w.st[k] /\ w.head[k] = None
  <2>1. Freed(u, v, k)
    BY <1>2, <1>3, <1>4, <1>5, SoFreeFacts
  <2> QED
    BY <1>2, <1>5, <2>1, StaysThenFreed DEF v
<1>6. CASE ~("NOFDREF" \in w.st[k] /\ w.head[k] = None)
  <2>1. v = u
    BY <1>2, <1>3, <1>4, <1>6, SoFreeFacts
  <2> QED
    BY <1>2, <1>6, <2>1 DEF v
<1> QED
  BY <1>5, <1>6

(* tcp_close: the socket is disconnected and has no control block, or is   *)
(* free.                                                                   *)

Closed(w, v, k) ==
  IF "NOFDREF" \in w.st[k] /\ w.head[k] = None
    THEN Freed(w, v, k)
    ELSE Stays(w, v, k) /\ v.pcb[k] = None /\ "DISCONNECTED" \in v.st[k]

(* tcp_close does that to every allocated socket. *)
LEMMA TcpCloseFacts ==
  ASSUME NEW w, WellFormed(w), NEW k \in Cells, k \notin Range(w.pool)
  PROVE  Closed(w, TcpClose(w, k), k)
<1> DEFINE u == SoIsDisconnected(w, k)
           v == TcpClose(w, k)
<1>1. Stays(w, u, k) /\ "DISCONNECTED" \in u.st[k]
  BY MarkFacts
<1>2. v = PcbDetach(u, k)
  BY DEF TcpClose
<1> HIDE DEF u, v
<1>3. /\ WellFormed(u) /\ k \notin Range(u.pool) /\ u.head = w.head
      /\ "NOFDREF" \in u.st[k] <=> "NOFDREF" \in w.st[k]
  BY <1>1 DEF Stays, Apart
<1>4. IF "NOFDREF" \in u.st[k] /\ u.head[k] = None
        THEN Freed(u, v, k)
        ELSE Stays(u, v, k) /\ v.pcb[k] = None /\ v.st = u.st
  BY <1>2, <1>3, PcbDetachFacts
<1>5. CASE "NOFDREF" \in w.st[k] /\ w.head[k] = None
  <2>1. Freed(w, v, k)
    BY <1>1, <1>3, <1>4, <1>5, StaysThenFreed
  <2> QED
    BY <1>5, <2>1 DEF Closed, v
<1>6. CASE ~("NOFDREF" \in w.st[k] /\ w.head[k] = None)
  <2>1. Stays(w, v, k) /\ v.pcb[k] = None /\ v.st = u.st
    BY <1>1, <1>3, <1>4, <1>6, StaysTwice
  <2> QED
    BY <1>1, <1>6, <2>1 DEF Closed, v
<1> QED
  BY <1>5, <1>6

(* The user closes an established connection: TCP goes on to close it. *)
LEMMA UsrClosedFacts ==
  ASSUME NEW w, WellFormed(w), NEW k \in Cells, w.pcb[k] \in HaveEstablished
  PROVE  LET v == TcpUsrClosed(w, k) IN Stays(w, v, k) /\ v.pcb[k] \in HaveEstablished
<1> DEFINE v == TcpUsrClosed(w, k)
<1>1. CASE w.pcb[k] = "ESTABLISHED"
  <2>1. v = SetPcb(w, k, "FIN_WAIT_1")
    BY <1>1 DEF TcpUsrClosed, SetPcb
  <2>2. "FIN_WAIT_1" \in States \cup {"udp", None} /\ "FIN_WAIT_1" \in HaveEstablished
    BY DEF States, HaveEstablished
  <2> DEFINE u == SetPcb(w, k, "FIN_WAIT_1")
  <2>3. Stays(w, u, k) /\ u.pcb[k] = "FIN_WAIT_1"
    BY <2>2, SetPcbStays
  <2> HIDE DEF u
  <2> QED
    BY <2>1, <2>2, <2>3 DEF u
<1>2. CASE w.pcb[k] = "CLOSE_WAIT"
  <2>1. v = SetPcb(w, k, "LAST_ACK")
    BY <1>2 DEF TcpUsrClosed, SetPcb
  <2>2. "LAST_ACK" \in States \cup {"udp", None} /\ "LAST_ACK" \in HaveEstablished
    BY DEF States, HaveEstablished
  <2> DEFINE u == SetPcb(w, k, "LAST_ACK")
  <2>3. Stays(w, u, k) /\ u.pcb[k] = "LAST_ACK"
    BY <2>2, SetPcbStays
  <2> HIDE DEF u
  <2> QED
    BY <2>1, <2>2, <2>3 DEF u
<1>3. CASE w.pcb[k] \in {"FIN_WAIT_2", "TIME_WAIT"}
  <2>1. v = SoIsDisconnected(w, k)
    BY <1>3 DEF TcpUsrClosed
  <2> QED
    BY <2>1, MarkFacts
<1>4. CASE w.pcb[k] \notin {"ESTABLISHED", "CLOSE_WAIT", "FIN_WAIT_2", "TIME_WAIT"}
  <2>1. v = w
    BY <1>4 DEF TcpUsrClosed, HaveEstablished
  <2> QED
    BY <2>1, StaysItself
<1> QED
  BY <1>1, <1>2, <1>3, <1>4

(* tcp_disconnect starts to close an established connection and drops any  *)
(* other.                                                                  *)
LEMMA TcpDisconnectFacts ==
  ASSUME NEW w, WellFormed(w), NEW k \in Cells, k \notin Range(w.pool),
         NEW v, v = TcpDisconnect(w, k)
  PROVE  IF w.pcb[k] \in HaveEstablished
           THEN Stays(w, v, k) /\ v.pcb[k] \in HaveEstablished
           ELSE Closed(w, v, k)
<1>1. CASE w.pcb[k] \in HaveEstablished
  <2> DEFINE u == SoIsDisconnecting(w, k)
  <2>1. Stays(w, u, k) /\ u.pcb = w.pcb
    BY MarkFacts
  <2>2. v = TcpUsrClosed(u, k)
    BY <1>1 DEF TcpDisconnect
  <2> HIDE DEF u
  <2>3. WellFormed(u)
    BY <2>1 DEF Stays, Apart
  <2>4. Stays(u, v, k) /\ v.pcb[k] \in HaveEstablished
    BY <1>1, <2>1, <2>2, <2>3, UsrClosedFacts
  <2> QED
    BY <1>1, <2>1, <2>4, StaysTwice
<1>2. CASE w.pcb[k] \notin HaveEstablished
  BY <1>2, TcpCloseFacts DEF TcpDisconnect
<1> QED
  BY <1>1, <1>2

(* What soclose makes of a socket that was open and has no connection      *)
(* queued on it: it is free, or TCP still has an established connection to *)
(* finish and the socket counts as not open.                               *)

Gone(w, v, k) ==
  \/ Freed(w, v, k)
  \/ /\ Apart(w, v, k) /\ v.pool = w.pool /\ v.upcall = w.upcall /\ v.stream = w.stream
     /\ v.pcb[k] \in HaveEstablished /\ "NOFDREF" \in v.st[k]

(* sodisconnect never frees the socket: it is still open. *)
LEMMA SoDisconnectFacts ==
  ASSUME NEW w, WellFormed(w), NEW k \in Cells, k \notin Range(w.pool),
         "NOFDREF" \notin w.st[k], NEW v, v = SoDisconnect(w, k)
  PROVE  Stays(w, v, k)
<1>1. CASE "CONNECTED" \in w.st[k] /\ "DISCONNECTING" \notin w.st[k]
  <2>1. v = TcpDisconnect(w, k)
    BY <1>1 DEF SoDisconnect
  <2> QED
    BY <2>1, TcpDisconnectFacts DEF Closed
<1>2. CASE ~("CONNECTED" \in w.st[k] /\ "DISCONNECTING" \notin w.st[k])
  BY <1>2, StaysItself DEF SoDisconnect
<1> QED
  BY <1>1, <1>2

(* After PRU_DETACH only an established connection has a control block. *)
LEMMA DetachFacts ==
  ASSUME NEW w, WellFormed(w), NEW k \in Cells, k \notin Range(w.pool),
         "NOFDREF" \notin w.st[k], NEW v, v = Detach(w, k)
  PROVE  Stays(w, v, k) /\ v.pcb[k] \in HaveEstablished \cup {None}
<1>1. CASE w.pcb[k] = None
  <2>1. v = w
    BY <1>1, GlueAssumption DEF Detach
  <2> QED
    BY <1>1, <2>1, StaysItself
<1>2. CASE w.pcb[k] # None /\ w.pcb[k] = "udp"
  <2>1. v = PcbDetach(w, k)
    BY <1>2 DEF Detach
  <2> QED
    BY <2>1, PcbDetachFacts
<1>3. CASE w.pcb[k] # None /\ w.pcb[k] # "udp"
  <2>1. v = TcpDisconnect(w, k)
    BY <1>3 DEF Detach
  <2> QED
    BY <2>1, TcpDisconnectFacts DEF Closed
<1> QED
  BY <1>1, <1>2, <1>3

(* soclose of an open socket nothing is queued on. *)
LEMMA SoCloseFacts ==
  ASSUME NEW w, WellFormed(w), NEW k \in Cells, k \notin Range(w.pool),
         "NOFDREF" \notin w.st[k], w.head[k] = None, w.q[k] = << >>
  PROVE  Gone(w, SoClose(w, k), k)
<1> DEFINE d == SoDisconnect(w, k)
           e == Detach(d, k)
           on == {"NOFDREF"}
           off == {}
           f == SetState(e, k, on, off)
           v == SoFree(f, k)
<1>1. SoClose(w, k) = v
  <2> DEFINE queue == w.q[k]
             Drops(g) == g = [i \in 0 .. Len(queue) |->
                IF i = 0 THEN w ELSE SoAbort(SoQRemQue(g[i - 1], k, queue[i]), queue[i])]
             dropped == CHOOSE g : Drops(g)
  <2>1. Len(queue) = 0 /\ 0 \in 0 .. Len(queue) /\ \A i \in 0 .. Len(queue) : i = 0
    BY SMTT(30)
  <2>2. SoClose(w, k) = SoFree(SetState(Detach(SoDisconnect(dropped[Len(queue)], k), k), k,
                                        {"NOFDREF"}, {}), k)
    BY DEF SoClose
  <2> HIDE DEF queue
  <2>3. Drops([i \in 0 .. Len(queue) |-> w])
    BY <2>1
  <2>4. \A g : Drops(g) => g[0] = w
    BY <2>1
  <2> HIDE DEF Drops
  <2>5. Drops(dropped)
    BY <2>3
  <2>6. dropped[0] = w
    BY <2>4, <2>5
  <2> HIDE DEF dropped
  <2> QED
    BY <2>1, <2>2, <2>6
<1>2. Stays(w, d, k)
  BY SoDisconnectFacts
<1> HIDE DEF d
<1>3. WellFormed(d) /\ k \notin Range(d.pool) /\ "NOFDREF" \notin d.st[k]
  BY <1>2 DEF Stays, Apart
<1>4. Stays(d, e, k) /\ e.pcb[k] \in HaveEstablished \cup {None}
  BY <1>3, DetachFacts
<1> HIDE DEF e
<1>5. Stays(w, e, k)
  BY <1>2, <1>4, StaysTwice
<1>6. WellFormed(e) /\ k \notin Range(e.pool) /\ e.head = w.head
  BY <1>5 DEF Stays, Apart
<1>7. on \subseteq Flags /\ "NOFDREF" \in on
  BY DEF Flags
<1> HIDE DEF on, off
<1>8. /\ Touched(e, f, k) /\ f.pcb = e.pcb
      /\ \A x : x \in f.st[k] <=> (x \in e.st[k] /\ x \notin off) \/ x \in on
  BY <1>6, <1>7, SetStateFacts
<1> HIDE DEF f
<1>9. WellFormed(f) /\ k \notin Range(f.pool) /\ f.head[k] = None /\ "NOFDREF" \in f.st[k]
  BY <1>6, <1>7, <1>8 DEF Touched
<1>10. Apart(w, f, k) /\ f.pool = w.pool /\ f.upcall = w.upcall /\ f.stream = w.stream
  BY <1>5, <1>8, TouchedApart, ApartTwice DEF Stays, Touched
<1>11. CASE f.pcb[k] = None
  <2>1. Freed(f, v, k)
    BY <1>9, <1>11, SoFreeFacts
  <2>2. Freed(w, v, k)
    BY <1>10, <2>1, ApartTwice DEF Freed
  <2> QED
    BY <1>1, <2>2 DEF Gone
<1>12. CASE f.pcb[k] # None
  <2>1. v = f
    BY <1>9, <1>12, SoFreeFacts
  <2>2. f.pcb[k] \in HaveEstablished
    BY <1>4, <1>8, <1>12
  <2> QED
    BY <1>1, <1>9, <1>10, <2>1, <2>2 DEF Gone
<1> QED
  BY <1>11, <1>12

----------------------------------------------------------------------------
(* app_glue_close_socket, and the passes over the lists. *)

(* A socket taken off a list is the only one that leaves it. *)
LEMMA DelistFacts ==
  ASSUME NEW w, WellFormed(w), NEW n \in Lists, NEW k \in Cells
  PROVE  LET v == Delist(w, n, k) IN Apart(w, v, k) /\ SameSockets(w, v)
<1> DEFINE v == Delist(w, n, k)
<1>1. w \in NetType /\ ListsAgree(w)
  BY DEF WellFormed
<1>2. CASE k \notin w.present[n]
  <2>1. v = w
    BY <1>2 DEF Delist
  <2> QED
    BY <2>1 DEF Apart, SameSockets
<1>3. CASE k \in w.present[n]
  <2> DEFINE s == w.list[n]
             t == Without(s, k)
  <2>1. /\ w.list \in [Lists -> Seq(Cells)] /\ w.present \in [Lists -> SUBSET Cells]
        /\ w.len \in [Counted -> Nat]
    BY <1>1, NetFields
  <2>2. /\ v.list = [w.list EXCEPT ![n] = Without(@, k)]
        /\ v.present = [w.present EXCEPT ![n] = @ \ {k}]
        /\ v.len = w.len /\ SameSockets(w, v)
    BY <1>1, <1>3, SMTT(30) DEF Delist, NetType, SameSockets
  <2>3. s \in Seq(Cells) /\ IsInjective(s) /\ w.present[n] = Range(s)
    BY <1>1, <2>1 DEF ListsAgree
  <2> HIDE DEF s
  <2>4. t \in Seq(Cells) /\ Len(t) <= Len(s) /\ Range(t) = Range(s) \ {k} /\ IsInjective(t)
    BY <2>3, WithoutFacts
  <2> HIDE DEF t
  <2>5. v \in NetType
    <3>1. w.present[n] \ {k} \in SUBSET Cells /\ Without(w.list[n], k) \in Seq(Cells)
      BY <2>1, <2>4 DEF s, t
    <3> QED
      BY ZenonT(60), <1>1, <1>3, <3>1 DEF Delist, NetType
  <2> HIDE DEF v
  <2>6. /\ v.list[n] = t /\ v.present[n] = w.present[n] \ {k}
        /\ \A m \in Lists : m # n => v.list[m] = w.list[m] /\ v.present[m] = w.present[m]
    BY <2>1, <2>2 DEF s, t
  <2>7. \A m \in Lists : v.present[m] = Range(v.list[m]) /\ IsInjective(v.list[m])
    <3>1. v.present[n] = Range(v.list[n]) /\ IsInjective(v.list[n])
      BY <2>3, <2>4, <2>6
    <3> QED
      BY <1>1, <2>6, <3>1 DEF ListsAgree
  <2>8. ASSUME NEW m \in Counted PROVE v.len[m] >= Len(v.list[m])
    <3>1. m \in Lists /\ w.len[m] \in Nat /\ w.len[m] >= Len(w.list[m])
      BY <1>1, <2>1 DEF ListsAgree, Counted, Lists
    <3>2. CASE m = n
      <4>1. v.len[m] = w.len[m] /\ Len(v.list[m]) = Len(t) /\ w.len[m] >= Len(s)
        BY <2>2, <2>6, <3>1, <3>2 DEF s
      <4>2. Len(s) \in Nat /\ Len(t) \in Nat
        BY <2>3, <2>4, SMTT(30)
      <4> QED
        BY <2>4, <3>1, <4>1, <4>2, SMTT(30)
    <3>3. CASE m # n
      BY <2>2, <2>6, <3>1, <3>3
    <3> QED
      BY <3>2, <3>3
  <2>9. WellFormed(v)
    BY <2>2, <2>5, <2>7, <2>8 DEF WellFormed, ListsAgree, SameSockets
  <2>10. \A c \in Cells \ {k} : \A m \in Lists : c \in v.present[m] <=> c \in w.present[m]
    BY <2>6
  <2>11. Apart(w, v, k)
    BY <2>2, <2>9, <2>10 DEF Apart, SameSockets
  <2> QED
    BY <2>2, <2>11 DEF v
<1> QED
  BY <1>2, <1>3

(* The connections queued on the listeners ls are accepted. *)

Accepted(w, v, ls) ==
  /\ WellFormed(v)
  /\ v.pcb = w.pcb /\ v.stream = w.stream /\ v.upcall = w.upcall /\ v.pool = w.pool
  /\ v.present = w.present
  /\ \A c \in Cells :
       /\ v.head[c] = IF w.head[c] \in ls THEN None ELSE w.head[c]
       /\ v.st[c] = IF w.head[c] \in ls THEN w.st[c] \ {"NOFDREF"} ELSE w.st[c]
       /\ v.q[c] = IF c \in ls THEN << >> ELSE w.q[c]

(* soaccept changes the queued connections and their listeners, and no     *)
(* list of the glue.                                                       *)
LEMMA SoAcceptFacts ==
  ASSUME NEW w, WellFormed(w), NEW ls
  PROVE  Accepted(w, SoAccept(w, ls), ls) /\ SoAccept(w, ls).list = w.list
         /\ SoAccept(w, ls).len = w.len
<1> DEFINE v == SoAccept(w, ls)
           acc == {k \in Cells : w.head[k] \in ls}
           st == [k \in Cells |-> IF k \in acc THEN w.st[k] \ {"NOFDREF"} ELSE w.st[k]]
           head == [k \in Cells |-> IF k \in acc THEN None ELSE w.head[k]]
           q == [l \in Cells |-> IF l \in ls THEN << >> ELSE w.q[l]]
<1>1. w \in NetType
  BY DEF WellFormed
<1>2. /\ w.st \in [Cells -> SUBSET Flags] /\ w.head \in [Cells -> Cells \cup {None}]
      /\ w.q \in [Cells -> Seq(Cells)]
  BY <1>1, NetFields
<1>3. /\ v.st = st /\ v.head = head /\ v.q = q
      /\ v.pcb = w.pcb /\ v.stream = w.stream /\ v.upcall = w.upcall /\ v.pool = w.pool
      /\ v.list = w.list /\ v.present = w.present /\ v.len = w.len
      /\ v.aborting = w.aborting
  BY <1>1, SMTT(30) DEF NetType, SoAccept
<1>4. st \in [Cells -> SUBSET Flags]
  BY <1>2
<1>5. head \in [Cells -> Cells \cup {None}]
  BY <1>2
<1>6. q \in [Cells -> Seq(Cells)]
  <2>1. << >> \in Seq(Cells)
    BY SMTT(30)
  <2> QED
    BY <1>2, <2>1
<1>7. v \in NetType
  BY ZenonT(60), <1>1, <1>4, <1>5, <1>6 DEF NetType, SoAccept
<1> HIDE DEF v
<1>8. WellFormed(v)
  BY <1>3, <1>7 DEF WellFormed, ListsAgree
<1>9. \A c \in Cells :
        /\ v.head[c] = IF w.head[c] \in ls THEN None ELSE w.head[c]
        /\ v.st[c] = IF w.head[c] \in ls THEN w.st[c] \ {"NOFDREF"} ELSE w.st[c]
        /\ v.q[c] = IF c \in ls THEN << >> ELSE w.q[c]
  BY <1>3
<1> QED
  BY <1>3, <1>8, <1>9 DEF Accepted, v

(* What is left of a closed socket, when the connections queued on it have *)
(* been accepted and forgotten.                                            *)
LEMMA CloseSocketFacts ==
  ASSUME NEW w, WellFormed(w), NEW k \in Cells, k \notin Range(w.pool),
         "NOFDREF" \notin w.st[k], w.head[k] = None,
         k \notin w.present["accept"] => w.q[k] = << >>
  PROVE  \E x, y : /\ Apart(w, x, k) /\ SameSockets(w, x)
                   /\ Accepted(x, y, {k} \cap w.present["accept"])
                   /\ Gone(y, CloseSocket(w, k), k)
<1> DEFINE ls == {k} \cap w.present["accept"]
           r == Delist(w, "read", k)
           x == Delist(r, "write", k)
           y == SoAccept(x, ls)
           a == Delist(y, "accept", k)
           z == Delist(a, "closed", k)
           v == SoClose(z, k)
<1>0. "closed" \in Lists /\ "accept" \in Lists /\ "read" \in Lists /\ "write" \in Lists
  BY DEF Lists
<1>1. CloseSocket(w, k) = v
  BY DEF CloseSocket
<1>2. Apart(w, r, k) /\ SameSockets(w, r)
  BY <1>0, DelistFacts
<1> HIDE DEF r
<1>3. Apart(r, x, k) /\ SameSockets(r, x)
  <2>1. WellFormed(r)
    BY <1>2 DEF Apart
  <2> QED
    BY <1>0, <2>1, DelistFacts
<1> HIDE DEF x
<1>4. Apart(w, x, k) /\ SameSockets(w, x)
  BY <1>2, <1>3, ApartTwice DEF SameSockets
<1>5. WellFormed(x)
  BY <1>4 DEF Apart
<1> HIDE DEF ls
<1>6. Accepted(x, y, ls)
  BY <1>5, SoAcceptFacts
<1> HIDE DEF y
<1>7. WellFormed(y) /\ k \notin Range(y.pool) /\ "NOFDREF" \notin y.st[k]
      /\ y.head[k] = None /\ y.q[k] = << >>
  <2>1. x.st = w.st /\ x.head = w.head /\ x.q = w.q /\ x.pool = w.pool
    BY <1>4 DEF SameSockets
  <2>2. k \notin w.present["accept"] => x.q[k] = << >>
    BY <2>1
  <2>3. k \in w.present["accept"] => k \in ls
    BY DEF ls
  <2>4. y.q[k] = << >>
    BY <1>6, <2>2, <2>3 DEF Accepted
  <2>5. y.head[k] = None
    BY <1>6, <2>1 DEF Accepted
  <2>6. "NOFDREF" \notin y.st[k]
    BY <1>6, <2>1 DEF Accepted
  <2> QED
    BY <1>6, <2>1, <2>4, <2>5, <2>6 DEF Accepted
<1>8. Apart(y, a, k) /\ SameSockets(y, a)
  BY <1>0, <1>7, DelistFacts
<1> HIDE DEF a
<1>9. Apart(a, z, k) /\ SameSockets(a, z)
  <2>1. WellFormed(a)
    BY <1>8 DEF Apart
  <2> QED
    BY <1>0, <2>1, DelistFacts
<1> HIDE DEF z
<1>10. Apart(y, z, k) /\ SameSockets(y, z)
  BY <1>8, <1>9, ApartTwice DEF SameSockets
<1>11. Gone(z, v, k)
  <2>1. WellFormed(z) /\ k \notin Range(z.pool) /\ "NOFDREF" \notin z.st[k]
        /\ z.head[k] = None /\ z.q[k] = << >>
    BY <1>7, <1>10 DEF Apart, SameSockets
  <2> QED
    BY <2>1, SoCloseFacts
<1> HIDE DEF v
<1>12. Gone(y, v, k)
  <2>1. Apart(z, v, k) => Apart(y, v, k)
    BY <1>10, ApartTwice
  <2>2. CASE Freed(z, v, k)
    BY <2>1, <2>2 DEF Freed, Gone
  <2>3. CASE ~Freed(z, v, k)
    BY <1>10, <1>11, <2>1, <2>3 DEF Gone, SameSockets
  <2> QED
    BY <2>2, <2>3
<1> QED
  BY <1>1, <1>4, <1>6, <1>12 DEF ls

(* A list served up to its counter is empty: the counter covers the list. *)
LEMMA ServedFacts ==
  ASSUME NEW w, WellFormed(w), NEW n \in Counted, NEW v, v = Served(w, n)
  PROVE  /\ WellFormed(v) /\ SameSockets(w, v)
         /\ v.list[n] = << >> /\ v.present[n] = {}
         /\ \A m \in Lists : m # n => v.list[m] = w.list[m] /\ v.present[m] = w.present[m]
<1> DEFINE s == w.list[n]
           m == IF w.len[n] < Len(s) THEN w.len[n] ELSE Len(s)
           gone == {s[i] : i \in 1 .. m}
<1>1. w \in NetType /\ ListsAgree(w)
  BY DEF WellFormed
<1>2. /\ w.list \in [Lists -> Seq(Cells)] /\ w.present \in [Lists -> SUBSET Cells]
      /\ w.len \in [Counted -> Nat] /\ n \in Lists
  BY <1>1, NetFields DEF Counted, Lists
<1>3. v = [w EXCEPT !.list[n] = SubSeq(@, m + 1, Len(@)), !.present[n] = @ \ gone,
                    !.len[n] = @ - m]
  BY DEF Served
<1>4. s \in Seq(Cells) /\ w.present[n] = Range(s) /\ w.len[n] \in Nat /\ w.len[n] >= Len(s)
  BY <1>1, <1>2 DEF ListsAgree
<1>5. /\ v.list = [w.list EXCEPT ![n] = SubSeq(@, m + 1, Len(@))]
      /\ v.present = [w.present EXCEPT ![n] = @ \ gone]
      /\ v.len = [w.len EXCEPT ![n] = @ - m] /\ SameSockets(w, v)
  <2> HIDE DEF m, gone
  <2> QED
    BY <1>1, <1>3, SMTT(30) DEF NetType, SameSockets
<1> HIDE DEF s
<1>6. m = Len(s) /\ Len(s) \in Nat /\ DOMAIN s = 1 .. Len(s)
  BY <1>4, SMTT(30)
<1>7. gone = Range(s)
  BY <1>6 DEF Range
<1> HIDE DEF m, gone
<1>8. SubSeq(s, m + 1, Len(s)) = << >> /\ w.len[n] - m \in Nat
  BY <1>4, <1>6, SMTT(30)
<1>9. << >> \in Seq(Cells) /\ Len(<< >>) = 0 /\ IsInjective(<< >>) /\ Range(<< >>) = {}
  <2>1. DOMAIN << >> = {} /\ << >> \in Seq(Cells) /\ Len(<< >>) = 0
    BY SMTT(30)
  <2> QED
    BY <2>1 DEF IsInjective, Range
<1>10. v \in NetType
  <2>1. /\ SubSeq(w.list[n], m + 1, Len(w.list[n])) \in Seq(Cells)
        /\ w.present[n] \ gone \in SUBSET Cells /\ w.len[n] - m \in Nat
    BY <1>2, <1>8, <1>9 DEF s
  <2>2. [w EXCEPT !.list[n] = SubSeq(@, m + 1, Len(@)), !.present[n] = @ \ gone,
                  !.len[n] = @ - m] \in NetType
    BY ZenonT(60), <1>1, <2>1 DEF NetType
  <2> QED
    BY <1>3, <2>2
<1>11. /\ v.list[n] = << >> /\ v.present[n] = {} /\ v.len[n] = w.len[n] - m
       /\ \A l \in Lists : l # n => v.list[l] = w.list[l] /\ v.present[l] = w.present[l]
       /\ \A l \in Counted : l # n => v.len[l] = w.len[l]
  <2>1. v.list[n] = << >> /\ \A l \in Lists : l # n => v.list[l] = w.list[l]
    BY <1>2, <1>5, <1>8 DEF s
  <2>2. v.present[n] = {} /\ \A l \in Lists : l # n => v.present[l] = w.present[l]
    <3>1. v.present[n] = w.present[n] \ gone /\ \A l \in Lists : l # n => v.present[l] = w.present[l]
      BY <1>2, <1>5
    <3>2. w.present[n] \ gone = {}
      BY <1>4, <1>7
    <3> QED
      BY <3>1, <3>2
  <2>3. v.len[n] = w.len[n] - m /\ \A l \in Counted : l # n => v.len[l] = w.len[l]
    BY <1>2, <1>5
  <2> QED
    BY <2>1, <2>2, <2>3
<1>12. \A l \in Lists : v.present[l] = Range(v.list[l]) /\ IsInjective(v.list[l])
  <2>1. v.present[n] = Range(v.list[n]) /\ IsInjective(v.list[n])
    BY <1>9, <1>11
  <2> QED
    BY <1>1, <1>11, <2>1 DEF ListsAgree
<1>13. ASSUME NEW l \in Counted PROVE v.len[l] >= Len(v.list[l])
  <2>1. l \in Lists /\ w.len[l] \in Nat /\ w.len[l] >= Len(w.list[l])
    BY <1>1, <1>2 DEF ListsAgree, Counted, Lists
  <2>2. CASE l = n
    <3>1. v.len[l] = w.len[n] - m /\ Len(v.list[l]) = 0
      BY <1>9, <1>11, <2>2
    <3> QED
      BY <1>8, <3>1, SMTT(30)
  <2>3. CASE l # n
    BY <1>11, <2>1, <2>3
  <2> QED
    BY <2>2, <2>3
<1>14. WellFormed(v)
  BY <1>5, <1>10, <1>12, <1>13 DEF WellFormed, ListsAgree, SameSockets
<1> QED
  BY <1>5, <1>11, <1>14

----------------------------------------------------------------------------
(* The inductive invariant.  Of the socket layer: what each cell may be    *)
(* like, on its own.                                                       *)

Early == {"CLOSED", "LISTEN", "SYN_SENT"}

(* A free cell has been wiped. *)
FreeSound(w, k) ==
  k \in Range(w.pool) =>
    w.pcb[k] = None /\ w.st[k] = {} /\ w.head[k] = None /\ k \notin w.upcall /\ k \notin w.stream

(* A stream socket without a control block is disconnected; one whose      *)
(* connection was never established is open, connected or not, and wakes   *)
(* its owner.                                                              *)
PcbSound(w, k) ==
  /\ w.pcb[k] = "udp" => k \notin w.stream
  /\ k \in w.stream /\ w.pcb[k] = None => "DISCONNECTED" \in w.st[k]
  /\ w.pcb[k] \in Early =>
       /\ "DISCONNECTED" \notin w.st[k] /\ "NOFDREF" \notin w.st[k]
       /\ k \in w.upcall /\ w.head[k] = None

(* A queued connection counts as not open, wakes nobody and is on no list. *)
QueuedSound(w, k) ==
  w.head[k] # None =>
    /\ "NOFDREF" \in w.st[k] /\ k \notin w.upcall
    /\ \A n \in Lists : k \notin w.present[n]
    /\ w.pcb[k] \in {"ESTABLISHED", "CLOSE_WAIT", None}
    /\ "DISCONNECTED" \in w.st[k] => w.pcb[k] = None

CellSound(w, k) == FreeSound(w, k) /\ PcbSound(w, k) /\ QueuedSound(w, k)

(* Its listener listens, or is shut down but open, and has been announced. *)
Heads(w, l) ==
  \/ w.pcb[l] = "LISTEN"
  \/ w.pcb[l] = None /\ "DISCONNECTED" \in w.st[l] /\ "NOFDREF" \notin w.st[l]
HeadSound(w, k) ==
  w.head[k] # None => Heads(w, w.head[k]) /\ w.head[k] \in w.present["accept"]

QueueAgrees(w) == \A k, l \in Cells : k \in Range(w.q[l]) <=> w.head[k] = l

NetSound(w) ==
  WellFormed(w) /\ QueueAgrees(w) /\ \A k \in Cells : CellSound(w, k) /\ HeadSound(w, k)

(* Of the sockets the slots and the ACCEPTED commands refer to, and of     *)
(* those nothing refers to.                                                *)

Held == (Range(sat) \ {None}) \cup posted

HeldSound ==
  \A k \in Held : /\ k \notin Range(net.pool) /\ net.head[k] = None
                  /\ "NOFDREF" \notin net.st[k] /\ k \in net.upcall

HeldReported ==
  ~halted => \A k \in Held : "DISCONNECTED" \in net.st[k] =>
                               k \in told \cup refused \cup missed \cup net.present["closed"]

HeldOnce ==
  /\ \A s, t \in Slots : sat[s] = sat[t] /\ sat[s] # None => s = t
  /\ \A s \in Slots : sat[s] \notin posted

OthersClosing ==
  \A k \in Cells :
    k \notin Range(net.pool) /\ k \notin forgotten /\ k \notin Held /\ net.head[k] = None =>
      "NOFDREF" \in net.st[k] /\ net.pcb[k] # None

Ind ==
  TypeOK /\ NetSound(net) /\ HeldSound /\ HeldReported /\ HeldOnce /\ OthersClosing

(* The rest of the state while one socket changes. *)
Alone ==
  /\ UNCHANGED <<sat, parent, posted, told, refused, missed, forgotten, halted>>
  /\ phase' \in {"command", "timers", "tx", "rx", "softint", "wait"}

(* A change of one cell is sound if the cell is, and if a listener with    *)
(* connections queued on it stays one.                                     *)
LEMMA ApartSound ==
  ASSUME NEW w, NetSound(w), NEW v, NEW k \in Cells, Apart(w, v, k), CellSound(v, k),
         \A c \in Cells : w.head[c] = k => Heads(v, k) /\ k \in v.present["accept"]
  PROVE  NetSound(v)
<1>1. w \in NetType /\ WellFormed(v) /\ v.head = w.head /\ v.q = w.q
  BY DEF NetSound, WellFormed, Apart
<1>2. w.head \in [Cells -> Cells \cup {None}]
  BY <1>1, NetFields
<1>3. ASSUME NEW c \in Cells PROVE CellSound(v, c)
  <2>1. CASE c = k
    BY <2>1
  <2>2. CASE c # k
    <3>1. CellSound(w, c)
      BY DEF NetSound
    <3>2. /\ v.pcb[c] = w.pcb[c] /\ v.st[c] = w.st[c] /\ v.head[c] = w.head[c]
          /\ (c \in v.upcall <=> c \in w.upcall) /\ (c \in v.stream <=> c \in w.stream)
          /\ (c \in Range(v.pool) <=> c \in Range(w.pool))
          /\ \A n \in Lists : c \in v.present[n] <=> c \in w.present[n]
      BY <1>1, <2>2 DEF Apart
    <3>3. FreeSound(v, c)
      BY <3>1, <3>2 DEF CellSound, FreeSound
    <3>4. PcbSound(v, c)
      BY <3>1, <3>2 DEF CellSound, PcbSound
    <3>5. QueuedSound(v, c)
      BY <3>1, <3>2 DEF CellSound, QueuedSound
    <3> QED
      BY <3>3, <3>4, <3>5 DEF CellSound
  <2> QED
    BY <2>1, <2>2
<1>4. ASSUME NEW c \in Cells PROVE HeadSound(v, c)
  <2>1. SUFFICES ASSUME v.head[c] # None
                 PROVE  Heads(v, v.head[c]) /\ v.head[c] \in v.present["accept"]
    BY DEF HeadSound
  <2>2. PICK l \in Cells : l = w.head[c] /\ l = v.head[c]
    BY <1>1, <1>2, <2>1
  <2>3. Heads(w, l) /\ l \in w.present["accept"]
    BY <1>1, <2>1, <2>2 DEF NetSound, HeadSound
  <2>4. CASE l = k
    BY <2>2, <2>4
  <2>5. CASE l # k
    <3>1. "accept" \in Lists
      BY DEF Lists
    <3>2. Heads(v, l) /\ l \in v.present["accept"]
      BY <2>3, <2>5, <3>1 DEF Apart, Heads
    <3> QED
      BY <2>2, <3>2
  <2> QED
    BY <2>4, <2>5
<1>5. QueueAgrees(v)
  BY <1>1 DEF NetSound, QueueAgrees
<1> QED
  BY <1>1, <1>3, <1>4, <1>5 DEF NetSound

(* One allocated socket changes, and nothing else does. *)
LEMMA OneCell ==
  ASSUME Ind, Alone, NEW k \in Cells, Apart(net, net', k), NetSound(net'),
         k \in Held => /\ k \notin Range(net'.pool) /\ "NOFDREF" \notin net'.st[k]
                       /\ k \in net'.upcall,
         ~halted /\ k \in Held /\ "DISCONNECTED" \in net'.st[k] =>
           k \in told \cup refused \cup missed \cup net'.present["closed"],
         k \notin Range(net'.pool) /\ k \notin forgotten /\ k \notin Held
           /\ net'.head[k] = None => "NOFDREF" \in net'.st[k] /\ net'.pcb[k] # None
  PROVE  Ind'
<1>1. UNCHANGED <<sat, parent, posted, told, refused, missed, forgotten, halted>> /\ Held' = Held
  BY DEF Alone, Held
<1>2. TypeOK' /\ Held \subseteq Cells
  BY <1>1 DEF Ind, TypeOK, Alone, NetSound, WellFormed, Held, Range
<1>3. net'.head = net.head
  BY DEF Apart
<1>4. ASSUME NEW c \in Held
      PROVE  /\ c \notin Range(net'.pool) /\ net'.head[c] = None
             /\ "NOFDREF" \notin net'.st[c] /\ c \in net'.upcall
  <2>1. /\ c \notin Range(net.pool) /\ net.head[c] = None
        /\ "NOFDREF" \notin net.st[c] /\ c \in net.upcall
    BY DEF Ind, HeldSound
  <2>2. CASE c = k
    BY <1>3, <2>1, <2>2
  <2>3. CASE c # k
    BY <1>2, <1>3, <2>1, <2>3 DEF Apart
  <2> QED
    BY <2>2, <2>3
<1>5. HeldSound'
  BY <1>1, <1>4 DEF HeldSound
<1>6. HeldReported'
  <2>1. SUFFICES ASSUME ~halted, NEW c \in Held, "DISCONNECTED" \in net'.st[c]
                 PROVE  c \in told \cup refused \cup missed \cup net'.present["closed"]
    BY <1>1 DEF HeldReported
  <2>2. CASE c = k
    BY <2>1, <2>2
  <2>3. CASE c # k
    <3>1. "closed" \in Lists
      BY DEF Lists
    <3>2. net'.st[c] = net.st[c] /\ (c \in net'.present["closed"] <=> c \in net.present["closed"])
      BY <1>2, <2>3, <3>1 DEF Apart
    <3> QED
      BY <2>1, <3>2 DEF Ind, HeldReported
  <2> QED
    BY <2>2, <2>3
<1>7. HeldOnce'
  BY <1>1 DEF Ind, HeldOnce
<1>8. OthersClosing'
  <2>1. SUFFICES ASSUME NEW c \in Cells, c \notin Range(net'.pool), c \notin forgotten,
                        c \notin Held, net'.head[c] = None
                 PROVE  "NOFDREF" \in net'.st[c] /\ net'.pcb[c] # None
    BY <1>1 DEF OthersClosing
  <2>2. CASE c = k
    BY <2>1, <2>2
  <2>3. CASE c # k
    <3>1. /\ net'.st[c] = net.st[c] /\ net'.pcb[c] = net.pcb[c] /\ net.head[c] = None
          /\ c \notin Range(net.pool)
      BY <1>3, <2>1, <2>3 DEF Apart
    <3> QED
      BY <2>1, <3>1 DEF Ind, OthersClosing
  <2> QED
    BY <2>2, <2>3
<1> QED
  BY <1>2, <1>5, <1>6, <1>7, <1>8 DEF Ind

(* A socket that stays. *)
LEMMA StaysStep ==
  ASSUME Ind, Alone, NEW k \in Cells, k \notin Range(net.pool), Stays(net, net', k),
         PcbSound(net', k),
         net.head[k] # None => /\ net'.pcb[k] \in {"ESTABLISHED", "CLOSE_WAIT", None}
                               /\ "DISCONNECTED" \in net'.st[k] => net'.pcb[k] = None,
         Heads(net, k) => Heads(net', k),
         "NOFDREF" \in net.st[k] /\ net.head[k] = None => net'.pcb[k] # None
  PROVE  Ind'
<1>0. "accept" \in Lists /\ "closed" \in Lists
  BY DEF Lists
<1>1. /\ Apart(net, net', k) /\ net'.head = net.head
      /\ net'.pool = net.pool /\ net'.upcall = net.upcall /\ net'.stream = net.stream
      /\ "NOFDREF" \in net'.st[k] <=> "NOFDREF" \in net.st[k]
      /\ \A n \in Lists : net.present[n] \subseteq net'.present[n]
      /\ k \notin net.upcall => net'.present = net.present
  BY DEF Stays, Apart
<1>2. NetSound(net) /\ CellSound(net, k)
  BY DEF Ind, NetSound
<1>3. CellSound(net', k)
  <2>1. FreeSound(net', k)
    BY <1>1 DEF FreeSound
  <2>2. QueuedSound(net', k)
    BY <1>1, <1>2 DEF CellSound, QueuedSound
  <2> QED
    BY <2>1, <2>2 DEF CellSound
<1>4. \A c \in Cells : net.head[c] = k => Heads(net', k) /\ k \in net'.present["accept"]
  <2>1. ASSUME NEW c \in Cells, net.head[c] = k
        PROVE  Heads(net, k) /\ k \in net.present["accept"]
    <3>1. k # None
      BY GlueAssumption
    <3> QED
      BY <1>2, <2>1, <3>1 DEF NetSound, HeadSound
  <2> QED
    BY <1>0, <1>1, <2>1
<1>5. NetSound(net')
  BY <1>1, <1>2, <1>3, <1>4, ApartSound
<1>6. k \in Held => /\ k \notin Range(net'.pool) /\ "NOFDREF" \notin net'.st[k]
                    /\ k \in net'.upcall
  BY <1>1 DEF Ind, HeldSound
<1>7. ~halted /\ k \in Held /\ "DISCONNECTED" \in net'.st[k] =>
           k \in told \cup refused \cup missed \cup net'.present["closed"]
  <2>1. SUFFICES ASSUME ~halted, k \in Held, "DISCONNECTED" \in net'.st[k],
                        k \notin net'.present["closed"]
                 PROVE  k \in told \cup refused \cup missed
    OBVIOUS
  <2>2. k \in net.upcall
    BY <2>1 DEF Ind, HeldSound
  <2>3. "DISCONNECTED" \in net.st[k]
    BY <2>1, <2>2 DEF Stays
  <2>4. k \notin net.present["closed"]
    BY <1>0, <1>1, <2>1
  <2> QED
    BY <2>1, <2>3, <2>4 DEF Ind, HeldReported
<1>8. k \notin Range(net'.pool) /\ k \notin forgotten /\ k \notin Held
           /\ net'.head[k] = None => "NOFDREF" \in net'.st[k] /\ net'.pcb[k] # None
  BY <1>1 DEF Ind, OthersClosing
<1> QED
  BY <1>1, <1>5, <1>6, <1>7, <1>8, OneCell

(* A socket that goes back to the pool, having counted as not open. *)
LEMMA FreedStep ==
  ASSUME Ind, Alone, NEW k \in Cells, Freed(net, net', k),
         "NOFDREF" \in net.st[k], net.head[k] = None
  PROVE  Ind'
<1>1. /\ Apart(net, net', k) /\ net'.head = net.head
      /\ net'.pcb[k] = None /\ net'.st[k] = {} /\ k \notin net'.upcall /\ k \notin net'.stream
      /\ k \in Range(net'.pool)
  BY DEF Freed, Apart
<1>2. NetSound(net) /\ CellSound(net, k)
  BY DEF Ind, NetSound
<1>3. CellSound(net', k)
  <2>1. FreeSound(net', k)
    BY <1>1 DEF FreeSound
  <2>2. None # "udp" /\ None \notin Early
    BY GlueAssumption DEF Early, States
  <2>3. PcbSound(net', k)
    BY <1>1, <2>2 DEF PcbSound
  <2>4. QueuedSound(net', k)
    BY <1>1 DEF QueuedSound
  <2> QED
    BY <2>1, <2>3, <2>4 DEF CellSound
<1>4. \A c \in Cells : net.head[c] # k
  <2>1. SUFFICES ASSUME NEW c \in Cells, net.head[c] = k PROVE FALSE
    OBVIOUS
  <2>2. k # None
    BY GlueAssumption
  <2>3. Heads(net, k)
    BY <1>2, <2>1, <2>2 DEF NetSound, HeadSound
  <2>4. net.pcb[k] \in Early
    BY <2>3 DEF Early, Heads
  <2> QED
    BY <1>2, <2>4 DEF CellSound, PcbSound
<1>5. NetSound(net')
  <2>1. \A c \in Cells : net.head[c] = k =>
          Heads(net', k) /\ k \in net'.present["accept"]
    BY <1>4
  <2> QED
    BY <1>1, <1>2, <1>3, <2>1, ApartSound
<1>6. k \notin Held
  BY DEF Ind, HeldSound
<1> QED
  BY <1>1, <1>5, <1>6, OneCell

(* tcp_close of a connection. *)
LEMMA ClosedStep ==
  ASSUME Ind, Alone, NEW k \in Cells, k \notin Range(net.pool), Closed(net, net', k),
         net.pcb[k] \in HaveEstablished \cup {"SYN_SENT"}
  PROVE  Ind'
<1>1. CASE "NOFDREF" \in net.st[k] /\ net.head[k] = None
  BY <1>1, FreedStep DEF Closed
<1>2. CASE ~("NOFDREF" \in net.st[k] /\ net.head[k] = None)
  <2>1. Stays(net, net', k) /\ net'.pcb[k] = None /\ "DISCONNECTED" \in net'.st[k]
    BY <1>2 DEF Closed
  <2>2. None # "udp" /\ None \notin Early
    BY GlueAssumption DEF Early, States
  <2>3. PcbSound(net', k)
    BY <2>1, <2>2 DEF PcbSound
  <2>4. ~Heads(net, k)
    BY GlueAssumption DEF HaveEstablished, Heads, States
  <2> QED
    BY <1>2, <2>1, <2>3, <2>4, StaysStep
<1> QED
  BY <1>1, <1>2

(* A wakeup alone. *)
LEMMA WokenStays ==
  ASSUME NEW w, WellFormed(w), NEW k \in Cells, NEW room, NEW v, v = Wakeup(w, k, room)
  PROVE  Stays(w, v, k) /\ v.pcb = w.pcb /\ v.st = w.st
<1>1. Announced(w, v, k) /\ (k \notin w.upcall => v.present = w.present)
  BY WakeupFacts
<1>2. SameSockets(w, v) /\ WellFormed(v)
  BY <1>1 DEF Announced
<1>3. \A n \in Lists : w.present[n] \subseteq v.present[n]
                       /\ v.present[n] \subseteq w.present[n] \cup {k}
  BY <1>1 DEF Announced
<1>4. Apart(w, v, k)
  BY <1>2, <1>3 DEF Apart, SameSockets
<1> QED
  BY <1>1, <1>2, <1>3, <1>4 DEF Stays, SameSockets

(* A socket in an established state, or one for datagrams, that stays in   *)
(* such a state.                                                           *)
LEMMA EstablishedStep ==
  ASSUME Ind, Alone, NEW k \in Cells, k \notin Range(net.pool), Stays(net, net', k),
         \/ net.pcb[k] \in HaveEstablished \cup {"SYN_SENT"} /\ net'.pcb[k] \in HaveEstablished
         \/ net.pcb[k] = "udp" /\ net'.pcb[k] = "udp",
         net.head[k] # None => /\ net'.pcb[k] \in {"ESTABLISHED", "CLOSE_WAIT"}
                               /\ "DISCONNECTED" \in net'.st[k] => "DISCONNECTED" \in net.st[k]
  PROVE  Ind'
<1>1. net'.pcb[k] # None /\ net'.pcb[k] \notin Early /\ net.pcb[k] # "LISTEN" /\ net.pcb[k] # None
  BY GlueAssumption DEF HaveEstablished, Early, States
<1>2. CellSound(net, k)
  BY DEF Ind, NetSound
<1>3. PcbSound(net', k)
  <2>1. net'.pcb[k] = "udp" => net.pcb[k] = "udp"
    BY DEF HaveEstablished, States
  <2>2. net'.stream = net.stream
    BY DEF Stays
  <2> QED
    BY <1>1, <1>2, <2>1, <2>2 DEF PcbSound, CellSound
<1>4. net.head[k] # None => "DISCONNECTED" \notin net'.st[k]
  BY <1>1, <1>2 DEF CellSound, QueuedSound
<1>5. ~Heads(net, k)
  BY <1>1 DEF Heads
<1> QED
  BY <1>1, <1>3, <1>4, <1>5, StaysStep

----------------------------------------------------------------------------
(* The events. *)

(* A timer or a segment changes the socket layer only. *)
LEMMA EventAlone ==
  ASSUME TypeOK, NEW when, Event(when), UNCHANGED history
  PROVE  Alone /\ ~halted
  BY DEF Event, history, Alone, TypeOK

(* What is known of an allocated cell. *)
LEMMA UsedFacts ==
  ASSUME Ind, NEW k \in Used(net)
  PROVE  k \in Cells /\ k \notin Range(net.pool) /\ WellFormed(net) /\ CellSound(net, k)
  BY DEF Ind, NetSound, Used

(* A reset, a refused connection or a timer that gives up keeps the        *)
(* invariant.                                                              *)
LEMMA DropStep ==
  ASSUME Ind, NEW k \in Cells, Drop(k)
  PROVE  Ind'
<1>1. Alone /\ k \in Used(net)
  BY EventAlone DEF Drop, Ind
<1>2. k \notin Range(net.pool) /\ WellFormed(net)
  BY <1>1, UsedFacts
<1>3. Closed(net, net', k)
  BY <1>2, TcpCloseFacts DEF Drop
<1> QED
  BY <1>1, <1>2, <1>3, ClosedStep DEF Drop

(* Data and acknowledgements keep it: they only wake the socket. *)
LEMMA SegmentStep ==
  ASSUME Ind, NEW k \in Cells, Segment(k)
  PROVE  Ind'
<1>1. Alone /\ k \in Used(net)
  BY EventAlone DEF Segment, Ind
<1>2. k \notin Range(net.pool) /\ WellFormed(net) /\ CellSound(net, k)
  BY <1>1, UsedFacts
<1>3. Stays(net, net', k) /\ net'.pcb = net.pcb /\ net'.st = net.st
  <2>1. PICK room \in BOOLEAN : net' = Wakeup(net, k, room)
    BY DEF Segment
  <2> QED
    BY <1>2, <2>1, WokenStays, SMTT(30)
<1>4. net.pcb[k] \in HaveEstablished \cup {"udp"} /\ net.pcb[k] # None
  BY GlueAssumption DEF Segment, HaveEstablished
<1>5. net.head[k] # None => net'.pcb[k] \in {"ESTABLISHED", "CLOSE_WAIT"}
  BY <1>2, <1>3, <1>4 DEF CellSound, QueuedSound
<1>6. \/ net.pcb[k] \in HaveEstablished \cup {"SYN_SENT"} /\ net'.pcb[k] \in HaveEstablished
      \/ net.pcb[k] = "udp" /\ net'.pcb[k] = "udp"
  BY <1>3, <1>4
<1>7. net.head[k] # None => /\ net'.pcb[k] \in {"ESTABLISHED", "CLOSE_WAIT"}
                            /\ "DISCONNECTED" \in net'.st[k] => "DISCONNECTED" \in net.st[k]
  BY <1>3, <1>5
<1> QED
  BY <1>1, <1>2, <1>3, <1>6, <1>7, EstablishedStep

(* The answer to a connect keeps it. *)
LEMMA PeerAcceptsStep ==
  ASSUME Ind, NEW k \in Cells, PeerAccepts(k)
  PROVE  Ind'
<1> DEFINE u == SetPcb(net, k, "ESTABLISHED")
<1>1. Alone /\ k \in Used(net)
  BY EventAlone DEF PeerAccepts, Ind
<1>2. k \notin Range(net.pool) /\ WellFormed(net) /\ CellSound(net, k)
  BY <1>1, UsedFacts
<1>3. "ESTABLISHED" \in States \cup {"udp", None} /\ "ESTABLISHED" \in HaveEstablished
  BY DEF States, HaveEstablished
<1>4. Stays(net, u, k) /\ u.pcb[k] = "ESTABLISHED"
  BY <1>2, <1>3, SetPcbStays
<1>5. net' = SoIsConnected(u, k)
  BY DEF PeerAccepts, SetPcb
<1> HIDE DEF u
<1>6. WellFormed(u)
  BY <1>4 DEF Stays, Apart
<1>7. Stays(u, net', k) /\ net'.pcb = u.pcb
  BY <1>5, <1>6, MarkFacts
<1>8. Stays(net, net', k) /\ net'.pcb[k] \in HaveEstablished
  BY <1>3, <1>4, <1>7, StaysTwice
<1>9. net.pcb[k] = "SYN_SENT" /\ net.head[k] = None
  BY <1>2 DEF PeerAccepts, CellSound, PcbSound, Early
<1> QED
  BY <1>1, <1>2, <1>8, <1>9, EstablishedStep

(* A FIN of the peer keeps it. *)
LEMMA FinStep ==
  ASSUME Ind, NEW k \in Cells, Fin(k)
  PROVE  Ind'
<1>1. Alone /\ k \in Used(net)
  BY EventAlone DEF Fin, Ind
<1>2. k \notin Range(net.pool) /\ WellFormed(net) /\ CellSound(net, k)
  BY <1>1, UsedFacts
<1>3. PICK room \in BOOLEAN :
        LET w == SoCantRcvMore(net, k, room) IN
        \/ net.pcb[k] = "ESTABLISHED" /\ net' = SetPcb(w, k, "CLOSE_WAIT")
        \/ net.pcb[k] = "FIN_WAIT_1" /\ net' = SetPcb(w, k, "CLOSING")
        \/ /\ net.pcb[k] = "FIN_WAIT_2"
           /\ net' = SoIsDisconnected(SetPcb(w, k, "TIME_WAIT"), k)
  BY DEF Fin, SetPcb
<1> DEFINE w == SoCantRcvMore(net, k, room)
<1>4. /\ Stays(net, w, k) /\ w.pcb = net.pcb
      /\ "DISCONNECTED" \in w.st[k] => "DISCONNECTED" \in net.st[k]
  BY <1>2, CantFacts
<1>5. \/ net.pcb[k] = "ESTABLISHED" /\ net' = SetPcb(w, k, "CLOSE_WAIT")
      \/ net.pcb[k] = "FIN_WAIT_1" /\ net' = SetPcb(w, k, "CLOSING")
      \/ net.pcb[k] = "FIN_WAIT_2" /\ net' = SoIsDisconnected(SetPcb(w, k, "TIME_WAIT"), k)
  BY <1>3
<1> HIDE DEF w
<1>6. WellFormed(w)
  BY <1>4 DEF Stays, Apart
<1>7. CASE net.pcb[k] = "ESTABLISHED" /\ net' = SetPcb(w, k, "CLOSE_WAIT")
  <2>1. "CLOSE_WAIT" \in States \cup {"udp", None} /\ "CLOSE_WAIT" \in HaveEstablished
        /\ "ESTABLISHED" \in HaveEstablished
    BY DEF States, HaveEstablished
  <2>2. Stays(w, net', k) /\ net'.pcb[k] = "CLOSE_WAIT" /\ net'.st = w.st
    BY <1>6, <1>7, <2>1, SetPcbStays
  <2>3. Stays(net, net', k)
    BY <1>4, <2>2, StaysTwice
  <2>4. "DISCONNECTED" \in net'.st[k] => "DISCONNECTED" \in net.st[k]
    BY <1>4, <2>2
  <2> QED
    BY <1>1, <1>2, <1>7, <2>1, <2>2, <2>3, <2>4, EstablishedStep
<1>8. CASE net.pcb[k] = "FIN_WAIT_1" /\ net' = SetPcb(w, k, "CLOSING")
  <2>1. "CLOSING" \in States \cup {"udp", None} /\ "CLOSING" \in HaveEstablished
        /\ "FIN_WAIT_1" \in HaveEstablished
    BY DEF States, HaveEstablished
  <2>2. Stays(w, net', k) /\ net'.pcb[k] = "CLOSING"
    BY <1>6, <1>8, <2>1, SetPcbStays
  <2>3. Stays(net, net', k)
    BY <1>4, <2>2, StaysTwice
  <2>4. net.head[k] = None
    BY <1>2, <1>8, GlueAssumption DEF CellSound, QueuedSound, States
  <2> QED
    BY <1>1, <1>2, <1>8, <2>1, <2>2, <2>3, <2>4, EstablishedStep
<1>9. CASE net.pcb[k] = "FIN_WAIT_2" /\ net' = SoIsDisconnected(SetPcb(w, k, "TIME_WAIT"), k)
  <2> DEFINE u == SetPcb(w, k, "TIME_WAIT")
  <2>1. "TIME_WAIT" \in States \cup {"udp", None} /\ "TIME_WAIT" \in HaveEstablished
        /\ "FIN_WAIT_2" \in HaveEstablished
    BY DEF States, HaveEstablished
  <2>2. Stays(w, u, k) /\ u.pcb[k] = "TIME_WAIT"
    BY <1>6, <2>1, SetPcbStays
  <2> HIDE DEF u
  <2>3. WellFormed(u)
    BY <2>2 DEF Stays, Apart
  <2>4. Stays(u, net', k) /\ net'.pcb = u.pcb
    BY <1>9, <2>3, MarkFacts DEF u
  <2>5. Stays(net, net', k)
    BY <1>4, <2>2, <2>4, StaysTwice
  <2>6. net.head[k] = None
    BY <1>2, <1>9, GlueAssumption DEF CellSound, QueuedSound, States
  <2>7. net'.pcb[k] \in HaveEstablished
    BY <2>1, <2>2, <2>4
  <2> QED
    BY <1>1, <1>2, <1>9, <2>1, <2>5, <2>6, <2>7, EstablishedStep
<1> QED
  BY <1>5, <1>7, <1>8, <1>9

(* The acknowledgement of our FIN keeps it, the last one included, which   *)
(* closes the connection.                                                  *)
LEMMA FinAckedStep ==
  ASSUME Ind, NEW k \in Cells, FinAcked(k)
  PROVE  Ind'
<1>1. Alone /\ k \in Used(net)
  BY EventAlone DEF FinAcked, Ind
<1>2. k \notin Range(net.pool) /\ WellFormed(net) /\ CellSound(net, k)
  BY <1>1, UsedFacts
<1>3. {"FIN_WAIT_1", "FIN_WAIT_2", "CLOSING", "TIME_WAIT", "LAST_ACK"}
        \subseteq HaveEstablished \cap (States \cup {"udp", None})
  BY DEF States, HaveEstablished
<1>4. net.head[k] = None
  <2>1. net.pcb[k] \in {"FIN_WAIT_1", "CLOSING", "LAST_ACK"}
    BY DEF FinAcked
  <2>2. net.pcb[k] \notin {"ESTABLISHED", "CLOSE_WAIT", None}
    BY <2>1, GlueAssumption DEF States
  <2> QED
    BY <1>2, <2>2 DEF CellSound, QueuedSound
<1>5. CASE /\ net.pcb[k] = "FIN_WAIT_1"
           /\ net' = [IF "CANTRCVMORE" \in net.st[k] THEN SoIsDisconnected(net, k) ELSE net
                      EXCEPT !.pcb[k] = "FIN_WAIT_2"]
  <2> DEFINE u == IF "CANTRCVMORE" \in net.st[k] THEN SoIsDisconnected(net, k) ELSE net
  <2>1. Stays(net, u, k)
    BY <1>2, MarkFacts, StaysItself
  <2>2. net' = SetPcb(u, k, "FIN_WAIT_2")
    BY <1>5 DEF SetPcb
  <2> HIDE DEF u
  <2>3. WellFormed(u)
    BY <2>1 DEF Stays, Apart
  <2>4. Stays(u, net', k) /\ net'.pcb[k] = "FIN_WAIT_2"
    <3>1. "FIN_WAIT_2" \in States \cup {"udp", None}
      BY <1>3
    <3> QED
      BY <2>2, <2>3, <3>1, SetPcbStays
  <2>5. Stays(net, net', k)
    BY <2>1, <2>4, StaysTwice
  <2>6. net.pcb[k] \in HaveEstablished /\ net'.pcb[k] \in HaveEstablished
    BY <1>3, <1>5, <2>4
  <2> QED
    BY <1>1, <1>2, <1>4, <2>5, <2>6, EstablishedStep
<1>6. CASE net.pcb[k] = "CLOSING" /\ net' = SoIsDisconnected(SetPcb(net, k, "TIME_WAIT"), k)
  <2> DEFINE u == SetPcb(net, k, "TIME_WAIT")
  <2>1. Stays(net, u, k) /\ u.pcb[k] = "TIME_WAIT"
    <3>1. "TIME_WAIT" \in States \cup {"udp", None}
      BY <1>3
    <3> QED
      BY <1>2, <3>1, SetPcbStays
  <2> HIDE DEF u
  <2>2. WellFormed(u)
    BY <2>1 DEF Stays, Apart
  <2>3. Stays(u, net', k) /\ net'.pcb = u.pcb
    BY <1>6, <2>2, MarkFacts DEF u
  <2>4. Stays(net, net', k) /\ net'.pcb[k] = "TIME_WAIT"
    BY <2>1, <2>3, StaysTwice
  <2>5. net.pcb[k] \in HaveEstablished /\ net'.pcb[k] \in HaveEstablished
    BY <1>3, <1>6, <2>4
  <2> QED
    BY <1>1, <1>2, <1>4, <2>4, <2>5, EstablishedStep
<1>7. CASE net.pcb[k] = "LAST_ACK" /\ net' = TcpClose(net, k)
  <2>1. Closed(net, net', k)
    BY <1>2, <1>7, TcpCloseFacts
  <2> QED
    BY <1>1, <1>2, <1>3, <1>7, <2>1, ClosedStep
<1> QED
  BY <1>5, <1>6, <1>7 DEF FinAcked, SetPcb

(* A cell is taken out of the pool: it was free, and is on no list. *)
LEMMA FirstFreeFacts ==
  ASSUME NEW w, NetSound(w), NEW k \in Cells, FirstFree(w, k)
  PROVE  /\ k \in Range(w.pool) /\ FreeSound(w, k) /\ \A n \in Lists : k \notin w.present[n]
         /\ Without(w.pool, k) \in Seq(Cells) /\ IsInjective(Without(w.pool, k))
         /\ \A c : c \in Range(Without(w.pool, k)) <=> c \in Range(w.pool) /\ c # k
<1>1. w \in NetType /\ IsInjective(w.pool) /\ CellSound(w, k) /\ ListsAgree(w)
  BY DEF NetSound, WellFormed
<1>2. w.pool \in Seq(Cells)
  BY <1>1, NetFields
<1>3. k \in Range(w.pool) /\ k \notin Listed(w)
  BY DEF FirstFree, Range
<1>4. \A n \in Lists : k \notin w.present[n]
  BY <1>1, <1>3 DEF Listed, ListsAgree
<1> DEFINE s == w.pool
<1>5. s \in Seq(Cells) /\ IsInjective(s)
  BY <1>1, <1>2
<1> HIDE DEF s
<1>6. Without(s, k) \in Seq(Cells) /\ IsInjective(Without(s, k)) /\ Range(Without(s, k)) = Range(s) \ {k}
  BY <1>5, WithoutFacts
<1>7. \A c : c \in Range(Without(s, k)) <=> c \in Range(s) /\ c # k
  BY <1>6
<1> QED
  BY <1>1, <1>3, <1>4, <1>6, <1>7 DEF CellSound, s

(* sonewconn: cell k becomes a connection queued on listener l. *)

Made(w, l, k) ==
  [SoGet(w, k) EXCEPT !.st[k] = w.st[l] \cup {"NOFDREF", "CONNECTED"},
                      !.stream = @ \cup {k}, !.pcb[k] = "ESTABLISHED"]

(* The new connection is queued last, and everything else stays. *)
LEMMA MadeFacts ==
  ASSUME NEW w, NetSound(w), NEW l \in Cells, NEW k \in Cells, FirstFree(w, k), l # k,
         NEW v, v = SoQInsQue(Made(w, l, k), l, k)
  PROVE  /\ WellFormed(v) /\ v.upcall = w.upcall /\ v.present = w.present
         /\ v.pcb[k] = "ESTABLISHED" /\ "NOFDREF" \in v.st[k]
         /\ "DISCONNECTED" \in v.st[k] => "DISCONNECTED" \in w.st[l]
         /\ v.head[k] = l /\ v.q[l] = Append(w.q[l], k)
         /\ \A c \in Cells \ {k} : /\ v.pcb[c] = w.pcb[c] /\ v.st[c] = w.st[c]
                                   /\ v.head[c] = w.head[c] /\ (c \in v.stream <=> c \in w.stream)
         /\ \A c \in Cells \ {l} : v.q[c] = w.q[c]
         /\ \A c : c \in Range(v.pool) <=> c \in Range(w.pool) /\ c # k
<1> DEFINE g == SoGet(w, k)
           m == Made(w, l, k)
           pool == Without(w.pool, k)
           st == w.st[l] \cup {"NOFDREF", "CONNECTED"}
<1>1. w \in NetType /\ WellFormed(w)
  BY DEF NetSound, WellFormed
<1>2. /\ w.pcb \in [Cells -> States \cup {"udp", None}] /\ w.st \in [Cells -> SUBSET Flags]
      /\ w.stream \subseteq Cells /\ w.head \in [Cells -> Cells \cup {None}]
      /\ w.q \in [Cells -> Seq(Cells)]
  BY <1>1, NetFields
<1>3. /\ pool \in Seq(Cells) /\ IsInjective(pool)
      /\ \A c : c \in Range(pool) <=> c \in Range(w.pool) /\ c # k
  BY FirstFreeFacts
<1>4. st \in SUBSET Flags /\ "ESTABLISHED" \in States \cup {"udp", None}
  BY <1>2 DEF Flags, States
<1> HIDE DEF pool, st
<1>5. g \in NetType
  BY <1>1, <1>3 DEF NetType, SoGet, pool
<1>6. /\ g.pool = pool /\ g.pcb = w.pcb /\ g.st = w.st /\ g.stream = w.stream /\ g.head = w.head
      /\ g.q = w.q /\ g.upcall = w.upcall /\ g.list = w.list /\ g.present = w.present
      /\ g.len = w.len /\ g.aborting = w.aborting
  BY <1>1, SMTT(30) DEF NetType, SoGet, pool
<1>7. m = [g EXCEPT !.st[k] = st, !.stream = @ \cup {k}, !.pcb[k] = "ESTABLISHED"]
  BY DEF Made, st
<1> HIDE DEF g, m
<1>8. m \in NetType
  <2>1. g.stream \cup {k} \in SUBSET Cells
    BY <1>2, <1>6
  <2>2. [g EXCEPT !.st[k] = st, !.stream = @ \cup {k}, !.pcb[k] = "ESTABLISHED"] \in NetType
    BY ZenonT(60), <1>4, <1>5, <2>1 DEF NetType
  <2> QED
    BY <1>7, <2>2
<1>9. /\ m.st = [g.st EXCEPT ![k] = st] /\ m.pcb = [g.pcb EXCEPT ![k] = "ESTABLISHED"]
      /\ m.stream = g.stream \cup {k} /\ m.pool = g.pool /\ m.head = g.head
      /\ m.q = g.q /\ m.upcall = g.upcall /\ m.list = g.list /\ m.present = g.present
      /\ m.len = g.len /\ m.aborting = g.aborting
  BY <1>5, <1>7, SMTT(30) DEF NetType
<1>10. v = [m EXCEPT !.head[k] = l, !.q[l] = Append(@, k)]
  BY DEF SoQInsQue, m
<1>11. v \in NetType
  <2>1. Append(m.q[l], k) \in Seq(Cells)
    <3>1. m.q = w.q /\ m.q[l] \in Seq(Cells)
      BY <1>2, <1>6, <1>9
    <3> QED
      BY <3>1, AppendFacts
  <2>2. [m EXCEPT !.head[k] = l, !.q[l] = Append(@, k)] \in NetType
    BY ZenonT(60), <1>8, <2>1 DEF NetType
  <2> QED
    BY <1>10, <2>2
<1>12. /\ v.head = [m.head EXCEPT ![k] = l] /\ v.q = [m.q EXCEPT ![l] = Append(@, k)]
       /\ v.st = m.st /\ v.pcb = m.pcb /\ v.stream = m.stream /\ v.pool = m.pool
       /\ v.upcall = m.upcall /\ v.list = m.list /\ v.present = m.present
       /\ v.len = m.len /\ v.aborting = m.aborting
  BY <1>8, <1>10, SMTT(30) DEF NetType
<1>13. WellFormed(v)
  <2>1. v.list = w.list /\ v.present = w.present /\ v.len = w.len /\ v.aborting = w.aborting
        /\ v.pool = pool
    BY <1>6, <1>9, <1>12
  <2> QED
    BY <1>1, <1>3, <1>11, <2>1 DEF WellFormed, ListsAgree
<1>14. /\ v.pcb[k] = "ESTABLISHED" /\ v.st[k] = st
       /\ \A c \in Cells \ {k} : v.pcb[c] = w.pcb[c] /\ v.st[c] = w.st[c]
  <2>1. v.pcb = [w.pcb EXCEPT ![k] = "ESTABLISHED"] /\ v.st = [w.st EXCEPT ![k] = st]
    BY <1>6, <1>9, <1>12
  <2> QED
    BY <1>2, <2>1
<1>15. /\ v.head[k] = l /\ v.q[l] = Append(w.q[l], k)
       /\ \A c \in Cells \ {k} : v.head[c] = w.head[c]
       /\ \A c \in Cells \ {l} : v.q[c] = w.q[c]
  <2>1. v.head = [w.head EXCEPT ![k] = l] /\ v.q = [w.q EXCEPT ![l] = Append(@, k)]
    BY <1>6, <1>9, <1>12
  <2> QED
    BY <1>2, <2>1
<1>16. v.stream = w.stream \cup {k} /\ v.upcall = w.upcall /\ v.present = w.present
       /\ v.pool = pool
  BY <1>6, <1>9, <1>12
<1>17. \A c \in Cells \ {k} : c \in v.stream <=> c \in w.stream
  BY <1>16
<1>18. "NOFDREF" \in v.st[k] /\ ("DISCONNECTED" \in v.st[k] => "DISCONNECTED" \in w.st[l])
  BY <1>14 DEF st
<1> QED
  BY <1>3, <1>13, <1>14, <1>15, <1>16, <1>17, <1>18

(* An incoming connection keeps the invariant: its listener is announced   *)
(* by the wakeup that follows sonewconn.                                   *)
LEMMA PeerOpensStep ==
  ASSUME Ind, NEW l \in Cells, PeerOpens(l)
  PROVE  Ind'
<1>0. "accept" \in Lists /\ "closed" \in Lists
  BY DEF Lists
<1>1. Alone /\ l \in Used(net) /\ net.pcb[l] = "LISTEN"
  BY EventAlone DEF PeerOpens, Ind
<1>2. NetSound(net) /\ TypeOK
  BY DEF Ind
<1>3. /\ l \notin Range(net.pool) /\ "DISCONNECTED" \notin net.st[l] /\ l \in net.upcall
      /\ net.head[l] = None
  <2>1. CellSound(net, l) /\ net.pcb[l] \in Early
    BY <1>1, <1>2 DEF NetSound, Early
  <2> QED
    BY <1>1, <2>1 DEF Used, CellSound, PcbSound
<1> DEFINE yes == TRUE
<1>4. PICK k \in Cells : FirstFree(net, k) /\ net' = Wakeup(SoQInsQue(Made(net, l, k), l, k), l, yes)
  BY DEF PeerOpens, Made
<1> DEFINE m == SoQInsQue(Made(net, l, k), l, k)
<1> HIDE DEF yes
<1>5. /\ k \in Range(net.pool) /\ net.pcb[k] = None /\ net.head[k] = None /\ k \notin net.upcall
      /\ net.st[k] = {}
      /\ \A n \in Lists : k \notin net.present[n]
  BY <1>2, <1>4, FirstFreeFacts DEF FreeSound
<1>6. l # k
  BY <1>3, <1>5
<1>7. /\ WellFormed(m) /\ m.upcall = net.upcall /\ m.present = net.present
      /\ m.pcb[k] = "ESTABLISHED" /\ "NOFDREF" \in m.st[k]
      /\ "DISCONNECTED" \in m.st[k] => "DISCONNECTED" \in net.st[l]
      /\ m.head[k] = l /\ m.q[l] = Append(net.q[l], k)
      /\ \A c \in Cells \ {k} : /\ m.pcb[c] = net.pcb[c] /\ m.st[c] = net.st[c]
                                /\ m.head[c] = net.head[c] /\ (c \in m.stream <=> c \in net.stream)
      /\ \A c \in Cells \ {l} : m.q[c] = net.q[c]
      /\ \A c : c \in Range(m.pool) <=> c \in Range(net.pool) /\ c # k
  <2>1. m = SoQInsQue(Made(net, l, k), l, k)
    OBVIOUS
  <2> HIDE DEF m
  <2> QED
    BY <1>2, <1>4, <1>6, <2>1, MadeFacts, SMTT(30)
<1>8. net' = Wakeup(m, l, yes)
  BY <1>4
<1> HIDE DEF m
<1>9. /\ Announced(m, net', l)
      /\ l \in net'.present["accept"]
  <2>1. m.pcb[l] = "LISTEN" /\ "DISCONNECTED" \notin m.st[l] /\ l \in m.upcall
    BY <1>1, <1>3, <1>6, <1>7
  <2>2. WellFormed(m)
    BY <1>7
  <2> QED
    BY <1>8, <2>1, <2>2, WakeupFacts
<1>10. /\ WellFormed(net') /\ net'.upcall = net.upcall
       /\ net'.pcb = m.pcb /\ net'.st = m.st /\ net'.head = m.head /\ net'.q = m.q
       /\ net'.stream = m.stream /\ net'.pool = m.pool
       /\ \A n \in Lists : net.present[n] \subseteq net'.present[n]
                           /\ net'.present[n] \subseteq net.present[n] \cup {l}
  BY <1>7, <1>9 DEF Announced, SameSockets
<1>11. ASSUME NEW c \in Cells \ {k}
       PROVE  /\ net'.pcb[c] = net.pcb[c] /\ net'.st[c] = net.st[c] /\ net'.head[c] = net.head[c]
              /\ (c \in net'.stream <=> c \in net.stream)
              /\ (c \in Range(net'.pool) <=> c \in Range(net.pool))
  BY <1>7, <1>10
<1>12. /\ net'.pcb[k] = "ESTABLISHED" /\ net'.head[k] = l /\ k \notin net'.upcall
       /\ "NOFDREF" \in net'.st[k] /\ "DISCONNECTED" \notin net'.st[k]
       /\ k \notin Range(net'.pool) /\ \A n \in Lists : k \notin net'.present[n]
  <2>1. /\ net'.pcb[k] = "ESTABLISHED" /\ net'.head[k] = l /\ k \notin net'.upcall
        /\ "NOFDREF" \in net'.st[k] /\ "DISCONNECTED" \notin net'.st[k]
    BY <1>3, <1>5, <1>7, <1>10
  <2>2. k \notin Range(net'.pool)
    BY <1>7, <1>10
  <2>3. \A n \in Lists : k \notin net'.present[n]
    BY <1>5, <1>6, <1>10
  <2> QED
    BY <2>1, <2>2, <2>3
<1>13. ASSUME NEW c \in Cells PROVE CellSound(net', c)
  <2>1. CASE c = k
    <3>1. FreeSound(net', k)
      BY <1>12 DEF FreeSound
    <3>2. "ESTABLISHED" # "udp" /\ "ESTABLISHED" # None /\ "ESTABLISHED" \notin Early
      BY GlueAssumption DEF Early, States
    <3>3. PcbSound(net', k)
      BY <1>12, <3>2 DEF PcbSound
    <3>4. QueuedSound(net', k)
      BY <1>12 DEF QueuedSound
    <3> QED
      BY <2>1, <3>1, <3>3, <3>4 DEF CellSound
  <2>2. CASE c # k
    <3>1. CellSound(net, c)
      BY <1>2 DEF NetSound
    <3>2. FreeSound(net', c)
      BY <1>10, <1>11, <2>2, <3>1 DEF CellSound, FreeSound
    <3>3. PcbSound(net', c)
      BY <1>10, <1>11, <2>2, <3>1 DEF CellSound, PcbSound
    <3>4. QueuedSound(net', c)
      <4>1. CASE c = l
        BY <1>3, <1>11, <2>2, <4>1 DEF QueuedSound
      <4>2. CASE c # l
        BY <1>10, <1>11, <2>2, <3>1, <4>2 DEF CellSound, QueuedSound
      <4> QED
        BY <4>1, <4>2
    <3> QED
      BY <3>2, <3>3, <3>4 DEF CellSound
  <2> QED
    BY <2>1, <2>2
<1>14. ASSUME NEW c \in Cells PROVE HeadSound(net', c)
  <2>1. CASE c = k
    BY <1>1, <1>6, <1>9, <1>11, <1>12, <2>1 DEF HeadSound, Heads
  <2>2. CASE c # k
    <3>1. SUFFICES ASSUME net'.head[c] # None
                   PROVE  /\ Heads(net', net'.head[c])
                          /\ net'.head[c] \in net'.present["accept"]
      BY DEF HeadSound
    <3>2. net'.head[c] = net.head[c]
      BY <1>11, <2>2
    <3>3. Heads(net, net.head[c]) /\ net.head[c] \in net.present["accept"]
      BY <1>2, <3>1, <3>2 DEF NetSound, HeadSound
    <3>4. net.head[c] \in Cells
      <4>1. net.head \in [Cells -> Cells \cup {None}]
        BY <1>2, NetFields DEF TypeOK
      <4> QED
        BY <3>1, <3>2, <4>1
    <3>5. net.head[c] # k
      BY <1>5, <3>3, GlueAssumption DEF States, Heads
    <3>6. Heads(net', net.head[c])
      BY <1>11, <3>3, <3>4, <3>5 DEF Heads
    <3> QED
      BY <1>0, <1>10, <3>2, <3>3, <3>6
  <2> QED
    BY <2>1, <2>2
<1>15. ASSUME NEW c \in Cells, NEW d \in Cells PROVE c \in Range(net'.q[d]) <=> net'.head[c] = d
  <2>1. c \in Range(net.q[d]) <=> net.head[c] = d
    BY <1>2 DEF NetSound, QueueAgrees
  <2>2. c # k => net'.head[c] = net.head[c]
    BY <1>11
  <2>3. CASE d = l
    <3> DEFINE s == net.q[l]
    <3>1. s \in Seq(Cells)
      BY <1>2, NetFields DEF TypeOK
    <3>2. net'.q[d] = Append(s, k) /\ net.q[d] = s
      BY <1>7, <1>10, <2>3
    <3> HIDE DEF s
    <3>3. c \in Range(Append(s, k)) <=> c \in Range(s) \/ c = k
      <4>1. Range(Append(s, k)) = Range(s) \cup {k}
        BY <3>1, AppendFacts
      <4> QED
        BY <4>1
    <3> QED
      BY <1>12, <2>1, <2>2, <2>3, <3>2, <3>3
  <2>4. CASE d # l
    <3>1. net'.q[d] = net.q[d]
      BY <1>7, <1>10, <2>4
    <3>2. d # None
      BY GlueAssumption
    <3> QED
      BY <1>5, <1>12, <2>1, <2>2, <2>4, <3>1, <3>2
  <2> QED
    BY <2>3, <2>4
<1>16. NetSound(net')
  BY <1>10, <1>13, <1>14, <1>15 DEF NetSound, QueueAgrees
<1>17. UNCHANGED <<sat, parent, posted, told, refused, missed, forgotten, halted>> /\ Held' = Held
  BY <1>1 DEF Alone, Held
<1>18. TypeOK' /\ Held \subseteq Cells
  BY <1>1, <1>2, <1>16, <1>17 DEF TypeOK, Alone, NetSound, WellFormed, Held, Range
<1>19. k \notin Held
  BY <1>5 DEF Ind, HeldSound
<1>20. HeldSound'
  <2>1. SUFFICES ASSUME NEW c \in Held
                 PROVE  /\ c \notin Range(net'.pool) /\ net'.head[c] = None
                        /\ "NOFDREF" \notin net'.st[c] /\ c \in net'.upcall
    BY <1>17 DEF HeldSound
  <2> QED
    BY <1>10, <1>11, <1>18, <1>19 DEF Ind, HeldSound
<1>21. HeldReported'
  <2>1. SUFFICES ASSUME ~halted, NEW c \in Held, "DISCONNECTED" \in net'.st[c]
                 PROVE  c \in told \cup refused \cup missed \cup net'.present["closed"]
    BY <1>17 DEF HeldReported
  <2>2. "DISCONNECTED" \in net.st[c]
    BY <1>11, <1>18, <1>19, <2>1
  <2>3. c \in told \cup refused \cup missed \cup net.present["closed"]
    BY <2>1, <2>2 DEF Ind, HeldReported
  <2> QED
    BY <1>0, <1>10, <2>3
<1>22. HeldOnce'
  BY <1>17 DEF Ind, HeldOnce
<1>23. OthersClosing'
  <2>1. SUFFICES ASSUME NEW c \in Cells, c \notin Range(net'.pool), c \notin forgotten,
                        c \notin Held, net'.head[c] = None
                 PROVE  "NOFDREF" \in net'.st[c] /\ net'.pcb[c] # None
    BY <1>17 DEF OthersClosing
  <2>2. c # k
    BY <1>12, <2>1, GlueAssumption
  <2> QED
    BY <1>11, <2>1, <2>2 DEF Ind, OthersClosing
<1> QED
  BY <1>16, <1>18, <1>20, <1>21, <1>22, <1>23 DEF Ind

----------------------------------------------------------------------------
(* The commands. *)

(* A command is taken only while the service is alive, and the timers are  *)
(* next.                                                                   *)
LEMMA CommandFacts ==
  ASSUME TypeOK, Command
  PROVE  /\ ~halted /\ halted' = halted /\ phase' \in {"command", "timers", "tx", "rx", "softint", "wait"}
         /\ (UNCHANGED <<sat, parent, posted, history>> => Alone)
  BY DEF Command, Alone, history

(* app_glue_create_socket: cell k becomes a new socket of slot s. *)

Opened(g, k, p, stream, upcall, s) ==
  [g EXCEPT !.pcb[k] = p, !.stream = stream, !.upcall = upcall, !.glue[k] = s]

Opens(w, v, k, p, s) ==
  \E stream, upcall : /\ stream = w.stream \cup (IF p = "udp" THEN {} ELSE {k})
                      /\ upcall = w.upcall \cup {k}
                      /\ v = Opened(SoGet(w, k), k, p, stream, upcall, s)

Fresh(w, v, k, p) ==
  /\ WellFormed(v) /\ v.present = w.present /\ v.head = w.head /\ v.q = w.q /\ v.st = w.st
  /\ v.pcb[k] = p /\ (k \in v.stream <=> p # "udp") /\ k \in v.upcall
  /\ \A c \in Cells \ {k} : /\ v.pcb[c] = w.pcb[c] /\ (c \in v.stream <=> c \in w.stream)
                            /\ (c \in v.upcall <=> c \in w.upcall)
  /\ \A c : c \in Range(v.pool) <=> c \in Range(w.pool) /\ c # k

OpenedFrom(g, v, k, p, stream, upcall) ==
  /\ v.pcb = [g.pcb EXCEPT ![k] = p] /\ v.stream = stream /\ v.upcall = upcall
  /\ v.pool = g.pool /\ v.head = g.head /\ v.q = g.q /\ v.st = g.st
  /\ v.list = g.list /\ v.present = g.present /\ v.len = g.len /\ v.aborting = g.aborting

(* The fields of a cell that is set up for slot s. *)
LEMMA OpenedFields ==
  ASSUME NEW g \in NetType, NEW k, NEW p, NEW stream, NEW upcall, NEW s
  PROVE  OpenedFrom(g, Opened(g, k, p, stream, upcall, s), k, p, stream, upcall)
  BY SMTT(30) DEF NetType, Opened, OpenedFrom

(* A new socket is disconnected from everything but its slot. *)
LEMMA OpenedFacts ==
  ASSUME NEW w, NetSound(w), NEW k \in Cells, FirstFree(w, k), NEW s \in Slots,
         NEW p \in {"CLOSED", "udp"}, NEW v, Opens(w, v, k, p, s)
  PROVE  Fresh(w, v, k, p)
<1> DEFINE g == SoGet(w, k)
           pool == Without(w.pool, k)
<1>1. w \in NetType /\ WellFormed(w)
  BY DEF NetSound, WellFormed
<1>2. /\ w.pcb \in [Cells -> States \cup {"udp", None}]
      /\ w.stream \subseteq Cells /\ w.upcall \subseteq Cells
  BY <1>1, NetFields
<1>3. /\ pool \in Seq(Cells) /\ IsInjective(pool)
      /\ \A c : c \in Range(pool) <=> c \in Range(w.pool) /\ c # k
  BY FirstFreeFacts
<1>4. k \notin w.stream
  BY FirstFreeFacts DEF FreeSound
<1> HIDE DEF pool
<1>5. g \in NetType
  BY <1>1, <1>3 DEF NetType, SoGet, pool
<1>6. /\ g.pool = pool /\ g.pcb = w.pcb /\ g.st = w.st /\ g.stream = w.stream /\ g.head = w.head
      /\ g.q = w.q /\ g.upcall = w.upcall /\ g.list = w.list /\ g.present = w.present
      /\ g.len = w.len /\ g.aborting = w.aborting
  BY <1>1, SMTT(30) DEF NetType, SoGet, pool
<1>7. PICK stream, upcall : /\ stream = w.stream \cup (IF p = "udp" THEN {} ELSE {k})
                            /\ upcall = w.upcall \cup {k}
                            /\ v = Opened(g, k, p, stream, upcall, s)
  BY DEF Opens
<1> HIDE DEF g
<1>8. v \in NetType
  <2>1. /\ upcall \in SUBSET Cells /\ stream \in SUBSET Cells
        /\ p \in States \cup {"udp", None} /\ s \in Slots \cup {None}
    BY <1>2, <1>7 DEF States
  <2>2. [g EXCEPT !.pcb[k] = p, !.stream = stream, !.upcall = upcall, !.glue[k] = s] \in NetType
    BY ZenonT(60), <1>5, <2>1 DEF NetType
  <2> QED
    BY <1>7, <2>2 DEF Opened
<1>9. /\ v.pcb = [g.pcb EXCEPT ![k] = p] /\ v.stream = stream /\ v.upcall = upcall
      /\ v.pool = g.pool /\ v.head = g.head /\ v.q = g.q /\ v.st = g.st
      /\ v.list = g.list /\ v.present = g.present /\ v.len = g.len /\ v.aborting = g.aborting
  <2>1. g \in NetType /\ v = Opened(g, k, p, stream, upcall, s)
    BY <1>5, <1>7
  <2>2. OpenedFrom(g, Opened(g, k, p, stream, upcall, s), k, p, stream, upcall)
    BY <2>1, OpenedFields
  <2>3. OpenedFrom(g, v, k, p, stream, upcall)
    BY <2>1, <2>2
  <2> QED
    BY <2>3 DEF OpenedFrom
<1>10. /\ v.list = w.list /\ v.present = w.present /\ v.len = w.len /\ v.aborting = w.aborting
       /\ v.pool = pool /\ v.head = w.head /\ v.q = w.q /\ v.st = w.st
       /\ v.pcb = [w.pcb EXCEPT ![k] = p] /\ v.stream = stream /\ v.upcall = upcall
  BY <1>6, <1>9
<1>11. WellFormed(v)
  BY <1>1, <1>3, <1>8, <1>10 DEF WellFormed, ListsAgree
<1>12. v.pcb[k] = p /\ \A c \in Cells \ {k} : v.pcb[c] = w.pcb[c]
  <2>1. v.pcb = [w.pcb EXCEPT ![k] = p] /\ w.pcb \in [Cells -> States \cup {"udp", None}]
    BY <1>2, <1>10
  <2> QED
    BY <2>1, SMTT(30)
<1>13. (k \in v.stream <=> p # "udp") /\ \A c \in Cells \ {k} : c \in v.stream <=> c \in w.stream
  BY <1>4, <1>7, <1>10
<1>14. k \in v.upcall /\ \A c \in Cells \ {k} : c \in v.upcall <=> c \in w.upcall
  BY <1>7, <1>10
<1>15. \A c : c \in Range(v.pool) <=> c \in Range(w.pool) /\ c # k
  BY <1>3, <1>10
<1> QED
  BY <1>10, <1>11, <1>12, <1>13, <1>14, <1>15 DEF Fresh

(* OPEN_SOCKET keeps the invariant: the cell was free, so no slot held it. *)
LEMMA ProcessOpenStep ==
  ASSUME Ind, NEW s \in Slots, NEW b \in BOOLEAN, ProcessOpen(s, b)
  PROVE  Ind'
<1>0. TypeOK /\ NetSound(net) /\ "accept" \in Lists
  BY DEF Ind, Lists
<1>1. /\ ~halted /\ halted' = halted /\ phase' \in {"command", "timers", "tx", "rx", "softint", "wait"}
      /\ posted' = posted /\ told' = told /\ refused' = refused /\ missed' = missed /\ forgotten' = forgotten
      /\ sat[s] = None
  BY <1>0, CommandFacts DEF ProcessOpen, history
<1> DEFINE p == IF b THEN "CLOSED" ELSE "udp"
<1>2. PICK k \in Cells :
        /\ FirstFree(net, k)
        /\ net' = [SoGet(net, k) EXCEPT !.pcb[k] = p,
                      !.stream = IF b THEN @ \cup {k} ELSE @,
                      !.upcall = @ \cup {k}, !.glue[k] = s]
        /\ sat' = [sat EXCEPT ![s] = k]
  BY DEF ProcessOpen
<1>4. Opens(net, net', k, p, s)
  <2> DEFINE stream == net.stream \cup (IF p = "udp" THEN {} ELSE {k})
             upcall == net.upcall \cup {k}
  <2>1. SoGet(net, k).stream = net.stream /\ SoGet(net, k).upcall = net.upcall
    <3>1. net \in NetType
      BY <1>0 DEF TypeOK
    <3> QED
      BY <3>1, SMTT(30) DEF NetType, SoGet
  <2>2. (IF b THEN SoGet(net, k).stream \cup {k} ELSE SoGet(net, k).stream) = stream
    BY <2>1
  <2>3. net' = Opened(SoGet(net, k), k, p, stream, upcall, s)
    BY <1>2, <2>1, <2>2 DEF Opened
  <2> QED
    BY <2>3 DEF Opens
<1>5. p \in {"CLOSED", "udp"}
  OBVIOUS
<1> HIDE DEF p
<1>6. /\ WellFormed(net') /\ net'.present = net.present /\ net'.head = net.head
      /\ net'.q = net.q /\ net'.st = net.st
      /\ net'.pcb[k] = p /\ (k \in net'.stream <=> p # "udp") /\ k \in net'.upcall
      /\ \A c \in Cells \ {k} : /\ net'.pcb[c] = net.pcb[c] /\ (c \in net'.stream <=> c \in net.stream)
                                /\ (c \in net'.upcall <=> c \in net.upcall)
      /\ \A c : c \in Range(net'.pool) <=> c \in Range(net.pool) /\ c # k
  <2>1. FirstFree(net, k) /\ NetSound(net)
    BY <1>0, <1>2
  <2>2. Fresh(net, net', k, p)
    BY <1>4, <1>5, <2>1, OpenedFacts
  <2> QED
    BY <2>2 DEF Fresh
<1>7. /\ net.pcb[k] = None /\ net.st[k] = {} /\ net.head[k] = None /\ k \in Range(net.pool)
      /\ \A n \in Lists : k \notin net.present[n]
  BY <1>0, <1>2, FirstFreeFacts DEF FreeSound
<1>8. None \notin States /\ None # "udp" /\ None \notin Cells
  BY GlueAssumption
<1>9. ASSUME NEW c \in Cells PROVE CellSound(net', c)
  <2>0. CellSound(net, c)
    BY <1>0 DEF NetSound
  <2>1. CASE c = k
    <3>1. FreeSound(net', k)
      BY <1>6 DEF FreeSound
    <3>2. p # None
      BY <1>5, <1>8 DEF States
    <3>3. net'.head[k] = None /\ net'.st[k] = {}
      BY <1>6, <1>7
    <3>4. PcbSound(net', k)
      BY <1>6, <3>2, <3>3 DEF PcbSound
    <3>5. QueuedSound(net', k)
      BY <3>3 DEF QueuedSound
    <3> QED
      BY <2>1, <3>1, <3>4, <3>5 DEF CellSound
  <2>2. CASE c # k
    <3>1. /\ net'.pcb[c] = net.pcb[c] /\ (c \in net'.stream <=> c \in net.stream)
          /\ (c \in net'.upcall <=> c \in net.upcall)
          /\ (c \in Range(net'.pool) <=> c \in Range(net.pool))
          /\ net'.present = net.present /\ net'.head = net.head /\ net'.st = net.st
      BY <1>6, <2>2
    <3>2. FreeSound(net', c)
      BY <2>0, <3>1 DEF CellSound, FreeSound
    <3>3. PcbSound(net', c)
      BY <2>0, <3>1 DEF CellSound, PcbSound
    <3>4. QueuedSound(net', c)
      BY <2>0, <3>1 DEF CellSound, QueuedSound
    <3> QED
      BY <3>2, <3>3, <3>4 DEF CellSound
  <2> QED
    BY <2>1, <2>2
<1>10. ASSUME NEW c \in Cells PROVE HeadSound(net', c)
  <2>1. SUFFICES ASSUME net.head[c] # None
                 PROVE  /\ Heads(net', net.head[c])
                        /\ net.head[c] \in net.present["accept"]
    BY <1>6 DEF HeadSound
  <2>2. Heads(net, net.head[c]) /\ net.head[c] \in net.present["accept"]
    BY <1>0, <2>1 DEF NetSound, HeadSound
  <2>3. net.head[c] \in Cells /\ net.head[c] # k
    <3>1. net.head \in [Cells -> Cells \cup {None}]
      BY <1>0, NetFields DEF TypeOK
    <3> QED
      BY <1>7, <1>8, <2>1, <2>2, <3>1 DEF States, Heads
  <2> QED
    BY <1>6, <2>2, <2>3 DEF Heads
<1>11. NetSound(net')
  <2>0. net'.head = net.head /\ net'.q = net.q
    BY <1>6
  <2>1. QueueAgrees(net')
    BY <1>0, <2>0 DEF NetSound, QueueAgrees
  <2> QED
    BY <1>6, <1>9, <1>10, <2>1 DEF NetSound
<1>12. /\ sat \in [Slots -> Cells \cup {None}] /\ sat'[s] = k
       /\ \A t \in Slots \ {s} : sat'[t] = sat[t]
  BY <1>0, <1>2 DEF TypeOK
<1>13. TypeOK'
  <2>1. sat' \in [Slots -> Cells \cup {None}]
    BY <1>2, <1>12
  <2>2. parent' \in [Slots -> BOOLEAN]
    <3>1. PICK selected \in BOOLEAN : parent' = [parent EXCEPT ![s] = selected]
      BY DEF ProcessOpen
    <3> QED
      BY <1>0, <3>1 DEF TypeOK
  <2> QED
    BY <1>0, <1>1, <1>11, <2>1, <2>2 DEF TypeOK, NetSound, WellFormed
<1>14. k \notin Held
  BY <1>7 DEF Ind, HeldSound
<1>15. ASSUME NEW c PROVE c \in Held' <=> c \in Held \/ c = k
  <2>1. DOMAIN sat = Slots /\ DOMAIN sat' = Slots
    BY <1>12, <1>13 DEF TypeOK
  <2>2. c \in Range(sat') /\ c # None <=> (c \in Range(sat) /\ c # None) \/ c = k
    BY <1>1, <1>8, <1>12, <2>1 DEF Range
  <2> QED
    BY <1>1, <2>2 DEF Held
<1>16. Held \subseteq Cells
  BY <1>0 DEF TypeOK, Held, Range
<1>17. HeldSound'
  <2>1. SUFFICES ASSUME NEW c \in Held'
                 PROVE  /\ c \notin Range(net'.pool) /\ net'.head[c] = None
                        /\ "NOFDREF" \notin net'.st[c] /\ c \in net'.upcall
    BY DEF HeldSound
  <2>2. CASE c = k
    BY <1>6, <1>7, <2>2
  <2>3. CASE c # k
    <3>1. c \in Held /\ c \in Cells
      BY <1>15, <1>16, <2>1, <2>3
    <3> QED
      BY <1>6, <2>3, <3>1 DEF Ind, HeldSound
  <2> QED
    BY <2>2, <2>3
<1>18. HeldReported'
  <2>1. SUFFICES ASSUME ~halted, NEW c \in Held', "DISCONNECTED" \in net'.st[c]
                 PROVE  c \in told \cup refused \cup missed \cup net'.present["closed"]
    BY <1>1 DEF HeldReported
  <2>2. "DISCONNECTED" \in net.st[c] /\ c \in Held
    BY <1>6, <1>7, <1>15, <2>1
  <2> QED
    BY <1>6, <2>1, <2>2 DEF Ind, HeldReported
<1>19. HeldOnce'
  <2>1. ASSUME NEW t \in Slots, NEW u \in Slots, sat'[t] = sat'[u], sat'[t] # None PROVE t = u
    <3>1. \A x \in Slots \ {s} : sat[x] # k
      <4>1. \A x \in Slots : sat[x] # None => sat[x] \in Held
        BY <1>12 DEF Held, Range
      <4> QED
        BY <1>8, <1>14, <4>1
    <3>2. \A x, y \in Slots : sat[x] = sat[y] /\ sat[x] # None => x = y
      BY DEF Ind, HeldOnce
    <3> QED
      BY <1>12, <2>1, <3>1, <3>2
  <2>2. ASSUME NEW t \in Slots PROVE sat'[t] \notin posted
    <3>1. k \notin posted
      BY <1>14 DEF Held
    <3> QED
      BY <1>12, <3>1 DEF Ind, HeldOnce
  <2> QED
    BY <1>1, <2>1, <2>2 DEF HeldOnce
<1>20. OthersClosing'
  <2>1. SUFFICES ASSUME NEW c \in Cells, c \notin Range(net'.pool), c \notin forgotten,
                        c \notin Held', net'.head[c] = None
                 PROVE  "NOFDREF" \in net'.st[c] /\ net'.pcb[c] # None
    BY <1>1 DEF OthersClosing
  <2>2. c # k /\ c \notin Held
    BY <1>15, <2>1
  <2>3. c \notin Range(net.pool) /\ net.head[c] = None
    BY <1>6, <2>1, <2>2
  <2> QED
    BY <1>6, <2>1, <2>2, <2>3 DEF Ind, OthersClosing
<1> QED
  BY <1>11, <1>13, <1>17, <1>18, <1>19, <1>20 DEF Ind

(* What is known of a socket a slot refers to. *)
LEMMA HeldFacts ==
  ASSUME Ind, NEW k \in Held
  PROVE  /\ k \in Cells /\ k \notin Range(net.pool) /\ "NOFDREF" \notin net.st[k]
         /\ net.head[k] = None /\ k \in net.upcall /\ WellFormed(net) /\ CellSound(net, k)
<1>1. Held \subseteq Cells
  BY DEF Ind, TypeOK, Held, Range
<1> QED
  BY <1>1 DEF Ind, HeldSound, NetSound

(* The socket of a slot is held. *)
LEMMA SlotHeld ==
  ASSUME TypeOK, NEW s \in Slots, sat[s] # None
  PROVE  sat[s] \in Held
  BY DEF TypeOK, Held, Range

(* CONNECT keeps the invariant. *)
LEMMA ProcessConnectStep ==
  ASSUME Ind, NEW s \in Slots, ProcessConnect(s)
  PROVE  Ind'
<1> DEFINE k == sat[s]
           u == SoIsConnecting(net, k)
           on == {"CONNECTING"}
           off == {"CONNECTED", "DISCONNECTING"}
<1>1. Alone
  BY CommandFacts DEF ProcessConnect, Ind
<1>2. k \in Held
  BY SlotHeld DEF ProcessConnect, Ind
<1>3. net.pcb[k] = "CLOSED" /\ net' = SetPcb(u, k, "SYN_SENT")
  BY DEF ProcessConnect, SetPcb
<1> HIDE DEF k
<1>4. /\ k \in Cells /\ k \notin Range(net.pool) /\ "NOFDREF" \notin net.st[k]
      /\ net.head[k] = None /\ k \in net.upcall /\ WellFormed(net) /\ CellSound(net, k)
  BY <1>2, HeldFacts
<1>5. on \subseteq Flags /\ u = SetState(net, k, on, off)
  BY DEF Flags, SoIsConnecting
<1>6. "DISCONNECTED" \notin on /\ "NOFDREF" \notin on
  OBVIOUS
<1> HIDE DEF on, off, u
<1>7. Touched(net, u, k) /\ \A f : f \in u.st[k] <=> (f \in net.st[k] /\ f \notin off) \/ f \in on
  <2> DEFINE n == SetState(net, k, on, off)
  <2>0. WellFormed(net) /\ k \in Cells /\ on \subseteq Flags
    BY <1>4, <1>5
  <2>1. Touched(net, n, k) /\ \A f : f \in n.st[k] <=> (f \in net.st[k] /\ f \notin off) \/ f \in on
    BY <2>0, SetStateFacts
  <2> HIDE DEF n
  <2> QED
    BY <1>5, <2>1 DEF n
<1>8. "DISCONNECTED" \notin net.st[k]
  BY <1>3, <1>4 DEF CellSound, PcbSound, Early
<1>9. "DISCONNECTED" \notin u.st[k] /\ "NOFDREF" \notin u.st[k]
  BY <1>4, <1>6, <1>7, <1>8
<1>10. Stays(net, u, k)
  <2>1. Apart(net, u, k)
    BY <1>7, TouchedApart
  <2> QED
    BY <1>4, <1>7, <1>8, <1>9, <2>1 DEF Stays, Touched
<1>11. Stays(u, net', k) /\ net'.pcb[k] = "SYN_SENT" /\ net'.st = u.st
  <2>1. "SYN_SENT" \in States \cup {"udp", None} /\ WellFormed(u)
    BY <1>7 DEF States, Touched
  <2> DEFINE n == SetPcb(u, k, "SYN_SENT")
  <2>0. k \in Cells
    BY <1>4
  <2>2. Stays(u, n, k) /\ n.pcb[k] = "SYN_SENT" /\ n.st = u.st
    BY <2>0, <2>1, SetPcbStays
  <2> HIDE DEF n
  <2> QED
    BY <1>3, <2>2 DEF n
<1>12. Stays(net, net', k)
  BY <1>10, <1>11, StaysTwice
<1>13. PcbSound(net', k)
  <2>1. net'.upcall = net.upcall /\ net'.head = net.head
    BY <1>12 DEF Stays, Apart
  <2>2. "SYN_SENT" # None
    BY GlueAssumption DEF States
  <2> QED
    BY <1>4, <1>9, <1>11, <2>1, <2>2 DEF PcbSound
<1>14. ~Heads(net, k)
  BY <1>3, GlueAssumption DEF Heads, States
<1> QED
  BY <1>1, <1>4, <1>12, <1>13, <1>14, StaysStep

(* LISTEN keeps the invariant. *)
LEMMA ProcessListenStep ==
  ASSUME Ind, NEW s \in Slots, ProcessListen(s)
  PROVE  Ind'
<1> DEFINE k == sat[s]
<1>1. Alone
  BY CommandFacts DEF ProcessListen, Ind
<1>2. k \in Held
  BY SlotHeld DEF ProcessListen, Ind
<1>3. net.pcb[k] = "CLOSED" /\ net' = SetPcb(net, k, "LISTEN")
  BY DEF ProcessListen, SetPcb
<1> HIDE DEF k
<1>4. /\ k \in Cells /\ k \notin Range(net.pool) /\ "NOFDREF" \notin net.st[k]
      /\ net.head[k] = None /\ k \in net.upcall /\ WellFormed(net) /\ CellSound(net, k)
  BY <1>2, HeldFacts
<1>5. Stays(net, net', k) /\ net'.pcb[k] = "LISTEN" /\ net'.st = net.st
  <2>1. "LISTEN" \in States \cup {"udp", None}
    BY DEF States
  <2> DEFINE n == SetPcb(net, k, "LISTEN")
  <2>0. k \in Cells /\ WellFormed(net)
    BY <1>4
  <2>2. Stays(net, n, k) /\ n.pcb[k] = "LISTEN" /\ n.st = net.st
    BY <2>0, <2>1, SetPcbStays
  <2> HIDE DEF n
  <2> QED
    BY <1>3, <2>2 DEF n
<1>6. "DISCONNECTED" \notin net.st[k]
  BY <1>3, <1>4 DEF CellSound, PcbSound, Early
<1>7. PcbSound(net', k)
  <2>1. net'.upcall = net.upcall /\ net'.head = net.head
    BY <1>5 DEF Stays, Apart
  <2>2. "LISTEN" # None
    BY GlueAssumption DEF States
  <2> QED
    BY <1>4, <1>5, <1>6, <2>1, <2>2 DEF PcbSound
<1>8. Heads(net', k)
  BY <1>5 DEF Heads
<1> QED
  BY <1>1, <1>4, <1>5, <1>7, <1>8, StaysStep

(* What soshutdown does to an open socket: it keeps its control block, TCP *)
(* goes on to close an established connection, or a socket whose           *)
(* connection was never established loses its control block.               *)
Shut(w, v, k) ==
  /\ Stays(w, v, k)
  /\ \/ v.pcb[k] = w.pcb[k] /\ ("DISCONNECTED" \in v.st[k] => "DISCONNECTED" \in w.st[k])
     \/ v.pcb[k] \in HaveEstablished /\ w.pcb[k] \in HaveEstablished
     \/ v.pcb[k] = None /\ "DISCONNECTED" \in v.st[k] /\ w.pcb[k] \in Early

(* PRU_SHUTDOWN does it. *)
LEMMA ShutdownWriteFacts ==
  ASSUME NEW w, WellFormed(w), NEW k \in Cells, k \notin Range(w.pool), "NOFDREF" \notin w.st[k]
  PROVE  Shut(w, ShutdownWrite(w, k), k)
<1> DEFINE yes == TRUE
           u == SoCantSendMore(w, k, yes)
           v == ShutdownWrite(w, k)
<1>0. None # "udp" /\ None \notin States
  BY GlueAssumption
<1>1. /\ w.pcb[k] = None => v = w
      /\ w.pcb[k] = "udp" => v = u
      /\ w.pcb[k] \in States => v = TcpUsrClosed(u, k)
  <2>1. "udp" \notin States
    BY DEF States
  <2>2. ASSUME w.pcb[k] = None PROVE v = w
    BY <1>0, <2>2 DEF ShutdownWrite
  <2>3. ASSUME w.pcb[k] = "udp" PROVE v = u
    BY <1>0, <2>3 DEF ShutdownWrite
  <2>4. ASSUME w.pcb[k] \in States PROVE v = TcpUsrClosed(u, k)
    <3>1. w.pcb[k] # None /\ w.pcb[k] # "udp"
      BY <1>0, <2>1, <2>4
    <3> QED
      BY <3>1 DEF ShutdownWrite
  <2> HIDE DEF u, v
  <2> QED
    BY <2>2, <2>3, <2>4
<1>2. w.pcb[k] \in States \cup {"udp", None}
  BY NetFields DEF WellFormed
<1> HIDE DEF yes
<1>3. /\ Stays(w, u, k) /\ u.pcb = w.pcb
      /\ "DISCONNECTED" \in u.st[k] => "DISCONNECTED" \in w.st[k]
  BY CantFacts
<1> HIDE DEF u, v
<1>4. WellFormed(u) /\ k \notin Range(u.pool) /\ "NOFDREF" \notin u.st[k]
  BY <1>3 DEF Stays, Apart
<1>5. CASE w.pcb[k] = None
  BY <1>1, <1>5, StaysItself DEF Shut, v
<1>6. CASE w.pcb[k] = "udp"
  BY <1>1, <1>3, <1>6 DEF Shut, v
<1>7. CASE w.pcb[k] \in HaveEstablished
  <2>1. v = TcpUsrClosed(u, k) /\ u.pcb[k] \in HaveEstablished
    BY <1>1, <1>3, <1>7 DEF HaveEstablished
  <2>2. Stays(u, v, k) /\ v.pcb[k] \in HaveEstablished
    BY <1>4, <2>1, UsrClosedFacts
  <2>3. Stays(w, v, k)
    BY <1>3, <2>2, StaysTwice
  <2> QED
    BY <1>7, <2>2, <2>3 DEF Shut, v
<1>8. CASE w.pcb[k] \in Early
  <2>1. v = TcpUsrClosed(u, k) /\ u.pcb[k] \in Early
    BY <1>1, <1>3, <1>8 DEF Early, States
  <2>2. v = TcpClose(u, k)
    BY <2>1 DEF TcpUsrClosed, Early
  <2>3. Closed(u, v, k)
    BY <1>4, <2>2, TcpCloseFacts
  <2>4. Stays(u, v, k) /\ v.pcb[k] = None /\ "DISCONNECTED" \in v.st[k]
    BY <1>4, <2>3 DEF Closed
  <2>5. Stays(w, v, k)
    BY <1>3, <2>4, StaysTwice
  <2> QED
    BY <1>8, <2>4, <2>5 DEF Shut, v
<1> QED
  BY <1>2, <1>5, <1>6, <1>7, <1>8 DEF HaveEstablished, Early

(* What soshutdown leaves of an open socket is sound, and still the head   *)
(* of the connections that were queued on it.                              *)
LEMMA ShutSound ==
  ASSUME NEW w, NEW v, NEW k \in Cells, Shut(w, v, k), CellSound(w, k),
         "NOFDREF" \notin w.st[k], w.head[k] = None, k \in w.upcall
  PROVE  PcbSound(v, k) /\ (Heads(w, k) => Heads(v, k))
<1>0. None # "udp" /\ None \notin Early /\ None \notin HaveEstablished
  BY GlueAssumption DEF Early, HaveEstablished, States
<1>1. /\ v.upcall = w.upcall /\ v.stream = w.stream /\ v.head = w.head
      /\ "NOFDREF" \notin v.st[k] /\ ("DISCONNECTED" \in w.st[k] => "DISCONNECTED" \in v.st[k])
  BY DEF Shut, Stays, Apart
<1>2. CASE v.pcb[k] = w.pcb[k] /\ ("DISCONNECTED" \in v.st[k] => "DISCONNECTED" \in w.st[k])
  <2>1. PcbSound(v, k)
    BY <1>1, <1>2 DEF CellSound, PcbSound
  <2>2. Heads(w, k) => Heads(v, k)
    BY <1>1, <1>2 DEF Heads
  <2> QED
    BY <2>1, <2>2
<1>3. CASE v.pcb[k] \in HaveEstablished /\ w.pcb[k] \in HaveEstablished
  <2>1. v.pcb[k] \notin Early /\ v.pcb[k] # "udp" /\ w.pcb[k] # "LISTEN"
    BY <1>3 DEF Early, HaveEstablished, States
  <2>2. PcbSound(v, k)
    BY <1>0, <1>3, <2>1 DEF PcbSound
  <2>3. ~Heads(w, k)
    BY <1>0, <1>3, <2>1 DEF Heads
  <2> QED
    BY <2>2, <2>3
<1>4. CASE v.pcb[k] = None /\ "DISCONNECTED" \in v.st[k]
  BY <1>0, <1>1, <1>4 DEF PcbSound, Heads
<1> QED
  BY <1>2, <1>3, <1>4 DEF Shut

(* SHUTDOWN keeps the invariant, in whatever state the socket is. *)
LEMMA ProcessShutdownStep ==
  ASSUME Ind, NEW s \in Slots, ProcessShutdown(s)
  PROVE  Ind'
<1> DEFINE k == sat[s]
<1>1. Alone
  BY CommandFacts DEF ProcessShutdown, Ind
<1>2. k \in Held
  BY SlotHeld DEF ProcessShutdown, Ind
<1>3. \/ net' \in ShutdownRead(net, k)
      \/ \E w \in ShutdownRead(net, k) \cup {net} : net' = ShutdownWrite(w, k)
  BY DEF ProcessShutdown
<1> HIDE DEF k
<1>4. /\ k \in Cells /\ k \notin Range(net.pool) /\ "NOFDREF" \notin net.st[k]
      /\ net.head[k] = None /\ k \in net.upcall /\ WellFormed(net) /\ CellSound(net, k)
  BY <1>2, HeldFacts
<1>5. ASSUME NEW r \in ShutdownRead(net, k)
      PROVE  /\ Stays(net, r, k) /\ r.pcb = net.pcb
             /\ "DISCONNECTED" \in r.st[k] => "DISCONNECTED" \in net.st[k]
  <2>1. PICK room \in BOOLEAN : r = SoCantRcvMore(net, k, room)
    BY DEF ShutdownRead
  <2> QED
    BY <1>4, <2>1, CantFacts
<1>6. Shut(net, net', k)
  <2>1. CASE net' \in ShutdownRead(net, k)
    BY <1>5, <2>1 DEF Shut
  <2>2. CASE net' = ShutdownWrite(net, k)
    BY <1>4, <2>2, ShutdownWriteFacts
  <2>3. ASSUME NEW r \in ShutdownRead(net, k), net' = ShutdownWrite(r, k)
        PROVE  Shut(net, net', k)
    <3>1. /\ Stays(net, r, k) /\ r.pcb = net.pcb
          /\ "DISCONNECTED" \in r.st[k] => "DISCONNECTED" \in net.st[k]
      BY <1>5
    <3>2. WellFormed(r) /\ k \notin Range(r.pool) /\ "NOFDREF" \notin r.st[k]
      BY <1>4, <3>1 DEF Stays, Apart
    <3>3. Shut(r, net', k)
      BY <1>4, <2>3, <3>2, ShutdownWriteFacts
    <3>4. Stays(net, net', k)
      BY <3>1, <3>3, StaysTwice DEF Shut
    <3> QED
      BY <3>1, <3>3, <3>4 DEF Shut
  <2> QED
    BY <1>3, <2>1, <2>2, <2>3
<1>7. PcbSound(net', k) /\ (Heads(net, k) => Heads(net', k))
  BY <1>4, <1>6, ShutSound
<1>8. Stays(net, net', k)
  BY <1>6 DEF Shut
<1> QED
  BY <1>1, <1>4, <1>7, <1>8, StaysStep

(* Queueing a socket that waits for buffers keeps the invariant. *)
LEMMA ProcessTxPoolEmptyStep ==
  ASSUME Ind, NEW s \in Slots, ProcessTxPoolEmpty(s)
  PROVE  Ind'
<1> DEFINE k == sat[s]
<1>1. Alone
  BY CommandFacts DEF ProcessTxPoolEmpty, Ind
<1>2. k \in Held
  BY SlotHeld DEF ProcessTxPoolEmpty, Ind
<1>3. net' = InsertUncounted(net, "wait", k)
  BY DEF ProcessTxPoolEmpty
<1> HIDE DEF k
<1>4. /\ k \in Cells /\ k \notin Range(net.pool) /\ "NOFDREF" \notin net.st[k]
      /\ net.head[k] = None /\ k \in net.upcall /\ WellFormed(net) /\ CellSound(net, k)
  BY <1>2, HeldFacts
<1>5. Announced(net, net', k)
  BY <1>3, <1>4, WaiterInserted
<1>6. SameSockets(net, net') /\ WellFormed(net')
  BY <1>5 DEF Announced
<1>7. \A n \in Lists : net.present[n] \subseteq net'.present[n]
                       /\ net'.present[n] \subseteq net.present[n] \cup {k}
  BY <1>5 DEF Announced
<1>8. Apart(net, net', k)
  BY <1>6, <1>7 DEF Apart, SameSockets
<1>9. Stays(net, net', k)
  BY <1>4, <1>6, <1>7, <1>8 DEF Stays, SameSockets
<1>10. PcbSound(net', k) /\ net'.pcb[k] = net.pcb[k]
  BY <1>4, <1>6 DEF CellSound, PcbSound, SameSockets
<1>11. Heads(net, k) => Heads(net', k)
  BY <1>6 DEF Heads, SameSockets
<1> QED
  BY <1>1, <1>4, <1>9, <1>10, <1>11, StaysStep

----------------------------------------------------------------------------
(* The steps that change no socket: at most one is taken off a list other  *)
(* than those of the listeners and of the closed sockets.                  *)

(* A step that only shortens lists, or moves a socket from a command to a  *)
(* slot, keeps the invariant.                                              *)
LEMMA ListsStep ==
  ASSUME Ind, TypeOK', WellFormed(net'), SameSockets(net, net'),
         \A n \in Lists : net'.present[n] \subseteq net.present[n],
         net'.present["accept"] = net.present["accept"],
         net'.present["closed"] = net.present["closed"],
         UNCHANGED history, halted' \/ halted' = halted,
         \A k : k \in Held' <=> k \in Held, HeldOnce'
  PROVE  Ind'
<1>1. /\ net'.pcb = net.pcb /\ net'.st = net.st /\ net'.stream = net.stream
      /\ net'.head = net.head /\ net'.q = net.q /\ net'.upcall = net.upcall
      /\ net'.pool = net.pool
  BY DEF SameSockets
<1>2. NetSound(net)
  BY DEF Ind
<1>3. ASSUME NEW c \in Cells PROVE CellSound(net', c) /\ HeadSound(net', c)
  <2>0. CellSound(net, c) /\ HeadSound(net, c)
    BY <1>2 DEF NetSound
  <2>1. FreeSound(net', c)
    BY <1>1, <2>0 DEF CellSound, FreeSound
  <2>2. PcbSound(net', c)
    BY <1>1, <2>0 DEF CellSound, PcbSound
  <2>3. QueuedSound(net', c)
    BY <1>1, <2>0 DEF CellSound, QueuedSound
  <2>4. HeadSound(net', c)
    BY <1>1, <2>0 DEF HeadSound, Heads
  <2> QED
    BY <2>1, <2>2, <2>3, <2>4 DEF CellSound
<1>4. NetSound(net')
  <2>0. net'.head = net.head /\ net'.q = net.q /\ QueueAgrees(net)
    BY <1>1, <1>2 DEF NetSound
  <2>1. ASSUME NEW c \in Cells, NEW d \in Cells
        PROVE  c \in Range(net'.q[d]) <=> net'.head[c] = d
    <3>1. c \in Range(net.q[d]) <=> net.head[c] = d
      BY <2>0 DEF QueueAgrees
    <3> QED
      BY <2>0, <3>1
  <2>2. QueueAgrees(net')
    BY <2>1 DEF QueueAgrees
  <2> QED
    BY <1>3, <2>2 DEF NetSound
<1>5. HeldSound'
  BY <1>1 DEF Ind, HeldSound
<1>6. told' = told /\ refused' = refused /\ missed' = missed /\ forgotten' = forgotten
  BY DEF history
<1>7. HeldReported'
  BY <1>1, <1>6 DEF Ind, HeldReported
<1>8. OthersClosing'
  BY <1>1, <1>6 DEF Ind, OthersClosing
<1> QED
  BY <1>4, <1>5, <1>7, <1>8 DEF Ind

(* Nothing of the socket layer and of what refers to it changes. *)
LEMMA IdleStep ==
  ASSUME Ind, UNCHANGED <<net, sat, posted, history>>, halted' \in BOOLEAN,
         halted' \/ halted' = halted, parent' \in [Slots -> BOOLEAN],
         phase' \in {"command", "timers", "tx", "rx", "softint", "wait"}
  PROVE  Ind'
<1>1. TypeOK'
  BY DEF Ind, TypeOK, history
<1>2. WellFormed(net') /\ SameSockets(net, net') /\ HeldOnce'
  BY DEF Ind, NetSound, HeldOnce, SameSockets
<1>3. Held' = Held /\ net' = net
  BY DEF Held
<1> QED
  BY <1>1, <1>2, <1>3, ListsStep

(* The steps that leave the socket layer and the references to it alone. *)
LEMMA IdleSteps ==
  ASSUME Ind, \/ \E s \in Slots : ProcessSetSelect(s) \/ ProcessOpenNoCell(s)
              \/ NoCommand \/ EventsDone \/ WaitersDone \/ Died
  PROVE  Ind'
<1>0. /\ TypeOK /\ halted \in BOOLEAN /\ parent \in [Slots -> BOOLEAN]
      /\ phase \in {"command", "timers", "tx", "rx", "softint", "wait"}
  BY DEF Ind, TypeOK
<1>1. ASSUME NEW s \in Slots, ProcessSetSelect(s) PROVE Ind'
  <2>1. parent' \in [Slots -> BOOLEAN] /\ UNCHANGED <<net, sat, posted, history>>
    BY <1>0, <1>1 DEF ProcessSetSelect
  <2>2. halted' = halted /\ phase' \in {"command", "timers", "tx", "rx", "softint", "wait"}
    BY <1>0, <1>1, CommandFacts DEF ProcessSetSelect
  <2> QED
    BY <1>0, <2>1, <2>2, IdleStep
<1>2. CASE NoCommand
  BY <1>0, <1>2, IdleStep DEF NoCommand, Command
<1>3. CASE EventsDone
  BY <1>0, <1>3, IdleStep DEF EventsDone
<1>4. CASE WaitersDone
  BY <1>0, <1>4, IdleStep DEF WaitersDone
<1>5. CASE Died
  BY <1>0, <1>5, IdleStep DEF Died, vars, history
<1>6. ASSUME NEW s \in Slots, ProcessOpenNoCell(s) PROVE Ind'
  BY <1>0, <1>6, IdleStep DEF ProcessOpenNoCell
<1> QED
  BY <1>1, <1>2, <1>3, <1>4, <1>5, <1>6

(* process_tx_ready_sockets keeps the invariant. *)
LEMMA ProcessTxReadyStep ==
  ASSUME Ind, ProcessTxReady
  PROVE  Ind'
<1>0. TypeOK /\ WellFormed(net)
  BY DEF Ind, NetSound
<1>1. /\ UNCHANGED <<sat, parent, posted, history, halted>> /\ phase' = "rx"
      /\ net' = Served(net, "write") \/ net' = net
  BY DEF ProcessTxReady, TxPass
<1>2. CASE net' = net
  BY <1>0, <1>1, <1>2, IdleStep DEF TypeOK
<1>3. CASE net' = Served(net, "write")
  <2>0. "write" \in Counted /\ "accept" # "write" /\ "closed" # "write"
        /\ "accept" \in Lists /\ "closed" \in Lists
    BY DEF Counted, Lists
  <2>1. /\ WellFormed(net') /\ SameSockets(net, net') /\ net'.present["write"] = {}
        /\ \A m \in Lists : m # "write" => net'.present[m] = net.present[m]
    BY <1>0, <1>3, <2>0, ServedFacts, SMTT(30)
  <2>2. \A n \in Lists : net'.present[n] \subseteq net.present[n]
    BY <2>1
  <2>3. net'.present["accept"] = net.present["accept"] /\ net'.present["closed"] = net.present["closed"]
    BY <2>0, <2>1
  <2>4. TypeOK' /\ Held' = Held /\ HeldOnce'
    BY <1>0, <1>1, <2>1 DEF TypeOK, history, WellFormed, Held, HeldOnce, Ind
  <2> QED
    BY <1>1, <2>1, <2>2, <2>3, <2>4, ListsStep
<1> QED
  BY <1>1, <1>2, <1>3

(* Taken off one list, a socket stays on the others. *)
LEMMA DelistPresent ==
  ASSUME NEW w \in NetType, NEW n \in Lists, NEW k
  PROVE  LET v == Delist(w, n, k) IN
         \A m \in Lists : /\ v.present[m] \subseteq w.present[m]
                          /\ m # n => v.present[m] = w.present[m]
<1> DEFINE v == Delist(w, n, k)
<1>1. CASE k \notin w.present[n]
  BY <1>1 DEF Delist
<1>2. CASE k \in w.present[n]
  <2>1. v.present = [w.present EXCEPT ![n] = @ \ {k}]
    BY <1>2, SMTT(30) DEF Delist, NetType
  <2>2. w.present \in [Lists -> SUBSET Cells]
    BY NetFields
  <2> HIDE DEF v
  <2>3. \A m \in Lists : /\ v.present[m] \subseteq w.present[m]
                         /\ m # n => v.present[m] = w.present[m]
    BY <2>1, <2>2
  <2> QED
    BY <2>3 DEF v
<1> QED
  BY <1>1, <1>2

(* Serving a socket that waited for buffers keeps the invariant. *)
LEMMA WaiterServedStep ==
  ASSUME Ind, WaiterServed
  PROVE  Ind'
<1>0. TypeOK /\ WellFormed(net) /\ net \in NetType
  BY DEF Ind, NetSound, TypeOK
<1>1. UNCHANGED <<sat, parent, phase, posted, history>>
  BY DEF WaiterServed
<1>2. CASE halted' = TRUE /\ UNCHANGED net
  BY <1>0, <1>1, <1>2, IdleStep DEF TypeOK
<1>3. ASSUME NEW k, k \in net.present["wait"], net' = Delist(net, "wait", k), UNCHANGED halted
      PROVE  Ind'
  <2>0. "wait" \in Lists /\ "accept" # "wait" /\ "closed" # "wait"
        /\ "accept" \in Lists /\ "closed" \in Lists
    BY DEF Lists
  <2>1. k \in Cells
    <3>1. net.present \in [Lists -> SUBSET Cells]
      BY <1>0, NetFields
    <3> QED
      BY <1>3, <2>0, <3>1
  <2> DEFINE n == Delist(net, "wait", k)
  <2>2. Apart(net, n, k) /\ SameSockets(net, n)
    BY <1>0, <2>0, <2>1, DelistFacts
  <2>3. \A m \in Lists : /\ n.present[m] \subseteq net.present[m]
                         /\ m # "wait" => n.present[m] = net.present[m]
    BY <1>0, <2>0, DelistPresent
  <2>4. net' = n
    BY <1>3
  <2> HIDE DEF n
  <2>5. WellFormed(net') /\ SameSockets(net, net')
    BY <2>2, <2>4 DEF Apart
  <2>6. \A m \in Lists : net'.present[m] \subseteq net.present[m]
    BY <2>3, <2>4
  <2>7. net'.present["accept"] = net.present["accept"] /\ net'.present["closed"] = net.present["closed"]
    BY <2>0, <2>3, <2>4
  <2>8. TypeOK' /\ Held' = Held /\ HeldOnce'
    BY <1>0, <1>1, <1>3, <2>5 DEF TypeOK, history, WellFormed, Held, HeldOnce, Ind
  <2> QED
    BY <1>1, <1>3, <2>5, <2>6, <2>7, <2>8, ListsStep
<1> QED
  BY <1>2, <1>3 DEF WaiterServed

(* SET_SOCKET_RING moves an accepted socket from its command to a slot: it *)
(* stays held, once.                                                       *)
LEMMA ProcessSetRingStep ==
  ASSUME Ind, NEW s \in Slots, NEW k \in Cells, ProcessSetRing(s, k)
  PROVE  Ind'
<1>0. TypeOK /\ WellFormed(net) /\ net \in NetType /\ HeldOnce
  BY DEF Ind, NetSound, TypeOK
<1>1. /\ halted' = halted /\ phase' \in {"command", "timers", "tx", "rx", "softint", "wait"}
      /\ k \in posted /\ sat[s] = None /\ sat' = [sat EXCEPT ![s] = k] /\ posted' = posted \ {k}
      /\ parent' = parent /\ UNCHANGED history
  BY <1>0, CommandFacts DEF ProcessSetRing
<1>2. SameSockets(net, net') /\ net'.present = net.present /\ net'.list = net.list
      /\ net'.len = net.len
  BY <1>0, SMTT(30) DEF ProcessSetRing, NetType, SameSockets
<1>3. net' \in NetType
  <2>1. [net EXCEPT !.glue[k] = s] \in NetType
    BY ZenonT(60), <1>0 DEF NetType
  <2> QED
    BY <2>1 DEF ProcessSetRing
<1>4. WellFormed(net')
  BY <1>0, <1>2, <1>3 DEF WellFormed, ListsAgree, SameSockets
<1>5. /\ sat \in [Slots -> Cells \cup {None}] /\ sat'[s] = k /\ sat' \in [Slots -> Cells \cup {None}]
      /\ \A t \in Slots \ {s} : sat'[t] = sat[t]
  BY <1>0, <1>1 DEF TypeOK
<1>6. TypeOK'
  BY <1>0, <1>1, <1>3, <1>5 DEF TypeOK, history
<1>7. None \notin Cells
  BY GlueAssumption
<1>8. ASSUME NEW c PROVE c \in Held' <=> c \in Held
  <2>1. DOMAIN sat = Slots /\ DOMAIN sat' = Slots
    BY <1>5
  <2>2. c \in Range(sat') /\ c # None <=> (c \in Range(sat) /\ c # None) \/ c = k
    BY <1>1, <1>5, <1>7, <2>1 DEF Range
  <2> QED
    BY <1>1, <2>2 DEF Held
<1>9. HeldOnce'
  <2>1. \A t \in Slots : sat[t] # k
    BY <1>0, <1>1 DEF HeldOnce
  <2>2. ASSUME NEW t \in Slots, NEW u \in Slots, sat'[t] = sat'[u], sat'[t] # None PROVE t = u
    BY <1>0, <1>5, <2>1, <2>2 DEF HeldOnce
  <2>3. ASSUME NEW t \in Slots PROVE sat'[t] \notin posted'
    BY <1>0, <1>1, <1>5 DEF HeldOnce
  <2> QED
    BY <2>2, <2>3 DEF HeldOnce
<1>10. \A n \in Lists : net'.present[n] \subseteq net.present[n]
  BY <1>2
<1> QED
  BY <1>1, <1>2, <1>4, <1>6, <1>8, <1>9, <1>10, ListsStep

----------------------------------------------------------------------------
(* app_glue_close_socket of a socket that was held: the connections queued *)
(* on it are accepted, and the others are as they were.                    *)

Left(w, v, k) ==
  /\ WellFormed(v) /\ v.head[k] = None /\ v.q[k] = << >>
  /\ \A c \in Cells \ {k} :
       /\ v.pcb[c] = w.pcb[c] /\ v.q[c] = w.q[c]
       /\ v.head[c] = IF w.head[c] = k THEN None ELSE w.head[c]
       /\ v.st[c] = IF w.head[c] = k THEN w.st[c] \ {"NOFDREF"} ELSE w.st[c]
       /\ (c \in v.upcall <=> c \in w.upcall) /\ (c \in v.stream <=> c \in w.stream)
       /\ (c \in Range(v.pool) <=> c \in Range(w.pool))
       /\ \A n \in Lists : c \in v.present[n] <=> c \in w.present[n]
  /\ \/ /\ v.pcb[k] = None /\ v.st[k] = {} /\ k \notin v.upcall /\ k \notin v.stream
        /\ k \in Range(v.pool)
     \/ k \notin Range(v.pool) /\ v.pcb[k] \in HaveEstablished /\ "NOFDREF" \in v.st[k]

(* A listener that was not announced has nothing queued on it. *)
LEMMA QuietListener ==
  ASSUME NEW w, NetSound(w), NEW k \in Cells, k \notin w.present["accept"]
  PROVE  w.q[k] = << >>
<1>1. w \in NetType
  BY DEF NetSound, WellFormed
<1> DEFINE s == w.q[k]
<1>2. s \in Seq(Cells)
  BY <1>1, NetFields
<1>3. \A c \in Cells : w.head[c] # k
  <2>1. k # None
    BY GlueAssumption
  <2> QED
    BY <2>1 DEF NetSound, HeadSound
<1>4. \A c \in Cells : c \notin Range(s)
  BY <1>3 DEF NetSound, QueueAgrees
<1> HIDE DEF s
<1>5. s = << >>
  <2>1. SUFFICES ASSUME s # << >> PROVE FALSE
    OBVIOUS
  <2>2. 1 \in DOMAIN s /\ s[1] \in Cells
    BY <1>2, <2>1, SMTT(30)
  <2> QED
    BY <1>4, <2>2 DEF Range
<1> QED
  BY <1>5 DEF s

(* app_glue_close_socket does just that. *)
LEMMA ClosingLeaves ==
  ASSUME NEW w, NetSound(w), NEW k \in Cells, k \notin Range(w.pool),
         "NOFDREF" \notin w.st[k], w.head[k] = None
  PROVE  Left(w, CloseSocket(w, k), k)
<1> DEFINE v == CloseSocket(w, k)
           ls == {k} \cap w.present["accept"]
<1>1. WellFormed(w) /\ w \in NetType
  BY DEF NetSound, WellFormed
<1>2. k \notin w.present["accept"] => w.q[k] = << >>
  BY QuietListener
<1>3. PICK x, y : Apart(w, x, k) /\ SameSockets(w, x) /\ Accepted(x, y, ls) /\ Gone(y, v, k)
  BY <1>1, <1>2, CloseSocketFacts
<1>4. \A c \in Cells : w.head[c] \in ls <=> w.head[c] = k
  <2>1. k # None
    BY GlueAssumption
  <2>2. ASSUME NEW c \in Cells, w.head[c] = k PROVE k \in w.present["accept"]
    BY <2>1, <2>2 DEF NetSound, HeadSound
  <2> QED
    BY <2>2
<1>5. k \notin ls => w.q[k] = << >>
  BY <1>2
<1>6. k \notin w.present["accept"] \/ k \in ls
  OBVIOUS
<1>7. ls \subseteq {k}
  OBVIOUS
<1> HIDE DEF v, ls
<1>8. Apart(y, v, k) /\ WellFormed(v) /\ v.head = y.head /\ v.q = y.q
  <2>1. Apart(y, v, k)
    BY <1>3 DEF Gone, Freed
  <2> QED
    BY <2>1 DEF Apart
<1>9. /\ x.pcb = w.pcb /\ x.st = w.st /\ x.stream = w.stream /\ x.head = w.head
      /\ x.q = w.q /\ x.upcall = w.upcall /\ x.pool = w.pool
  BY <1>3 DEF SameSockets
<1>10. /\ y.pcb = w.pcb /\ y.stream = w.stream /\ y.upcall = w.upcall /\ y.pool = w.pool
       /\ y.present = x.present
  BY <1>3, <1>9 DEF Accepted
<1>11. ASSUME NEW c \in Cells
       PROVE  /\ y.head[c] = IF w.head[c] = k THEN None ELSE w.head[c]
              /\ y.st[c] = IF w.head[c] = k THEN w.st[c] \ {"NOFDREF"} ELSE w.st[c]
  <2>1. /\ y.head[c] = IF x.head[c] \in ls THEN None ELSE x.head[c]
        /\ y.st[c] = IF x.head[c] \in ls THEN x.st[c] \ {"NOFDREF"} ELSE x.st[c]
    BY <1>3 DEF Accepted
  <2>2. w.head[c] \in ls <=> w.head[c] = k
    BY <1>4
  <2>3. CASE w.head[c] = k
    BY <1>9, <2>1, <2>2, <2>3
  <2>4. CASE w.head[c] # k
    BY <1>9, <2>1, <2>2, <2>4
  <2> QED
    BY <2>3, <2>4
<1>12. ASSUME NEW c \in Cells
       PROVE  y.q[c] = IF c = k THEN << >> ELSE w.q[c]
  <2>1. y.q[c] = IF c \in ls THEN << >> ELSE w.q[c]
    BY <1>3, <1>9 DEF Accepted
  <2> QED
    BY <1>5, <1>7, <2>1
<1>13. v.head[k] = None /\ v.q[k] = << >>
  BY <1>8, <1>11, <1>12
<1>14. ASSUME NEW c \in Cells \ {k}
       PROVE  /\ v.pcb[c] = w.pcb[c] /\ v.q[c] = w.q[c]
              /\ v.head[c] = IF w.head[c] = k THEN None ELSE w.head[c]
              /\ v.st[c] = IF w.head[c] = k THEN w.st[c] \ {"NOFDREF"} ELSE w.st[c]
              /\ (c \in v.upcall <=> c \in w.upcall) /\ (c \in v.stream <=> c \in w.stream)
              /\ (c \in Range(v.pool) <=> c \in Range(w.pool))
              /\ \A n \in Lists : c \in v.present[n] <=> c \in w.present[n]
  <2>1. /\ v.pcb[c] = y.pcb[c] /\ v.st[c] = y.st[c]
        /\ (c \in v.upcall <=> c \in y.upcall) /\ (c \in v.stream <=> c \in y.stream)
        /\ (c \in Range(v.pool) <=> c \in Range(y.pool))
        /\ \A n \in Lists : c \in v.present[n] <=> c \in y.present[n]
    BY <1>8 DEF Apart
  <2>2. \A n \in Lists : c \in x.present[n] <=> c \in w.present[n]
    BY <1>3 DEF Apart
  <2>3. \A n \in Lists : c \in v.present[n] <=> c \in w.present[n]
    BY <1>10, <2>1, <2>2
  <2>4. v.head[c] = y.head[c] /\ v.q[c] = y.q[c] /\ y.q[c] = w.q[c]
    BY <1>8, <1>12
  <2>5. v.st[c] = IF w.head[c] = k THEN w.st[c] \ {"NOFDREF"} ELSE w.st[c]
    BY <1>11, <2>1
  <2>6. v.head[c] = IF w.head[c] = k THEN None ELSE w.head[c]
    BY <1>11, <2>4
  <2> QED
    BY <1>10, <2>1, <2>3, <2>4, <2>5, <2>6
<1>15. \/ /\ v.pcb[k] = None /\ v.st[k] = {} /\ k \notin v.upcall /\ k \notin v.stream
          /\ k \in Range(v.pool)
       \/ k \notin Range(v.pool) /\ v.pcb[k] \in HaveEstablished /\ "NOFDREF" \in v.st[k]
  BY <1>3, <1>10 DEF Gone, Freed
<1> QED
  BY <1>8, <1>13, <1>14, <1>15 DEF Left, v

(* What it leaves is a sound socket layer: no connection refers to the     *)
(* closed listener.                                                        *)
LEMMA LeftSound ==
  ASSUME NEW w, NetSound(w), NEW k \in Cells, w.head[k] = None, NEW v, Left(w, v, k)
  PROVE  NetSound(v)
<1>0. None # "udp" /\ None \notin Early /\ None \notin Cells /\ None \notin States
  BY GlueAssumption DEF Early, States
<1>1. w \in NetType /\ WellFormed(v) /\ v.head[k] = None /\ v.q[k] = << >>
  BY DEF NetSound, WellFormed, Left
<1>2. CellSound(v, k)
  <2>1. CASE /\ v.pcb[k] = None /\ v.st[k] = {} /\ k \notin v.upcall /\ k \notin v.stream
             /\ k \in Range(v.pool)
    BY <1>0, <1>1, <2>1 DEF CellSound, FreeSound, PcbSound, QueuedSound
  <2>2. CASE k \notin Range(v.pool) /\ v.pcb[k] \in HaveEstablished /\ "NOFDREF" \in v.st[k]
    <3>1. v.pcb[k] # None /\ v.pcb[k] # "udp" /\ v.pcb[k] \notin Early
      BY <1>0, <2>2 DEF HaveEstablished, Early, States
    <3> QED
      BY <1>1, <2>2, <3>1 DEF CellSound, FreeSound, PcbSound, QueuedSound
  <2> QED
    BY <2>1, <2>2 DEF Left
<1>3. ASSUME NEW c \in Cells \ {k} PROVE CellSound(v, c)
  <2>0. CellSound(w, c)
    BY DEF NetSound
  <2>1. /\ v.pcb[c] = w.pcb[c]
        /\ v.head[c] = IF w.head[c] = k THEN None ELSE w.head[c]
        /\ v.st[c] = IF w.head[c] = k THEN w.st[c] \ {"NOFDREF"} ELSE w.st[c]
        /\ (c \in v.upcall <=> c \in w.upcall) /\ (c \in v.stream <=> c \in w.stream)
        /\ (c \in Range(v.pool) <=> c \in Range(w.pool))
        /\ \A n \in Lists : c \in v.present[n] <=> c \in w.present[n]
    BY DEF Left
  <2>2. CASE w.head[c] = k
    <3>1. w.head[c] # None /\ v.head[c] = None /\ v.st[c] = w.st[c] \ {"NOFDREF"}
      BY <1>0, <2>1, <2>2
    <3>2. c \notin Range(v.pool)
      BY <2>0, <2>1, <3>1 DEF CellSound, FreeSound
    <3>3. v.pcb[c] \notin Early /\ v.pcb[c] # "udp"
      <4>1. w.pcb[c] \in {"ESTABLISHED", "CLOSE_WAIT", None}
        BY <2>0, <3>1 DEF CellSound, QueuedSound
      <4> QED
        BY <1>0, <2>1, <4>1 DEF Early
    <3>4. c \in v.stream /\ v.pcb[c] = None => "DISCONNECTED" \in v.st[c]
      BY <2>0, <2>1, <3>1 DEF CellSound, PcbSound
    <3> QED
      BY <3>1, <3>2, <3>3, <3>4 DEF CellSound, FreeSound, PcbSound, QueuedSound
  <2>3. CASE w.head[c] # k
    <3>1. v.head[c] = w.head[c] /\ v.st[c] = w.st[c]
      BY <2>1, <2>3
    <3>2. FreeSound(v, c)
      BY <2>0, <2>1, <3>1 DEF CellSound, FreeSound
    <3>3. PcbSound(v, c)
      BY <2>0, <2>1, <3>1 DEF CellSound, PcbSound
    <3>4. QueuedSound(v, c)
      BY <2>0, <2>1, <3>1 DEF CellSound, QueuedSound
    <3> QED
      BY <3>2, <3>3, <3>4 DEF CellSound
  <2> QED
    BY <2>2, <2>3
<1>4. ASSUME NEW c \in Cells PROVE v.head[c] = None \/ (v.head[c] = w.head[c] /\ w.head[c] # k)
  <2>1. CASE c = k
    BY <1>1, <2>1
  <2>2. CASE c # k
    BY <2>2 DEF Left
  <2> QED
    BY <2>1, <2>2
<1>5. ASSUME NEW c \in Cells PROVE HeadSound(v, c)
  <2>1. SUFFICES ASSUME v.head[c] # None
                 PROVE  Heads(v, v.head[c]) /\ v.head[c] \in v.present["accept"]
    BY DEF HeadSound
  <2>2. PICK l \in Cells : l = w.head[c] /\ l = v.head[c] /\ l # k
    <3>1. w.head \in [Cells -> Cells \cup {None}]
      BY <1>1, NetFields
    <3> QED
      BY <1>4, <2>1, <3>1
  <2>3. Heads(w, l) /\ l \in w.present["accept"]
    BY <1>0, <2>2 DEF NetSound, HeadSound
  <2>4. "accept" \in Lists
    BY DEF Lists
  <2>5. l \in v.present["accept"] /\ v.pcb[l] = w.pcb[l]
        /\ (v.st[l] = w.st[l] \/ v.st[l] = w.st[l] \ {"NOFDREF"})
    BY <2>2, <2>3, <2>4 DEF Left
  <2>6. Heads(v, l)
    BY <2>3, <2>5 DEF Heads
  <2> QED
    BY <2>2, <2>5, <2>6
<1>6. ASSUME NEW c \in Cells, NEW d \in Cells
      PROVE  c \in Range(v.q[d]) <=> v.head[c] = d
  <2>1. CASE d = k
    <3>1. Range(<< >>) = {}
      BY SMTT(30) DEF Range
    <3>2. c \notin Range(v.q[d])
      BY <1>1, <2>1, <3>1
    <3> QED
      BY <1>0, <1>4, <2>1, <3>2
  <2>2. CASE d # k
    <3>1. v.q[d] = w.q[d]
      BY <2>2 DEF Left
    <3>2. c \in Range(w.q[d]) <=> w.head[c] = d
      BY DEF NetSound, QueueAgrees
    <3>3. v.head[c] = d <=> w.head[c] = d
      <4>1. CASE c = k
        BY <1>1, <4>1
      <4>2. CASE c # k
        <5>1. v.head[c] = IF w.head[c] = k THEN None ELSE w.head[c]
          BY <4>2 DEF Left
        <5>2. d # None
          BY <1>0
        <5>3. CASE w.head[c] = k
          BY <2>2, <5>1, <5>2, <5>3
        <5>4. CASE w.head[c] # k
          BY <5>1, <5>4
        <5> QED
          BY <5>3, <5>4
      <4> QED
        BY <4>1, <4>2
    <3> QED
      BY <3>1, <3>2, <3>3
  <2> QED
    BY <2>1, <2>2
<1>7. QueueAgrees(v)
  BY <1>6 DEF QueueAgrees
<1>8. \A c \in Cells : CellSound(v, c)
  BY <1>2, <1>3
<1> QED
  BY <1>1, <1>5, <1>7, <1>8 DEF NetSound

(* Closing a held socket keeps the invariant, if just this one is no       *)
(* longer held.                                                            *)
LEMMA ReleaseStep ==
  ASSUME Ind, NEW k \in Held, net' = CloseSocket(net, k), Released(k),
         \A c : c \in Held' <=> c \in Held /\ c # k, HeldOnce', halted' = halted,
         sat' \in [Slots -> Cells \cup {None}], parent' \in [Slots -> BOOLEAN],
         posted' \subseteq Cells,
         phase' \in {"command", "timers", "tx", "rx", "softint", "wait"}
  PROVE  Ind'
<1>0. NetSound(net) /\ TypeOK
  BY DEF Ind
<1>1. /\ k \in Cells /\ k \notin Range(net.pool) /\ "NOFDREF" \notin net.st[k]
      /\ net.head[k] = None
  BY HeldFacts
<1>2. Left(net, net', k)
  BY <1>0, <1>1, ClosingLeaves
<1>3. NetSound(net')
  BY <1>0, <1>1, <1>2, LeftSound
<1>4. /\ told' = told \ {k} /\ refused' = refused \ {k} /\ missed' = missed \ {k}
      /\ forgotten' = forgotten \cup Range(Queued(net, k))
  BY DEF Released
<1>5. \A c \in Cells : net.head[c] = k => c \in Range(Queued(net, k))
  <2>1. SUFFICES ASSUME NEW c \in Cells, net.head[c] = k PROVE c \in Range(Queued(net, k))
    OBVIOUS
  <2>2. k # None
    BY <1>1, GlueAssumption
  <2>3. k \in net.present["accept"]
    BY <1>0, <2>1, <2>2 DEF NetSound, HeadSound
  <2>4. c \in Range(net.q[k])
    BY <1>0, <1>1, <2>1 DEF NetSound, QueueAgrees
  <2> QED
    BY <2>3, <2>4 DEF Queued
<1>6. Range(Queued(net, k)) \subseteq Cells
  <2> DEFINE s == Queued(net, k)
  <2>1. net.q \in [Cells -> Seq(Cells)]
    BY <1>0, NetFields DEF TypeOK
  <2>2. << >> \in Seq(Cells)
    BY SMTT(30)
  <2>3. s \in Seq(Cells)
    BY <1>1, <2>1, <2>2 DEF Queued
  <2> HIDE DEF s
  <2>4. Range(s) \subseteq Cells
    BY <2>3, SMTT(30) DEF Range
  <2> QED
    BY <2>4 DEF s
<1>7. TypeOK'
  <2>1. told' \subseteq Cells /\ refused' \subseteq Cells /\ missed' \subseteq Cells /\ forgotten' \subseteq Cells
    BY <1>0, <1>4, <1>6 DEF TypeOK
  <2>2. net' \in NetType /\ halted' \in BOOLEAN
    BY <1>0, <1>3 DEF TypeOK, NetSound, WellFormed
  <2> QED
    BY <2>1, <2>2 DEF TypeOK
<1>8. ASSUME NEW c \in Held'
      PROVE  /\ c \in Cells /\ c \in Held /\ c # k /\ net.head[c] = None /\ net'.head[c] = None
             /\ net'.st[c] = net.st[c] /\ (c \in net'.upcall <=> c \in net.upcall)
             /\ (c \in Range(net'.pool) <=> c \in Range(net.pool))
             /\ \A n \in Lists : c \in net'.present[n] <=> c \in net.present[n]
  <2>1. c \in Held /\ c # k
    OBVIOUS
  <2>2. c \in Cells /\ net.head[c] = None
    BY <2>1, HeldFacts
  <2>3. k # None
    BY <1>1, GlueAssumption
  <2>4. net.head[c] # k
    BY <2>2, <2>3
  <2> QED
    BY <1>2, <2>1, <2>2, <2>4 DEF Left
<1>9. HeldSound'
  BY <1>8, HeldFacts DEF HeldSound
<1>10. HeldReported'
  <2>1. SUFFICES ASSUME ~halted, NEW c \in Held', "DISCONNECTED" \in net'.st[c]
                 PROVE  c \in told' \cup refused' \cup missed' \cup net'.present["closed"]
    BY DEF HeldReported
  <2>2. "closed" \in Lists
    BY DEF Lists
  <2>3. c \in Held /\ c # k /\ "DISCONNECTED" \in net.st[c]
        /\ (c \in net'.present["closed"] <=> c \in net.present["closed"])
    BY <1>8, <2>1, <2>2
  <2>4. c \in told \cup refused \cup missed \cup net.present["closed"]
    BY <2>1, <2>3 DEF Ind, HeldReported
  <2> QED
    BY <1>4, <2>3, <2>4
<1>11. OthersClosing'
  <2>1. SUFFICES ASSUME NEW c \in Cells, c \notin Range(net'.pool), c \notin forgotten',
                        c \notin Held', net'.head[c] = None
                 PROVE  "NOFDREF" \in net'.st[c] /\ net'.pcb[c] # None
    BY DEF OthersClosing
  <2>2. CASE c = k
    <3>1. k \notin Range(net'.pool)
      BY <2>1, <2>2
    <3>2. net'.pcb[k] \in HaveEstablished /\ "NOFDREF" \in net'.st[k]
      BY <1>2, <3>1 DEF Left
    <3>3. None \notin HaveEstablished
      BY GlueAssumption DEF HaveEstablished
    <3> QED
      BY <2>2, <3>2, <3>3
  <2>3. CASE c # k
    <3>1. net.head[c] # k
      BY <1>4, <1>5, <2>1
    <3>2. /\ net'.pcb[c] = net.pcb[c] /\ net'.st[c] = net.st[c] /\ net'.head[c] = net.head[c]
          /\ (c \in Range(net'.pool) <=> c \in Range(net.pool))
      BY <1>2, <2>3, <3>1 DEF Left
    <3>3. c \notin forgotten /\ c \notin Held
      BY <1>4, <2>1, <2>3
    <3> QED
      BY <2>1, <3>2, <3>3 DEF Ind, OthersClosing
  <2> QED
    BY <2>2, <2>3
<1> QED
  BY <1>3, <1>7, <1>9, <1>10, <1>11 DEF Ind

(* CLOSE keeps the invariant: no other slot referred to the socket. *)
LEMMA ProcessCloseStep ==
  ASSUME Ind, NEW s \in Slots, ProcessClose(s)
  PROVE  Ind'
<1> DEFINE k == sat[s]
<1>0. TypeOK /\ HeldOnce
  BY DEF Ind
<1>1. /\ halted' = halted /\ phase' \in {"command", "timers", "tx", "rx", "softint", "wait"}
  BY <1>0, CommandFacts DEF ProcessClose
<1>2. /\ sat[s] # None /\ net' = CloseSocket(net, k) /\ sat' = [sat EXCEPT ![s] = None]
      /\ parent' = [parent EXCEPT ![s] = FALSE] /\ Released(k) /\ posted' = posted
  BY DEF ProcessClose
<1>3. k \in Held
  BY <1>0, <1>2, SlotHeld
<1>4. /\ sat \in [Slots -> Cells \cup {None}] /\ sat' \in [Slots -> Cells \cup {None}]
      /\ parent' \in [Slots -> BOOLEAN] /\ posted' \subseteq Cells
      /\ sat'[s] = None /\ \A t \in Slots \ {s} : sat'[t] = sat[t]
  BY <1>0, <1>2 DEF TypeOK
<1>5. ASSUME NEW c PROVE c \in Held' <=> c \in Held /\ c # k
  <2>1. DOMAIN sat = Slots /\ DOMAIN sat' = Slots
    BY <1>4
  <2>2. \A t \in Slots \ {s} : sat[t] # k
    BY <1>0, <1>2 DEF HeldOnce
  <2>3. c \in Range(sat') /\ c # None <=> c \in Range(sat) /\ c # None /\ c # k
    BY <1>2, <1>4, <2>1, <2>2 DEF Range
  <2>4. k \notin posted
    BY <1>0 DEF HeldOnce
  <2> QED
    BY <1>2, <2>3, <2>4 DEF Held
<1>6. HeldOnce'
  <2>1. ASSUME NEW t \in Slots, NEW u \in Slots, sat'[t] = sat'[u], sat'[t] # None PROVE t = u
    BY <1>0, <1>4, <2>1 DEF HeldOnce
  <2>2. ASSUME NEW t \in Slots PROVE sat'[t] \notin posted'
    BY <1>0, <1>2, <1>4, GlueAssumption DEF HeldOnce, TypeOK
  <2> QED
    BY <2>1, <2>2 DEF HeldOnce
<1> HIDE DEF k
<1> QED
  BY <1>1, <1>2, <1>3, <1>4, <1>5, <1>6, ReleaseStep

(* Closing an accepted socket that was declined keeps the invariant. *)
LEMMA ProcessDeclineStep ==
  ASSUME Ind, NEW k \in Cells, ProcessDecline(k)
  PROVE  Ind'
<1>0. TypeOK /\ HeldOnce
  BY DEF Ind
<1>1. /\ halted' = halted /\ phase' \in {"command", "timers", "tx", "rx", "softint", "wait"}
  BY <1>0, CommandFacts DEF ProcessDecline
<1>2. /\ k \in posted /\ net' = CloseSocket(net, k) /\ sat' = sat /\ parent' = parent
      /\ Released(k) /\ posted' = posted \ {k}
  BY DEF ProcessDecline
<1>3. k \in Held
  BY <1>2 DEF Held
<1>4. /\ sat' \in [Slots -> Cells \cup {None}]
      /\ parent' \in [Slots -> BOOLEAN] /\ posted' \subseteq Cells /\ DOMAIN sat = Slots
  BY <1>0, <1>2 DEF TypeOK
<1>5. ASSUME NEW c PROVE c \in Held' <=> c \in Held /\ c # k
  <2>1. k \notin Range(sat)
    BY <1>0, <1>2, <1>4 DEF HeldOnce, Range
  <2> QED
    BY <1>2, <2>1 DEF Held
<1>6. HeldOnce'
  BY <1>0, <1>2 DEF HeldOnce
<1> QED
  BY <1>1, <1>2, <1>3, <1>4, <1>5, <1>6, ReleaseStep

----------------------------------------------------------------------------
(* process_rx_ready_sockets. *)

(* The list of the closed sockets is emptied, and nothing else changes. *)
LEMMA ClearClosedFacts ==
  ASSUME NEW w, WellFormed(w), NEW v, v = ClearClosed(w)
  PROVE  /\ WellFormed(v) /\ SameSockets(w, v)
         /\ v.list["closed"] = << >> /\ v.present["closed"] = {}
         /\ \A m \in Lists : m # "closed" => v.present[m] = w.present[m]
<1>0. /\ "closed" \in Lists /\ "closed" \notin Counted /\ Counted \subseteq Lists
  BY DEF Lists, Counted
<1>1. w \in NetType /\ ListsAgree(w)
  BY DEF WellFormed
<1>2. w.list \in [Lists -> Seq(Cells)] /\ w.present \in [Lists -> SUBSET Cells]
  BY <1>1, NetFields
<1> DEFINE nil == << >>
           none == {}
<1>3. nil \in Seq(Cells) /\ Range(nil) = {} /\ IsInjective(nil)
  BY SMTT(30) DEF Range, IsInjective
<1>4. v = [w EXCEPT !.list["closed"] = nil, !.present["closed"] = none]
  BY DEF ClearClosed
<1>5. none \in SUBSET Cells /\ none = {} /\ nil = << >>
  OBVIOUS
<1> HIDE DEF nil, none
<1>6. /\ v.list = [w.list EXCEPT !["closed"] = nil] /\ v.present = [w.present EXCEPT !["closed"] = none]
      /\ v.len = w.len /\ SameSockets(w, v)
  BY <1>1, <1>4, SMTT(30) DEF NetType, SameSockets
<1>7. v \in NetType
  <2>1. [w EXCEPT !.list["closed"] = nil, !.present["closed"] = none] \in NetType
    BY ZenonT(60), <1>0, <1>1, <1>3, <1>5 DEF NetType
  <2> QED
    BY <1>4, <2>1
<1>8. /\ v.list["closed"] = nil /\ v.present["closed"] = none
      /\ \A m \in Lists : m # "closed" => v.list[m] = w.list[m] /\ v.present[m] = w.present[m]
  BY <1>0, <1>2, <1>6
<1>9. ListsAgree(v)
  <2>1. ASSUME NEW m \in Lists PROVE v.present[m] = Range(v.list[m]) /\ IsInjective(v.list[m])
    <3>1. CASE m = "closed"
      BY <1>3, <1>5, <1>8, <3>1
    <3>2. CASE m # "closed"
      BY <1>1, <1>8, <3>2 DEF ListsAgree
    <3> QED
      BY <3>1, <3>2
  <2>2. ASSUME NEW m \in Counted PROVE v.len[m] >= Len(v.list[m])
    <3>1. m \in Lists /\ m # "closed"
      BY <1>0
    <3>2. v.len[m] = w.len[m] /\ v.list[m] = w.list[m]
      BY <1>6, <1>8, <3>1
    <3> QED
      BY <1>1, <3>2 DEF ListsAgree
  <2> QED
    BY <2>1, <2>2 DEF ListsAgree
<1>10. WellFormed(v)
  BY <1>6, <1>7, <1>9 DEF WellFormed, SameSockets
<1> QED
  BY <1>5, <1>6, <1>8, <1>10

(* What accepting the connections queued on the listeners ls does, apart   *)
(* from taking the listeners off their list.                               *)

TakenOver(w, v, ls) ==
  /\ WellFormed(v) /\ v.pcb = w.pcb /\ v.stream = w.stream /\ v.pool = w.pool
  /\ \A c \in Cells :
       /\ v.head[c] = IF w.head[c] \in ls THEN None ELSE w.head[c]
       /\ v.st[c] = IF w.head[c] \in ls THEN w.st[c] \ {"NOFDREF"} ELSE w.st[c]
       /\ v.q[c] = IF c \in ls THEN << >> ELSE w.q[c]
       /\ c \in v.upcall <=> c \in w.upcall \/ w.head[c] \in ls

(* user_on_accept of all announced listeners: their connections are        *)
(* accepted and get an upcall.                                             *)
LEMMA AcceptAllFacts ==
  ASSUME NEW w, WellFormed(w), NEW v, v = AcceptAll(w)
  PROVE  /\ TakenOver(w, v, w.present["accept"])
         /\ v.list["accept"] = << >> /\ v.present["accept"] = {}
         /\ \A m \in Lists : m # "accept" => v.list[m] = w.list[m] /\ v.present[m] = w.present[m]
<1>0. /\ "accept" \in Lists /\ "accept" \notin Counted /\ Counted \subseteq Lists
  BY DEF Lists, Counted
<1> DEFINE ls == w.present["accept"]
           g == SoAccept(w, ls)
           upcall == g.upcall \cup {k \in Cells : w.head[k] \in ls}
           nil == << >>
           none == {}
<1>1. v = [g EXCEPT !.upcall = upcall, !.list["accept"] = nil, !.present["accept"] = none]
  BY DEF AcceptAll
<1>2. nil \in Seq(Cells) /\ Range(nil) = {} /\ IsInjective(nil)
  BY SMTT(30) DEF Range, IsInjective
<1>3. none \in SUBSET Cells /\ none = {} /\ nil = << >>
  OBVIOUS
<1> HIDE DEF ls
<1>4. Accepted(w, g, ls) /\ g.list = w.list /\ g.len = w.len
  BY SoAcceptFacts
<1> HIDE DEF g
<1>5. g \in NetType /\ ListsAgree(g) /\ WellFormed(g)
  BY <1>4 DEF Accepted, WellFormed
<1>6. /\ g.list \in [Lists -> Seq(Cells)] /\ g.present \in [Lists -> SUBSET Cells]
      /\ g.upcall \subseteq Cells
  BY <1>5, NetFields
<1>7. upcall \in SUBSET Cells /\ \A c \in Cells : c \in upcall <=> c \in g.upcall \/ w.head[c] \in ls
  BY <1>6
<1> HIDE DEF nil, none, upcall
<1>8. /\ v.list = [g.list EXCEPT !["accept"] = nil] /\ v.present = [g.present EXCEPT !["accept"] = none]
      /\ v.upcall = upcall
  BY <1>1, <1>5, SMTT(30) DEF NetType
<1>9. /\ v.pcb = g.pcb /\ v.st = g.st /\ v.stream = g.stream /\ v.head = g.head
      /\ v.q = g.q /\ v.pool = g.pool /\ v.aborting = g.aborting /\ v.len = g.len
  BY <1>1, <1>5, SMTT(30) DEF NetType
<1>10. v \in NetType
  <2>1. [g EXCEPT !.upcall = upcall, !.list["accept"] = nil, !.present["accept"] = none] \in NetType
    BY ZenonT(60), <1>0, <1>2, <1>3, <1>5, <1>7 DEF NetType
  <2> QED
    BY <1>1, <2>1
<1>11. /\ v.list["accept"] = nil /\ v.present["accept"] = none
       /\ \A m \in Lists : m # "accept" => v.list[m] = g.list[m] /\ v.present[m] = g.present[m]
  BY <1>0, <1>6, <1>8
<1>12. ListsAgree(v)
  <2>1. ASSUME NEW m \in Lists PROVE v.present[m] = Range(v.list[m]) /\ IsInjective(v.list[m])
    <3>1. CASE m = "accept"
      BY <1>2, <1>3, <1>11, <3>1
    <3>2. CASE m # "accept"
      BY <1>5, <1>11, <3>2 DEF ListsAgree
    <3> QED
      BY <3>1, <3>2
  <2>2. ASSUME NEW m \in Counted PROVE v.len[m] >= Len(v.list[m])
    <3>1. m \in Lists /\ m # "accept"
      BY <1>0
    <3>2. v.len[m] = g.len[m] /\ v.list[m] = g.list[m]
      BY <1>9, <1>11, <3>1
    <3> QED
      BY <1>5, <3>2 DEF ListsAgree
  <2> QED
    BY <2>1, <2>2 DEF ListsAgree
<1>13. WellFormed(v)
  BY <1>5, <1>9, <1>10, <1>12 DEF WellFormed
<1>14. TakenOver(w, v, ls)
  <2>1. v.pcb = w.pcb /\ v.stream = w.stream /\ v.pool = w.pool
    BY <1>4, <1>9 DEF Accepted
  <2>2. ASSUME NEW c \in Cells
        PROVE  /\ v.head[c] = IF w.head[c] \in ls THEN None ELSE w.head[c]
               /\ v.st[c] = IF w.head[c] \in ls THEN w.st[c] \ {"NOFDREF"} ELSE w.st[c]
               /\ v.q[c] = IF c \in ls THEN << >> ELSE w.q[c]
    BY <1>4, <1>9 DEF Accepted
  <2>3. ASSUME NEW c \in Cells PROVE c \in v.upcall <=> c \in w.upcall \/ w.head[c] \in ls
    BY <1>4, <1>7, <1>8 DEF Accepted
  <2> QED
    BY <1>13, <2>1, <2>2, <2>3 DEF TakenOver
<1>15. \A m \in Lists : m # "accept" => v.list[m] = w.list[m] /\ v.present[m] = w.present[m]
  BY <1>4, <1>11 DEF Accepted
<1> QED
  BY <1>3, <1>11, <1>14, <1>15 DEF ls

(* The pass as a whole. *)
LEMMA RxPassFacts ==
  ASSUME NEW w, WellFormed(w), NEW v, v = Served(AcceptAll(ClearClosed(w)), "read")
  PROVE  /\ TakenOver(w, v, w.present["accept"])
         /\ v.list["read"] = << >> /\ v.list["accept"] = << >> /\ v.list["closed"] = << >>
<1>0. /\ "read" \in Counted /\ "accept" # "read" /\ "closed" # "read" /\ "closed" # "accept"
      /\ "accept" \in Lists /\ "closed" \in Lists /\ "read" \in Lists
  BY DEF Counted, Lists
<1> DEFINE c == ClearClosed(w)
           a == AcceptAll(c)
<1>1. c = ClearClosed(w) /\ a = AcceptAll(c) /\ v = Served(a, "read")
  OBVIOUS
<1> HIDE DEF c, a
<1>2. /\ WellFormed(c) /\ SameSockets(w, c) /\ c.list["closed"] = << >>
      /\ \A m \in Lists : m # "closed" => c.present[m] = w.present[m]
  BY <1>1, ClearClosedFacts, SMTT(30)
<1>3. /\ TakenOver(c, a, c.present["accept"]) /\ a.list["accept"] = << >>
      /\ \A m \in Lists : m # "accept" => a.list[m] = c.list[m] /\ a.present[m] = c.present[m]
  BY <1>1, <1>2, AcceptAllFacts, SMTT(30)
<1>4. WellFormed(a) /\ c.present["accept"] = w.present["accept"] /\ a.list["closed"] = << >>
  BY <1>0, <1>2, <1>3 DEF TakenOver
<1>5. /\ WellFormed(v) /\ SameSockets(a, v) /\ v.list["read"] = << >>
      /\ \A m \in Lists : m # "read" => v.list[m] = a.list[m]
  BY <1>0, <1>1, <1>4, ServedFacts, SMTT(30)
<1>6. v.list["read"] = << >> /\ v.list["accept"] = << >> /\ v.list["closed"] = << >>
  BY <1>0, <1>3, <1>4, <1>5
<1>7. TakenOver(w, v, w.present["accept"])
  <2> DEFINE ls == w.present["accept"]
  <2>1. TakenOver(c, a, ls)
    BY <1>3, <1>4
  <2> HIDE DEF ls
  <2>2. /\ c.pcb = w.pcb /\ c.st = w.st /\ c.stream = w.stream /\ c.head = w.head
        /\ c.q = w.q /\ c.upcall = w.upcall /\ c.pool = w.pool
    BY <1>2 DEF SameSockets
  <2>3. /\ v.pcb = a.pcb /\ v.st = a.st /\ v.stream = a.stream /\ v.head = a.head
        /\ v.q = a.q /\ v.upcall = a.upcall /\ v.pool = a.pool
    BY <1>5 DEF SameSockets
  <2>4. TakenOver(w, v, ls)
    <3>1. ASSUME NEW k \in Cells
          PROVE  /\ v.head[k] = IF w.head[k] \in ls THEN None ELSE w.head[k]
                 /\ v.st[k] = IF w.head[k] \in ls THEN w.st[k] \ {"NOFDREF"} ELSE w.st[k]
                 /\ v.q[k] = IF k \in ls THEN << >> ELSE w.q[k]
                 /\ k \in v.upcall <=> k \in w.upcall \/ w.head[k] \in ls
      <4>1. /\ a.head[k] = IF c.head[k] \in ls THEN None ELSE c.head[k]
            /\ a.st[k] = IF c.head[k] \in ls THEN c.st[k] \ {"NOFDREF"} ELSE c.st[k]
            /\ a.q[k] = IF k \in ls THEN << >> ELSE c.q[k]
            /\ k \in a.upcall <=> k \in c.upcall \/ c.head[k] \in ls
        BY <2>1 DEF TakenOver
      <4> QED
        BY <2>2, <2>3, <4>1
    <3>2. v.pcb = w.pcb /\ v.stream = w.stream /\ v.pool = w.pool /\ WellFormed(v)
      BY <1>5, <2>1, <2>2, <2>3 DEF TakenOver
    <3> QED
      BY <3>1, <3>2 DEF TakenOver
  <2> QED
    BY <2>4 DEF ls
<1> QED
  BY <1>6, <1>7

(* process_rx_ready_sockets keeps the invariant: every queued connection   *)
(* is accepted, for all listeners with one are on the list, and every      *)
(* closure is reported or counted as refused or missed.                    *)
LEMMA ProcessRxReadyStep ==
  ASSUME Ind, ProcessRxReady
  PROVE  Ind'
<1> DEFINE ls == net.present["accept"]
           closed == Range(net.list["closed"]) \cap (Range(sat) \cup posted)
<1>0. TypeOK /\ NetSound(net) /\ WellFormed(net) /\ net \in NetType /\ HeldOnce
  BY DEF Ind, NetSound, WellFormed
<1>1. /\ ~halted /\ phase' = "softint" /\ sat' = sat /\ parent' = parent
      /\ missed' = (missed \cup {k \in closed : ~Tellable(k)}) \ (told' \cup refused')
      /\ halted' = \E k \in Accepting : net.pcb[k] = None
  BY DEF ProcessRxReady
<1>20. PICK full \in SUBSET {k \in closed : Tellable(k)} :
         /\ told' = told \cup ({k \in closed : Tellable(k)} \ full)
         /\ refused' = (refused \cup full) \ told'
  BY DEF ProcessRxReady
<1>2. TakenOver(net, net', ls)
  <2>1. net' = Served(AcceptAll(ClearClosed(net)), "read")
    BY DEF ProcessRxReady
  <2> QED
    BY <1>0, <2>1, RxPassFacts, SMTT(30)
<1>3. PICK lost \in SUBSET Accepting : /\ posted' = posted \cup (Accepting \ lost)
                                       /\ forgotten' = forgotten \cup lost
  BY DEF ProcessRxReady
<1>4. /\ net.present \in [Lists -> SUBSET Cells] /\ net.list \in [Lists -> Seq(Cells)]
      /\ net.head \in [Cells -> Cells \cup {None}] /\ "accept" \in Lists /\ "closed" \in Lists
  BY <1>0, NetFields DEF Lists
<1>5. None \notin Cells /\ None \notin ls
  BY <1>4, GlueAssumption
<1>6. Accepting \subseteq Cells /\ \A c \in Cells : c \in Accepting <=> net.head[c] # None
  <2>1. ASSUME NEW c \in Cells PROVE net.head[c] \in ls <=> net.head[c] # None
    BY <1>0, <1>5 DEF NetSound, HeadSound
  <2> QED
    BY <2>1 DEF Accepting
<1>7. closed = net.present["closed"] \cap (Range(sat) \cup posted) /\ closed \subseteq Cells
  <2>1. net.present["closed"] = Range(net.list["closed"])
    BY <1>0, <1>4 DEF WellFormed, ListsAgree
  <2>2. closed = net.present["closed"] \cap (Range(sat) \cup posted)
    BY <2>1
  <2>3. net.present["closed"] \subseteq Cells
    BY <1>4
  <2> HIDE DEF closed
  <2> QED
    BY <2>2, <2>3
<1> HIDE DEF closed
<1>8. ASSUME NEW c \in Cells
      PROVE  /\ net'.pcb[c] = net.pcb[c] /\ (c \in net'.stream <=> c \in net.stream)
             /\ (c \in Range(net'.pool) <=> c \in Range(net.pool)) /\ net'.head[c] = None
             /\ c \in net'.upcall <=> c \in net.upcall \/ c \in Accepting
             /\ c \notin Accepting => net'.st[c] = net.st[c]
             /\ c \in Accepting => net'.st[c] = net.st[c] \ {"NOFDREF"}
  <2>1. /\ net'.head[c] = IF net.head[c] \in ls THEN None ELSE net.head[c]
        /\ net'.st[c] = IF net.head[c] \in ls THEN net.st[c] \ {"NOFDREF"} ELSE net.st[c]
        /\ c \in net'.upcall <=> c \in net.upcall \/ net.head[c] \in ls
    BY <1>2 DEF TakenOver
  <2>2. c \in Accepting <=> net.head[c] \in ls
    BY DEF Accepting
  <2>3. c \in Accepting <=> net.head[c] # None
    BY <1>6
  <2>4. net'.pcb = net.pcb /\ net'.stream = net.stream /\ net'.pool = net.pool
    BY <1>2 DEF TakenOver
  <2> QED
    BY <2>1, <2>2, <2>3, <2>4
<1>9. ASSUME NEW c \in Cells PROVE CellSound(net', c)
  <2>0. CellSound(net, c) /\ (c \in Accepting <=> net.head[c] # None)
    BY <1>0, <1>6 DEF NetSound
  <2>1. FreeSound(net', c)
    BY <1>8, <2>0 DEF CellSound, FreeSound
  <2>2. PcbSound(net', c)
    <3>1. net'.pcb[c] = "udp" => c \notin net'.stream
      BY <1>8, <2>0 DEF CellSound, PcbSound
    <3>2. c \in net'.stream /\ net'.pcb[c] = None => "DISCONNECTED" \in net'.st[c]
      <4>1. c \in net'.stream /\ net'.pcb[c] = None => "DISCONNECTED" \in net.st[c]
        BY <1>8, <2>0 DEF CellSound, PcbSound
      <4>2. "DISCONNECTED" \in net.st[c] => "DISCONNECTED" \in net'.st[c]
        BY <1>8
      <4> QED
        BY <4>1, <4>2
    <3>3. net'.pcb[c] \in Early =>
            /\ "DISCONNECTED" \notin net'.st[c] /\ "NOFDREF" \notin net'.st[c]
            /\ c \in net'.upcall /\ net'.head[c] = None
      BY <1>8, <2>0 DEF CellSound, PcbSound
    <3> QED
      BY <3>1, <3>2, <3>3 DEF PcbSound
  <2>3. QueuedSound(net', c)
    BY <1>8 DEF QueuedSound
  <2> QED
    BY <2>1, <2>2, <2>3 DEF CellSound
<1>10. ASSUME NEW c \in Cells, NEW d \in Cells
       PROVE  c \notin Range(net'.q[d])
  <2>1. net'.q[d] = IF d \in ls THEN << >> ELSE net.q[d]
    BY <1>2 DEF TakenOver
  <2>2. CASE d \in ls
    <3>1. Range(<< >>) = {}
      BY SMTT(30) DEF Range
    <3> QED
      BY <2>1, <2>2, <3>1
  <2>3. CASE d \notin ls
    <3>1. net.head[c] # d
      BY <1>0, <1>5, <2>3 DEF NetSound, HeadSound
    <3>2. c \notin Range(net.q[d])
      BY <1>0, <3>1 DEF NetSound, QueueAgrees
    <3> QED
      BY <2>1, <2>3, <3>2
  <2> QED
    BY <2>2, <2>3
<1>11. NetSound(net')
  <2>1. \A c \in Cells : HeadSound(net', c)
    BY <1>8 DEF HeadSound
  <2>2. QueueAgrees(net')
    <3>1. ASSUME NEW c \in Cells, NEW d \in Cells
          PROVE  c \in Range(net'.q[d]) <=> net'.head[c] = d
      BY <1>5, <1>8, <1>10
    <3> QED
      BY <3>1 DEF QueueAgrees
  <2>3. WellFormed(net')
    BY <1>2 DEF TakenOver
  <2> QED
    BY <1>9, <2>1, <2>2, <2>3 DEF NetSound
<1>12. TypeOK'
  <2>1. told' \subseteq Cells /\ refused' \subseteq Cells /\ missed' \subseteq Cells
    BY <1>0, <1>1, <1>7, <1>20 DEF TypeOK
  <2>2. posted' \subseteq Cells /\ forgotten' \subseteq Cells
    BY <1>0, <1>3, <1>6 DEF TypeOK
  <2>3. net' \in NetType
    BY <1>11 DEF NetSound, WellFormed
  <2>4. halted' \in BOOLEAN
    BY <1>1
  <2> QED
    BY <1>0, <1>1, <2>1, <2>2, <2>3, <2>4 DEF TypeOK
<1>13. ASSUME NEW c PROVE c \in Held' <=> c \in Held \/ (c \in Accepting /\ c \notin lost)
  BY <1>1, <1>3 DEF Held
<1>14. ASSUME NEW c \in Held
       PROVE  /\ c \in Cells /\ c \notin Accepting /\ c \notin Range(net.pool)
              /\ "NOFDREF" \notin net.st[c] /\ c \in net.upcall
  BY <1>6, HeldFacts
<1>15. ASSUME NEW c \in Accepting
       PROVE  /\ c \in Cells /\ c \notin Range(net.pool)
              /\ "DISCONNECTED" \in net.st[c] => net.pcb[c] = None
  <2>1. c \in Cells /\ net.head[c] # None
    BY <1>6
  <2>2. CellSound(net, c)
    BY <1>0, <2>1 DEF NetSound
  <2> QED
    BY <2>1, <2>2 DEF CellSound, FreeSound, QueuedSound
<1>16. HeldSound'
  <2>1. SUFFICES ASSUME NEW c \in Held'
                 PROVE  /\ c \notin Range(net'.pool) /\ net'.head[c] = None
                        /\ "NOFDREF" \notin net'.st[c] /\ c \in net'.upcall
    BY DEF HeldSound
  <2>2. CASE c \in Held
    BY <1>8, <1>14, <2>2
  <2>3. CASE c \in Accepting
    BY <1>8, <1>15, <2>3
  <2> QED
    BY <1>13, <2>1, <2>2, <2>3
<1>17. HeldReported'
  <2>1. SUFFICES ASSUME ~halted', NEW c \in Held', "DISCONNECTED" \in net'.st[c]
                 PROVE  c \in told' \cup refused' \cup missed' \cup net'.present["closed"]
    BY DEF HeldReported
  <2>2. CASE c \in Held
    <3>1. "DISCONNECTED" \in net.st[c]
      BY <1>8, <1>14, <2>1, <2>2
    <3>2. c \in told \cup refused \cup missed \cup net.present["closed"]
      BY <1>1, <2>2, <3>1 DEF Ind, HeldReported
    <3>3. c \in net.present["closed"] => c \in closed
      BY <1>7, <2>2 DEF Held
    <3> QED
      BY <1>1, <1>20, <3>2, <3>3
  <2>3. CASE c \in Accepting
    <3>1. "DISCONNECTED" \in net.st[c]
      BY <1>8, <1>15, <2>1, <2>3
    <3>2. net.pcb[c] = None
      BY <1>15, <2>3, <3>1
    <3> QED
      BY <1>1, <2>1, <2>3, <3>2
  <2> QED
    BY <1>13, <2>1, <2>2, <2>3
<1>18. HeldOnce'
  <2>1. ASSUME NEW t \in Slots PROVE sat[t] \notin posted'
    <3>1. sat[t] \notin posted
      BY <1>0 DEF HeldOnce
    <3>2. sat[t] \notin Accepting
      <4>1. CASE sat[t] = None
        BY <1>5, <1>6, <4>1
      <4>2. CASE sat[t] # None
        BY <1>0, <1>14, <4>2, SlotHeld
      <4> QED
        BY <4>1, <4>2
    <3> QED
      BY <1>3, <3>1, <3>2
  <2> QED
    BY <1>0, <1>1, <2>1 DEF HeldOnce
<1>19. OthersClosing'
  <2>1. SUFFICES ASSUME NEW c \in Cells, c \notin Range(net'.pool), c \notin forgotten',
                        c \notin Held', net'.head[c] = None
                 PROVE  "NOFDREF" \in net'.st[c] /\ net'.pcb[c] # None
    BY DEF OthersClosing
  <2>2. c \notin Held /\ c \notin Accepting /\ c \notin forgotten
    BY <1>3, <1>13, <2>1
  <2>3. net.head[c] = None /\ c \notin Range(net.pool)
    BY <1>6, <1>8, <2>1, <2>2
  <2> QED
    BY <1>8, <2>2, <2>3 DEF Ind, OthersClosing
<1> QED
  BY <1>11, <1>12, <1>16, <1>17, <1>18, <1>19 DEF Ind

----------------------------------------------------------------------------
(* The initial state: all cells are in the pool. *)
LEMMA InitSound ==
  ASSUME Init
  PROVE  Ind
<1> DEFINE n == Cardinality(Cells)
<1>1. n \in Nat
  BY GlueAssumption
<1> HIDE DEF n
<1>2. PICK order \in Bijection(1 .. n, Cells) :
       net = [pcb |-> [k \in Cells |-> None], st |-> [k \in Cells |-> {}], stream |-> {},
              head |-> [k \in Cells |-> None], q |-> [k \in Cells |-> << >>],
              upcall |-> {}, glue |-> [k \in Cells |-> None],
              list |-> [m \in Lists |-> << >>], present |-> [m \in Lists |-> {}],
              len |-> [m \in Counted |-> 0], aborting |-> {}, pool |-> order]
  BY DEF Init, n
<1>3. order \in [1 .. n -> Cells] /\ IsInjective(order) /\ \A k \in Cells : \E i \in 1 .. n : order[i] = k
  BY <1>2 DEF Bijection, Injection, Surjection
<1>4. order \in Seq(Cells)
  BY <1>1, <1>3, SMTT(30)
<1>5. \A k \in Cells : k \in Range(order)
  BY <1>3 DEF Range
<1>6. /\ net.pcb = [k \in Cells |-> None] /\ net.st = [k \in Cells |-> {}] /\ net.stream = {}
      /\ net.head = [k \in Cells |-> None] /\ net.q = [k \in Cells |-> << >>]
      /\ net.upcall = {} /\ net.glue = [k \in Cells |-> None]
      /\ net.list = [m \in Lists |-> << >>] /\ net.present = [m \in Lists |-> {}]
      /\ net.len = [m \in Counted |-> 0] /\ net.aborting = {} /\ net.pool = order
  BY <1>2
<1> DEFINE nil == << >>
<1>7. nil \in Seq(Cells) /\ Range(nil) = {} /\ IsInjective(nil) /\ Len(nil) = 0 /\ 0 \in Nat /\ 0 >= 0
  BY SMTT(30) DEF Range, IsInjective
<1>8. net \in NetType
  <2>1. /\ [k \in Cells |-> None] \in [Cells -> States \cup {"udp", None}]
        /\ [k \in Cells |-> {}] \in [Cells -> SUBSET Flags]
        /\ [k \in Cells |-> None] \in [Cells -> Cells \cup {None}]
        /\ [k \in Cells |-> nil] \in [Cells -> Seq(Cells)]
        /\ [k \in Cells |-> None] \in [Cells -> Slots \cup {None}]
        /\ [m \in Lists |-> nil] \in [Lists -> Seq(Cells)]
        /\ [m \in Lists |-> {}] \in [Lists -> SUBSET Cells]
        /\ [m \in Counted |-> 0] \in [Counted -> Nat]
    BY <1>7
  <2> QED
    BY <1>2, <1>4, <2>1 DEF NetType
<1>9. /\ \A m \in Lists : net.present[m] = {} /\ net.list[m] = nil
      /\ \A m \in Counted : net.list[m] = nil /\ net.len[m] = 0
  BY <1>6 DEF Counted, Lists
<1>10. \A k \in Cells : /\ net.pcb[k] = None /\ net.st[k] = {} /\ net.head[k] = None
                        /\ net.q[k] = nil /\ k \in Range(net.pool)
  BY <1>5, <1>6
<1> HIDE DEF nil
<1>11. WellFormed(net)
  <2>1. \A m \in Lists : net.present[m] = Range(net.list[m]) /\ IsInjective(net.list[m])
    BY <1>7, <1>9
  <2>2. \A m \in Counted : net.len[m] >= Len(net.list[m])
    BY <1>7, <1>9
  <2>3. IsInjective(net.pool) /\ net.aborting = {}
    BY <1>3, <1>6
  <2> QED
    BY <1>8, <2>1, <2>2, <2>3 DEF WellFormed, ListsAgree
<1>12. None # "udp" /\ None \notin Early /\ None \notin Cells
  BY GlueAssumption DEF Early, States
<1>13. \A k \in Cells : CellSound(net, k) /\ HeadSound(net, k)
  BY <1>6, <1>10, <1>12 DEF CellSound, FreeSound, PcbSound, QueuedSound, HeadSound
<1>14. QueueAgrees(net)
  <2>1. ASSUME NEW k \in Cells, NEW l \in Cells PROVE k \in Range(net.q[l]) <=> net.head[k] = l
    BY <1>7, <1>10, <1>12
  <2> QED
    BY <2>1 DEF QueueAgrees
<1>15. /\ sat = [s \in Slots |-> None] /\ parent = [s \in Slots |-> FALSE] /\ phase = "command"
       /\ posted = {} /\ told = {} /\ refused = {} /\ missed = {} /\ forgotten = {}
       /\ halted = FALSE
  BY DEF Init
<1>16. TypeOK
  BY <1>8, <1>15 DEF TypeOK
<1>17. Held = {} /\ \A s \in Slots : sat[s] = None
  BY <1>15 DEF Held, Range
<1>18. HeldSound /\ HeldReported /\ HeldOnce
  BY <1>15, <1>17 DEF HeldSound, HeldReported, HeldOnce
<1>19. OthersClosing
  BY <1>10 DEF OthersClosing
<1>20. NetSound(net)
  BY <1>11, <1>13, <1>14 DEF NetSound
<1> QED
  BY <1>16, <1>18, <1>19, <1>20 DEF Ind

(* Every step keeps the inductive invariant. *)
LEMMA NextSound ==
  ASSUME Ind, [Next]_vars
  PROVE  Ind'
<1>1. CASE ProcessCommands
  <2>1. ASSUME NEW s \in Slots, NEW stream \in BOOLEAN, ProcessOpen(s, stream) PROVE Ind'
    BY <2>1, ProcessOpenStep
  <2>2. ASSUME NEW s \in Slots, ProcessConnect(s) \/ ProcessListen(s) \/ ProcessClose(s) PROVE Ind'
    BY <2>2, ProcessConnectStep, ProcessListenStep, ProcessCloseStep
  <2>3. ASSUME NEW s \in Slots, ProcessShutdown(s) \/ ProcessTxPoolEmpty(s) PROVE Ind'
    BY <2>3, ProcessShutdownStep, ProcessTxPoolEmptyStep
  <2>4. ASSUME NEW s \in Slots, NEW k \in Cells, ProcessSetRing(s, k) PROVE Ind'
    BY <2>4, ProcessSetRingStep
  <2>5. ASSUME NEW k \in Cells, ProcessDecline(k) PROVE Ind'
    BY <2>5, ProcessDeclineStep
  <2>6. (\E s \in Slots : ProcessSetSelect(s) \/ ProcessOpenNoCell(s)) \/ NoCommand => Ind'
    BY IdleSteps
  <2> QED
    BY <1>1, <2>1, <2>2, <2>3, <2>4, <2>5, <2>6 DEF ProcessCommands
<1>2. CASE Events
  <2>1. ASSUME NEW k \in Cells, PeerOpens(k) \/ PeerAccepts(k) \/ Segment(k) PROVE Ind'
    BY <2>1, PeerOpensStep, PeerAcceptsStep, SegmentStep
  <2>2. ASSUME NEW k \in Cells, Fin(k) \/ FinAcked(k) \/ Drop(k) PROVE Ind'
    BY <2>2, FinStep, FinAckedStep, DropStep
  <2>3. EventsDone => Ind'
    BY IdleSteps
  <2> QED
    BY <1>2, <2>1, <2>2, <2>3 DEF Events
<1>3. CASE ProcessTxReady \/ ProcessRxReady \/ WaiterServed
  BY <1>3, ProcessTxReadyStep, ProcessRxReadyStep, WaiterServedStep
<1>4. CASE WaitersDone \/ Died
  BY <1>4, IdleSteps
<1>5. CASE UNCHANGED vars
  <2>1. UNCHANGED <<net, sat, posted, history>> /\ halted' = halted /\ parent' = parent /\ phase' = phase
    BY <1>5 DEF vars, history
  <2> QED
    BY <2>1, IdleStep DEF Ind, TypeOK
<1> QED
  BY <1>1, <1>2, <1>3, <1>4, <1>5 DEF Next

(* The invariant of the socket layer, of the slots and of the ACCEPTED     *)
(* commands holds in every reachable state of service_main_loop, for any   *)
(* number of sockets and slots.                                            *)
THEOREM SocketLayerInvariant == Spec => []Ind
<1>1. Init => Ind
  BY InitSound
<1>2. Ind /\ [Next]_vars => Ind'
  BY NextSound
<1> QED
  BY <1>1, <1>2, PTL DEF Spec

----------------------------------------------------------------------------
(* A connection that waits to be accepted is never left behind: its        *)
(* listener is on the list user_on_accept is called for.                   *)
THEOREM QueuedConnectionsAnnounced == Spec => []QueuedAreAnnounced
<1>1. Ind => QueuedAreAnnounced
  BY DEF Ind, NetSound, HeadSound, QueuedAreAnnounced
<1> QED
  BY <1>1, SocketLayerInvariant, PTL

(* read_sockets_queue_len and write_sockets_queue_len, which a close does  *)
(* not decrement, never fall below the length of their lists.              *)
THEOREM CountersCoverLists == Spec => []CountersCover
<1>1. Ind => CountersCover
  BY DEF Ind, NetSound, WellFormed, ListsAgree, CountersCover
<1> QED
  BY <1>1, SocketLayerInvariant, PTL

(* A socket a slot or an ACCEPTED command refers to is allocated and open, *)
(* so that soclose does not panic on it, and only one of them does.        *)
THEOREM HeldSocketsOpen == Spec => []HeldAreOpen
<1>1. ASSUME Ind PROVE HeldAreOpen
  <2>1. ASSUME NEW k \in (Range(sat) \ {None}) \cup posted
        PROVE  k \in Used(net) /\ "NOFDREF" \notin net.st[k] /\ net.head[k] = None
    <3>1. k \in Held
      BY DEF Held
    <3> QED
      BY <1>1, <3>1, HeldFacts DEF Used
  <2>2. TypeOK /\ HeldOnce
    BY <1>1 DEF Ind
  <2> QED
    BY <2>1, <2>2 DEF HeldAreOpen, HeldOnce
<1>2. Ind => HeldAreOpen
  BY <1>1
<1> QED
  BY <1>2, SocketLayerInvariant, PTL

(* so_head and so_q agree; a queued connection counts as not open and is   *)
(* on no list of the glue, and its listener is open and listens, or has    *)
(* been shut down with the connection queued.                              *)
THEOREM AcceptQueuesSound == Spec => []QueuesSound
<1>1. ASSUME Ind PROVE QueuesSound
  <2>0. NetSound(net) /\ net \in NetType /\ ListsAgree(net)
    BY <1>1 DEF Ind, NetSound, WellFormed
  <2>1. ASSUME NEW k \in Cells, NEW l \in Cells PROVE k \in Range(net.q[l]) <=> net.head[k] = l
    BY <2>0 DEF NetSound, QueueAgrees
  <2>2. ASSUME NEW k \in Cells, net.head[k] # None
        PROVE  LET l == net.head[k] IN
               /\ {k, l} \subseteq Used(net) /\ "NOFDREF" \notin net.st[l]
               /\ net.pcb[l] = "LISTEN" \/ (net.pcb[l] = None /\ "DISCONNECTED" \in net.st[l])
               /\ "NOFDREF" \in net.st[k] /\ k \notin net.upcall \cup Listed(net)
    <3>0. CellSound(net, k) /\ HeadSound(net, k)
      BY <2>0 DEF NetSound
    <3>1. "NOFDREF" \in net.st[k] /\ k \notin net.upcall /\ \A n \in Lists : k \notin net.present[n]
      BY <2>2, <3>0 DEF CellSound, QueuedSound
    <3>2. k \notin Listed(net)
      BY <2>0, <3>1 DEF Listed, ListsAgree
    <3>3. k \notin Range(net.pool)
      BY <2>2, <3>0 DEF CellSound, FreeSound
    <3>4. PICK l \in Cells : l = net.head[k]
      <4>1. net.head \in [Cells -> Cells \cup {None}]
        BY <2>0, NetFields
      <4> QED
        BY <2>2, <4>1
    <3>5. Heads(net, l) /\ CellSound(net, l)
      BY <2>0, <2>2, <3>0, <3>4 DEF NetSound, HeadSound
    <3>6. l \notin Range(net.pool)
      <4>1. "LISTEN" # None
        BY GlueAssumption DEF States
      <4> QED
        BY <3>5, <4>1 DEF CellSound, FreeSound, Heads
    <3>7. "NOFDREF" \notin net.st[l]
      BY <3>5 DEF CellSound, PcbSound, Heads, Early
    <3> QED
      BY <3>1, <3>2, <3>3, <3>4, <3>5, <3>6, <3>7 DEF Used, Heads
  <2> QED
    BY <2>1, <2>2 DEF QueuesSound
<1>2. Ind => QueuesSound
  BY <1>1
<1> QED
  BY <1>2, SocketLayerInvariant, PTL

(* The upcalls of a stream socket that is not disconnected find a control  *)
(* block.                                                                  *)
THEOREM UpcallsFindPcb == Spec => []UpcallHasPcb
<1>1. Ind => UpcallHasPcb
  BY DEF Ind, NetSound, CellSound, PcbSound, UpcallHasPcb, Used
<1> QED
  BY <1>1, SocketLayerInvariant, PTL

(* The owner of a disconnected socket has been told of it, or will be by   *)
(* the next pass, unless its closure was processed before it had an owner  *)
(* with a selector, or the selector's ring was full.                       *)
THEOREM ClosuresReported == Spec => []ClosureReported
<1>1. ASSUME Ind PROVE ClosureReported
  <2>1. SUFFICES ASSUME ~halted, NEW s \in Slots, sat[s] # None, "DISCONNECTED" \in net.st[sat[s]]
                 PROVE  sat[s] \in told \cup refused \cup missed \cup net.present["closed"]
    BY DEF ClosureReported
  <2>2. sat[s] \in Held
    BY <1>1, <2>1, SlotHeld DEF Ind
  <2> QED
    BY <1>1, <2>1, <2>2 DEF Ind, HeldReported
<1>2. Ind => ClosureReported
  BY <1>1
<1> QED
  BY <1>2, SocketLayerInvariant, PTL

(* No cell is in the pool twice, and one outside it belongs to a slot or a *)
(* command, waits to be accepted, is a connection TCP has still to close,  *)
(* or is an accepted socket that was forgotten.                            *)
THEOREM CellsAreAccountedFor == Spec => []CellsAccounted
<1>1. ASSUME Ind PROVE CellsAccounted
  <2>1. IsInjective(net.pool) /\ OthersClosing
    BY <1>1 DEF Ind, NetSound, WellFormed
  <2>2. ASSUME NEW k \in Used(net) \ forgotten
        PROVE  \/ k \in Range(sat) \cup posted
               \/ net.head[k] # None
               \/ "NOFDREF" \in net.st[k] /\ net.pcb[k] # None
    <3>1. k \in Held => k \in Range(sat) \cup posted
      BY DEF Held
    <3> QED
      BY <2>1, <3>1 DEF Used, OthersClosing
  <2> QED
    BY <2>1, <2>2 DEF CellsAccounted, IsInjective
<1>2. Ind => CellsAccounted
  BY <1>1
<1> QED
  BY <1>2, SocketLayerInvariant, PTL

(* process_rx_ready_sockets leaves nothing on the lists it serves, since   *)
(* the counter of the list of readable sockets covers it.                  *)
THEOREM PassesDrainLists == Spec => PassDrainsLists
<1> DEFINE Drains == phase = "rx" /\ phase' = "softint" =>
                       \A n \in {"read", "accept", "closed"} : net'.list[n] = << >>
<1>1. ASSUME Ind, [Next]_vars PROVE Drains
  <2>1. CASE ProcessRxReady
    <3>1. WellFormed(net) /\ net' = Served(AcceptAll(ClearClosed(net)), "read")
      BY <1>1, <2>1 DEF Ind, NetSound, ProcessRxReady
    <3>2. net'.list["read"] = << >> /\ net'.list["accept"] = << >> /\ net'.list["closed"] = << >>
      BY <3>1, RxPassFacts, SMTT(30)
    <3> QED
      BY <3>2
  <2>2. CASE ProcessCommands
    BY <2>2 DEF ProcessCommands, ProcessOpen, ProcessOpenNoCell, ProcessConnect, ProcessListen,
       ProcessClose,
       ProcessSetSelect, ProcessShutdown, ProcessTxPoolEmpty, ProcessSetRing, ProcessDecline,
       NoCommand, Command
  <2>3. CASE Events
    BY <2>3 DEF Events, PeerOpens, PeerAccepts, Segment, Fin, FinAcked, Drop, EventsDone, Event
  <2>4. CASE ProcessTxReady \/ WaiterServed \/ WaitersDone
    BY <2>4 DEF ProcessTxReady, WaiterServed, WaitersDone
  <2>5. CASE Died \/ UNCHANGED vars
    BY <2>5 DEF Died, vars
  <2> QED
    BY <1>1, <2>1, <2>2, <2>3, <2>4, <2>5 DEF Next
<1>2. Ind /\ [Next]_vars => [Drains]_vars
  BY <1>1
<1> QED
  BY <1>2, SocketLayerInvariant, PTL DEF PassDrainsLists, Spec

============================================================================
