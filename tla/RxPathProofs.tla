---------------------------- MODULE RxPathProofs ----------------------------
(***************************************************************************)
(* Proofs about RxPath, for any number of sockets, rings and bursts of any *)
(* size, and any amount of data.                                           *)
(***************************************************************************)
EXTENDS RxPath, TLAPS

(* Leaves name another backend where Zenon does not find the proof. *)
USE ZenonT(20)

----------------------------------------------------------------------------
(* Rings as sequences. *)

(* Append adds one entry at the end. *)
LEMMA AppendFacts ==
  ASSUME NEW S, NEW q \in Seq(S), NEW e \in S
  PROVE  /\ Append(q, e) \in Seq(S) /\ Len(Append(q, e)) = Len(q) + 1
         /\ Range(Append(q, e)) = Range(q) \cup {e} /\ Len(q) \in Nat
<1>1. /\ Append(q, e) \in Seq(S) /\ Len(Append(q, e)) = Len(q) + 1 /\ Len(q) \in Nat
      /\ DOMAIN q = 1 .. Len(q) /\ DOMAIN Append(q, e) = 1 .. Len(q) + 1
      /\ \A i \in 1 .. Len(q) : Append(q, e)[i] = q[i]
      /\ Append(q, e)[Len(q) + 1] = e
  BY SMTT(30)
<1>2. \A i : i \in 1 .. Len(q) + 1 <=> i \in 1 .. Len(q) \/ i = Len(q) + 1
  BY SMTT(30), <1>1
<1> HIDE DEF Range
<1>3. \A x : x \in Range(Append(q, e)) <=> x \in Range(q) \/ x = e
  BY <1>1, <1>2 DEF Range
<1> QED
  BY <1>1, <1>3

(* Head and Tail take the first entry off. *)
LEMMA TailFacts ==
  ASSUME NEW S, NEW q \in Seq(S), q # << >>
  PROVE  /\ Head(q) \in S /\ Tail(q) \in Seq(S)
         /\ Len(q) \in Nat \ {0} /\ Len(Tail(q)) = Len(q) - 1
         /\ \A x \in Range(q) : x = Head(q) \/ x \in Range(Tail(q))
<1>1. /\ Head(q) \in S /\ Tail(q) \in Seq(S) /\ Len(q) \in Nat \ {0}
      /\ Len(Tail(q)) = Len(q) - 1
      /\ DOMAIN q = 1 .. Len(q) /\ DOMAIN Tail(q) = 1 .. Len(q) - 1 /\ Head(q) = q[1]
  BY SMTT(30)
<1>2. ASSUME NEW i \in 1 .. Len(q), i # 1
      PROVE  i - 1 \in 1 .. Len(q) - 1 /\ q[i] = Tail(q)[i - 1]
  BY SMTT(30), <1>1, <1>2
<1>3. ASSUME NEW x \in Range(q), x # Head(q)
      PROVE  x \in Range(Tail(q))
  <2>1. PICK i \in 1 .. Len(q) : x = q[i]
    BY <1>1, <1>3 DEF Range
  <2>2. i # 1
    BY <1>1, <1>3, <2>1
  <2>3. i - 1 \in DOMAIN Tail(q) /\ x = Tail(q)[i - 1]
    BY <1>1, <1>2, <2>1, <2>2
  <2> QED
    BY <2>3 DEF Range
<1> QED
  BY <1>1, <1>3

(* An empty ring, and one of a single entry. *)
LEMMA EmptyFacts ==
  ASSUME NEW S, NEW q \in Seq(S)
  PROVE  /\ Len(q) \in Nat /\ (Len(q) = 0 <=> q = << >>)
         /\ Len(<< >>) = 0 /\ << >> \in Seq(S) /\ DOMAIN << >> = {} /\ Range(<< >>) = {}
<1>1. Len(q) \in Nat /\ (Len(q) = 0 <=> q = << >>) /\ Len(<< >>) = 0 /\ << >> \in Seq(S)
  BY SMTT(30)
<1>2. DOMAIN << >> = {}
  BY SMTT(30)
<1> QED
  BY <1>1, <1>2 DEF Range

----------------------------------------------------------------------------
(* Buffers are numbered: the entries of q are those that follow number b.  *)
Counts(q, b) == \A i \in DOMAIN q : q[i] = b + i

LEMMA CountsAppend ==
  ASSUME NEW q \in Seq(Nat), NEW b \in Nat, NEW e \in Nat, Counts(q, b), e = b + Len(q) + 1
  PROVE  Counts(Append(q, e), b)
  BY SMTT(30) DEF Counts

(* The first is b + 1, the rest follows it. *)
LEMMA CountsTail ==
  ASSUME NEW q \in Seq(Nat), NEW b \in Nat, Counts(q, b), q # << >>
  PROVE  Head(q) = b + 1 /\ Counts(Tail(q), b + 1)
  BY SMTT(30) DEF Counts

(* Two runs of numbers that follow each other are one. *)
LEMMA CountsJoined ==
  ASSUME NEW q \in Seq(Nat), NEW r \in Seq(Nat), NEW b \in Nat, Counts(q, b), Counts(r, b + Len(q))
  PROVE  q \o r \in Seq(Nat) /\ Len(q \o r) = Len(q) + Len(r) /\ Counts(q \o r, b)
<1>1. /\ q \o r \in Seq(Nat) /\ Len(q \o r) = Len(q) + Len(r) /\ Len(q) \in Nat /\ Len(r) \in Nat
      /\ DOMAIN (q \o r) = 1 .. Len(q) + Len(r)
  BY SMTT(30)
<1>2. ASSUME NEW i \in 1 .. Len(q) + Len(r)
      PROVE  (q \o r)[i] = b + i
  <2>1. CASE i <= Len(q)
    <3>1. i \in DOMAIN q /\ (q \o r)[i] = q[i]
      BY SMTT(30), <1>1, <2>1
    <3> QED
      BY <3>1 DEF Counts
  <2>2. CASE i > Len(q)
    BY SMTT(30), <2>2 DEF Counts
  <2> QED
    BY SMTT(30), <1>1, <2>1, <2>2
<1> QED
  BY <1>1, <1>2 DEF Counts

(* Moving the first n entries of r to the end of q. *)
LEMMA CountsMoved ==
  ASSUME NEW q \in Seq(Nat), NEW r \in Seq(Nat), NEW b \in Nat, NEW n \in Nat, n <= Len(r),
         Counts(q, b), Counts(r, b + Len(q))
  PROVE  /\ q \o SubSeq(r, 1, n) \in Seq(Nat) /\ Len(q \o SubSeq(r, 1, n)) = Len(q) + n
         /\ Counts(q \o SubSeq(r, 1, n), b)
         /\ SubSeq(r, n + 1, Len(r)) \in Seq(Nat) /\ Len(SubSeq(r, n + 1, Len(r))) = Len(r) - n
         /\ Counts(SubSeq(r, n + 1, Len(r)), b + Len(q) + n)
<1> DEFINE p == SubSeq(r, 1, n)
<1>1. /\ p \in Seq(Nat) /\ Len(p) = n /\ \A i \in 1 .. n : p[i] = r[i]
  BY SMTT(30)
<1>2. /\ SubSeq(r, n + 1, Len(r)) \in Seq(Nat) /\ Len(SubSeq(r, n + 1, Len(r))) = Len(r) - n
      /\ Counts(SubSeq(r, n + 1, Len(r)), b + Len(q) + n)
  <2>1. /\ SubSeq(r, n + 1, Len(r)) \in Seq(Nat) /\ Len(SubSeq(r, n + 1, Len(r))) = Len(r) - n
        /\ DOMAIN SubSeq(r, n + 1, Len(r)) = 1 .. Len(r) - n
        /\ \A i \in 1 .. Len(r) - n : SubSeq(r, n + 1, Len(r))[i] = r[n + i]
    BY SMTT(30)
  <2>2. ASSUME NEW i \in 1 .. Len(r) - n
        PROVE  r[n + i] = b + Len(q) + n + i
    <3>1. n + i \in DOMAIN r /\ b + Len(q) + (n + i) = b + Len(q) + n + i
      BY SMTT(30), <2>2
    <3> QED
      BY <3>1 DEF Counts
  <2> QED
    BY <2>1, <2>2 DEF Counts
<1>3. Counts(p, b + Len(q))
  BY SMTT(30), <1>1 DEF Counts
<1>4. b + Len(q) \in Nat /\ Len(q) \in Nat
  BY SMTT(30)
<1> HIDE DEF p
<1>5. q \o p \in Seq(Nat) /\ Len(q \o p) = Len(q) + n /\ Counts(q \o p, b)
  BY <1>1, <1>3, CountsJoined
<1> QED
  BY <1>2, <1>5 DEF p

----------------------------------------------------------------------------
(* Types, in parts; the bounds on the numbers follow from the invariants.  *)

Switches ==
  /\ queued \in [Socks -> BOOLEAN] /\ ready \in [Socks -> BOOLEAN]
  /\ starved \in BOOLEAN /\ dropped \in BOOLEAN /\ reordered \in BOOLEAN

Places == todo \subseteq Socks /\ buffered \in Socks \cup {None}

Posted ==
  /\ events \in Seq(Socks) /\ Len(events) < SelRingSize
  /\ kicks \in Seq(Socks) /\ Len(kicks) <= CmdRoom

SvcTyped == svc \in [pc : SvcPcs, sock : Socks \cup {None}, free : 0 .. RxRingSize - 1, more : BOOLEAN]

AppTyped == app \in [pc : AppPcs, sock : Socks \cup {None}, mbuf : Nat]

Counters == arrived \in [Socks -> 0 .. MaxData] /\ taken \in [Socks -> Nat] /\ got \in [Socks -> Nat]

Rings ==
  /\ rxRing \in [Socks -> Seq(Nat)] /\ cache \in [Socks -> Seq(Nat)]
  /\ \A s \in Socks : Len(rxRing[s]) < RxRingSize /\ Len(cache[s]) < CacheSize

(* Where the two processes can be, and what they then hold. *)

Inside == app.pc \in {"clear", "move", "kick"}
Receiving(s) == app.sock = s /\ app.pc \in {"move", "kick"}

AppPlaced ==
  /\ app.pc \in {"select", "lastcheck", "towait", "wait"} => todo = {}
  /\ IF Inside THEN app.sock \in todo ELSE app.sock = None
  /\ app.pc \notin {"move", "kick"} => app.mbuf = 0
  /\ buffered # None => Receiving(buffered)
  /\ buffered # None /\ app.pc = "kick" => reordered

SvcPlaced == IF svc.pc = "loop" THEN svc.sock = None ELSE svc.sock \in Socks

(* The places user_data_available_cbk counted are still there. *)
RoomInv ==
  /\ svc.more
  /\ svc.pc \in {"receive", "mark", "post"} => svc.free + Len(rxRing[svc.sock]) < RxRingSize
  /\ svc.pc = "submit" => svc.free + Len(rxRing[svc.sock]) + 1 < RxRingSize

(* The number of the last buffer that left the cache, and of the last one  *)
(* that reached the ring.                                                  *)
Hand(s) == IF app.sock = s /\ app.mbuf # 0 THEN got[s] + 1 ELSE got[s]
Done(s) == IF svc.sock = s /\ svc.pc = "submit" THEN taken[s] - 1 ELSE taken[s]

NumberedAt(s) ==
  /\ app.sock = s /\ app.mbuf # 0 => app.mbuf = got[s] + 1
  /\ Counts(cache[s], Hand(s))
  /\ Counts(rxRing[s], Hand(s) + Len(cache[s]))
  /\ Hand(s) + Len(cache[s]) + Len(rxRing[s]) = Done(s)
  /\ taken[s] <= arrived[s]

Numbered == \A s \in Socks : NumberedAt(s)

Inv ==
  /\ Switches /\ Places /\ Posted /\ SvcTyped /\ AppTyped /\ Counters /\ Rings
  /\ AppPlaced /\ SvcPlaced /\ RoomInv /\ Numbered

----------------------------------------------------------------------------
(* What the assignments to the two records do. *)

LEMMA AtFields ==
  ASSUME NEW p, NEW s
  PROVE  At(p, s).pc = p /\ At(p, s).sock = s /\ At(p, s).mbuf = 0
  BY SMTT(30) DEF At

LEMMA LoopingFields ==
  /\ Looping.pc = "loop" /\ Looping.sock = None /\ Looping.free = 0 /\ Looping.more = TRUE
  BY SMTT(30) DEF Looping

LEMMA AppMoves ==
  ASSUME AppTyped, NEW p \in AppPcs, NEW m \in Nat, app' = [app EXCEPT !.pc = p, !.mbuf = m]
  PROVE  AppTyped' /\ app'.pc = p /\ app'.sock = app.sock /\ app'.mbuf = m
  BY DEF AppTyped

LEMMA AppJumps ==
  ASSUME NEW p \in AppPcs, NEW s \in Socks \cup {None}, app' = At(p, s)
  PROVE  AppTyped' /\ app'.pc = p /\ app'.sock = s /\ app'.mbuf = 0
  BY DEF AppTyped, At

LEMMA SvcMoves ==
  ASSUME SvcTyped, NEW p \in SvcPcs
  PROVE  /\ svc' = [svc EXCEPT !.pc = p] =>
              SvcTyped' /\ svc'.pc = p /\ svc'.sock = svc.sock /\ svc'.free = svc.free
              /\ svc'.more = svc.more
         /\ \A s \in Socks : svc' = [svc EXCEPT !.pc = p, !.sock = s] =>
              SvcTyped' /\ svc'.pc = p /\ svc'.sock = s /\ svc'.free = svc.free
              /\ svc'.more = svc.more
         /\ \A f \in 0 .. RxRingSize - 1 : svc' = [svc EXCEPT !.pc = p, !.free = f] =>
              SvcTyped' /\ svc'.pc = p /\ svc'.sock = svc.sock /\ svc'.free = f
              /\ svc'.more = svc.more
         /\ \A b \in BOOLEAN : svc' = [svc EXCEPT !.pc = p, !.more = b] =>
              SvcTyped' /\ svc'.pc = p /\ svc'.sock = svc.sock /\ svc'.free = svc.free
              /\ svc'.more = b
<1>1. svc' = [svc EXCEPT !.pc = p] =>
        SvcTyped' /\ svc'.pc = p /\ svc'.sock = svc.sock /\ svc'.free = svc.free
        /\ svc'.more = svc.more
  BY DEF SvcTyped
<1>2. ASSUME NEW s \in Socks, svc' = [svc EXCEPT !.pc = p, !.sock = s]
      PROVE  SvcTyped' /\ svc'.pc = p /\ svc'.sock = s /\ svc'.free = svc.free
             /\ svc'.more = svc.more
  BY <1>2 DEF SvcTyped
<1>3. ASSUME NEW f \in 0 .. RxRingSize - 1, svc' = [svc EXCEPT !.pc = p, !.free = f]
      PROVE  SvcTyped' /\ svc'.pc = p /\ svc'.sock = svc.sock /\ svc'.free = f
             /\ svc'.more = svc.more
  BY <1>3 DEF SvcTyped
<1>4. ASSUME NEW b \in BOOLEAN, svc' = [svc EXCEPT !.pc = p, !.more = b]
      PROVE  SvcTyped' /\ svc'.pc = p /\ svc'.sock = svc.sock /\ svc'.free = svc.free
             /\ svc'.more = b
  BY <1>4 DEF SvcTyped
<1> QED
  BY <1>1, <1>2, <1>3, <1>4

LEMMA SvcLoops ==
  ASSUME svc' = Looping
  PROVE  SvcTyped' /\ svc'.pc = "loop" /\ svc'.sock = None /\ svc'.free = 0 /\ svc'.more
<1>1. 0 \in 0 .. RxRingSize - 1
  BY SMTT(30), RxAssumption
<1> QED
  BY SMTT(30), <1>1 DEF SvcTyped, Looping, SvcPcs

----------------------------------------------------------------------------
(* The steps that leave most of the path alone. *)

LEMMA SwitchesNext == Switches /\ [Next]_vars => Switches'
<1> SUFFICES ASSUME Switches, [Next]_vars PROVE Switches'
  OBVIOUS
<1>1. queued' \in [Socks -> BOOLEAN]
  BY DEF Switches, Next, Service, App, vars, kernel, appVars, Arrive, ProcessRxReady, ProcessRxKick,
     FreeCount, Receive, Submit, MarkReadable, PostEvent, SelectCheck, PselectBegins,
     PselectExpires,
     NextSocket, ClearReady, StoreDrains, MoveBurst, SendRxKick
<1>2. ready' \in [Socks -> BOOLEAN]
  BY DEF Switches, Next, Service, App, vars, kernel, appVars, Arrive, ProcessRxReady, ProcessRxKick,
     FreeCount, Receive, Submit, MarkReadable, PostEvent, SelectCheck, PselectBegins,
     PselectExpires,
     NextSocket, ClearReady, StoreDrains, MoveBurst, SendRxKick
<1>3. starved' \in BOOLEAN /\ dropped' \in BOOLEAN /\ reordered' \in BOOLEAN
  BY DEF Switches, Next, Service, App, vars, kernel, appVars, Arrive, ProcessRxReady, ProcessRxKick,
     FreeCount, Receive, Submit, MarkReadable, PostEvent, SelectCheck, PselectBegins,
     PselectExpires,
     NextSocket, ClearReady, StoreDrains, MoveBurst, SendRxKick
<1> QED
  BY <1>1, <1>2, <1>3 DEF Switches

LEMMA RangeTyped ==
  ASSUME NEW S, NEW q \in Seq(S)
  PROVE  Range(q) \subseteq S
<1>1. \A i \in DOMAIN q : q[i] \in S
  BY SMTT(30)
<1> QED
  BY <1>1 DEF Range

LEMMA PlacesNext == Inv /\ [Next]_vars => Places'
<1> SUFFICES ASSUME Inv, [Next]_vars PROVE Places'
  OBVIOUS
<1>1. Range(events) \subseteq Socks
  BY RangeTyped DEF Inv, Posted
<1>2. app.pc = "clear" => app.sock \in Socks
  BY DEF Inv, AppPlaced, Inside, Places
<1>3. todo' \subseteq Socks
  BY <1>1 DEF Inv, Places, Next, Service, App, vars, kernel, appVars, Arrive, ProcessRxReady,
     ProcessRxKick,
     FreeCount, Receive, Submit, MarkReadable, PostEvent, SelectCheck, PselectBegins,
     PselectExpires,
     NextSocket, ClearReady, StoreDrains, MoveBurst, SendRxKick
<1>4. buffered' \in Socks \cup {None}
  BY <1>2 DEF Inv, Places, Next, Service, App, vars, kernel, appVars, Arrive, ProcessRxReady,
     ProcessRxKick,
     FreeCount, Receive, Submit, MarkReadable, PostEvent, SelectCheck, PselectBegins,
     PselectExpires,
     NextSocket, ClearReady, StoreDrains, MoveBurst, SendRxKick
<1> QED
  BY <1>3, <1>4 DEF Places

LEMMA PostedNext == Inv /\ [Next]_vars => Posted'
<1> SUFFICES ASSUME Inv, [Next]_vars PROVE Posted'
  OBVIOUS
<1>1. events \in Seq(Socks) /\ Len(events) \in Nat /\ Len(events) < SelRingSize
      /\ SelRingSize \in Nat
      /\ kicks \in Seq(Socks) /\ Len(kicks) \in Nat /\ Len(kicks) <= CmdRoom /\ CmdRoom \in Nat
  BY EmptyFacts, RxAssumption DEF Inv, Posted
<1>2. CASE UNCHANGED <<events, kicks>>
  BY <1>1, <1>2 DEF Posted
<1>3. CASE PostEvent
  <2>1. svc.sock \in Socks /\ kicks' = kicks
    BY SMTT(30), <1>3 DEF Inv, SvcPlaced, PostEvent
  <2>2. CASE Len(events) < SelRingSize - 1
    <3>1. events' = Append(events, svc.sock)
      BY <1>3, <2>2 DEF PostEvent
    <3>2. events' \in Seq(Socks) /\ Len(events') = Len(events) + 1
      BY <3>1, <2>1, <1>1, AppendFacts
    <3>3. Len(events') < SelRingSize
      BY SMTT(30), <3>2, <1>1, <2>2
    <3> QED
      BY <1>1, <2>1, <3>2, <3>3 DEF Posted
  <2>3. CASE ~(Len(events) < SelRingSize - 1)
    BY <1>1, <1>3, <2>1, <2>3 DEF PostEvent, Posted
  <2> QED
    BY <2>2, <2>3
<1>4. CASE SelectCheck
  <2>1. kicks' = kicks /\ (events' = events \/ (events # << >> /\ events' = << >>))
    BY <1>4 DEF SelectCheck
  <2>2. events # << >> => Len(<< >>) < SelRingSize /\ << >> \in Seq(Socks)
    BY SMTT(30), <1>1
  <2> QED
    BY <1>1, <2>1, <2>2 DEF Posted
<1>5. CASE SendRxKick
  <2>1. app.sock \in Socks /\ events' = events
    BY SMTT(30), <1>5 DEF Inv, AppPlaced, Inside, Places, SendRxKick
  <2>2. CASE Len(kicks) < CmdRoom
    <3>1. kicks' = Append(kicks, app.sock)
      BY <1>5, <2>2 DEF SendRxKick
    <3>2. kicks' \in Seq(Socks) /\ Len(kicks') = Len(kicks) + 1
      BY <3>1, <2>1, <1>1, AppendFacts
    <3>3. Len(kicks') <= CmdRoom
      BY SMTT(30), <3>2, <1>1, <2>2
    <3> QED
      BY <1>1, <2>1, <3>2, <3>3 DEF Posted
  <2>3. CASE ~(Len(kicks) < CmdRoom)
    BY <1>1, <1>5, <2>1, <2>3 DEF SendRxKick, Posted
  <2> QED
    BY <2>2, <2>3
<1>6. CASE ProcessRxKick
  <2>1. kicks # << >> /\ kicks' = Tail(kicks) /\ events' = events
    BY <1>6 DEF ProcessRxKick
  <2>2. Tail(kicks) \in Seq(Socks) /\ Len(Tail(kicks)) = Len(kicks) - 1
    BY <1>1, <2>1, TailFacts
  <2>3. Len(Tail(kicks)) <= CmdRoom
    BY SMTT(30), <2>2, <1>1
  <2> QED
    BY <1>1, <2>1, <2>2, <2>3 DEF Posted
<1> QED
  BY <1>2, <1>3, <1>4, <1>5, <1>6 DEF Next, Service, App, vars, appVars, Arrive, ProcessRxReady,
     FreeCount,
     Receive, Submit, MarkReadable, PselectBegins, PselectExpires, NextSocket, ClearReady,
     StoreDrains, MoveBurst

----------------------------------------------------------------------------
(* The burst from the rx ring to the cache. *)

LEMMA LeastOfThree ==
  ASSUME NEW a \in Nat, NEW b \in Nat, NEW c \in Nat
  PROVE  Min({a, b, c}) \in {a, b, c} /\ Min({a, b, c}) <= a /\ Min({a, b, c}) <= b
         /\ Min({a, b, c}) <= c
<1>1. \E x \in {a, b, c} : \A y \in {a, b, c} : x <= y
  <2>1. CASE a <= b /\ a <= c
    BY SMTT(30), <2>1
  <2>2. CASE b <= a /\ b <= c
    BY SMTT(30), <2>2
  <2>3. CASE c <= a /\ c <= b
    BY SMTT(30), <2>3
  <2> QED
    BY SMTT(30), <2>1, <2>2, <2>3
<1> QED
  BY <1>1 DEF Min

(* What the cache holds after n entries came from the ring of s. *)
Filled(s, n) == cache[s] \o SubSeq(rxRing[s], 1, n)

(* It moves as much as the burst, the cache's room and the ring allow. *)
LEMMA MoveBurstEffect ==
  ASSUME Inv, MoveBurst
  PROVE  /\ app.sock \in Socks /\ app.sock \in todo /\ app.pc = "move"
         /\ \E n \in Nat :
              /\ n <= Len(rxRing[app.sock]) /\ n + Len(cache[app.sock]) < CacheSize
              /\ n \in {Burst, CacheSize - 1 - Len(cache[app.sock]), Len(rxRing[app.sock])}
              /\ n > 0 => buffered = None
              /\ rxRing' = [rxRing EXCEPT ![app.sock] = SubSeq(@, n + 1, Len(@))]
              /\ app' = [app EXCEPT !.pc = "kick",
                                    !.mbuf = IF @ # 0 THEN @ ELSE Popped(Filled(app.sock, n))]
              /\ cache' = [cache EXCEPT ![app.sock] = IF app.mbuf # 0 THEN Filled(app.sock, n)
                                                      ELSE Rest(Filled(app.sock, n))]
<1>1. app.pc = "move"
  BY DEF MoveBurst
<1>2. app.sock \in todo
  BY <1>1 DEF Inv, AppPlaced, Inside
<1>3. app.sock \in Socks
  BY <1>2 DEF Inv, Places
<1> DEFINE n == Min({Burst, CacheSize - 1 - Len(cache[app.sock]), Len(rxRing[app.sock])})
<1>4. /\ n > 0 => buffered = None
      /\ rxRing' = [rxRing EXCEPT ![app.sock] = SubSeq(@, n + 1, Len(@))]
      /\ app' = [app EXCEPT !.pc = "kick", !.mbuf = IF @ # 0 THEN @ ELSE Popped(Filled(app.sock, n))]
      /\ cache' = [cache EXCEPT ![app.sock] = IF app.mbuf # 0 THEN Filled(app.sock, n)
                                              ELSE Rest(Filled(app.sock, n))]
  BY DEF MoveBurst, Filled
<1>5. cache[app.sock] \in Seq(Nat) /\ rxRing[app.sock] \in Seq(Nat)
      /\ Len(cache[app.sock]) < CacheSize
  BY <1>3 DEF Inv, Rings
<1>6. /\ Burst \in Nat /\ CacheSize \in Nat /\ CacheSize - 1 - Len(cache[app.sock]) \in Nat
      /\ Len(rxRing[app.sock]) \in Nat /\ Len(cache[app.sock]) \in Nat
  BY SMTT(30), <1>5, RxAssumption
<1>7. /\ n \in {Burst, CacheSize - 1 - Len(cache[app.sock]), Len(rxRing[app.sock])}
      /\ n <= Len(rxRing[app.sock]) /\ n <= CacheSize - 1 - Len(cache[app.sock])
  BY <1>6, LeastOfThree
<1> HIDE DEF n
<1>8. n \in Nat /\ n + Len(cache[app.sock]) < CacheSize
  BY SMTT(30), <1>6, <1>7
<1> QED
  BY <1>1, <1>2, <1>3, <1>4, <1>7, <1>8

LEMMA PoppedTyped ==
  ASSUME NEW q \in Seq(Nat)
  PROVE  Popped(q) \in Nat /\ Rest(q) \in Seq(Nat) /\ Len(Rest(q)) \in Nat /\ Len(Rest(q)) <= Len(q)
<1>1. CASE q = << >>
  BY SMTT(30), <1>1 DEF Popped, Rest
<1>2. CASE q # << >>
  <2>1. Head(q) \in Nat /\ Tail(q) \in Seq(Nat) /\ Len(q) \in Nat /\ Len(Tail(q)) = Len(q) - 1
        /\ Len(q) # 0
    BY <1>2, TailFacts
  <2>2. Popped(q) = Head(q) /\ Rest(q) = Tail(q)
    BY <1>2 DEF Popped, Rest
  <2> QED
    BY SMTT(30), <2>1, <2>2
<1> QED
  BY <1>1, <1>2

LEMMA FilledFacts ==
  ASSUME Inv, NEW s \in Socks, NEW n \in Nat, n <= Len(rxRing[s])
  PROVE  /\ Filled(s, n) \in Seq(Nat) /\ Len(Filled(s, n)) = Len(cache[s]) + n
         /\ Counts(Filled(s, n), Hand(s))
         /\ SubSeq(rxRing[s], n + 1, Len(rxRing[s])) \in Seq(Nat)
         /\ Len(SubSeq(rxRing[s], n + 1, Len(rxRing[s]))) = Len(rxRing[s]) - n
         /\ Counts(SubSeq(rxRing[s], n + 1, Len(rxRing[s])), Hand(s) + Len(cache[s]) + n)
         /\ Hand(s) \in Nat
<1>1. cache[s] \in Seq(Nat) /\ rxRing[s] \in Seq(Nat)
  BY DEF Inv, Rings
<1>2. Hand(s) \in Nat
  BY SMTT(30) DEF Inv, Counters, Hand
<1>3. Counts(cache[s], Hand(s)) /\ Counts(rxRing[s], Hand(s) + Len(cache[s]))
  BY DEF Inv, Numbered, NumberedAt
<1> DEFINE q == cache[s]  r == rxRing[s]  b == Hand(s)
<1>4. q \in Seq(Nat) /\ r \in Seq(Nat) /\ b \in Nat /\ n <= Len(r) /\ Counts(q, b)
      /\ Counts(r, b + Len(q))
  BY <1>1, <1>2, <1>3
<1> HIDE DEF q, r, b
<1>5. /\ q \o SubSeq(r, 1, n) \in Seq(Nat) /\ Len(q \o SubSeq(r, 1, n)) = Len(q) + n
      /\ Counts(q \o SubSeq(r, 1, n), b)
      /\ SubSeq(r, n + 1, Len(r)) \in Seq(Nat) /\ Len(SubSeq(r, n + 1, Len(r))) = Len(r) - n
      /\ Counts(SubSeq(r, n + 1, Len(r)), b + Len(q) + n)
  BY <1>4, CountsMoved
<1> QED
  BY <1>2, <1>5 DEF Filled, q, r, b

LEMMA PcNames ==
  /\ \A p \in {"select", "lastcheck", "towait", "wait", "next", "clear", "move", "kick"} : p \in AppPcs
  /\ \A p \in {"loop", "free", "receive", "submit", "mark", "post", "lastmark", "lastpost"} : p \in SvcPcs
  BY DEF AppPcs, SvcPcs

(* A call of service_select ends or begins, or a socket is taken up. *)
LEMMA AppJumped ==
  ASSUME Inv, Places', NEW p \in AppPcs, NEW s \in Socks \cup {None}, app' = At(p, s),
         buffered = None,
         buffered' = None, p \notin {"move", "kick"},
         IF p = "clear" THEN s \in todo' ELSE s = None,
         p \in {"select", "lastcheck", "towait", "wait"} => todo' = {}
  PROVE  AppTyped' /\ AppPlaced'
<1>1. AppTyped' /\ app'.pc = p /\ app'.sock = s /\ app'.mbuf = 0
  BY AppJumps
<1>2. Inside' <=> p = "clear"
  BY SMTT(30), <1>1 DEF Inside
<1> QED
  BY <1>1, <1>2 DEF AppPlaced

LEMMA AppNext == Inv /\ [Next]_vars => AppTyped' /\ AppPlaced'
<1> SUFFICES ASSUME Inv, [Next]_vars PROVE AppTyped' /\ AppPlaced'
  OBVIOUS
<1>1. Places'
  BY PlacesNext
<1>2. CASE UNCHANGED <<app, todo, buffered, reordered>>
  BY <1>2 DEF Inv, AppTyped, AppPlaced, Inside, Receiving
<1>3. ASSUME app' = Woken, UNCHANGED <<todo, buffered, reordered>>
      PROVE  AppTyped' /\ AppPlaced'
  <2>1. CASE app.pc # "wait"
    BY <1>2, <1>3, <2>1 DEF Woken
  <2>2. CASE app.pc = "wait"
    <3>1. todo = {} /\ buffered = None
      BY SMTT(30), <2>2 DEF Inv, AppPlaced, Receiving
    <3>2. app' = At("lastcheck", None) \/ app' = At("select", None)
      BY <1>3, <2>2 DEF Woken
    <3> QED
      BY <1>1, <1>3, <3>1, <3>2, AppJumped, PcNames
  <2> QED
    BY <2>1, <2>2
<1>4. CASE MarkReadable
  BY <1>2, <1>3, <1>4 DEF MarkReadable
<1>5. CASE PostEvent
  BY <1>3, <1>5 DEF PostEvent
<1>6. CASE SelectCheck
  <2>1. todo = {} /\ buffered = None /\ buffered' = None
    BY SMTT(30), <1>6 DEF Inv, AppPlaced, Receiving, SelectCheck
  <2>2. \/ app' = At("towait", None) /\ todo' = {}
        \/ app' = At("select", None) /\ todo' = {}
        \/ app' = At("next", None)
    BY <1>6, <2>1 DEF SelectCheck
  <2> QED
    BY <1>1, <2>1, <2>2, AppJumped, PcNames
<1>7. CASE PselectBegins \/ PselectExpires
  <2>1. todo = {} /\ todo' = {} /\ buffered = None /\ buffered' = None
    BY SMTT(30), <1>7 DEF Inv, AppPlaced, Receiving, PselectBegins, PselectExpires
  <2>2. app' = At("wait", None) \/ app' = At("lastcheck", None)
    BY <1>7 DEF PselectBegins, PselectExpires
  <2> QED
    BY <1>1, <2>1, <2>2, AppJumped, PcNames
<1>8. CASE NextSocket
  <2>1. buffered = None /\ buffered' = None /\ todo' = todo /\ todo \subseteq Socks
    BY SMTT(30), <1>8 DEF Inv, AppPlaced, Receiving, Places, NextSocket
  <2>2. (todo = {} /\ app' = At("select", None)) \/ \E s \in todo : app' = At("clear", s)
    BY <1>8 DEF NextSocket
  <2>3. CASE todo = {} /\ app' = At("select", None)
    BY <1>1, <2>1, <2>3, AppJumped, PcNames
  <2>4. ASSUME NEW s \in todo, app' = At("clear", s)
        PROVE  AppTyped' /\ AppPlaced'
    <3>1. s \in Socks \cup {None} /\ s \in todo'
      BY <2>1
    <3> QED
      BY <1>1, <2>1, <2>4, <3>1, AppJumped, PcNames
  <2> QED
    BY <2>2, <2>3, <2>4
<1>9. CASE ClearReady
  <2>1. app.sock \in todo /\ app.sock \in Socks /\ buffered' = app.sock /\ todo' = todo
        /\ reordered' = reordered
    BY SMTT(30), <1>9 DEF Inv, AppPlaced, Inside, Places, ClearReady
  <2>2. Popped(cache[app.sock]) \in Nat
    <3>1. cache[app.sock] \in Seq(Nat)
      BY <2>1 DEF Inv, Rings
    <3> QED
      BY SMTT(30), <3>1, TailFacts DEF Popped
  <2>3. AppTyped' /\ app'.pc = "move" /\ app'.sock = app.sock
    BY <1>9, <2>2, AppMoves, PcNames DEF Inv, ClearReady
  <2> QED
    BY SMTT(30), <2>1, <2>3 DEF AppPlaced, Inside, Receiving
<1>10. CASE StoreDrains
  BY <1>10 DEF StoreDrains, appVars, Inv, AppTyped, AppPlaced, Inside, Receiving
<1>11. CASE MoveBurst
  <2>1. app.sock \in todo /\ app.sock \in Socks /\ buffered' = buffered /\ todo' = todo
        /\ app.pc = "move"
        /\ reordered' = (reordered \/ buffered # None) /\ (buffered # None => buffered = app.sock)
    BY SMTT(30), <1>11 DEF Inv, AppPlaced, Inside, Places, MoveBurst, Receiving
  <2>2. app'.pc = "kick" /\ app'.sock = app.sock /\ AppTyped'
    <3>1. PICK n \in Nat :
            /\ n <= Len(rxRing[app.sock])
            /\ app' = [app EXCEPT !.pc = "kick", !.mbuf = IF @ # 0 THEN @ ELSE Popped(Filled(app.sock, n))]
      BY <1>11, MoveBurstEffect
    <3>2. Popped(Filled(app.sock, n)) \in Nat
      BY <2>1, <3>1, FilledFacts, PoppedTyped
    <3>3. app.mbuf \in Nat
      BY DEF Inv, AppTyped
    <3>4. (IF app.mbuf # 0 THEN app.mbuf ELSE Popped(Filled(app.sock, n))) \in Nat
      BY <3>2, <3>3
    <3> QED
      BY <3>1, <3>4, AppMoves, PcNames DEF Inv
  <2>3. Inside' /\ app'.pc \notin {"select", "lastcheck", "towait", "wait"}
    BY SMTT(30), <2>2 DEF Inside
  <2> QED
    BY <2>1, <2>2, <2>3 DEF AppPlaced, Receiving
<1>12. CASE SendRxKick
  <2>1. app.sock \in todo /\ app.sock \in Socks /\ buffered = None /\ buffered' = None
    BY SMTT(30), <1>12 DEF Inv, AppPlaced, Inside, Places, SendRxKick
  <2>2. app' = At("next", None) \/ (app' = At("clear", app.sock) /\ todo' = todo)
    <3>1. /\ app' = IF app.mbuf = 0 THEN At("next", None) ELSE At("clear", app.sock)
          /\ todo' = IF app.mbuf = 0 THEN todo \ {app.sock} ELSE todo
      BY <1>12 DEF SendRxKick
    <3> QED
      BY <3>1
  <2> QED
    BY <1>1, <2>1, <2>2, AppJumped, PcNames
<1> QED
  BY <1>2, <1>4, <1>5, <1>6, <1>7, <1>8, <1>9, <1>10, <1>11, <1>12 DEF Next, Service, App, vars,
     appVars, Arrive,
     ProcessRxReady, ProcessRxKick, FreeCount, Receive, Submit

----------------------------------------------------------------------------
(* The service's steps, and the room on the rx ring. *)

LEMMA RingLens ==
  ASSUME Inv
  PROVE  /\ RxRingSize \in Nat \ {0} /\ CacheSize \in Nat
         /\ \A s \in Socks : /\ rxRing[s] \in Seq(Nat) /\ Len(rxRing[s]) \in Nat /\ Len(rxRing[s]) < RxRingSize
                             /\ cache[s] \in Seq(Nat) /\ Len(cache[s]) \in Nat
                             /\ Len(cache[s]) < CacheSize
<1>1. \A s \in Socks : /\ rxRing[s] \in Seq(Nat) /\ Len(rxRing[s]) < RxRingSize
                       /\ cache[s] \in Seq(Nat) /\ Len(cache[s]) < CacheSize
  BY DEF Inv, Rings
<1> QED
  BY <1>1, EmptyFacts, RxAssumption

(* service_mark_readable ends. *)
LEMMA MarkedKeeps ==
  ASSUME Inv, svc.pc \in {"mark", "post", "lastmark", "lastpost"}, svc' = Marked, UNCHANGED rxRing
  PROVE  SvcTyped' /\ SvcPlaced' /\ RoomInv'
<1>1. CASE svc.pc \in {"mark", "post"}
  <2>1. svc' = [svc EXCEPT !.pc = "receive"]
    BY <1>1 DEF Marked
  <2>2. SvcTyped' /\ svc'.pc = "receive" /\ svc'.sock = svc.sock /\ svc'.free = svc.free
        /\ svc'.more = svc.more
    BY <2>1, SvcMoves, PcNames DEF Inv
  <2>3. svc.sock \in Socks
    BY SMTT(30), <1>1 DEF Inv, SvcPlaced
  <2> QED
    BY SMTT(30), <1>1, <2>2, <2>3 DEF Inv, SvcPlaced, RoomInv
<1>2. CASE svc.pc \notin {"mark", "post"}
  <2>1. svc' = Looping
    BY <1>2 DEF Marked
  <2> QED
    BY SMTT(30), <2>1, SvcLoops DEF SvcPlaced, RoomInv
<1> QED
  BY <1>1, <1>2

LEMMA SvcNext == Inv /\ [Next]_vars => SvcTyped' /\ SvcPlaced' /\ RoomInv'
<1> SUFFICES ASSUME Inv, [Next]_vars PROVE SvcTyped' /\ SvcPlaced' /\ RoomInv'
  OBVIOUS
<1>1. CASE UNCHANGED <<svc, rxRing>>
  BY <1>1 DEF Inv, SvcTyped, SvcPlaced, RoomInv
<1>2. ASSUME NEW s \in Socks, svc' = [svc EXCEPT !.pc = "free", !.sock = s]
      PROVE  SvcTyped' /\ SvcPlaced' /\ RoomInv'
  <2>1. SvcTyped' /\ svc'.pc = "free" /\ svc'.sock = s /\ svc'.more = svc.more
    BY <1>2, SvcMoves, PcNames DEF Inv
  <2> QED
    BY SMTT(30), <2>1 DEF Inv, SvcPlaced, RoomInv
<1>3. ASSUME NEW s \in Socks, ProcessRxReady(s)
      PROVE  SvcTyped' /\ SvcPlaced' /\ RoomInv'
  BY <1>2, <1>3 DEF ProcessRxReady
<1>4. CASE ProcessRxKick
  <2>1. Head(kicks) \in Socks
    BY <1>4, TailFacts DEF ProcessRxKick, Inv, Posted
  <2> QED
    BY <1>2, <1>4, <2>1 DEF ProcessRxKick
<1>5. CASE FreeCount
  <2> DEFINE f == RxRingSize - 1 - Len(rxRing[svc.sock])
  <2>1. svc.sock \in Socks
    BY SMTT(30), <1>5 DEF Inv, SvcPlaced, FreeCount
  <2>2. f \in 0 .. RxRingSize - 1 /\ f + Len(rxRing[svc.sock]) < RxRingSize
    BY SMTT(30), <2>1, RingLens
  <2>3. svc' = [svc EXCEPT !.pc = "receive", !.free = f] /\ rxRing' = rxRing
    BY <1>5 DEF FreeCount
  <2> HIDE DEF f
  <2>4. SvcTyped' /\ svc'.pc = "receive" /\ svc'.sock = svc.sock /\ svc'.free = f
        /\ svc'.more = svc.more
    BY <2>2, <2>3, SvcMoves, PcNames DEF Inv
  <2>5. f + Len(rxRing[svc.sock]) < RxRingSize
    BY <2>2
  <2> QED
    BY SMTT(30), <2>1, <2>3, <2>4, <2>5 DEF Inv, SvcPlaced, RoomInv
<1>6. CASE Receive
  <2>1. svc.pc = "receive" /\ svc.sock \in Socks /\ rxRing' = rxRing
    BY SMTT(30), <1>6 DEF Inv, SvcPlaced, Receive
  <2>2. CASE svc.free > 0 /\ svc' = [svc EXCEPT !.pc = "submit", !.free = svc.free - 1]
    <3>1. svc.free \in 0 .. RxRingSize - 1
      BY DEF Inv, SvcTyped
    <3>2. svc.free - 1 \in 0 .. RxRingSize - 1
      BY SMTT(30), <3>1, <2>2, RxAssumption
    <3>3. SvcTyped' /\ svc'.pc = "submit" /\ svc'.sock = svc.sock /\ svc'.free = svc.free - 1
          /\ svc'.more = svc.more
      BY <3>2, <2>2, SvcMoves, PcNames DEF Inv
    <3>4. svc.free + Len(rxRing[svc.sock]) < RxRingSize /\ svc.more
      BY <2>1 DEF Inv, RoomInv
    <3>5. svc'.free + Len(rxRing[svc.sock]) + 1 < RxRingSize
      BY SMTT(30), <3>1, <3>3, <3>4, <2>1, RingLens
    <3> QED
      BY SMTT(30), <2>1, <3>3, <3>4, <3>5 DEF SvcPlaced, RoomInv
  <2>3. CASE svc' = [svc EXCEPT !.pc = "lastmark"]
    <3>1. SvcTyped' /\ svc'.pc = "lastmark" /\ svc'.sock = svc.sock /\ svc'.more = svc.more
      BY <2>3, SvcMoves, PcNames DEF Inv
    <3> QED
      BY SMTT(30), <2>1, <3>1 DEF Inv, SvcPlaced, RoomInv
  <2>4. CASE svc' = Looping
    BY SMTT(30), <2>4, SvcLoops DEF SvcPlaced, RoomInv
  <2> QED
    BY <1>6, <2>2, <2>3, <2>4 DEF Receive
<1>7. CASE Submit
  <2>1. svc.pc = "submit" /\ svc.sock \in Socks
    BY SMTT(30), <1>7 DEF Inv, SvcPlaced, Submit
  <2>2. svc.free + Len(rxRing[svc.sock]) + 1 < RxRingSize /\ svc.free \in 0 .. RxRingSize - 1
    BY <2>1 DEF Inv, RoomInv, SvcTyped
  <2>3. Len(rxRing[svc.sock]) < RxRingSize - 1
    BY SMTT(30), <2>1, <2>2, RingLens
  <2>4. /\ rxRing' = [rxRing EXCEPT ![svc.sock] = Append(@, taken[svc.sock])]
        /\ svc' = [svc EXCEPT !.pc = "mark", !.more = TRUE]
    BY <1>7, <2>3 DEF Submit
  <2>5. SvcTyped' /\ svc'.pc = "mark" /\ svc'.sock = svc.sock /\ svc'.free = svc.free
        /\ svc'.more = TRUE
    BY <2>4, SvcMoves, PcNames DEF Inv
  <2>6. rxRing'[svc.sock] = Append(rxRing[svc.sock], taken[svc.sock])
    BY <2>1, <2>4 DEF Inv, Rings
  <2>7. Len(rxRing'[svc.sock]) = Len(rxRing[svc.sock]) + 1
    <3>1. taken[svc.sock] \in Nat /\ rxRing[svc.sock] \in Seq(Nat)
      BY <2>1 DEF Inv, Counters, Rings
    <3>2. Len(Append(rxRing[svc.sock], taken[svc.sock])) = Len(rxRing[svc.sock]) + 1
      BY <3>1, AppendFacts
    <3> QED
      BY <2>6, <3>2
  <2>8. svc'.free + Len(rxRing'[svc.sock]) < RxRingSize
    BY SMTT(30), <2>1, <2>2, <2>5, <2>7, RingLens
  <2> QED
    BY SMTT(30), <2>1, <2>5, <2>8 DEF SvcPlaced, RoomInv
<1>8. CASE MarkReadable
  <2>1. svc.pc \in {"mark", "lastmark"} /\ svc.sock \in Socks /\ rxRing' = rxRing
    BY SMTT(30), <1>8 DEF Inv, SvcPlaced, MarkReadable
  <2>2. CASE svc' = Marked
    BY SMTT(30), <2>1, <2>2, MarkedKeeps
  <2>3. CASE svc' = [svc EXCEPT !.pc = IF svc.pc = "mark" THEN "post" ELSE "lastpost"]
    <3>1. CASE svc.pc = "mark"
      <4>1. SvcTyped' /\ svc'.pc = "post" /\ svc'.sock = svc.sock /\ svc'.free = svc.free
            /\ svc'.more = svc.more
        BY <2>3, <3>1, SvcMoves, PcNames DEF Inv
      <4> QED
        BY SMTT(30), <2>1, <3>1, <4>1 DEF Inv, SvcPlaced, RoomInv
    <3>2. CASE svc.pc # "mark"
      <4>1. SvcTyped' /\ svc'.pc = "lastpost" /\ svc'.sock = svc.sock /\ svc'.free = svc.free
            /\ svc'.more = svc.more
        BY <2>3, <3>2, SvcMoves, PcNames DEF Inv
      <4> QED
        BY SMTT(30), <2>1, <4>1 DEF Inv, SvcPlaced, RoomInv
    <3> QED
      BY <3>1, <3>2
  <2> QED
    BY <1>8, <2>2, <2>3 DEF MarkReadable
<1>9. CASE PostEvent
  BY <1>9, MarkedKeeps DEF PostEvent
<1>10. CASE MoveBurst
  <2>1. svc' = svc /\ app.sock \in Socks
    BY <1>10, MoveBurstEffect DEF MoveBurst
  <2>2. PICK n \in Nat : n <= Len(rxRing[app.sock]) /\ rxRing' = [rxRing EXCEPT ![app.sock] = SubSeq(@, n + 1, Len(@))]
    BY <1>10, MoveBurstEffect
  <2>3. \A s \in Socks : Len(rxRing'[s]) \in Nat /\ Len(rxRing'[s]) <= Len(rxRing[s])
    <3>1. SUFFICES ASSUME NEW s \in Socks PROVE Len(rxRing'[s]) \in Nat /\ Len(rxRing'[s]) <= Len(rxRing[s])
      OBVIOUS
    <3>2. CASE s = app.sock
      <4>1. rxRing'[s] = SubSeq(rxRing[s], n + 1, Len(rxRing[s]))
        BY <2>2, <3>2 DEF Inv, Rings
      <4>2. n <= Len(rxRing[s])
        BY <2>2, <3>2
      <4>3. Len(SubSeq(rxRing[s], n + 1, Len(rxRing[s]))) = Len(rxRing[s]) - n
        BY <4>2, FilledFacts
      <4>4. Len(rxRing'[s]) = Len(rxRing[s]) - n
        BY <4>1, <4>3
      <4> QED
        BY SMTT(30), <4>2, <4>4, RingLens
    <3>3. CASE s # app.sock
      <4>1. rxRing'[s] = rxRing[s]
        BY <2>2, <3>3 DEF Inv, Rings
      <4> QED
        BY SMTT(30), <4>1, RingLens
    <3> QED
      BY <3>2, <3>3
  <2>4. SvcTyped' /\ SvcPlaced'
    BY <2>1 DEF Inv, SvcTyped, SvcPlaced
  <2>5. svc.free \in Nat /\ RxRingSize \in Nat
    BY SMTT(30), RxAssumption DEF Inv, SvcTyped
  <2>6. svc.pc # "loop" => svc.sock \in Socks
    BY DEF Inv, SvcPlaced
  <2> QED
    BY SMTT(30), <2>1, <2>3, <2>4, <2>5, <2>6, RingLens DEF Inv, RoomInv
<1> QED
  BY <1>1, <1>3, <1>4, <1>5, <1>6, <1>7, <1>8, <1>9, <1>10 DEF Next, Service, App, vars, appVars,
     Arrive, SelectCheck,
     PselectBegins, PselectExpires, NextSocket, ClearReady, StoreDrains, SendRxKick

----------------------------------------------------------------------------
(* The numbers of the buffers on their way. *)

(* Nothing on the way of s is touched. *)
LEMMA NumberedFrame ==
  ASSUME NEW s \in Socks, NumberedAt(s), taken'[s] = taken[s], got'[s] = got[s],
         cache'[s] = cache[s],
         rxRing'[s] = rxRing[s], arrived'[s] >= arrived[s], arrived[s] \in Nat,
         arrived'[s] \in Nat, taken[s] \in Nat,
         \/ app'.sock = app.sock /\ app'.mbuf = app.mbuf
         \/ (app.mbuf = 0 \/ app.sock # s) /\ (app'.mbuf = 0 \/ app'.sock # s),
         \/ svc'.sock = svc.sock /\ svc'.pc = svc.pc
         \/ (svc.pc # "submit" \/ svc.sock # s) /\ (svc'.pc # "submit" \/ svc'.sock # s)
  PROVE  NumberedAt(s)'
<1>1. Hand(s)' = Hand(s)
  BY DEF Hand
<1>2. Done(s)' = Done(s)
  BY DEF Done
<1>3. taken'[s] <= arrived'[s]
  BY SMTT(30) DEF NumberedAt
<1>4. app'.sock = s /\ app'.mbuf # 0 => app'.mbuf = got'[s] + 1
  BY DEF NumberedAt
<1> QED
  BY <1>1, <1>2, <1>3, <1>4 DEF NumberedAt, Counts

LEMMA Numbers ==
  ASSUME Inv
  PROVE  \A s \in Socks : /\ arrived[s] \in Nat /\ arrived[s] <= MaxData /\ taken[s] \in Nat /\ got[s] \in Nat
                          /\ Hand(s) \in Nat /\ NumberedAt(s)
<1>1. \A s \in Socks : arrived[s] \in 0 .. MaxData /\ taken[s] \in Nat /\ got[s] \in Nat /\ NumberedAt(s)
  BY DEF Inv, Counters, Numbered
<1>2. \A s \in Socks : Hand(s) \in Nat
  BY SMTT(30), <1>1 DEF Hand
<1>3. \A x \in 0 .. MaxData : x \in Nat /\ x <= MaxData
  BY SMTT(30), RxAssumption
<1> QED
  BY <1>1, <1>2, <1>3

LEMMA StreamQuiet ==
  ASSUME Inv, UNCHANGED <<arrived, taken, got, cache, rxRing>>,
         app' = app \/ (app.mbuf = 0 /\ app'.mbuf = 0),
         svc' = svc \/ (svc.pc # "submit" /\ svc'.pc # "submit")
  PROVE  Counters' /\ Rings' /\ Numbered'
<1>1. Counters' /\ Rings'
  BY DEF Inv, Counters, Rings
<1>2. ASSUME NEW s \in Socks PROVE NumberedAt(s)'
  <2>1. arrived'[s] >= arrived[s] /\ arrived'[s] \in Nat
    BY SMTT(30), Numbers
  <2> QED
    BY <2>1, NumberedFrame, Numbers
<1> QED
  BY <1>1, <1>2 DEF Numbered

LEMMA StreamArrive ==
  ASSUME Inv, NEW t \in Socks, Arrive(t)
  PROVE  Counters' /\ Rings' /\ Numbered'
<1>1. /\ UNCHANGED <<taken, got, cache, rxRing, app, svc>> /\ arrived[t] < MaxData
      /\ arrived' = [arrived EXCEPT ![t] = arrived[t] + 1]
  BY DEF Arrive, appVars
<1>2. arrived[t] + 1 \in 0 .. MaxData
  BY SMTT(30), <1>1, Numbers, RxAssumption
<1>3. Counters' /\ Rings'
  BY <1>1, <1>2 DEF Inv, Counters, Rings
<1>4. ASSUME NEW s \in Socks PROVE NumberedAt(s)'
  <2>1. arrived'[s] = arrived[s] \/ arrived'[s] = arrived[s] + 1
    BY <1>1 DEF Inv, Counters
  <2>2. arrived'[s] >= arrived[s] /\ arrived'[s] \in Nat
    BY SMTT(30), <2>1, Numbers
  <2> QED
    BY <1>1, <2>2, NumberedFrame, Numbers
<1> QED
  BY <1>3, <1>4 DEF Numbered

(* soreceive returns the next buffer. *)
LEMMA StreamReceive ==
  ASSUME Inv, svc.pc = "receive", UNCHANGED <<arrived, got, cache, rxRing, app>>,
         taken[svc.sock] < arrived[svc.sock],
         taken' = [taken EXCEPT ![svc.sock] = @ + 1],
         svc'.pc = "submit", svc'.sock = svc.sock
  PROVE  Counters' /\ Rings' /\ Numbered'
<1>1. PICK t \in Socks : t = svc.sock
  BY SMTT(30) DEF Inv, SvcPlaced
<1>2. taken[t] + 1 \in Nat /\ taken \in [Socks -> Nat]
  BY SMTT(30), <1>1, Numbers DEF Inv, Counters
<1>3. taken' \in [Socks -> Nat] /\ taken'[t] = taken[t] + 1
      /\ \A s \in Socks : s # t => taken'[s] = taken[s]
  BY <1>1, <1>2
<1>4. Counters' /\ Rings'
  BY <1>1, <1>3 DEF Inv, Counters, Rings
<1>5. ASSUME NEW s \in Socks PROVE NumberedAt(s)'
  <2>1. CASE s = t
    <3>0. svc'.sock = t /\ svc'.pc = "submit" /\ svc.pc # "submit"
      BY <1>1
    <3>1. Done(t)' = taken'[t] - 1 /\ Done(t) = taken[t]
      BY <3>0 DEF Done
    <3>2. Done(t)' = Done(t) /\ taken'[t] <= arrived'[t]
      BY SMTT(30), <3>1, <1>1, <1>3, Numbers
    <3>3. Hand(t)' = Hand(t)
      BY DEF Hand
    <3>4. NumberedAt(t)
      BY <1>1, Numbers
    <3> QED
      BY <2>1, <3>2, <3>3, <3>4 DEF NumberedAt, Counts
  <2>2. CASE s # t
    <3>1. arrived'[s] >= arrived[s]
      BY SMTT(30), Numbers
    <3> QED
      BY <1>1, <1>3, <2>2, <3>1, NumberedFrame, Numbers
  <2> QED
    BY <2>1, <2>2
<1> QED
  BY <1>4, <1>5 DEF Numbered

LEMMA NumberedIntro ==
  ASSUME NEW s, NEW h, NEW c, NEW r, cache'[s] = c, rxRing'[s] = r, Hand(s)' = h, Counts(c, h),
         Counts(r, h + Len(c)),
         h + Len(c) + Len(r) = Done(s)', taken'[s] <= arrived'[s],
         app'.sock = s /\ app'.mbuf # 0 => app'.mbuf = got'[s] + 1
  PROVE  NumberedAt(s)'
  BY DEF NumberedAt, Counts

(* service_submit_rx_buf puts it on the ring. *)
LEMMA StreamSubmit ==
  ASSUME Inv, Submit, SvcPlaced', SvcTyped', RoomInv'
  PROVE  Counters' /\ Rings' /\ Numbered'
<1>0. PICK t \in Socks : t = svc.sock
  BY SMTT(30) DEF Inv, SvcPlaced, Submit
<1>1. svc.pc = "submit" /\ t = svc.sock /\ UNCHANGED <<arrived, taken, got, cache, app>>
  BY <1>0 DEF Submit, kernel, appVars
<1>2. svc.free + Len(rxRing[t]) + 1 < RxRingSize /\ svc.free \in 0 .. RxRingSize - 1
  BY <1>1 DEF Inv, RoomInv, SvcTyped
<1>3. Len(rxRing[t]) < RxRingSize - 1
  BY SMTT(30), <1>1, <1>2, RingLens
<1>4. /\ rxRing' = [rxRing EXCEPT ![t] = Append(@, taken[t])]
      /\ svc' = [svc EXCEPT !.pc = "mark", !.more = TRUE]
  BY <1>1, <1>3 DEF Submit
<1>5. svc'.pc = "mark" /\ svc'.sock = t
  BY <1>1, <1>4, SvcMoves, PcNames DEF Inv
<1>6. rxRing[t] \in Seq(Nat) /\ taken[t] \in Nat /\ Len(rxRing[t]) \in Nat
      /\ rxRing \in [Socks -> Seq(Nat)]
  BY <1>1, RingLens, Numbers DEF Inv, Rings
<1> DEFINE r == Append(rxRing[t], taken[t])
<1>7. r \in Seq(Nat) /\ Len(r) = Len(rxRing[t]) + 1
  BY <1>6, AppendFacts
<1>8. Len(r) < RxRingSize
  BY SMTT(30), <1>3, <1>6, <1>7, RxAssumption
<1>9. rxRing' \in [Socks -> Seq(Nat)] /\ rxRing'[t] = r
      /\ \A s \in Socks : s # t => rxRing'[s] = rxRing[s]
  BY <1>1, <1>4, <1>6, <1>7
<1>10. Counters'
  BY <1>1 DEF Inv, Counters
<1>11. Rings'
  BY <1>1, <1>8, <1>9 DEF Inv, Rings
<1>12. NumberedAt(t)'
  <2>1. NumberedAt(t) /\ Hand(t) \in Nat /\ cache[t] \in Seq(Nat) /\ Len(cache[t]) \in Nat
    BY <1>1, Numbers, RingLens
  <2>2. Done(t) = taken[t] - 1 /\ Done(t)' = taken[t] /\ Hand(t)' = Hand(t)
    BY SMTT(30), <1>1, <1>5 DEF Done, Hand
  <2>3. Hand(t) + Len(cache[t]) + Len(rxRing[t]) = taken[t] - 1
    BY <2>1, <2>2 DEF NumberedAt
  <2> DEFINE b == Hand(t) + Len(cache[t])
  <2> DEFINE c == Len(cache[t])  l == Len(rxRing[t])  k == taken[t]  h == Hand(t)
  <2>4. h \in Nat /\ c \in Nat /\ l \in Nat /\ k \in Nat /\ h + c + l = k - 1 /\ Len(r) = l + 1
    BY <1>6, <1>7, <2>1, <2>3
  <2> HIDE DEF c, l, k, h, r
  <2>5. h + c \in Nat /\ k = h + c + l + 1 /\ h + c + Len(r) = k
    BY SMTT(30), <2>4
  <2> USE DEF c, l, k, h
  <2>6. Counts(r, b)
    <3>1. Counts(rxRing[t], b)
      BY <2>1 DEF NumberedAt
    <3>2. b \in Nat /\ taken[t] = b + Len(rxRing[t]) + 1
      BY <2>5
    <3> HIDE DEF b
    <3> QED
      BY <1>6, <3>1, <3>2, CountsAppend DEF r
  <2>7. taken[t] <= arrived[t] /\ Counts(cache[t], Hand(t))
        /\ (app.sock = t /\ app.mbuf # 0 => app.mbuf = got[t] + 1)
    BY <2>1 DEF NumberedAt
  <2> HIDE DEF r
  <2> QED
    BY <1>1, <1>9, <2>2, <2>5, <2>6, <2>7, NumberedIntro DEF b
<1>13. ASSUME NEW s \in Socks, s # t PROVE NumberedAt(s)'
  <2>1. arrived'[s] >= arrived[s]
    BY SMTT(30), <1>1, Numbers
  <2> QED
    BY <1>1, <1>5, <1>9, <1>13, <2>1, NumberedFrame, Numbers
<1> QED
  BY <1>10, <1>11, <1>12, <1>13 DEF Numbered

(* The library pops its cache. *)
LEMMA PopFacts ==
  ASSUME NEW q \in Seq(Nat), NEW b \in Nat, Counts(q, b)
  PROVE  \/ q = << >> /\ Popped(q) = 0 /\ Rest(q) = q
         \/ /\ Popped(q) = b + 1 /\ Popped(q) # 0 /\ Counts(Rest(q), b + 1)
            /\ Len(q) \in Nat /\ Len(Rest(q)) = Len(q) - 1
<1>1. CASE q = << >>
  BY <1>1 DEF Popped, Rest
<1>2. CASE q # << >>
  <2>1. Popped(q) = Head(q) /\ Rest(q) = Tail(q)
    BY <1>2 DEF Popped, Rest
  <2>2. Head(q) = b + 1 /\ Counts(Tail(q), b + 1)
    BY <1>2, CountsTail
  <2>3. Len(q) \in Nat /\ Len(Tail(q)) = Len(q) - 1
    BY <1>2, TailFacts
  <2>4. b + 1 # 0
    BY SMTT(30)
  <2> QED
    BY <2>1, <2>2, <2>3, <2>4
<1> QED
  BY <1>1, <1>2

LEMMA StreamPopped ==
  ASSUME NEW t \in Socks, NEW f \in Seq(Nat), NEW r \in Seq(Nat), got[t] \in Nat,
         Counts(f, got[t]), Counts(r, got[t] + Len(f)), got[t] + Len(f) + Len(r) = Done(t),
         taken[t] <= arrived[t],
         app'.mbuf = Popped(f), app'.sock = t, cache'[t] = Rest(f), rxRing'[t] = r,
         UNCHANGED <<arrived, taken, got, svc>>
  PROVE  NumberedAt(t)'
<1>1. Done(t)' = Done(t)
  BY DEF Done
<1>2. CASE f = << >> /\ Popped(f) = 0 /\ Rest(f) = f
  <2>1. Hand(t)' = got[t]
    BY <1>2 DEF Hand
  <2> QED
    BY <1>1, <1>2, <2>1, NumberedIntro
<1>3. CASE /\ Popped(f) = got[t] + 1 /\ Popped(f) # 0 /\ Counts(Rest(f), got[t] + 1)
           /\ Len(f) \in Nat /\ Len(Rest(f)) = Len(f) - 1
  <2>1. Hand(t)' = got[t] + 1
    BY <1>3 DEF Hand
  <2> DEFINE g == got[t]  l == Len(f)  k == Len(Rest(f))  m == Len(r)
  <2>2. g \in Nat /\ l \in Nat /\ m \in Nat /\ k = l - 1
    BY <1>3, EmptyFacts
  <2> HIDE DEF g, l, k, m
  <2>3. g + 1 + k = g + l /\ g + 1 + k + m = g + l + m
    BY SMTT(30), <2>2
  <2>4. got[t] + 1 + Len(Rest(f)) = got[t] + Len(f) /\ got[t] + 1 + Len(Rest(f)) + Len(r) = Done(t)'
    BY <1>1, <2>3 DEF g, l, k, m
  <2> QED
    BY <1>3, <2>1, <2>4, NumberedIntro
<1> QED
  BY <1>2, <1>3, PopFacts

LEMMA StreamClear ==
  ASSUME Inv, ClearReady
  PROVE  Counters' /\ Rings' /\ Numbered'
<1>0. app.pc = "clear"
  BY DEF ClearReady
<1>1. PICK t \in Socks : t = app.sock
  BY <1>0 DEF Inv, AppPlaced, Inside, Places
<1>2. app.mbuf = 0
  BY SMTT(30), <1>0 DEF Inv, AppPlaced
<1>3. /\ UNCHANGED <<arrived, taken, got, rxRing, svc>> /\ cache' = [cache EXCEPT ![t] = Rest(@)]
      /\ app' = [app EXCEPT !.pc = "move", !.mbuf = Popped(cache[t])]
  BY <1>1 DEF ClearReady, kernel
<1>4. cache[t] \in Seq(Nat) /\ rxRing[t] \in Seq(Nat) /\ cache \in [Socks -> Seq(Nat)]
  BY RingLens DEF Inv, Rings
<1>5. Popped(cache[t]) \in Nat /\ Rest(cache[t]) \in Seq(Nat) /\ Len(Rest(cache[t])) < CacheSize
  <2>1. /\ Popped(cache[t]) \in Nat /\ Rest(cache[t]) \in Seq(Nat) /\ Len(Rest(cache[t])) \in Nat
        /\ Len(Rest(cache[t])) <= Len(cache[t])
    BY <1>4, PoppedTyped
  <2>2. Len(Rest(cache[t])) < CacheSize
    BY SMTT(30), <2>1, RingLens
  <2> QED
    BY <2>1, <2>2
<1>6. app'.pc = "move" /\ app'.sock = t /\ app'.mbuf = Popped(cache[t])
  BY <1>1, <1>3, <1>5, AppMoves, PcNames DEF Inv
<1>7. cache' \in [Socks -> Seq(Nat)] /\ cache'[t] = Rest(cache[t])
      /\ \A s \in Socks : s # t => cache'[s] = cache[s]
  BY <1>3, <1>4, <1>5
<1>8. Counters'
  BY <1>3 DEF Inv, Counters
<1>9. Rings'
  BY <1>3, <1>5, <1>7 DEF Inv, Rings
<1>10. NumberedAt(t)'
  <2>1. Hand(t) = got[t]
    BY <1>2 DEF Hand
  <2>2. /\ Counts(cache[t], got[t]) /\ Counts(rxRing[t], got[t] + Len(cache[t]))
        /\ got[t] + Len(cache[t]) + Len(rxRing[t]) = Done(t) /\ taken[t] <= arrived[t]
        /\ got[t] \in Nat
    BY <2>1, Numbers DEF NumberedAt
  <2>3. rxRing'[t] = rxRing[t]
    BY <1>3
  <2> QED
    BY <1>3, <1>4, <1>6, <1>7, <2>2, <2>3, StreamPopped
<1>11. ASSUME NEW s \in Socks, s # t PROVE NumberedAt(s)'
  <2>1. arrived'[s] >= arrived[s]
    BY SMTT(30), <1>3, Numbers
  <2> QED
    BY <1>1, <1>3, <1>6, <1>7, <1>11, <2>1, NumberedFrame, Numbers
<1> QED
  BY <1>8, <1>9, <1>10, <1>11 DEF Numbered

(* It gives the buffer to the application. *)
LEMMA StreamGiven ==
  ASSUME Inv, SendRxKick
  PROVE  Counters' /\ Rings' /\ Numbered'
<1>0. app.pc = "kick"
  BY DEF SendRxKick
<1>1. PICK t \in Socks : t = app.sock
  BY <1>0 DEF Inv, AppPlaced, Inside, Places
<1>2. /\ UNCHANGED <<arrived, taken, cache, rxRing, svc>>
      /\ got' = IF app.mbuf = 0 THEN got ELSE [got EXCEPT ![t] = app.mbuf]
      /\ app' = IF app.mbuf = 0 THEN At("next", None) ELSE At("clear", t)
  BY <1>1 DEF SendRxKick, kernel
<1>3. app'.mbuf = 0
  BY <1>2, AtFields
<1>4. CASE app.mbuf = 0
  BY <1>2, <1>3, <1>4, StreamQuiet
<1>5. CASE app.mbuf # 0
  <2>1. app.mbuf \in Nat /\ got \in [Socks -> Nat]
    BY DEF Inv, AppTyped, Counters
  <2>2. got' \in [Socks -> Nat] /\ got'[t] = app.mbuf /\ \A s \in Socks : s # t => got'[s] = got[s]
    BY <1>2, <1>5, <2>1
  <2>3. Counters' /\ Rings'
    BY <1>2, <2>2 DEF Inv, Counters, Rings
  <2>4. NumberedAt(t)'
    <3>1. Hand(t) = got[t] + 1 /\ got'[t] = got[t] + 1
      BY <1>1, <1>5, <2>2, Numbers DEF Hand, NumberedAt
    <3>2. Hand(t)' = Hand(t)
      BY <1>3, <3>1 DEF Hand
    <3>3. Done(t)' = Done(t)
      BY <1>2 DEF Done
    <3>4. NumberedAt(t)
      BY Numbers
    <3> QED
      BY <1>2, <1>3, <3>2, <3>3, <3>4 DEF NumberedAt, Counts
  <2>5. ASSUME NEW s \in Socks, s # t PROVE NumberedAt(s)'
    <3>1. arrived'[s] >= arrived[s]
      BY SMTT(30), <1>2, Numbers
    <3> QED
      BY <1>1, <1>2, <1>3, <2>2, <2>5, <3>1, NumberedFrame, Numbers
  <2> QED
    BY <2>3, <2>4, <2>5 DEF Numbered
<1> QED
  BY <1>4, <1>5

(* It fills the cache from the ring. *)
LEMMA StreamMoved ==
  ASSUME Inv, MoveBurst
  PROVE  Counters' /\ Rings' /\ Numbered'
<1>1. PICK t \in Socks : t = app.sock
  BY MoveBurstEffect
<1>2. PICK n \in Nat :
         /\ n <= Len(rxRing[t]) /\ n + Len(cache[t]) < CacheSize
         /\ rxRing' = [rxRing EXCEPT ![t] = SubSeq(@, n + 1, Len(@))]
         /\ app' = [app EXCEPT !.pc = "kick", !.mbuf = IF @ # 0 THEN @ ELSE Popped(Filled(t, n))]
         /\ cache' = [cache EXCEPT ![t] = IF app.mbuf # 0 THEN Filled(t, n) ELSE Rest(Filled(t, n))]
  BY <1>1, MoveBurstEffect
<1>3. UNCHANGED <<arrived, taken, got, svc>>
  BY DEF MoveBurst, kernel
<1> DEFINE f == Filled(t, n)
           r == SubSeq(rxRing[t], n + 1, Len(rxRing[t]))
           c == IF app.mbuf # 0 THEN f ELSE Rest(f)
           m == IF app.mbuf # 0 THEN app.mbuf ELSE Popped(f)
<1>4. /\ f \in Seq(Nat) /\ Len(f) = Len(cache[t]) + n /\ Counts(f, Hand(t))
      /\ r \in Seq(Nat) /\ Len(r) = Len(rxRing[t]) - n /\ Counts(r, Hand(t) + Len(cache[t]) + n)
      /\ Hand(t) \in Nat
  BY <1>2, FilledFacts
<1>5. Popped(f) \in Nat /\ Rest(f) \in Seq(Nat) /\ Len(Rest(f)) \in Nat /\ Len(Rest(f)) <= Len(f)
  BY <1>4, PoppedTyped
<1>6. c \in Seq(Nat) /\ (c = f \/ c = Rest(f))
  BY <1>4, <1>5
<1>7. m \in Nat
  BY <1>5 DEF Inv, AppTyped
<1>8. /\ rxRing' = [rxRing EXCEPT ![t] = r] /\ app' = [app EXCEPT !.pc = "kick", !.mbuf = m]
      /\ cache' = [cache EXCEPT ![t] = c]
  BY <1>2
<1>9. app'.sock = t /\ app'.mbuf = m
  <2> HIDE DEF m
  <2> QED
    BY <1>1, <1>7, <1>8, AppMoves, PcNames DEF Inv
<1>10. /\ rxRing' \in [Socks -> Seq(Nat)] /\ rxRing'[t] = r
       /\ \A s \in Socks : s # t => rxRing'[s] = rxRing[s]
       /\ cache' \in [Socks -> Seq(Nat)] /\ cache'[t] = c
       /\ \A s \in Socks : s # t => cache'[s] = cache[s]
  <2>1. rxRing \in [Socks -> Seq(Nat)] /\ cache \in [Socks -> Seq(Nat)] /\ r \in Seq(Nat)
    BY <1>4 DEF Inv, Rings
  <2> HIDE DEF r, c
  <2> QED
    BY <1>6, <1>8, <2>1
<1>11. Len(r) < RxRingSize /\ Len(c) < CacheSize /\ Len(cache[t]) \in Nat /\ Len(rxRing[t]) \in Nat
  <2>1. /\ Len(cache[t]) \in Nat /\ Len(rxRing[t]) \in Nat /\ Len(rxRing[t]) < RxRingSize
        /\ RxRingSize \in Nat
        /\ CacheSize \in Nat
    BY RingLens
  <2>2. Len(r) < RxRingSize
    <3>1. Len(r) = Len(rxRing[t]) - n
      BY <1>4
    <3> HIDE DEF r
    <3> QED
      BY SMTT(30), <1>2, <2>1, <3>1
  <2>3. Len(f) < CacheSize /\ Len(Rest(f)) < CacheSize
    <3>1. Len(f) = Len(cache[t]) + n /\ n + Len(cache[t]) < CacheSize /\ Len(Rest(f)) \in Nat
          /\ Len(Rest(f)) <= Len(f)
      BY <1>2, <1>4, <1>5
    <3> HIDE DEF f
    <3> QED
      BY SMTT(30), <2>1, <3>1
  <2> QED
    BY <1>6, <2>1, <2>2, <2>3
<1>12. Counters'
  BY <1>3 DEF Inv, Counters
<1>13. Rings'
  <2> HIDE DEF r, c
  <2> QED
    BY <1>10, <1>11 DEF Inv, Rings
<1>14. /\ Hand(t) + Len(f) = Hand(t) + Len(cache[t]) + n
       /\ Hand(t) + Len(f) + Len(r) = Hand(t) + Len(cache[t]) + Len(rxRing[t])
  <2> DEFINE h == Hand(t)  x == Len(cache[t])  y == Len(rxRing[t])
  <2>1. h \in Nat /\ x \in Nat /\ y \in Nat /\ Len(f) = x + n /\ Len(r) = y - n
    BY <1>4, <1>11
  <2> HIDE DEF h, x, y, f, r
  <2>2. h + Len(f) = h + x + n /\ h + Len(f) + Len(r) = h + x + y
    BY SMTT(30), <2>1
  <2> QED
    BY <2>2 DEF h, x, y
<1>15. NumberedAt(t) /\ Done(t)' = Done(t) /\ got[t] \in Nat
  BY <1>3, Numbers DEF Done
<1>16. Counts(r, Hand(t) + Len(f)) /\ Hand(t) + Len(f) + Len(r) = Done(t) /\ taken[t] <= arrived[t]
  BY <1>4, <1>14, <1>15 DEF NumberedAt
<1>17. NumberedAt(t)'
  <2>1. CASE app.mbuf = 0
    <3>1. Hand(t) = got[t] /\ c = Rest(f) /\ m = Popped(f)
      BY <2>1 DEF Hand
    <3>2. f \in Seq(Nat) /\ r \in Seq(Nat) /\ Counts(f, got[t]) /\ Counts(r, got[t] + Len(f))
          /\ got[t] + Len(f) + Len(r) = Done(t) /\ cache'[t] = Rest(f) /\ app'.mbuf = Popped(f)
          /\ rxRing'[t] = r
      BY <1>4, <1>9, <1>10, <1>16, <3>1
    <3> HIDE DEF f, r, c, m
    <3> QED
      BY <1>3, <1>9, <1>15, <1>16, <3>2, StreamPopped
  <2>2. CASE app.mbuf # 0
    <3>1. c = f /\ m = app.mbuf /\ Hand(t)' = Hand(t)
      BY <1>1, <1>3, <1>9, <2>2 DEF Hand
    <3>2. app'.sock = t /\ app'.mbuf # 0 => app'.mbuf = got'[t] + 1
      BY <1>1, <1>3, <1>9, <1>15, <2>2, <3>1 DEF NumberedAt
    <3>3. Counts(f, Hand(t)) /\ Counts(r, Hand(t) + Len(f)) /\ Hand(t) + Len(f) + Len(r) = Done(t)'
          /\ cache'[t] = f /\ rxRing'[t] = r /\ taken'[t] <= arrived'[t]
      BY <1>3, <1>4, <1>10, <1>15, <1>16, <3>1
    <3> HIDE DEF f, r, c, m
    <3> QED
      BY <3>1, <3>2, <3>3, NumberedIntro
  <2> QED
    BY <2>1, <2>2
<1>18. ASSUME NEW s \in Socks, s # t PROVE NumberedAt(s)'
  <2>1. arrived'[s] >= arrived[s]
    BY SMTT(30), <1>3, Numbers
  <2> HIDE DEF f, r, c, m
  <2> QED
    BY <1>1, <1>3, <1>9, <1>10, <1>18, <2>1, NumberedFrame, Numbers
<1> QED
  BY <1>12, <1>13, <1>17, <1>18 DEF Numbered

LEMMA StreamNext == Inv /\ [Next]_vars => Counters' /\ Rings' /\ Numbered'
<1> SUFFICES ASSUME Inv, [Next]_vars PROVE Counters' /\ Rings' /\ Numbered'
  OBVIOUS
<1>1. SvcTyped' /\ SvcPlaced' /\ RoomInv'
  BY SvcNext
<1>2. app' = Woken => app' = app \/ (app.mbuf = 0 /\ app'.mbuf = 0)
  <2>1. app.pc = "wait" => app.mbuf = 0
    BY SMTT(30) DEF Inv, AppPlaced
  <2>2. app' = Woken /\ app.pc # "wait" => app' = app
    BY DEF Woken
  <2>3. ASSUME app' = Woken, app.pc = "wait" PROVE app'.mbuf = 0
    <3>1. PICK p : app' = At(p, None)
      BY <2>3 DEF Woken
    <3> QED
      BY <3>1, AtFields
  <2> QED
    BY <2>1, <2>2, <2>3
<1>3. ASSUME NEW p \in SvcPcs, p # "submit", svc' = [svc EXCEPT !.pc = p]
      PROVE  svc'.pc # "submit"
  BY <1>3, SvcMoves DEF Inv
<1>4. svc' = Marked => svc'.pc # "submit"
  BY <1>3, SvcLoops, PcNames DEF Marked
<1>5. ASSUME NEW s \in Socks, svc' = [svc EXCEPT !.pc = "free", !.sock = s]
      PROVE  svc'.pc # "submit"
  <2>1. svc'.pc = "free"
    BY <1>5, SvcMoves, PcNames DEF Inv
  <2> QED
    BY <2>1
<1>6. CASE UNCHANGED vars
  BY <1>6, StreamQuiet DEF vars
<1>7. ASSUME NEW s \in Socks, Arrive(s) PROVE Counters' /\ Rings' /\ Numbered'
  BY <1>7, StreamArrive
<1>8. ASSUME NEW s \in Socks, ProcessRxReady(s) PROVE Counters' /\ Rings' /\ Numbered'
  <2>1. svc.pc # "submit" /\ UNCHANGED <<arrived, taken, got, cache, rxRing, app>>
        /\ svc' = [svc EXCEPT !.pc = "free", !.sock = s]
    BY <1>8 DEF ProcessRxReady, appVars
  <2> QED
    BY <1>5, <2>1, StreamQuiet
<1>9. CASE ProcessRxKick
  <2>1. svc.pc # "submit" /\ UNCHANGED <<arrived, taken, got, cache, rxRing, app>>
        /\ svc' = [svc EXCEPT !.pc = "free", !.sock = Head(kicks)]
    BY <1>9 DEF ProcessRxKick, appVars, kernel
  <2>2. Head(kicks) \in Socks
    BY <1>9, TailFacts DEF ProcessRxKick, Inv, Posted
  <2> QED
    BY <1>5, <2>1, <2>2, StreamQuiet
<1>10. CASE FreeCount
  <2>1. svc.pc # "submit" /\ UNCHANGED <<arrived, taken, got, cache, rxRing, app>>
    BY <1>10 DEF FreeCount, appVars, kernel
  <2>2. svc'.pc = "receive"
    <3>1. svc' = [svc EXCEPT !.pc = "receive", !.free = RxRingSize - 1 - Len(rxRing[svc.sock])]
      BY <1>10 DEF FreeCount
    <3> QED
      BY <3>1 DEF Inv, SvcTyped
  <2>3. svc'.pc # "submit"
    BY <2>2
  <2> QED
    BY <2>1, <2>3, StreamQuiet
<1>11. CASE Receive
  <2>1. svc.pc = "receive" /\ UNCHANGED <<arrived, got, cache, rxRing, app>>
    BY <1>11 DEF Receive, appVars
  <2>2. CASE /\ taken[svc.sock] < arrived[svc.sock] /\ taken' = [taken EXCEPT ![svc.sock] = @ + 1]
             /\ svc' = [svc EXCEPT !.pc = "submit", !.free = @ - 1]
    <3>1. svc'.pc = "submit" /\ svc'.sock = svc.sock
      BY <2>2 DEF Inv, SvcTyped
    <3> QED
      BY <2>1, <2>2, <3>1, StreamReceive
  <2>3. CASE svc' = [svc EXCEPT !.pc = "lastmark"] /\ taken' = taken
    BY <1>3, <2>1, <2>3, PcNames, StreamQuiet
  <2>4. CASE svc' = Looping /\ taken' = taken
    BY <2>1, <2>4, SvcLoops, StreamQuiet
  <2> QED
    BY <1>11, <2>2, <2>3, <2>4 DEF Receive
<1>12. CASE Submit
  BY <1>1, <1>12, StreamSubmit
<1>13. CASE MarkReadable
  <2>1. svc.pc # "submit" /\ UNCHANGED <<arrived, taken, got, cache, rxRing>>
    BY <1>13 DEF MarkReadable, kernel
  <2>2. app' = app \/ app' = Woken
    BY <1>13 DEF MarkReadable
  <2>3. svc' = Marked \/ svc' = [svc EXCEPT !.pc = "post"] \/ svc' = [svc EXCEPT !.pc = "lastpost"]
    BY <1>13 DEF MarkReadable
  <2>4. svc'.pc # "submit"
    BY <1>3, <1>4, <2>3, PcNames
  <2> QED
    BY <1>2, <2>1, <2>2, <2>4, StreamQuiet
<1>14. CASE PostEvent
  <2>1. svc.pc # "submit" /\ UNCHANGED <<arrived, taken, got, cache, rxRing>> /\ svc' = Marked
        /\ app' = Woken
    BY <1>14 DEF PostEvent, kernel
  <2> QED
    BY <1>2, <1>4, <2>1, StreamQuiet
<1>15. CASE SelectCheck \/ PselectBegins \/ PselectExpires \/ NextSocket
  <2>1. app.pc \notin {"move", "kick"} /\ UNCHANGED <<arrived, taken, got, cache, rxRing, svc>>
    BY <1>15 DEF SelectCheck, PselectBegins, PselectExpires, NextSocket, kernel
  <2>2. app.mbuf = 0
    BY <2>1 DEF Inv, AppPlaced
  <2>3. app'.mbuf = 0
    <3>1. PICK p, s : app' = At(p, s)
      BY <1>15 DEF SelectCheck, PselectBegins, PselectExpires, NextSocket
    <3> QED
      BY <3>1, AtFields
  <2> QED
    BY <2>1, <2>2, <2>3, StreamQuiet
<1>16. CASE ClearReady
  BY <1>16, StreamClear
<1>17. CASE StoreDrains
  BY <1>17, StreamQuiet DEF StoreDrains, kernel, appVars
<1>18. CASE MoveBurst
  BY <1>18, StreamMoved
<1>19. CASE SendRxKick
  BY <1>19, StreamGiven
<1> QED
  BY <1>6, <1>7, <1>8, <1>9, <1>10, <1>11, <1>12, <1>13, <1>14, <1>15, <1>16, <1>17, <1>18, <1>19
     DEF Next, Service, App

----------------------------------------------------------------------------
LEMMA InvInit == Init => Inv
<1> SUFFICES ASSUME Init PROVE Inv
  OBVIOUS
<1>1. RxRingSize \in Nat /\ 0 < RxRingSize /\ 0 < CacheSize /\ 0 \in 0 .. MaxData
      /\ 0 \in 0 .. RxRingSize - 1 /\ CmdRoom >= 0
  BY SMTT(30), RxAssumption
<1>2. Switches /\ Places
  BY DEF Init, Switches, Places
<1>3. Posted
  <2>1. events \in [1 .. Cardinality(Socks) -> Socks]
        /\ Cardinality(Socks) \in 0 .. SelRingSize - 1 /\ SelRingSize \in Nat
    BY RxAssumption DEF Init
  <2>2. events \in Seq(Socks) /\ Len(events) < SelRingSize
    <3> DEFINE n == Cardinality(Socks)
    <3>1. n \in 0 .. SelRingSize - 1 /\ events \in [1 .. n -> Socks]
      BY <2>1
    <3> HIDE DEF n
    <3>2. n \in Nat /\ n < SelRingSize
      BY SMTT(30), <2>1, <3>1
    <3>3. events \in Seq(Socks) /\ Len(events) = n
      BY SMTT(30), <3>1, <3>2
    <3> QED
      BY <3>2, <3>3
  <2>3. kicks \in Seq(Socks) /\ Len(kicks) = 0
    BY SMTT(30) DEF Init
  <2>4. Len(kicks) <= CmdRoom
    BY SMTT(30), <2>3, RxAssumption
  <2> QED
    BY <2>2, <2>3, <2>4 DEF Posted
<1>4. SvcTyped /\ SvcPlaced
  BY <1>1, LoopingFields DEF Init, SvcTyped, SvcPlaced, Looping, SvcPcs
<1>5. AppTyped /\ AppPlaced
  <2>1. app = [pc |-> "select", sock |-> None, mbuf |-> 0] /\ todo = {} /\ buffered = None
    BY DEF Init, At
  <2>2. AppTyped
    BY SMTT(30), <2>1 DEF AppTyped, AppPcs
  <2>3. app.pc = "select" /\ app.sock = None /\ app.mbuf = 0
    BY <2>1
  <2>4. ~Inside
    BY <2>3 DEF Inside
  <2> QED
    BY <2>1, <2>2, <2>3, <2>4 DEF AppPlaced
<1>6. Counters
  BY SMTT(30), <1>1, RxAssumption DEF Init, Counters
<1>7. << >> \in Seq(Nat) /\ Len(<< >>) = 0 /\ DOMAIN << >> = {}
  BY SMTT(30)
<1>8. Rings
  BY <1>1, <1>7 DEF Init, Rings
<1>9. RoomInv
  BY LoopingFields DEF Init, RoomInv
<1>10. Numbered
  <2> SUFFICES ASSUME NEW s \in Socks PROVE NumberedAt(s)
    BY DEF Numbered
  <2>1. app.mbuf = 0 /\ got[s] = 0 /\ taken[s] = 0 /\ arrived[s] = 0 /\ cache[s] = << >>
        /\ rxRing[s] = << >>
    BY AtFields DEF Init
  <2>2. svc.pc # "submit"
    BY LoopingFields DEF Init
  <2>3. Hand(s) = 0 /\ Done(s) = 0
    BY <2>1, <2>2 DEF Hand, Done
  <2>4. 0 + 0 + 0 = 0 /\ 0 <= 0
    BY SMTT(30)
  <2> QED
    BY <1>7, <2>1, <2>3, <2>4 DEF NumberedAt, Counts
<1> QED
  BY <1>2, <1>3, <1>4, <1>5, <1>6, <1>8, <1>9, <1>10 DEF Inv

LEMMA InvNext == Inv /\ [Next]_vars => Inv'
<1> SUFFICES ASSUME Inv, [Next]_vars PROVE Inv'
  OBVIOUS
<1>1. Switches
  BY DEF Inv
<1>2. Switches' /\ Places' /\ Posted'
  BY <1>1, SwitchesNext, PlacesNext, PostedNext
<1>3. SvcTyped' /\ SvcPlaced' /\ RoomInv' /\ AppTyped' /\ AppPlaced'
  BY SvcNext, AppNext
<1>4. Counters' /\ Rings' /\ Numbered'
  BY StreamNext
<1> QED
  BY <1>2, <1>3, <1>4 DEF Inv

LEMMA InvHolds == Spec => []Inv
<1>1. Init => Inv
  BY InvInit
<1>2. Inv /\ [Next]_vars => Inv'
  BY InvNext
<1> QED
  BY <1>1, <1>2, PTL DEF Spec

----------------------------------------------------------------------------
(* The properties: types, room and order. *)

LEMMA CountsBounded ==
  ASSUME NEW q \in Seq(Nat), NEW b \in Nat, NEW m \in Nat, Counts(q, b), b + Len(q) <= m
  PROVE  q \in Seq(1 .. m)
<1>1. Len(q) \in Nat /\ q = [i \in 1 .. Len(q) |-> q[i]] /\ DOMAIN q = 1 .. Len(q)
  BY SMTT(30)
<1>2. \A i \in 1 .. Len(q) : q[i] \in 1 .. m
  BY SMTT(30), <1>1 DEF Counts
<1> DEFINE n == Len(q)
<1>3. q \in [1 .. n -> 1 .. m] /\ n \in Nat
  BY <1>1, <1>2
<1> HIDE DEF n
<1> QED
  BY SMTT(30), <1>3

(* The numbers stay within what arrived. *)
LEMMA NumbersBounded ==
  ASSUME Inv, NEW s \in Socks
  PROVE  /\ taken[s] \in 0 .. MaxData /\ got[s] \in 0 .. MaxData
         /\ rxRing[s] \in Seq(1 .. MaxData) /\ cache[s] \in Seq(1 .. MaxData)
         /\ app.sock = s => app.mbuf \in 0 .. MaxData
<1> DEFINE a == arrived[s]  t == taken[s]  g == got[s]  h == Hand(s)  d == Done(s)
           c == Len(cache[s])  r == Len(rxRing[s])
<1>1. /\ a \in Nat /\ a <= MaxData /\ t \in Nat /\ g \in Nat /\ h \in Nat /\ c \in Nat /\ r \in Nat
      /\ t <= a /\ h + c + r = d /\ MaxData \in Nat
  BY Numbers, RingLens, RxAssumption DEF NumberedAt
<1>2. d = t \/ d = t - 1
  BY DEF Done
<1>3. h = g \/ h = g + 1
  BY DEF Hand
<1>4. app.sock = s => app.mbuf = 0 \/ (app.mbuf = g + 1 /\ h = g + 1)
  BY Numbers DEF NumberedAt, Hand
<1>5. /\ cache[s] \in Seq(Nat) /\ rxRing[s] \in Seq(Nat) /\ Counts(cache[s], h)
      /\ Counts(rxRing[s], h + c)
  BY Numbers, RingLens DEF NumberedAt
<1> HIDE DEF a, t, g, h, d
<1>6. /\ t \in 0 .. MaxData /\ g \in 0 .. MaxData /\ h + c <= MaxData /\ h + c + r <= MaxData
      /\ h + c \in Nat
      /\ (h = g + 1 => g + 1 \in 0 .. MaxData) /\ 0 \in 0 .. MaxData
  <2> HIDE DEF c, r
  <2> QED
    BY SMTT(30), <1>1, <1>2, <1>3
<1>7. cache[s] \in Seq(1 .. MaxData)
  BY <1>1, <1>5, <1>6, CountsBounded
<1>8. rxRing[s] \in Seq(1 .. MaxData)
  BY <1>1, <1>5, <1>6, CountsBounded
<1>9. app.sock = s => app.mbuf \in 0 .. MaxData
  BY <1>4, <1>6
<1> QED
  BY <1>6, <1>7, <1>8, <1>9 DEF t, g

LEMMA InvTypes == Inv => TypeOK
<1> SUFFICES ASSUME Inv PROVE TypeOK
  OBVIOUS
<1>1. arrived \in [Socks -> 0 .. MaxData] /\ taken \in [Socks -> 0 .. MaxData]
      /\ got \in [Socks -> 0 .. MaxData]
  BY NumbersBounded DEF Inv, Counters
<1>2. queued \in [Socks -> BOOLEAN] /\ ready \in [Socks -> BOOLEAN] /\ starved \in BOOLEAN
      /\ dropped \in BOOLEAN /\ reordered \in BOOLEAN
  BY DEF Inv, Switches
<1>3. /\ rxRing \in [Socks -> Seq(1 .. MaxData)] /\ cache \in [Socks -> Seq(1 .. MaxData)]
      /\ \A s \in Socks : Len(rxRing[s]) < RxRingSize /\ Len(cache[s]) < CacheSize
  BY NumbersBounded DEF Inv, Rings
<1>4. /\ events \in Seq(Socks) /\ Len(events) < SelRingSize /\ kicks \in Seq(Socks)
      /\ Len(kicks) <= CmdRoom
  BY DEF Inv, Posted
<1>5. svc \in [pc : SvcPcs, sock : Socks \cup {None}, free : 0 .. (RxRingSize - 1), more : BOOLEAN]
  BY DEF Inv, SvcTyped
<1>6. app \in [pc : AppPcs, sock : Socks \cup {None}, mbuf : 0 .. MaxData]
  <2>1. app \in [pc : AppPcs, sock : Socks \cup {None}, mbuf : Nat]
    BY DEF Inv, AppTyped
  <2>2. app.sock = None => app.mbuf = 0
    <3>1. Inside => app.sock \in Socks
      BY DEF Inv, AppPlaced, Places
    <3>2. app.pc \in {"move", "kick"} => Inside
      BY DEF Inside
    <3> QED
      BY <3>1, <3>2, RxAssumption DEF Inv, AppPlaced
  <2>3. 0 \in 0 .. MaxData
    BY SMTT(30), RxAssumption
  <2>4. app.mbuf \in 0 .. MaxData
    BY <2>1, <2>2, <2>3, NumbersBounded
  <2> QED
    BY <2>1, <2>4
<1>7. todo \subseteq Socks /\ buffered \in Socks \cup {None}
  BY DEF Inv, Places
<1> QED
  BY <1>1, <1>2, <1>3, <1>4, <1>5, <1>6, <1>7 DEF TypeOK

LEMMA CountsOne ==
  ASSUME NEW b \in Nat, NEW m \in Nat, m = b + 1
  PROVE  <<m>> \in Seq(Nat) /\ Len(<<m>>) = 1 /\ Counts(<<m>>, b)
<1>1. <<m>> \in Seq(Nat) /\ Len(<<m>>) = 1 /\ DOMAIN <<m>> = 1 .. 1 /\ <<m>>[1] = m
  BY SMTT(30)
<1>2. \A i \in 1 .. 1 : i = 1
  BY SMTT(30)
<1> QED
  BY <1>1, <1>2 DEF Counts

LEMMA CountsNone ==
  ASSUME NEW b
  PROVE  << >> \in Seq(Nat) /\ Len(<< >>) = 0 /\ Counts(<< >>, b)
<1>1. << >> \in Seq(Nat) /\ Len(<< >>) = 0 /\ DOMAIN << >> = {}
  BY SMTT(30)
<1> QED
  BY <1>1 DEF Counts

(* What the service has in its hands is the last buffer soreceive returned. *)
LEMMA SubmittingCounts ==
  ASSUME Inv, NEW s \in Socks
  PROVE  Submitting(s) \in Seq(Nat) /\ Counts(Submitting(s), Done(s))
         /\ Done(s) + Len(Submitting(s)) = taken[s]
         /\ Done(s) \in Nat
<1> DEFINE d == Done(s)  t == taken[s]
<1>1. Done(s) \in Nat /\ taken[s] \in Nat
  <2>1. Hand(s) \in Nat /\ Len(cache[s]) \in Nat /\ Len(rxRing[s]) \in Nat /\ taken[s] \in Nat
        /\ Hand(s) + Len(cache[s]) + Len(rxRing[s]) = Done(s)
    BY Numbers, RingLens DEF NumberedAt
  <2> QED
    BY SMTT(30), <2>1
<1>2. CASE svc.sock = s /\ svc.pc = "submit"
  <2>1. Submitting(s) = <<t>> /\ d = t - 1
    BY <1>2 DEF Submitting, Done
  <2>2. d \in Nat /\ t \in Nat
    BY <1>1
  <2> HIDE DEF d, t
  <2>3. t = d + 1
    BY SMTT(30), <2>1, <2>2
  <2>4. <<t>> \in Seq(Nat) /\ Len(<<t>>) = 1 /\ Counts(<<t>>, d)
    BY <2>2, <2>3, CountsOne
  <2> QED
    BY <2>1, <2>2, <2>3, <2>4 DEF d, t
<1>3. CASE ~(svc.sock = s /\ svc.pc = "submit")
  <2>1. Submitting(s) = << >> /\ Done(s) = taken[s]
    BY <1>3 DEF Submitting, Done
  <2>2. taken[s] + 0 = taken[s]
    BY SMTT(30), <1>1
  <2> QED
    BY <1>1, <2>1, <2>2, CountsNone
<1> QED
  BY <1>2, <1>3

LEMMA InHandCounts ==
  ASSUME Inv, NEW s \in Socks
  PROVE  InHand(s) \in Seq(Nat) /\ Counts(InHand(s), got[s]) /\ got[s] + Len(InHand(s)) = Hand(s)
<1>1. got[s] \in Nat
  BY Numbers
<1>2. CASE app.sock = s /\ app.mbuf # 0
  <2>1. InHand(s) = <<app.mbuf>> /\ Hand(s) = got[s] + 1 /\ app.mbuf = got[s] + 1
    BY <1>2, Numbers DEF InHand, Hand, NumberedAt
  <2>2. app.mbuf \in Nat
    BY DEF Inv, AppTyped
  <2> QED
    BY <1>1, <2>1, <2>2, CountsOne
<1>3. CASE ~(app.sock = s /\ app.mbuf # 0)
  <2>1. InHand(s) = << >> /\ Hand(s) = got[s]
    BY <1>3 DEF InHand, Hand
  <2>2. got[s] + 0 = got[s]
    BY SMTT(30), <1>1
  <2> QED
    BY <2>1, <2>2, CountsNone
<1> QED
  BY <1>2, <1>3

LEMMA PathCounts ==
  ASSUME Inv, NEW s \in Socks
  PROVE  LET path == InHand(s) \o cache[s] \o rxRing[s] \o Submitting(s) IN
           got[s] + Len(path) = taken[s] /\ \A i \in DOMAIN path : path[i] = got[s] + i
<1> DEFINE x == InHand(s)  c == cache[s]  r == rxRing[s]  y == Submitting(s)  g == got[s]
<1>1. /\ x \in Seq(Nat) /\ c \in Seq(Nat) /\ r \in Seq(Nat) /\ y \in Seq(Nat) /\ g \in Nat
      /\ Len(x) \in Nat /\ Len(c) \in Nat /\ Len(r) \in Nat /\ Len(y) \in Nat
  BY InHandCounts, SubmittingCounts, Numbers, RingLens, EmptyFacts
<1>2. /\ Counts(x, g) /\ g + Len(x) = Hand(s) /\ Counts(c, Hand(s)) /\ Counts(r, Hand(s) + Len(c))
      /\ Hand(s) + Len(c) + Len(r) = Done(s) /\ Counts(y, Done(s)) /\ Done(s) + Len(y) = taken[s]
  BY InHandCounts, SubmittingCounts, Numbers DEF NumberedAt
<1> HIDE DEF x, c, r, y, g
<1>3. x \o c \in Seq(Nat) /\ Len(x \o c) = Len(x) + Len(c) /\ Counts(x \o c, g)
  BY <1>1, <1>2, CountsJoined
<1>4. g + Len(x \o c) = Hand(s) + Len(c)
  BY SMTT(30), <1>1, <1>2, <1>3
<1> DEFINE u == x \o c
<1>5. u \in Seq(Nat) /\ Counts(u, g) /\ g + Len(u) = Hand(s) + Len(c) /\ Len(u) \in Nat
  BY <1>3, <1>4, EmptyFacts
<1> HIDE DEF u
<1>6. u \o r \in Seq(Nat) /\ Len(u \o r) = Len(u) + Len(r) /\ Counts(u \o r, g)
  BY <1>1, <1>2, <1>5, CountsJoined
<1> DEFINE v == u \o r
<1>7. g + Len(v) = Done(s)
  BY SMTT(30), <1>1, <1>2, <1>5, <1>6
<1>8. v \in Seq(Nat) /\ Counts(v, g) /\ Len(v) \in Nat
  BY <1>6, EmptyFacts
<1> HIDE DEF v
<1>9. v \o y \in Seq(Nat) /\ Len(v \o y) = Len(v) + Len(y) /\ Counts(v \o y, g)
  BY <1>1, <1>2, <1>7, <1>8, CountsJoined
<1>10. g + Len(v \o y) = taken[s]
  BY SMTT(30), <1>1, <1>2, <1>7, <1>8, <1>9
<1>11. v \o y = InHand(s) \o cache[s] \o rxRing[s] \o Submitting(s)
  BY DEF x, c, r, y, u, v
<1> QED
  BY <1>9, <1>10, <1>11 DEF Counts, g

(* An rx ring has room for every buffer user_data_available_cbk submits:   *)
(* the application only takes entries off while the service counts its     *)
(* ring_free down, so the branch marked "shoud not happen!!!" is dead, for *)
(* every size of the ring and whatever the application does meanwhile.     *)
THEOREM SubmitHasRoom == Spec => []SubmitNeverFails
<1>1. Inv => SubmitNeverFails
  BY DEF Inv, RoomInv, SubmitNeverFails
<1> QED
  BY <1>1, InvHolds, PTL

(* What service_dequeue_rx_buf holds, its cache, the rx ring and the       *)
(* buffer in the service's hands are, in this order, what the application  *)
(* has not received yet: nothing is lost, duplicated or overtaken, for     *)
(* every size of ring, cache and burst and any number of sockets.          *)
THEOREM StreamStaysIntact == Spec => []StreamIntact
<1>1. Inv => StreamIntact
  BY InvTypes, PathCounts DEF StreamIntact
<1> QED
  BY <1>1, InvHolds, PTL

----------------------------------------------------------------------------
(* The flag and the event. *)

Posting(s) == svc.sock = s /\ svc.pc \in {"post", "lastpost"}

(* A flag that is set, for a socket the application does not have in its   *)
(* hands or whose flag it has cleared again, has its event.                *)
Watched(s) == s \notin todo \/ Receiving(s)

FlagAt(s) ==
  Watched(s) /\ ~dropped /\ ready[s] /\ buffered # s => s \in Range(events) \/ Posting(s)

FlagInv == \A s \in Socks : FlagAt(s)

LEMMA FlagFrame ==
  ASSUME NEW s, FlagAt(s), Watched(s)' => Watched(s), dropped => dropped', ready'[s] => ready[s],
         buffered' # s => buffered # s, s \in Range(events) => s \in Range(events'),
         Posting(s) => Posting(s)' \/ s \in Range(events')
  PROVE  FlagAt(s)'
  BY DEF FlagAt

(* A service_mark_readable that wakes service_select changes nothing else. *)
LEMMA WokenKeeps ==
  ASSUME Inv, app' = Woken
  PROVE  app' = app \/ app'.pc \in {"select", "lastcheck"}
<1>1. CASE app.pc # "wait"
  BY <1>1 DEF Woken
<1>2. CASE app.pc = "wait"
  <2>1. PICK p \in {"select", "lastcheck"} : app' = At(p, None)
    BY <1>2 DEF Woken
  <2>2. At(p, None).pc = p
    BY AtFields
  <2> QED
    BY <2>1, <2>2
<1> QED
  BY <1>1, <1>2

(* Where the service is after service_mark_readable. *)
LEMMA MarkedFields ==
  ASSUME Inv, svc.pc \in {"mark", "post", "lastmark", "lastpost"}, svc' = Marked
  PROVE  /\ svc'.pc \in {"receive", "loop"}
         /\ svc'.pc = "receive" => svc'.sock = svc.sock
<1>1. CASE svc.pc \in {"mark", "post"}
  <2>1. svc' = [svc EXCEPT !.pc = "receive"]
    BY <1>1 DEF Marked
  <2> QED
    BY <2>1, SvcMoves, PcNames DEF Inv
<1>2. CASE svc.pc \notin {"mark", "post"}
  <2>1. svc' = Looping
    BY <1>2 DEF Marked
  <2>2. svc'.pc = "loop"
    BY <2>1, SvcLoops
  <2> QED
    BY <2>2
<1> QED
  BY <1>1, <1>2

(* The test-and-set of service_mark_readable on the flag of t. *)
LEMMA MarkEffect ==
  ASSUME Inv, MarkReadable
  PROVE  \E t \in Socks :
           /\ t = svc.sock /\ svc.pc \in {"mark", "lastmark"}
           /\ \A s \in Socks : s # t => ready'[s] = ready[s]
           /\ \/ ready[t] /\ svc'.pc \in {"receive", "loop"} /\ (svc'.pc = "receive" => svc'.sock = t)
              \/ ~ready[t] /\ svc'.pc \in {"post", "lastpost"} /\ svc'.sock = t
           /\ app' = app \/ app'.pc \in {"select", "lastcheck"}
<1>0. svc.pc \in {"mark", "lastmark"}
  BY DEF MarkReadable
<1>1. PICK t \in Socks : t = svc.sock
  BY SMTT(30), <1>0 DEF Inv, SvcPlaced
<1>2. \A s \in Socks : s # t => ready'[s] = ready[s]
  BY <1>1 DEF MarkReadable, Inv, Switches
<1>3. app' = app \/ app'.pc \in {"select", "lastcheck"}
  BY WokenKeeps DEF MarkReadable
<1>4. CASE ready[t]
  <2>1. svc' = Marked
    BY <1>1, <1>4 DEF MarkReadable
  <2> QED
    BY <1>0, <1>1, <1>2, <1>3, <1>4, <2>1, MarkedFields
<1>5. CASE ~ready[t]
  <2>1. PICK p \in {"post", "lastpost"} : svc' = [svc EXCEPT !.pc = p]
    BY <1>1, <1>5 DEF MarkReadable
  <2>2. svc'.pc = p /\ svc'.sock = svc.sock
    BY <2>1, SvcMoves, PcNames DEF Inv
  <2> QED
    BY <1>0, <1>1, <1>2, <1>3, <1>5, <2>1, <2>2
<1> QED
  BY <1>4, <1>5

(* The event of t is posted, or the selector's ring was full. *)
LEMMA PostEffect ==
  ASSUME Inv, PostEvent
  PROVE  \E t \in Socks :
           /\ t = svc.sock /\ svc.pc \in {"post", "lastpost"}
           /\ UNCHANGED <<ready, todo, buffered, reordered>>
           /\ \A s \in Range(events) : s \in Range(events')
           /\ t \in Range(events') \/ dropped'
           /\ dropped => dropped'
           /\ svc'.pc \in {"receive", "loop"} /\ (svc'.pc = "receive" => svc'.sock = t)
           /\ app' = app \/ app'.pc \in {"select", "lastcheck"}
<1>0. svc.pc \in {"post", "lastpost"} /\ UNCHANGED <<ready, todo, buffered, reordered>>
      /\ svc' = Marked /\ app' = Woken
  BY DEF PostEvent
<1>1. PICK t \in Socks : t = svc.sock
  BY SMTT(30), <1>0 DEF Inv, SvcPlaced
<1>2. app' = app \/ app'.pc \in {"select", "lastcheck"}
  BY <1>0, WokenKeeps
<1>3. svc'.pc \in {"receive", "loop"} /\ (svc'.pc = "receive" => svc'.sock = t)
  BY <1>0, <1>1, MarkedFields
<1>4. CASE Len(events) < SelRingSize - 1
  <2>1. events' = Append(events, t) /\ dropped' = dropped
    BY <1>1, <1>4 DEF PostEvent, Inv, Switches
  <2>2. Range(Append(events, t)) = Range(events) \cup {t}
    <3>1. events \in Seq(Socks)
      BY DEF Inv, Posted
    <3> QED
      BY SMTT(30), <3>1, AppendFacts
  <2>3. Range(events') = Range(events) \cup {t}
    BY <2>1, <2>2
  <2> QED
    BY <1>0, <1>1, <1>2, <1>3, <2>1, <2>3
<1>5. CASE ~(Len(events) < SelRingSize - 1)
  <2>1. events' = events /\ dropped'
    BY <1>5 DEF PostEvent
  <2> QED
    BY <1>0, <1>1, <1>2, <1>3, <2>1
<1> QED
  BY <1>4, <1>5

LEMMA FlagNext == Inv /\ FlagInv /\ [Next]_vars => FlagInv'
<1> SUFFICES ASSUME Inv, FlagInv, [Next]_vars, NEW s \in Socks PROVE FlagAt(s)'
  BY DEF FlagInv
<1>1. FlagAt(s)
  BY DEF FlagInv
<1>2. ASSUME UNCHANGED <<ready, events, app, todo, buffered, dropped>>, ~Posting(s)
      PROVE  FlagAt(s)'
  <2>1. Watched(s)' <=> Watched(s)
    BY <1>2 DEF Watched, Receiving
  <2> QED
    BY <1>1, <1>2, <2>1, FlagFrame
<1>3. ASSUME UNCHANGED <<ready, events, svc, todo, buffered, dropped>>,
             Receiving(s)' => Receiving(s)
      PROVE  FlagAt(s)'
  <2>1. Watched(s)' => Watched(s)
    BY <1>3 DEF Watched
  <2>2. Posting(s) => Posting(s)'
    BY <1>3 DEF Posting
  <2> QED
    BY <1>1, <1>3, <2>1, <2>2, FlagFrame
<1>4. CASE UNCHANGED vars
  BY <1>3, <1>4 DEF vars, Receiving
<1>5. ASSUME NEW t \in Socks, Arrive(t) PROVE FlagAt(s)'
  BY <1>3, <1>5 DEF Arrive, appVars, Receiving
<1>6. CASE (\E t \in Socks : ProcessRxReady(t)) \/ ProcessRxKick \/ FreeCount \/ Receive \/ Submit
  <2>1. UNCHANGED <<ready, events, app, todo, buffered, dropped>>
    BY <1>6 DEF ProcessRxReady, ProcessRxKick, FreeCount, Receive, Submit, appVars
  <2>2. svc.pc \in {"loop", "free", "receive", "submit"}
    BY <1>6 DEF ProcessRxReady, ProcessRxKick, FreeCount, Receive, Submit
  <2>3. ~Posting(s)
    BY <2>2 DEF Posting
  <2> QED
    BY <1>2, <2>1, <2>3
<1>7. CASE MarkReadable
  <2>0. UNCHANGED <<events, todo, buffered, dropped>>
    BY <1>7 DEF MarkReadable
  <2>1. PICK t \in Socks :
           /\ t = svc.sock /\ svc.pc \in {"mark", "lastmark"}
           /\ \A x \in Socks : x # t => ready'[x] = ready[x]
           /\ \/ ready[t] /\ svc'.pc \in {"receive", "loop"} /\ (svc'.pc = "receive" => svc'.sock = t)
              \/ ~ready[t] /\ svc'.pc \in {"post", "lastpost"} /\ svc'.sock = t
           /\ app' = app \/ app'.pc \in {"select", "lastcheck"}
    BY <1>7, MarkEffect
  <2>2. CASE s = t /\ ~ready[t]
    <3>1. Posting(s)'
      BY <2>1, <2>2 DEF Posting
    <3> QED
      BY <3>1 DEF FlagAt
  <2>3. CASE s # t \/ ready[t]
    <3>1. ready'[s] => ready[s]
      BY <2>1, <2>3
    <3>2. ~Posting(s)
      BY <2>1 DEF Posting
    <3>3. Watched(s)' => Watched(s)
      BY <2>0, <2>1 DEF Watched, Receiving
    <3> QED
      BY <1>1, <2>0, <3>1, <3>2, <3>3, FlagFrame
  <2> QED
    BY <2>2, <2>3
<1>8. CASE PostEvent
  <2>1. PICK t \in Socks :
           /\ t = svc.sock /\ UNCHANGED <<ready, todo, buffered, reordered>>
           /\ \A x \in Range(events) : x \in Range(events')
           /\ t \in Range(events') \/ dropped'
           /\ dropped => dropped'
           /\ app' = app \/ app'.pc \in {"select", "lastcheck"}
    BY <1>8, PostEffect
  <2>2. CASE s = t
    BY <2>1, <2>2 DEF FlagAt
  <2>3. CASE s # t
    <3>1. ~Posting(s)
      BY <2>1, <2>3 DEF Posting
    <3>2. Watched(s)' => Watched(s)
      BY <2>1 DEF Watched, Receiving
    <3> QED
      BY <1>1, <2>1, <3>1, <3>2, FlagFrame
  <2> QED
    BY <2>2, <2>3
<1>9. CASE SelectCheck
  <2>1. /\ UNCHANGED <<ready, svc, buffered, dropped>> /\ app.pc \in {"select", "lastcheck"}
        /\ (UNCHANGED <<todo, events>>) \/ todo' = Range(events)
    BY <1>9 DEF SelectCheck
  <2>2. ~Receiving(s)'
    <3>1. PICK p \in {"towait", "select", "next"} : app' = At(p, None)
      BY <1>9 DEF SelectCheck
    <3>2. At(p, None).pc = p
      BY AtFields
    <3> QED
      BY <3>1, <3>2 DEF Receiving
  <2>3. todo = {}
    BY <2>1 DEF Inv, AppPlaced
  <2>4. CASE UNCHANGED <<todo, events>>
    BY <1>3, <2>1, <2>2, <2>4
  <2>5. CASE todo' = Range(events)
    <3>1. Posting(s)' <=> Posting(s)
      BY <2>1 DEF Posting
    <3>2. Watched(s)
      BY <2>3 DEF Watched
    <3> QED
      BY <1>1, <2>1, <2>2, <2>5, <3>1, <3>2 DEF FlagAt, Watched
  <2> QED
    BY <2>1, <2>4, <2>5
<1>10. CASE PselectBegins \/ PselectExpires \/ NextSocket
  <2>1. PICK p \in {"wait", "lastcheck", "select", "clear"} : \E x : app' = At(p, x)
    BY <1>10 DEF PselectBegins, PselectExpires, NextSocket
  <2>2. app'.pc = p
    <3>1. PICK x : app' = At(p, x)
      BY <2>1
    <3>2. At(p, x).pc = p
      BY AtFields
    <3> QED
      BY <3>1, <3>2
  <2>3. ~Receiving(s)'
    BY <2>2 DEF Receiving
  <2> QED
    BY <1>3, <1>10, <2>3 DEF PselectBegins, PselectExpires, NextSocket
<1>11. CASE ClearReady
  <2>1. app.pc = "clear" /\ buffered = None /\ buffered' = app.sock
        /\ UNCHANGED <<ready, events, svc, todo, dropped>>
    BY <1>11 DEF ClearReady
  <2>2. CASE s = app.sock
    BY <2>1, <2>2 DEF FlagAt
  <2>3. CASE s # app.sock
    <3>1. app'.sock = app.sock
      BY <1>11 DEF ClearReady, Inv, AppTyped
    <3>2. Watched(s)' => Watched(s)
      BY <2>1, <2>3, <3>1 DEF Watched, Receiving
    <3>3. s # None
      BY RxAssumption
    <3>4. Posting(s) => Posting(s)'
      BY <2>1 DEF Posting
    <3> QED
      BY <1>1, <2>1, <3>2, <3>3, <3>4, FlagFrame
  <2> QED
    BY <2>2, <2>3
<1>12. CASE StoreDrains
  <2>1. buffered \in Socks /\ ready' = [ready EXCEPT ![buffered] = FALSE]
        /\ UNCHANGED <<events, svc, app, todo, dropped>>
    BY <1>12 DEF StoreDrains, Inv, Places, appVars
  <2>2. CASE s = buffered
    <3>1. ~ready'[s]
      BY <2>1, <2>2 DEF Inv, Switches
    <3> QED
      BY <3>1 DEF FlagAt
  <2>3. CASE s # buffered
    <3>1. ready'[s] = ready[s]
      BY <2>1, <2>3 DEF Inv, Switches
    <3>2. (Watched(s)' => Watched(s)) /\ (Posting(s) => Posting(s)')
      BY <2>1 DEF Watched, Receiving, Posting
    <3> QED
      BY <1>1, <2>1, <2>3, <3>1, <3>2, FlagFrame
  <2> QED
    BY <2>2, <2>3
<1>13. CASE MoveBurst
  <2>1. app.pc = "move" /\ UNCHANGED <<ready, events, svc, todo, buffered, dropped>>
    BY <1>13 DEF MoveBurst
  <2>2. app'.sock = app.sock
    BY <1>13 DEF MoveBurst, Inv, AppTyped
  <2> QED
    BY <1>3, <2>1, <2>2 DEF Receiving
<1>14. CASE SendRxKick
  <2>1. /\ app.pc = "kick" /\ buffered = None /\ UNCHANGED <<ready, events, svc, buffered, dropped>>
        /\ todo' = todo \/ todo' = todo \ {app.sock}
    BY <1>14 DEF SendRxKick
  <2>2. PICK p \in {"next", "clear"} : \E x : app' = At(p, x)
    BY <1>14 DEF SendRxKick
  <2>3. app'.pc = p
    <3>1. PICK x : app' = At(p, x)
      BY <2>2
    <3>2. At(p, x).pc = p
      BY AtFields
    <3> QED
      BY <3>1, <3>2
  <2>4. Watched(s)' => Watched(s)
    BY <2>1, <2>2, <2>3 DEF Watched, Receiving
  <2>5. Posting(s) => Posting(s)'
    BY <2>1 DEF Posting
  <2> QED
    BY <1>1, <2>1, <2>4, <2>5, FlagFrame
<1> QED
  BY <1>4, <1>5, <1>6, <1>7, <1>8, <1>9, <1>10, <1>11, <1>12, <1>13, <1>14 DEF Next, Service, App

LEMMA FlagHolds == Spec => []FlagInv
<1>1. Init => FlagInv
  BY DEF Init, FlagInv, FlagAt
<1> QED
  BY <1>1, InvHolds, FlagNext, PTL DEF Spec

----------------------------------------------------------------------------
(* Data and its event. *)

(* The library found neither its cache nor the ring filled. *)
Drained(s) == app.sock = s /\ app.pc = "kick" /\ app.mbuf = 0

DrainAt(s) ==
  /\ s \notin todo \/ Drained(s)
  /\ ~dropped /\ ~reordered /\ Undelivered(s)
  => s \in Range(events) \/ Marking(s)

DrainInv == \A s \in Socks : DrainAt(s)

(* A socket that is drained or out of the application's hands has its      *)
(* flag's store behind it.                                                 *)
LEMMA StoreBehind ==
  ASSUME Inv, NEW s \in Socks, s \notin todo \/ (Drained(s) /\ ~reordered)
  PROVE  Watched(s) /\ buffered # s
<1>1. s # None
  BY RxAssumption
<1>2. Receiving(s) => s \in todo
  BY DEF Inv, AppPlaced, Inside, Receiving
<1>3. Drained(s) => Receiving(s)
  BY DEF Drained, Receiving
<1>4. Drained(s) /\ ~reordered => buffered # s
  BY <1>1 DEF Inv, AppPlaced, Drained
<1>5. buffered = s => Receiving(s)
  BY <1>1 DEF Inv, AppPlaced, Receiving
<1> QED
  BY <1>2, <1>3, <1>4, <1>5 DEF Watched

LEMMA DrainFrame ==
  ASSUME NEW s, DrainAt(s), s \notin todo' \/ Drained(s)' => s \notin todo \/ Drained(s),
         dropped => dropped', reordered => reordered', Undelivered(s)' => Undelivered(s),
         s \in Range(events) => s \in Range(events'),
         Marking(s) => Marking(s)' \/ s \in Range(events')
  PROVE  DrainAt(s)'
  BY DEF DrainAt

(* A burst that finds nothing leaves nothing. *)
LEMMA NothingLeft ==
  ASSUME Inv, MoveBurst, NEW s \in Socks, s = app.sock, app'.mbuf = 0
  PROVE  ~Undelivered(s)'
<1>1. PICK n \in Nat :
         /\ n <= Len(rxRing[s]) /\ n \in {Burst, CacheSize - 1 - Len(cache[s]), Len(rxRing[s])}
         /\ rxRing' = [rxRing EXCEPT ![s] = SubSeq(@, n + 1, Len(@))]
         /\ app' = [app EXCEPT !.pc = "kick", !.mbuf = IF @ # 0 THEN @ ELSE Popped(Filled(s, n))]
         /\ cache' = [cache EXCEPT ![s] = IF app.mbuf # 0 THEN Filled(s, n) ELSE Rest(Filled(s, n))]
  BY MoveBurstEffect
<1>2. app'.mbuf = IF app.mbuf # 0 THEN app.mbuf ELSE Popped(Filled(s, n))
  BY <1>1 DEF Inv, AppTyped
<1>3. app.mbuf = 0 /\ Popped(Filled(s, n)) = 0
  BY <1>2
<1>4. /\ Filled(s, n) \in Seq(Nat) /\ Counts(Filled(s, n), Hand(s)) /\ Hand(s) \in Nat
      /\ Len(Filled(s, n)) = Len(cache[s]) + n
      /\ SubSeq(rxRing[s], n + 1, Len(rxRing[s])) \in Seq(Nat)
      /\ Len(SubSeq(rxRing[s], n + 1, Len(rxRing[s]))) = Len(rxRing[s]) - n
  BY <1>1, FilledFacts
<1>5. Filled(s, n) = << >> /\ Rest(Filled(s, n)) = << >>
  <2> DEFINE f == Filled(s, n)  h == Hand(s)
  <2>1. f \in Seq(Nat) /\ h \in Nat /\ Counts(f, h) /\ Popped(f) = 0
    BY <1>3, <1>4
  <2> HIDE DEF f, h
  <2>2. f = << >> /\ Rest(f) = f
    BY <2>1, PopFacts
  <2> QED
    BY <2>2 DEF f
<1>6. Len(rxRing[s]) - n = 0
  <2> DEFINE c == Len(cache[s])  r == Len(rxRing[s])
  <2>1. Len(<< >>) = 0
    BY SMTT(30)
  <2>2. c \in Nat /\ r \in Nat /\ c + n = 0 /\ n \in {Burst, CacheSize - 1 - c, r}
    BY <1>1, <1>4, <1>5, <2>1, RingLens
  <2> HIDE DEF c, r
  <2>3. r - n = 0
    BY SMTT(30), <2>2, RxAssumption
  <2> QED
    BY <2>3 DEF r
<1>7. SubSeq(rxRing[s], n + 1, Len(rxRing[s])) = << >>
  BY <1>4, <1>6, EmptyFacts
<1>8. rxRing'[s] = << >>
  BY <1>1, <1>7 DEF Inv, Rings
<1>9. cache'[s] = << >>
  BY <1>1, <1>3, <1>5 DEF Inv, Rings
<1> QED
  BY <1>8, <1>9 DEF Undelivered

LEMMA DrainNext == Inv /\ FlagInv /\ DrainInv /\ [Next]_vars => DrainInv'
<1> SUFFICES ASSUME Inv, FlagInv, DrainInv, [Next]_vars, NEW s \in Socks PROVE DrainAt(s)'
  BY DEF DrainInv
<1>1. DrainAt(s)
  BY DEF DrainInv
<1>2. ASSUME UNCHANGED <<rxRing, cache, events, app, todo, dropped, reordered>>, ~Marking(s)
      PROVE  DrainAt(s)'
  BY <1>1, <1>2, DrainFrame DEF Drained, Undelivered
<1>3. ASSUME UNCHANGED <<rxRing, cache, events, svc, dropped, reordered>>,
             s \notin todo' \/ Drained(s)' => s \notin todo \/ Drained(s)
      PROVE  DrainAt(s)'
  BY <1>1, <1>3, DrainFrame DEF Undelivered, Marking
<1>4. CASE UNCHANGED vars
  BY <1>3, <1>4 DEF vars, Drained
<1>5. ASSUME NEW t \in Socks, Arrive(t) PROVE DrainAt(s)'
  BY <1>3, <1>5 DEF Arrive, appVars, Drained
<1>6. CASE (\E t \in Socks : ProcessRxReady(t)) \/ ProcessRxKick \/ FreeCount \/ Receive
  <2>1. UNCHANGED <<rxRing, cache, events, app, todo, dropped, reordered>>
    BY <1>6 DEF ProcessRxReady, ProcessRxKick, FreeCount, Receive, appVars
  <2>2. svc.pc \in {"loop", "free", "receive"}
    BY <1>6 DEF ProcessRxReady, ProcessRxKick, FreeCount, Receive
  <2>3. ~Marking(s)
    BY <2>2 DEF Marking
  <2> QED
    BY <1>2, <2>1, <2>3
<1>7. CASE Submit
  <2>1. svc.pc = "submit" /\ UNCHANGED <<cache, events, app, todo, dropped, reordered>>
    BY <1>7 DEF Submit, appVars
  <2>2. svc'.pc = "mark" /\ svc'.sock = svc.sock
    BY <1>7 DEF Submit, Inv, SvcTyped
  <2>3. CASE s = svc.sock
    <3>1. Marking(s)'
      BY <2>2, <2>3 DEF Marking
    <3> QED
      BY <3>1 DEF DrainAt
  <2>4. CASE s # svc.sock
    <3>1. rxRing'[s] = rxRing[s]
      BY <1>7, <2>4 DEF Submit, Inv, Rings
    <3>2. ~Marking(s)
      BY <2>4 DEF Marking
    <3>3. (Undelivered(s)' <=> Undelivered(s)) /\ (Drained(s)' <=> Drained(s))
      BY <2>1, <3>1 DEF Undelivered, Drained
    <3> QED
      BY <1>1, <2>1, <3>2, <3>3, DrainFrame
  <2> QED
    BY <2>3, <2>4
<1>8. CASE MarkReadable
  <2>0. UNCHANGED <<rxRing, cache, events, todo, dropped, reordered>>
    BY <1>8 DEF MarkReadable
  <2>1. PICK t \in Socks :
           /\ t = svc.sock /\ svc.pc \in {"mark", "lastmark"}
           /\ \/ ready[t] /\ svc'.pc \in {"receive", "loop"} /\ (svc'.pc = "receive" => svc'.sock = t)
              \/ ~ready[t] /\ svc'.pc \in {"post", "lastpost"} /\ svc'.sock = t
           /\ app' = app \/ app'.pc \in {"select", "lastcheck"}
    BY <1>8, MarkEffect
  <2>2. Drained(s)' => Drained(s)
    BY <2>1 DEF Drained
  <2>3. Undelivered(s)' <=> Undelivered(s)
    BY <2>0 DEF Undelivered
  <2>4. CASE s = t /\ ~ready[t]
    <3>1. Marking(s)'
      BY <2>1, <2>4 DEF Marking
    <3> QED
      BY <3>1 DEF DrainAt
  <2>5. CASE s = t /\ ready[t]
    <3>1. ~Posting(s)
      BY <2>1 DEF Posting
    <3>2. FlagAt(s)
      BY DEF FlagInv
    <3>3. (s \notin todo \/ (Drained(s) /\ ~reordered)) /\ ~dropped => s \in Range(events)
      BY <2>5, <3>1, <3>2, StoreBehind DEF FlagAt
    <3> QED
      BY <2>0, <2>2, <3>3 DEF DrainAt
  <2>6. CASE s # t
    <3>1. ~Marking(s)
      BY <2>1, <2>6 DEF Marking
    <3> QED
      BY <1>1, <2>0, <2>2, <2>3, <3>1, DrainFrame
  <2> QED
    BY <2>4, <2>5, <2>6
<1>9. CASE PostEvent
  <2>0. UNCHANGED <<rxRing, cache>>
    BY <1>9 DEF PostEvent
  <2>1. PICK t \in Socks :
           /\ t = svc.sock /\ UNCHANGED <<ready, todo, buffered, reordered>>
           /\ \A x \in Range(events) : x \in Range(events')
           /\ t \in Range(events') \/ dropped'
           /\ dropped => dropped'
           /\ app' = app \/ app'.pc \in {"select", "lastcheck"}
    BY <1>9, PostEffect
  <2>2. CASE s = t
    BY <2>1, <2>2 DEF DrainAt
  <2>3. CASE s # t
    <3>1. ~Marking(s)
      BY <2>1, <2>3 DEF Marking
    <3>2. (Drained(s)' => Drained(s)) /\ (Undelivered(s)' <=> Undelivered(s))
      BY <2>0, <2>1 DEF Drained, Undelivered
    <3> QED
      BY <1>1, <2>1, <3>1, <3>2, DrainFrame
  <2> QED
    BY <2>2, <2>3
<1>10. CASE SelectCheck
  <2>1. /\ UNCHANGED <<rxRing, cache, svc, dropped, reordered>>
        /\ app.pc \in {"select", "lastcheck"}
        /\ (UNCHANGED <<todo, events>>) \/ todo' = Range(events)
    BY <1>10 DEF SelectCheck
  <2>2. ~Drained(s)'
    <3>1. PICK p \in {"towait", "select", "next"} : app' = At(p, None)
      BY <1>10 DEF SelectCheck
    <3>2. At(p, None).pc = p
      BY AtFields
    <3> QED
      BY <3>1, <3>2 DEF Drained
  <2>3. todo = {}
    BY <2>1 DEF Inv, AppPlaced
  <2>4. CASE UNCHANGED <<todo, events>>
    BY <1>3, <2>1, <2>2, <2>4
  <2>5. CASE todo' = Range(events)
    <3>1. (Marking(s)' <=> Marking(s)) /\ (Undelivered(s)' <=> Undelivered(s))
      BY <2>1 DEF Marking, Undelivered
    <3> QED
      BY <1>1, <2>1, <2>2, <2>3, <2>5, <3>1 DEF DrainAt
  <2> QED
    BY <2>1, <2>4, <2>5
<1>11. CASE PselectBegins \/ PselectExpires \/ NextSocket
  <2>1. PICK p \in {"wait", "lastcheck", "select", "clear"} : \E x : app' = At(p, x)
    BY <1>11 DEF PselectBegins, PselectExpires, NextSocket
  <2>2. PICK x : app' = At(p, x)
    BY <2>1
  <2>3. At(p, x).pc = p
    BY AtFields
  <2>4. ~Drained(s)'
    BY <2>1, <2>2, <2>3 DEF Drained
  <2> QED
    BY <1>3, <1>11, <2>4 DEF PselectBegins, PselectExpires, NextSocket
<1>12. CASE ClearReady
  <2>1. /\ app.pc = "clear" /\ UNCHANGED <<rxRing, events, svc, todo, dropped, reordered>>
        /\ cache' = [cache EXCEPT ![app.sock] = Rest(@)]
    BY <1>12 DEF ClearReady
  <2>2. app.sock \in todo
    BY <2>1 DEF Inv, AppPlaced, Inside
  <2>3. app'.pc = "move"
    BY <1>12 DEF ClearReady, Inv, AppTyped
  <2>4. ~Drained(s)'
    BY <2>3 DEF Drained
  <2>5. CASE s = app.sock
    BY <2>1, <2>2, <2>4, <2>5 DEF DrainAt
  <2>6. CASE s # app.sock
    <3>1. cache'[s] = cache[s]
      BY <2>1, <2>6 DEF Inv, Rings
    <3>2. (Undelivered(s)' <=> Undelivered(s)) /\ (Marking(s) => Marking(s)')
      BY <2>1, <3>1 DEF Undelivered, Marking
    <3> QED
      BY <1>1, <2>1, <2>4, <3>2, DrainFrame
  <2> QED
    BY <2>5, <2>6
<1>13. CASE StoreDrains
  BY <1>3, <1>13 DEF StoreDrains, appVars, Drained
<1>14. CASE MoveBurst
  <2>1. app.pc = "move" /\ UNCHANGED <<events, svc, todo, dropped>> /\ (reordered => reordered')
    BY <1>14 DEF MoveBurst
  <2>2. app.sock \in todo
    BY <2>1 DEF Inv, AppPlaced, Inside
  <2>3. app'.sock = app.sock
    BY <1>14 DEF MoveBurst, Inv, AppTyped
  <2>4. CASE s = app.sock
    <3>1. Drained(s)' => ~Undelivered(s)'
      BY <1>14, <2>4, NothingLeft DEF Drained
    <3> QED
      BY <2>1, <2>2, <2>4, <3>1 DEF DrainAt
  <2>5. CASE s # app.sock
    <3>1. rxRing'[s] = rxRing[s] /\ cache'[s] = cache[s]
      BY <1>14, <2>5 DEF MoveBurst, Inv, Rings
    <3>2. (Undelivered(s)' <=> Undelivered(s)) /\ (Marking(s) => Marking(s)') /\ ~Drained(s)'
      BY <2>1, <2>3, <2>5, <3>1 DEF Undelivered, Marking, Drained
    <3> QED
      BY <1>1, <2>1, <3>2, DrainFrame
  <2> QED
    BY <2>4, <2>5
<1>15. CASE SendRxKick
  <2>1. /\ app.pc = "kick" /\ UNCHANGED <<rxRing, cache, events, svc, dropped, reordered>>
        /\ todo' = todo \/ (app.mbuf = 0 /\ todo' = todo \ {app.sock})
    BY <1>15 DEF SendRxKick
  <2>2. PICK p \in {"next", "clear"} : \E x : app' = At(p, x)
    BY <1>15 DEF SendRxKick
  <2>3. PICK x : app' = At(p, x)
    BY <2>2
  <2>4. At(p, x).pc = p
    BY AtFields
  <2>5. ~Drained(s)'
    BY <2>2, <2>3, <2>4 DEF Drained
  <2>6. s \notin todo' => s \notin todo \/ Drained(s)
    BY <2>1 DEF Drained
  <2> QED
    BY <1>3, <2>1, <2>5, <2>6
<1> QED
  BY <1>4, <1>5, <1>6, <1>7, <1>8, <1>9, <1>10, <1>11, <1>12, <1>13, <1>14, <1>15 DEF Next,
     Service, App

(* An application that has drained a socket and watches its selector again *)
(* has the event of whatever lies on the rx ring, or the service is about  *)
(* to post it, unless the ring of events was full or the rx ring was       *)
(* counted before the store to read_ready_to_app was visible: the flag     *)
(* protocol of service_dequeue_rx_buf and service_mark_readable loses no   *)
(* event, for any number of sockets and any size of ring, cache and burst. *)
THEOREM EventIsDelivered == Spec => []EventDelivered
<1>1. Init => DrainInv
  BY DEF Init, DrainInv, DrainAt, Undelivered
<1>2. DrainInv => EventDelivered
  BY DEF DrainInv, DrainAt, EventDelivered, EventPosted
<1> QED
  BY <1>1, <1>2, InvHolds, FlagHolds, DrainNext, PTL DEF Spec

----------------------------------------------------------------------------
(* Data that waits in the socket. *)

Served(s) == queued[s] \/ s \in Range(kicks) \/ s \in Range(events) \/ svc.sock = s \/ s \in todo

BacklogAt(s) == taken[s] < arrived[s] /\ ~starved /\ ~dropped /\ ~reordered => Served(s)

LEMMA BacklogFrame ==
  ASSUME NEW s, BacklogAt(s), taken'[s] < arrived'[s] => taken[s] < arrived[s],
         starved => starved', dropped => dropped',
         reordered => reordered', queued[s] => Served(s)', s \in Range(kicks) => Served(s)',
         s \in Range(events) => Served(s)', s \in todo => Served(s)', svc.sock = s => Served(s)'
  PROVE  BacklogAt(s)'
  BY DEF BacklogAt, Served

LEMMA BacklogNext == Inv /\ FlagInv /\ BacklogServed /\ [Next]_vars => BacklogServed'
<1> SUFFICES ASSUME Inv, FlagInv, BacklogServed, [Next]_vars, NEW s \in Socks PROVE BacklogAt(s)'
  BY DEF BacklogServed, BacklogAt, Served
<1>1. BacklogAt(s) /\ s # None
  BY RxAssumption DEF BacklogServed, BacklogAt, Served
<1>2. ASSUME UNCHANGED <<arrived, taken, queued, kicks, events, todo, starved, dropped>>,
             svc.sock = s => svc'.sock = s,
             reordered => reordered'
      PROVE  BacklogAt(s)'
  BY <1>1, <1>2, BacklogFrame DEF Served
<1>3. CASE UNCHANGED vars
  BY <1>2, <1>3 DEF vars
<1>4. ASSUME NEW t \in Socks, Arrive(t) PROVE BacklogAt(s)'
  <2>1. UNCHANGED <<taken, kicks, events, todo, starved, dropped, reordered, svc>>
    BY <1>4 DEF Arrive, appVars
  <2>2. CASE s = t
    <3>1. queued'[s]
      BY <1>4, <2>2 DEF Arrive, Inv, Switches
    <3> QED
      BY <3>1 DEF BacklogAt, Served
  <2>3. CASE s # t
    <3>1. queued'[s] = queued[s] /\ arrived'[s] = arrived[s]
      BY <1>4, <2>3 DEF Arrive, Inv, Switches, Counters
    <3> QED
      BY <1>1, <2>1, <3>1, BacklogFrame DEF Served
  <2> QED
    BY <2>2, <2>3
<1>5. ASSUME NEW t \in Socks, ProcessRxReady(t) PROVE BacklogAt(s)'
  <2>1. UNCHANGED <<arrived, taken, kicks, events, todo, starved, dropped, reordered>>
        /\ svc.sock = None
    BY <1>5 DEF ProcessRxReady, appVars, Inv, SvcPlaced
  <2>2. svc'.sock = t
    BY <1>5 DEF ProcessRxReady, Inv, SvcTyped
  <2>3. s # t => queued'[s] = queued[s]
    BY <1>5 DEF ProcessRxReady, Inv, Switches
  <2> QED
    BY <1>1, <2>1, <2>2, <2>3, BacklogFrame DEF Served
<1>6. CASE ProcessRxKick
  <2>1. /\ UNCHANGED <<arrived, taken, queued, events, todo, starved, dropped, reordered>>
        /\ svc.sock = None
        /\ kicks # << >> /\ kicks' = Tail(kicks) /\ kicks \in Seq(Socks)
    BY <1>6 DEF ProcessRxKick, appVars, kernel, Inv, SvcPlaced, Posted
  <2>2. svc'.sock = Head(kicks)
    BY <1>6 DEF ProcessRxKick, Inv, SvcTyped
  <2>3. \A x \in Range(kicks) : x = Head(kicks) \/ x \in Range(Tail(kicks))
    BY <2>1, TailFacts
  <2>4. s \in Range(kicks) => s = Head(kicks) \/ s \in Range(kicks')
    BY <2>1, <2>3
  <2> QED
    BY <1>1, <2>1, <2>2, <2>4, BacklogFrame DEF Served
<1>7. CASE FreeCount
  <2>1. svc'.sock = svc.sock
    BY <1>7 DEF FreeCount, Inv, SvcTyped
  <2> QED
    BY <1>2, <1>7, <2>1 DEF FreeCount, appVars, kernel
<1>8. CASE Receive
  <2>1. UNCHANGED <<arrived, queued, kicks, events, todo, starved, dropped, reordered>> /\ svc.more
    BY <1>8 DEF Receive, appVars, Inv, RoomInv
  <2>2. CASE taken[svc.sock] < arrived[svc.sock] /\ taken' = [taken EXCEPT ![svc.sock] = @ + 1]
             /\ svc' = [svc EXCEPT !.pc = "submit", !.free = @ - 1]
    <3>1. svc'.sock = svc.sock
      BY <2>2 DEF Inv, SvcTyped
    <3>2. CASE s = svc.sock
      BY <3>1, <3>2 DEF BacklogAt, Served
    <3>3. CASE s # svc.sock
      <4>1. taken'[s] = taken[s]
        BY <2>2, <3>3 DEF Inv, Counters
      <4> QED
        BY <1>1, <2>1, <3>1, <3>3, <4>1, BacklogFrame DEF Served
    <3> QED
      BY <3>2, <3>3
  <2>3. CASE svc' = [svc EXCEPT !.pc = "lastmark"] /\ taken' = taken
    <3>1. svc'.sock = svc.sock
      BY <2>3 DEF Inv, SvcTyped
    <3> QED
      BY <1>2, <2>1, <2>3, <3>1
  <2>4. CASE taken[svc.sock] = arrived[svc.sock] /\ taken' = taken
    <3>1. CASE s = svc.sock
      <4>1. ~(arrived[s] < arrived[s])
        BY SMTT(30), Numbers
      <4> QED
        BY <2>1, <2>4, <3>1, <4>1 DEF BacklogAt
    <3>2. CASE s # svc.sock
      BY <1>1, <2>1, <2>4, <3>2, BacklogFrame DEF Served
    <3> QED
      BY <3>1, <3>2
  <2> QED
    BY <1>8, <2>1, <2>2, <2>3, <2>4 DEF Receive
<1>9. CASE Submit
  <2>1. svc'.sock = svc.sock
    BY <1>9 DEF Submit, Inv, SvcTyped
  <2> QED
    BY <1>2, <1>9, <2>1 DEF Submit, appVars, kernel
<1>10. CASE MarkReadable
  <2>0. UNCHANGED <<arrived, taken, queued, kicks, events, todo, starved, dropped, reordered>>
    BY <1>10 DEF MarkReadable, kernel
  <2>1. PICK t \in Socks :
           /\ t = svc.sock /\ svc.pc \in {"mark", "lastmark"}
           /\ \/ ready[t] /\ svc'.pc \in {"receive", "loop"} /\ (svc'.pc = "receive" => svc'.sock = t)
              \/ ~ready[t] /\ svc'.pc \in {"post", "lastpost"} /\ svc'.sock = t
    BY <1>10, MarkEffect
  <2>2. CASE svc'.sock = t
    BY <1>2, <2>0, <2>1, <2>2
  <2>3. CASE s # t
    BY <1>2, <2>0, <2>1, <2>3
  <2>4. CASE s = t /\ ready[t]
    <3>1. ~Posting(s) /\ FlagAt(s)
      BY <2>1 DEF Posting, FlagInv
    <3>2. s \notin todo /\ ~dropped => s \in Range(events)
      BY <2>4, <3>1, StoreBehind DEF FlagAt
    <3> QED
      BY <2>0, <3>2 DEF BacklogAt, Served
  <2> QED
    BY <2>1, <2>2, <2>3, <2>4
<1>11. CASE PostEvent
  <2>0. UNCHANGED <<arrived, taken, queued, kicks, todo, starved, reordered>>
    BY <1>11 DEF PostEvent, kernel
  <2>1. PICK t \in Socks :
           /\ t = svc.sock
           /\ \A x \in Range(events) : x \in Range(events')
           /\ t \in Range(events') \/ dropped'
           /\ dropped => dropped'
    BY <1>11, PostEffect
  <2>2. CASE s = t
    BY <2>1, <2>2 DEF BacklogAt, Served
  <2>3. CASE s # t
    BY <1>1, <2>0, <2>1, <2>3, BacklogFrame DEF Served
  <2> QED
    BY <2>2, <2>3
<1>12. CASE SelectCheck
  <2>1. /\ UNCHANGED <<arrived, taken, queued, kicks, svc, starved, dropped, reordered>>
        /\ app.pc \in {"select", "lastcheck"}
        /\ (UNCHANGED <<todo, events>>) \/ todo' = Range(events)
    BY <1>12 DEF SelectCheck, kernel
  <2>2. todo = {}
    BY <2>1 DEF Inv, AppPlaced
  <2> QED
    BY <1>1, <2>1, <2>2, BacklogFrame DEF Served
<1>13. CASE PselectBegins \/ PselectExpires \/ NextSocket \/ ClearReady \/ StoreDrains \/ MoveBurst
  BY <1>2, <1>13 DEF PselectBegins, PselectExpires, NextSocket, ClearReady, StoreDrains, MoveBurst,
     kernel, appVars
<1>14. CASE SendRxKick
  <2>1. /\ UNCHANGED <<arrived, taken, queued, events, svc, dropped, reordered>>
        /\ todo' = todo \/ todo' = todo \ {app.sock}
    BY <1>14 DEF SendRxKick, kernel
  <2>2. CASE Len(kicks) < CmdRoom
    <3>1. kicks' = Append(kicks, app.sock) /\ starved' = starved
      BY <1>14, <2>2 DEF SendRxKick, Inv, Switches
    <3>2. kicks \in Seq(Socks) /\ app.sock \in Socks
      BY <1>14 DEF SendRxKick, Inv, Posted, AppPlaced, Inside, Places
    <3>3. Range(Append(kicks, app.sock)) = Range(kicks) \cup {app.sock}
      BY SMTT(30), <3>2, AppendFacts
    <3>4. Range(kicks') = Range(kicks) \cup {app.sock}
      BY <3>1, <3>3
    <3> QED
      BY <1>1, <2>1, <3>1, <3>4, BacklogFrame DEF Served
  <2>3. CASE ~(Len(kicks) < CmdRoom)
    <3>1. starved'
      BY <1>14, <2>3 DEF SendRxKick
    <3> QED
      BY <3>1 DEF BacklogAt
  <2> QED
    BY <2>2, <2>3
<1> QED
  BY <1>3, <1>4, <1>5, <1>6, <1>7, <1>8, <1>9, <1>10, <1>11, <1>12, <1>13, <1>14 DEF Next, Service,
     App

(* Data that the rx ring had no room for is not forgotten: whenever some   *)
(* waits in the socket, the socket is on the read queue, an RX_KICK or an  *)
(* event is under way, or one of the two processes is at it, unless a kick *)
(* or an event was lost or the flag's store came late.                     *)
THEOREM BacklogIsServed == Spec => []BacklogServed
<1>1. Init => BacklogServed
  BY DEF Init, BacklogServed
<1> QED
  BY <1>1, InvHolds, FlagHolds, BacklogNext, PTL DEF Spec
=============================================================================
