---------------------------- MODULE TxSpaceProofs ----------------------------
(***************************************************************************)
(* Proofs about TxSpace, for rings, buffers and counts of any size, and    *)
(* both kinds of socket.                                                   *)
(*                                                                         *)
(* SpaceSound is not inductive: that the tx ring has room, and that        *)
(* tx_space of a datagram socket does not become negative, depends on what *)
(* the sender was told before it sent the first buffer of a burst.         *)
(* SenderSound says it, and PostSound where the service goes on.           *)
(* FlagMeansEvent needs FlagInv, which extends it to the steps between the *)
(* clearing of the flag and the wait.                                      *)
(***************************************************************************)
EXTENDS TxSpace, TLAPS

----------------------------------------------------------------------------
(* The least of three integers. *)
LEMMA LeastOfThree ==
  ASSUME NEW a \in Int, NEW b \in Int, NEW c \in Int
  PROVE  Min({a, b, c}) \in {a, b, c} /\ Min({a, b, c}) <= a /\ Min({a, b, c}) <= b
         /\ Min({a, b, c}) <= c
<1>1. \E x \in {a, b, c} : \A y \in {a, b, c} : x <= y
  <2>1. CASE a <= b /\ a <= c
    BY <2>1
  <2>2. CASE b <= a /\ b <= c
    BY <2>2
  <2>3. CASE c <= a /\ c <= b
    BY <2>3
  <2> QED
    BY <2>1, <2>2, <2>3
<1> QED
  BY <1>1 DEF Min

(* The lesser of two. *)
LEMMA LeastOfTwo ==
  ASSUME NEW a \in Int, NEW b \in Int
  PROVE  Min({a, b}) \in {a, b} /\ Min({a, b}) <= a /\ Min({a, b}) <= b
<1>1. \E x \in {a, b} : \A y \in {a, b} : x <= y
  <2>1. CASE a <= b
    BY <2>1
  <2>2. CASE b <= a
    BY <2>2
  <2> QED
    BY <2>1, <2>2
<1> QED
  BY <1>1 DEF Min

(* The greater of two. *)
LEMMA GreatestOfTwo ==
  ASSUME NEW a \in Int, NEW b \in Int
  PROVE  Max({a, b}) \in {a, b} /\ Max({a, b}) >= a /\ Max({a, b}) >= b
<1>1. \E x \in {a, b} : \A y \in {a, b} : x >= y
  <2>1. CASE a >= b
    BY <2>1
  <2>2. CASE b >= a
    BY <2>2
  <2> QED
    BY <2>1, <2>2
<1> QED
  BY <1>1 DEF Max

(* int32_t: a number in range stays what it is, any other comes back into  *)
(* range.                                                                  *)
LEMMA Int32Facts ==
  ASSUME NEW n \in Int
  PROVE  /\ Int32(n) \in -Half .. Half - 1
         /\ -Half <= n /\ n < Half => Int32(n) = n
<1>1. Half \in Nat \ {0}
  BY TxSpaceAssumption
<1> QED
  BY <1>1 DEF Int32

(* As many buffers as fit into n bytes take no more than n bytes. *)
LEMMA QuotientFacts ==
  ASSUME NEW n \in Int
  PROVE  /\ Quotient(n) \in Int
         /\ n >= 0 => Quotient(n) * Unit <= n
<1>1. Unit \in Nat \ {0}
  BY TxSpaceAssumption
<1> QED
  BY <1>1 DEF Quotient

----------------------------------------------------------------------------
(* The sender never has more buffers left than the ring has room for, nor, *)
(* for datagrams, than tx_space has bytes for: it was told the least of    *)
(* both, and the service only adds to them.                                *)
Sending == app \in {"clear", "notify", "send", "enqueue", "count"}
SenderSound ==
  /\ app \in {"send", "enqueue", "count"} => left > 0
  /\ app \in {"clear", "notify", "send", "enqueue"} => ring + left < TxRingSize
  /\ app = "count" => ring + left <= TxRingSize /\ kind = "dgram"
  /\ Sending /\ kind = "dgram" => left * Unit <= txSpace

(* Until it wraps, tx_space covers the room in a stream's send buffer; for *)
(* datagrams it stays within the buffer.                                   *)
RoomCounted ==
  /\ kind = "stream" /\ ~wrapped => txSpace >= Hiwat - cc
  /\ kind = "dgram" => txSpace \in 0 .. Hiwat

(* The service knows where to go on after posting an event. *)
PostSound == svc = "post" <=> next # "none"

SpaceInv == TypeOK /\ RoomCounted /\ SenderSound /\ PostSound

(* What arithmetic needs to know. *)
Numbers ==
  /\ Unit \in Nat \ {0} /\ Low \in Nat \ {0} /\ CmdRoom \in Nat \ {0} /\ SelRoom \in Nat \ {0}
  /\ Hiwat \in Nat /\ TxRingSize \in Nat \ {0, 1} /\ Half \in Nat /\ Half > Hiwat
  /\ txSpace \in -Half .. Half - 1 /\ cc \in 0 .. Hiwat /\ ring \in 0 .. TxRingSize - 1
  /\ left \in 0 .. TxRingSize - 1 /\ events \in 0 .. SelRoom
  /\ MaxAhead \in Nat /\ ahead \in 0 .. MaxAhead

(* The parts of the type invariant. *)
Switches == {flag, done, listed, waits, kicks, wrapped} \subseteq BOOLEAN
Places ==
  /\ kind \in Kinds
  /\ app \in {"select", "space", "clear", "notify", "send", "enqueue", "count", "kick"}
  /\ svc \in {"command", "drainKicked", "drainListed", "network", "waiters", "mark", "post"}
  /\ next \in {"none", "drainKicked", "drainListed", "network", "waiters"}
  /\ excuse \in Excuses
Ranges ==
  /\ txSpace \in -Half .. Half - 1 /\ cc \in 0 .. Hiwat /\ ring \in 0 .. TxRingSize - 1
  /\ left \in 0 .. TxRingSize - 1 /\ events \in 0 .. SelRoom
  /\ ahead \in 0 .. MaxAhead
Queued == cmds \in Seq({"kick", "empty"}) /\ Len(cmds) <= CmdRoom

(* The type invariant is its parts. *)
LEMMA TypeParts == TypeOK <=> Switches /\ Places /\ Ranges /\ Queued
  BY Zenon DEF TypeOK, Switches, Places, Ranges, Queued

(* So it is after a step. *)
LEMMA TypePartsNext == TypeOK' <=> Switches' /\ Places' /\ Ranges' /\ Queued'
  BY TypeParts, PTL

(* The type invariant and the assumption make them numbers. *)
LEMMA TypedNumbers == TypeOK => Numbers
  BY TxSpaceAssumption, Zenon DEF TypeOK, Numbers

(* A new socket has all of its buffer, and at most one event. *)
LEMMA SpaceInit == Init => SpaceInv
<1> SUFFICES ASSUME Init PROVE SpaceInv
  OBVIOUS
<1>1. /\ Hiwat \in -Half .. Half - 1 /\ 0 \in 0 .. Hiwat /\ 0 \in 0 .. TxRingSize - 1
      /\ << >> \in Seq({"kick", "empty"}) /\ Len(<< >>) <= CmdRoom /\ 1 \in 0 .. SelRoom
      /\ 0 \in 0 .. SelRoom /\ 0 \in 0 .. MaxAhead
      /\ Hiwat \in 0 .. Hiwat /\ Hiwat >= Hiwat - 0
  BY TxSpaceAssumption, SMTT(30)
<1>2. /\ flag \in BOOLEAN /\ events \in 0 .. SelRoom /\ excuse \in Excuses
      /\ app \in {"select", "space"}
  BY <1>1, Zenon DEF Init, Excuses
<1>3. TypeOK
  BY <1>1, <1>2, Zenon DEF Init, TypeOK
<1> QED
  BY <1>1, <1>3, Zenon DEF Init, SpaceInv, RoomCounted, SenderSound, Sending, PostSound

(* What the library reports fits the ring, and a datagram socket's         *)
(* tx_space.                                                               *)
LEMMA ReportedFacts ==
  ASSUME TypeOK, NEW free \in 0 .. TxRingSize
  PROVE  /\ Reported(free) \in Int
         /\ Reported(free) <= TxRingSize - 1 - ring
         /\ txSpace >= 0 /\ Reported(free) >= 0 => Reported(free) * Unit <= txSpace
<1>1. /\ TxRingSize - 1 - ring \in Int /\ free \in Int /\ txSpace \in Int /\ Unit \in Nat \ {0}
  BY TxSpaceAssumption DEF TypeOK
<1>2. Quotient(txSpace) \in Int /\ (txSpace >= 0 => Quotient(txSpace) * Unit <= txSpace)
  BY <1>1, QuotientFacts
<1>3. /\ Reported(free) \in {TxRingSize - 1 - ring, free, Quotient(txSpace)}
      /\ Reported(free) <= TxRingSize - 1 - ring /\ Reported(free) <= Quotient(txSpace)
  BY <1>1, <1>2, LeastOfThree, Zenon DEF Reported
<1>4. ASSUME NEW r \in Int, NEW q \in Int, r <= q
      PROVE  r * Unit <= q * Unit
  BY <1>1, <1>4
<1>5. Reported(free) \in Int
  BY <1>1, <1>2, <1>3, Zenon
<1>6. Reported(free) * Unit <= Quotient(txSpace) * Unit
  BY <1>2, <1>3, <1>4, <1>5
<1> HIDE DEF Reported, Quotient
<1>7. ASSUME txSpace >= 0
      PROVE  Reported(free) * Unit <= txSpace
  BY <1>1, <1>2, <1>5, <1>6, <1>7
<1> QED
  BY <1>3, <1>5, <1>7

(* A refused command leaves an excuse. *)
LEMMA PostTypes ==
  ASSUME TypeOK, NEW c \in {"kick", "empty"}, NEW why \in Excuses, Post(c, why)
  PROVE  /\ cmds' \in Seq({"kick", "empty"}) /\ Len(cmds') <= CmdRoom
         /\ excuse' \in Excuses
<1>0. cmds \in Seq({"kick", "empty"}) /\ Len(cmds) <= CmdRoom /\ CmdRoom \in Nat
  BY TxSpaceAssumption, Zenon DEF TypeOK
<1>1. ASSUME cmds' = Append(cmds, c), Len(cmds) < CmdRoom
      PROVE  cmds' \in Seq({"kick", "empty"}) /\ Len(cmds') <= CmdRoom
  BY <1>0, <1>1
<1> QED
  BY <1>0, <1>1, Zenon DEF Post, Excused, Excuses, TypeOK

(* The steps of the sender keep the flags, the places and the commands in  *)
(* their types.                                                            *)
LEMMA AppTypes ==
  ASSUME TypeOK, App
  PROVE  Switches' /\ Places' /\ Queued'
<1> USE ZenonT(20)
<1>1. UNCHANGED <<kind, cc, listed, waits, ahead, svc, next, wrapped>>
  BY DEF App, Select, GetSpace, ClearFlag, Notify, NoBuffer, SendClear, SendEnqueue,
       SendCount, Kick, shared, serviceLocal
<1>2. Switches'
  BY TypeParts DEF App, Select, GetSpace, ClearFlag, Notify, NoBuffer, SendClear, SendEnqueue,
       SendCount, Kick, shared, serviceLocal, Switches
<1>3. app' \in {"select", "space", "clear", "notify", "send", "enqueue", "count", "kick"}
  BY DEF App, Select, GetSpace, ClearFlag, Notify, NoBuffer, SendClear, SendEnqueue,
       SendCount, Kick, SentOne
<1>4. excuse' \in Excuses
  BY PostTypes DEF App, Select, GetSpace, ClearFlag, Notify, NoBuffer, SendClear, SendEnqueue,
       SendCount, Kick, Excused, Excuses, TypeOK
<1>5. Places'
  BY <1>1, <1>3, <1>4, TypeParts DEF Places
<1>6. Queued'
  BY TypeParts, PostTypes DEF App, Select, GetSpace, ClearFlag, Notify, NoBuffer, SendClear,
       SendEnqueue, SendCount, Kick, shared, serviceLocal, Queued, Excuses
<1> QED
  BY <1>2, <1>5, <1>6

(* The steps of the sender. *)
LEMMA SpaceApp ==
  ASSUME SpaceInv, App
  PROVE  SpaceInv'
<1> USE ZenonT(20)
<1>0. Numbers /\ TypeOK /\ RoomCounted /\ SenderSound /\ PostSound
  BY TypedNumbers DEF SpaceInv
<1>1. PostSound' /\ UNCHANGED <<kind, cc, listed, waits, ahead, svc, next, wrapped>>
  BY <1>0 DEF App, Select, GetSpace, ClearFlag, Notify, NoBuffer, SendClear, SendEnqueue,
       SendCount, Kick, shared, serviceLocal, PostSound
<1>12. ASSUME Ranges' PROVE TypeOK'
  BY <1>0, <1>12, AppTypes, TypePartsNext
<1>13. Ranges
  BY <1>0, TypeParts
<1>2. ASSUME TypeOK', UNCHANGED txSpace, SenderSound'
      PROVE  SpaceInv'
  BY <1>0, <1>1, <1>2 DEF SpaceInv, RoomCounted
<1>3. CASE Select
  <2>1. 0 \in 0 .. SelRoom
    BY SMTT(30), <1>0 DEF Numbers
  <2>2. TypeOK'
    BY <1>12, <1>13, <1>1, <1>3, <2>1 DEF Ranges, Select
  <2>3. app' = "space" /\ UNCHANGED txSpace
    BY <1>3 DEF Select
  <2>4. SenderSound'
    BY <2>3 DEF SenderSound, Sending
  <2> QED
    BY <1>2, <2>2, <2>3, <2>4
<1>4. CASE GetSpace
  <2>1. PICK free \in 0 .. TxRingSize :
          /\ left' = Max({0, Reported(free)}) /\ kicks' = (Reported(free) # 0)
          /\ app' = IF Reported(free) < Low THEN "clear" ELSE "send"
    BY <1>4 DEF GetSpace
  <2>13. /\ Reported(free) \in Int /\ Reported(free) <= TxRingSize - 1 - ring
         /\ txSpace >= 0 /\ Reported(free) >= 0 => Reported(free) * Unit <= txSpace
    BY <1>0, ReportedFacts
  <2> HIDE DEF Reported
  <2>2. PICK r \in Int : r = Reported(free)
    BY <2>13
  <2>3. left' \in {0, r} /\ left' >= 0 /\ left' >= r
    <3>1. 0 \in Int
      BY SMTT(30)
    <3> QED
      BY <2>1, <2>2, <3>1, GreatestOfTwo
  <2>4. left' \in 0 .. TxRingSize - 1 /\ ring + left' < TxRingSize
    <3>1. r <= TxRingSize - 1 - ring
      BY <2>2, <2>13
    <3>2. 0 \in 0 .. TxRingSize - 1 /\ ring + 0 < TxRingSize
      BY SMTT(30), <1>0 DEF Numbers
    <3>3. r >= 0 => r \in 0 .. TxRingSize - 1 /\ ring + r < TxRingSize
      BY SMTT(30), <1>0, <3>1 DEF Numbers
    <3> QED
      BY <2>3, <3>2, <3>3
  <2>5. txSpace >= 0 => left' * Unit <= txSpace
    <3>1. txSpace >= 0 /\ r >= 0 => r * Unit <= txSpace
      BY <2>2, <2>13
    <3>2. CASE left' = 0
      <4>1. 0 * Unit = 0
        BY SMTT(30), <1>0 DEF Numbers
      <4> QED
        BY <3>2, <4>1
    <3>3. CASE left' = r
      BY <2>3, <3>1, <3>3
    <3> QED
      BY <2>3, <3>2, <3>3
  <2>6. ~(r < Low) => left' > 0
    BY SMTT(30), <1>0, <2>3 DEF Numbers
  <2>7. app' \in {"clear", "send"} /\ (app' = "send" => left' > 0)
    <3>1. CASE r < Low
      BY <2>1, <2>2, <3>1, SMTT(30)
    <3>2. CASE ~(r < Low)
      BY <2>1, <2>2, <2>6, <3>2, SMTT(30)
    <3> QED
      BY <3>1, <3>2
  <2>8. TypeOK'
    BY <1>12, <1>13, <1>1, <1>4, <2>4 DEF Ranges, GetSpace, shared
  <2>9. kind = "dgram" => txSpace >= 0
    BY SMTT(30), <1>0 DEF RoomCounted, Numbers
  <2>10. UNCHANGED <<txSpace, ring>>
    BY <1>4 DEF GetSpace, shared
  <2>11. ring' + left' < TxRingSize /\ (kind' = "dgram" => left' * Unit <= txSpace')
    BY <1>1, <2>4, <2>5, <2>9, <2>10
  <2>12. SenderSound'
    BY <2>7, <2>11, SMTT(30) DEF SenderSound, Sending
  <2> QED
    BY <1>2, <2>8, <2>10, <2>12
<1>5. CASE ClearFlag
  <2>1. TypeOK'
    BY <1>12, <1>13, <1>1, <1>5 DEF ClearFlag, Ranges
  <2>2. app = "clear" /\ app' = "notify" /\ UNCHANGED <<txSpace, left, ring, kind>>
    BY <1>5 DEF ClearFlag
  <2>3. SenderSound'
    BY <1>0, <2>2, SMTT(30) DEF SenderSound, Sending
  <2> QED
    BY <1>2, <2>1, <2>2, <2>3
<1>6. CASE Notify
  <2>1. TypeOK'
    BY <1>12, <1>13, <1>1, <1>6 DEF Notify, Ranges
  <2>2. /\ app = "notify" /\ UNCHANGED <<txSpace, left, ring, kind>>
        /\ app' \in {"send", "kick", "select"} /\ (app' = "send" => left > 0)
    BY <1>6, SMTT(30) DEF Notify
  <2>3. SenderSound'
    BY <1>0, <2>2, SMTT(30) DEF SenderSound, Sending
  <2> QED
    BY <1>2, <2>1, <2>2, <2>3
<1>7. CASE NoBuffer
  <2>1. /\ 0 \in 0 .. TxRingSize - 1 /\ ring + 0 < TxRingSize
        /\ txSpace >= 0 => 0 * Unit <= txSpace
    BY SMTT(30), <1>0 DEF Numbers
  <2>2. kind = "dgram" => txSpace >= 0
    BY SMTT(30), <1>0 DEF RoomCounted, Numbers
  <2>3. TypeOK'
    BY <1>12, <1>13, <1>1, <1>7, <2>1 DEF NoBuffer, Ranges, shared
  <2>4. SenderSound'
    <3>1. app' = "notify" /\ left' = 0 /\ UNCHANGED <<ring, txSpace, kind>>
      BY <1>7 DEF NoBuffer, shared
    <3> QED
      BY <2>1, <2>2, <3>1, SMTT(30) DEF SenderSound, Sending
  <2> QED
    BY <1>2, <1>7, <2>3, <2>4 DEF NoBuffer, shared
<1>8. CASE SendClear
  <2>1. TypeOK'
    BY <1>12, <1>13, <1>1, <1>8 DEF SendClear, Ranges
  <2>2. app = "send" /\ app' = "enqueue" /\ UNCHANGED <<txSpace, left, ring, kind>>
    BY <1>8 DEF SendClear
  <2>3. SenderSound'
    BY <1>0, <2>2, SMTT(30) DEF SenderSound, Sending
  <2> QED
    BY <1>2, <2>1, <2>2, <2>3
<1>9. CASE SendEnqueue
  <2>1. left > 0 /\ ring + left < TxRingSize
    BY <1>0, <1>9 DEF SendEnqueue, SenderSound
  <2>2. /\ ring + 1 \in 0 .. TxRingSize - 1 /\ left - 1 \in 0 .. TxRingSize - 1
        /\ (ring + 1) + left <= TxRingSize /\ (ring + 1) + (left - 1) < TxRingSize
        /\ left > 1 => left - 1 > 0
    BY SMTT(30), <1>0, <2>1 DEF Numbers
  <2>3. TypeOK'
    BY <1>12, <1>13, <1>1, <1>9, <2>2 DEF SendEnqueue, SentOne, Ranges
  <2>4. SenderSound'
    BY <1>0, <1>1, <1>9, <2>1, <2>2 DEF SendEnqueue, SentOne, SenderSound, Sending
  <2> QED
    BY <1>2, <1>9, <2>3, <2>4 DEF SendEnqueue
<1>10. CASE SendCount
  <2>1. left > 0 /\ ring + left <= TxRingSize /\ kind = "dgram" /\ left * Unit <= txSpace
    BY <1>0, <1>10 DEF SendCount, SenderSound, Sending
  <2>2. txSpace \in 0 .. Hiwat
    BY <1>0, <2>1 DEF RoomCounted
  <2>3. (left - 1) * Unit = left * Unit - Unit
    BY SMTT(30), <1>0 DEF Numbers
  <2>4. left * Unit >= Unit /\ left * Unit \in Int
    BY SMTT(30), <1>0, <2>1 DEF Numbers
  <2>5. txSpace' = txSpace - Unit
    BY SMTT(30), <1>0, <1>10, <2>1, <2>2, <2>4, Int32Facts DEF Numbers, SendCount
  <2>6. /\ txSpace' \in 0 .. Hiwat /\ txSpace' \in -Half .. Half - 1
        /\ (left - 1) * Unit <= txSpace'
    BY SMTT(30), <1>0, <2>1, <2>2, <2>3, <2>4, <2>5 DEF Numbers
  <2>7. /\ left - 1 \in 0 .. TxRingSize - 1 /\ ring + (left - 1) < TxRingSize
        /\ left > 1 => left - 1 > 0
    BY SMTT(30), <1>0, <2>1 DEF Numbers
  <2>8. TypeOK'
    BY <1>12, <1>13, <1>1, <1>10, <2>6, <2>7 DEF SendCount, SentOne, Ranges
  <2>9. SenderSound'
    BY <1>1, <1>10, <2>6, <2>7 DEF SendCount, SentOne, SenderSound, Sending
  <2> QED
    BY <1>1, <2>1, <2>6, <2>8, <2>9 DEF SpaceInv, RoomCounted
<1>11. CASE Kick
  <2>1. TypeOK'
    BY <1>12, <1>13, <1>1, <1>11 DEF Kick, Ranges
  <2> QED
    BY <1>2, <1>11, <2>1 DEF Kick, SenderSound, Sending

<1> QED
  BY <1>3, <1>4, <1>5, <1>6, <1>7, <1>8, <1>9, <1>10, <1>11 DEF App

(* What the service does to the numbers: it takes buffers off the ring,    *)
(* and adds to tx_space what it appends to or drops from a stream's        *)
(* buffers, or sets tx_space of a datagram socket to sb_hiwat.             *)
SpaceKept == UNCHANGED <<txSpace, cc, wrapped>>
SpaceReset == kind = "dgram" /\ txSpace' = Hiwat /\ UNCHANGED <<cc, wrapped>>
SpaceAdded ==
  /\ kind = "stream"
  /\ \E n \in 1 .. Unit :
       /\ txSpace' = Added(n) /\ wrapped' = (wrapped \/ txSpace + n >= Half)
       /\ \/ cc' = cc + n /\ n <= Hiwat - cc
          \/ cc' = cc
          \/ cc' = cc - n /\ n <= cc

(* Every step of the service does one of the three. *)
LEMMA ServiceSpace ==
  ASSUME TypeOK, Service
  PROVE  SpaceKept \/ SpaceReset \/ SpaceAdded
<1> USE ZenonT(20)
<1>0. Numbers
  BY TypedNumbers
<1>1. Unit \in 1 .. Unit /\ (Unit <= Hiwat - cc => Unit <= Hiwat - cc)
  BY SMTT(30), <1>0 DEF Numbers
<1>2. CASE SendStream
  BY <1>1, <1>2 DEF SendStream, Reflect, SpaceKept, SpaceAdded
<1>3. CASE Acked
  <2>1. PICK n \in 1 .. Min({cc, Unit}) : cc' = cc - n /\ Reflect(n, "network")
    BY <1>3 DEF Acked
  <2>2. Min({cc, Unit}) \in {cc, Unit} /\ Min({cc, Unit}) <= cc /\ Min({cc, Unit}) <= Unit
    <3>1. cc \in Int /\ Unit \in Int
      BY SMTT(30), <1>0 DEF Numbers
    <3> QED
      BY <3>1, LeastOfTwo
  <2> HIDE DEF Min
  <2>3. n \in 1 .. Unit /\ n <= cc
    BY SMTT(30), <1>0, <2>2 DEF Numbers
  <2> QED
    BY <1>3, <2>1, <2>3 DEF Acked, Reflect, SpaceAdded
<1>4. CASE DataArrives
  BY <1>0, <1>4, TypeParts DEF DataArrives, Reflect, SpaceKept, SpaceAdded, Places
<1>5. CASE ProcessTxPoolEmpty
  BY <1>5 DEF ProcessTxPoolEmpty, SpaceKept, SpaceReset
<1>6. CASE WaiterSpace
  BY <1>6 DEF WaiterSpace, SpaceKept, SpaceReset
<1> QED
  BY <1>2, <1>3, <1>4, <1>5, <1>6 DEF Service, ProcessKick, ProcessTxPoolEmpty, NoCommand,
       SendStream, SendDatagrams, Drained, PostEvent, Acked, DataArrives, NetworkDone,
       WaiterAhead, WaiterSpace, WaiterMark, WaitersDone, SpaceKept, shared

(* Where the service is and goes on. *)
PlaceSound ==
  /\ svc \in {"command", "drainKicked", "drainListed", "network", "waiters", "mark", "post"}
  /\ next \in {"none", "drainKicked", "drainListed", "network", "waiters"}
  /\ PostSound

(* The steps of the service keep the flags, the places and the commands in *)
(* their types.                                                            *)
LEMMA ServiceTypes ==
  ASSUME TypeOK, PostSound, Service
  PROVE  Switches' /\ Places' /\ Queued' /\ PostSound'
<1> USE ZenonT(20)
<1>1. UNCHANGED <<kind, app, left, kicks>>
  BY DEF Service, ProcessKick, ProcessTxPoolEmpty, NoCommand, SendStream, SendDatagrams,
       Drained, PostEvent, Acked, DataArrives, NetworkDone, WaiterAhead, WaiterSpace,
       WaiterMark, WaitersDone, appLocal
<1>2. Switches'
  BY TypeParts DEF Service, ProcessKick, ProcessTxPoolEmpty, NoCommand, SendStream,
       SendDatagrams, Drained, PostEvent, Acked, DataArrives, NetworkDone, WaiterAhead,
       WaiterSpace, WaiterMark, WaitersDone, Reflect, Mark, Goto, Unlisted, appLocal, shared,
       Switches
<1>3. excuse' \in Excuses
  BY DEF Service, ProcessKick, ProcessTxPoolEmpty, NoCommand, SendStream, SendDatagrams,
       Drained, PostEvent, Acked, DataArrives, NetworkDone, WaiterAhead, WaiterSpace,
       WaiterMark, WaitersDone, Excused, Excuses, TypeOK
<1>4. PlaceSound'
  <2>0. PlaceSound
    BY TypeParts DEF Places, PlaceSound
  <2>1. ASSUME NEW l \in {"command", "drainKicked", "drainListed", "network", "waiters", "mark"},
               Goto(l)
        PROVE  PlaceSound'
    BY <2>1 DEF Goto, PlaceSound, PostSound
  <2>2. ASSUME NEW l \in {"drainKicked", "drainListed", "network", "waiters"}, Mark(l)
        PROVE  PlaceSound'
    BY <2>2 DEF Mark, PlaceSound, PostSound
  <2>3. ASSUME UNCHANGED <<svc, next>>
        PROVE  PlaceSound'
    BY <2>0, <2>3 DEF PlaceSound, PostSound
  <2>4. ASSUME NEW l \in {"drainKicked", "drainListed", "network", "waiters"}, NEW n, Reflect(n, l)
        PROVE  PlaceSound'
    BY <2>1, <2>2, <2>4 DEF Reflect
  <2>5. ProcessTxReady \in {"drainListed", "network"}
    BY DEF ProcessTxReady
  <2>6. AfterDrain \in {"drainListed", "network"}
    BY <2>5 DEF AfterDrain
  <2> HIDE DEF ProcessTxReady, AfterDrain
  <2>7. CASE ProcessKick
    BY <2>1, <2>7 DEF ProcessKick
  <2>8. CASE ProcessTxPoolEmpty \/ NoCommand
    BY <2>1, <2>5, <2>8 DEF ProcessTxPoolEmpty, NoCommand
  <2>9. CASE SendStream
    BY <2>3, <2>4, <2>9 DEF SendStream, Draining
  <2>10. CASE SendDatagrams
    <3>1. svc' = svc \/ svc' = AfterDrain
      BY <2>10 DEF SendDatagrams
    <3>2. svc \in {"drainKicked", "drainListed"} /\ next' = next
      BY <2>10 DEF SendDatagrams, Draining
    <3>3. next' = "none"
      BY <2>0, <3>2 DEF PlaceSound, PostSound
    <3>4. svc' \in {"drainKicked", "drainListed", "network"}
      BY <2>6, <3>1, <3>2
    <3> QED
      BY <3>3, <3>4 DEF PlaceSound, PostSound
  <2>11. CASE Drained
    BY <2>2, <2>6, <2>11 DEF Drained
  <2>12. CASE PostEvent
    <3>1. next \in {"drainKicked", "drainListed", "network", "waiters"}
      BY <2>0, <2>12 DEF PostEvent, PlaceSound, PostSound
    <3>2. \E l \in {next, "command"} : Goto(l)
      BY <2>12 DEF PostEvent
    <3> QED
      BY <2>1, <3>1, <3>2
  <2>13. CASE Acked
    BY <2>4, <2>13 DEF Acked
  <2>14. CASE DataArrives
    BY <2>3, <2>4, <2>14 DEF DataArrives
  <2>15. CASE NetworkDone \/ WaiterSpace \/ WaitersDone
    BY <2>1, <2>15 DEF NetworkDone, WaiterSpace, WaitersDone
  <2>17. CASE WaiterAhead
    BY <2>1, <2>3, <2>17 DEF WaiterAhead
  <2>16. CASE WaiterMark
    BY <2>1, <2>2, <2>16 DEF WaiterMark
  <2> QED
    BY <2>7, <2>8, <2>9, <2>10, <2>11, <2>12, <2>13, <2>14, <2>15, <2>16, <2>17 DEF Service
<1>5. Places'
  BY <1>1, <1>3, <1>4, TypeParts DEF Places, PlaceSound
<1>6. Queued'
  <2>0. Queued /\ CmdRoom \in Nat
    BY TypeParts, TypedNumbers DEF Numbers
  <2>1. ASSUME cmds # << >>, cmds' = Tail(cmds) PROVE Queued'
    BY SMTT(30), <2>0, <2>1 DEF Queued
  <2> QED
    BY <2>0, <2>1 DEF Service, ProcessKick, ProcessTxPoolEmpty, NoCommand, SendStream,
         SendDatagrams, Drained, PostEvent, Acked, DataArrives, NetworkDone, WaiterAhead,
         WaiterSpace, WaiterMark, WaitersDone, shared, Queued
<1> QED
  BY <1>2, <1>4, <1>5, <1>6 DEF PlaceSound

(* The steps of the service. *)
LEMMA SpaceService ==
  ASSUME SpaceInv, Service
  PROVE  SpaceInv'
<1> USE ZenonT(20)
<1>0. Numbers /\ TypeOK /\ RoomCounted /\ SenderSound /\ PostSound /\ Ranges
  BY TypedNumbers, TypeParts DEF SpaceInv
<1>1. UNCHANGED <<kind, app, left>>
  BY DEF Service, ProcessKick, ProcessTxPoolEmpty, NoCommand, SendStream, SendDatagrams,
       Drained, PostEvent, Acked, DataArrives, NetworkDone, WaiterAhead, WaiterSpace,
       WaiterMark, WaitersDone, appLocal
<1>2. ring' \in 0 .. TxRingSize - 1 /\ ring' <= ring
  <2>1. ring' = ring \/ ring' = 0 \/ (ring > 0 /\ ring' = ring - 1)
    BY DEF Service, ProcessKick, ProcessTxPoolEmpty, NoCommand, SendStream, SendDatagrams,
         Drained, PostEvent, Acked, DataArrives, NetworkDone, WaiterAhead, WaiterSpace,
         WaiterMark, WaitersDone, shared
  <2> QED
    BY SMTT(30), <1>0, <2>1 DEF Numbers
<1>3. events' \in 0 .. SelRoom
  <2>1. events' = events \/ (events < SelRoom /\ events' = events + 1)
    BY DEF Service, ProcessKick, ProcessTxPoolEmpty, NoCommand, SendStream, SendDatagrams,
         Drained, PostEvent, Acked, DataArrives, NetworkDone, WaiterAhead, WaiterSpace,
         WaiterMark, WaitersDone, shared
  <2> QED
    BY SMTT(30), <1>0, <2>1 DEF Numbers
<1>4. /\ txSpace' \in -Half .. Half - 1 /\ cc' \in 0 .. Hiwat
      /\ kind = "dgram" => txSpace' \in 0 .. Hiwat /\ txSpace' >= txSpace
      /\ kind = "stream" /\ ~wrapped' => txSpace' >= Hiwat - cc'
  <2>1. CASE SpaceKept
    <3>1. txSpace >= txSpace
      BY SMTT(30), <1>0 DEF Numbers
    <3> QED
      BY <1>0, <2>1, <3>1 DEF SpaceKept, RoomCounted, Ranges
  <2>2. CASE SpaceReset
    <3>1. /\ Hiwat \in -Half .. Half - 1 /\ Hiwat \in 0 .. Hiwat
          /\ txSpace \in 0 .. Hiwat => Hiwat >= txSpace
      BY SMTT(30), <1>0 DEF Numbers
    <3> QED
      BY <1>0, <2>2, <3>1 DEF SpaceReset, RoomCounted, Ranges
  <2>3. CASE SpaceAdded
    <3>1. PICK n \in 1 .. Unit :
            /\ txSpace' = Int32(txSpace + n) /\ wrapped' = (wrapped \/ txSpace + n >= Half)
            /\ \/ cc' = cc + n /\ n <= Hiwat - cc
               \/ cc' = cc
               \/ cc' = cc - n /\ n <= cc
      BY <2>3 DEF SpaceAdded, Added
    <3>2. /\ txSpace + n \in Int /\ -Half <= txSpace + n /\ n \in Nat
          /\ ~(txSpace + n >= Half) => txSpace + n < Half
      BY SMTT(30), <1>0 DEF Numbers
    <3>3. txSpace' \in -Half .. Half - 1 /\ (txSpace + n < Half => txSpace' = txSpace + n)
      BY <3>1, <3>2, Int32Facts
    <3>4. cc' \in 0 .. Hiwat /\ cc' >= cc - n
      BY SMTT(30), <1>0, <3>1, <3>2 DEF Numbers
    <3>5. ASSUME txSpace >= Hiwat - cc
          PROVE  txSpace + n >= Hiwat - cc'
      <4>1. ASSUME NEW t \in Int, NEW h \in Int, NEW c \in Int, NEW d \in Int, NEW m \in Int,
                   t >= h - c, d >= c - m
            PROVE  t + m >= h - d
        BY SMTT(30), <4>1
      <4>2. txSpace \in Int /\ Hiwat \in Int /\ cc \in Int /\ cc' \in Int /\ n \in Int
        BY SMTT(30), <1>0, <3>2, <3>4 DEF Numbers
      <4> QED
        BY <3>4, <3>5, <4>1, <4>2
    <3>6. ASSUME ~wrapped' PROVE ~wrapped /\ txSpace + n < Half
      BY <3>1, <3>2, <3>6
    <3>7. kind = "stream"
      BY <2>3 DEF SpaceAdded
    <3> QED
      BY SMTT(30), <1>0, <3>3, <3>4, <3>5, <3>6, <3>7 DEF RoomCounted
  <2> QED
    BY <1>0, <2>1, <2>2, <2>3, ServiceSpace
<1>8. ahead' \in 0 .. MaxAhead
  <2>1. ahead' = ahead \/ ahead' \in 0 .. MaxAhead \/ (ahead > 0 /\ ahead' = ahead - 1)
    BY DEF Service, ProcessKick, ProcessTxPoolEmpty, NoCommand, SendStream, SendDatagrams,
         Drained, PostEvent, Acked, DataArrives, NetworkDone, WaiterAhead, WaiterSpace,
         WaiterMark, WaitersDone
  <2> QED
    BY SMTT(30), <1>0, <2>1 DEF Numbers
<1>5. Ranges' /\ RoomCounted'
  BY <1>0, <1>1, <1>2, <1>3, <1>4, <1>8 DEF Ranges, RoomCounted
<1>6. TypeOK' /\ PostSound'
  BY <1>0, <1>5, ServiceTypes, TypePartsNext
<1>7. SenderSound'
  <2>1. /\ ring + left < TxRingSize => ring' + left < TxRingSize
        /\ ring + left <= TxRingSize => ring' + left <= TxRingSize
    <3>1. ASSUME NEW r \in Int, NEW q \in Int, NEW l \in Int, NEW t \in Int, q <= r
          PROVE  (r + l < t => q + l < t) /\ (r + l <= t => q + l <= t)
      BY SMTT(30), <3>1
    <3>2. ring \in Int /\ ring' \in Int /\ left \in Int /\ TxRingSize \in Int
      BY SMTT(30), <1>0, <1>2 DEF Numbers
    <3> QED
      BY <1>2, <3>1, <3>2
  <2>2. kind = "dgram" /\ left * Unit <= txSpace => left * Unit <= txSpace'
    <3>1. left * Unit \in Int
      BY SMTT(30), <1>0 DEF Numbers
    <3> QED
      BY SMTT(30), <1>0, <1>4, <3>1 DEF Numbers
  <2> QED
    BY <1>0, <1>1, <2>1, <2>2 DEF SenderSound, Sending
<1> QED
  BY <1>5, <1>6, <1>7 DEF SpaceInv

(* The invariant holds. *)
LEMMA SpaceInvariant == Spec => []SpaceInv
<1>1. SpaceInv /\ [Next]_vars => SpaceInv'
  <2>1. SpaceInv /\ UNCHANGED vars => SpaceInv'
    <3> SUFFICES ASSUME SpaceInv, UNCHANGED vars PROVE SpaceInv'
      OBVIOUS
    <3>1. TypeOK'
      <4>1. Switches' /\ Ranges' /\ Queued'
        BY TypeParts, Zenon DEF SpaceInv, Switches, Ranges, Queued, vars, shared
      <4>2. Places'
        BY TypeParts, Zenon DEF SpaceInv, Places, vars
      <4> QED
        BY <4>1, <4>2, TypePartsNext
    <3>2. RoomCounted' /\ SenderSound'
      <4>1. UNCHANGED <<kind, wrapped, txSpace, cc, app, left, ring>>
        BY Zenon DEF vars, shared
      <4>2. RoomCounted'
        BY <4>1, SMTT(30) DEF SpaceInv, RoomCounted
      <4> QED
        BY <4>1, <4>2, ZenonT(20) DEF SpaceInv, SenderSound, Sending
    <3>3. PostSound'
      BY Zenon DEF SpaceInv, PostSound, vars
    <3> QED
      BY <3>1, <3>2, <3>3 DEF SpaceInv
  <2> QED
    BY <2>1, SpaceApp, SpaceService DEF Next
<1> QED
  BY <1>1, SpaceInit, PTL DEF Spec

(* tx_space covers the room of a stream until it wraps, and stays within   *)
(* the buffer for datagrams; the tx ring is never asked for more entries   *)
(* than it has.                                                            *)
THEOREM SpaceIsSound == Spec => []SpaceSound
<1>1. SpaceInv => SpaceSound
  BY DEF SpaceInv, RoomCounted, SpaceSound
<1> QED
  BY <1>1, SpaceInvariant, PTL

----------------------------------------------------------------------------
(* While the sender is between clearing the flag and its next wait, a set  *)
(* flag means that an event was posted since, or is about to be.           *)
Cleared == app \in {"notify", "enqueue", "count", "kick", "select"}
FlagInv == Cleared /\ flag /\ svc # "post" => events > 0 \/ excuse # "none"

(* The sender keeps it: what is sent, and what is asked for, comes after   *)
(* the clearing.                                                           *)
LEMMA FlagApp ==
  ASSUME TypeOK, FlagInv, App
  PROVE  FlagInv'
<1> USE ZenonT(20)
<1>1. UNCHANGED svc
  BY DEF App, Select, GetSpace, ClearFlag, Notify, NoBuffer, SendClear, SendEnqueue, SendCount,
       Kick, serviceLocal
<1>2. CASE Select \/ GetSpace
  BY <1>2 DEF Select, GetSpace, FlagInv, Cleared
<1>3. CASE ClearFlag \/ SendClear
  BY <1>3 DEF ClearFlag, SendClear, FlagInv
<1>5. CASE Notify \/ SendEnqueue \/ SendCount \/ Kick
  <2>2. excuse # "none" => excuse' # "none"
    BY <1>5 DEF Notify, SendEnqueue, SendCount, Kick, Post, Excused
  <2>1. Cleared /\ UNCHANGED <<flag, events>>
    BY <1>5 DEF Notify, SendEnqueue, SendCount, Kick, Cleared
  <2> QED
    BY <1>1, <2>1, <2>2 DEF FlagInv
<1>6. CASE NoBuffer
  <2>1. flag' => excuse' # "none"
    BY <1>6 DEF NoBuffer, Excused, shared
  <2> QED
    BY <2>1 DEF FlagInv
<1> QED
  BY <1>2, <1>3, <1>5, <1>6 DEF App

(* The service keeps it: service_mark_writable goes on to post when it     *)
(* sets the flag.                                                          *)
LEMMA FlagService ==
  ASSUME TypeOK, PostSound, FlagInv, Service
  PROVE  FlagInv'
<1> USE ZenonT(20)
<1>0. events \in 0 .. SelRoom /\ SelRoom \in Nat
  BY TypedNumbers DEF Numbers
<1>1. UNCHANGED app /\ (excuse # "none" => excuse' # "none")
  BY DEF Service, ProcessKick, ProcessTxPoolEmpty, NoCommand, SendStream, SendDatagrams,
       Drained, PostEvent, Acked, DataArrives, NetworkDone, WaiterAhead, WaiterSpace,
       WaiterMark, WaitersDone, appLocal, Excused
<1>2. CASE PostEvent
  <2>1. events + 1 > 0 /\ (events = 0 \/ events > 0)
    BY SMTT(30), <1>0
  <2>2. Excused("untold") => excuse' # "none"
    BY DEF Excused
  <2>3. events' = events + 1 \/ (UNCHANGED events /\ (events = 0 => excuse' # "none"))
    BY <1>2, <2>2 DEF PostEvent
  <2> QED
    BY <2>1, <2>3 DEF FlagInv
<1>3. ASSUME ~PostEvent
      PROVE  /\ UNCHANGED events /\ svc # "post"
             /\ flag' /\ svc' # "post" => flag
  <2>1. UNCHANGED events
    BY <1>3 DEF Service, ProcessKick, ProcessTxPoolEmpty, NoCommand, SendStream, SendDatagrams,
         Drained, Acked, DataArrives, NetworkDone, WaiterAhead, WaiterSpace, WaiterMark,
         WaitersDone, shared
  <2>2. svc # "post"
    BY <1>3, SMTT(30) DEF Service, ProcessKick, ProcessTxPoolEmpty, NoCommand, SendStream,
         SendDatagrams, Drained, Acked, DataArrives, NetworkDone, WaiterAhead, WaiterSpace,
         WaiterMark, WaitersDone, Draining
  <2>3. \A l : Mark(l) /\ svc' # "post" => flag
    BY DEF Mark
  <2>4. \A n, l : Reflect(n, l) /\ flag' /\ svc' # "post" => flag
    BY <2>3 DEF Reflect
  <2>5. flag' /\ svc' # "post" => flag
    BY <1>3, <2>3, <2>4 DEF Service, ProcessKick, ProcessTxPoolEmpty, NoCommand, SendStream,
         SendDatagrams, Drained, Acked, DataArrives, NetworkDone, WaiterAhead, WaiterSpace,
         WaiterMark, WaitersDone, shared
  <2> QED
    BY <2>1, <2>2, <2>5
<1>4. ASSUME ~PostEvent PROVE FlagInv'
  BY <1>1, <1>3, <1>4 DEF FlagInv, Cleared
<1> QED
  BY <1>2, <1>4

(* A sender that waits finds the flag clear or an event on its way, unless *)
(* there is an excuse.                                                     *)
THEOREM FlagTellsEvent == Spec => []FlagMeansEvent
<1>1. Init => FlagInv
  <2> SUFFICES ASSUME Init PROVE FlagInv
    OBVIOUS
  <2>1. /\ events \in {0, 1} /\ app \in {"select", "space"}
        /\ app = "select" /\ events = 0 => excuse = "untold"
    BY Zenon DEF Init
  <2>2. events = 1 => events > 0
    BY SMTT(30)
  <2>3. Cleared => app = "select"
    BY <2>1, SMTT(30) DEF Cleared
  <2> QED
    BY <2>1, <2>2, <2>3, Zenon DEF FlagInv
<1>2. FlagInv /\ UNCHANGED vars => FlagInv'
  BY Zenon DEF FlagInv, Cleared, vars, shared
<1>3. SpaceInv /\ FlagInv /\ [Next]_vars => FlagInv'
  BY <1>2, FlagApp, FlagService DEF Next, SpaceInv
<1>4. TypeOK /\ FlagInv => FlagMeansEvent
  BY SMTT(30) DEF FlagInv, FlagMeansEvent, Waiting, Cleared
<1> QED
  BY <1>1, <1>3, <1>4, SpaceInvariant, PTL DEF Spec, SpaceInv
=============================================================================
