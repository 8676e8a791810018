---------------------------- MODULE TxPathProofs ----------------------------
(***************************************************************************)
(* Proofs about TxPath, for rings and pools of any size and any number of  *)
(* buffers sent.                                                           *)
(*                                                                         *)
(* KickDelivered is not inductive: whether the loser of the test-and-set   *)
(* may return depends on what a set flag stands for, and what a store      *)
(* still in the store buffer means on when the service put it there.       *)
(* FlagMeansKick and StoreSettles say it; the three are proved together.   *)
(***************************************************************************)
EXTENDS TxPath, TLAPS

----------------------------------------------------------------------------
(* The sequences that model the rings. *)

(* Append adds one entry at the end and keeps the others. *)
LEMMA AppendFacts ==
  ASSUME NEW S, NEW q \in Seq(S), NEW e \in S
  PROVE  /\ Append(q, e) \in Seq(S)
         /\ Len(Append(q, e)) = Len(q) + 1
         /\ DOMAIN q = 1 .. Len(q)
         /\ DOMAIN Append(q, e) = 1 .. Len(q) + 1
         /\ \A i \in 1 .. Len(q) : Append(q, e)[i] = q[i]
         /\ Append(q, e)[Len(q) + 1] = e
         /\ Len(q) \in Nat
  OBVIOUS

(* Tail drops the first entry and moves the others up by one. *)
LEMMA TailFacts ==
  ASSUME NEW S, NEW q \in Seq(S), q # << >>
  PROVE  /\ Tail(q) \in Seq(S)
         /\ Head(q) \in S /\ Head(q) = q[1]
         /\ Len(q) \in Nat \ {0}
         /\ DOMAIN q = 1 .. Len(q)
         /\ DOMAIN Tail(q) = 1 .. Len(q) - 1
         /\ \A i \in 1 .. Len(q) - 1 : Tail(q)[i] = q[i + 1]
  OBVIOUS

(* Dropping the first n entries moves the others up by n. *)
LEMMA DropFacts ==
  ASSUME NEW S, NEW q \in Seq(S), NEW n \in Nat, n <= Len(q)
  PROVE  /\ SubSeq(q, n + 1, Len(q)) \in Seq(S)
         /\ Len(SubSeq(q, n + 1, Len(q))) = Len(q) - n
         /\ DOMAIN SubSeq(q, n + 1, Len(q)) = 1 .. Len(q) - n
         /\ \A i \in 1 .. Len(q) - n : SubSeq(q, n + 1, Len(q))[i] = q[n + i]
         /\ Len(q) \in Nat
  OBVIOUS

----------------------------------------------------------------------------
(* The service dequeues what it counted: only it takes buffers off the tx  *)
(* ring.                                                                   *)
CountHolds == svc = "dequeue" => count <= Len(txRing)

(* Until the ring is counted too early, the store that clears the flag is  *)
(* in the store buffer only between the clear and the count.               *)
StoreSettles == buffered /\ ~reordered => svc = "count"

Inv == TypeOK /\ CountHolds /\ StoreSettles

(* Handing n of b waiting buffers on keeps the total. *)
LEMMA MovedOn ==
  ASSUME NEW a \in Nat, NEW b \in Nat, NEW n \in Nat
  PROVE  a + n + (b - n) = a + b
  OBVIOUS

(* Init establishes the types and the order. *)
LEMMA InvInit == Init => Inv /\ InOrder
<1> SUFFICES ASSUME Init PROVE Inv /\ InOrder
  OBVIOUS
<1>1. TypeOK
  <2>1. txRing \in Seq(Nat) /\ cmdRing \in Seq({"kick", "other"})
    BY DEF Init
  <2>2. sent \in Nat /\ cmdFree \in Nat /\ count \in Nat /\ stack \in Nat
    BY TxAssumption DEF Init
  <2>3. /\ done \in BOOLEAN /\ buffered \in BOOLEAN /\ kicked \in BOOLEAN
        /\ starved \in BOOLEAN /\ reordered \in BOOLEAN
    BY DEF Init
  <2>4. app \in {"idle", "owes", "won"} /\ svc \in {"loop", "clear", "count", "dequeue", "finish"}
    BY DEF Init
  <2> QED
    BY <2>1, <2>2, <2>3, <2>4 DEF TypeOK
<1>2. CountHolds /\ StoreSettles
  BY DEF Init, CountHolds, StoreSettles
<1>3. InOrder
  BY DEF Init, InOrder
<1> QED
  BY <1>1, <1>2, <1>3 DEF Inv

(* Every step keeps the types and the order. *)
LEMMA InvNext == Inv /\ InOrder /\ [Next]_vars => Inv' /\ InOrder'
<1> SUFFICES ASSUME Inv, InOrder, [Next]_vars PROVE Inv' /\ InOrder'
  OBVIOUS
<1> USE DEF Inv, TypeOK, CountHolds, StoreSettles, InOrder
<1>0. /\ cmdRing \in Seq({"kick", "other"}) /\ txRing \in Seq(Nat)
      /\ Append(cmdRing, "kick") \in Seq({"kick", "other"})
      /\ Append(cmdRing, "other") \in Seq({"kick", "other"})
      /\ cmdRing # << >> => Tail(cmdRing) \in Seq({"kick", "other"})
  BY AppendFacts, TailFacts
<1>1. CASE Send
  <2>1. /\ txRing' = Append(txRing, sent + 1) /\ sent' = sent + 1
        /\ UNCHANGED <<done, buffered, cmdFree, cmdRing, svc, kicked, count, stack, starved,
                       reordered>>
    BY <1>1 DEF Send, cmds, drain
  <2>2. /\ txRing' \in Seq(Nat) /\ Len(txRing') = Len(txRing) + 1
        /\ DOMAIN txRing' = 1 .. Len(txRing) + 1
        /\ txRing'[Len(txRing) + 1] = sent + 1
        /\ \A i \in 1 .. Len(txRing) : txRing'[i] = txRing[i]
    BY <1>0, <2>1, AppendFacts
  <2>3. InOrder'
    <3>0. stack \in Nat /\ sent \in Nat /\ Len(txRing) \in Nat /\ DOMAIN txRing = 1 .. Len(txRing)
      BY <1>0
    <3>1. stack' + Len(txRing') = sent'
      BY <2>1, <2>2, <3>0
    <3>2. ASSUME NEW i \in DOMAIN txRing' PROVE txRing'[i] = stack' + i
      <4>1. CASE i \in 1 .. Len(txRing)
        BY <2>1, <2>2, <3>0, <4>1
      <4>2. CASE i = Len(txRing) + 1
        BY <2>1, <2>2, <3>0, <4>2
      <4> QED
        BY <2>2, <3>0, <4>1, <4>2
    <3> QED
      BY <3>1, <3>2
  <2>4. Inv'
    BY <1>0, <1>1, <2>1, <2>2 DEF Send
  <2> QED
    BY <2>3, <2>4
<1>2. CASE KickTest
  BY <1>2 DEF KickTest, ring, cmds, drain
<1>3. CASE KickSend
  <2>1. UNCHANGED <<txRing, sent, done, buffered, svc, kicked, count, stack, reordered>>
    BY <1>3 DEF KickSend, ring, drain
  <2>2. CASE /\ cmdFree > 0
             /\ cmdRing' = Append(cmdRing, "kick") /\ cmdFree' = cmdFree - 1
             /\ app' = "idle" /\ UNCHANGED starved
    BY <1>0, <2>1, <2>2
  <2>3. CASE /\ app' = IF cmdFree = 0 THEN "owes" ELSE "idle"
             /\ starved' = TRUE /\ UNCHANGED <<cmdFree, cmdRing>>
    BY <2>1, <2>3
  <2> QED
    BY <1>3, <2>2, <2>3 DEF KickSend, cmds
<1>4. CASE OtherCommand
  BY <1>0, <1>4 DEF OtherCommand, ring, drain
<1>5. CASE OtherHolds
  BY <1>5 DEF OtherHolds, ring, drain
<1>6. CASE OtherReturns
  BY <1>6 DEF OtherReturns, ring, drain
<1>7. CASE ProcessOther
  BY <1>0, <1>7 DEF ProcessOther, ring, drain
<1>8. CASE ProcessKick
  BY <1>0, <1>8 DEF ProcessKick, ring
<1>9. CASE ClearDone
  BY <1>9 DEF ClearDone, ring, cmds
<1>10. CASE CountRing
  BY <1>10 DEF CountRing, ring, cmds
<1>11. CASE Dequeue
  <2>1. count \in Nat /\ count <= Len(txRing) /\ Len(txRing) \in Nat
    BY <1>0, <1>11 DEF Dequeue
  <2>2. /\ txRing' \in Seq(Nat)
        /\ Len(txRing') = Len(txRing) - count
        /\ DOMAIN txRing' = 1 .. Len(txRing) - count
        /\ \A i \in 1 .. Len(txRing) - count : txRing'[i] = txRing[count + i]
    <3>1. txRing' = SubSeq(txRing, count + 1, Len(txRing)) /\ txRing \in Seq(Nat)
      BY <1>0, <1>11, Zenon DEF Dequeue
    <3>2. /\ SubSeq(txRing, count + 1, Len(txRing)) \in Seq(Nat)
          /\ Len(SubSeq(txRing, count + 1, Len(txRing))) = Len(txRing) - count
          /\ DOMAIN SubSeq(txRing, count + 1, Len(txRing)) = 1 .. Len(txRing) - count
          /\ \A i \in 1 .. Len(txRing) - count :
               SubSeq(txRing, count + 1, Len(txRing))[i] = txRing[count + i]
      BY <2>1, <3>1, DropFacts, ZenonT(60)
    <3> QED
      BY <3>1, <3>2, Zenon
  <2>3. \A i \in DOMAIN txRing' : txRing'[i] = stack + count + i
    <3>1. \A i \in 1 .. Len(txRing) - count : count + i \in DOMAIN txRing
      BY <1>0, <2>1
    <3>2. \A i \in 1 .. Len(txRing) - count : txRing[count + i] = stack + (count + i)
      BY <3>1
    <3>3. \A i \in 1 .. Len(txRing) - count : stack + (count + i) = stack + count + i
      BY <2>1
    <3> QED
      BY <2>2, <3>2, <3>3
  <2>4. InOrder'
    <3>1. stack' = stack + count /\ sent' = sent
      BY <1>11 DEF Dequeue
    <3>2. stack' + Len(txRing') = sent'
      <4>1. stack + Len(txRing) = sent /\ stack \in Nat
        OBVIOUS
      <4>2. stack + count + (Len(txRing) - count) = stack + Len(txRing)
        BY <2>1, <4>1, MovedOn
      <4> QED
        BY <2>2, <3>1, <4>1, <4>2
    <3> QED
      BY <2>3, <3>1, <3>2
  <2>5. Inv'
    BY <1>11, <2>1, <2>2 DEF Dequeue, cmds
  <2> QED
    BY <2>4, <2>5
<1>12. CASE Finish
  <2>1. cmdFree' \in Nat
    BY <1>12 DEF Finish
  <2>2. /\ UNCHANGED <<txRing, sent, done, buffered, cmdRing, app, count, stack, starved,
                       reordered>>
        /\ svc = "finish" /\ svc' = "loop" /\ kicked' = FALSE
    BY <1>12 DEF Finish, ring
  <2> QED
    BY <2>1, <2>2
<1>13. CASE TxReady
  BY <1>13 DEF TxReady, ring, cmds
<1>14. CASE StoreDrains
  BY <1>14 DEF StoreDrains, ring, cmds, drain
<1>15. CASE UNCHANGED vars
  BY <1>15 DEF vars, drain
<1> QED
  BY <1>1, <1>2, <1>3, <1>4, <1>5, <1>6, <1>7, <1>8, <1>9, <1>10, <1>11, <1>12, <1>13,
     <1>14, <1>15 DEF Next, App, Other, Service

(* Buffers reach the stack in the order service_send accepted them, none   *)
(* twice and none skipped, on every machine.                               *)
THEOREM SentInOrder == Spec => []InOrder
<1>1. Spec => [](Inv /\ InOrder)
  BY InvInit, InvNext, PTL DEF Spec
<1> QED
  BY <1>1, PTL

----------------------------------------------------------------------------
(* A kick stays on the command ring until the service takes it off.        *)
LEMMA KickStays ==
  ASSUME TypeOK
  PROVE  /\ cmdRing' = Append(cmdRing, "kick") => KickOnRing'
         /\ cmdRing' = Append(cmdRing, "other") => (KickOnRing => KickOnRing')
         /\ cmdRing # << >> /\ Head(cmdRing) = "other" /\ cmdRing' = Tail(cmdRing)
              => (KickOnRing => KickOnRing')
<1>0. cmdRing \in Seq({"kick", "other"})
  BY DEF TypeOK
<1>1. ASSUME cmdRing' = Append(cmdRing, "kick") PROVE KickOnRing'
  <2>1. Len(cmdRing) + 1 \in DOMAIN cmdRing' /\ cmdRing'[Len(cmdRing) + 1] = "kick"
    BY <1>0, <1>1, AppendFacts
  <2> QED
    BY <2>1 DEF KickOnRing
<1>2. ASSUME cmdRing' = Append(cmdRing, "other"), KickOnRing PROVE KickOnRing'
  BY <1>0, <1>2, AppendFacts DEF KickOnRing
<1>3. ASSUME cmdRing # << >>, Head(cmdRing) = "other", cmdRing' = Tail(cmdRing), KickOnRing
      PROVE  KickOnRing'
  <2>1. PICK i \in DOMAIN cmdRing : cmdRing[i] = "kick"
    BY <1>3 DEF KickOnRing
  <2>2. i # 1 /\ i \in 1 .. Len(cmdRing)
    BY <1>0, <1>3, <2>1, TailFacts
  <2>3. i - 1 \in DOMAIN cmdRing' /\ cmdRing'[i - 1] = cmdRing[i]
    BY <1>0, <1>3, <2>2, TailFacts
  <2> QED
    BY <2>1, <2>3 DEF KickOnRing
<1> QED
  BY <1>1, <1>2, <1>3

KickInv == FlagMeansKick /\ KickDelivered

(* Every step keeps the promise of the kick. *)
LEMMA KickNext ==
  ASSUME Inv, KickInv, [Next]_vars
  PROVE  KickInv'
<1> USE DEF KickInv, FlagMeansKick, KickDelivered, KickNotified
<1>0. TypeOK /\ StoreSettles
  BY DEF Inv
<1>a. ASSUME UNCHANGED cmdRing PROVE KickOnRing' <=> KickOnRing
  BY <1>a DEF KickOnRing
<1>1. CASE Send
  BY <1>1, <1>a DEF Send, cmds, drain
<1>2. CASE KickTest
  BY <1>0, <1>2, <1>a DEF KickTest, ring, cmds, drain, StoreSettles
<1>3. CASE KickSend
  BY <1>0, <1>3, KickStays DEF KickSend, ring, cmds, drain
<1>4. CASE OtherCommand
  BY <1>0, <1>4, KickStays DEF OtherCommand, ring, drain
<1>5. CASE OtherHolds
  BY <1>5, <1>a DEF OtherHolds, ring, drain
<1>6. CASE OtherReturns
  BY <1>6, <1>a DEF OtherReturns, ring, drain
<1>7. CASE ProcessOther
  BY <1>0, <1>7, KickStays DEF ProcessOther, ring, drain
<1>8. CASE ProcessKick
  BY <1>8 DEF ProcessKick, ring
<1>9. CASE ClearDone
  BY <1>9, <1>a DEF ClearDone, ring, cmds
<1>10. CASE CountRing
  <2>1. txRing \in Seq(Nat) /\ (Len(txRing) = 0 => txRing = << >>)
    BY <1>0 DEF TypeOK
  <2> QED
    BY <1>10, <1>a, <2>1 DEF CountRing, ring, cmds
<1>11. CASE Dequeue
  BY <1>11, <1>a DEF Dequeue, cmds
<1>12. CASE Finish
  BY <1>12, <1>a DEF Finish, ring
<1>13. CASE TxReady
  BY <1>13, <1>a DEF TxReady, ring, cmds
<1>14. CASE StoreDrains
  BY <1>14, <1>a DEF StoreDrains, ring, cmds, drain
<1>15. CASE UNCHANGED vars
  BY <1>15, <1>a DEF vars, drain
<1> QED
  BY <1>1, <1>2, <1>3, <1>4, <1>5, <1>6, <1>7, <1>8, <1>9, <1>10, <1>11, <1>12, <1>13,
     <1>14, <1>15 DEF Next, App, Other, Service

(* Once service_socket_kick has returned 0 the service looks at the ring   *)
(* again, as long as no kick was refused a buffer or a place and the store *)
(* that clears write_done_from_app was visible before each count.          *)
THEOREM KickIsDelivered == Spec => []KickDelivered
<1>1. Init => KickInv
  BY DEF Init, KickInv, FlagMeansKick, KickDelivered, KickNotified
<1>2. Inv /\ KickInv /\ [Next]_vars => KickInv'
  BY KickNext
<1>3. Spec => []Inv
  <2>1. Spec => [](Inv /\ InOrder)
    BY InvInit, InvNext, PTL DEF Spec
  <2> QED
    BY <2>1, PTL
<1>4. KickInv => KickDelivered
  BY DEF KickInv
<1> QED
  BY <1>1, <1>2, <1>3, <1>4, PTL DEF Spec
=============================================================================
