-------------------------- MODULE SlotCountProofs --------------------------
(***************************************************************************)
(* Proofs about SocketSlots that count: the free ring has room for every   *)
(* slot that comes back, and no command buffer disappears.  With what a    *)
(* step does to the holder of a slot (SocketSlotsProofs), the first gives  *)
(* that the command protocol implements SlotAllocator.                     *)
(***************************************************************************)
EXTENDS SocketSlotsProofs, FiniteSetTheorems

(* Leaves name another backend where Zenon does not find the proof. *)
USE ZenonT(20)

----------------------------------------------------------------------------
(* The slot whose enqueue failed in service_api_init never gets a claim.   *)
LastIdle == ~Claimed(NumSlots - 1)

LEMMA LastIdleInit == Init => LastIdle
<1> SUFFICES ASSUME Init PROVE LastIdle
  OBVIOUS
<1>1. NumSlots - 1 \in Slots /\ NumSlots \in Nat
  BY SMTT(60), SlotsAssumption DEF Slots
<1>2. ~InFree(NumSlots - 1)
  BY SMTT(60), <1>1 DEF Init, InitialFree, InFree
<1>3. ~AttachPending(NumSlots - 1)
  BY SMTT(60) DEF Init, AttachPending
<1>4. ~Attached(NumSlots - 1)
  BY <1>1 DEF Init, Attached, FreeSat
<1>5. \A a \in Apps : ~InCall(a, NumSlots - 1)
  BY DEF Init, InCall, Idle
<1> QED
  BY <1>2, <1>3, <1>4, <1>5 DEF LastIdle, Claimed

(* The free ring holds different slots, none of them the idle one or one   *)
(* with a socket, so while there is one with a socket it has room.         *)
LEMMA RoomForAttached == TypeOK /\ SlotExclusive /\ LastIdle => FreeNeverDropped
<1> SUFFICES ASSUME TypeOK, SlotExclusive, LastIdle, NEW s \in Slots, Attached(s),
                    ~(Len(freeConns) < NumSlots - 1)
             PROVE  FALSE
  BY DEF FreeNeverDropped
<1> DEFINE last == NumSlots - 1
           P == 1 .. Len(freeConns)
           T == (Slots \ {last}) \ {s}
<1>1. freeConns \in Seq(Slots) /\ Len(freeConns) \in Nat /\ DOMAIN freeConns = P
  BY SMTT(60) DEF TypeOK
<1>2. NumSlots \in Nat /\ last \in Slots /\ s # last
  BY SMTT(60), SlotsAssumption DEF Slots, LastIdle, Claimed
<1>3. IsFiniteSet(T) /\ Cardinality(T) = NumSlots - 2
  <2>1. IsFiniteSet(Slots) /\ Cardinality(Slots) = NumSlots
    BY SMTT(60), <1>2, SlotsAssumption, FS_Interval DEF Slots
  <2>2. IsFiniteSet(Slots \ {last}) /\ Cardinality(Slots \ {last}) = NumSlots - 1
    BY <1>2, <2>1, FS_RemoveElement
  <2>3. s \in Slots \ {last}
    BY <1>2
  <2>4. IsFiniteSet(T) /\ Cardinality(T) = Cardinality(Slots \ {last}) - 1
    BY <2>2, <2>3, FS_RemoveElement
  <2> QED
    BY SMTT(60), <1>2, <2>2, <2>4
<1>4. IsFiniteSet(P) /\ Cardinality(P) = Len(freeConns)
  BY SMTT(60), <1>1, FS_Interval
<1>5. \A i \in P : freeConns[i] \in T
  <2> SUFFICES ASSUME NEW i \in P PROVE freeConns[i] \in T
    OBVIOUS
  <2>1. freeConns[i] \in Slots /\ InFree(freeConns[i])
    BY SMTT(60), <1>1 DEF InFree
  <2> QED
    BY <2>1 DEF LastIdle, Claimed, SlotExclusive
<1> DEFINE f == [n \in P |-> freeConns[n]]
<1>6. f \in [P -> T]
  BY <1>5
<1>7. Cardinality(T) < Cardinality(P)
  BY SMTT(60), <1>1, <1>2, <1>3, <1>4
<1>8. PICK i, j \in P : i # j /\ f[i] = f[j]
  <2> HIDE DEF f, P, T
  <2> QED
    BY <1>3, <1>4, <1>6, <1>7, FS_PigeonHole
<1> QED
  BY <1>1, <1>8 DEF SlotExclusive

(* service_free_socket, which does not look whether the enqueue succeeded, *)
(* never loses a slot: the ring has room whenever a socket is closed.      *)
THEOREM FreeHasRoom == Spec => []FreeNeverDropped
<1>1. TypeOK /\ SlotExclusive /\ LastIdle /\ [Next]_vars => LastIdle'
  <2>1. NumSlots - 1 \in Slots
    BY SMTT(60), SlotsAssumption DEF Slots
  <2> QED
    BY <2>1, ClaimsStep DEF ClaimsKept, LastIdle
<1> QED
  BY <1>1, TypeCorrect, SlotsExclusive, LastIdleInit, RoomForAttached, PTL DEF Spec

----------------------------------------------------------------------------
(* Where command buffers are: in the pool or on the command ring, held by  *)
(* service_accept, and posted on rx rings, which never fill up.            *)
Queued == cmdFree + Len(cmdRing)
Posted == {p \in Slots \X (1 .. RxRingSize) : p[2] <= Len(rxRing[p[1]])}
PoolInv ==
  /\ CommandsConserved
  /\ IsFiniteSet(Holding)
  /\ \A s \in Slots : Len(rxRing[s]) < RxRingSize

LEMMA PostedFinite ==
  /\ IsFiniteSet(Posted) /\ Cardinality(Posted) \in Nat
  /\ IsFiniteSet(Posted') /\ Cardinality(Posted') \in Nat
<1>1. IsFiniteSet(Slots) /\ IsFiniteSet(1 .. RxRingSize)
  BY SMTT(60), SlotsAssumption, FS_Interval DEF Slots
<1>2. IsFiniteSet(Slots \X (1 .. RxRingSize))
  BY <1>1, FS_Product
<1>3. Posted \in SUBSET (Slots \X (1 .. RxRingSize)) /\ Posted' \in SUBSET (Slots \X (1 .. RxRingSize))
  BY DEF Posted
<1>4. IsFiniteSet(Posted) /\ IsFiniteSet(Posted')
  BY <1>2, <1>3, FS_Subset
<1> QED
  BY <1>4, FS_CardinalityType

(* The sum that is conserved. *)
LEMMA Conserved ==
  /\ CommandsConserved <=> Queued + Cardinality(Holding) + Cardinality(Posted) <= PoolSize
  /\ CommandsConserved' <=> Queued' + Cardinality(Holding') + Cardinality(Posted') <= PoolSize
  BY DEF CommandsConserved, Queued, Posted

(* A step that takes no buffer out of the pool and the command ring, and   *)
(* puts none in, and moves none to service_accept or an rx ring, conserves *)
(* buffers.                                                                *)
LEMMA BuffersStay ==
  ASSUME TypeOK, TypeOK', PoolInv, Queued' = Queued \/ Queued' <= Queued,
         Holding' \subseteq Holding,
         \A s \in Slots : Len(rxRing'[s]) <= Len(rxRing[s])
  PROVE  PoolInv'
<1>1. /\ \A s \in Slots : Len(rxRing[s]) \in Nat /\ Len(rxRing'[s]) \in Nat
      /\ Queued \in Nat /\ Queued' \in Nat /\ PoolSize \in Nat /\ RxRingSize \in Nat
  BY SMTT(60), SlotsAssumption DEF TypeOK, Queued
<1>8. Queued' <= Queued
  BY SMTT(60), <1>1
<1>2. IsFiniteSet(Holding) /\ Cardinality(Holding) \in Nat
  BY FS_CardinalityType DEF PoolInv
<1>3. /\ IsFiniteSet(Holding') /\ Cardinality(Holding') <= Cardinality(Holding)
      /\ Cardinality(Holding') \in Nat
  BY <1>2, FS_Subset, FS_CardinalityType
<1>4. Posted' \subseteq Posted
  BY SMTT(60), <1>1 DEF Posted
<1>5. Cardinality(Posted') <= Cardinality(Posted)
  BY <1>4, PostedFinite, FS_Subset
<1>6. CommandsConserved'
  BY SMTT(60), <1>1, <1>2, <1>3, <1>5, <1>8, PostedFinite, Conserved DEF PoolInv
<1>7. \A s \in Slots : Len(rxRing'[s]) < RxRingSize
  BY SMTT(60), <1>1 DEF PoolInv
<1> QED
  BY <1>3, <1>6, <1>7 DEF PoolInv

(* The buffer service_accept held goes to the command ring or the pool.    *)
LEMMA BufferReturned ==
  ASSUME TypeOK, TypeOK', PoolInv, NEW a \in Apps, Queued' = Queued + 1,
         a \in Holding, Holding' = Holding \ {a}, UNCHANGED rxRing
  PROVE  PoolInv'
<1>1. Queued \in Nat /\ PoolSize \in Nat
  BY SMTT(60), SlotsAssumption DEF TypeOK, Queued
<1>2. IsFiniteSet(Holding) /\ Cardinality(Holding) \in Nat
  BY FS_CardinalityType DEF PoolInv
<1>3. IsFiniteSet(Holding') /\ Cardinality(Holding') = Cardinality(Holding) - 1
  BY <1>2, FS_RemoveElement
<1>4. Posted' = Posted
  BY DEF Posted
<1>5. CommandsConserved'
  BY SMTT(60), <1>1, <1>2, <1>3, <1>4, PostedFinite, Conserved DEF PoolInv
<1> QED
  BY <1>3, <1>5 DEF PoolInv

(* service_accept takes a buffer off the listener's rx ring. *)
LEMMA BufferTaken ==
  ASSUME TypeOK, TypeOK', PoolInv, NEW a \in Apps, NEW s \in Slots, Queued' = Queued,
         a \notin Holding, Holding' = Holding \cup {a},
         rxRing[s] # << >>, rxRing' = [rxRing EXCEPT ![s] = Tail(@)]
  PROVE  PoolInv'
<1>1. /\ \A r \in Slots : Len(rxRing[r]) \in Nat
      /\ Queued \in Nat /\ PoolSize \in Nat /\ RxRingSize \in Nat
      /\ rxRing \in [Slots -> Seq(Sockets)]
  BY SMTT(60), SlotsAssumption DEF TypeOK, Queued
<1>2. IsFiniteSet(Holding) /\ Cardinality(Holding) \in Nat
  BY FS_CardinalityType DEF PoolInv
<1>3. IsFiniteSet(Holding') /\ Cardinality(Holding') = Cardinality(Holding) + 1
  BY <1>2, FS_AddElement
<1> DEFINE n == Len(rxRing[s])
<1>4. /\ n \in 1 .. RxRingSize - 1 /\ Len(rxRing'[s]) = n - 1
      /\ \A r \in Slots : r # s => rxRing'[r] = rxRing[r]
  <2>1. rxRing[s] \in Seq(Sockets) /\ rxRing'[s] = Tail(rxRing[s]) /\ n < RxRingSize
    BY <1>1 DEF PoolInv
  <2>2. n \in 1 .. RxRingSize - 1 /\ Len(rxRing'[s]) = n - 1
    BY SMTT(60), <1>1, <2>1
  <2> QED
    BY <1>1, <2>2
<1>5. <<s, n>> \in Posted
  BY SMTT(60), <1>1, <1>4 DEF Posted
<1>6. Posted' = Posted \ {<<s, n>>}
  <2>1. ASSUME NEW r \in Slots, NEW i \in 1 .. RxRingSize
        PROVE  i <= Len(rxRing'[r]) <=> i <= Len(rxRing[r]) /\ <<r, i>> # <<s, n>>
    <3>1. i \in Nat /\ n \in Nat
      BY SMTT(60), <1>4
    <3>2. CASE r = s
      <4>1. i <= n - 1 <=> i <= n /\ i # n
        BY <3>1, Below
      <4> QED
        BY <1>4, <3>2, <4>1
    <3>3. CASE r # s
      BY <1>4, <3>3
    <3> QED
      BY <3>2, <3>3
  <2> QED
    BY SMTT(60), <2>1 DEF Posted
<1>7. Cardinality(Posted') = Cardinality(Posted) - 1
  BY <1>5, <1>6, PostedFinite, FS_RemoveElement
<1>8. CommandsConserved'
  BY SMTT(60), <1>1, <1>2, <1>3, <1>7, PostedFinite, Conserved DEF PoolInv
<1>9. \A r \in Slots : Len(rxRing'[r]) < RxRingSize
  BY SMTT(60), <1>1, <1>4 DEF PoolInv
<1> QED
  BY <1>3, <1>8, <1>9 DEF PoolInv

(* service_post_accepted puts a buffer of the pool on an rx ring. *)
LEMMA BufferPosted ==
  ASSUME TypeOK, TypeOK', PoolInv, NEW s \in Slots, NEW k \in Sockets,
         Queued' = Queued - 1, UNCHANGED call,
         Len(rxRing[s]) < RxRingSize - 1,
         rxRing' = [rxRing EXCEPT ![s] = Append(@, k)]
  PROVE  PoolInv'
<1>1. /\ \A r \in Slots : Len(rxRing[r]) \in Nat
      /\ Queued \in Nat /\ PoolSize \in Nat /\ RxRingSize \in Nat
      /\ rxRing \in [Slots -> Seq(Sockets)]
  BY SMTT(60), SlotsAssumption DEF TypeOK, Queued
<1>2. IsFiniteSet(Holding) /\ Cardinality(Holding) \in Nat /\ Holding' = Holding
  BY FS_CardinalityType DEF PoolInv, Holding
<1> DEFINE n == Len(rxRing[s]) + 1
<1>3. /\ n \in 1 .. RxRingSize - 1 /\ Len(rxRing'[s]) = n
      /\ \A r \in Slots : r # s => rxRing'[r] = rxRing[r]
  BY SMTT(60), <1>1 DEF PoolInv
<1>4. <<s, n>> \notin Posted /\ Posted' = Posted \cup {<<s, n>>}
  <2>1. ASSUME NEW r \in Slots, NEW i \in 1 .. RxRingSize
        PROVE  i <= Len(rxRing'[r]) <=> i <= Len(rxRing[r]) \/ <<r, i>> = <<s, n>>
    <3>1. i \in Nat /\ n - 1 \in Nat /\ n \in Nat /\ Len(rxRing[s]) = n - 1
      BY SMTT(60), <1>1, <1>3
    <3>2. CASE r = s
      <4>1. i <= n <=> i <= Len(rxRing[s]) \/ i = n
        BY <3>1, Below
      <4> QED
        BY <1>3, <3>2, <4>1
    <3>3. CASE r # s
      BY <1>3, <3>3
    <3> QED
      BY <3>2, <3>3
  <2>2. <<s, n>> \in Slots \X (1 .. RxRingSize) /\ ~(n <= Len(rxRing[s]))
    BY SMTT(60), <1>1, <1>3
  <2> QED
    BY SMTT(60), <2>1, <2>2 DEF Posted
<1>5. Cardinality(Posted') = Cardinality(Posted) + 1
  BY <1>4, PostedFinite, FS_AddElement
<1>6. CommandsConserved'
  BY SMTT(60), <1>1, <1>2, <1>5, PostedFinite, Conserved DEF PoolInv
<1>7. \A r \in Slots : Len(rxRing'[r]) < RxRingSize
  BY SMTT(60), <1>1, <1>3 DEF PoolInv
<1> QED
  BY <1>2, <1>6, <1>7 DEF PoolInv

(* What sending, resending and processing a command do to the pool and the *)
(* command ring together.                                                  *)
LEMMA QueuedCounts ==
  ASSUME TypeOK
  PROVE  /\ \A c \in Commands : Send(c) \/ SendFails => Queued' = Queued
         /\ \A c \in Commands : Resend(c) \/ ResendFails => Queued' = Queued + 1
         /\ \A op : Take(op) /\ Done => Queued' = Queued
<1>0. cmdRing \in Seq(Commands) /\ cmdFree \in Nat /\ Len(cmdRing) \in Nat
  BY SMTT(60) DEF TypeOK
<1>1. ASSUME NEW c \in Commands, Send(c) \/ SendFails
      PROVE  Queued' = Queued
  <2>1. CASE cmdRing' = Append(cmdRing, c) /\ cmdFree' = cmdFree - 1
    BY SMTT(60), <1>0, <2>1, AppendFacts DEF Queued
  <2> QED
    BY <1>1, <2>1 DEF Send, SendFails, Queued
<1>2. ASSUME NEW c \in Commands, Resend(c) \/ ResendFails
      PROVE  Queued' = Queued + 1
  <2>1. CASE cmdRing' = Append(cmdRing, c) /\ cmdFree' = cmdFree
    BY SMTT(60), <1>0, <2>1, AppendFacts DEF Queued
  <2>2. CASE cmdRing' = cmdRing /\ cmdFree' = cmdFree + 1
    BY SMTT(60), <1>0, <2>2 DEF Queued
  <2> QED
    BY <1>2, <2>1, <2>2 DEF Resend, ResendFails
<1>3. ASSUME NEW op, Take(op), Done
      PROVE  Queued' = Queued
  <2>1. cmdRing # << >> /\ cmdRing' = Tail(cmdRing) /\ cmdFree' = cmdFree + 1
    BY <1>3 DEF Take, Done
  <2> QED
    BY SMTT(60), <1>0, <2>1 DEF Queued
<1> QED
  BY <1>1, <1>2, <1>3

(* A step of one process changes only its own call. *)
LEMMA HoldingOf ==
  ASSUME TypeOK, NEW a \in Apps, NEW r, call' = [call EXCEPT ![a] = r], NEW op, r.op = op
  PROVE  /\ a \in Holding <=> call[a].op \in {"accepting", "ringing"}
         /\ op \notin {"accepting", "ringing"} => Holding' = Holding \ {a}
         /\ op \in {"accepting", "ringing"} => Holding' = Holding \cup {a}
<1>1. call'[a] = r /\ \A b \in Apps : b # a => call'[b] = call[b]
  BY DEF TypeOK
<1> QED
  BY <1>1 DEF Holding

(* The steps of the library conserve buffers. *)
LEMMA PoolApp ==
  ASSUME TypeOK, TypeOK', PoolInv, NEW a \in Apps, AppNext(a)
  PROVE  PoolInv'
<1>0. /\ call \in [Apps -> Calls] /\ call[a] \in Calls
      /\ \A b \in Apps : todo[b] \subseteq Slots
      /\ rxRing \in [Slots -> Seq(Sockets)]
  BY DEF TypeOK
<1>1. \A s \in Slots : Len(rxRing[s]) \in Nat /\ Len(rxRing[s]) <= Len(rxRing[s])
  BY SMTT(60), <1>0
<1>2. ASSUME Queued' = Queued, UNCHANGED rxRing, Holding' \subseteq Holding
      PROVE  PoolInv'
  BY <1>1, <1>2, BuffersStay
<1>3. CASE OpenTake(a)
  <2>1. Holding' = Holding \ {a}
    BY <1>3, HoldingOf DEF OpenTake
  <2> QED
    BY <1>2, <1>3, <2>1 DEF OpenTake, Queued
<1>4. ASSUME NEW p \in {None, a}, OpenSend(a, p)
      PROVE  PoolInv'
  <2>1. Cmd("open", a, call[a].slot, None, p) \in Commands
    BY <1>0, <1>4, CallFields, CommandsBuilt DEF OpenSend
  <2>2. Queued' = Queued
    BY <1>4, <2>1, QueuedCounts DEF OpenSend
  <2>3. Holding' = Holding \ {a}
    BY <1>4, HoldingOf DEF OpenSend, Idle
  <2> QED
    BY <1>2, <1>4, <2>2, <2>3 DEF OpenSend
<1>5. ASSUME NEW s \in Slots, NEW op \in {"control", "listen", "select"}, Request(a, s, op)
      PROVE  PoolInv'
  <2>1. Cmd(op, a, s, None, IF op = "select" THEN a ELSE None) \in Commands
    BY CommandsBuilt
  <2>2. Queued' = Queued
    BY <1>5, <2>1, QueuedCounts DEF Request
  <2> QED
    BY <1>2, <1>5, <2>2 DEF Request, appVars, Holding
<1>15. ASSUME NEW s \in Slots, RxKickDropped(a, s)
       PROVE  PoolInv'
  <2>1. UNCHANGED <<cmdRing, rxRing>> /\ Holding' = Holding /\ cmdFree > 0 /\ cmdFree' = cmdFree - 1
    BY <1>15 DEF RxKickDropped, appVars, Holding
  <2>2. Queued' <= Queued
    BY SMTT(60), <2>1 DEF TypeOK, Queued
  <2> QED
    BY <1>1, <2>1, <2>2, BuffersStay
<1>6. ASSUME NEW s \in Slots, AcceptTake(a, s)
      PROVE  PoolInv'
  <2>1. Holding' = Holding \cup {a}
    BY <1>6, HoldingOf DEF AcceptTake
  <2>2. a \notin Holding
    BY SMTT(60), <1>6 DEF AcceptTake, Ready, Idle, Holding
  <2> QED
    BY <1>6, <2>1, <2>2, BufferTaken DEF AcceptTake, Queued
<1>7. ASSUME NEW s \in Slots, CloseSend(a, s)
      PROVE  PoolInv'
  <2>1. Cmd("close", a, s, None, None) \in Commands
    BY CommandsBuilt
  <2>2. Queued' = Queued
    BY <1>7, <2>1, QueuedCounts DEF CloseSend
  <2>3. Holding' = Holding \ {a}
    <3>1. CASE cmdFree = 0
      <4>1. call' = [call EXCEPT ![a] = Idle] /\ Idle.op = "idle"
        BY <1>7, <3>1 DEF CloseSend, Idle
      <4> QED
        BY <4>1, HoldingOf
    <3>2. CASE cmdFree # 0
      <4>1. call' = [call EXCEPT ![a] = [op |-> "flushing", slot |-> s, sock |-> None]]
        BY <1>7, <3>2 DEF CloseSend
      <4> QED
        BY <4>1, HoldingOf
    <3> QED
      BY <3>1, <3>2
  <2> QED
    BY <1>2, <1>7, <2>2, <2>3 DEF CloseSend
<1>8. CASE AcceptDecline(a)
  <2>1. Cmd("decline", a, None, call[a].sock, None) \in Commands
    BY <1>0, <1>8, CallFields, CommandsBuilt DEF AcceptDecline
  <2>2. Queued' = Queued + 1
    BY <1>8, <2>1, QueuedCounts DEF AcceptDecline
  <2>3. a \in Holding /\ Holding' = Holding \ {a}
    BY ZenonT(60), <1>8, HoldingOf DEF AcceptDecline, Idle
  <2> QED
    BY <1>8, <2>2, <2>3, BufferReturned DEF AcceptDecline
<1>9. CASE AcceptSlot(a)
  <2>1. a \in Holding /\ Holding' = Holding \cup {a}
    BY <1>9, HoldingOf DEF AcceptSlot
  <2> QED
    BY <1>2, <1>9, <2>1 DEF AcceptSlot, Queued
<1>10. CASE AcceptSend(a)
  <2>1. Cmd("setring", a, call[a].slot, call[a].sock, None) \in Commands
    BY <1>0, <1>10, CallFields, CommandsBuilt DEF AcceptSend
  <2>2. Queued' = Queued + 1
    BY <1>10, <2>1, QueuedCounts DEF AcceptSend
  <2>3. a \in Holding /\ Holding' = Holding \ {a}
    BY <1>10, HoldingOf DEF AcceptSend, Idle
  <2> QED
    BY <1>10, <2>2, <2>3, BufferReturned DEF AcceptSend
<1>11. CASE CloseFlush(a)
  <2>1. Holding' = Holding \ {a}
    BY <1>11, HoldingOf DEF CloseFlush, Idle
  <2>2. \A s \in Slots : rxRing'[s] \in {rxRing[s], << >>}
    BY <1>0, <1>11 DEF CloseFlush
  <2>3. \A s \in Slots : Len(rxRing'[s]) <= Len(rxRing[s])
    BY SMTT(60), <1>1, <2>2
  <2> QED
    BY <1>11, <2>1, <2>3, BuffersStay DEF CloseFlush, Queued
<1>12. CASE Terminate(a)
  <2>1. Holding' = Holding \ {a}
    BY <1>12, HoldingOf DEF Terminate, Idle
  <2> QED
    BY <1>2, <1>12, <2>1 DEF Terminate, Queued
<1>13. CASE DyingClose(a)
  BY <1>0, <1>7, <1>13 DEF DyingClose
<1>14. CASE Die(a)
  <2>1. Cmd("disconnect", a, None, None, None) \in Commands
    BY CommandsBuilt
  <2>2. Queued' = Queued
    BY <1>14, <2>1, QueuedCounts DEF Die
  <2> QED
    BY <1>2, <1>14, <2>2 DEF Die, Holding
<1> QED
  BY <1>3, <1>4, <1>5, <1>6, <1>7, <1>8, <1>9, <1>10, <1>11, <1>12, <1>13, <1>14, <1>15
     DEF AppNext, Close

(* The steps of the service conserve buffers. *)
LEMMA PoolService ==
  ASSUME TypeOK, TypeOK', PoolInv, ServiceNext
  PROVE  PoolInv'
<1>1. \A s \in Slots : Len(rxRing[s]) \in Nat /\ Len(rxRing[s]) <= Len(rxRing[s])
  BY SMTT(60) DEF TypeOK
<1>2. ASSUME Queued' = Queued, UNCHANGED <<rxRing, call>>
      PROVE  PoolInv'
  BY <1>1, <1>2, BuffersStay DEF Holding
<1>3. CASE ProcessCommand
  <2>1. Done /\ \E op : Take(op)
    BY <1>3 DEF ProcessCommand, ProcessOpen, ProcessSetRing, ProcessListen, ProcessSelect,
                ProcessClose, ProcessDecline, ProcessOther
  <2> QED
    BY <1>2, <2>1, QueuedCounts DEF Done, appVars
<1>4. ASSUME NEW s \in Slots, NEW k \in Sockets, PostAccepted(s, k)
      PROVE  PoolInv'
  <2>1. CASE cmdFree > 0 /\ Len(rxRing[s]) < RxRingSize - 1
    <3>1. /\ rxRing' = [rxRing EXCEPT ![s] = Append(@, k)]
          /\ cmdFree' = cmdFree - 1 /\ UNCHANGED <<cmdRing, call>>
      BY <1>4, <2>1 DEF PostAccepted, appVars
    <3>2. Queued' = Queued - 1
      BY SMTT(60), <3>1 DEF Queued, TypeOK
    <3> QED
      BY <2>1, <3>1, <3>2, BufferPosted
  <2>2. CASE ~(cmdFree > 0 /\ Len(rxRing[s]) < RxRingSize - 1)
    BY <1>2, <1>4, <2>2 DEF PostAccepted, appVars, Queued
  <2> QED
    BY <2>1, <2>2
<1>5. ASSUME NEW k \in Sockets, LingerDone(k)
      PROVE  PoolInv'
  BY <1>2, <1>5 DEF LingerDone, appVars, Queued
<1> QED
  BY <1>3, <1>4, <1>5 DEF ServiceNext

(* A command buffer is never in two places, so none is freed twice: the    *)
(* library and the service together never hold more of them than there     *)
(* are.                                                                    *)
THEOREM BuffersConserved == Spec => []CommandsConserved
<1>1. Init => PoolInv
  <2> SUFFICES ASSUME Init PROVE PoolInv
    OBVIOUS
  <2>1. Holding = {} /\ Posted = {} /\ Len(cmdRing) = 0
    BY SMTT(60) DEF Init, Holding, Posted, Idle
  <2>2. IsFiniteSet(Holding) /\ Cardinality(Holding) = 0 /\ Cardinality(Posted) = 0
    BY <2>1, FS_EmptySet
  <2>3. CommandsConserved
    BY SMTT(60), <2>1, <2>2, SlotsAssumption, Conserved DEF Init, Queued
  <2>4. \A s \in Slots : Len(rxRing[s]) < RxRingSize
    BY SMTT(60), SlotsAssumption DEF Init
  <2> QED
    BY <2>2, <2>3, <2>4 DEF PoolInv
<1>2. TypeOK /\ TypeOK' /\ PoolInv /\ [Next]_vars => PoolInv'
  <2>1. TypeOK /\ TypeOK' /\ PoolInv /\ Next => PoolInv'
    BY PoolApp, PoolService DEF Next
  <2>2. PoolInv /\ UNCHANGED vars => PoolInv'
    BY DEF PoolInv, CommandsConserved, Holding, vars, appVars
  <2> QED
    BY <2>1, <2>2
<1>3. PoolInv => CommandsConserved
  BY DEF PoolInv
<1> QED
  BY <1>1, <1>2, <1>3, TypeCorrect, PTL DEF Spec

----------------------------------------------------------------------------
(* The command protocol implements the allocator, as long as no process is *)
(* killed: a slot is free, held by one process, being closed or lost, it   *)
(* is taken from nobody, and only the slot of a processed CLOSE is free    *)
(* again.                                                                  *)
THEOREM SlotsAreAllocated == ASSUME Mortals = {} PROVE Spec => AllocatorSpec
<1>1. TypeOK /\ SlotExclusive /\ Discipline /\ Running /\ FreeNeverDropped /\ SlotExclusive'
        /\ Discipline' /\ [Next]_vars => [Allocator!Next]_holder
  <2> SUFFICES ASSUME TypeOK, SlotExclusive, Discipline, Running, FreeNeverDropped,
                      SlotExclusive', Discipline', [Next]_vars
               PROVE  [Allocator!Next]_holder
    OBVIOUS
  <2>1. HeldOnce
    BY OrderlyHeld
  <2>2. HeldOnce'
    BY DEF SlotExclusive, Discipline, Orderly, Free, Held, HeldOnce
  <2>3. CASE UNCHANGED vars
    <3>1. UNCHANGED <<freeConns, cmdRing, sat, owned, call>>
      BY <2>3 DEF vars, appVars
    <3>2. \A s \in Slots : Steady(s)
      BY <3>1 DEF Steady, InFree, Held, InCall, Bound, Attached, AttachPending, AttachAt
    <3> QED
      BY <2>1, <2>2, <3>2, AllocatorStutters
  <2> QED
    BY <2>1, <2>2, <2>3, AllocatorApp, AllocatorService DEF Next, Running
<1>2. Spec => [](TypeOK /\ SlotExclusive /\ Discipline /\ Running /\ FreeNeverDropped)
  BY DisciplineInit, DisciplineStep, TypeCorrect, SlotsExclusive, FreeHasRoom, PTL DEF Spec
<1>3. Spec => Allocator!Init /\ [][Allocator!Next]_holder
  BY <1>1, <1>2, AllocatorInit, PTL DEF Spec
<1> QED
  BY <1>3, PTL DEF AllocatorSpec, Allocator!Spec, holder
============================================================================
