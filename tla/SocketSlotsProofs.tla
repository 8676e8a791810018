------------------------- MODULE SocketSlotsProofs -------------------------
(***************************************************************************)
(* Proofs about SocketSlots, for any number of processes, slots, sockets   *)
(* and command buffers, with terminating signals and exhausted pools.      *)
(*                                                                         *)
(* TypeOK is inductive by itself.  SlotExclusive is inductive relative to  *)
(* it: a slot is a token that every action either leaves where it is,      *)
(* hands on, or loses.  The lemmas say so once for each way of moving it,  *)
(* and the proof of a step picks the one its action needs.                 *)
(*                                                                         *)
(* The second half is about who may use a slot, where events go and when a *)
(* connection is lost.  What it says of commands rests on the discipline   *)
(* of the library's callers, which a killed process does not keep to.  The *)
(* last part has the steps of SlotAllocator that each action implements.   *)
(***************************************************************************)
EXTENDS SocketSlots, TLAPS

----------------------------------------------------------------------------
(* The sequences that model the rte_rings. *)

(* Append adds one entry at the end and keeps the others. *)
LEMMA AppendFacts ==
  ASSUME NEW S, NEW q \in Seq(S), NEW e \in S
  PROVE  /\ Append(q, e) \in Seq(S)
         /\ Len(Append(q, e)) = Len(q) + 1
         /\ DOMAIN q = 1 .. Len(q)
         /\ DOMAIN Append(q, e) = 1 .. Len(q) + 1
         /\ \A i \in 1 .. Len(q) : Append(q, e)[i] = q[i]
         /\ Append(q, e)[Len(q) + 1] = e
         /\ Len(q) \in Nat
  OBVIOUS

(* Tail drops the first entry and moves the others up by one. *)
LEMMA TailFacts ==
  ASSUME NEW S, NEW q \in Seq(S), q # << >>
  PROVE  /\ Tail(q) \in Seq(S)
         /\ Head(q) \in S /\ Head(q) = q[1]
         /\ Len(q) \in Nat \ {0}
         /\ DOMAIN q = 1 .. Len(q)
         /\ DOMAIN Tail(q) = 1 .. Len(q) - 1
         /\ \A i \in 1 .. Len(q) - 1 : Tail(q)[i] = q[i + 1]
  OBVIOUS

(* Leaves name another backend where Zenon does not find the proof. *)
USE ZenonT(20)

----------------------------------------------------------------------------
(* Changing a function at one point keeps its type. *)
LEMMA ExceptType ==
  ASSUME NEW D, NEW T, NEW f \in [D -> T], NEW d, NEW e \in T
  PROVE  [f EXCEPT ![d] = e] \in [D -> T]
  OBVIOUS

(* The numbers up to n are n and those up to its predecessor. *)
LEMMA Below ==
  \A i, n \in Nat : (i <= n - 1 <=> i <= n /\ i # n) /\ (i <= n <=> i <= n - 1 \/ i = n)
  BY SMTT(60)

(* Changing fields of a kernel socket or of a satellite keeps its type. *)
LEMMA RecordUpdates ==
  /\ \A r \in KernelSockets, g \in Slots \cup {None} :
       /\ \A st \in {"none", "open", "conn", "listen", "linger"} :
            /\ [r EXCEPT !.state = st] \in KernelSockets
            /\ [state |-> st, glue |-> g] \in KernelSockets
       /\ [r EXCEPT !.glue = g] \in KernelSockets
  /\ \A r \in Satellites, p, q \in Apps \cup {None} :
       /\ [r EXCEPT !.parent = p, !.pid = q] \in Satellites
       /\ r.parent \in Apps \cup {None} /\ r.pid \in Apps \cup {None}
       /\ r.socket \in Sockets \cup {None}
       /\ \A s \in Slots, k \in Sockets :
            [socket |-> k, ringset |-> s, parent |-> p, pid |-> q] \in Satellites
<1>1. ASSUME NEW r \in KernelSockets, NEW g \in Slots \cup {None},
             NEW st \in {"none", "open", "conn", "listen", "linger"}
      PROVE  /\ [r EXCEPT !.state = st] \in KernelSockets
             /\ [state |-> st, glue |-> g] \in KernelSockets
             /\ [r EXCEPT !.glue = g] \in KernelSockets
  BY SMTT(60) DEF KernelSockets
<1>2. ASSUME NEW r \in Satellites, NEW p \in Apps \cup {None}, NEW q \in Apps \cup {None}
      PROVE  /\ [r EXCEPT !.parent = p, !.pid = q] \in Satellites
             /\ r.parent \in Apps \cup {None} /\ r.pid \in Apps \cup {None}
             /\ r.socket \in Sockets \cup {None}
  <2>1. [r EXCEPT !.parent = p, !.pid = q] \in Satellites
    BY DEF Satellites
  <2>2. /\ r.parent \in Apps \cup {None} /\ r.pid \in Apps \cup {None}
        /\ r.socket \in Sockets \cup {None}
    BY SMTT(60) DEF Satellites
  <2> QED
    BY <2>1, <2>2
<1>3. ASSUME NEW s \in Slots, NEW k \in Sockets,
             NEW p \in Apps \cup {None}, NEW q \in Apps \cup {None}
      PROVE  [socket |-> k, ringset |-> s, parent |-> p, pid |-> q] \in Satellites
  BY SMTT(60) DEF Satellites
<1> QED
  BY <1>1, <1>2, <1>3

(* Sending a command keeps the types of the ring, the pool and the history *)
(* variable.                                                               *)
LEMMA SendType ==
  ASSUME TypeOK, NEW c \in Commands,
         Send(c) \/ SendFails \/ Resend(c) \/ ResendFails
  PROVE  cmdRing' \in Seq(Commands) /\ cmdFree' \in Nat /\ starved' \in BOOLEAN
<1> USE DEF TypeOK
<1>1. CASE Send(c)
  BY SMTT(60), <1>1, AppendFacts DEF Send, CanSend
<1>2. CASE SendFails
  BY <1>2 DEF SendFails
<1>3. CASE Resend(c)
  BY <1>3, AppendFacts DEF Resend
<1>4. CASE ResendFails
  BY SMTT(60), <1>4 DEF ResendFails
<1> QED
  BY <1>1, <1>2, <1>3, <1>4

(* What each kind of command carries. *)
LEMMA CommandFields ==
  ASSUME NEW c \in Commands
  PROVE  /\ c.app \in Apps
         /\ c.sel \in Apps \cup {None}
         /\ c.op \in {"open", "control", "listen", "select", "close", "setring"}
              => c.slot \in Slots
         /\ c.op \in {"setring", "decline"} => c.sock \in Sockets
  BY DEF Commands

(* What each kind of call has in hand. *)
LEMMA CallFields ==
  ASSUME NEW c \in Calls
  PROVE  /\ c.op \in {"opening", "ringing", "flushing"} => c.slot \in Slots
         /\ c.op \in {"accepting", "ringing"} => c.sock \in Sockets
  BY SMTT(60) DEF Calls, Idle

(* The commands the library builds are well formed. *)
LEMMA CommandsBuilt ==
  ASSUME NEW a \in Apps
  PROVE  /\ \A s \in Slots, p \in Apps \cup {None},
              op \in {"open", "control", "listen", "select", "close"} :
                Cmd(op, a, s, None, p) \in Commands
         /\ \A s \in Slots, k \in Sockets : Cmd("setring", a, s, k, None) \in Commands
         /\ \A k \in Sockets : Cmd("decline", a, None, k, None) \in Commands
         /\ Cmd("disconnect", a, None, None, None) \in Commands
  BY DEF Cmd, Commands

(* The calls the library can be inside of are well formed. *)
LEMMA CallsBuilt ==
  /\ Idle \in Calls
  /\ \A s \in Slots : /\ [op |-> "opening", slot |-> s, sock |-> None] \in Calls
                      /\ [op |-> "flushing", slot |-> s, sock |-> None] \in Calls
  /\ \A k \in Sockets : [op |-> "accepting", slot |-> None, sock |-> k] \in Calls
  /\ \A s \in Slots, k \in Sockets : [op |-> "ringing", slot |-> s, sock |-> k] \in Calls
  BY DEF Calls, Idle

(* Init establishes the types. *)
LEMMA TypeInit == Init => TypeOK
<1> SUFFICES ASSUME Init PROVE TypeOK
  OBVIOUS
<1>1. InitialFree \in Seq(Slots)
  BY SMTT(60), SlotsAssumption DEF InitialFree, Slots
<1>2. PoolSize \in Nat
  BY SlotsAssumption
<1>3. FreeSat \in Satellites
  BY DEF FreeSat, Satellites
<1>4. << >> \in Seq(Commands) /\ << >> \in Seq(Sockets)
  BY SMTT(60)
<1>5. kern \in [Sockets -> KernelSockets]
  BY DEF Init, KernelSockets
<1> QED
  BY <1>1, <1>2, <1>3, <1>4, <1>5, CallsBuilt DEF Init, TypeOK

(* The steps of the library keep the types. *)
LEMMA TypeApp ==
  ASSUME TypeOK, NEW a \in Apps, AppNext(a)
  PROVE  TypeOK'
<1> USE DEF TypeOK
<1>0. call[a] \in Calls /\ call \in [Apps -> Calls]
  OBVIOUS
<1>1. CASE OpenTake(a)
  <2>1. Head(freeConns) \in Slots /\ Tail(freeConns) \in Seq(Slots)
    BY <1>1, TailFacts DEF OpenTake
  <2> QED
    BY <1>1, <2>1, CallsBuilt DEF OpenTake
<1>2. ASSUME NEW p \in {None, a}, OpenSend(a, p)
      PROVE  TypeOK'
  <2>1. call[a].slot \in Slots
    BY <1>0, <1>2, CallFields DEF OpenSend
  <2>2. Cmd("open", a, call[a].slot, None, p) \in Commands
    BY <2>1, CommandsBuilt
  <2>3. cmdRing' \in Seq(Commands) /\ cmdFree' \in Nat /\ starved' \in BOOLEAN
    BY <1>2, <2>2, SendType DEF OpenSend
  <2>4. /\ local' \in {local, [local EXCEPT ![a] = @ \cup {call[a].slot}]}
        /\ owned' \in {owned, [owned EXCEPT ![a] = @ \cup {call[a].slot}]}
    BY <1>2 DEF OpenSend
  <2>5. call' \in [Apps -> Calls]
    BY <1>2, CallsBuilt DEF OpenSend
  <2>6. local' \in [Apps -> SUBSET Slots]
    <3>1. local \in [Apps -> SUBSET Slots] /\ local[a] \cup {call[a].slot} \in SUBSET Slots
      BY <2>1
    <3>2. [local EXCEPT ![a] = @ \cup {call[a].slot}] \in [Apps -> SUBSET Slots]
      BY <3>1, ExceptType
    <3> QED
      BY <2>4, <3>1, <3>2
  <2>7. owned' \in [Apps -> SUBSET Slots]
    <3>1. owned \in [Apps -> SUBSET Slots] /\ owned[a] \cup {call[a].slot} \in SUBSET Slots
      BY <2>1
    <3>2. [owned EXCEPT ![a] = @ \cup {call[a].slot}] \in [Apps -> SUBSET Slots]
      BY <3>1, ExceptType
    <3> QED
      BY <2>4, <3>1, <3>2
  <2> QED
    BY <1>2, <2>3, <2>5, <2>6, <2>7 DEF OpenSend
<1>3. ASSUME NEW s \in Slots, NEW op \in {"control", "listen", "select"}, Request(a, s, op)
      PROVE  TypeOK'
  <2> DEFINE c == Cmd(op, a, s, None, IF op = "select" THEN a ELSE None)
  <2>1. c \in Commands
    BY CommandsBuilt
  <2>2. cmdRing' \in Seq(Commands) /\ cmdFree' \in Nat /\ starved' \in BOOLEAN
    BY <1>3, <2>1, SendType DEF Request
  <2>3. UNCHANGED <<freeConns, rxRing, sat, kern, local, owned, call, status, todo, crashed>>
    BY <1>3 DEF Request, appVars
  <2> QED
    BY <2>2, <2>3
<1>13. ASSUME NEW s \in Slots, RxKickDropped(a, s)
       PROVE  TypeOK'
  <2>1. cmdFree' \in Nat
    BY SMTT(60), <1>13 DEF RxKickDropped
  <2>2. UNCHANGED <<freeConns, cmdRing, rxRing, sat, kern, local, owned, call, status, todo, crashed>>
        /\ starved' \in BOOLEAN
    BY <1>13 DEF RxKickDropped, appVars
  <2> QED
    BY <2>1, <2>2
<1>4. ASSUME NEW s \in Slots, AcceptTake(a, s)
      PROVE  TypeOK'
  <2>1. Head(rxRing[s]) \in Sockets /\ Tail(rxRing[s]) \in Seq(Sockets)
    BY <1>4, TailFacts DEF AcceptTake
  <2> QED
    BY <1>4, <2>1, CallsBuilt DEF AcceptTake
<1>5. ASSUME NEW s \in Slots, Close(a, s)
      PROVE  TypeOK'
  <2>1. Cmd("close", a, s, None, None) \in Commands
    BY CommandsBuilt
  <2>2. cmdRing' \in Seq(Commands) /\ cmdFree' \in Nat /\ starved' \in BOOLEAN
    BY <1>5, <2>1, SendType DEF Close, CloseSend
  <2> QED
    BY <1>5, <2>2, CallsBuilt DEF Close, CloseSend
<1>6. CASE AcceptDecline(a)
  <2>1. Cmd("decline", a, None, call[a].sock, None) \in Commands
    BY <1>0, <1>6, CallFields, CommandsBuilt DEF AcceptDecline
  <2>2. cmdRing' \in Seq(Commands) /\ cmdFree' \in Nat /\ starved' \in BOOLEAN
    BY <1>6, <2>1, SendType DEF AcceptDecline
  <2> QED
    BY <1>6, <2>2, CallsBuilt DEF AcceptDecline
<1>7. CASE AcceptSlot(a)
  <2>1. call[a].sock \in Sockets
    BY <1>0, <1>7, CallFields DEF AcceptSlot
  <2>2. Head(freeConns) \in Slots /\ Tail(freeConns) \in Seq(Slots)
    BY <1>7, TailFacts DEF AcceptSlot
  <2> QED
    BY <1>7, <2>1, <2>2, CallsBuilt DEF AcceptSlot
<1>8. CASE AcceptSend(a)
  <2>1. call[a].slot \in Slots /\ call[a].sock \in Sockets
    BY <1>0, <1>8, CallFields DEF AcceptSend
  <2>2. Cmd("setring", a, call[a].slot, call[a].sock, None) \in Commands
    BY <2>1, CommandsBuilt
  <2>3. cmdRing' \in Seq(Commands) /\ cmdFree' \in Nat /\ starved' \in BOOLEAN
    BY <1>8, <2>2, SendType DEF AcceptSend
  <2>4. owned' \in [Apps -> SUBSET Slots]
    BY SMTT(60), <1>8, <2>1 DEF AcceptSend
  <2>5. call' \in [Apps -> Calls]
    BY <1>8, CallsBuilt DEF AcceptSend
  <2> QED
    BY <1>8, <2>3, <2>4, <2>5 DEF AcceptSend
<1>9. CASE CloseFlush(a)
  <2>1. << >> \in Seq(Sockets)
    BY SMTT(60)
  <2> QED
    BY <1>9, <2>1, CallsBuilt DEF CloseFlush
<1>10. CASE Terminate(a)
  BY <1>10, CallsBuilt DEF Terminate
<1>11. CASE DyingClose(a)
  <2>1. PICK s \in todo[a] : CloseSend(a, s) /\ todo' = [todo EXCEPT ![a] = @ \ {s}]
    BY <1>11 DEF DyingClose
  <2>2. s \in Slots /\ Cmd("close", a, s, None, None) \in Commands
    BY CommandsBuilt
  <2>3. cmdRing' \in Seq(Commands) /\ cmdFree' \in Nat /\ starved' \in BOOLEAN
    BY <2>1, <2>2, SendType DEF CloseSend
  <2> QED
    BY <2>1, <2>2, <2>3, CallsBuilt DEF CloseSend
<1>12. CASE Die(a)
  <2>1. Cmd("disconnect", a, None, None, None) \in Commands
    BY CommandsBuilt
  <2>2. cmdRing' \in Seq(Commands) /\ cmdFree' \in Nat /\ starved' \in BOOLEAN
    BY <1>12, <2>1, SendType DEF Die
  <2> QED
    BY <1>12, <2>2 DEF Die
<1> QED
  BY <1>1, <1>2, <1>3, <1>4, <1>5, <1>6, <1>7, <1>8, <1>9, <1>10, <1>11, <1>12, <1>13 DEF AppNext

(* The steps of the service keep the types. *)
LEMMA TypeService ==
  ASSUME TypeOK, ServiceNext
  PROVE  TypeOK'
<1> USE DEF TypeOK
<1> DEFINE c == Head(cmdRing)
<1>0. ASSUME NEW op, Take(op), Done
      PROVE  /\ c \in Commands /\ c.op = op
             /\ cmdRing' \in Seq(Commands) /\ cmdFree' \in Nat
             /\ UNCHANGED <<rxRing, local, owned, call, status, todo>>
  BY SMTT(60), <1>0, TailFacts DEF Take, Done, appVars
<1>1. ASSUME NEW k \in Sockets, Closed(k)
      PROVE  kern' \in [Sockets -> KernelSockets]
  <2>1. /\ [state |-> "none", glue |-> None] \in KernelSockets
        /\ [kern[k] EXCEPT !.state = "linger"] \in KernelSockets
    BY RecordUpdates
  <2> QED
    BY <1>1, <2>1 DEF Closed
<1>2. CASE ProcessOpen
  <2>1. c \in Commands /\ c.op = "open"
    BY <1>0, <1>2 DEF ProcessOpen
  <2>2. c.slot \in Slots /\ c.sel \in Apps \cup {None} /\ c.app \in Apps
    BY <2>1, CommandFields
  <2>3. CASE UNCHANGED <<sat, kern>> /\ starved' = TRUE
    BY <1>0, <1>2, <2>3 DEF ProcessOpen
  <2>4. ASSUME NEW k \in Sockets, Attach(c.slot, k, c.sel, c.app),
               kern' = [kern EXCEPT ![k] = [state |-> "open", glue |-> c.slot]],
               UNCHANGED starved
        PROVE  TypeOK'
    <3>1. /\ [socket |-> k, ringset |-> c.slot, parent |-> c.sel, pid |-> c.app] \in Satellites
          /\ [state |-> "open", glue |-> c.slot] \in KernelSockets
      BY <2>2, RecordUpdates
    <3>2. sat' \in [Slots -> Satellites] /\ kern' \in [Sockets -> KernelSockets]
      BY <2>4, <3>1 DEF Attach
    <3> QED
      BY <1>0, <1>2, <2>4, <3>2 DEF ProcessOpen
  <2> QED
    BY <1>2, <2>3, <2>4 DEF ProcessOpen, Unused
<1>3. CASE ProcessSetRing
  <2>1. c \in Commands /\ c.op = "setring"
    BY <1>0, <1>3 DEF ProcessSetRing
  <2>2. c.slot \in Slots /\ c.sock \in Sockets /\ c.app \in Apps
    BY <2>1, CommandFields
  <2>3. sat[c.slot].parent \in Apps \cup {None}
    BY <2>2, RecordUpdates
  <2>4. sat' \in [Slots -> Satellites]
    <3>1. [socket |-> c.sock, ringset |-> c.slot, parent |-> sat[c.slot].parent,
           pid |-> c.app] \in Satellites
      BY <2>2, <2>3 DEF Satellites
    <3> QED
      BY <1>3, <3>1 DEF ProcessSetRing, Attach
  <2>5. kern' \in [Sockets -> KernelSockets]
    <3>1. kern[c.sock] \in KernelSockets
      BY <2>2
    <3>2. [kern[c.sock] EXCEPT !.glue = c.slot] \in KernelSockets
      BY <2>2, <3>1, RecordUpdates
    <3> QED
      BY <1>3, <3>2 DEF ProcessSetRing
  <2> QED
    BY <1>0, <1>3, <2>4, <2>5 DEF ProcessSetRing
<1>4. CASE ProcessListen
  <2>1. c \in Commands /\ c.op = "listen"
    BY <1>0, <1>4 DEF ProcessListen
  <2>2. c.slot \in Slots
    BY <2>1, CommandFields
  <2>3. kern' \in [Sockets -> KernelSockets]
    <3>1. \A k \in Sockets : [kern[k] EXCEPT !.state = "listen"] \in KernelSockets
      BY RecordUpdates
    <3>2. sat[c.slot].socket \in Sockets \cup {None}
      BY <2>2 DEF Satellites
    <3>3. kern' = kern \/ \E k \in Sockets : kern' = [kern EXCEPT ![k].state = "listen"]
      BY <1>4, <3>2 DEF ProcessListen
    <3> QED
      BY <3>1, <3>3
  <2>4. crashed' \in BOOLEAN
    BY <1>4 DEF ProcessListen
  <2> QED
    BY <1>0, <1>4, <2>3, <2>4 DEF ProcessListen
<1>5. CASE ProcessSelect
  <2>1. c \in Commands /\ c.op = "select"
    BY <1>0, <1>5 DEF ProcessSelect
  <2>2. c.slot \in Slots /\ c.sel \in Apps \cup {None} /\ c.app \in Apps
    BY <2>1, CommandFields
  <2>3. sat' = [sat EXCEPT ![c.slot] = [@ EXCEPT !.parent = c.sel, !.pid = c.app]]
    BY <1>5, <2>2 DEF ProcessSelect, Satellites
  <2>4. sat' \in [Slots -> Satellites]
    <3>1. [sat[c.slot] EXCEPT !.parent = c.sel, !.pid = c.app] \in Satellites
      BY <2>2, RecordUpdates
    <3> QED
      BY <2>3, <3>1
  <2>5. crashed' \in BOOLEAN
    BY <1>5 DEF ProcessSelect
  <2> QED
    BY <1>0, <1>5, <2>4, <2>5 DEF ProcessSelect
<1>6. CASE ProcessClose
  <2>1. c \in Commands /\ c.op = "close"
    BY <1>0, <1>6 DEF ProcessClose
  <2>2. c.slot \in Slots
    BY <2>1, CommandFields
  <2>3. CASE UNCHANGED <<freeConns, sat, kern>>
    BY <1>0, <1>6, <2>3 DEF ProcessClose
  <2>4. CASE /\ sat[c.slot].socket # None
             /\ Closed(sat[c.slot].socket)
             /\ sat' = [sat EXCEPT ![c.slot] = [FreeSat EXCEPT !.pid = sat[c.slot].pid]]
             /\ FreeSocket(c.slot)
    <3>1. freeConns' \in Seq(Slots)
      BY <2>2, <2>4, AppendFacts DEF FreeSocket
    <3>2. kern' \in [Sockets -> KernelSockets]
      BY <1>1, <2>2, <2>4, RecordUpdates
    <3>3. [FreeSat EXCEPT !.pid = sat[c.slot].pid] \in Satellites
      <4>1. sat[c.slot].pid \in Apps \cup {None}
        BY <2>2 DEF Satellites
      <4> QED
        BY <4>1 DEF FreeSat, Satellites
    <3>4. sat' \in [Slots -> Satellites]
      BY <2>4, <3>3
    <3> QED
      BY <1>0, <1>6, <3>1, <3>2, <3>4 DEF ProcessClose
  <2> QED
    BY <1>6, <2>3, <2>4 DEF ProcessClose
<1>7. CASE ProcessDecline
  <2>1. c \in Commands /\ c.op = "decline"
    BY <1>0, <1>7 DEF ProcessDecline
  <2>2. c.sock \in Sockets
    BY <2>1, CommandFields
  <2> QED
    BY <1>0, <1>1, <1>7, <2>2 DEF ProcessDecline
<1>8. CASE ProcessOther
  BY <1>0, <1>8 DEF ProcessOther
<1>9. ASSUME NEW s \in Slots, NEW k \in Sockets, PostAccepted(s, k)
      PROVE  TypeOK'
  <2>1. rxRing' \in [Slots -> Seq(Sockets)]
    <3>1. Append(rxRing[s], k) \in Seq(Sockets)
      BY SMTT(60), AppendFacts
    <3> QED
      BY <1>9, <3>1 DEF PostAccepted
  <2>2. kern' \in [Sockets -> KernelSockets]
    <3>1. [state |-> "conn", glue |-> None] \in KernelSockets
      BY RecordUpdates
    <3> QED
      BY <1>9, <3>1 DEF PostAccepted
  <2>3. cmdFree' \in Nat
    <3>1. CASE cmdFree > 0 /\ Len(rxRing[s]) < RxRingSize - 1
      <4>1. cmdFree' = cmdFree - 1
        BY <1>9, <3>1, Zenon DEF PostAccepted
      <4> QED
        BY SMTT(60), <3>1, <4>1
    <3>2. CASE ~(cmdFree > 0 /\ Len(rxRing[s]) < RxRingSize - 1)
      BY <1>9, <3>2, Zenon DEF PostAccepted
    <3> QED
      BY <3>1, <3>2
  <2>4. starved' \in BOOLEAN
    BY <1>9 DEF PostAccepted
  <2> QED
    BY <1>9, <2>1, <2>2, <2>3, <2>4 DEF PostAccepted, appVars
<1>10. ASSUME NEW k \in Sockets, LingerDone(k)
       PROVE  TypeOK'
  <2>1. kern' \in [Sockets -> KernelSockets]
    <3>1. [state |-> "none", glue |-> None] \in KernelSockets
      BY RecordUpdates
    <3> QED
      BY <1>10, <3>1 DEF LingerDone
  <2> QED
    BY <1>10, <2>1 DEF LingerDone, appVars
<1> QED
  BY <1>2, <1>3, <1>4, <1>5, <1>6, <1>7, <1>8, <1>9, <1>10 DEF ServiceNext, ProcessCommand

(* A step that changes nothing changes no type. *)
LEMMA TypeStutter == TypeOK /\ UNCHANGED vars => TypeOK'
  BY DEF TypeOK, vars, appVars

(* The rings, the satellite table and the library's state always have      *)
(* their types; in particular every command that names a slot names one    *)
(* that exists, so process_commands never indexes outside its tables.      *)
THEOREM TypeCorrect == Spec => []TypeOK
<1>1. TypeOK /\ [Next]_vars => TypeOK'
  BY TypeApp, TypeService, TypeStutter DEF Next
<1> QED
  BY <1>1, TypeInit, PTL DEF Spec

----------------------------------------------------------------------------
(* How a step may change the command ring, as far as claims on slots are   *)
(* concerned: it keeps the ring, takes the first command off, or adds one  *)
(* that attaches nothing.                                                  *)
RingKept ==
  \/ cmdRing' = cmdRing
  \/ cmdRing # << >> /\ cmdRing' = Tail(cmdRing)
  \/ \E c \in Commands : ~IsAttach(c) /\ cmdRing' = Append(cmdRing, c)

(* Such a ring has no attaching command it did not have before. *)
LEMMA RingKeptFacts ==
  ASSUME TypeOK, RingKept, NEW s
  PROVE  /\ AttachPending(s)' => AttachPending(s)
         /\ (\A i, j \in DOMAIN cmdRing : AttachAt(i, s) /\ AttachAt(j, s) => i = j)
              => (\A i, j \in DOMAIN cmdRing : AttachAt(i, s) /\ AttachAt(j, s) => i = j)'
<1>0. cmdRing \in Seq(Commands)
  BY DEF TypeOK
<1>1. CASE cmdRing' = cmdRing
  BY <1>1 DEF AttachPending, AttachAt
<1>2. CASE cmdRing # << >> /\ cmdRing' = Tail(cmdRing)
  <2>1. \A i \in DOMAIN cmdRing' :
          i \in Nat /\ i + 1 \in DOMAIN cmdRing /\ cmdRing'[i] = cmdRing[i + 1]
    BY SMTT(60), <1>0, <1>2, TailFacts
  <2>2. \A i \in DOMAIN cmdRing' : AttachAt(i, s)' => AttachAt(i + 1, s)
    BY <2>1 DEF AttachAt
  <2> QED
    BY SMTT(60), <2>1, <2>2 DEF AttachPending
<1>3. ASSUME NEW c \in Commands, ~IsAttach(c), cmdRing' = Append(cmdRing, c)
      PROVE  \A i \in DOMAIN cmdRing' : AttachAt(i, s)' => i \in DOMAIN cmdRing /\ AttachAt(i, s)
  BY SMTT(60), <1>0, <1>3, AppendFacts DEF AttachAt
<1>4. CASE \E c \in Commands : ~IsAttach(c) /\ cmdRing' = Append(cmdRing, c)
  BY <1>3, <1>4 DEF AttachPending
<1> QED
  BY <1>1, <1>2, <1>4 DEF RingKept

(* Something has a claim on the slot. *)
Claimed(s) ==
  InFree(s) \/ AttachPending(s) \/ Attached(s) \/ \E a \in Apps : InCall(a, s)

(* What every step keeps: slots stay exclusive, and no step makes a claim  *)
(* on a slot that nothing had a claim on.                                  *)
ClaimsKept == SlotExclusive' /\ \A s \in Slots : Claimed(s)' => Claimed(s)

(* A step that moves no slot onto the free ring, into a call, onto the     *)
(* command ring or into the satellite table keeps the claims.              *)
LEMMA NoNewClaim ==
  ASSUME TypeOK, SlotExclusive, RingKept,
         freeConns' = freeConns,
         \A s \in Slots : Attached(s)' => Attached(s),
         \A a \in Apps, s \in Slots : InCall(a, s)' => InCall(a, s)
  PROVE  ClaimsKept
<1>1. \A s \in Slots : InFree(s)' <=> InFree(s)
  BY DEF InFree
<1> QED
  BY <1>1, RingKeptFacts DEF SlotExclusive, Claimed, ClaimsKept

(* Taking the first slot of free_connections_ring into a call keeps the     *)
(* claims.                                                                 *)
LEMMA SlotTaken ==
  ASSUME TypeOK, SlotExclusive, NEW a \in Apps,
         freeConns # << >>, freeConns' = Tail(freeConns),
         UNCHANGED <<cmdRing, sat>>,
         \A s \in Slots : InCall(a, s)' => s = Head(freeConns),
         \A b \in Apps, s \in Slots : b # a => (InCall(b, s)' <=> InCall(b, s))
  PROVE  ClaimsKept
<1> DEFINE h == Head(freeConns)
<1>0. freeConns \in Seq(Slots)
  BY DEF TypeOK
<1>1. h \in Slots /\ InFree(h)
  BY SMTT(60), <1>0, TailFacts DEF InFree
<1>2. \A i, j \in DOMAIN freeConns' : freeConns'[i] = freeConns'[j] => i = j
  BY SMTT(60), <1>0, TailFacts DEF SlotExclusive
<1>3. \A s \in Slots : InFree(s)' => InFree(s) /\ s # h
  <2> SUFFICES ASSUME NEW s \in Slots, InFree(s)' PROVE InFree(s) /\ s # h
    OBVIOUS
  <2>1. PICK i \in DOMAIN freeConns' : freeConns'[i] = s
    BY DEF InFree
  <2>2. i + 1 \in DOMAIN freeConns /\ freeConns[i + 1] = s /\ i + 1 # 1 /\ 1 \in DOMAIN freeConns
        /\ freeConns[1] = h
    BY SMTT(60), <1>0, <2>1, TailFacts
  <2> QED
    BY <2>2 DEF InFree, SlotExclusive
<1>4. \A s \in Slots : /\ AttachPending(s)' <=> AttachPending(s)
                       /\ Attached(s)' <=> Attached(s)
                       /\ \A i : AttachAt(i, s)' <=> AttachAt(i, s)
  BY DEF AttachPending, AttachAt, Attached
<1> QED
  BY SMTT(60), <1>1, <1>2, <1>3, <1>4 DEF SlotExclusive, Claimed, ClaimsKept

(* Handing the slot of a call over to an OPEN or SET_RING command keeps    *)
(* slots exclusive.                                                        *)
LEMMA SlotSent ==
  ASSUME TypeOK, SlotExclusive, NEW a \in Apps, NEW c \in Commands,
         c.slot \in Slots, InCall(a, c.slot),
         cmdRing' = Append(cmdRing, c),
         UNCHANGED <<freeConns, sat>>,
         \A s \in Slots : ~InCall(a, s)',
         \A b \in Apps, s \in Slots : b # a => (InCall(b, s)' <=> InCall(b, s))
  PROVE  ClaimsKept
<1> DEFINE h == c.slot
           n == Len(cmdRing) + 1
<1>0. cmdRing \in Seq(Commands)
  BY DEF TypeOK
<1>1. ~InFree(h) /\ ~AttachPending(h) /\ ~Attached(h) /\ \A b \in Apps : InCall(b, h) => b = a
  BY DEF SlotExclusive
<1>2. /\ DOMAIN cmdRing' = 1 .. n /\ DOMAIN cmdRing = 1 .. n - 1 /\ n \in Nat
      /\ \A i \in 1 .. n - 1 : cmdRing'[i] = cmdRing[i]
      /\ cmdRing'[n] = c
  BY SMTT(60), <1>0, AppendFacts
<1>3. \A s \in Slots, i \in DOMAIN cmdRing' :
        AttachAt(i, s)' => \/ i \in DOMAIN cmdRing /\ AttachAt(i, s) /\ s # h
                           \/ i = n /\ s = h
  BY SMTT(60), <1>1, <1>2 DEF AttachAt, AttachPending
<1>4. \A s \in Slots : AttachPending(s)' => AttachPending(s) \/ s = h
  BY <1>3 DEF AttachPending
<1>5. \A s \in Slots : (InFree(s)' <=> InFree(s)) /\ (Attached(s)' <=> Attached(s))
  BY DEF InFree, Attached
<1>6. \A i, j \in DOMAIN freeConns' : freeConns'[i] = freeConns'[j] => i = j
  BY DEF SlotExclusive
<1> QED
  BY SMTT(60), <1>1, <1>3, <1>4, <1>5, <1>6 DEF SlotExclusive, Claimed, ClaimsKept

(* Attaching a kernel socket to the slot of the first command on the ring, *)
(* an OPEN or SET_RING, keeps slots exclusive.                             *)
LEMMA SlotAttached ==
  ASSUME TypeOK, SlotExclusive,
         cmdRing # << >>, IsAttach(Head(cmdRing)), Head(cmdRing).slot \in Slots,
         cmdRing' = Tail(cmdRing),
         UNCHANGED <<freeConns, call>>,
         \A s \in Slots : s # Head(cmdRing).slot => (Attached(s)' <=> Attached(s))
  PROVE  ClaimsKept
<1> PICK h \in Slots : h = Head(cmdRing).slot
  OBVIOUS
<1>0. cmdRing \in Seq(Commands)
  BY DEF TypeOK
<1>1. 1 \in DOMAIN cmdRing /\ AttachAt(1, h)
  BY SMTT(60), <1>0, TailFacts DEF AttachAt
<1>2. ~InFree(h) /\ \A a \in Apps : ~InCall(a, h)
  BY <1>1 DEF SlotExclusive, AttachPending
<1>3. ~AttachPending(h)'
  <2> SUFFICES ASSUME NEW i \in DOMAIN cmdRing', AttachAt(i, h)' PROVE FALSE
    BY DEF AttachPending
  <2>1. i + 1 \in DOMAIN cmdRing /\ cmdRing'[i] = cmdRing[i + 1] /\ i + 1 # 1
    BY SMTT(60), <1>0, TailFacts
  <2>2. AttachAt(i + 1, h)
    BY <2>1 DEF AttachAt
  <2> QED
    BY <1>1, <2>1, <2>2 DEF SlotExclusive
<1>4. RingKept
  BY DEF RingKept
<1>5. \A s \in Slots : /\ InFree(s)' <=> InFree(s)
                       /\ \A a \in Apps : InCall(a, s)' <=> InCall(a, s)
  BY DEF InFree, InCall
<1>6. \A i, j \in DOMAIN freeConns' : freeConns'[i] = freeConns'[j] => i = j
  BY DEF SlotExclusive
<1>7. \A s \in Slots :
        /\ AttachPending(s)' => AttachPending(s) /\ s # h
        /\ \A i, j \in DOMAIN cmdRing' : AttachAt(i, s)' /\ AttachAt(j, s)' => i = j
  <2> SUFFICES ASSUME NEW s \in Slots
               PROVE  /\ AttachPending(s)' => AttachPending(s) /\ s # h
                      /\ (\A i, j \in DOMAIN cmdRing : AttachAt(i, s) /\ AttachAt(j, s) => i = j)'
    OBVIOUS
  <2>1. \A i, j \in DOMAIN cmdRing : AttachAt(i, s) /\ AttachAt(j, s) => i = j
    BY DEF SlotExclusive
  <2>2. AttachPending(s)' => AttachPending(s)
    BY <1>4, RingKeptFacts
  <2>3. (\A i, j \in DOMAIN cmdRing : AttachAt(i, s) /\ AttachAt(j, s) => i = j)'
    BY <1>4, <2>1, RingKeptFacts
  <2> QED
    BY <1>3, <2>2, <2>3
<1>8. \A s \in Slots : Attached(s)' => Attached(s) \/ s = h
  OBVIOUS
<1>9. SlotExclusive'
  BY SMTT(60), <1>2, <1>5, <1>6, <1>7, <1>8 DEF SlotExclusive
<1>10. Claimed(h)
  BY <1>1 DEF Claimed, AttachPending
<1> QED
  BY <1>5, <1>7, <1>8, <1>9, <1>10 DEF Claimed, ClaimsKept

(* Putting the slot of a closed socket back on free_connections_ring keeps *)
(* slots exclusive.                                                        *)
LEMMA SlotFreed ==
  ASSUME TypeOK, SlotExclusive, NEW h \in Slots,
         Attached(h), ~Attached(h)', FreeSocket(h), RingKept,
         UNCHANGED call,
         \A s \in Slots : Attached(s)' => Attached(s)
  PROVE  ClaimsKept
<1>0. freeConns \in Seq(Slots)
  BY DEF TypeOK
<1>1. ~InFree(h) /\ ~AttachPending(h) /\ \A a \in Apps : ~InCall(a, h)
  BY DEF SlotExclusive
<1>2. freeConns' = freeConns \/ freeConns' = Append(freeConns, h)
  BY DEF FreeSocket
<1>3. \A s \in Slots : InFree(s)' => InFree(s) \/ s = h
  BY SMTT(60), <1>0, <1>2, AppendFacts DEF InFree
<1>4. \A i, j \in DOMAIN freeConns' : freeConns'[i] = freeConns'[j] => i = j
  <2>1. CASE freeConns' = freeConns
    BY <2>1 DEF SlotExclusive
  <2>2. CASE freeConns' = Append(freeConns, h)
    <3>1. \A i \in DOMAIN freeConns : freeConns[i] # h
      BY <1>1 DEF InFree
    <3> QED
      BY SMTT(60), <1>0, <2>2, <3>1, AppendFacts DEF SlotExclusive
  <2> QED
    BY <1>2, <2>1, <2>2
<1>5. \A s \in Slots, a \in Apps : InCall(a, s)' <=> InCall(a, s)
  BY DEF InCall
<1> QED
  BY <1>1, <1>3, <1>4, <1>5, RingKeptFacts DEF SlotExclusive, Claimed, ClaimsKept

----------------------------------------------------------------------------
(* The free ring starts with each of its slots once and nothing else       *)
(* claims a slot.                                                          *)
LEMMA ExclusiveInit == Init => SlotExclusive
<1> SUFFICES ASSUME Init PROVE SlotExclusive
  OBVIOUS
<1>1. \A i, j \in DOMAIN freeConns : freeConns[i] = freeConns[j] => i = j
  BY SMTT(60), SlotsAssumption DEF Init, InitialFree
<1>2. \A s \in Slots : ~Attached(s) /\ ~AttachPending(s) /\ \A a \in Apps : ~InCall(a, s)
  BY SMTT(60) DEF Init, Attached, FreeSat, AttachPending, InCall, Idle
<1> QED
  BY <1>1, <1>2 DEF SlotExclusive, AttachPending

(* A command that attaches nothing leaves the claims on the ring as they   *)
(* are.                                                                    *)
LEMMA OtherCommandSent ==
  ASSUME NEW c \in Commands, ~IsAttach(c),
         Send(c) \/ SendFails \/ Resend(c) \/ ResendFails
  PROVE  RingKept
  BY DEF Send, SendFails, Resend, ResendFails, RingKept

(* The steps of the library keep the claims. *)
LEMMA ClaimsApp ==
  ASSUME TypeOK, SlotExclusive, NEW a \in Apps, AppNext(a)
  PROVE  ClaimsKept
<1>0. /\ call \in [Apps -> Calls] /\ call[a] \in Calls
      /\ \A b \in Apps : todo[b] \subseteq Slots
  BY DEF TypeOK
<1>1. CASE OpenTake(a)
  BY <1>0, <1>1, SlotTaken DEF OpenTake, InCall
<1>2. ASSUME NEW p \in {None, a}, OpenSend(a, p)
      PROVE  ClaimsKept
  <2> DEFINE c == Cmd("open", a, call[a].slot, None, p)
  <2>1. call[a].slot \in Slots
    BY <1>0, <1>2, CallFields DEF OpenSend
  <2>2. c \in Commands /\ c.slot = call[a].slot /\ InCall(a, c.slot)
    BY <1>2, <2>1, CommandsBuilt DEF OpenSend, InCall, Cmd
  <2>3. /\ \A s \in Slots : ~InCall(a, s)'
        /\ \A b \in Apps, s \in Slots : b # a => (InCall(b, s)' <=> InCall(b, s))
    BY <1>0, <1>2 DEF OpenSend, InCall, Idle
  <2>4. UNCHANGED <<freeConns, sat>>
    BY <1>2 DEF OpenSend
  <2>5. CASE Send(c)
    BY <2>1, <2>2, <2>3, <2>4, <2>5, SlotSent DEF Send
  <2>6. CASE SendFails
    BY <2>3, <2>4, <2>6, NoNewClaim DEF SendFails, RingKept, Attached
  <2> QED
    BY <1>2, <2>5, <2>6 DEF OpenSend
<1>3. ASSUME NEW s \in Slots, NEW op \in {"control", "listen", "select"}, Request(a, s, op)
      PROVE  ClaimsKept
  <2> DEFINE c == Cmd(op, a, s, None, IF op = "select" THEN a ELSE None)
  <2>1. c \in Commands /\ ~IsAttach(c)
    BY CommandsBuilt DEF Cmd, IsAttach
  <2>2. RingKept
    BY <1>3, <2>1, OtherCommandSent DEF Request
  <2> QED
    BY <1>3, <2>2, NoNewClaim DEF Request, appVars, InCall, Attached
<1>13. ASSUME NEW s \in Slots, RxKickDropped(a, s)
       PROVE  ClaimsKept
  BY <1>13, NoNewClaim DEF RxKickDropped, appVars, InCall, Attached, RingKept
<1>4. ASSUME NEW s \in Slots, AcceptTake(a, s)
      PROVE  ClaimsKept
  BY <1>0, <1>4, NoNewClaim DEF AcceptTake, InCall, Attached, RingKept
<1>5. ASSUME NEW s \in Slots, CloseSend(a, s)
      PROVE  ClaimsKept
  <2> DEFINE c == Cmd("close", a, s, None, None)
  <2>1. c \in Commands /\ ~IsAttach(c)
    BY CommandsBuilt DEF Cmd, IsAttach
  <2>2. RingKept
    BY <1>5, <2>1, OtherCommandSent DEF CloseSend
  <2>3. \A b \in Apps, t \in Slots : InCall(b, t)' => InCall(b, t)
    BY <1>0, <1>5 DEF CloseSend, InCall, Idle
  <2> QED
    BY <1>5, <2>2, <2>3, NoNewClaim DEF CloseSend, Attached
<1>6. CASE AcceptDecline(a)
  <2> DEFINE c == Cmd("decline", a, None, call[a].sock, None)
  <2>1. c \in Commands /\ ~IsAttach(c)
    BY <1>0, <1>6, CallFields, CommandsBuilt DEF AcceptDecline, Cmd, IsAttach
  <2>2. RingKept
    BY <1>6, <2>1, OtherCommandSent DEF AcceptDecline
  <2> QED
    BY <1>0, <1>6, <2>2, NoNewClaim DEF AcceptDecline, InCall, Idle, Attached
<1>7. CASE AcceptSlot(a)
  BY <1>0, <1>7, SlotTaken DEF AcceptSlot, InCall
<1>8. CASE AcceptSend(a)
  <2> DEFINE c == Cmd("setring", a, call[a].slot, call[a].sock, None)
  <2>1. call[a].slot \in Slots /\ call[a].sock \in Sockets
    BY <1>0, <1>8, CallFields DEF AcceptSend
  <2>2. c \in Commands /\ c.slot = call[a].slot /\ InCall(a, c.slot)
    BY <1>8, <2>1, CommandsBuilt DEF AcceptSend, InCall, Cmd
  <2>3. /\ \A s \in Slots : ~InCall(a, s)'
        /\ \A b \in Apps, s \in Slots : b # a => (InCall(b, s)' <=> InCall(b, s))
    BY <1>0, <1>8 DEF AcceptSend, InCall, Idle
  <2>4. UNCHANGED <<freeConns, sat>>
    BY <1>8 DEF AcceptSend
  <2>5. CASE Resend(c)
    BY <2>1, <2>2, <2>3, <2>4, <2>5, SlotSent DEF Resend
  <2>6. CASE ResendFails
    BY <2>3, <2>4, <2>6, NoNewClaim DEF ResendFails, RingKept, Attached
  <2> QED
    BY <1>8, <2>5, <2>6 DEF AcceptSend
<1>9. CASE CloseFlush(a)
  BY <1>0, <1>9, NoNewClaim DEF CloseFlush, InCall, Idle, Attached, RingKept
<1>10. CASE Terminate(a)
  BY <1>0, <1>10, NoNewClaim DEF Terminate, InCall, Idle, Attached, RingKept
<1>11. CASE DyingClose(a)
  BY <1>0, <1>5, <1>11 DEF DyingClose
<1>12. CASE Die(a)
  <2> DEFINE c == Cmd("disconnect", a, None, None, None)
  <2>1. c \in Commands /\ ~IsAttach(c)
    BY CommandsBuilt DEF Cmd, IsAttach
  <2>2. RingKept
    BY <1>12, <2>1, OtherCommandSent DEF Die
  <2> QED
    BY <1>12, <2>2, NoNewClaim DEF Die, InCall, Attached
<1> QED
  BY <1>1, <1>2, <1>3, <1>4, <1>5, <1>6, <1>7, <1>8, <1>9, <1>10, <1>11, <1>12, <1>13
     DEF AppNext, Close

(* The steps of the service keep the claims. *)
LEMMA ClaimsService ==
  ASSUME TypeOK, SlotExclusive, ServiceNext
  PROVE  ClaimsKept
<1>0. cmdRing \in Seq(Commands) /\ sat \in [Slots -> Satellites]
  BY DEF TypeOK
<1> DEFINE c == Head(cmdRing)
<1>1. ASSUME NEW op, Take(op), Done
      PROVE  /\ c \in Commands /\ c.op = op /\ cmdRing # << >>
             /\ RingKept /\ cmdRing' = Tail(cmdRing) /\ UNCHANGED call
  BY <1>0, <1>1, TailFacts DEF Take, Done, appVars, RingKept
<1>2. ASSUME RingKept, UNCHANGED <<freeConns, sat, call>>
      PROVE  ClaimsKept
  BY <1>2, NoNewClaim DEF Attached, InCall
<1>3. CASE ProcessOpen
  <2>1. c \in Commands /\ c.op = "open" /\ cmdRing # << >> /\ cmdRing' = Tail(cmdRing)
        /\ RingKept /\ UNCHANGED <<freeConns, call>>
    BY <1>1, <1>3 DEF ProcessOpen
  <2>2. c.slot \in Slots /\ IsAttach(c)
    BY <2>1, CommandFields DEF IsAttach
  <2>3. CASE UNCHANGED sat
    BY <1>2, <2>1, <2>3
  <2>4. ASSUME NEW k, Attach(c.slot, k, c.sel, c.app)
        PROVE  ClaimsKept
    <3>1. \A s \in Slots : s # c.slot => (Attached(s)' <=> Attached(s))
      BY <1>0, <2>4 DEF Attach, Attached
    <3> QED
      BY <2>1, <2>2, <3>1, SlotAttached
  <2> QED
    BY <1>3, <2>3, <2>4 DEF ProcessOpen
<1>4. CASE ProcessSetRing
  <2>1. c \in Commands /\ c.op = "setring" /\ cmdRing # << >> /\ cmdRing' = Tail(cmdRing)
        /\ UNCHANGED <<freeConns, call>>
    BY <1>1, <1>4 DEF ProcessSetRing
  <2>2. c.slot \in Slots /\ IsAttach(c)
    BY <2>1, CommandFields DEF IsAttach
  <2>3. \A s \in Slots : s # c.slot => (Attached(s)' <=> Attached(s))
    BY <1>0, <1>4 DEF ProcessSetRing, Attach, Attached
  <2> QED
    BY <2>1, <2>2, <2>3, SlotAttached
<1>5. CASE ProcessListen
  BY <1>1, <1>2, <1>5 DEF ProcessListen
<1>6. CASE ProcessSelect
  <2>1. c \in Commands /\ c.op = "select" /\ RingKept /\ UNCHANGED <<freeConns, call>>
    BY <1>1, <1>6 DEF ProcessSelect
  <2>2. \A s \in Slots : sat'[s].socket = sat[s].socket
    BY <1>0, <1>6 DEF ProcessSelect, Satellites
  <2> QED
    BY <2>1, <2>2, NoNewClaim DEF Attached, InCall
<1>7. CASE ProcessClose
  <2>1. c \in Commands /\ c.op = "close" /\ RingKept /\ UNCHANGED call
    BY <1>1, <1>7 DEF ProcessClose
  <2>2. PICK h \in Slots : h = c.slot
    BY <2>1, CommandFields
  <2>3. CASE sat[h].socket = None
    BY <1>2, <1>7, <2>1, <2>2, <2>3 DEF ProcessClose
  <2>4. CASE sat[h].socket # None
    <3>1. /\ sat' = [sat EXCEPT ![h] = [FreeSat EXCEPT !.pid = sat[h].pid]]
          /\ FreeSocket(h)
      BY <1>7, <2>2, <2>4 DEF ProcessClose
    <3>2. Attached(h) /\ ~Attached(h)' /\ \A s \in Slots : Attached(s)' => Attached(s)
      BY <1>0, <2>4, <3>1 DEF Attached, FreeSat
    <3> QED
      BY <2>1, <3>1, <3>2, SlotFreed
  <2> QED
    BY <2>3, <2>4
<1>8. CASE ProcessDecline
  BY <1>1, <1>2, <1>8 DEF ProcessDecline
<1>9. CASE ProcessOther
  BY <1>1, <1>2, <1>9 DEF ProcessOther
<1>10. ASSUME NEW s \in Slots, NEW k \in Sockets, PostAccepted(s, k)
       PROVE  ClaimsKept
  BY <1>2, <1>10 DEF PostAccepted, RingKept, appVars
<1>11. ASSUME NEW k \in Sockets, LingerDone(k)
       PROVE  ClaimsKept
  BY <1>2, <1>11 DEF LingerDone, RingKept, appVars
<1> QED
  BY <1>3, <1>4, <1>5, <1>6, <1>7, <1>8, <1>9, <1>10, <1>11 DEF ServiceNext, ProcessCommand

(* Every step keeps the claims. *)
LEMMA ClaimsStep == TypeOK /\ SlotExclusive /\ [Next]_vars => ClaimsKept
<1>1. TypeOK /\ SlotExclusive /\ Next => ClaimsKept
  BY ClaimsApp, ClaimsService DEF Next
<1>2. TypeOK /\ SlotExclusive /\ UNCHANGED vars => ClaimsKept
  BY NoNewClaim DEF vars, appVars, RingKept, Attached, InCall
<1> QED
  BY <1>1, <1>2

(* A slot never has two claims on it, whatever the applications do and     *)
(* whichever pools run dry: no two calls are given the same slot, and OPEN *)
(* and SET_RING never overwrite the pointer to a live socket.              *)
THEOREM SlotsExclusive == Spec => []SlotExclusive
<1>1. TypeOK /\ SlotExclusive /\ [Next]_vars => SlotExclusive'
  BY ClaimsStep DEF ClaimsKept
<1> QED
  BY <1>1, TypeCorrect, ExclusiveInit, PTL DEF Spec

----------------------------------------------------------------------------
(* Command i of the ring is about slot s; s is free or was just taken.     *)
About(i, s) == cmdRing[i].slot = s
Free(s) == InFree(s) \/ \E a \in Apps : InCall(a, s)

(* How slot s is used as long as no process is killed.  One process has    *)
(* its descriptor, if any; the commands about it on the ring were sent by  *)
(* that process, or by the one that closed it last, and by no other; OPEN  *)
(* or SET_RING comes before all others and CLOSE after all others; and     *)
(* nobody can take the slot before they are processed.                     *)
Orderly(s) ==
  /\ \A a, b \in Apps : s \in owned[a] /\ s \in owned[b] => a = b
  /\ \A a \in Apps : s \in owned[a] => ~Free(s)
  /\ \A a \in Apps : s \in owned[a] /\ Attached(s) => sat[s].pid = a
  /\ \A i \in DOMAIN cmdRing : About(i, s) =>
       /\ ~Free(s)
       /\ Attached(s) => sat[s].pid = cmdRing[i].app
       /\ \A a \in Apps : s \in owned[a] => cmdRing[i].app = a /\ cmdRing[i].op # "close"
       /\ \A j \in DOMAIN cmdRing : About(j, s) /\ i < j =>
            /\ cmdRing[i].op # "close" /\ ~IsAttach(cmdRing[j])
            /\ cmdRing[i].app = cmdRing[j].app
Discipline == \A s \in Slots : Orderly(s)

(* As long as no pool ran dry, a slot with a descriptor or with a command  *)
(* on its way has its socket or is about to get it.                        *)
InUse(s) ==
  (\E a \in Apps : s \in owned[a]) \/ (\E i \in DOMAIN cmdRing : About(i, s))
Backed ==
  ~starved => ~crashed /\ \A s \in Slots : InUse(s) => Attached(s) \/ AttachPending(s)

Running == \A a \in Apps : status[a] = "run"

(* The commands left when the first one is taken, and when one is added.   *)
LEMMA TailRing ==
  ASSUME TypeOK, cmdRing # << >>, cmdRing' = Tail(cmdRing)
  PROVE  /\ 1 \in DOMAIN cmdRing /\ cmdRing[1] = Head(cmdRing) /\ Head(cmdRing) \in Commands
         /\ \A i \in DOMAIN cmdRing' :
              i + 1 \in DOMAIN cmdRing /\ cmdRing'[i] = cmdRing[i + 1] /\ 1 < i + 1
         /\ \A i, j \in DOMAIN cmdRing' : i < j => i + 1 < j + 1
         /\ \A i \in DOMAIN cmdRing : i = 1 \/ \E j \in DOMAIN cmdRing' : i = j + 1
<1>1. cmdRing \in Seq(Commands)
  BY DEF TypeOK
<1>2. /\ Len(cmdRing) \in Nat \ {0} /\ DOMAIN cmdRing = 1 .. Len(cmdRing)
      /\ DOMAIN cmdRing' = 1 .. Len(cmdRing) - 1
      /\ \A i \in 1 .. Len(cmdRing) - 1 : cmdRing'[i] = cmdRing[i + 1]
      /\ Head(cmdRing) \in Commands /\ Head(cmdRing) = cmdRing[1]
  BY <1>1, TailFacts
<1>3. \A i \in 1 .. Len(cmdRing) : i = 1 \/ \E j \in 1 .. Len(cmdRing) - 1 : i = j + 1
  <2> SUFFICES ASSUME NEW i \in 1 .. Len(cmdRing), i # 1
               PROVE  i - 1 \in 1 .. Len(cmdRing) - 1 /\ i = (i - 1) + 1
    OBVIOUS
  <2> QED
    BY SMTT(60), <1>2
<1>4. /\ \A i \in 1 .. Len(cmdRing) - 1 : i + 1 \in 1 .. Len(cmdRing) /\ 1 < i + 1
      /\ \A i, j \in 1 .. Len(cmdRing) - 1 : i < j => i + 1 < j + 1
      /\ 1 \in 1 .. Len(cmdRing)
  BY SMTT(60), <1>2
<1> QED
  BY <1>2, <1>3, <1>4

LEMMA AppendRing ==
  ASSUME TypeOK, NEW c \in Commands, cmdRing' = Append(cmdRing, c)
  PROVE  \E n \in DOMAIN cmdRing' :
           /\ cmdRing'[n] = c
           /\ \A i \in DOMAIN cmdRing' : i = n \/ i \in DOMAIN cmdRing
           /\ \A i \in DOMAIN cmdRing :
                i \in DOMAIN cmdRing' /\ cmdRing'[i] = cmdRing[i] /\ i < n
           /\ \A i \in DOMAIN cmdRing' : ~(n < i)
<1>1. cmdRing \in Seq(Commands)
  BY DEF TypeOK
<1> DEFINE n == Len(cmdRing) + 1
<1>2. /\ n \in Nat /\ DOMAIN cmdRing = 1 .. n - 1 /\ DOMAIN cmdRing' = 1 .. n
      /\ \A i \in 1 .. n - 1 : cmdRing'[i] = cmdRing[i] /\ cmdRing'[n] = c
  BY SMTT(60), <1>1, AppendFacts
<1>3. cmdRing'[n] = c /\ n \in 1 .. n
  BY SMTT(60), <1>1, <1>2, AppendFacts
<1>4. /\ \A i \in 1 .. n : (i = n \/ i \in 1 .. n - 1) /\ ~(n < i)
      /\ \A i \in 1 .. n - 1 : i \in 1 .. n /\ i < n
  BY SMTT(60), <1>2
<1> QED
  BY <1>2, <1>3, <1>4

----------------------------------------------------------------------------
(* A step that sends no command, attaches no socket and frees no slot      *)
(* keeps slots orderly.                                                    *)
LEMMA OrderlyQuiet ==
  ASSUME TypeOK, NEW s \in Slots, Orderly(s),
         cmdRing' = cmdRing \/ (cmdRing # << >> /\ cmdRing' = Tail(cmdRing)),
         \A a \in Apps : owned'[a] \subseteq owned[a],
         Free(s)' => Free(s),
         Attached(s)' => Attached(s) /\ sat'[s].pid = sat[s].pid
  PROVE  Orderly(s)'
<1>1. CASE cmdRing' = cmdRing
  BY SMTT(60), <1>1 DEF Orderly, About
<1>2. CASE cmdRing # << >> /\ cmdRing' = Tail(cmdRing)
  <2>1. /\ \A i \in DOMAIN cmdRing' : i + 1 \in DOMAIN cmdRing /\ cmdRing'[i] = cmdRing[i + 1]
        /\ \A i, j \in DOMAIN cmdRing' : i < j => i + 1 < j + 1
    BY <1>2, TailRing
  <2>2. \A i \in DOMAIN cmdRing' : About(i, s)' =>
          /\ ~Free(s)
          /\ Attached(s) => sat[s].pid = cmdRing'[i].app
          /\ \A a \in Apps : s \in owned[a] => cmdRing'[i].app = a /\ cmdRing'[i].op # "close"
    BY SMTT(60), <2>1 DEF Orderly, About
  <2>3. \A i, j \in DOMAIN cmdRing' : About(i, s)' /\ About(j, s)' /\ i < j =>
          /\ cmdRing'[i].op # "close" /\ ~IsAttach(cmdRing'[j])
          /\ cmdRing'[i].app = cmdRing'[j].app
    <3> SUFFICES ASSUME NEW i \in DOMAIN cmdRing', NEW j \in DOMAIN cmdRing',
                        About(i, s)', About(j, s)', i < j
                 PROVE  /\ cmdRing'[i].op # "close" /\ ~IsAttach(cmdRing'[j])
                        /\ cmdRing'[i].app = cmdRing'[j].app
      OBVIOUS
    <3>1. About(i + 1, s) /\ About(j + 1, s) /\ i + 1 < j + 1
      BY <2>1 DEF About
    <3> QED
      BY SMTT(60), <2>1, <3>1 DEF Orderly
  <2> QED
    BY <2>2, <2>3 DEF Orderly
<1> QED
  BY <1>1, <1>2

(* Sending a command about a slot one has the descriptor of, or about no   *)
(* slot, keeps slots orderly; after CLOSE the descriptor is gone.          *)
LEMMA OrderlySent ==
  ASSUME TypeOK, NEW s \in Slots, Orderly(s), NEW a \in Apps, NEW c \in Commands,
         cmdRing' = Append(cmdRing, c), ~IsAttach(c),
         c.slot = s => s \in owned[a] /\ c.app = a,
         \A b \in Apps : owned'[b] \subseteq owned[b],
         c.slot = s /\ c.op = "close" => \A b \in Apps : s \notin owned'[b],
         Free(s)' => Free(s),
         UNCHANGED sat
  PROVE  Orderly(s)'
<1>1. PICK n \in DOMAIN cmdRing' :
           /\ cmdRing'[n] = c
           /\ \A i \in DOMAIN cmdRing' : i = n \/ i \in DOMAIN cmdRing
           /\ \A i \in DOMAIN cmdRing :
                i \in DOMAIN cmdRing' /\ cmdRing'[i] = cmdRing[i] /\ i < n
           /\ \A i \in DOMAIN cmdRing' : ~(n < i)
  BY AppendRing
<1>2. Attached(s)' <=> Attached(s)
  BY DEF Attached
<1>3. ASSUME NEW i \in DOMAIN cmdRing', About(i, s)'
      PROVE  /\ ~Free(s)'
             /\ Attached(s)' => sat'[s].pid = cmdRing'[i].app
             /\ \A b \in Apps : s \in owned'[b] => cmdRing'[i].app = b /\ cmdRing'[i].op # "close"
  <2>1. CASE i = n
    BY SMTT(60), <1>1, <1>2, <1>3, <2>1 DEF Orderly, About
  <2>2. CASE i \in DOMAIN cmdRing
    BY SMTT(60), <1>1, <1>2, <1>3, <2>2 DEF Orderly, About
  <2> QED
    BY <1>1, <2>1, <2>2
<1>4. ASSUME NEW i \in DOMAIN cmdRing', NEW j \in DOMAIN cmdRing', About(i, s)', About(j, s)', i < j
      PROVE  /\ cmdRing'[i].op # "close" /\ ~IsAttach(cmdRing'[j])
             /\ cmdRing'[i].app = cmdRing'[j].app
  <2>1. i \in DOMAIN cmdRing /\ About(i, s) /\ cmdRing'[i] = cmdRing[i]
    BY <1>1, <1>4 DEF About
  <2>2. CASE j = n
    BY SMTT(60), <1>1, <1>4, <2>1, <2>2 DEF Orderly, About
  <2>3. CASE j \in DOMAIN cmdRing
    BY SMTT(60), <1>1, <1>4, <2>1, <2>3 DEF Orderly, About
  <2> QED
    BY <1>1, <2>2, <2>3
<1> QED
  BY SMTT(60), <1>2, <1>3, <1>4 DEF Orderly

(* Sending OPEN or SET_RING for a slot just taken, and keeping its         *)
(* descriptor, keeps slots orderly.                                        *)
LEMMA OrderlyAttachSent ==
  ASSUME TypeOK, SlotExclusive, NEW s \in Slots, Orderly(s),
         NEW a \in Apps, NEW c \in Commands, cmdRing' = Append(cmdRing, c),
         c.slot = s => InCall(a, s) /\ ~Free(s)' /\ c.op # "close" /\ c.app = a,
         \A b \in Apps : s \in owned'[b] => s \in owned[b] \/ (c.slot = s /\ b = a),
         Free(s)' => Free(s),
         UNCHANGED sat
  PROVE  Orderly(s)'
<1>1. PICK n \in DOMAIN cmdRing' :
           /\ cmdRing'[n] = c
           /\ \A i \in DOMAIN cmdRing' : i = n \/ i \in DOMAIN cmdRing
           /\ \A i \in DOMAIN cmdRing :
                i \in DOMAIN cmdRing' /\ cmdRing'[i] = cmdRing[i] /\ i < n
           /\ \A i \in DOMAIN cmdRing' : ~(n < i)
  BY AppendRing
<1>2. Attached(s)' <=> Attached(s)
  BY DEF Attached
<1>3. CASE c.slot # s
  <2>1. \A i \in DOMAIN cmdRing' :
          About(i, s)' => i \in DOMAIN cmdRing /\ About(i, s) /\ cmdRing'[i] = cmdRing[i]
    BY <1>1, <1>3 DEF About
  <2> QED
    BY SMTT(60), <1>2, <1>3, <2>1 DEF Orderly
<1>4. CASE c.slot = s
  <2>1. Free(s) /\ ~Free(s)' /\ ~Attached(s)
    BY <1>4 DEF Free, SlotExclusive
  <2>2. /\ \A i \in DOMAIN cmdRing : ~About(i, s)
        /\ \A b \in Apps : s \notin owned[b]
    BY SMTT(60), <2>1 DEF Orderly
  <2>3. \A i \in DOMAIN cmdRing' : About(i, s)' => i = n
    BY <1>1, <2>2 DEF About
  <2>4. \A b \in Apps : s \in owned'[b] => b = a
    BY <2>2
  <2> QED
    BY SMTT(60), <1>1, <1>2, <1>4, <2>1, <2>3, <2>4 DEF Orderly
<1> QED
  BY <1>3, <1>4

(* Attaching a socket for the first command on the ring keeps slots        *)
(* orderly: the pid written is that of the process that uses the slot.     *)
LEMMA OrderlyAttached ==
  ASSUME TypeOK, NEW s \in Slots, Orderly(s),
         cmdRing # << >>, cmdRing' = Tail(cmdRing),
         UNCHANGED owned, Free(s)' => Free(s),
         Head(cmdRing).slot # s => UNCHANGED sat[s],
         Head(cmdRing).slot = s => sat'[s].pid = Head(cmdRing).app
  PROVE  Orderly(s)'
<1>1. CASE Head(cmdRing).slot # s
  BY <1>1, OrderlyQuiet DEF Attached
<1>2. CASE Head(cmdRing).slot = s
  <2>1. /\ 1 \in DOMAIN cmdRing /\ About(1, s) /\ cmdRing[1] = Head(cmdRing)
        /\ \A i \in DOMAIN cmdRing' :
             i + 1 \in DOMAIN cmdRing /\ cmdRing'[i] = cmdRing[i + 1] /\ 1 < i + 1
        /\ \A i, j \in DOMAIN cmdRing' : i < j => i + 1 < j + 1
    BY <1>2, TailRing DEF About
  <2>2. \A b \in Apps : s \in owned[b] => Head(cmdRing).app = b
    BY SMTT(60), <2>1 DEF Orderly
  <2>3. ASSUME NEW i \in DOMAIN cmdRing', About(i, s)'
        PROVE  /\ ~Free(s)
               /\ cmdRing'[i].app = Head(cmdRing).app
               /\ \A b \in Apps : s \in owned[b] => cmdRing'[i].app = b /\ cmdRing'[i].op # "close"
    <3>1. About(i + 1, s)
      BY <2>1, <2>3 DEF About
    <3> QED
      BY SMTT(60), <2>1, <3>1 DEF Orderly
  <2>4. ASSUME NEW i \in DOMAIN cmdRing', NEW j \in DOMAIN cmdRing',
               About(i, s)', About(j, s)', i < j
        PROVE  /\ cmdRing'[i].op # "close" /\ ~IsAttach(cmdRing'[j])
               /\ cmdRing'[i].app = cmdRing'[j].app
    <3>1. About(i + 1, s) /\ About(j + 1, s) /\ i + 1 < j + 1
      BY <2>1, <2>4 DEF About
    <3> QED
      BY SMTT(60), <2>1, <3>1 DEF Orderly
  <2> QED
    BY SMTT(60), <1>2, <2>2, <2>3, <2>4 DEF Orderly
<1> QED
  BY <1>1, <1>2

(* Processing CLOSE keeps slots orderly: its slot has no user left.        *)
LEMMA OrderlyClosed ==
  ASSUME TypeOK, NEW s \in Slots, Orderly(s),
         cmdRing # << >>, cmdRing' = Tail(cmdRing), Head(cmdRing).op = "close",
         UNCHANGED owned,
         Free(s)' => Free(s) \/ Head(cmdRing).slot = s,
         Attached(s)' => Attached(s) /\ sat'[s].pid = sat[s].pid
  PROVE  Orderly(s)'
<1>1. CASE Head(cmdRing).slot # s
  BY <1>1, OrderlyQuiet
<1>2. CASE Head(cmdRing).slot = s
  <2>1. /\ 1 \in DOMAIN cmdRing /\ About(1, s) /\ cmdRing[1].op = "close"
        /\ \A i \in DOMAIN cmdRing' :
             i + 1 \in DOMAIN cmdRing /\ cmdRing'[i] = cmdRing[i + 1] /\ 1 < i + 1
    BY <1>2, TailRing DEF About
  <2>2. \A b \in Apps : s \notin owned[b]
    BY SMTT(60), <2>1 DEF Orderly
  <2>3. \A i \in DOMAIN cmdRing' : ~About(i, s)'
    <3> SUFFICES ASSUME NEW i \in DOMAIN cmdRing', About(i, s)' PROVE FALSE
      OBVIOUS
    <3>1. About(i + 1, s)
      BY <2>1 DEF About
    <3> QED
      BY SMTT(60), <2>1, <3>1 DEF Orderly
  <2> QED
    BY <2>2, <2>3 DEF Orderly
<1> QED
  BY <1>1, <1>2

----------------------------------------------------------------------------
(* A process that leaves its call, or goes on to a call that took no slot, *)
(* takes none.                                                             *)
LEMMA CallLeft ==
  ASSUME NEW a \in Apps, \A b \in Apps : b # a => call'[b] = call[b],
         call'[a].op \notin {"opening", "ringing"}, UNCHANGED freeConns
  PROVE  /\ \A s \in Slots : Free(s)' => Free(s)
         /\ \A s \in Slots : ~InCall(a, s)'
         /\ \A b \in Apps, s \in Slots : b # a => (InCall(b, s)' <=> InCall(b, s))
         /\ \A s \in Slots : InFree(s)' <=> InFree(s)
<1>2. /\ \A s \in Slots : ~InCall(a, s)'
      /\ \A b \in Apps, s \in Slots : b # a => (InCall(b, s)' <=> InCall(b, s))
  BY DEF InCall
<1>3. \A s \in Slots : InFree(s)' <=> InFree(s)
  BY DEF InFree
<1> QED
  BY <1>2, <1>3 DEF Free

(* Taking the first slot of the free ring into a call. *)
LEMMA CallTakes ==
  ASSUME TypeOK, NEW a \in Apps, \A b \in Apps : b # a => call'[b] = call[b],
         freeConns # << >>, freeConns' = Tail(freeConns), NEW h, h = Head(freeConns),
         call'[a].op \in {"opening", "ringing"}, call'[a].slot = h
  PROVE  /\ h \in Slots /\ InFree(h)
         /\ \A s \in Slots : InCall(a, s)' <=> s = h
         /\ \A b \in Apps, s \in Slots : b # a => (InCall(b, s)' <=> InCall(b, s))
         /\ \A s \in Slots : InFree(s)' => InFree(s)
         /\ \A s \in Slots : InFree(s) /\ s # h => InFree(s)'
         /\ \A s \in Slots : Free(s)' => Free(s)
<1>2. /\ \A s \in Slots : InCall(a, s)' <=> s = h
      /\ \A b \in Apps, s \in Slots : b # a => (InCall(b, s)' <=> InCall(b, s))
  BY DEF InCall
<1>3. freeConns \in Seq(Slots)
  BY DEF TypeOK
<1>4. h \in Slots /\ 1 \in DOMAIN freeConns /\ freeConns[1] = h
  BY SMTT(60), <1>3, TailFacts
<1>5. \A i \in DOMAIN freeConns' : i + 1 \in DOMAIN freeConns /\ freeConns'[i] = freeConns[i + 1]
  BY SMTT(60), <1>3, TailFacts
<1>6. \A i \in DOMAIN freeConns :
        i # 1 => i - 1 \in DOMAIN freeConns' /\ freeConns'[i - 1] = freeConns[i]
  BY SMTT(60), <1>3, TailFacts
<1>7. \A s \in Slots : InFree(s)' => InFree(s)
  BY <1>5 DEF InFree
<1>8. \A s \in Slots : InFree(s) /\ s # h => InFree(s)'
  BY <1>4, <1>6 DEF InFree
<1>9. InFree(h)
  BY <1>4 DEF InFree
<1> QED
  BY <1>2, <1>4, <1>7, <1>8, <1>9 DEF Free

(* The steps of the library keep slots orderly, if no process is killed.   *)
LEMMA DisciplineApp ==
  ASSUME TypeOK, SlotExclusive, Discipline, NEW a \in Apps, status[a] = "run",
         Mortals = {}, AppNext(a)
  PROVE  Discipline'
<1>0. /\ call \in [Apps -> Calls] /\ call[a] \in Calls
      /\ owned \in [Apps -> SUBSET Slots]
      /\ \A s \in Slots : Orderly(s)
  BY DEF TypeOK, Discipline
<1>1. ASSUME UNCHANGED <<cmdRing, owned, sat>>, \A s \in Slots : Free(s)' => Free(s)
      PROVE  Discipline'
  BY <1>0, <1>1, OrderlyQuiet DEF Discipline, Attached
<1>2. CASE OpenTake(a)
  <2>1. /\ call'[a].op = "opening" /\ call'[a].slot = Head(freeConns)
        /\ \A b \in Apps : b # a => call'[b] = call[b]
    BY SMTT(60), <1>0, <1>2 DEF OpenTake
  <2>2. \A s \in Slots : Free(s)' => Free(s)
    BY <1>2, <2>1, CallTakes DEF OpenTake
  <2> QED
    BY <1>1, <1>2, <2>2 DEF OpenTake
<1>3. ASSUME NEW p \in {None, a}, OpenSend(a, p)
      PROVE  Discipline'
  <2>0. PICK h \in Slots : h = call[a].slot
    BY <1>0, <1>3, CallFields DEF OpenSend
  <2> DEFINE c == Cmd("open", a, h, None, p)
  <2>1. InCall(a, h) /\ c \in Commands
    BY <1>0, <1>3, <2>0, CallFields, CommandsBuilt DEF OpenSend, InCall
  <2>2. c.slot = h /\ c.op # "close" /\ c.app = a
    BY DEF Cmd
  <2>3. /\ \A s \in Slots : Free(s)' => Free(s)
        /\ ~Free(h)'
    <3>1. /\ call'[a].op = "idle" /\ \A b \in Apps : b # a => call'[b] = call[b]
          /\ UNCHANGED freeConns
      BY SMTT(60), <1>0, <1>3 DEF OpenSend, Idle
    <3>2. /\ \A s \in Slots : Free(s)' => Free(s)
          /\ \A s \in Slots : ~InCall(a, s)'
          /\ \A b \in Apps, s \in Slots : b # a => (InCall(b, s)' <=> InCall(b, s))
          /\ \A s \in Slots : InFree(s)' <=> InFree(s)
      BY <3>1, CallLeft
    <3>3. ~InFree(h) /\ \A b \in Apps : InCall(b, h) => b = a
      BY <2>1 DEF SlotExclusive
    <3> QED
      BY <2>1, <3>2, <3>3 DEF Free
  <2>4. CASE Send(c)
    <3>1. cmdRing' = Append(cmdRing, c) /\ UNCHANGED sat
      BY <1>3, <2>4 DEF OpenSend, Send
    <3>2. \A s \in Slots, b \in Apps : s \in owned'[b] => s \in owned[b] \/ (h = s /\ b = a)
      BY SMTT(60), <1>0, <1>3, <2>0 DEF OpenSend
    <3> HIDE DEF c
    <3> SUFFICES ASSUME NEW s \in Slots PROVE Orderly(s)'
      BY DEF Discipline
    <3>3. c.slot = s => InCall(a, s) /\ ~Free(s)' /\ c.op # "close" /\ c.app = a
      BY <2>1, <2>2, <2>3
    <3>4. \A b \in Apps : s \in owned'[b] => s \in owned[b] \/ (c.slot = s /\ b = a)
      BY <2>2, <3>2
    <3> QED
      BY <1>0, <2>1, <2>3, <3>1, <3>3, <3>4, OrderlyAttachSent
  <2>5. CASE SendFails /\ UNCHANGED owned
    BY <1>1, <1>3, <2>3, <2>5 DEF OpenSend, SendFails
  <2> QED
    BY <1>3, <2>0, <2>4, <2>5 DEF OpenSend
<1>4. ASSUME NEW s \in Slots, NEW op \in {"control", "listen", "select"}, Request(a, s, op)
      PROVE  Discipline'
  <2> DEFINE c == Cmd(op, a, s, None, IF op = "select" THEN a ELSE None)
  <2>1. c \in Commands
    BY CommandsBuilt
  <2>2. ~IsAttach(c) /\ c.slot = s /\ c.op # "close" /\ c.app = a
    BY DEF Cmd, IsAttach
  <2>3. /\ UNCHANGED <<freeConns, call, owned, sat>> /\ s \in owned[a]
        /\ \A t \in Slots : Free(t)' => Free(t)
    BY <1>4 DEF Request, appVars, Free, InFree, InCall
  <2>4. CASE Send(c)
    <3>1. cmdRing' = Append(cmdRing, c)
      BY <2>4 DEF Send
    <3> HIDE DEF c
    <3> QED
      BY <1>0, <2>1, <2>2, <2>3, <3>1, OrderlySent DEF Discipline
  <2>5. CASE SendFails
    BY <1>1, <2>3, <2>5 DEF SendFails
  <2> QED
    BY <1>4, <2>4, <2>5 DEF Request
<1>12. ASSUME NEW s \in Slots, RxKickDropped(a, s)
       PROVE  Discipline'
  BY <1>1, <1>12 DEF RxKickDropped, appVars, Free, InFree, InCall
<1>5. ASSUME NEW s \in Slots, AcceptTake(a, s)
      PROVE  Discipline'
  <2>0. call'[a].op = "accepting" /\ \A b \in Apps : b # a => call'[b] = call[b]
    BY SMTT(60), <1>0, <1>5 DEF AcceptTake
  <2>1. \A t \in Slots : Free(t)' => Free(t)
    BY <1>5, <2>0, CallLeft DEF AcceptTake
  <2> QED
    BY <1>1, <1>5, <2>1 DEF AcceptTake
<1>6. ASSUME NEW s \in Slots, Close(a, s)
      PROVE  Discipline'
  <2> DEFINE c == Cmd("close", a, s, None, None)
  <2>1. c \in Commands
    BY CommandsBuilt
  <2>2. ~IsAttach(c) /\ c.slot = s /\ c.app = a
    BY DEF Cmd, IsAttach
  <2>3. s \in owned[a] /\ UNCHANGED <<freeConns, sat>> /\ owned' = [owned EXCEPT ![a] = @ \ {s}]
    BY <1>6 DEF Close, CloseSend
  <2>4. \A t \in Slots : Free(t)' => Free(t)
    <3>1. call'[a] \in {Idle, [op |-> "flushing", slot |-> s, sock |-> None]}
      BY <1>0, <1>6 DEF Close, CloseSend
    <3>2. \A b \in Apps : b # a => call'[b] = call[b]
      BY <1>0, <1>6 DEF Close, CloseSend
    <3>3. call'[a].op \notin {"opening", "ringing"}
      BY SMTT(60), <3>1 DEF Idle
    <3> QED
      BY <2>3, <3>2, <3>3, CallLeft
  <2>5. /\ \A b \in Apps : owned'[b] \subseteq owned[b]
        /\ \A b \in Apps : s \notin owned'[b]
    <3>1. \A b \in Apps : s \in owned[b] => b = a
      BY <1>0, <2>3 DEF Orderly
    <3> QED
      BY <1>0, <2>3, <3>1
  <2>6. CASE Send(c)
    <3>1. cmdRing' = Append(cmdRing, c)
      BY <2>6 DEF Send
    <3> HIDE DEF c
    <3> QED
      BY <1>0, <2>1, <2>2, <2>3, <2>4, <2>5, <3>1, OrderlySent DEF Discipline
  <2>7. CASE SendFails
    BY <1>0, <2>3, <2>4, <2>5, <2>7, OrderlyQuiet DEF SendFails, Discipline, Attached
  <2> QED
    BY <1>6, <2>6, <2>7 DEF Close, CloseSend
<1>7. CASE AcceptDecline(a)
  <2> DEFINE c == Cmd("decline", a, None, call[a].sock, None)
  <2>1. c \in Commands
    BY <1>0, <1>7, CallFields, CommandsBuilt DEF AcceptDecline
  <2>2. ~IsAttach(c) /\ c.slot \notin Slots
    BY SlotsAssumption, SMTT(60) DEF Cmd, IsAttach, Slots
  <2>3. UNCHANGED <<freeConns, owned, sat>> /\ \A t \in Slots : Free(t)' => Free(t)
    <3>1. /\ call'[a].op = "idle" /\ \A b \in Apps : b # a => call'[b] = call[b]
          /\ UNCHANGED <<freeConns, owned, sat>>
      BY SMTT(60), <1>0, <1>7 DEF AcceptDecline, Idle
    <3> QED
      BY <3>1, CallLeft
  <2>4. CASE Resend(c)
    <3>1. cmdRing' = Append(cmdRing, c)
      BY <2>4 DEF Resend
    <3> HIDE DEF c
    <3> QED
      BY <1>0, <2>1, <2>2, <2>3, <3>1, OrderlySent DEF Discipline
  <2>5. CASE ResendFails
    BY <1>1, <2>3, <2>5 DEF ResendFails
  <2> QED
    BY <1>7, <2>4, <2>5 DEF AcceptDecline
<1>8. CASE AcceptSlot(a)
  <2>1. /\ call'[a].op = "ringing" /\ call'[a].slot = Head(freeConns)
        /\ \A b \in Apps : b # a => call'[b] = call[b]
    BY SMTT(60), <1>0, <1>8 DEF AcceptSlot
  <2>2. \A s \in Slots : Free(s)' => Free(s)
    BY <1>8, <2>1, CallTakes DEF AcceptSlot
  <2> QED
    BY <1>1, <1>8, <2>2 DEF AcceptSlot
<1>9. CASE AcceptSend(a)
  <2>0. PICK h \in Slots : h = call[a].slot
    BY <1>0, <1>9, CallFields DEF AcceptSend
  <2> DEFINE c == Cmd("setring", a, h, call[a].sock, None)
  <2>1. InCall(a, h) /\ c \in Commands
    BY <1>0, <1>9, <2>0, CallFields, CommandsBuilt DEF AcceptSend, InCall
  <2>2. c.slot = h /\ c.op # "close" /\ c.app = a
    BY DEF Cmd
  <2>3. /\ \A s \in Slots : Free(s)' => Free(s)
        /\ ~Free(h)'
    <3>1. /\ call'[a].op = "idle" /\ \A b \in Apps : b # a => call'[b] = call[b]
          /\ UNCHANGED freeConns
      BY SMTT(60), <1>0, <1>9 DEF AcceptSend, Idle
    <3>2. /\ \A s \in Slots : Free(s)' => Free(s)
          /\ \A s \in Slots : ~InCall(a, s)'
          /\ \A b \in Apps, s \in Slots : b # a => (InCall(b, s)' <=> InCall(b, s))
          /\ \A s \in Slots : InFree(s)' <=> InFree(s)
      BY <3>1, CallLeft
    <3>3. ~InFree(h) /\ \A b \in Apps : InCall(b, h) => b = a
      BY <2>1 DEF SlotExclusive
    <3> QED
      BY <2>1, <3>2, <3>3 DEF Free
  <2>4. CASE Resend(c)
    <3>1. cmdRing' = Append(cmdRing, c) /\ UNCHANGED sat
      BY <1>9, <2>4 DEF AcceptSend, Resend
    <3>2. \A s \in Slots, b \in Apps : s \in owned'[b] => s \in owned[b] \/ (h = s /\ b = a)
      BY <1>0, <1>9, <2>0 DEF AcceptSend
    <3> HIDE DEF c
    <3> SUFFICES ASSUME NEW s \in Slots PROVE Orderly(s)'
      BY DEF Discipline
    <3>3. c.slot = s => InCall(a, s) /\ ~Free(s)' /\ c.op # "close" /\ c.app = a
      BY <2>1, <2>2, <2>3
    <3>4. \A b \in Apps : s \in owned'[b] => s \in owned[b] \/ (c.slot = s /\ b = a)
      BY <2>2, <3>2
    <3> QED
      BY <1>0, <2>1, <2>3, <3>1, <3>3, <3>4, OrderlyAttachSent
  <2>5. CASE ResendFails /\ UNCHANGED owned
    BY <1>1, <1>9, <2>3, <2>5 DEF AcceptSend, ResendFails
  <2> QED
    BY <1>9, <2>0, <2>4, <2>5 DEF AcceptSend
<1>10. CASE CloseFlush(a)
  <2>1. /\ call'[a].op = "idle" /\ \A b \in Apps : b # a => call'[b] = call[b]
        /\ UNCHANGED freeConns
    BY SMTT(60), <1>0, <1>10 DEF CloseFlush, Idle
  <2>2. \A s \in Slots : Free(s)' => Free(s)
    BY <2>1, CallLeft
  <2> QED
    BY <1>1, <1>10, <2>2 DEF CloseFlush
<1>11. ~Terminate(a) /\ ~DyingClose(a) /\ ~Die(a)
  BY DEF Terminate, DyingClose, Die
<1> QED
  BY <1>2, <1>3, <1>4, <1>5, <1>6, <1>7, <1>8, <1>9, <1>10, <1>11, <1>12 DEF AppNext

(* The steps of the service keep slots orderly. *)
LEMMA DisciplineService ==
  ASSUME TypeOK, Discipline, ServiceNext
  PROVE  Discipline'
<1> DEFINE c == Head(cmdRing)
<1>0. /\ sat \in [Slots -> Satellites] /\ cmdRing \in Seq(Commands)
      /\ \A s \in Slots : Orderly(s)
  BY DEF TypeOK, Discipline
<1>1. ASSUME NEW op, Take(op), Done
      PROVE  /\ c \in Commands /\ c.op = op /\ cmdRing # << >> /\ cmdRing' = Tail(cmdRing)
             /\ UNCHANGED <<owned, call>>
  BY <1>0, <1>1, TailFacts DEF Take, Done, appVars
<1>2. ASSUME UNCHANGED <<freeConns, call>>
      PROVE  \A s \in Slots : Free(s)' => Free(s)
  BY <1>2 DEF Free, InFree, InCall
<1>3. ASSUME cmdRing' = cmdRing \/ (cmdRing # << >> /\ cmdRing' = Tail(cmdRing)),
             UNCHANGED <<owned, call, freeConns, sat>>
      PROVE  Discipline'
  BY <1>0, <1>2, <1>3, OrderlyQuiet DEF Discipline, Attached
<1>4. ASSUME cmdRing # << >>, cmdRing' = Tail(cmdRing), UNCHANGED <<owned, call, freeConns>>,
             NEW h \in Slots, h = c.slot, NEW k, NEW p, Attach(h, k, p, c.app)
      PROVE  Discipline'
  <2>1. /\ sat'[h] = [socket |-> k, ringset |-> h, parent |-> p, pid |-> c.app]
        /\ \A s \in Slots : s # h => sat'[s] = sat[s]
    BY <1>0, <1>4 DEF Attach
  <2>2. sat'[h].pid = c.app
    BY SMTT(60), <2>1
  <2> HIDE DEF c
  <2>3. \A s \in Slots : (c.slot # s => UNCHANGED sat[s]) /\ (c.slot = s => sat'[s].pid = c.app)
    BY <1>4, <2>1, <2>2
  <2> USE DEF c
  <2> QED
    BY <1>0, <1>2, <1>4, <2>3, OrderlyAttached DEF Discipline
<1>5. CASE ProcessOpen
  <2>1. /\ c \in Commands /\ c.op = "open" /\ cmdRing # << >> /\ cmdRing' = Tail(cmdRing)
        /\ UNCHANGED <<owned, call, freeConns>>
    BY <1>1, <1>5 DEF ProcessOpen
  <2>2. PICK h \in Slots : h = c.slot
    BY <2>1, CommandFields
  <2>3. CASE UNCHANGED sat
    BY <1>3, <2>1, <2>3
  <2>4. CASE \E k : Attach(h, k, c.sel, c.app)
    BY <1>4, <2>1, <2>2, <2>4
  <2> QED
    BY <1>5, <2>2, <2>3, <2>4 DEF ProcessOpen
<1>6. CASE ProcessSetRing
  <2>1. /\ c \in Commands /\ c.op = "setring" /\ cmdRing # << >> /\ cmdRing' = Tail(cmdRing)
        /\ UNCHANGED <<owned, call, freeConns>>
    BY <1>1, <1>6 DEF ProcessSetRing
  <2>2. PICK h \in Slots : h = c.slot
    BY <2>1, CommandFields
  <2>3. Attach(h, c.sock, sat[h].parent, c.app)
    BY <1>6, <2>2 DEF ProcessSetRing
  <2> QED
    BY <1>4, <2>1, <2>2, <2>3
<1>7. CASE ProcessListen
  BY <1>1, <1>3, <1>7 DEF ProcessListen
<1>8. CASE ProcessSelect
  <2>1. /\ c \in Commands /\ c.op = "select" /\ cmdRing # << >> /\ cmdRing' = Tail(cmdRing)
        /\ UNCHANGED <<owned, call, freeConns>>
    BY <1>1, <1>8 DEF ProcessSelect
  <2>2. PICK h \in Slots : h = c.slot
    BY <2>1, CommandFields
  <2>3. /\ \A s \in Slots : sat'[s].socket = sat[s].socket
        /\ \A s \in Slots : s # h => sat'[s].pid = sat[s].pid
        /\ sat'[h].pid = c.app
    BY SMTT(60), <1>0, <1>8, <2>2 DEF ProcessSelect, Satellites
  <2>4. Attached(h) => sat[h].pid = c.app
    <3>1. 1 \in DOMAIN cmdRing /\ cmdRing[1] = c
      BY <2>1, TailRing
    <3> HIDE DEF c
    <3> QED
      BY SMTT(60), <1>0, <2>2, <3>1 DEF Orderly, About
  <2>5. \A s \in Slots : Attached(s)' => Attached(s) /\ sat'[s].pid = sat[s].pid
    BY <2>3, <2>4 DEF Attached
  <2> QED
    BY <1>0, <1>2, <2>1, <2>5, OrderlyQuiet DEF Discipline
<1>9. CASE ProcessClose
  <2>1. /\ c \in Commands /\ c.op = "close" /\ cmdRing # << >> /\ cmdRing' = Tail(cmdRing)
        /\ UNCHANGED <<owned, call>>
    BY <1>1, <1>9 DEF ProcessClose
  <2>2. PICK h \in Slots : h = c.slot
    BY <2>1, CommandFields
  <2>3. CASE sat[h].socket = None
    BY <1>3, <1>9, <2>1, <2>2, <2>3 DEF ProcessClose
  <2>4. CASE sat[h].socket # None
    <3>1. /\ sat' = [sat EXCEPT ![h] = [FreeSat EXCEPT !.pid = sat[h].pid]]
          /\ FreeSocket(h)
      BY <1>9, <2>2, <2>4 DEF ProcessClose
    <3>2. \A s \in Slots : Attached(s)' => Attached(s) /\ sat'[s].pid = sat[s].pid
      BY <1>0, <2>4, <3>1 DEF Attached, FreeSat
    <3>3. \A s \in Slots : InFree(s)' => InFree(s) \/ s = h
      <4>1. freeConns' = freeConns \/ freeConns' = Append(freeConns, h)
        BY <3>1 DEF FreeSocket
      <4>2. freeConns \in Seq(Slots)
        BY DEF TypeOK
      <4> QED
        BY SMTT(60), <4>1, <4>2, AppendFacts DEF InFree
    <3>4. \A s \in Slots : Free(s)' => Free(s) \/ c.slot = s
      BY <2>1, <2>2, <3>3 DEF Free, InCall
    <3> QED
      BY <1>0, <2>1, <3>2, <3>4, OrderlyClosed DEF Discipline
  <2> QED
    BY <2>3, <2>4
<1>10. CASE ProcessDecline
  BY <1>1, <1>3, <1>10 DEF ProcessDecline
<1>11. CASE ProcessOther
  BY <1>1, <1>3, <1>11 DEF ProcessOther
<1>12. ASSUME NEW s \in Slots, NEW k \in Sockets, PostAccepted(s, k)
       PROVE  Discipline'
  BY <1>3, <1>12 DEF PostAccepted, appVars
<1>13. ASSUME NEW k \in Sockets, LingerDone(k)
       PROVE  Discipline'
  BY <1>3, <1>13 DEF LingerDone, appVars
<1> QED
  BY <1>5, <1>6, <1>7, <1>8, <1>9, <1>10, <1>11, <1>12, <1>13 DEF ServiceNext, ProcessCommand

(* Every step keeps slots orderly, and nobody dies, if nobody is killed.   *)
LEMMA DisciplineStep ==
  ASSUME Mortals = {}
  PROVE  TypeOK /\ SlotExclusive /\ Discipline /\ Running /\ [Next]_vars => Discipline' /\ Running'
<1> SUFFICES ASSUME TypeOK, SlotExclusive, Discipline, Running, [Next]_vars
             PROVE  Discipline' /\ Running'
  OBVIOUS
<1>1. CASE ServiceNext
  <2>1. UNCHANGED status
    BY <1>1 DEF ServiceNext, ProcessCommand, ProcessOpen, ProcessSetRing, ProcessListen,
                ProcessSelect, ProcessClose, ProcessDecline, ProcessOther, PostAccepted,
                LingerDone, Done, appVars
  <2> QED
    BY <1>1, <2>1, DisciplineService DEF Running
<1>2. ASSUME NEW a \in Apps, AppNext(a)
      PROVE  Discipline' /\ Running'
  <2>1. status[a] = "run"
    BY DEF Running
  <2>2. UNCHANGED status
    BY <1>2, <2>1 DEF AppNext, OpenTake, OpenSend, Request, RxKickDropped, AcceptTake, Close, CloseSend,
                      AcceptDecline, AcceptSlot, AcceptSend, CloseFlush, Terminate, DyingClose,
                      Die, appVars
  <2> QED
    BY <1>2, <2>1, <2>2, DisciplineApp DEF Running
<1>3. CASE UNCHANGED vars
  BY SMTT(60), <1>3 DEF Discipline, Orderly, Free, InFree, InCall, About, Attached, Running,
                        vars, appVars
<1> QED
  BY <1>1, <1>2, <1>3 DEF Next

LEMMA DisciplineInit == Init => Discipline /\ Running
<1> SUFFICES ASSUME Init PROVE Discipline /\ Running
  OBVIOUS
<1>1. cmdRing = << >> /\ (\A a \in Apps : owned[a] = {}) /\ Running
  BY DEF Init, Running
<1> QED
  BY SMTT(60), <1>1 DEF Discipline, Orderly

(* A CLOSE command closes a socket of the process that sent it, as long as *)
(* no process is killed: the CLOSE was sent while the process had the      *)
(* descriptor, and whoever has it is the one whose pid is in the table.    *)
THEOREM CloseIsOwn == ASSUME Mortals = {} PROVE Spec => []CloseHitsOwnSocket
<1>1. TypeOK /\ Discipline => CloseHitsOwnSocket
  <2> SUFFICES ASSUME TypeOK, Discipline, NEW i \in DOMAIN cmdRing,
                      cmdRing[i].op = "close", Attached(cmdRing[i].slot)
               PROVE  sat[cmdRing[i].slot].pid = cmdRing[i].app
    BY DEF CloseHitsOwnSocket
  <2>1. cmdRing[i] \in Commands
    BY SMTT(60) DEF TypeOK
  <2>2. cmdRing[i].slot \in Slots
    BY <2>1, CommandFields
  <2> QED
    BY <2>2 DEF Discipline, Orderly, About
<1> QED
  BY <1>1, DisciplineInit, DisciplineStep, TypeCorrect, SlotsExclusive, PTL DEF Spec

----------------------------------------------------------------------------
(* How a step may leave slots backed: slots in use were in use before, or  *)
(* just got their OPEN or SET_RING, and none lost its socket.              *)
LEMMA BackedKept ==
  ASSUME Backed, starved => starved',
         ~starved' => ~crashed',
         \A s \in Slots : ~starved' /\ InUse(s)' => InUse(s) \/ Attached(s)' \/ AttachPending(s)',
         \A s \in Slots : ~starved' /\ InUse(s)' /\ (Attached(s) \/ AttachPending(s))
                            => Attached(s)' \/ AttachPending(s)'
  PROVE  Backed'
  BY DEF Backed

(* What appending a command changes. *)
LEMMA SentUse ==
  ASSUME TypeOK, NEW c \in Commands, cmdRing' = Append(cmdRing, c), NEW s \in Slots
  PROVE  /\ AttachPending(s) => AttachPending(s)'
         /\ IsAttach(c) /\ c.slot = s => AttachPending(s)'
         /\ AttachPending(s)' => AttachPending(s) \/ (IsAttach(c) /\ c.slot = s)
         /\ (\E i \in DOMAIN cmdRing' : About(i, s)')
              => c.slot = s \/ (\E i \in DOMAIN cmdRing : About(i, s))
<1>1. PICK n \in DOMAIN cmdRing' :
           /\ cmdRing'[n] = c
           /\ \A i \in DOMAIN cmdRing' : i = n \/ i \in DOMAIN cmdRing
           /\ \A i \in DOMAIN cmdRing :
                i \in DOMAIN cmdRing' /\ cmdRing'[i] = cmdRing[i] /\ i < n
           /\ \A i \in DOMAIN cmdRing' : ~(n < i)
  BY AppendRing
<1>2. /\ \A i \in DOMAIN cmdRing : AttachAt(i, s) => AttachAt(i, s)'
      /\ AttachAt(n, s)' <=> IsAttach(c) /\ c.slot = s
      /\ \A i \in DOMAIN cmdRing' : AttachAt(i, s)' => i = n \/ AttachAt(i, s)
  BY <1>1 DEF AttachAt
<1> QED
  BY <1>1, <1>2 DEF AttachPending, About

(* What taking the first command off the ring changes. *)
LEMMA TakenUse ==
  ASSUME TypeOK, cmdRing # << >>, cmdRing' = Tail(cmdRing), NEW s \in Slots
  PROVE  /\ AttachPending(s) => AttachPending(s)' \/ (IsAttach(Head(cmdRing)) /\ Head(cmdRing).slot = s)
         /\ AttachPending(s)' => AttachPending(s)
         /\ (\E i \in DOMAIN cmdRing' : About(i, s)') => (\E i \in DOMAIN cmdRing : About(i, s))
<1>1. /\ cmdRing[1] = Head(cmdRing)
      /\ \A i \in DOMAIN cmdRing' : i + 1 \in DOMAIN cmdRing /\ cmdRing'[i] = cmdRing[i + 1]
      /\ \A i \in DOMAIN cmdRing : i = 1 \/ \E j \in DOMAIN cmdRing' : i = j + 1
  BY TailRing
<1>2. \A i \in DOMAIN cmdRing' : AttachAt(i, s)' <=> AttachAt(i + 1, s)
  BY <1>1 DEF AttachAt
<1>3. AttachAt(1, s) => IsAttach(Head(cmdRing)) /\ Head(cmdRing).slot = s
  BY <1>1 DEF AttachAt
<1> QED
  BY <1>1, <1>2, <1>3 DEF AttachPending, About

(* A command other than OPEN and SET_RING at the head of the ring finds    *)
(* its socket, as long as no pool ran dry.                                 *)
LEMMA HeadIsBacked ==
  ASSUME TypeOK, Discipline, Backed, ~starved, cmdRing # << >>,
         NEW s \in Slots, Head(cmdRing).slot = s, ~IsAttach(Head(cmdRing))
  PROVE  Attached(s)
<1>1. 1 \in DOMAIN cmdRing /\ cmdRing[1] = Head(cmdRing) /\ About(1, s)
  BY SMTT(60), TailFacts DEF TypeOK, About
<1>2. Attached(s) \/ AttachPending(s)
  BY <1>1 DEF Backed, InUse
<1>3. ASSUME NEW j \in DOMAIN cmdRing, AttachAt(j, s)
      PROVE  FALSE
  <2>1. j # 1 /\ About(j, s) /\ IsAttach(cmdRing[j])
    BY <1>1, <1>3 DEF AttachAt, About
  <2>2. 1 < j
    BY SMTT(60), <2>1 DEF TypeOK
  <2> QED
    BY <1>1, <2>1, <2>2 DEF Discipline, Orderly
<1> QED
  BY <1>2, <1>3 DEF AttachPending

(* The steps of the library keep slots backed. *)
LEMMA BackedApp ==
  ASSUME TypeOK, Backed, NEW a \in Apps, status[a] = "run", Mortals = {}, AppNext(a)
  PROVE  Backed'
<1>0. owned \in [Apps -> SUBSET Slots] /\ call[a] \in Calls
  BY DEF TypeOK
<1>1. ASSUME UNCHANGED <<cmdRing, sat, crashed>>, starved => starved',
             \A b \in Apps : owned'[b] \subseteq owned[b]
      PROVE  Backed'
  BY <1>1, BackedKept DEF InUse, About, Attached, AttachPending, AttachAt, Backed
<1>2. ASSUME NEW c \in Commands, Send(c) \/ Resend(c), UNCHANGED <<sat, crashed>>,
             \A s \in Slots : c.slot = s => IsAttach(c) \/ s \in owned[a],
             \A b \in Apps, s \in Slots :
               s \in owned'[b] => s \in owned[b] \/ (IsAttach(c) /\ c.slot = s)
      PROVE  Backed'
  <2>1. cmdRing' = Append(cmdRing, c) /\ UNCHANGED starved
    BY <1>2 DEF Send, Resend
  <2>2. \A s \in Slots : Attached(s)' <=> Attached(s)
    BY <1>2 DEF Attached
  <2>3. ASSUME NEW s \in Slots, InUse(s)'
        PROVE  InUse(s) \/ AttachPending(s)'
    BY <1>2, <2>1, <2>3, SentUse DEF InUse
  <2>4. \A s \in Slots : AttachPending(s) => AttachPending(s)'
    BY <2>1, SentUse
  <2> QED
    BY <1>2, <2>1, <2>2, <2>3, <2>4, BackedKept DEF Backed
<1>3. ASSUME starved' = TRUE
      PROVE  Backed'
  BY <1>3 DEF Backed
<1>4. CASE OpenTake(a)
  BY <1>1, <1>4 DEF OpenTake
<1>5. ASSUME NEW p \in {None, a}, OpenSend(a, p)
      PROVE  Backed'
  <2> DEFINE c == Cmd("open", a, call[a].slot, None, p)
  <2>1. c \in Commands /\ IsAttach(c) /\ c.slot = call[a].slot
    BY <1>0, <1>5, CallFields, CommandsBuilt DEF OpenSend, Cmd, IsAttach
  <2>2. CASE Send(c) /\ owned' = [owned EXCEPT ![a] = @ \cup {call[a].slot}]
    <3>1. \A b \in Apps, s \in Slots : s \in owned'[b] => s \in owned[b] \/ c.slot = s
      BY <1>0, <2>1, <2>2
    <3>2. UNCHANGED <<sat, crashed>>
      BY <1>5 DEF OpenSend
    <3> HIDE DEF c
    <3> QED
      BY <1>2, <2>1, <2>2, <3>1, <3>2
  <2>3. CASE SendFails
    BY <1>3, <2>3 DEF SendFails
  <2> QED
    BY <1>5, <2>2, <2>3 DEF OpenSend
<1>6. ASSUME NEW s \in Slots, NEW op \in {"control", "listen", "select"}, Request(a, s, op)
      PROVE  Backed'
  <2> DEFINE c == Cmd(op, a, s, None, IF op = "select" THEN a ELSE None)
  <2>1. c \in Commands /\ c.slot = s
    BY CommandsBuilt DEF Cmd
  <2>2. s \in owned[a] /\ UNCHANGED <<owned, sat, crashed>>
    BY <1>6 DEF Request, appVars
  <2>3. Send(c) \/ SendFails
    BY <1>6 DEF Request
  <2> HIDE DEF c
  <2> QED
    BY <1>2, <1>3, <2>1, <2>2, <2>3 DEF SendFails
<1>14. ASSUME NEW s \in Slots, RxKickDropped(a, s)
       PROVE  Backed'
  BY <1>3, <1>14 DEF RxKickDropped
<1>7. ASSUME NEW s \in Slots, AcceptTake(a, s)
      PROVE  Backed'
  BY <1>1, <1>7 DEF AcceptTake
<1>8. ASSUME NEW s \in Slots, Close(a, s)
      PROVE  Backed'
  <2> DEFINE c == Cmd("close", a, s, None, None)
  <2>1. c \in Commands /\ c.slot = s
    BY CommandsBuilt DEF Cmd
  <2>2. /\ s \in owned[a] /\ UNCHANGED <<sat, crashed>>
        /\ \A b \in Apps : owned'[b] \subseteq owned[b]
    BY <1>0, <1>8 DEF Close, CloseSend
  <2>3. Send(c) \/ SendFails
    BY <1>8 DEF Close, CloseSend
  <2> HIDE DEF c
  <2> QED
    BY <1>2, <1>3, <2>1, <2>2, <2>3 DEF SendFails
<1>9. CASE AcceptDecline(a)
  <2> DEFINE c == Cmd("decline", a, None, call[a].sock, None)
  <2>1. c \in Commands
    BY <1>0, <1>9, CallFields, CommandsBuilt DEF AcceptDecline
  <2>2. c.slot \notin Slots
    BY SlotsAssumption, SMTT(60) DEF Cmd, Slots
  <2>3. UNCHANGED <<owned, sat, crashed>> /\ (Resend(c) \/ ResendFails)
    BY <1>9 DEF AcceptDecline
  <2> HIDE DEF c
  <2> QED
    BY <1>2, <1>3, <2>1, <2>2, <2>3 DEF ResendFails
<1>10. CASE AcceptSlot(a)
  BY <1>1, <1>10 DEF AcceptSlot
<1>11. CASE AcceptSend(a)
  <2> DEFINE c == Cmd("setring", a, call[a].slot, call[a].sock, None)
  <2>1. c \in Commands /\ IsAttach(c) /\ c.slot = call[a].slot
    BY <1>0, <1>11, CallFields, CommandsBuilt DEF AcceptSend, Cmd, IsAttach
  <2>2. CASE Resend(c) /\ owned' = [owned EXCEPT ![a] = @ \cup {call[a].slot}]
    <3>1. \A b \in Apps, s \in Slots : s \in owned'[b] => s \in owned[b] \/ c.slot = s
      BY <1>0, <2>1, <2>2
    <3>2. UNCHANGED <<sat, crashed>>
      BY <1>11 DEF AcceptSend
    <3> HIDE DEF c
    <3> QED
      BY <1>2, <2>1, <2>2, <3>1, <3>2
  <2>3. CASE ResendFails
    BY <1>3, <2>3 DEF ResendFails
  <2> QED
    BY <1>11, <2>2, <2>3 DEF AcceptSend
<1>12. CASE CloseFlush(a)
  BY <1>1, <1>12 DEF CloseFlush
<1>13. ~Terminate(a) /\ ~DyingClose(a) /\ ~Die(a)
  BY DEF Terminate, DyingClose, Die
<1> QED
  BY <1>4, <1>5, <1>6, <1>7, <1>8, <1>9, <1>10, <1>11, <1>12, <1>13, <1>14 DEF AppNext

(* The steps of the service keep slots backed. *)
LEMMA BackedService ==
  ASSUME TypeOK, Discipline, Backed, ServiceNext
  PROVE  Backed'
<1> DEFINE c == Head(cmdRing)
<1>0. sat \in [Slots -> Satellites] /\ cmdRing \in Seq(Commands)
  BY DEF TypeOK
<1>1. ASSUME NEW op, Take(op), Done
      PROVE  /\ c \in Commands /\ c.op = op /\ cmdRing # << >> /\ cmdRing' = Tail(cmdRing)
             /\ UNCHANGED owned
  BY <1>0, <1>1, TailFacts DEF Take, Done, appVars
<1>2. ASSUME starved' = TRUE
      PROVE  Backed'
  BY <1>2 DEF Backed
<1>3. ASSUME cmdRing # << >>, cmdRing' = Tail(cmdRing), UNCHANGED <<owned, starved>>,
             ~starved => ~crashed',
             \A s \in Slots : InUse(s)' /\ Attached(s) => Attached(s)',
             \A s \in Slots : IsAttach(c) /\ c.slot = s => Attached(s)'
      PROVE  Backed'
  <2>1. \A s \in Slots : InUse(s)' => InUse(s)
    BY <1>3, TakenUse DEF InUse
  <2>2. \A s \in Slots : InUse(s)' /\ AttachPending(s) => AttachPending(s)' \/ Attached(s)'
    BY <1>3, TakenUse
  <2> QED
    BY <1>3, <2>1, <2>2, BackedKept
<1>4. CASE ProcessOpen
  <2>1. /\ c \in Commands /\ c.op = "open" /\ cmdRing # << >> /\ cmdRing' = Tail(cmdRing)
        /\ UNCHANGED <<owned, crashed>>
    BY <1>1, <1>4 DEF ProcessOpen
  <2>2. PICK h \in Slots : h = c.slot
    BY <2>1, CommandFields
  <2>3. ASSUME NEW k \in Sockets, Attach(h, k, c.sel, c.app), UNCHANGED starved
        PROVE  Backed'
    <3>1. /\ sat'[h].socket = k
          /\ \A s \in Slots : s # h => sat'[s] = sat[s]
      BY SMTT(60), <1>0, <2>3 DEF Attach
    <3>2. \A s \in Slots : (Attached(s) => Attached(s)') /\ (s = h => Attached(s)')
      BY <3>1, SlotsAssumption DEF Attached
    <3> QED
      BY <1>3, <2>1, <2>2, <2>3, <3>2 DEF Backed
  <2> QED
    BY <1>2, <1>4, <2>2, <2>3 DEF ProcessOpen, Unused
<1>5. CASE ProcessSetRing
  <2>1. /\ c \in Commands /\ c.op = "setring" /\ cmdRing # << >> /\ cmdRing' = Tail(cmdRing)
        /\ UNCHANGED <<owned, starved, crashed>>
    BY <1>1, <1>5 DEF ProcessSetRing
  <2>2. c.slot \in Slots /\ c.sock \in Sockets
    BY <2>1, CommandFields
  <2>3. /\ sat'[c.slot].socket = c.sock
        /\ \A s \in Slots : s # c.slot => sat'[s] = sat[s]
    BY SMTT(60), <1>0, <1>5, <2>2 DEF ProcessSetRing, Attach
  <2> HIDE DEF c
  <2>4. \A s \in Slots : (Attached(s) => Attached(s)') /\ (c.slot = s => Attached(s)')
    BY <2>2, <2>3, SlotsAssumption DEF Attached
  <2> USE DEF c
  <2> QED
    BY <1>3, <2>1, <2>4 DEF Backed
<1>6. CASE ProcessListen
  <2>0. /\ c \in Commands /\ c.op = "listen" /\ cmdRing # << >> /\ cmdRing' = Tail(cmdRing)
        /\ UNCHANGED owned
    BY <1>1, <1>6 DEF ProcessListen
  <2>10. UNCHANGED <<starved, sat>>
    BY <1>6 DEF ProcessListen
  <2>11. ~IsAttach(c)
    BY <2>0 DEF IsAttach
  <2>1. /\ c \in Commands /\ c.op = "listen" /\ cmdRing # << >> /\ cmdRing' = Tail(cmdRing)
        /\ UNCHANGED <<owned, starved, sat>> /\ ~IsAttach(c)
    BY <2>0, <2>10, <2>11
  <2>2. PICK h \in Slots : h = c.slot
    BY <2>1, CommandFields
  <2>3. ~starved => ~crashed'
    <3> SUFFICES ASSUME ~starved PROVE ~crashed'
      OBVIOUS
    <3>1. sat[h].socket # None
      BY <2>1, <2>2, HeadIsBacked DEF Attached
    <3>2. ~crashed
      BY DEF Backed
    <3> QED
      BY <1>6, <2>2, <3>1, <3>2 DEF ProcessListen
  <2> QED
    BY SMTT(60), <1>3, <2>1, <2>3 DEF Attached
<1>7. CASE ProcessSelect
  <2>0. /\ c \in Commands /\ c.op = "select" /\ cmdRing # << >> /\ cmdRing' = Tail(cmdRing)
        /\ UNCHANGED <<owned, starved>>
    BY <1>1, <1>7 DEF ProcessSelect
  <2>10. ~IsAttach(c)
    BY <2>0 DEF IsAttach
  <2>1. /\ c \in Commands /\ c.op = "select" /\ cmdRing # << >> /\ cmdRing' = Tail(cmdRing)
        /\ UNCHANGED <<owned, starved>> /\ ~IsAttach(c)
    BY <2>0, <2>10
  <2>2. PICK h \in Slots : h = c.slot
    BY <2>1, CommandFields
  <2>3. \A s \in Slots : sat'[s].socket = sat[s].socket
    BY SMTT(60), <1>0, <1>7, <2>2 DEF ProcessSelect, Satellites
  <2>4. ~starved => ~crashed'
    <3> SUFFICES ASSUME ~starved PROVE ~crashed'
      OBVIOUS
    <3>1. sat[h].socket # None
      BY <2>1, <2>2, HeadIsBacked DEF Attached
    <3> QED
      BY <1>7, <2>2, <3>1 DEF ProcessSelect
  <2> QED
    BY <1>3, <2>1, <2>3, <2>4 DEF Attached
<1>8. CASE ProcessClose
  <2>0. /\ c \in Commands /\ c.op = "close" /\ cmdRing # << >> /\ cmdRing' = Tail(cmdRing)
        /\ UNCHANGED <<owned, starved, crashed>>
    BY <1>1, <1>8 DEF ProcessClose
  <2>10. ~IsAttach(c)
    BY <2>0 DEF IsAttach
  <2>1. /\ c \in Commands /\ c.op = "close" /\ cmdRing # << >> /\ cmdRing' = Tail(cmdRing)
        /\ UNCHANGED <<owned, starved, crashed>> /\ ~IsAttach(c)
    BY <2>0, <2>10
  <2>2. PICK h \in Slots : h = c.slot
    BY <2>1, CommandFields
  <2>3. \A s \in Slots : s # h => (Attached(s)' <=> Attached(s))
    BY <1>0, <1>8, <2>2 DEF ProcessClose, Attached
  <2>4. ~InUse(h)'
    <3>1. /\ 1 \in DOMAIN cmdRing /\ About(1, h) /\ cmdRing[1].op = "close"
          /\ \A i \in DOMAIN cmdRing' :
               i + 1 \in DOMAIN cmdRing /\ cmdRing'[i] = cmdRing[i + 1] /\ 1 < i + 1
      BY <2>1, <2>2, TailRing DEF About
    <3>2. \A b \in Apps : h \notin owned[b]
      BY <3>1 DEF Discipline, Orderly
    <3>3. ASSUME NEW i \in DOMAIN cmdRing', About(i, h)'
          PROVE  FALSE
      <4>1. About(i + 1, h)
        BY <3>1, <3>3 DEF About
      <4> QED
        BY <3>1, <4>1 DEF Discipline, Orderly
    <3> QED
      BY <2>1, <3>2, <3>3 DEF InUse
  <2> QED
    BY <1>3, <2>1, <2>3, <2>4 DEF Backed
<1>9. ASSUME NEW op \in {"decline", "control", "disconnect"}, Take(op), Done,
             UNCHANGED <<sat, starved, crashed>>
      PROVE  Backed'
  BY <1>1, <1>3, <1>9 DEF Backed, IsAttach, Attached
<1>10. CASE ProcessDecline
  BY <1>9, <1>10 DEF ProcessDecline
<1>11. CASE ProcessOther
  BY <1>9, <1>11 DEF ProcessOther
<1>12. ASSUME UNCHANGED <<cmdRing, sat, owned, crashed>>, starved => starved'
       PROVE  Backed'
  BY <1>12, BackedKept DEF InUse, About, Attached, AttachPending, AttachAt, Backed
<1>13. ASSUME NEW s \in Slots, NEW k \in Sockets, PostAccepted(s, k)
       PROVE  Backed'
  BY <1>12, <1>13 DEF PostAccepted, appVars
<1>14. ASSUME NEW k \in Sockets, LingerDone(k)
       PROVE  Backed'
  BY <1>12, <1>14 DEF LingerDone, appVars
<1> QED
  BY <1>4, <1>5, <1>6, <1>7, <1>8, <1>10, <1>11, <1>13, <1>14 DEF ServiceNext, ProcessCommand

(* LISTEN and SET_SELECT, which the service processes without a NULL test, *)
(* always find their socket, as long as no process is killed and no pool   *)
(* ran dry.                                                                *)
THEOREM ServiceNeverDerefsNull == ASSUME Mortals = {} PROVE Spec => []NoNullDeref
<1>1. Init => Backed
  <2> SUFFICES ASSUME Init PROVE Backed
    OBVIOUS
  <2>1. cmdRing = << >> /\ (\A a \in Apps : owned[a] = {}) /\ ~crashed
    BY DEF Init
  <2> QED
    BY SMTT(60), <2>1 DEF Backed, InUse
<1>2. TypeOK /\ Discipline /\ Running /\ Backed /\ [Next]_vars => Backed'
  <2>1. TypeOK /\ Discipline /\ Running /\ Backed /\ Next => Backed'
    BY BackedApp, BackedService DEF Next, Running
  <2>2. Backed /\ UNCHANGED vars => Backed'
    <3> SUFFICES ASSUME Backed, UNCHANGED vars PROVE Backed'
      OBVIOUS
    <3>1. UNCHANGED <<cmdRing, sat, owned, starved, crashed>>
      BY DEF vars, appVars
    <3> QED
      BY <3>1 DEF InUse, About, Attached, AttachPending, AttachAt, Backed
  <2> QED
    BY <2>1, <2>2
<1>3. Backed => NoNullDeref
  BY DEF Backed, NoNullDeref
<1> QED
  BY <1>1, <1>2, <1>3, DisciplineInit, DisciplineStep, TypeCorrect, SlotsExclusive, PTL DEF Spec

----------------------------------------------------------------------------
(* Attaching a socket to a slot that has none, and gluing it, breaks no    *)
(* other socket's glue.                                                    *)
LEMMA GluedAttached ==
  ASSUME TypeOK, EventsReachOwner, NEW h \in Slots, NEW k \in Sockets, ~Attached(h),
         sat'[h].socket = k, \A s \in Slots : s # h => sat'[s] = sat[s],
         kern'[k].glue = h, \A j \in Sockets : j # k => kern'[j] = kern[j]
  PROVE  EventsReachOwner'
<1> SUFFICES ASSUME NEW j \in Sockets, kern'[j].glue # None, kern'[j].state # "linger"
             PROVE  sat'[kern'[j].glue].socket = j
  BY DEF EventsReachOwner
<1>1. CASE j = k
  BY <1>1
<1>2. CASE j # k
  <2>1. kern[j].glue \in Slots /\ sat[kern[j].glue].socket = j
    <3>1. kern[j] \in KernelSockets
      BY DEF TypeOK
    <3> QED
      BY <1>2, <3>1 DEF EventsReachOwner, KernelSockets
  <2>2. kern[j].glue # h
    BY <2>1, SlotsAssumption DEF Attached
  <2> QED
    BY <1>2, <2>1, <2>2
<1> QED
  BY <1>1, <1>2

(* When no socket gets a glueing_block and slots keep their sockets, or    *)
(* the one slot that is cleared loses a socket that ends or lingers,       *)
(* events still reach their owner.                                         *)
LEMMA GluedStays ==
  ASSUME TypeOK, EventsReachOwner,
         \A j \in Sockets :
           \/ kern'[j].glue = None
           \/ kern'[j].state = "linger"
           \/ kern'[j].glue = kern[j].glue /\ kern[j].state # "linger",
         \A j \in Sockets : \A s \in Slots :
           sat[s].socket = j /\ kern'[j].glue # None /\ kern'[j].state # "linger"
             => sat'[s].socket = j
  PROVE  EventsReachOwner'
<1> SUFFICES ASSUME NEW j \in Sockets, kern'[j].glue # None, kern'[j].state # "linger"
             PROVE  sat'[kern'[j].glue].socket = j
  BY DEF EventsReachOwner
<1>1. kern[j] \in KernelSockets
  BY DEF TypeOK
<1>2. kern[j].glue \in Slots /\ sat[kern[j].glue].socket = j /\ kern'[j].glue = kern[j].glue
  BY <1>1 DEF EventsReachOwner, KernelSockets
<1> QED
  BY <1>2

(* A socket that is closed or stops lingering is glued to nothing or       *)
(* lingers; the others do not change.                                      *)
LEMMA ClosedGlue ==
  ASSUME TypeOK, NEW k \in Sockets,
         Closed(k) \/ kern' = [kern EXCEPT ![k] = [state |-> "none", glue |-> None]]
  PROVE  /\ (kern'[k].state = "none" /\ kern'[k].glue = None) \/ kern'[k].state = "linger"
         /\ \A j \in Sockets : j # k => kern'[j] = kern[j]
<1>1. kern \in [Sockets -> KernelSockets]
  BY DEF TypeOK
<1>2. ASSUME kern' = [kern EXCEPT ![k] = [state |-> "none", glue |-> None]]
      PROVE  /\ kern'[k].state = "none" /\ kern'[k].glue = None
             /\ \A j \in Sockets : j # k => kern'[j] = kern[j]
  BY SMTT(60), <1>1, <1>2
<1>3. ASSUME kern' = [kern EXCEPT ![k].state = "linger"]
      PROVE  kern'[k].state = "linger" /\ \A j \in Sockets : j # k => kern'[j] = kern[j]
  BY SMTT(60), <1>1, <1>3 DEF KernelSockets
<1> QED
  BY <1>2, <1>3 DEF Closed

(* The steps of the service keep events reaching their owner. *)
LEMMA EventsService ==
  ASSUME TypeOK, SlotExclusive, EventsReachOwner, ServiceNext
  PROVE  EventsReachOwner'
<1> DEFINE c == Head(cmdRing)
<1>0. /\ sat \in [Slots -> Satellites] /\ cmdRing \in Seq(Commands)
      /\ kern \in [Sockets -> KernelSockets]
  BY DEF TypeOK
<1>1. ASSUME NEW op, Take(op)
      PROVE  /\ c \in Commands /\ c.op = op
             /\ IsAttach(c) => ~Attached(c.slot)
  <2>1. c \in Commands /\ c.op = op /\ 1 \in DOMAIN cmdRing /\ c = cmdRing[1]
    BY <1>1, TailRing DEF Take
  <2>2. IsAttach(c) => c.slot \in Slots
    BY <2>1, CommandFields DEF IsAttach
  <2>3. IsAttach(c) => AttachPending(c.slot)
    BY <2>1 DEF AttachPending, AttachAt
  <2> QED
    BY <2>1, <2>2, <2>3 DEF SlotExclusive
<1>2. CASE ProcessOpen
  <2>1. c \in Commands /\ c.op = "open" /\ ~Attached(c.slot)
    BY <1>1, <1>2 DEF ProcessOpen, IsAttach
  <2>2. PICK h \in Slots : h = c.slot
    BY <2>1, CommandFields
  <2>3. ASSUME NEW k \in Sockets, Attach(h, k, c.sel, c.app),
               kern' = [kern EXCEPT ![k] = [state |-> "open", glue |-> h]]
        PROVE  EventsReachOwner'
    <3>1. /\ sat'[h].socket = k
          /\ \A s \in Slots : s # h => sat'[s] = sat[s]
      BY SMTT(60), <1>0, <2>3 DEF Attach
    <3>2. kern'[k].glue = h /\ \A j \in Sockets : j # k => kern'[j] = kern[j]
      BY SMTT(60), <1>0, <2>3
    <3> QED
      BY <2>1, <2>2, <3>1, <3>2, GluedAttached
  <2>4. CASE UNCHANGED <<sat, kern>>
    BY <2>4 DEF EventsReachOwner
  <2> QED
    BY <1>2, <2>2, <2>3, <2>4 DEF ProcessOpen, Unused
<1>3. CASE ProcessSetRing
  <2>1. c \in Commands /\ c.op = "setring" /\ ~Attached(c.slot)
    BY <1>1, <1>3 DEF ProcessSetRing, IsAttach
  <2>2. PICK h \in Slots, k \in Sockets : h = c.slot /\ k = c.sock
    BY <2>1, CommandFields
  <2>3. /\ sat'[h].socket = k
        /\ \A s \in Slots : s # h => sat'[s] = sat[s]
    BY SMTT(60), <1>0, <1>3, <2>2 DEF ProcessSetRing, Attach
  <2>4. kern'[k].glue = h /\ \A j \in Sockets : j # k => kern'[j] = kern[j]
    BY SMTT(60), <1>0, <1>3, <2>2 DEF ProcessSetRing, KernelSockets
  <2> QED
    BY <2>1, <2>2, <2>3, <2>4, GluedAttached
<1>4. CASE ProcessListen
  <2>1. UNCHANGED sat
    BY <1>4 DEF ProcessListen
  <2>2. ASSUME NEW k, kern[k].state = "open", kern' = [kern EXCEPT ![k].state = "listen"],
               NEW j \in Sockets
        PROVE  \/ kern'[j].state = "linger"
               \/ kern'[j].glue = kern[j].glue /\ kern[j].state # "linger"
    BY SMTT(60), <1>0, <2>2 DEF KernelSockets
  <2>3. \A j \in Sockets :
          \/ kern'[j].state = "linger"
          \/ kern'[j].glue = kern[j].glue /\ kern[j].state # "linger"
    BY <1>4, <2>2 DEF ProcessListen
  <2> QED
    BY <2>1, <2>3, GluedStays
<1>5. CASE ProcessSelect
  <2>1. PICK h \in Slots : h = c.slot
    BY <1>1, <1>5, CommandFields DEF ProcessSelect
  <2>2. \A s \in Slots : sat'[s].socket = sat[s].socket
    BY SMTT(60), <1>0, <1>5, <2>1 DEF ProcessSelect, Satellites
  <2>3. UNCHANGED kern
    BY <1>5 DEF ProcessSelect
  <2> QED
    BY <2>2, <2>3, GluedStays
<1>6. CASE ProcessClose
  <2>1. PICK h \in Slots : h = c.slot
    BY <1>1, <1>6, CommandFields DEF ProcessClose
  <2>2. CASE UNCHANGED <<sat, kern>>
    BY <2>2 DEF EventsReachOwner
  <2>3. CASE /\ sat[h].socket # None /\ Closed(sat[h].socket)
             /\ sat' = [sat EXCEPT ![h] = [FreeSat EXCEPT !.pid = sat[h].pid]]
    <3>1. PICK k \in Sockets : k = sat[h].socket
      BY <1>0, <2>3 DEF Satellites
    <3>2. \A s \in Slots : s # h => sat'[s] = sat[s]
      BY <1>0, <2>3
    <3>3. /\ kern'[k].glue = None \/ kern'[k].state = "linger"
          /\ \A j \in Sockets : j # k => kern'[j] = kern[j]
      BY <2>3, <3>1, ClosedGlue
    <3>4. ASSUME NEW j \in Sockets, NEW s \in Slots, sat[s].socket = j,
                 kern'[j].glue # None, kern'[j].state # "linger"
          PROVE  sat'[s].socket = j
      BY <3>1, <3>2, <3>3, <3>4
    <3>5. \A j \in Sockets :
            \/ kern'[j].glue = None
            \/ kern'[j].state = "linger"
            \/ kern'[j].glue = kern[j].glue /\ kern[j].state # "linger"
      BY <3>3
    <3> QED
      BY <3>4, <3>5, GluedStays
  <2> QED
    BY <1>6, <2>1, <2>2, <2>3 DEF ProcessClose
<1>7. ASSUME NEW k \in Sockets, UNCHANGED sat,
             /\ kern'[k].glue = None \/ kern'[k].state = "linger"
             /\ \A j \in Sockets : j # k => kern'[j] = kern[j]
      PROVE  EventsReachOwner'
  <2>1. \A j \in Sockets :
          \/ kern'[j].glue = None
          \/ kern'[j].state = "linger"
          \/ kern'[j].glue = kern[j].glue /\ kern[j].state # "linger"
    BY <1>7
  <2> QED
    BY <1>7, <2>1, GluedStays
<1>8. CASE ProcessDecline
  <2>1. PICK k \in Sockets : k = c.sock
    BY <1>1, <1>8, CommandFields DEF ProcessDecline
  <2>2. UNCHANGED sat /\ Closed(k)
    BY <1>8, <2>1 DEF ProcessDecline
  <2> QED
    BY <1>7, <2>2, ClosedGlue
<1>9. CASE ProcessOther
  BY <1>9 DEF ProcessOther, EventsReachOwner
<1>10. ASSUME NEW s \in Slots, NEW k \in Sockets, PostAccepted(s, k)
       PROVE  EventsReachOwner'
  <2>1. kern'[k].glue = None /\ \A j \in Sockets : j # k => kern'[j] = kern[j]
    BY SMTT(60), <1>0, <1>10 DEF PostAccepted
  <2> QED
    BY <1>7, <1>10, <2>1 DEF PostAccepted
<1>11. ASSUME NEW k \in Sockets, LingerDone(k)
       PROVE  EventsReachOwner'
  BY <1>7, <1>11, ClosedGlue DEF LingerDone
<1> QED
  BY <1>2, <1>3, <1>4, <1>5, <1>6, <1>8, <1>9, <1>10, <1>11 DEF ServiceNext, ProcessCommand

(* Readiness and closure always reach the slot that has the socket,        *)
(* terminating signals and exhausted pools included; a closed connection   *)
(* that lingers in TCP is the one exception.                               *)
THEOREM EventsAreOwn == Spec => []EventsReachOwner
<1>1. Init => EventsReachOwner
  BY SMTT(60) DEF Init, EventsReachOwner
<1>2. ASSUME NEW a \in Apps, AppNext(a)
      PROVE  UNCHANGED <<sat, kern>>
  BY <1>2 DEF AppNext, OpenTake, OpenSend, Request, RxKickDropped, AcceptTake, Close, AcceptDecline,
       AcceptSlot, AcceptSend, CloseFlush, Terminate, DyingClose, Die, CloseSend
<1>3. ASSUME EventsReachOwner, UNCHANGED <<sat, kern>>
      PROVE  EventsReachOwner'
  BY <1>3 DEF EventsReachOwner
<1>4. TypeOK /\ SlotExclusive /\ EventsReachOwner /\ [Next]_vars => EventsReachOwner'
  BY <1>2, <1>3, EventsService DEF Next, vars
<1> QED
  BY <1>1, <1>4, TypeCorrect, SlotsExclusive, PTL DEF Spec

----------------------------------------------------------------------------
(* The four places a connection can be referenced from, and the ways to    *)
(* forget one that NoSilentLoss admits.                                    *)
BySlot(k) == \E s \in Slots : sat[s].socket = k
ByRxRing(k) == \E s \in Slots : \E i \in DOMAIN rxRing[s] : rxRing[s][i] = k
ByCommand(k) == \E i \in DOMAIN cmdRing : cmdRing[i].sock = k
ByCall(k) == \E a \in Apps : call[a].sock = k

Excused(k) ==
  \/ starved'
  \/ \E a \in Apps : status[a] = "run" /\ status'[a] = "dying" /\ call[a].sock = k
  \/ \E a \in Apps : CloseFlush(a) /\ k \in {rxRing[call[a].slot][i] :
                                          i \in DOMAIN rxRing[call[a].slot]}

LEMMA ReferencedBy ==
  ASSUME NEW k \in Sockets
  PROVE  /\ Referenced(k) <=> BySlot(k) \/ ByRxRing(k) \/ ByCommand(k) \/ ByCall(k)
         /\ Referenced(k)' <=> BySlot(k)' \/ ByRxRing(k)' \/ ByCommand(k)' \/ ByCall(k)'
  BY DEF Referenced, BySlot, ByRxRing, ByCommand, ByCall

(* A command on its way is a reference until the service takes it. *)
LEMMA SentReference ==
  ASSUME TypeOK, NEW c \in Commands, cmdRing' = Append(cmdRing, c), NEW k \in Sockets
  PROVE  ByCommand(k) \/ c.sock = k => ByCommand(k)'
<1>1. PICK n \in DOMAIN cmdRing' :
           /\ cmdRing'[n] = c
           /\ \A i \in DOMAIN cmdRing : i \in DOMAIN cmdRing' /\ cmdRing'[i] = cmdRing[i]
  BY AppendRing
<1> QED
  BY <1>1 DEF ByCommand

LEMMA TakenReference ==
  ASSUME TypeOK, cmdRing # << >>, cmdRing' = Tail(cmdRing), NEW k \in Sockets
  PROVE  ByCommand(k) => ByCommand(k)' \/ Head(cmdRing).sock = k
<1>1. /\ cmdRing[1] = Head(cmdRing)
      /\ \A i \in DOMAIN cmdRing' : cmdRing'[i] = cmdRing[i + 1]
      /\ \A i \in DOMAIN cmdRing : i = 1 \/ \E j \in DOMAIN cmdRing' : i = j + 1
  BY TailRing
<1> QED
  BY <1>1 DEF ByCommand

(* A process that moves on keeps the references it does not hold; the one  *)
(* it held has to turn up elsewhere.                                       *)
LEMMA CallReference ==
  ASSUME NEW k \in Sockets, NEW a \in Apps, UNCHANGED sat,
         \A b \in Apps : b # a => call'[b] = call[b],
         ByRxRing(k) => ByRxRing(k)' \/ call'[a].sock = k,
         ByCommand(k) => ByCommand(k)',
         call[a].sock = k => call'[a].sock = k \/ ByCommand(k)'
  PROVE  Referenced(k) => Referenced(k)'
<1>1. BySlot(k) => BySlot(k)'
  BY DEF BySlot
<1>2. ByCall(k) => ByCall(k)' \/ ByCommand(k)'
  BY DEF ByCall
<1>3. call'[a].sock = k => ByCall(k)'
  BY DEF ByCall
<1> QED
  BY <1>1, <1>2, <1>3, ReferencedBy

(* No step of an application forgets a connection without an excuse. *)
LEMMA LossApp ==
  ASSUME TypeOK, NEW a \in Apps, AppNext(a), NEW k \in Sockets, Referenced(k)
  PROVE  Referenced(k)' \/ Excused(k)
<1>0. /\ call \in [Apps -> Calls] /\ call[a] \in Calls
      /\ rxRing \in [Slots -> Seq(Sockets)] /\ k # None
  BY SlotsAssumption DEF TypeOK
<1>1. /\ call[a].op \in {"idle", "opening", "flushing"} => call[a].sock # k
      /\ Idle.sock # k /\ Idle.op = "idle"
  BY SMTT(60), <1>0 DEF Calls, Idle
<1>2. UNCHANGED sat
  BY DEF AppNext, OpenTake, OpenSend, Request, RxKickDropped, AcceptTake, Close, AcceptDecline,
       AcceptSlot, AcceptSend, CloseFlush, Terminate, DyingClose, Die, CloseSend
<1>3. ASSUME starved' = TRUE
      PROVE  Excused(k)
  BY <1>3 DEF Excused
<1>4. ASSUME NEW c \in Commands, Send(c) \/ Resend(c), UNCHANGED rxRing,
             \A b \in Apps : b # a => call'[b] = call[b],
             call[a].sock = k => c.sock = k
      PROVE  Referenced(k)'
  <2>1. cmdRing' = Append(cmdRing, c)
    BY <1>4 DEF Send, Resend
  <2>2. ByRxRing(k) => ByRxRing(k)'
    BY <1>4 DEF ByRxRing
  <2> QED
    BY <1>2, <1>4, <2>1, <2>2, SentReference, CallReference
<1>5. ASSUME UNCHANGED <<cmdRing, rxRing>>, \A b \in Apps : b # a => call'[b] = call[b],
             call[a].sock = k => call'[a].sock = k
      PROVE  Referenced(k)'
  BY <1>2, <1>5, CallReference DEF ByRxRing, ByCommand
<1>6. CASE OpenTake(a)
  <2>1. call[a].sock # k /\ \A b \in Apps : b # a => call'[b] = call[b]
    BY <1>0, <1>1, <1>6 DEF OpenTake, Ready
  <2> QED
    BY <1>5, <1>6, <2>1 DEF OpenTake
<1>7. ASSUME NEW p \in {None, a}, OpenSend(a, p)
      PROVE  Referenced(k)' \/ Excused(k)
  <2> DEFINE c == Cmd("open", a, call[a].slot, None, p)
  <2>1. c \in Commands
    BY <1>0, <1>7, CallFields, CommandsBuilt DEF OpenSend
  <2>2. /\ call[a].sock # k /\ UNCHANGED rxRing /\ (Send(c) \/ SendFails)
        /\ \A b \in Apps : b # a => call'[b] = call[b]
    BY <1>0, <1>1, <1>7 DEF OpenSend
  <2> HIDE DEF c
  <2> QED
    BY <1>3, <1>4, <2>1, <2>2 DEF SendFails
<1>8. ASSUME NEW s \in Slots, NEW op \in {"control", "listen", "select"}, Request(a, s, op)
      PROVE  Referenced(k)' \/ Excused(k)
  <2> DEFINE c == Cmd(op, a, s, None, IF op = "select" THEN a ELSE None)
  <2>1. c \in Commands
    BY CommandsBuilt
  <2>2. /\ call[a].sock # k /\ UNCHANGED <<rxRing, call>> /\ (Send(c) \/ SendFails)
    BY <1>0, <1>1, <1>8 DEF Request, Ready, appVars
  <2> HIDE DEF c
  <2> QED
    BY <1>3, <1>4, <2>1, <2>2 DEF SendFails
<1>19. ASSUME NEW s \in Slots, RxKickDropped(a, s)
       PROVE  Excused(k)
  BY <1>3, <1>19 DEF RxKickDropped
<1>9. ASSUME NEW s \in Slots, AcceptTake(a, s)
      PROVE  Referenced(k)'
  <2>1. call[a].sock # k /\ UNCHANGED cmdRing
    BY <1>0, <1>1, <1>9 DEF AcceptTake, Ready
  <2>2. /\ call'[a].sock = Head(rxRing[s]) /\ \A b \in Apps : b # a => call'[b] = call[b]
    BY SMTT(60), <1>0, <1>9 DEF AcceptTake
  <2>3. /\ rxRing'[s] = Tail(rxRing[s]) /\ rxRing[s] \in Seq(Sockets) /\ rxRing[s] # << >>
        /\ \A t \in Slots : t # s => rxRing'[t] = rxRing[t]
    BY <1>0, <1>9 DEF AcceptTake
  <2>4. \A i \in DOMAIN rxRing[s] :
          rxRing[s][i] = Head(rxRing[s]) \/ \E j \in DOMAIN rxRing'[s] : rxRing'[s][j] = rxRing[s][i]
    <3> SUFFICES ASSUME NEW i \in DOMAIN rxRing[s], i # 1
                 PROVE  i - 1 \in DOMAIN rxRing'[s] /\ rxRing'[s][i - 1] = rxRing[s][i]
      BY <2>3, TailFacts
    <3> QED
      BY SMTT(60), <2>3, TailFacts
  <2>5. ByRxRing(k) => ByRxRing(k)' \/ call'[a].sock = k
    <3>1. ASSUME NEW t \in Slots, NEW i \in DOMAIN rxRing[t], rxRing[t][i] = k, t # s
          PROVE  ByRxRing(k)'
      BY <2>3, <3>1 DEF ByRxRing
    <3>2. ASSUME NEW i \in DOMAIN rxRing[s], rxRing[s][i] = k
          PROVE  ByRxRing(k)' \/ call'[a].sock = k
      BY <2>2, <2>4, <3>2 DEF ByRxRing
    <3>3. ByRxRing(k) => \E t \in Slots : \E i \in DOMAIN rxRing[t] : rxRing[t][i] = k
      BY DEF ByRxRing
    <3> HIDE DEF ByRxRing
    <3> QED
      BY SMTT(60), <3>1, <3>2, <3>3
  <2> QED
    BY <1>2, <2>1, <2>2, <2>5, CallReference DEF ByCommand
<1>10. ASSUME NEW s \in Slots, CloseSend(a, s), call[a] = Idle
       PROVE  Referenced(k)' \/ Excused(k)
  <2> DEFINE c == Cmd("close", a, s, None, None)
  <2>1. c \in Commands
    BY CommandsBuilt
  <2>2. /\ call[a].sock # k /\ UNCHANGED rxRing /\ (Send(c) \/ SendFails)
        /\ \A b \in Apps : b # a => call'[b] = call[b]
    BY <1>0, <1>1, <1>10 DEF CloseSend
  <2> HIDE DEF c
  <2> QED
    BY <1>3, <1>4, <2>1, <2>2 DEF SendFails
<1>11. ASSUME NEW s \in Slots, Close(a, s)
       PROVE  Referenced(k)' \/ Excused(k)
  BY <1>10, <1>11 DEF Close, Ready
<1>12. CASE AcceptDecline(a)
  <2> DEFINE c == Cmd("decline", a, None, call[a].sock, None)
  <2>1. c \in Commands /\ c.sock = call[a].sock
    BY <1>0, <1>12, CallFields, CommandsBuilt DEF AcceptDecline, Cmd
  <2>2. /\ UNCHANGED rxRing /\ (Resend(c) \/ ResendFails)
        /\ \A b \in Apps : b # a => call'[b] = call[b]
    BY <1>0, <1>12 DEF AcceptDecline
  <2> HIDE DEF c
  <2> QED
    BY <1>3, <1>4, <2>1, <2>2 DEF ResendFails
<1>13. CASE AcceptSlot(a)
  <2>1. call'[a].sock = call[a].sock /\ \A b \in Apps : b # a => call'[b] = call[b]
    BY SMTT(60), <1>0, <1>13 DEF AcceptSlot
  <2> QED
    BY <1>5, <1>13, <2>1 DEF AcceptSlot
<1>14. CASE AcceptSend(a)
  <2> DEFINE c == Cmd("setring", a, call[a].slot, call[a].sock, None)
  <2>1. c \in Commands /\ c.sock = call[a].sock
    BY <1>0, <1>14, CallFields, CommandsBuilt DEF AcceptSend, Cmd
  <2>2. /\ UNCHANGED rxRing /\ (Resend(c) \/ ResendFails)
        /\ \A b \in Apps : b # a => call'[b] = call[b]
    BY <1>0, <1>14 DEF AcceptSend
  <2> HIDE DEF c
  <2> QED
    BY <1>3, <1>4, <2>1, <2>2 DEF ResendFails
<1>15. CASE CloseFlush(a)
  <2>1. PICK h \in Slots : h = call[a].slot
    BY <1>0, <1>15, CallFields DEF CloseFlush
  <2>2. /\ call[a].sock # k /\ UNCHANGED cmdRing
        /\ \A b \in Apps : b # a => call'[b] = call[b]
        /\ \A s \in Slots : s # h => rxRing'[s] = rxRing[s]
    BY <1>0, <1>1, <1>15, <2>1 DEF CloseFlush
  <2>3. CASE \E i \in DOMAIN rxRing[h] : rxRing[h][i] = k
    BY <1>15, <2>1, <2>3 DEF Excused
  <2>4. CASE ~\E i \in DOMAIN rxRing[h] : rxRing[h][i] = k
    <3>1. ByRxRing(k) => ByRxRing(k)'
      BY <2>2, <2>4 DEF ByRxRing
    <3> QED
      BY <1>2, <2>2, <3>1, CallReference DEF ByCommand
  <2> QED
    BY <2>3, <2>4
<1>16. CASE Terminate(a)
  <2>1. /\ status[a] = "run" /\ status'[a] = "dying" /\ UNCHANGED <<cmdRing, rxRing>>
        /\ \A b \in Apps : b # a => call'[b] = call[b]
    BY <1>0, <1>16 DEF Terminate, TypeOK
  <2>2. CASE call[a].sock = k
    BY <2>1, <2>2 DEF Excused
  <2>3. CASE call[a].sock # k
    BY <1>5, <2>1, <2>3
  <2> QED
    BY <2>2, <2>3
<1>17. CASE DyingClose(a)
  BY <1>0, <1>10, <1>17 DEF DyingClose, TypeOK
<1>18. CASE Die(a)
  <2> DEFINE c == Cmd("disconnect", a, None, None, None)
  <2>1. c \in Commands
    BY CommandsBuilt
  <2>2. /\ call[a].sock # k /\ UNCHANGED <<rxRing, call>> /\ (Send(c) \/ SendFails)
    BY <1>1, <1>18 DEF Die
  <2> HIDE DEF c
  <2> QED
    BY <1>3, <1>4, <2>1, <2>2 DEF SendFails
<1> QED
  BY <1>6, <1>7, <1>8, <1>9, <1>11, <1>12, <1>13, <1>14, <1>15, <1>16, <1>17, <1>18,
     <1>19 DEF AppNext

Live(k) == kern[k].state \in {"open", "conn", "listen"}

(* A command handler keeps the references of the sockets it neither        *)
(* carries nor detaches.                                                   *)
LEMMA ServiceReference ==
  ASSUME TypeOK, NEW k \in Sockets, Referenced(k), UNCHANGED <<rxRing, call>>,
         cmdRing # << >>, cmdRing' = Tail(cmdRing), Head(cmdRing).sock # k,
         \A s \in Slots : sat[s].socket = k => sat'[s].socket = k
  PROVE  Referenced(k)'
<1>1. ByCommand(k) => ByCommand(k)'
  BY TakenReference
<1>2. (BySlot(k) => BySlot(k)') /\ (ByRxRing(k) => ByRxRing(k)') /\ (ByCall(k) => ByCall(k)')
  BY DEF BySlot, ByRxRing, ByCall
<1> QED
  BY <1>1, <1>2, ReferencedBy

(* No step of the service forgets a connection without an excuse. *)
LEMMA LossService ==
  ASSUME TypeOK, SlotExclusive, ServiceNext, NEW k \in Sockets, Live(k)',
         Live(k) => Referenced(k)
  PROVE  Referenced(k)' \/ Excused(k)
<1> DEFINE c == Head(cmdRing)
<1>0. /\ sat \in [Slots -> Satellites] /\ cmdRing \in Seq(Commands)
      /\ kern \in [Sockets -> KernelSockets] /\ rxRing \in [Slots -> Seq(Sockets)]
      /\ k # None
  BY SlotsAssumption DEF TypeOK
<1>1. ASSUME NEW op, Take(op), Done
      PROVE  /\ c \in Commands /\ c.op = op /\ cmdRing # << >> /\ cmdRing' = Tail(cmdRing)
             /\ UNCHANGED <<rxRing, call>>
             /\ op \notin {"setring", "decline"} => c.sock # k
             /\ op \in {"open", "setring"} => ~Attached(c.slot)
  <2>1. c \in Commands /\ c.op = op /\ 1 \in DOMAIN cmdRing /\ c = cmdRing[1]
        /\ cmdRing # << >> /\ cmdRing' = Tail(cmdRing) /\ UNCHANGED <<rxRing, call>>
    BY <1>1, TailRing DEF Take, Done, appVars
  <2>2. op \in {"open", "setring"} => c.slot \in Slots /\ AttachPending(c.slot)
    BY <2>1, CommandFields DEF AttachPending, AttachAt, IsAttach
  <2>3. op \notin {"setring", "decline"} => c.sock = None
    BY SMTT(60), <2>1 DEF Commands
  <2> QED
    BY <1>0, <2>1, <2>2, <2>3 DEF SlotExclusive
<1>2. ASSUME kern'[k].state = kern[k].state
      PROVE  Referenced(k)
  BY <1>2 DEF Live
<1>3. ASSUME NEW s \in Slots, sat'[s].socket = k
      PROVE  Referenced(k)'
  BY <1>3 DEF Referenced
<1>4. CASE ProcessOpen
  <2>1. /\ c \in Commands /\ c.op = "open" /\ ~Attached(c.slot) /\ c.sock # k
        /\ cmdRing # << >> /\ cmdRing' = Tail(cmdRing) /\ UNCHANGED <<rxRing, call>>
    BY SMTT(60), <1>1, <1>4 DEF ProcessOpen
  <2>2. PICK h \in Slots : h = c.slot
    BY <2>1, CommandFields
  <2>3. ASSUME NEW j \in Sockets, Attach(h, j, c.sel, c.app),
               kern' = [kern EXCEPT ![j] = [state |-> "open", glue |-> h]]
        PROVE  Referenced(k)'
    <3>1. /\ sat'[h].socket = j
          /\ \A s \in Slots : s # h => sat'[s] = sat[s]
      BY SMTT(60), <1>0, <2>3 DEF Attach
    <3>2. CASE j # k
      <4>1. Referenced(k)
        BY <1>0, <1>2, <2>3, <3>2
      <4>2. \A s \in Slots : sat[s].socket = k => sat'[s].socket = k
        BY <1>0, <2>1, <2>2, <3>1 DEF Attached
      <4> QED
        BY <2>1, <4>1, <4>2, ServiceReference
    <3> QED
      BY <1>3, <3>1, <3>2
  <2>4. CASE starved' = TRUE
    BY <2>4 DEF Excused
  <2> QED
    BY <1>4, <2>2, <2>3, <2>4 DEF ProcessOpen, Unused
<1>5. CASE ProcessSetRing
  <2>1. /\ c \in Commands /\ c.op = "setring" /\ ~Attached(c.slot)
        /\ cmdRing # << >> /\ cmdRing' = Tail(cmdRing) /\ UNCHANGED <<rxRing, call>>
    BY <1>1, <1>5 DEF ProcessSetRing
  <2>2. PICK h \in Slots, j \in Sockets : h = c.slot /\ j = c.sock
    BY <2>1, CommandFields
  <2>3. /\ sat'[h].socket = j
        /\ \A s \in Slots : s # h => sat'[s] = sat[s]
    BY SMTT(60), <1>0, <1>5, <2>2 DEF ProcessSetRing, Attach
  <2>4. CASE j # k
    <3>1. Referenced(k)
      BY <1>0, <1>2, <1>5, <2>2, <2>4 DEF ProcessSetRing
    <3>2. \A s \in Slots : sat[s].socket = k => sat'[s].socket = k
      BY <1>0, <2>1, <2>2, <2>3 DEF Attached
    <3> QED
      BY <2>1, <2>2, <2>4, <3>1, <3>2, ServiceReference
  <2> QED
    BY <1>3, <2>3, <2>4
<1>6. ASSUME NEW op \in {"listen", "select", "control", "disconnect"}, Take(op), Done,
             kern'[k].state = kern[k].state \/ Live(k),
             \A s \in Slots : sat'[s].socket = sat[s].socket
      PROVE  Referenced(k)'
  <2>1. Referenced(k)
    BY <1>2, <1>6
  <2>2. /\ cmdRing # << >> /\ cmdRing' = Tail(cmdRing) /\ UNCHANGED <<rxRing, call>>
        /\ c.sock # k
    BY <1>1, <1>6
  <2> QED
    BY <1>6, <2>1, <2>2, ServiceReference
<1>7. CASE ProcessListen
  <2>1. ASSUME NEW j, kern[j].state = "open", kern' = [kern EXCEPT ![j].state = "listen"]
        PROVE  kern'[k].state = kern[k].state \/ Live(k)
    BY <1>0, <2>1 DEF Live
  <2>2. kern'[k].state = kern[k].state \/ Live(k)
    BY <1>7, <2>1 DEF ProcessListen
  <2> QED
    BY <1>6, <1>7, <2>2 DEF ProcessListen
<1>8. CASE ProcessSelect
  <2>1. PICK h \in Slots : h = c.slot
    BY <1>1, <1>8, CommandFields DEF ProcessSelect
  <2>2. \A s \in Slots : sat'[s].socket = sat[s].socket
    BY SMTT(60), <1>0, <1>8, <2>1 DEF ProcessSelect, Satellites
  <2> QED
    BY <1>6, <1>8, <2>2 DEF ProcessSelect
<1>9. CASE ProcessClose
  <2>1. /\ cmdRing # << >> /\ cmdRing' = Tail(cmdRing) /\ UNCHANGED <<rxRing, call>>
        /\ c.sock # k
    BY SMTT(60), <1>1, <1>9 DEF ProcessClose
  <2>2. PICK h \in Slots : h = c.slot
    BY <1>1, <1>9, CommandFields DEF ProcessClose
  <2>3. CASE UNCHANGED <<sat, kern>>
    BY <1>2, <2>1, <2>3, ServiceReference
  <2>4. CASE /\ sat[h].socket # None /\ Closed(sat[h].socket)
             /\ sat' = [sat EXCEPT ![h] = [FreeSat EXCEPT !.pid = sat[h].pid]]
    <3>1. PICK j \in Sockets : j = sat[h].socket
      BY <1>0, <2>4 DEF Satellites
    <3>2. k # j /\ kern'[k] = kern[k]
      BY <2>4, <3>1, ClosedGlue DEF Live
    <3>3. \A s \in Slots : sat[s].socket = k => sat'[s].socket = k
      BY <1>0, <2>4, <3>1, <3>2
    <3> QED
      BY <1>2, <2>1, <3>2, <3>3, ServiceReference
  <2> QED
    BY <1>9, <2>2, <2>3, <2>4 DEF ProcessClose
<1>10. CASE ProcessDecline
  <2>1. PICK j \in Sockets : j = c.sock
    BY <1>1, <1>10, CommandFields DEF ProcessDecline
  <2>2. UNCHANGED sat /\ Closed(j)
    BY <1>10, <2>1 DEF ProcessDecline
  <2>3. k # j /\ kern'[k] = kern[k]
    BY <2>2, ClosedGlue DEF Live
  <2>4. /\ cmdRing # << >> /\ cmdRing' = Tail(cmdRing) /\ UNCHANGED <<rxRing, call>>
    BY <1>1, <1>10 DEF ProcessDecline
  <2> QED
    BY <1>2, <2>1, <2>2, <2>3, <2>4, ServiceReference
<1>11. CASE ProcessOther
  BY <1>6, <1>11 DEF ProcessOther
<1>12. ASSUME NEW s \in Slots, NEW j \in Sockets, PostAccepted(s, j)
       PROVE  Referenced(k)' \/ Excused(k)
  <2>1. CASE starved' = TRUE
    BY <2>1 DEF Excused
  <2>2. CASE rxRing' = [rxRing EXCEPT ![s] = Append(@, j)]
    <3>1. rxRing'[s] = Append(rxRing[s], j) /\ \A t \in Slots : t # s => rxRing'[t] = rxRing[t]
      BY <1>0, <2>2
    <3>2. /\ \A i \in DOMAIN rxRing[s] : i \in DOMAIN rxRing'[s] /\ rxRing'[s][i] = rxRing[s][i]
          /\ \E i \in DOMAIN rxRing'[s] : rxRing'[s][i] = j
      <4>1. PICK q \in Seq(Sockets) : q = rxRing[s]
        BY <1>0
      <4>2. /\ DOMAIN q = 1 .. Len(q) /\ DOMAIN Append(q, j) = 1 .. Len(q) + 1
            /\ \A i \in 1 .. Len(q) : Append(q, j)[i] = q[i]
            /\ Append(q, j)[Len(q) + 1] = j /\ Len(q) \in Nat
        BY SMTT(60), AppendFacts
      <4>3. ASSUME NEW n \in Nat
            PROVE  n + 1 \in 1 .. n + 1 /\ \A i \in 1 .. n : i \in 1 .. n + 1
        BY SMTT(60)
      <4> QED
        BY <3>1, <4>1, <4>2, <4>3
    <3>3. k = j \/ ByRxRing(k) => ByRxRing(k)'
      BY <3>1, <3>2 DEF ByRxRing
    <3>4. CASE k # j
      <4>1. Referenced(k)
        BY <1>0, <1>2, <1>12, <3>4 DEF PostAccepted
      <4>2. UNCHANGED <<sat, cmdRing, call>>
        BY <1>12 DEF PostAccepted, appVars
      <4>3. (BySlot(k) => BySlot(k)') /\ (ByCommand(k) => ByCommand(k)') /\ (ByCall(k) => ByCall(k)')
        BY <4>2 DEF BySlot, ByCommand, ByCall
      <4> QED
        BY <3>3, <4>1, <4>3, ReferencedBy
    <3> QED
      BY <3>3, <3>4, ReferencedBy
  <2> QED
    BY <1>12, <2>1, <2>2 DEF PostAccepted
<1>13. ASSUME NEW j \in Sockets, LingerDone(j)
       PROVE  Referenced(k)'
  <2>1. k # j /\ kern'[k] = kern[k]
    BY <1>13, ClosedGlue DEF LingerDone, Live
  <2> QED
    BY <1>2, <1>13, <2>1 DEF LingerDone, appVars, Referenced
<1> QED
  BY <1>4, <1>5, <1>7, <1>8, <1>9, <1>10, <1>11, <1>12, <1>13 DEF ServiceNext, ProcessCommand

(* The service and the library forget an established connection only when  *)
(* a pool or a ring was exhausted, a signal killed the accepting process,  *)
(* or service_close flushed the connections its listener had not accepted. *)
THEOREM LossesExcused == Spec => NoSilentLoss
<1>1. ASSUME TypeOK, SlotExclusive, Next, NEW k \in Sockets, Forgotten(k)', ~Forgotten(k)
      PROVE  Excused(k)
  <2>1. Live(k)' /\ ~Referenced(k)' /\ (Live(k) => Referenced(k))
    BY <1>1 DEF Forgotten, Live
  <2>2. CASE ServiceNext
    BY <1>1, <2>1, <2>2, LossService
  <2>3. ASSUME NEW a \in Apps, AppNext(a)
        PROVE  Excused(k)
    <3>1. UNCHANGED kern
      BY <2>3 DEF AppNext, OpenTake, OpenSend, Request, RxKickDropped, AcceptTake, Close, AcceptDecline,
           AcceptSlot, AcceptSend, CloseFlush, Terminate, DyingClose, Die, CloseSend
    <3>2. Referenced(k)
      BY <2>1, <3>1 DEF Live
    <3> QED
      BY <1>1, <2>1, <2>3, <3>2, LossApp
  <2> QED
    BY <1>1, <2>2, <2>3 DEF Next
<1>2. TypeOK /\ SlotExclusive /\ [Next]_vars =>
        [\A k \in Sockets : Forgotten(k)' /\ ~Forgotten(k) => Excused(k)]_vars
  BY <1>1
<1>3. Spec => [][\A k \in Sockets : Forgotten(k)' /\ ~Forgotten(k) => Excused(k)]_vars
  BY <1>2, TypeCorrect, SlotsExclusive, PTL DEF Spec
<1> QED
  BY <1>3 DEF NoSilentLoss, Excused

----------------------------------------------------------------------------
(* The allocator.  A process holds a slot from the moment it took it off   *)
(* the ring until it sends CLOSE; a slot is bound while a socket is        *)
(* attached to it or about to be.                                          *)
Held(a, s) == s \in owned[a] \/ InCall(a, s)
Bound(s) == Attached(s) \/ AttachPending(s)

(* At most one process holds a slot, and none holds a free one. *)
HeldOnce ==
  \A s \in Slots :
    /\ \A a, b \in Apps : Held(a, s) /\ Held(b, s) => a = b
    /\ InFree(s) => \A a \in Apps : ~Held(a, s)

LEMMA OrderlyHeld == SlotExclusive /\ Discipline => HeldOnce
  BY DEF SlotExclusive, Discipline, Orderly, Free, Held, HeldOnce

(* The holder of a slot, case by case. *)
LEMMA HolderCases ==
  ASSUME HeldOnce, NEW s \in Slots
  PROVE  /\ InFree(s) => Holder(s) = "free"
         /\ \A a \in Apps : Held(a, s) => Holder(s) = a
         /\ ~InFree(s) /\ (\A a \in Apps : ~Held(a, s)) =>
              Holder(s) = IF Bound(s) THEN "closing" ELSE "lost"
<1>1. InFree(s) => Holder(s) = "free"
  BY DEF Holder, HeldOnce, Held
<1>2. ASSUME NEW a \in Apps, Held(a, s)
      PROVE  Holder(s) = a
  <2>1. ~InFree(s) /\ \E b \in Apps : s \in owned[b] \/ InCall(b, s)
    BY <1>2 DEF HeldOnce, Held
  <2>2. Holder(s) = CHOOSE b \in Apps : s \in owned[b] \/ InCall(b, s)
    BY <2>1 DEF Holder
  <2> QED
    BY <1>2, <2>1, <2>2 DEF HeldOnce, Held
<1>3. ASSUME ~InFree(s), \A a \in Apps : ~Held(a, s)
      PROVE  Holder(s) = IF Bound(s) THEN "closing" ELSE "lost"
  BY <1>3 DEF Holder, Held, Bound
<1> QED
  BY <1>1, <1>2, <1>3

LEMMA HolderCasesNext ==
  ASSUME HeldOnce', NEW s \in Slots
  PROVE  /\ InFree(s)' => Holder(s)' = "free"
         /\ \A a \in Apps : Held(a, s)' => Holder(s)' = a
         /\ ~InFree(s)' /\ (\A a \in Apps : ~Held(a, s)') =>
              Holder(s)' = IF Bound(s)' THEN "closing" ELSE "lost"
<1>1. InFree(s)' => Holder(s)' = "free"
  BY DEF Holder, HeldOnce, Held
<1>2. ASSUME NEW a \in Apps, Held(a, s)'
      PROVE  Holder(s)' = a
  <2>1. ~InFree(s)' /\ \E b \in Apps : s \in owned'[b] \/ InCall(b, s)'
    BY <1>2 DEF HeldOnce, Held
  <2>2. Holder(s)' = CHOOSE b \in Apps : s \in owned'[b] \/ InCall(b, s)'
    BY <2>1 DEF Holder
  <2> QED
    BY <1>2, <2>1, <2>2 DEF HeldOnce, Held
<1>3. ASSUME ~InFree(s)', \A a \in Apps : ~Held(a, s)'
      PROVE  Holder(s)' = IF Bound(s)' THEN "closing" ELSE "lost"
  BY <1>3 DEF Holder, Held, Bound
<1> QED
  BY <1>1, <1>2, <1>3

(* A slot has the same holder when it is free or held as before; a change  *)
(* of its binding shows only when it is neither.                           *)
Steady(s) ==
  /\ InFree(s)' <=> InFree(s)
  /\ \A a \in Apps : Held(a, s)' <=> Held(a, s)
  /\ (\A a \in Apps : ~Held(a, s)) => (Bound(s)' <=> Bound(s))

LEMMA HolderSteady ==
  ASSUME HeldOnce, HeldOnce', NEW s \in Slots, Steady(s)
  PROVE  Holder(s)' = Holder(s)
<1>1. CASE InFree(s)
  BY SMTT(60), <1>1, HolderCases, HolderCasesNext DEF Steady
<1>2. ASSUME NEW a \in Apps, Held(a, s)
      PROVE  Holder(s)' = Holder(s)
  BY <1>2, HolderCases, HolderCasesNext DEF Steady
<1>3. CASE ~InFree(s) /\ \A a \in Apps : ~Held(a, s)
  BY SMTT(60), <1>3, HolderCases, HolderCasesNext DEF Steady
<1> QED
  BY <1>1, <1>2, <1>3

(* A step after which every slot has its holder is a stuttering step of    *)
(* the allocator; one that changes the holder of one slot as an allocator  *)
(* may is one of its steps.                                                *)
holder == [s \in Slots |-> Holder(s)]

LEMMA AllocatorStutters ==
  ASSUME HeldOnce, HeldOnce', \A s \in Slots : Steady(s)
  PROVE  [Allocator!Next]_holder
<1>1. holder' = holder
  BY HolderSteady DEF holder
<1> QED
  BY <1>1

LEMMA AllocatorSteps ==
  ASSUME HeldOnce, HeldOnce', NEW h \in Slots, \A s \in Slots : s # h => Steady(s),
         \/ \E a \in Apps : InFree(h) /\ Held(a, h)'
         \/ /\ \E a \in Apps : Held(a, h)
            /\ ~InFree(h)' /\ \A a \in Apps : ~Held(a, h)'
         \/ /\ ~InFree(h) /\ (\A a \in Apps : ~Held(a, h)) /\ Bound(h)
            /\ InFree(h)' \/ (~InFree(h)' /\ \A a \in Apps : ~Held(a, h)')
  PROVE  [Allocator!Next]_holder
<1>1. \A s \in Slots : s # h => Holder(s)' = Holder(s)
  BY HolderSteady
<1>2. ASSUME NEW v, Holder(h)' = v
      PROVE  holder' = [holder EXCEPT ![h] = v]
  BY <1>1, <1>2 DEF holder
<1>3. holder[h] = Holder(h)
  BY DEF holder
<1>4. ASSUME NEW a \in Apps, InFree(h), Held(a, h)'
      PROVE  Allocator!Next
  <2>1. Holder(h) = "free" /\ Holder(h)' = a
    BY <1>4, HolderCases, HolderCasesNext
  <2>2. Allocator!Acquire(a, h)
    BY <1>2, <1>3, <2>1 DEF Allocator!Acquire, holder
  <2> QED
    BY <2>2 DEF Allocator!Next
<1>5. ASSUME NEW a \in Apps, Held(a, h), ~InFree(h)', \A b \in Apps : ~Held(b, h)'
      PROVE  Allocator!Next
  <2>1. Holder(h) = a /\ Holder(h) # "free"
    BY <1>5, HolderCases, SlotsAssumption
  <2>2. Holder(h)' \in {"closing", "lost"}
    BY <1>5, HolderCasesNext
  <2>3. Allocator!Release(a, h) \/ Allocator!Lose(h)
    BY <1>2, <1>3, <2>1, <2>2 DEF Allocator!Release, Allocator!Lose, holder
  <2> QED
    BY <2>3 DEF Allocator!Next
<1>6. ASSUME ~InFree(h), \A a \in Apps : ~Held(a, h), Bound(h),
             InFree(h)' \/ (~InFree(h)' /\ \A a \in Apps : ~Held(a, h)')
      PROVE  [Allocator!Next]_holder
  <2>1. Holder(h) = "closing" /\ "closing" # "free"
    BY <1>6, HolderCases
  <2>2. CASE Holder(h)' = "free"
    <3>1. Allocator!Reclaim(h)
      BY <1>2, <1>3, <2>1, <2>2 DEF Allocator!Reclaim, holder
    <3> QED
      BY <3>1 DEF Allocator!Next
  <2>3. CASE Holder(h)' = "lost"
    <3>1. Allocator!Lose(h)
      BY <1>2, <1>3, <2>1, <2>3 DEF Allocator!Lose, holder
    <3> QED
      BY <3>1 DEF Allocator!Next
  <2>4. CASE Holder(h)' = "closing"
    BY <1>1, <2>1, <2>4 DEF holder
  <2> QED
    BY <1>6, <2>2, <2>3, <2>4, HolderCasesNext
<1> QED
  BY <1>4, <1>5, <1>6

(* Every step of the library is a step of the allocator, if no process is  *)
(* killed.                                                                 *)
LEMMA AllocatorApp ==
  ASSUME TypeOK, SlotExclusive, HeldOnce, HeldOnce', NEW a \in Apps, status[a] = "run",
         Mortals = {}, AppNext(a)
  PROVE  [Allocator!Next]_holder
<1>0. /\ call \in [Apps -> Calls] /\ call[a] \in Calls
      /\ owned \in [Apps -> SUBSET Slots]
  BY DEF TypeOK
<1>1. UNCHANGED sat /\ \A s \in Slots : Attached(s)' <=> Attached(s)
  BY DEF AppNext, OpenTake, OpenSend, Request, RxKickDropped, AcceptTake, Close, AcceptDecline, AcceptSlot,
       AcceptSend, CloseFlush, Terminate, DyingClose, Die, CloseSend, Attached
<1>2. ASSUME NEW c \in Commands, ~IsAttach(c),
             Send(c) \/ SendFails \/ Resend(c) \/ ResendFails, NEW s \in Slots
      PROVE  Bound(s)' <=> Bound(s)
  <2>1. CASE cmdRing' = Append(cmdRing, c)
    BY <1>1, <1>2, <2>1, SentUse DEF Bound
  <2>2. CASE UNCHANGED cmdRing
    BY <1>1, <2>2 DEF Bound, AttachPending, AttachAt
  <2> QED
    BY <1>2, <2>1, <2>2 DEF Send, SendFails, Resend, ResendFails
<1>3. ASSUME UNCHANGED <<freeConns, owned>>, \A b \in Apps : b # a => call'[b] = call[b],
             call[a].op \notin {"opening", "ringing"},
             call'[a].op \notin {"opening", "ringing"},
             \A s \in Slots : Bound(s)' <=> Bound(s)
      PROVE  [Allocator!Next]_holder
  <2>1. \A s \in Slots, b \in Apps : Held(b, s)' <=> Held(b, s)
    BY <1>3 DEF Held, InCall
  <2>2. \A s \in Slots : InFree(s)' <=> InFree(s)
    BY <1>3 DEF InFree
  <2> QED
    BY <1>3, <2>1, <2>2, AllocatorStutters DEF Steady
<1>4. ASSUME freeConns # << >>, freeConns' = Tail(freeConns), UNCHANGED <<cmdRing, owned>>,
             call[a].op \notin {"opening", "ringing"},
             call'[a].op \in {"opening", "ringing"}, call'[a].slot = Head(freeConns),
             \A b \in Apps : b # a => call'[b] = call[b]
      PROVE  [Allocator!Next]_holder
  <2>1. PICK h \in Slots :
           /\ h = Head(freeConns) /\ InFree(h)
           /\ \A s \in Slots : InCall(a, s)' <=> s = h
           /\ \A b \in Apps, s \in Slots : b # a => (InCall(b, s)' <=> InCall(b, s))
           /\ \A s \in Slots : InFree(s)' => InFree(s)
           /\ \A s \in Slots : InFree(s) /\ s # h => InFree(s)'
    BY <1>4, CallTakes
  <2>2. \A s \in Slots : ~InCall(a, s)
    BY <1>4 DEF InCall
  <2>3. \A s \in Slots : Bound(s)' <=> Bound(s)
    BY <1>1, <1>4 DEF Bound, AttachPending, AttachAt
  <2>4. \A s \in Slots, b \in Apps : s # h => (Held(b, s)' <=> Held(b, s))
    BY <1>4, <2>1, <2>2 DEF Held
  <2>5. \A s \in Slots : s # h => Steady(s)
    BY <2>1, <2>3, <2>4 DEF Steady
  <2>6. Held(a, h)'
    BY <2>1 DEF Held
  <2> QED
    BY <2>1, <2>5, <2>6, AllocatorSteps
<1>5. ASSUME NEW h \in Slots, InCall(a, h), UNCHANGED freeConns, call'[a] = Idle,
             \A b \in Apps : b # a => call'[b] = call[b],
             \/ /\ \E c \in Commands :
                     c.slot = h /\ (Send(c) \/ Resend(c))
                /\ owned' = [owned EXCEPT ![a] = @ \cup {h}]
             \/ UNCHANGED <<cmdRing, owned>>
      PROVE  [Allocator!Next]_holder
  <2>1. /\ \A s \in Slots : ~InCall(a, s)'
        /\ \A b \in Apps, s \in Slots : b # a => (InCall(b, s)' <=> InCall(b, s))
        /\ \A s \in Slots : InFree(s)' <=> InFree(s)
    <3>1. call'[a].op = "idle"
      BY SMTT(60), <1>5 DEF Idle
    <3> QED
      BY <1>5, <3>1, CallLeft
  <2>2. \A s \in Slots : s # h => ~InCall(a, s)
    BY <1>5 DEF InCall
  <2>3. CASE /\ \E c \in Commands : c.slot = h /\ (Send(c) \/ Resend(c))
             /\ owned' = [owned EXCEPT ![a] = @ \cup {h}]
    <3>1. /\ \A b \in Apps, s \in Slots : b # a \/ s # h => (s \in owned'[b] <=> s \in owned[b])
          /\ h \in owned'[a]
      BY <1>0, <2>3
    <3>2. \A s \in Slots : s # h => (Bound(s)' <=> Bound(s))
      BY <1>1, <2>3, SentUse DEF Bound, Send, Resend
    <3>3. \A b \in Apps, s \in Slots : Held(b, s)' <=> Held(b, s)
      BY <1>5, <2>1, <2>2, <3>1 DEF Held
    <3>4. Held(a, h)
      BY <1>5 DEF Held
    <3> QED
      BY <2>1, <3>2, <3>3, <3>4, AllocatorStutters DEF Steady
  <2>4. CASE UNCHANGED <<cmdRing, owned>>
    <3>1. \A s \in Slots : Bound(s)' <=> Bound(s)
      BY <1>1, <2>4 DEF Bound, AttachPending, AttachAt
    <3>2. \A b \in Apps, s \in Slots : s # h => (Held(b, s)' <=> Held(b, s))
      BY <2>1, <2>2, <2>4 DEF Held
    <3>3. \A s \in Slots : s # h => Steady(s)
      BY <2>1, <3>1, <3>2 DEF Steady
    <3>4. Held(a, h) /\ ~InFree(h)'
      BY <1>5, <2>1 DEF Held, SlotExclusive
    <3>5. CASE \A b \in Apps : ~Held(b, h)'
      BY <3>3, <3>4, <3>5, AllocatorSteps
    <3>6. ASSUME NEW b \in Apps, Held(b, h)'
          PROVE  \A d \in Apps : Held(d, h)' <=> Held(d, h)
      <4>1. Held(b, h)
        BY <2>1, <2>4, <3>6 DEF Held
      <4> QED
        BY <2>1, <2>4, <3>4, <3>6, <4>1 DEF HeldOnce
    <3>7. ASSUME NEW b \in Apps, Held(b, h)'
          PROVE  [Allocator!Next]_holder
      BY <2>1, <3>1, <3>3, <3>6, <3>7, AllocatorStutters DEF Steady
    <3> QED
      BY <3>5, <3>7
  <2> QED
    BY <1>5, <2>3, <2>4
<1>6. /\ call[a] = Idle => call[a].op \notin {"opening", "ringing"}
      /\ call'[a] = Idle => call'[a].op \notin {"opening", "ringing"}
  BY SMTT(60) DEF Idle
<1>7. CASE OpenTake(a)
  <2>1. /\ call'[a].op = "opening" /\ call'[a].slot = Head(freeConns)
        /\ \A b \in Apps : b # a => call'[b] = call[b]
    BY SMTT(60), <1>0, <1>7 DEF OpenTake
  <2> QED
    BY <1>4, <1>6, <1>7, <2>1 DEF OpenTake, Ready
<1>8. ASSUME NEW p \in {None, a}, OpenSend(a, p)
      PROVE  [Allocator!Next]_holder
  <2>1. PICK h \in Slots : h = call[a].slot
    BY <1>0, <1>8, CallFields DEF OpenSend
  <2> DEFINE c == Cmd("open", a, h, None, p)
  <2>2. c \in Commands /\ c.slot = h
    BY <1>0, <2>1, CommandsBuilt DEF Cmd
  <2>3. /\ InCall(a, h) /\ UNCHANGED freeConns /\ call'[a] = Idle
        /\ \A b \in Apps : b # a => call'[b] = call[b]
    BY <1>0, <1>8, <2>1 DEF OpenSend, InCall
  <2>4. \/ Send(c) /\ owned' = [owned EXCEPT ![a] = @ \cup {h}]
        \/ UNCHANGED <<cmdRing, owned>>
    BY <1>8, <2>1 DEF OpenSend, SendFails
  <2> HIDE DEF c
  <2> QED
    BY <1>5, <2>2, <2>3, <2>4
<1>9. ASSUME NEW s \in Slots, NEW op \in {"control", "listen", "select"}, Request(a, s, op)
      PROVE  [Allocator!Next]_holder
  <2> DEFINE c == Cmd(op, a, s, None, IF op = "select" THEN a ELSE None)
  <2>1. c \in Commands /\ ~IsAttach(c)
    BY CommandsBuilt DEF Cmd, IsAttach
  <2>2. UNCHANGED <<freeConns, owned, call>> /\ call[a] = Idle /\ (Send(c) \/ SendFails)
    BY <1>9 DEF Request, Ready, appVars
  <2> HIDE DEF c
  <2> QED
    BY <1>2, <1>3, <1>6, <2>1, <2>2
<1>17. ASSUME NEW s \in Slots, RxKickDropped(a, s)
       PROVE  [Allocator!Next]_holder
  <2>1. UNCHANGED <<freeConns, owned, call, cmdRing>> /\ call[a] = Idle
    BY <1>17 DEF RxKickDropped, Ready, appVars
  <2>2. \A t \in Slots : Bound(t)' <=> Bound(t)
    BY <1>1, <2>1 DEF Bound, AttachPending, AttachAt
  <2> QED
    BY <1>3, <1>6, <2>1, <2>2
<1>10. ASSUME NEW s \in Slots, AcceptTake(a, s)
       PROVE  [Allocator!Next]_holder
  <2>1. call'[a].op = "accepting" /\ \A b \in Apps : b # a => call'[b] = call[b]
    BY SMTT(60), <1>0, <1>10 DEF AcceptTake
  <2>2. UNCHANGED <<freeConns, owned, cmdRing>> /\ call[a] = Idle
    BY <1>10 DEF AcceptTake, Ready
  <2>3. \A t \in Slots : Bound(t)' <=> Bound(t)
    BY <1>1, <2>2 DEF Bound, AttachPending, AttachAt
  <2> QED
    BY <1>3, <1>6, <2>1, <2>2, <2>3
<1>11. ASSUME NEW s \in Slots, Close(a, s)
       PROVE  [Allocator!Next]_holder
  <2> DEFINE c == Cmd("close", a, s, None, None)
  <2>1. c \in Commands /\ ~IsAttach(c)
    BY CommandsBuilt DEF Cmd, IsAttach
  <2>2. s \in owned[a] /\ UNCHANGED freeConns /\ (Send(c) \/ SendFails) /\ call[a] = Idle
    BY <1>11 DEF Close, CloseSend, Ready
  <2>3. /\ owned'[a] = owned[a] \ {s}
        /\ \A b \in Apps : b # a => owned'[b] = owned[b] /\ call'[b] = call[b]
        /\ call'[a] \in {Idle, [op |-> "flushing", slot |-> s, sock |-> None]}
    BY <1>0, <1>11 DEF Close, CloseSend
  <2> HIDE DEF c
  <2>4. \A t \in Slots : Bound(t)' <=> Bound(t)
    BY <1>2, <2>1, <2>2
  <2>5. call'[a].op \notin {"opening", "ringing"}
    BY SMTT(60), <2>3 DEF Idle
  <2>6. \A t \in Slots : /\ InFree(t)' <=> InFree(t)
                         /\ \A b \in Apps : InCall(b, t)' <=> InCall(b, t)
    BY <1>6, <2>2, <2>3, <2>5 DEF InFree, InCall
  <2>7. \A t \in Slots : t # s => Steady(t)
    BY <2>3, <2>4, <2>6 DEF Steady, Held
  <2>8. Held(a, s) /\ ~InFree(s)'
    BY <2>2, <2>6 DEF Held, HeldOnce
  <2>9. \A b \in Apps : ~Held(b, s)'
    <3> SUFFICES ASSUME NEW b \in Apps, Held(b, s)' PROVE FALSE
      OBVIOUS
    <3>1. b # a /\ Held(b, s)
      BY <1>6, <2>2, <2>3, <2>6 DEF Held, InCall
    <3> QED
      BY <2>8, <3>1 DEF HeldOnce
  <2> QED
    BY <2>7, <2>8, <2>9, AllocatorSteps
<1>12. CASE AcceptDecline(a)
  <2> DEFINE c == Cmd("decline", a, None, call[a].sock, None)
  <2>1. c \in Commands /\ ~IsAttach(c)
    BY <1>0, <1>12, CallFields, CommandsBuilt DEF AcceptDecline, Cmd, IsAttach
  <2>2. /\ UNCHANGED <<freeConns, owned>> /\ (Resend(c) \/ ResendFails)
        /\ call[a].op = "accepting" /\ call'[a] = Idle
        /\ \A b \in Apps : b # a => call'[b] = call[b]
    BY <1>0, <1>12 DEF AcceptDecline
  <2> HIDE DEF c
  <2> QED
    BY <1>2, <1>3, <1>6, <2>1, <2>2
<1>13. CASE AcceptSlot(a)
  <2>1. /\ call'[a].op = "ringing" /\ call'[a].slot = Head(freeConns)
        /\ \A b \in Apps : b # a => call'[b] = call[b]
    BY SMTT(60), <1>0, <1>13 DEF AcceptSlot
  <2> QED
    BY <1>4, <1>13, <2>1 DEF AcceptSlot
<1>14. CASE AcceptSend(a)
  <2>1. PICK h \in Slots : h = call[a].slot
    BY <1>0, <1>14, CallFields DEF AcceptSend
  <2> DEFINE c == Cmd("setring", a, h, call[a].sock, None)
  <2>2. c \in Commands /\ c.slot = h
    BY <1>0, <1>14, <2>1, CallFields, CommandsBuilt DEF AcceptSend, Cmd
  <2>3. /\ InCall(a, h) /\ UNCHANGED freeConns /\ call'[a] = Idle
        /\ \A b \in Apps : b # a => call'[b] = call[b]
    BY <1>0, <1>14, <2>1 DEF AcceptSend, InCall
  <2>4. \/ Resend(c) /\ owned' = [owned EXCEPT ![a] = @ \cup {h}]
        \/ UNCHANGED <<cmdRing, owned>>
    BY <1>14, <2>1 DEF AcceptSend, ResendFails
  <2> HIDE DEF c
  <2> QED
    BY <1>5, <2>2, <2>3, <2>4
<1>15. CASE CloseFlush(a)
  <2>1. /\ UNCHANGED <<freeConns, owned, cmdRing>> /\ call'[a] = Idle
        /\ call[a].op = "flushing" /\ \A b \in Apps : b # a => call'[b] = call[b]
    BY <1>0, <1>15 DEF CloseFlush
  <2>2. \A t \in Slots : Bound(t)' <=> Bound(t)
    BY <1>1, <2>1 DEF Bound, AttachPending, AttachAt
  <2> QED
    BY <1>3, <1>6, <2>1, <2>2
<1>16. ~Terminate(a) /\ ~DyingClose(a) /\ ~Die(a)
  BY DEF Terminate, DyingClose, Die
<1> QED
  BY <1>7, <1>8, <1>9, <1>10, <1>11, <1>12, <1>13, <1>14, <1>15, <1>16, <1>17 DEF AppNext

(* Every step of the service is a step of the allocator. *)
LEMMA AllocatorService ==
  ASSUME TypeOK, SlotExclusive, Discipline, HeldOnce, HeldOnce', FreeNeverDropped, ServiceNext
  PROVE  [Allocator!Next]_holder
<1> DEFINE c == Head(cmdRing)
<1>0. /\ sat \in [Slots -> Satellites] /\ cmdRing \in Seq(Commands)
      /\ freeConns \in Seq(Slots)
  BY DEF TypeOK
<1>1. ASSUME NEW op, Take(op), Done
      PROVE  /\ c \in Commands /\ c.op = op /\ cmdRing # << >> /\ cmdRing' = Tail(cmdRing)
             /\ UNCHANGED <<owned, call>>
  BY <1>0, <1>1, TailFacts DEF Take, Done, appVars
<1>2. ASSUME UNCHANGED <<owned, call>>
      PROVE  \A s \in Slots, a \in Apps : Held(a, s)' <=> Held(a, s)
  BY <1>2 DEF Held, InCall
<1>3. ASSUME UNCHANGED <<owned, call, freeConns>>, \A s \in Slots : Bound(s)' <=> Bound(s)
      PROVE  [Allocator!Next]_holder
  BY <1>2, <1>3, AllocatorStutters DEF Steady, InFree
<1>4. ASSUME NEW op \in {"listen", "select", "close", "decline", "control", "disconnect"},
             Take(op), Done, NEW s \in Slots
      PROVE  AttachPending(s)' <=> AttachPending(s)
  <2>1. /\ cmdRing # << >> /\ cmdRing' = Tail(cmdRing) /\ ~IsAttach(c)
    BY <1>1, <1>4 DEF IsAttach
  <2> QED
    BY <2>1, TakenUse
<1>5. ASSUME NEW op \in {"open", "setring"}, Take(op), Done, UNCHANGED freeConns,
             NEW h \in Slots, h = c.slot, \A s \in Slots : s # h => sat'[s] = sat[s],
             Attached(h)' \/ UNCHANGED sat
      PROVE  [Allocator!Next]_holder
  <2>1. /\ cmdRing # << >> /\ cmdRing' = Tail(cmdRing) /\ IsAttach(c) /\ UNCHANGED <<owned, call>>
    BY <1>1, <1>5 DEF IsAttach
  <2>2. AttachPending(h)
    BY <1>5, <2>1, TailRing DEF AttachPending, AttachAt
  <2>3. ~InFree(h) /\ Bound(h) /\ ~InFree(h)'
    BY <1>5, <2>2 DEF SlotExclusive, Bound, InFree
  <2>4. \A s \in Slots, a \in Apps : Held(a, s)' <=> Held(a, s)
    BY <1>2, <2>1
  <2>5. ASSUME NEW s \in Slots, s # h
        PROVE  Steady(s)
    <3>1. AttachPending(s)' <=> AttachPending(s)
      BY <1>5, <2>1, <2>5, TakenUse
    <3>2. Bound(s)' <=> Bound(s)
      BY <1>5, <2>5, <3>1 DEF Bound, Attached
    <3> QED
      BY <1>5, <2>4, <3>2 DEF Steady, InFree
  <2>6. CASE \E a \in Apps : Held(a, h)
    BY <2>3, <2>4, <2>5, <2>6, AllocatorStutters DEF Steady
  <2>7. CASE \A a \in Apps : ~Held(a, h)
    BY <2>3, <2>4, <2>5, <2>7, AllocatorSteps
  <2> QED
    BY <2>6, <2>7
<1>6. CASE ProcessOpen
  <2>1. PICK h \in Slots : h = c.slot
    BY <1>1, <1>6, CommandFields DEF ProcessOpen
  <2>2. ASSUME NEW k \in Sockets, Attach(h, k, c.sel, c.app)
        PROVE  Attached(h)' /\ \A s \in Slots : s # h => sat'[s] = sat[s]
    BY SMTT(60), <1>0, <2>2, SlotsAssumption DEF Attach, Attached
  <2>3. /\ Attached(h)' \/ UNCHANGED sat
        /\ \A s \in Slots : s # h => sat'[s] = sat[s]
    BY <1>6, <2>1, <2>2 DEF ProcessOpen, Unused
  <2> QED
    BY <1>5, <1>6, <2>1, <2>3 DEF ProcessOpen
<1>7. CASE ProcessSetRing
  <2>1. PICK h \in Slots, k \in Sockets : h = c.slot /\ k = c.sock
    BY <1>1, <1>7, CommandFields DEF ProcessSetRing
  <2>2. Attached(h)' /\ \A s \in Slots : s # h => sat'[s] = sat[s]
    BY SMTT(60), <1>0, <1>7, <2>1, SlotsAssumption DEF ProcessSetRing, Attach, Attached
  <2> QED
    BY <1>5, <1>7, <2>1, <2>2 DEF ProcessSetRing
<1>8. ASSUME NEW op \in {"listen", "select", "decline", "control", "disconnect"},
             Take(op), Done, UNCHANGED freeConns,
             \A s \in Slots : sat'[s].socket = sat[s].socket
      PROVE  [Allocator!Next]_holder
  <2>1. \A s \in Slots : Bound(s)' <=> Bound(s)
    BY <1>4, <1>8 DEF Bound, Attached
  <2> QED
    BY <1>1, <1>3, <1>8, <2>1
<1>9. CASE ProcessListen
  BY <1>8, <1>9 DEF ProcessListen
<1>10. CASE ProcessSelect
  <2>1. PICK h \in Slots : h = c.slot
    BY <1>1, <1>10, CommandFields DEF ProcessSelect
  <2>2. \A s \in Slots : sat'[s].socket = sat[s].socket
    BY SMTT(60), <1>0, <1>10, <2>1 DEF ProcessSelect, Satellites
  <2> QED
    BY <1>8, <1>10, <2>2 DEF ProcessSelect
<1>11. CASE ProcessClose
  <2>1. PICK h \in Slots : h = c.slot
    BY <1>1, <1>11, CommandFields DEF ProcessClose
  <2>2. /\ cmdRing # << >> /\ c.op = "close" /\ UNCHANGED <<owned, call>>
        /\ \A s \in Slots : AttachPending(s)' <=> AttachPending(s)
    BY <1>1, <1>4, <1>11 DEF ProcessClose
  <2>3. CASE UNCHANGED <<freeConns, sat>>
    <3>1. \A s \in Slots : Bound(s)' <=> Bound(s)
      BY <2>2, <2>3 DEF Bound, Attached
    <3> QED
      BY <1>3, <2>2, <2>3, <3>1
  <2>4. CASE /\ sat[h].socket # None /\ FreeSocket(h)
             /\ sat' = [sat EXCEPT ![h] = [FreeSat EXCEPT !.pid = sat[h].pid]]
    <3>1. 1 \in DOMAIN cmdRing /\ About(1, h)
      BY <1>0, <2>1, <2>2, SMTT(60), TailFacts DEF About
    <3>2. Attached(h) /\ ~Free(h) /\ \A a \in Apps : h \notin owned[a]
      <4>1. 1 \in DOMAIN cmdRing /\ cmdRing[1].op = "close"
        BY <1>0, <2>2, TailFacts, <3>1
      <4> QED
        BY <2>4, <3>1, <4>1 DEF Discipline, Orderly, Attached
    <3>3. ~InFree(h) /\ Bound(h) /\ \A a \in Apps : ~Held(a, h)
      BY <3>2 DEF Free, Held, Bound
    <3>4. freeConns' = Append(freeConns, h)
      BY <2>4, <3>2 DEF FreeSocket, FreeNeverDropped
    <3>5. InFree(h)' /\ \A s \in Slots : s # h => (InFree(s)' <=> InFree(s))
      <4>1. PICK n \in Nat :
              /\ DOMAIN freeConns = 1 .. n /\ DOMAIN freeConns' = 1 .. n + 1
              /\ \A i \in 1 .. n : freeConns'[i] = freeConns[i]
              /\ freeConns'[n + 1] = h
        BY SMTT(60), <1>0, <3>4, AppendFacts
      <4>2. /\ n + 1 \in 1 .. n + 1 /\ \A i \in 1 .. n : i \in 1 .. n + 1
            /\ \A i \in 1 .. n + 1 : i = n + 1 \/ i \in 1 .. n
        BY SMTT(60)
      <4> QED
        BY <4>1, <4>2 DEF InFree
    <3>6. \A s \in Slots : s # h => Steady(s)
      <4>1. \A s \in Slots : s # h => (Bound(s)' <=> Bound(s))
        BY <1>0, <2>2, <2>4 DEF Bound, Attached
      <4> QED
        BY <1>2, <2>2, <3>5, <4>1 DEF Steady
    <3> QED
      BY <3>3, <3>5, <3>6, AllocatorSteps
  <2> QED
    BY <1>11, <2>1, <2>3, <2>4 DEF ProcessClose
<1>12. CASE ProcessDecline
  BY <1>8, <1>12 DEF ProcessDecline
<1>13. CASE ProcessOther
  BY <1>8, <1>13 DEF ProcessOther
<1>14. ASSUME UNCHANGED <<freeConns, cmdRing, sat, appVars>>
       PROVE  [Allocator!Next]_holder
  BY <1>3, <1>14 DEF appVars, Bound, Attached, AttachPending, AttachAt
<1>15. ASSUME NEW s \in Slots, NEW k \in Sockets, PostAccepted(s, k)
       PROVE  [Allocator!Next]_holder
  BY <1>14, <1>15 DEF PostAccepted
<1>16. ASSUME NEW k \in Sockets, LingerDone(k)
       PROVE  [Allocator!Next]_holder
  BY <1>14, <1>16 DEF LingerDone
<1> QED
  BY <1>6, <1>7, <1>9, <1>10, <1>11, <1>12, <1>13, <1>15, <1>16 DEF ServiceNext, ProcessCommand

(* Initially the slots that fit on the free ring are free and the last one *)
(* is lost.                                                                *)
LEMMA AllocatorInit == Init => Allocator!Init
<1> SUFFICES ASSUME Init PROVE Allocator!Init
  OBVIOUS
<1>1. HeldOnce /\ \A s \in Slots : ~Bound(s) /\ \A a \in Apps : ~Held(a, s)
  <2>1. cmdRing = << >> /\ (\A a \in Apps : owned[a] = {} /\ call[a] = Idle)
        /\ \A s \in Slots : sat[s] = FreeSat
    BY DEF Init
  <2>2. \A s \in Slots : ~Attached(s) /\ ~AttachPending(s) /\ \A a \in Apps : ~InCall(a, s)
    BY SMTT(60), <2>1 DEF Attached, FreeSat, AttachPending, InCall, Idle
  <2> QED
    BY <2>1, <2>2 DEF HeldOnce, Bound, Held
<1>2. \A s \in Slots : InFree(s) <=> s \in 0 .. NumSlots - 2
  <2> SUFFICES ASSUME NEW s \in Slots PROVE InFree(s) <=> s \in 0 .. NumSlots - 2
    OBVIOUS
  <2>1. /\ NumSlots \in Nat /\ DOMAIN freeConns = 1 .. NumSlots - 1
        /\ \A i \in 1 .. NumSlots - 1 : freeConns[i] = i - 1
    BY SMTT(60), SlotsAssumption DEF Init, InitialFree
  <2>2. InFree(s) => s \in 0 .. NumSlots - 2
    BY SMTT(60), <2>1 DEF InFree, Slots
  <2>3. ASSUME s \in 0 .. NumSlots - 2
        PROVE  InFree(s)
    <3>1. s + 1 \in DOMAIN freeConns /\ freeConns[s + 1] = s
      BY SMTT(60), <2>1, <2>3
    <3> QED
      BY <3>1 DEF InFree
  <2> QED
    BY <2>2, <2>3
<1>3. \A s \in Slots : Holder(s) = IF s \in 0 .. NumSlots - 2 THEN "free" ELSE "lost"
  BY <1>1, <1>2, HolderCases
<1> QED
  BY <1>3 DEF Allocator!Init
============================================================================
