---------------------------- MODULE SocketSlots ----------------------------
(***************************************************************************)
(* The connection slots of the service and the command protocol that       *)
(* hands them out.                                                         *)
(*                                                                         *)
(* Applications take slots from the shared free_connections_ring and       *)
(* return them only through commands: the service attaches a kernel socket *)
(* to a slot when it processes OPEN or SET_RING, and puts the slot back on *)
(* the ring when it processes CLOSE.  Nothing locks a slot; exclusiveness  *)
(* rests on the FIFO order of the command ring and on the discipline of    *)
(* the library.                                                            *)
(*                                                                         *)
(* service_open_socket, service_accept and service_close are split where   *)
(* another process can step in between: taking a slot or an accepted       *)
(* connection off its ring, sending the command, flushing the rx ring.     *)
(* Getting a command buffer and enqueueing it is one step: until it is on  *)
(* the ring the buffer is private to its caller.                           *)
(***************************************************************************)
EXTENDS Integers, Sequences, FiniteSets

CONSTANTS
  Apps,          \* application processes (the pid, and the selector each opened)
  Mortals,       \* those that may get a terminating signal
  NumSlots,      \* SERVICE_CONNECTION_POOL_SIZE
  PoolSize,      \* COMMAND_POOL_SIZE: command buffers, and size of the command ring
  RxRingSize,    \* DATA_RINGS_SIZE
  Sockets,       \* kernel sockets: the socket cache
  None           \* NULL, -1 and 0: no socket, no selector, no pid

ASSUME SlotsAssumption ==
  /\ NumSlots \in Nat \ {0} /\ PoolSize \in Nat \ {0} /\ RxRingSize \in Nat \ {0}
  /\ Mortals \subseteq Apps
  /\ None \notin Apps /\ None \notin Sockets /\ None \notin Nat
  /\ Apps \cap {"free", "closing", "lost"} = {}

VARIABLES
  freeConns,     \* free_connections_ring
  cmdFree,       \* number of buffers in free_command_pool
  cmdRing,       \* command_ring
  rxRing,        \* per slot: the accepted sockets posted on its rx_ring
  sat,           \* socket_satelite_data
  kern,          \* kernel sockets: life cycle state and glueing_block (the slot it points to)
  local,         \* per process and slot: local_socket_descriptors[].socket is set
  owned,         \* per process: the descriptors it got and has not closed
  call,          \* per process: the library call it is inside of
  status,        \* per process: "run", "dying" (inside sig_handler), "dead"
  todo,          \* per process: descriptors sig_handler has yet to close
  starved,       \* history: a command buffer, ring entry or socket was refused
  crashed        \* the service dereferenced a NULL socket

appVars == <<local, owned, call, status, todo>>
vars == <<freeConns, cmdFree, cmdRing, rxRing, sat, kern, appVars, starved, crashed>>

Slots == 0 .. NumSlots - 1

Idle == [op |-> "idle", slot |-> None, sock |-> None]

Calls ==
  {Idle}
  \cup [op : {"opening", "flushing"}, slot : Slots, sock : {None}]
  \cup [op : {"accepting"}, slot : {None}, sock : Sockets]
  \cup [op : {"ringing"}, slot : Slots, sock : Sockets]

Commands ==
  [op : {"open", "control", "listen", "select", "close"}, app : Apps,
   slot : Slots, sock : {None}, sel : Apps \cup {None}]
  \cup [op : {"setring"}, app : Apps, slot : Slots, sock : Sockets, sel : {None}]
  \cup [op : {"decline"}, app : Apps, slot : {None}, sock : Sockets, sel : {None}]
  \cup [op : {"disconnect"}, app : Apps, slot : {None}, sock : {None}, sel : {None}]

Cmd(op, a, s, k, p) == [op |-> op, app |-> a, slot |-> s, sock |-> k, sel |-> p]

----------------------------------------------------------------------------
(* service_api_init: a ring of size n holds n-1 entries, so the enqueue of *)
(* the last slot fails unnoticed and that slot never circulates.           *)

FreeSat == [socket |-> None, ringset |-> None, parent |-> None, pid |-> None]

InitialFreeAll == [i \in 1 .. NumSlots |-> i - 1]
InitialFree == [i \in 1 .. NumSlots - 1 |-> i - 1]

Init ==
  /\ freeConns = InitialFree
  /\ cmdFree = PoolSize
  /\ cmdRing = << >>
  /\ rxRing = [s \in Slots |-> << >>]
  /\ sat = [s \in Slots |-> FreeSat]
  /\ kern = [k \in Sockets |-> [state |-> "none", glue |-> None]]
  /\ local = [a \in Apps |-> {}]
  /\ owned = [a \in Apps |-> {}]
  /\ call = [a \in Apps |-> Idle]
  /\ status = [a \in Apps |-> "run"]
  /\ todo = [a \in Apps |-> {}]
  /\ starved = FALSE
  /\ crashed = FALSE

----------------------------------------------------------------------------
(* service_get_free_command_buf, filling the buffer, and                   *)
(* service_enqueue_command_buf.  On a full ring the buffer goes back.      *)

RingHasRoom == Len(cmdRing) < PoolSize - 1
CanSend == cmdFree > 0 /\ RingHasRoom

SendFirst(c) ==
  /\ CanSend
  /\ cmdRing' = <<c>> \o cmdRing
  /\ cmdFree' = cmdFree - 1
  /\ UNCHANGED starved

Send(c) ==
  /\ CanSend
  /\ cmdRing' = Append(cmdRing, c)
  /\ cmdFree' = cmdFree - 1
  /\ UNCHANGED starved

SendFails ==
  /\ ~CanSend
  /\ starved' = TRUE
  /\ UNCHANGED <<cmdRing, cmdFree>>

(* A buffer the caller already holds (it came from a listener's rx ring).  *)

ResendAndFree(c) ==
  /\ RingHasRoom
  /\ cmdRing' = Append(cmdRing, c)
  /\ cmdFree' = cmdFree + 1
  /\ UNCHANGED starved

Resend(c) ==
  /\ RingHasRoom
  /\ cmdRing' = Append(cmdRing, c)
  /\ UNCHANGED <<cmdFree, starved>>

ResendFails ==
  /\ ~RingHasRoom
  /\ cmdFree' = cmdFree + 1
  /\ starved' = TRUE
  /\ UNCHANGED cmdRing

----------------------------------------------------------------------------
(* Application calls.                                                      *)

Ready(a) == status[a] = "run" /\ call[a] = Idle

(* service_open_socket: take a slot.  An empty ring is return -1.          *)

OpenPeek(a) ==
  /\ Ready(a) /\ freeConns # << >>
  /\ call' = [call EXCEPT ![a] =
                [op |-> "opening", slot |-> Head(freeConns), sock |-> None]]
  /\ UNCHANGED <<freeConns, cmdFree, cmdRing, rxRing, sat, kern, local, owned, status, todo,
                 starved, crashed>>

OpenTake(a) ==
  /\ Ready(a) /\ freeConns # << >>
  /\ freeConns' = Tail(freeConns)
  /\ call' = [call EXCEPT ![a] =
                [op |-> "opening", slot |-> Head(freeConns), sock |-> None]]
  /\ UNCHANGED <<cmdFree, cmdRing, rxRing, sat, kern, local, owned, status, todo,
                 starved, crashed>>

(* service_open_socket: send OPEN.  Returning -2 or -3 forgets the slot.   *)

OpenSend(a, p) ==
  LET s == call[a].slot IN
  /\ status[a] = "run" /\ call[a].op = "opening"
  /\ call' = [call EXCEPT ![a] = Idle]
  /\ \/ /\ Send(Cmd("open", a, s, None, p))
        /\ local' = [local EXCEPT ![a] = @ \cup {s}]
        /\ owned' = [owned EXCEPT ![a] = @ \cup {s}]
     \/ SendFails /\ UNCHANGED <<local, owned>>
  /\ UNCHANGED <<freeConns, rxRing, sat, kern, status, todo, crashed>>

(* The calls that send one command about a slot and keep nothing:          *)
(* service_bind, service_connect, service_setsockopt, service_shutdown and *)
(* the kicks ("control"), service_listen_socket, service_set_socket_select.*)

Request(a, s, op) ==
  /\ Ready(a) /\ s \in owned[a]
  /\ \/ Send(Cmd(op, a, s, None, IF op = "select" THEN a ELSE None))
     \/ SendFails
  /\ UNCHANGED <<freeConns, rxRing, sat, kern, appVars, crashed>>

(* service_dequeue_rx_buf looks at no result: when the command ring is     *)
(* full the buffer of its RX_KICK is lost.                                 *)

RxKickDropped(a, s) ==
  /\ Ready(a) /\ s \in owned[a] /\ cmdFree > 0 /\ ~RingHasRoom
  /\ cmdFree' = cmdFree - 1 /\ starved' = TRUE
  /\ UNCHANGED <<freeConns, cmdRing, rxRing, sat, kern, appVars, crashed>>

(* service_accept on listener s: take a posted connection.  Nothing there  *)
(* is return -1.                                                           *)

AcceptTake(a, s) ==
  /\ Ready(a) /\ s \in owned[a] /\ rxRing[s] # << >>
  /\ rxRing' = [rxRing EXCEPT ![s] = Tail(@)]
  /\ call' = [call EXCEPT ![a] =
                [op |-> "accepting", slot |-> None, sock |-> Head(rxRing[s])]]
  /\ UNCHANGED <<freeConns, cmdFree, cmdRing, sat, kern, local, owned, status, todo,
                 starved, crashed>>

(* service_accept: no free slot, so the connection is declined (-3), or    *)
(* dropped when the command ring is full (-4).                             *)

AcceptDecline(a) ==
  /\ status[a] = "run" /\ call[a].op = "accepting" /\ freeConns = << >>
  /\ call' = [call EXCEPT ![a] = Idle]
  /\ \/ Resend(Cmd("decline", a, None, call[a].sock, None))
     \/ ResendFails
  /\ UNCHANGED <<freeConns, rxRing, sat, kern, local, owned, status, todo, crashed>>

(* service_accept: take a slot and write the local descriptor ...          *)

AcceptSlot(a) ==
  /\ status[a] = "run" /\ call[a].op = "accepting" /\ freeConns # << >>
  /\ freeConns' = Tail(freeConns)
  /\ call' = [call EXCEPT ![a] =
                [op |-> "ringing", slot |-> Head(freeConns), sock |-> @.sock]]
  /\ local' = [local EXCEPT ![a] = @ \cup {Head(freeConns)}]
  /\ UNCHANGED <<cmdFree, cmdRing, rxRing, sat, kern, owned, status, todo, starved, crashed>>

(* ... and send SET_RING.  Returning -2 forgets the slot and the socket.   *)

AcceptSend(a) ==
  LET s == call[a].slot IN
  /\ status[a] = "run" /\ call[a].op = "ringing"
  /\ call' = [call EXCEPT ![a] = Idle]
  /\ \/ /\ Resend(Cmd("setring", a, s, call[a].sock, None))
        /\ owned' = [owned EXCEPT ![a] = @ \cup {s}]
     \/ ResendFails /\ UNCHANGED owned
  /\ UNCHANGED <<freeConns, rxRing, sat, kern, local, status, todo, crashed>>

(* service_close: with no command buffer it returns at once; otherwise it  *)
(* goes on to flush the rx ring whether or not CLOSE got on the ring.      *)

CloseSendTwice(a, s) ==
  /\ \/ Send(Cmd("close", a, s, None, None))
     \/ SendFails
  /\ call' = [call EXCEPT ![a] =
                IF cmdFree = 0 THEN Idle
                ELSE [op |-> "flushing", slot |-> s, sock |-> None]]
  /\ UNCHANGED <<freeConns, rxRing, sat, kern, local, owned, status, crashed>>

CloseSend(a, s) ==
  /\ owned' = [owned EXCEPT ![a] = @ \ {s}]
  /\ \/ Send(Cmd("close", a, s, None, None))
     \/ SendFails
  /\ call' = [call EXCEPT ![a] =
                IF cmdFree = 0 THEN Idle
                ELSE [op |-> "flushing", slot |-> s, sock |-> None]]
  /\ UNCHANGED <<freeConns, rxRing, sat, kern, local, status, crashed>>

Close(a, s) ==
  /\ Ready(a) /\ s \in owned[a]
  /\ CloseSend(a, s)
  /\ UNCHANGED todo

(* service_flush_rx frees whatever is on the ring as if it were packet     *)
(* buffers; accepted-connection commands are not returned to their pool.   *)

CloseFlush(a) ==
  /\ status[a] # "dead" /\ call[a].op = "flushing"
  /\ rxRing' = [rxRing EXCEPT ![call[a].slot] = << >>]
  /\ call' = [call EXCEPT ![a] = Idle]
  /\ UNCHANGED <<freeConns, cmdFree, cmdRing, sat, kern, local, owned, status, todo,
                 starved, crashed>>

(* sig_handler on a terminating signal: it interrupts whatever call is in  *)
(* progress for good, closes every descriptor ever opened in this process, *)
(* sends DISCONNECT_CLIENT and dies.                                       *)

Terminate(a) ==
  /\ a \in Mortals /\ status[a] = "run"
  /\ status' = [status EXCEPT ![a] = "dying"]
  /\ call' = [call EXCEPT ![a] = Idle]
  /\ todo' = [todo EXCEPT ![a] = local[a]]
  /\ UNCHANGED <<freeConns, cmdFree, cmdRing, rxRing, sat, kern, local, owned, starved, crashed>>

DyingClose(a) ==
  /\ status[a] = "dying" /\ call[a] = Idle /\ todo[a] # {}
  /\ \E s \in todo[a] :
       /\ \A i \in todo[a] : s <= i
       /\ CloseSend(a, s)
       /\ todo' = [todo EXCEPT ![a] = @ \ {s}]

Die(a) ==
  /\ status[a] = "dying" /\ call[a] = Idle /\ todo[a] = {}
  /\ status' = [status EXCEPT ![a] = "dead"]
  /\ \/ Send(Cmd("disconnect", a, None, None, None))
     \/ SendFails
  /\ UNCHANGED <<freeConns, rxRing, sat, kern, local, owned, call, todo, crashed>>

AppNext(a) ==
  \/ OpenTake(a) \/ \E p \in {None, a} : OpenSend(a, p)
  \/ \E s \in Slots :
       \/ \E op \in {"control", "listen", "select"} : Request(a, s, op)
       \/ RxKickDropped(a, s)
       \/ AcceptTake(a, s)
       \/ Close(a, s)
  \/ AcceptDecline(a) \/ AcceptSlot(a) \/ AcceptSend(a)
  \/ CloseFlush(a)
  \/ Terminate(a) \/ DyingClose(a) \/ Die(a)

----------------------------------------------------------------------------
(* process_commands: one command, its case of the switch, and the return   *)
(* of the buffer to the pool.                                              *)

Unused == {k \in Sockets : kern[k].state = "none"}

Take(op) ==
  /\ ~crashed /\ cmdRing # << >> /\ Head(cmdRing).op = op
  /\ cmdRing' = Tail(cmdRing)

Done == cmdFree' = cmdFree + 1 /\ UNCHANGED <<rxRing, appVars>>

Attach(s, k, p, a) ==
  sat' = [sat EXCEPT ![s] = [socket |-> k, ringset |-> s, parent |-> p, pid |-> a]]

(* SERVICE_OPEN_SOCKET_COMMAND.  When the socket cannot be created nothing *)
(* is written and nobody is told.                                          *)

ProcessOpen ==
  LET c == Head(cmdRing) IN
  /\ Take("open")
  /\ \/ \E k \in Unused :
          /\ Attach(c.slot, k, c.sel, c.app)
          /\ kern' = [kern EXCEPT ![k] = [state |-> "open", glue |-> c.slot]]
          /\ UNCHANGED starved
     \/ /\ Unused = {}
        /\ starved' = TRUE
        /\ UNCHANGED <<sat, kern>>
  /\ Done /\ UNCHANGED <<freeConns, crashed>>

(* SERVICE_SET_SOCKET_RING_COMMAND: parent_idx is -1 in the command and    *)
(* leaves the slot's own.                                                  *)

ProcessSetRingUnattached ==
  LET c == Head(cmdRing) IN
  /\ Take("setring")
  /\ kern' = [kern EXCEPT ![c.sock].glue = c.slot]
  /\ Done /\ UNCHANGED <<freeConns, sat, starved, crashed>>

ProcessSetRing ==
  LET c == Head(cmdRing) IN
  /\ Take("setring")
  /\ Attach(c.slot, c.sock, sat[c.slot].parent, c.app)
  /\ kern' = [kern EXCEPT ![c.sock].glue = c.slot]
  /\ Done /\ UNCHANGED <<freeConns, starved, crashed>>

(* SERVICE_LISTEN_SOCKET_COMMAND does not test the socket for NULL.        *)
(* solisten refuses a connected socket; its other errors leave it as it is.*)

ProcessListen ==
  LET k == sat[Head(cmdRing).slot].socket IN
  /\ Take("listen")
  /\ \/ k = None /\ crashed' = TRUE /\ UNCHANGED kern
     \/ /\ k # None /\ kern[k].state = "open"
        /\ kern' = [kern EXCEPT ![k].state = "listen"]
        /\ UNCHANGED crashed
     \/ k # None /\ UNCHANGED <<kern, crashed>>
  /\ Done /\ UNCHANGED <<freeConns, sat, starved>>

(* SERVICE_SET_SOCKET_SELECT_COMMAND writes the selector and the pid, then *)
(* uses the socket without testing it for NULL.                            *)

ProcessSelect ==
  LET c == Head(cmdRing) IN
  /\ Take("select")
  /\ sat' = [sat EXCEPT ![c.slot].parent = c.sel, ![c.slot].pid = c.app]
  /\ crashed' = (sat[c.slot].socket = None)
  /\ Done /\ UNCHANGED <<freeConns, kern, starved>>

(* soclose on an established connection may leave the kernel socket alive  *)
(* until TCP is done with it; its glueing_block is not cleared.            *)

ClosedGlued(k) ==
  \/ kern' = [kern EXCEPT ![k].state = "none"]
  \/ kern[k].state \in {"open", "conn"} /\ kern' = [kern EXCEPT ![k].state = "linger"]

Closed(k) ==
  \/ kern' = [kern EXCEPT ![k] = [state |-> "none", glue |-> None]]
  \/ kern[k].state \in {"open", "conn"} /\ kern' = [kern EXCEPT ![k].state = "linger"]

(* SERVICE_SOCKET_CLOSE_COMMAND: acts only on a slot with a socket.        *)
(* service_free_socket ignores a full ring.                                *)

FreeSocketForgotten(s) == UNCHANGED freeConns

FreeSocket(s) ==
  freeConns' = IF Len(freeConns) < NumSlots - 1 THEN Append(freeConns, s) ELSE freeConns

ProcessCloseUntested ==
  LET c == Head(cmdRing) IN
  /\ Take("close")
  /\ IF sat[c.slot].socket = None THEN UNCHANGED kern ELSE Closed(sat[c.slot].socket)
  /\ sat' = [sat EXCEPT ![c.slot] = [FreeSat EXCEPT !.pid = sat[c.slot].pid]]
  /\ FreeSocket(c.slot)
  /\ Done /\ UNCHANGED <<starved, crashed>>

ProcessCloseFreesReset ==
  LET c == Head(cmdRing) IN
  /\ Take("close")
  /\ IF sat[c.slot].socket = None
       THEN UNCHANGED <<freeConns, sat, kern>>
       ELSE /\ Closed(sat[c.slot].socket)
            /\ sat' = [sat EXCEPT ![c.slot] = [FreeSat EXCEPT !.pid = sat[c.slot].pid]]
            /\ FreeSocket(sat'[c.slot].ringset)
  /\ Done /\ UNCHANGED <<starved, crashed>>

ProcessClose ==
  LET c == Head(cmdRing) IN
  /\ Take("close")
  /\ IF sat[c.slot].socket = None
       THEN UNCHANGED <<freeConns, sat, kern>>
       ELSE /\ Closed(sat[c.slot].socket)
            /\ sat' = [sat EXCEPT ![c.slot] = [FreeSat EXCEPT !.pid = sat[c.slot].pid]]
            /\ FreeSocket(c.slot)
  /\ Done /\ UNCHANGED <<starved, crashed>>

(* SERVICE_SOCKET_DECLINE_COMMAND *)

ProcessDecline ==
  /\ Take("decline")
  /\ Closed(Head(cmdRing).sock)
  /\ Done /\ UNCHANGED <<freeConns, sat, starved, crashed>>

(* The commands that touch neither the slot nor the life of its socket.    *)

ProcessOther ==
  /\ \E op \in {"control", "disconnect"} : Take(op)
  /\ Done /\ UNCHANGED <<freeConns, sat, kern, starved, crashed>>

(* user_on_accept, notify_app_about_accepted_sock, service_post_accepted:  *)
(* a new connection k of the listener in slot s.  With no command buffer,  *)
(* or no room on the rx ring, the socket is forgotten.                     *)

PostAccepted(s, k) ==
  /\ ~crashed
  /\ sat[s].socket # None /\ kern[sat[s].socket].state = "listen" /\ k \in Unused
  /\ kern' = [kern EXCEPT ![k] = [state |-> "conn", glue |-> None]]
  /\ IF cmdFree > 0 /\ Len(rxRing[s]) < RxRingSize - 1
       THEN /\ rxRing' = [rxRing EXCEPT ![s] = Append(@, k)]
            /\ cmdFree' = cmdFree - 1
            /\ UNCHANGED starved
       ELSE starved' = TRUE /\ UNCHANGED <<rxRing, cmdFree>>
  /\ UNCHANGED <<freeConns, cmdRing, sat, appVars, crashed>>

(* TCP finishes with a closed socket. *)

LingerDone(k) ==
  /\ kern[k].state = "linger"
  /\ kern' = [kern EXCEPT ![k] = [state |-> "none", glue |-> None]]
  /\ UNCHANGED <<freeConns, cmdFree, cmdRing, rxRing, sat, appVars, starved, crashed>>

ProcessCommand ==
  \/ ProcessOpen \/ ProcessSetRing \/ ProcessListen \/ ProcessSelect
  \/ ProcessClose \/ ProcessDecline \/ ProcessOther

ServiceNext ==
  \/ ProcessCommand
  \/ \E s \in Slots, k \in Sockets : PostAccepted(s, k)
  \/ \E k \in Sockets : LingerDone(k)

Next == ServiceNext \/ \E a \in Apps : AppNext(a)

Spec == Init /\ [][Next]_vars

(* service_main_loop never stops calling process_commands. *)
FairSpec == Spec /\ WF_vars(ProcessCommand)

----------------------------------------------------------------------------
(* Properties.                                                             *)

Satellites ==
  [socket : Sockets \cup {None}, ringset : Slots \cup {None},
   parent : Apps \cup {None}, pid : Apps \cup {None}]

KernelSockets ==
  [state : {"none", "open", "conn", "listen", "linger"}, glue : Slots \cup {None}]

(* Type invariant of the rings, the satellite table and the library state. *)
TypeOK ==
  /\ freeConns \in Seq(Slots)
  /\ cmdFree \in Nat
  /\ cmdRing \in Seq(Commands)
  /\ rxRing \in [Slots -> Seq(Sockets)]
  /\ sat \in [Slots -> Satellites]
  /\ kern \in [Sockets -> KernelSockets]
  /\ local \in [Apps -> SUBSET Slots]
  /\ owned \in [Apps -> SUBSET Slots]
  /\ call \in [Apps -> Calls]
  /\ status \in [Apps -> {"run", "dying", "dead"}]
  /\ todo \in [Apps -> SUBSET Slots]
  /\ starved \in BOOLEAN
  /\ crashed \in BOOLEAN

IsAttach(c) == c.op \in {"open", "setring"}

InFree(s) == \E i \in DOMAIN freeConns : freeConns[i] = s
InCall(a, s) == call[a].op \in {"opening", "ringing"} /\ call[a].slot = s
AttachAt(i, s) == IsAttach(cmdRing[i]) /\ cmdRing[i].slot = s
AttachPending(s) == \E i \in DOMAIN cmdRing : AttachAt(i, s)
Attached(s) == sat[s].socket # None

(* Whatever the applications do, terminating signals and exhausted pools   *)
(* included, a slot has at most one claim on it: one entry of              *)
(* free_connections_ring, or one open/accept call that took it, or one     *)
(* OPEN/SET_RING command on its way, or an attached kernel socket.  So no  *)
(* two calls get the same slot and OPEN/SET_RING never overwrite the       *)
(* pointer to a live socket.                                               *)
SlotExclusive ==
  /\ \A i, j \in DOMAIN freeConns : freeConns[i] = freeConns[j] => i = j
  /\ \A s \in Slots :
       /\ \A a, b \in Apps : InCall(a, s) /\ InCall(b, s) => a = b
       /\ \A i, j \in DOMAIN cmdRing : AttachAt(i, s) /\ AttachAt(j, s) => i = j
       /\ InFree(s) => ~AttachPending(s) /\ ~Attached(s) /\ \A a \in Apps : ~InCall(a, s)
       /\ \A a \in Apps : InCall(a, s) => ~AttachPending(s) /\ ~Attached(s)
       /\ AttachPending(s) => ~Attached(s)

(* service_free_socket ignores the result of the enqueue; it never fails,  *)
(* although the ring holds one entry less than there are slots.            *)
FreeNeverDropped == \A s \in Slots : Attached(s) => Len(freeConns) < NumSlots - 1

(* A command buffer is never in two places (no double free): those in the  *)
(* pool, on the command ring, on rx rings and held by service_accept add   *)
(* up to at most the size of the pool.                                     *)
Holding == {a \in Apps : call[a].op \in {"accepting", "ringing"}}
CommandsConserved ==
  cmdFree + Len(cmdRing) + Cardinality(Holding)
    + Cardinality({p \in Slots \X (1 .. RxRingSize) : p[2] <= Len(rxRing[p[1]])}) <= PoolSize

(* A CLOSE command closes a socket of the process that sent it: the        *)
(* service, which checks nothing, never closes another process's socket.   *)
CloseHitsOwnSocket ==
  \A i \in DOMAIN cmdRing :
    i = 1 /\ cmdRing[i].op = "close" /\ Attached(cmdRing[i].slot)
      => sat[cmdRing[i].slot].pid = cmdRing[i].app

(* LISTEN and SET_SELECT are processed without a NULL test: as long as no  *)
(* pool ran dry, the OPEN or SET_RING sent before them has been processed  *)
(* and the CLOSE sent after them has not.                                  *)
NoNullDeref == ~starved => ~crashed

(* Readiness and closure are signalled through the glueing_block of the    *)
(* kernel socket to the selector of the slot it points to: that slot still *)
(* has this socket.  app_glue_close_socket does not clear the              *)
(* glueing_block, so a closed connection that TCP still works on is the    *)
(* exception: its slot may be in other hands.                              *)
EventsReachOwner ==
  \A k \in Sockets :
    kern[k].glue # None /\ kern[k].state # "linger" => sat[kern[k].glue].socket = k

(* An established connection is forgotten (alive in the kernel, reachable  *)
(* from no slot, ring, command or call) only when a pool or a ring was     *)
(* exhausted, when a signal kills the process that was accepting it, or    *)
(* when service_flush_rx drops the undelivered connections of a listener.  *)
Referenced(k) ==
  \/ \E s \in Slots : sat[s].socket = k
  \/ \E s \in Slots : \E i \in DOMAIN rxRing[s] : rxRing[s][i] = k
  \/ \E i \in DOMAIN cmdRing : cmdRing[i].sock = k
  \/ \E a \in Apps : call[a].sock = k
Forgotten(k) == kern[k].state \in {"open", "conn", "listen"} /\ ~Referenced(k)
NoSilentLoss ==
  [][\A k \in Sockets :
       Forgotten(k)' /\ ~Forgotten(k) =>
         \/ starved'
         \/ \E a \in Apps : status[a] = "run" /\ status'[a] = "dying" /\ call[a].sock = k
         \/ \E a \in Apps : CloseFlush(a) /\ k \in {rxRing[call[a].slot][i] :
                                                  i \in DOMAIN rxRing[call[a].slot]}]_vars

(* The detailed protocol implements the allocator of SlotAllocator, when   *)
(* no process is killed.                                                   *)
Holder(s) ==
  CASE InFree(s) -> "free"
    [] \E a \in Apps : s \in owned[a] \/ InCall(a, s) ->
         CHOOSE a \in Apps : s \in owned[a] \/ InCall(a, s)
    [] OTHER -> IF Attached(s) \/ AttachPending(s) THEN "closing" ELSE "lost"

Allocator == INSTANCE SlotAllocator
               WITH Circulating <- 0 .. NumSlots - 2, holder <- [s \in Slots |-> Holder(s)]
AllocatorSpec == Allocator!Spec

(* A slot whose CLOSE is on its way comes back to free_connections_ring,   *)
(* unless some pool ran dry.                                               *)
ClosedSlotsReturn ==
  \A s \in Slots : Holder(s) = "closing" ~> (Holder(s) = "free" \/ starved)
=============================================================================
