----------------------------- MODULE GlueSockets -----------------------------
(***************************************************************************)
(* The life of a socket in the service process: created for a slot or for  *)
(* an incoming connection, wakened by the stack, announced on the lists of *)
(* the glue, attached to the application that owns it, closed, and at last *)
(* returned to the pool.  Everything here runs in one thread, but in an    *)
(* order nobody wrote down: service_main_loop takes at most one command,   *)
(* then the timers run, then the lists are processed, then softint_run     *)
(* hands TCP the packets the device delivered, then the sockets waiting    *)
(* for buffers are served.  What a segment puts on a list is there while   *)
(* the next command is carried out.                                        *)
(*                                                                         *)
(* net is the state of the socket layer.  The functions of the source that *)
(* change a socket are functions from one net to the next, so that an      *)
(* action is the composition of the calls its handler makes, the upcalls   *)
(* they trigger included.                                                  *)
(***************************************************************************)
EXTENDS Integers, Sequences, FiniteSets, Functions

CONSTANTS
  Cells,       \* the socket structures of socket_cache
  Slots,       \* the connection slots (socket_satelite_data)
  QLimit,      \* so_qlimit of a listener
  SlowLink,    \* the device is at 10 Mbit/s, half duplex
  MaxDrift,    \* bound: how far a counter gets ahead of its list
  None         \* no socket, no slot

VARIABLES
  net,         \* the socket layer, see NetType
  sat,         \* per slot: socket_satelite_data.socket
  parent,      \* per slot: parent_idx # -1, the slot belongs to a selector
  phase,       \* where service_main_loop is
  posted,      \* accepted sockets on their way to the listener's application
  told,        \* history: sockets whose owner was sent a CLOSED event
  refused,     \* history: sockets whose CLOSED event their selector's ring had no room for
  missed,      \* history: sockets whose closure was processed, but nobody was to be told
  forgotten,   \* history: accepted sockets nobody refers to, open for ever
  halted       \* the service dereferenced NULL

vars == <<net, sat, parent, phase, posted, told, refused, missed, forgotten, halted>>
history == <<told, refused, missed, forgotten>>

Lists == {"read", "write", "accept", "closed", "wait"}
Counted == {"read", "write"}
States == {"CLOSED", "LISTEN", "SYN_SENT", "ESTABLISHED", "CLOSE_WAIT", "FIN_WAIT_1",
           "CLOSING", "LAST_ACK", "FIN_WAIT_2", "TIME_WAIT"}
HaveEstablished == States \ {"CLOSED", "LISTEN", "SYN_SENT"}
Flags == {"CONNECTED", "CONNECTING", "DISCONNECTING", "DISCONNECTED", "CANTRCVMORE",
          "CANTSENDMORE", "NOFDREF"}

ASSUME GlueAssumption ==
  /\ IsFiniteSet(Cells) /\ Cardinality(Cells) \in Nat /\ IsFiniteSet(Slots)
  /\ QLimit \in Nat /\ MaxDrift \in Nat
  /\ SlowLink \in BOOLEAN
  /\ None \notin Cells \cup Slots \cup States \cup {"udp"}

(* pcb is None without so_pcb, "udp" for a datagram socket, otherwise the  *)
(* state of the TCP control block.                                         *)

NetType ==
  [pcb      : [Cells -> States \cup {"udp", None}],
   st       : [Cells -> SUBSET Flags],
   stream   : SUBSET Cells,
   head     : [Cells -> Cells \cup {None}],
   q        : [Cells -> Seq(Cells)],
   upcall   : SUBSET Cells,
   glue     : [Cells -> Slots \cup {None}],
   list     : [Lists -> Seq(Cells)],
   present  : [Lists -> SUBSET Cells],
   len      : [Counted -> Nat],
   aborting : SUBSET Cells,
   pool     : Seq(Cells)]

Init ==
  /\ \E order \in Bijection(1 .. Cardinality(Cells), Cells) :
       net = [pcb |-> [k \in Cells |-> None], st |-> [k \in Cells |-> {}], stream |-> {},
              head |-> [k \in Cells |-> None], q |-> [k \in Cells |-> << >>],
              upcall |-> {}, glue |-> [k \in Cells |-> None],
              list |-> [n \in Lists |-> << >>], present |-> [n \in Lists |-> {}],
              len |-> [n \in Counted |-> 0], aborting |-> {}, pool |-> order]
  /\ sat = [s \in Slots |-> None] /\ parent = [s \in Slots |-> FALSE]
  /\ phase = "command"
  /\ posted = {} /\ told = {} /\ refused = {} /\ missed = {} /\ forgotten = {}
  /\ halted = FALSE

(* TAILQ_REMOVE: an element is on a list at most once. *)

Without(s, k) ==
  IF k \notin Range(s) THEN s
  ELSE LET i == CHOOSE j \in DOMAIN s : s[j] = k
       IN  [j \in 1 .. Len(s) - 1 |-> IF j < i THEN s[j] ELSE s[j + 1]]

Used(w) == Cells \ Range(w.pool)
Listed(w) == UNION {Range(w.list[n]) : n \in Lists}

----------------------------------------------------------------------------
(* The upcall of the glue.  A socket goes on each list at most once.       *)

InsertUncounted(w, n, k) ==
  IF k \in w.present[n] THEN w
  ELSE [w EXCEPT !.list[n] = Append(@, k), !.present[n] = @ \cup {k}]

Insert(w, n, k) ==
  IF k \in w.present[n] THEN w
  ELSE [w EXCEPT !.list[n] = Append(@, k), !.present[n] = @ \cup {k},
                 !.len = [c \in Counted |-> IF c = n THEN @[c] + 1 ELSE @[c]]]

Delist(w, n, k) ==
  IF k \in w.present[n]
    THEN [w EXCEPT !.list[n] = Without(@, k), !.present[n] = @ \ {k}]
    ELSE w

SockReadableStateFirst(w, k) ==
  CASE "DISCONNECTED" \in w.st[k] -> Insert(w, "closed", k)
    [] "DISCONNECTED" \notin w.st[k] /\ w.pcb[k] \in States \ {"ESTABLISHED"} -> w
    [] OTHER -> Insert(w, "read", k)

SockReadable(w, k) ==
  CASE "DISCONNECTED" \in w.st[k] -> Insert(w, "closed", k)
    [] "DISCONNECTED" \notin w.st[k] /\ w.pcb[k] = "LISTEN" -> Insert(w, "accept", k)
    [] "DISCONNECTED" \notin w.st[k] /\ w.pcb[k] \in States \ {"LISTEN", "ESTABLISHED"} -> w
    [] OTHER -> Insert(w, "read", k)

(* room: sbspace reaches sb_lowat *)

SoWritable(w, k, room) ==
  \/ room /\ ("CONNECTED" \in w.st[k] \/ k \notin w.stream)
  \/ "CANTSENDMORE" \in w.st[k]

SockWriteSpace(w, k, room) ==
  CASE "DISCONNECTED" \in w.st[k] -> Insert(w, "closed", k)
    [] "DISCONNECTED" \notin w.st[k] /\ w.pcb[k] \in States \ {"ESTABLISHED"} -> w
    [] OTHER -> IF SoWritable(w, k, room) THEN Insert(w, "write", k) ELSE w

(* The masks are tested with |, so every wakeup calls both. *)

Wakeup(w, k, room) ==
  IF k \in w.upcall THEN SockWriteSpace(SockReadable(w, k), k, room) ELSE w

----------------------------------------------------------------------------
(* The socket layer. *)

SetState(w, k, on, off) == [w EXCEPT !.st[k] = (@ \ off) \cup on]

SoIsConnecting(w, k) == SetState(w, k, {"CONNECTING"}, {"CONNECTED", "DISCONNECTING"})

SoIsConnected(w, k) ==
  Wakeup(SetState(w, k, {"CONNECTED"}, {"CONNECTING", "DISCONNECTING"}), k, TRUE)

SoIsDisconnecting(w, k) ==
  Wakeup(SetState(w, k, {"DISCONNECTING", "CANTRCVMORE", "CANTSENDMORE"}, {"CONNECTING"}),
         k, TRUE)

SoIsDisconnectedSilently(w, k) ==
  SetState(w, k, {"CANTRCVMORE", "CANTSENDMORE", "DISCONNECTED"},
           {"CONNECTING", "CONNECTED", "DISCONNECTING"})

SoIsDisconnected(w, k) ==
  Wakeup(SetState(w, k, {"CANTRCVMORE", "CANTSENDMORE", "DISCONNECTED"},
                  {"CONNECTING", "CONNECTED", "DISCONNECTING"}), k, TRUE)

SoCantSendMore(w, k, room) == Wakeup(SetState(w, k, {"CANTSENDMORE"}, {}), k, room)
SoCantRcvMore(w, k, room) == Wakeup(SetState(w, k, {"CANTRCVMORE"}, {}), k, room)

(* The pool is a ring: a freed cell is handed out only after all the cells *)
(* that were free before it.  It is taken to be so large that a cell still *)
(* on a list is never the next.                                            *)

FirstFree(w, k) ==
  \E i \in DOMAIN w.pool :
    /\ k = w.pool[i] /\ k \notin Listed(w)
    /\ \A j \in 1 .. i - 1 : w.pool[j] \in Listed(w)

SoGet(w, k) == [w EXCEPT !.pool = Without(@, k)]

SoQInsQue(w, l, k) == [w EXCEPT !.head[k] = l, !.q[l] = Append(@, k)]
SoQRemQue(w, l, k) == [w EXCEPT !.head[k] = None, !.q[l] = Without(@, k)]

(* What a freed cell holds is not looked at before it is zeroed, but for   *)
(* the slot of one that waits for buffers.  (A pass that finds one on its  *)
(* list reads the slot too; SocketSlots has what that does to the slot.)   *)

SoPut(w, k) ==
  [w EXCEPT !.pool = Append(@, k), !.st[k] = {}, !.stream = @ \ {k}, !.upcall = @ \ {k},
            !.glue[k] = IF k \in w.present["wait"] THEN @ ELSE None]

SoFreeQueued(w, k) ==
  IF w.pcb[k] # None \/ "NOFDREF" \notin w.st[k] THEN w
  ELSE SoPut(SoCantRcvMore(w, k, FALSE), k)

SoFreeOpen(w, k) ==
  IF w.pcb[k] # None \/ w.head[k] # None THEN w
  ELSE SoPut(SoCantRcvMore(w, k, FALSE), k)

(* A socket on an accept queue stays; otherwise sorflush wakes the socket  *)
(* once more before the cell goes back.  sbrelease has taken its room.     *)

SoFree(w, k) ==
  IF w.pcb[k] # None \/ "NOFDREF" \notin w.st[k] \/ w.head[k] # None THEN w
  ELSE LET flushed == SoCantRcvMore(w, k, FALSE)
       IN  IF k \in w.aborting THEN flushed ELSE SoPut(flushed, k)

PcbDetach(w, k) == SoFree([w EXCEPT !.pcb[k] = None], k)
TcpCloseSilently(w, k) == PcbDetach(w, k)
TcpCloseKept(w, k) == [SoIsDisconnected(w, k) EXCEPT !.pcb[k] = None]
TcpClose(w, k) == PcbDetach(SoIsDisconnected(w, k), k)

TcpUsrClosed(w, k) ==
  CASE w.pcb[k] \in {"CLOSED", "LISTEN", "SYN_SENT"} -> TcpClose(w, k)
    [] w.pcb[k] = "ESTABLISHED" -> [w EXCEPT !.pcb[k] = "FIN_WAIT_1"]
    [] w.pcb[k] = "CLOSE_WAIT" -> [w EXCEPT !.pcb[k] = "LAST_ACK"]
    [] w.pcb[k] \in {"FIN_WAIT_2", "TIME_WAIT"} -> SoIsDisconnected(w, k)
    [] OTHER -> w

TcpDisconnect(w, k) ==
  IF w.pcb[k] \in HaveEstablished THEN TcpUsrClosed(SoIsDisconnecting(w, k), k)
  ELSE TcpClose(w, k)

(* soabort: PRU_ABORT drops a connection that still has a control block,   *)
(* and fails on one that has none.                                         *)

SoAbort(w, k) ==
  LET marked == [w EXCEPT !.aborting = @ \cup {k}]
      dropped == IF w.pcb[k] # None THEN TcpClose(marked, k) ELSE marked
  IN  SoFree([dropped EXCEPT !.aborting = @ \ {k}], k)

SoDisconnect(w, k) ==
  IF "CONNECTED" \in w.st[k] /\ "DISCONNECTING" \notin w.st[k] THEN TcpDisconnect(w, k)
  ELSE w

Detach(w, k) ==
  CASE w.pcb[k] = None -> w
    [] w.pcb[k] = "udp" -> PcbDetach(w, k)
    [] OTHER -> TcpDisconnect(w, k)

(* The connections queued on k are dropped one after the other. *)

SoClose(w, k) ==
  LET queue == w.q[k]
      dropped[i \in 0 .. Len(queue)] ==
        IF i = 0 THEN w ELSE SoAbort(SoQRemQue(dropped[i - 1], k, queue[i]), queue[i])
      detached == Detach(SoDisconnect(dropped[Len(queue)], k), k)
  IN  SoFree(SetState(detached, k, {"NOFDREF"}, {}), k)

(* soaccept, after soqremque, of all connections queued on the listeners   *)
(* ls.  Its result, ECONNABORTED for a socket that is disconnected, is not *)
(* looked at.                                                              *)

SoAccept(w, ls) ==
  LET accepted == {k \in Cells : w.head[k] \in ls}
  IN  [w EXCEPT !.st = [k \in Cells |-> IF k \in accepted THEN @[k] \ {"NOFDREF"} ELSE @[k]],
                !.head = [k \in Cells |-> IF k \in accepted THEN None ELSE @[k]],
                !.q = [l \in Cells |-> IF l \in ls THEN << >> ELSE @[l]]]

(* The queued connections of a listener on the accept list are accepted    *)
(* and forgotten; the counters of the lists stay as they are.              *)

Queued(w, k) == IF k \in w.present["accept"] THEN w.q[k] ELSE << >>

CloseSocket(w, k) ==
  LET unread == Delist(w, "read", k)
      unwritten == Delist(unread, "write", k)
      emptied == SoAccept(unwritten, {k} \cap w.present["accept"])
      unaccepted == Delist(emptied, "accept", k)
  IN  SoClose(Delist(unaccepted, "closed", k), k)

----------------------------------------------------------------------------
(* process_commands: at most one command, then on to the timers.           *)

Command ==
  /\ phase = "command" /\ ~halted
  /\ phase' = "timers"
  /\ UNCHANGED halted

Released(k) ==
  /\ told' = told \ {k} /\ refused' = refused \ {k} /\ missed' = missed \ {k}
  /\ forgotten' = forgotten \cup Range(Queued(net, k))

ProcessOpen(s, stream) ==
  /\ Command
  /\ sat[s] = None
  /\ \E k \in Cells :
       /\ FirstFree(net, k)
       /\ net' = [SoGet(net, k) EXCEPT !.pcb[k] = IF stream THEN "CLOSED" ELSE "udp",
                                       !.stream = IF stream THEN @ \cup {k} ELSE @,
                                       !.upcall = @ \cup {k}, !.glue[k] = s]
       /\ sat' = [sat EXCEPT ![s] = k]
  /\ \E selected \in BOOLEAN : parent' = [parent EXCEPT ![s] = selected]
  /\ UNCHANGED <<posted, history>>

(* socreate does not look at what soget returns when there is no cell. *)

ProcessOpenNoCell(s) ==
  /\ phase = "command" /\ ~halted
  /\ sat[s] = None /\ net.pool = << >>
  /\ halted' = TRUE
  /\ UNCHANGED <<net, sat, parent, phase, posted, history>>

(* An application connects, or listens on, a socket it has just opened. *)

ProcessConnect(s) ==
  /\ Command
  /\ sat[s] # None /\ net.pcb[sat[s]] = "CLOSED"
  /\ net' = [SoIsConnecting(net, sat[s]) EXCEPT !.pcb[sat[s]] = "SYN_SENT"]
  /\ UNCHANGED <<sat, parent, posted, history>>

ProcessListen(s) ==
  /\ Command
  /\ sat[s] # None /\ net.pcb[sat[s]] = "CLOSED"
  /\ net' = [net EXCEPT !.pcb[sat[s]] = "LISTEN"]
  /\ UNCHANGED <<sat, parent, posted, history>>

Bounded == \A n \in Counted : net'.len[n] <= Len(net'.list[n]) + MaxDrift

ProcessClose(s) ==
  /\ Command
  /\ sat[s] # None
  /\ net' = CloseSocket(net, sat[s])
  /\ Bounded
  /\ sat' = [sat EXCEPT ![s] = None] /\ parent' = [parent EXCEPT ![s] = FALSE]
  /\ Released(sat[s])
  /\ UNCHANGED posted

ProcessDecline(k) ==
  /\ Command
  /\ k \in posted
  /\ net' = CloseSocket(net, k)
  /\ Bounded
  /\ posted' = posted \ {k}
  /\ Released(k)
  /\ UNCHANGED <<sat, parent>>

ProcessSetRing(s, k) ==
  /\ Command
  /\ k \in posted /\ sat[s] = None
  /\ net' = [net EXCEPT !.glue[k] = s]
  /\ sat' = [sat EXCEPT ![s] = k]
  /\ posted' = posted \ {k}
  /\ UNCHANGED <<parent, history>>

ProcessSetSelect(s) ==
  /\ Command
  /\ sat[s] # None /\ ~parent[s]
  /\ parent' = [parent EXCEPT ![s] = TRUE]
  /\ UNCHANGED <<net, sat, posted, history>>

(* soshutdown takes a socket in any state.  Shutting down the send side of *)
(* a listener closes its control block, with connections still queued on   *)
(* it; a stream socket without a control block is left alone (EINVAL).     *)

ShutdownRead(w, k) == {SoCantRcvMore(w, k, room) : room \in BOOLEAN}

ShutdownWrite(w, k) ==
  CASE w.pcb[k] = None -> w
    [] w.pcb[k] = "udp" -> SoCantSendMore(w, k, TRUE)
    [] OTHER -> TcpUsrClosed(SoCantSendMore(w, k, TRUE), k)

ProcessShutdown(s) ==
  /\ Command
  /\ sat[s] # None
  /\ LET read == ShutdownRead(net, sat[s]) IN
       net' \in read \cup {ShutdownWrite(w, sat[s]) : w \in read \cup {net}}
  /\ UNCHANGED <<sat, parent, posted, history>>

ProcessTxPoolEmpty(s) ==
  /\ Command
  /\ sat[s] # None
  /\ net' = InsertUncounted(net, "wait", sat[s])
  /\ UNCHANGED <<sat, parent, posted, history>>

NoCommand == Command /\ UNCHANGED <<net, sat, parent, posted, history>>

ProcessCommands ==
  \/ \E s \in Slots :
       \/ \E stream \in BOOLEAN : ProcessOpen(s, stream)
       \/ ProcessOpenNoCell(s)
       \/ ProcessConnect(s) \/ ProcessListen(s) \/ ProcessClose(s)
       \/ ProcessSetSelect(s) \/ ProcessShutdown(s) \/ ProcessTxPoolEmpty(s)
       \/ \E k \in Cells : ProcessSetRing(s, k)
  \/ \E k \in Cells : ProcessDecline(k)
  \/ NoCommand

----------------------------------------------------------------------------
(* What TCP makes of a timeout in rte_timer_manage and of a packet in      *)
(* softint_run.                                                            *)

Event(when) ==
  /\ phase \in when /\ ~halted
  /\ UNCHANGED <<sat, parent, phase, posted, halted>>

(* syn_cache_get: sonewconn queues the socket as connected and wakes the   *)
(* listener, and the same segment establishes the connection.              *)

PeerOpens(l) ==
  /\ Event({"softint"})
  /\ l \in Used(net) /\ net.pcb[l] = "LISTEN"
  /\ Len(net.q[l]) <= (3 * QLimit) \div 2
  /\ \E k \in Cells :
       LET made == [SoGet(net, k) EXCEPT !.st[k] = net.st[l] \cup {"NOFDREF", "CONNECTED"},
                                         !.stream = @ \cup {k}, !.pcb[k] = "ESTABLISHED"]
       IN  FirstFree(net, k) /\ net' = Wakeup(SoQInsQue(made, l, k), l, TRUE)
  /\ UNCHANGED history

PeerAccepts(k) ==
  /\ Event({"softint"})
  /\ k \in Used(net) /\ net.pcb[k] = "SYN_SENT"
  /\ net' = SoIsConnected([net EXCEPT !.pcb[k] = "ESTABLISHED"], k)
  /\ UNCHANGED history

(* Data or an acknowledgement: sorwakeup or sowwakeup *)

Segment(k) ==
  /\ Event({"softint"})
  /\ k \in Used(net) /\ net.pcb[k] \in HaveEstablished \cup {"udp"}
  /\ \E room \in BOOLEAN : net' = Wakeup(net, k, room)
  /\ UNCHANGED history

Fin(k) ==
  /\ Event({"softint"})
  /\ k \in Used(net)
  /\ \E room \in BOOLEAN :
       LET w == SoCantRcvMore(net, k, room) IN
       \/ net.pcb[k] = "ESTABLISHED" /\ net' = [w EXCEPT !.pcb[k] = "CLOSE_WAIT"]
       \/ net.pcb[k] = "FIN_WAIT_1" /\ net' = [w EXCEPT !.pcb[k] = "CLOSING"]
       \/ /\ net.pcb[k] = "FIN_WAIT_2"
          /\ net' = SoIsDisconnected([w EXCEPT !.pcb[k] = "TIME_WAIT"], k)
  /\ UNCHANGED history

FinAcked(k) ==
  /\ Event({"softint"})
  /\ k \in Used(net)
  /\ \/ /\ net.pcb[k] = "FIN_WAIT_1"
        /\ net' = [IF "CANTRCVMORE" \in net.st[k] THEN SoIsDisconnected(net, k) ELSE net
                   EXCEPT !.pcb[k] = "FIN_WAIT_2"]
     \/ /\ net.pcb[k] = "CLOSING"
        /\ net' = SoIsDisconnected([net EXCEPT !.pcb[k] = "TIME_WAIT"], k)
     \/ net.pcb[k] = "LAST_ACK" /\ net' = TcpClose(net, k)
  /\ UNCHANGED history

(* A reset, a refused connection, or a timer that gives up. *)

Drop(k) ==
  /\ Event({"timers", "softint"})
  /\ k \in Used(net) /\ net.pcb[k] \in HaveEstablished \cup {"SYN_SENT"}
  /\ net' = TcpClose(net, k)
  /\ UNCHANGED history

EventsDone ==
  /\ phase \in {"timers", "softint"} /\ ~halted
  /\ phase' = IF phase = "timers" THEN "tx" ELSE "wait"
  /\ UNCHANGED <<net, sat, parent, posted, history, halted>>

Events ==
  \/ \E k \in Cells : PeerOpens(k) \/ PeerAccepts(k) \/ Segment(k) \/ Fin(k) \/ FinAcked(k)
                      \/ Drop(k)
  \/ EventsDone

----------------------------------------------------------------------------
(* The passes over the lists.  A counted list is served up to its counter. *)

ServedButLast(w, n) ==
  LET m == IF Len(w.list[n]) = 0 THEN 0 ELSE Len(w.list[n]) - 1
      gone == {w.list[n][i] : i \in 1 .. m}
  IN  [w EXCEPT !.list[n] = SubSeq(@, m + 1, Len(@)), !.present[n] = @ \ gone,
                !.len[n] = @ - m]

Served(w, n) ==
  LET m == IF w.len[n] < Len(w.list[n]) THEN w.len[n] ELSE Len(w.list[n])
      gone == {w.list[n][i] : i \in 1 .. m}
  IN  [w EXCEPT !.list[n] = SubSeq(@, m + 1, Len(@)), !.present[n] = @ \ gone,
                !.len[n] = @ - m]

(* The clock of the passes advances by timer_poll_interval, 100 us, in     *)
(* each round; the interval of the transmit pass is shorter but on a slow  *)
(* half-duplex link, where a round may go by without it.                   *)

TxPass(w) == {Served(w, "write")} \cup (IF SlowLink THEN {w} ELSE {})

ProcessTxReady ==
  /\ phase = "tx" /\ ~halted
  /\ phase' = "rx"
  /\ net' \in TxPass(net)
  /\ UNCHANGED <<sat, parent, posted, history, halted>>

(* user_on_closure tells the slot the socket is glued to, if it has a      *)
(* selector.  An event the selector's ring has no room for is lost, and    *)
(* nothing repeats it.                                                     *)

Tellable(k) == net.glue[k] # None /\ parent[net.glue[k]]

(* user_on_accept: every queued connection of the listeners is accepted,   *)
(* its upcall set and its peer's address read from the control block.      *)

Accepting == {k \in Cells : net.head[k] \in net.present["accept"]}

AcceptAll(w) ==
  [SoAccept(w, w.present["accept"]) EXCEPT
     !.upcall = @ \cup {k \in Cells : w.head[k] \in w.present["accept"]},
     !.list["accept"] = << >>, !.present["accept"] = {}]

ClearClosed(w) == [w EXCEPT !.list["closed"] = << >>, !.present["closed"] = {}]

ProcessRxReady ==
  /\ phase = "rx" /\ ~halted
  /\ phase' = "softint"
  /\ LET closed == Range(net.list["closed"]) \cap (Range(sat) \cup posted) IN
       /\ \E full \in SUBSET {k \in closed : Tellable(k)} :
            /\ told' = told \cup ({k \in closed : Tellable(k)} \ full)
            /\ refused' = (refused \cup full) \ told'
       /\ missed' = (missed \cup {k \in closed : ~Tellable(k)}) \ (told' \cup refused')
  /\ halted' = \E k \in Accepting : net.pcb[k] = None
  /\ net' = Served(AcceptAll(ClearClosed(net)), "read")
  /\ \E lost \in SUBSET Accepting :
       /\ posted' = posted \cup (Accepting \ lost)
       /\ forgotten' = forgotten \cup lost
  /\ UNCHANGED <<sat, parent>>

----------------------------------------------------------------------------
(* The waiters: the first one is told it may write, through its slot, and  *)
(* the socket of that slot leaves the list when service_mark_writable      *)
(* returns 0.  What it returns when the flag was set already is undefined. *)
(* A closed socket stays on the list: its slot then has no socket, whose   *)
(* type is read at address NULL, or one that may not be on the list.       *)

WaiterServed ==
  /\ phase = "wait" /\ ~halted /\ net.list["wait"] # << >>
  /\ LET s == net.glue[Head(net.list["wait"])] IN
       \/ /\ parent[s] /\ sat[s] \in net.present["wait"]
          /\ net' = Delist(net, "wait", sat[s]) /\ UNCHANGED halted
       \/ /\ sat[s] = None \/ (parent[s] /\ sat[s] \notin net.present["wait"])
          /\ halted' = TRUE /\ UNCHANGED net
  /\ UNCHANGED <<sat, parent, phase, posted, history>>

WaitersDone ==
  /\ phase = "wait" /\ ~halted
  /\ phase' = "command"
  /\ UNCHANGED <<net, sat, parent, posted, history, halted>>

Died == halted /\ UNCHANGED vars

Next ==
  \/ ProcessCommands \/ Events \/ ProcessTxReady \/ ProcessRxReady
  \/ WaiterServed \/ WaitersDone \/ Died

Spec == Init /\ [][Next]_vars

----------------------------------------------------------------------------
(* The types of the socket layer, and of what the slots and commands refer *)
(* to.                                                                     *)

TypeOK ==
  /\ net \in NetType
  /\ sat \in [Slots -> Cells \cup {None}] /\ parent \in [Slots -> BOOLEAN]
  /\ phase \in {"command", "timers", "tx", "rx", "softint", "wait"}
  /\ posted \subseteq Cells /\ told \subseteq Cells /\ refused \subseteq Cells
  /\ missed \subseteq Cells /\ forgotten \subseteq Cells /\ halted \in BOOLEAN

(* process_rx_ready_sockets leaves nothing on the lists it serves, so what *)
(* an event puts on one of them is served within a round, whatever closes  *)
(* have done to the lists and their counters in between.                   *)

PassDrainsLists ==
  [][phase = "rx" /\ phase' = "softint" =>
       \A n \in {"read", "accept", "closed"} : net'.list[n] = << >>]_vars

(* A connection that waits to be accepted is never left behind: its        *)
(* listener is on the list user_on_accept is called for.                   *)

QueuedAreAnnounced ==
  ~halted => \A k \in Cells : net.head[k] # None => net.head[k] \in net.present["accept"]

(* read_sockets_queue_len and write_sockets_queue_len limit a pass.  They  *)
(* are not decremented when app_glue_close_socket takes a socket off its   *)
(* list, but are never below the length of the list, so that a pass never  *)
(* leaves a socket behind.                                                 *)

CountersCover == \A n \in Counted : net.len[n] >= Len(net.list[n])

(* A socket a slot refers to, and one in an ACCEPTED command, is allocated *)
(* and counts as open, so that closing it does not panic ("soclose:        *)
(* NOFDREF"); two slots never share one; and all variables have their      *)
(* types.                                                                  *)

HeldAreOpen ==
  /\ TypeOK
  /\ \A k \in (Range(sat) \ {None}) \cup posted :
       k \in Used(net) /\ "NOFDREF" \notin net.st[k] /\ net.head[k] = None
  /\ \A s, t \in Slots : sat[s] = sat[t] /\ sat[s] # None => s = t
  /\ \A s \in Slots : sat[s] \notin posted

(* so_head and so_q agree, and a queued connection counts as not open      *)
(* ("soaccept: !NOFDREF") and makes no upcall that would put it on a list  *)
(* before it is accepted.  Its listener is open, and listens, unless its   *)
(* application has shut it down since the connection was queued.           *)

QueuesSound ==
  \A k \in Cells :
    /\ \A l \in Cells : k \in Range(net.q[l]) <=> net.head[k] = l
    /\ net.head[k] # None =>
         LET l == net.head[k] IN
         /\ {k, l} \subseteq Used(net) /\ "NOFDREF" \notin net.st[l]
         /\ net.pcb[l] = "LISTEN" \/ (net.pcb[l] = None /\ "DISCONNECTED" \in net.st[l])
         /\ "NOFDREF" \in net.st[k] /\ k \notin net.upcall \cup Listed(net)

(* The upcalls read the control block of a stream socket that is not       *)
(* disconnected: there always is one.                                      *)

UpcallHasPcb ==
  \A k \in Used(net) \cap net.stream : net.pcb[k] = None => "DISCONNECTED" \in net.st[k]

(* The owner of a disconnected socket has been told, or will be by the     *)
(* next pass, with two exceptions, after which nothing repeats the event:  *)
(* the closure was processed before the socket was attached to a slot with *)
(* a selector, or service_mark_closed met a full ring and dropped it.      *)

ClosureReported ==
  ~halted => \A s \in Slots : sat[s] # None /\ "DISCONNECTED" \in net.st[sat[s]] =>
                               sat[s] \in told \cup refused \cup missed
                                           \cup net.present["closed"]

(* No cell is freed twice, and none leaks: a cell in use belongs to a slot *)
(* or a command, waits to be accepted, or is a closed connection TCP still *)
(* has a control block for.  The exceptions are accepted sockets for which *)
(* no command buffer or ring entry was left, and those                     *)
(* app_glue_close_socket accepts and forgets.                              *)

CellsAccounted ==
  /\ \A i, j \in DOMAIN net.pool : net.pool[i] = net.pool[j] => i = j
  /\ \A k \in Used(net) \ forgotten :
       \/ k \in Range(sat) \cup posted
       \/ net.head[k] # None
       \/ "NOFDREF" \in net.st[k] /\ net.pcb[k] # None

(* "If a socket is closed with sockets on either so_q0 or so_q, these      *)
(* sockets are dropped": when a listener is freed, so are the connections  *)
(* that were queued on it.                                                 *)

QueuedAreDropped ==
  [][\A k \in Cells : net.head[k] # None /\ net.head[k] \notin Used(net') =>
                         k \notin Used(net')]_vars

(* "abort on accept(2) to disconnected socket": a connection that was lost *)
(* while it was queued is not used by user_on_accept.                      *)

AcceptAborts == phase = "rx" => \A k \in Accepting : net.pcb[k] # None

============================================================================
