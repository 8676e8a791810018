------------------------------- MODULE TxSpace -------------------------------
(***************************************************************************)
(* How an application learns how much it may send on one socket.  The      *)
(* library reports the least of the room on the tx ring, the free buffers  *)
(* and tx_space, a 32-bit count of bytes in shared memory which the stack  *)
(* increases and, for datagrams only, the library decreases.  A sender     *)
(* with little or nothing left asks to be told (TX_POOL_EMPTY) and waits   *)
(* in service_select for a writable event, which the service posts only    *)
(* when write_ready_to_app was clear.                                      *)
(*                                                                         *)
(* The sender is the loop of the test client tcp_udp.c.  Accesses of the   *)
(* two sides to tx_space, the flag, a ring or a command are steps of their *)
(* own; TxPath has the draining loop at a finer grain.                     *)
(***************************************************************************)
EXTENDS Integers, Sequences, FiniteSetsExt

CONSTANTS
  Kinds,       \* {"stream"}, {"dgram"} or both: the sockets considered
  Unit,        \* 1448, the bytes of a buffer
  Low,         \* 10, the number of buffers below which the library asks to be told
  Hiwat,       \* sb_hiwat of so_snd
  Lowat,       \* sb_lowat of so_snd
  Half,        \* 2^31: tx_space is in -Half .. Half - 1
  TxRingSize,  \* entries of the tx ring
  SelRoom,     \* events the selector's ring holds
  CmdRoom,     \* commands of this socket the command ring holds
  MaxAhead     \* sockets that may wait for buffers in front of this one

ASSUME TxSpaceAssumption ==
  /\ Kinds \subseteq {"stream", "dgram"} /\ Kinds # {}
  /\ {Unit, Low, Lowat, SelRoom, CmdRoom} \subseteq Nat \ {0}
  /\ TxRingSize \in Nat \ {0, 1} /\ Hiwat \in Nat /\ Half \in Nat /\ Half > Hiwat
  /\ MaxAhead \in Nat

VARIABLES
  kind,        \* SOCK_STREAM or SOCK_DGRAM
  txSpace,     \* service_socket_t.tx_space
  flag,        \* write_ready_to_app
  done,        \* write_done_from_app
  ring,        \* number of buffers on the tx ring
  cmds,        \* commands of this socket on the command ring
  events,      \* writable events on the selector's ring
  cc,          \* so_snd.sb_cc
  listed,      \* the socket is on the glue's list of writable sockets
  waits,       \* the socket is on the list of those waiting for buffers
  ahead,       \* the number of sockets in front of it on that list
  app, left, kicks, \* the sender: where it is, buffers it may still send, whether it will kick
  svc, next,   \* the service: where it is, where it continues after posting an event
  wrapped,     \* history: tx_space has passed Half - 1
  excuse       \* history: why the sender may miss an event, "none" if it may not

shared == <<txSpace, flag, done, ring, cmds, events>>
vars == <<kind, shared, cc, listed, waits, ahead, app, left, kicks, svc, next, wrapped,
          excuse>>

(* int32_t arithmetic; division truncates towards 0. *)

Int32(n) == ((n + Half) % (2 * Half)) - Half
Quotient(n) == IF n >= 0 THEN n \div Unit ELSE -((-n) \div Unit)

(* A slot is used again as it was left: kept is its write_ready_to_app.    *)
(* For a stream SET_SELECT, or SET_RING after accept, marks it writable,   *)
(* and posts an event if the flag was clear; for a datagram socket OPEN is *)
(* all there is, and it touches neither.  The sender starts by waiting, as *)
(* the test clients do, or by sending; if it waits and no event was        *)
(* posted, it may do so for ever.                                          *)

Init ==
  /\ kind \in Kinds
  /\ txSpace = Hiwat /\ cc = 0
  /\ \E kept \in BOOLEAN :
       /\ flag = (kept \/ kind = "stream")
       /\ events = IF kind = "stream" /\ ~kept THEN 1 ELSE 0
  /\ done = FALSE /\ ring = 0 /\ cmds = << >>
  /\ listed = FALSE /\ waits = FALSE /\ ahead = 0
  /\ app \in {"select", "space"} /\ left = 0 /\ kicks = FALSE
  /\ svc = "command" /\ next = "none"
  /\ wrapped = FALSE
  /\ excuse = IF app = "select" /\ events = 0 THEN "untold" ELSE "none"

----------------------------------------------------------------------------
(* The sender. *)

appLocal == <<app, left, kicks>>
serviceLocal == <<svc, next, cc, listed, waits, ahead, wrapped>>

Select ==
  /\ app = "select" /\ events > 0
  /\ events' = 0
  /\ app' = "space"
  /\ excuse' = IF excuse = "unkicked" /\ done THEN "unkicked" ELSE "none"
  /\ UNCHANGED <<kind, txSpace, flag, done, ring, cmds, left, kicks, serviceLocal>>

ReportedByRing(free) == Min({TxRingSize - 1 - ring, free})
Reported(free) == Min({TxRingSize - 1 - ring, free, Quotient(txSpace)})

(* free: what rte_mempool_count finds, as other processes use the pool     *)
(* too.  The ring is counted a little earlier, when it may have been       *)
(* fuller; that is a smaller free here.                                    *)

GetSpace ==
  /\ app = "space"
  /\ \E free \in 0 .. TxRingSize :
       /\ left' = Max({0, Reported(free)}) /\ kicks' = (Reported(free) # 0)
       /\ app' = IF Reported(free) < Low THEN "clear" ELSE "send"
  /\ UNCHANGED <<kind, shared, serviceLocal, excuse>>

ClearKept ==
  /\ app = "clear"
  /\ app' = "notify"
  /\ UNCHANGED <<kind, shared, left, kicks, serviceLocal, excuse>>

ClearFlag ==
  /\ app = "clear"
  /\ flag' = FALSE
  /\ app' = "notify"
  /\ UNCHANGED <<kind, txSpace, done, ring, cmds, events, left, kicks, serviceLocal, excuse>>

(* An excuse lasts until the next event; that a kick was lost, as long as  *)
(* write_done_from_app is set, as the library does not kick again.         *)

Excuses == {"none", "unkicked", "untold", "unannounced", "blocked"}
Excused(why) == excuse' = IF excuse = "unkicked" THEN "unkicked" ELSE why

(* A command is refused when the ring is full or the pool used up. *)

Post(c, why) ==
  \/ /\ Len(cmds) < CmdRoom
     /\ cmds' = Append(cmds, c) /\ UNCHANGED excuse
  \/ UNCHANGED cmds /\ Excused(why)

Notify ==
  /\ app = "notify"
  /\ Post("empty", "untold")
  /\ app' = IF left > 0 THEN "send" ELSE IF kicks THEN "kick" ELSE "select"
  /\ UNCHANGED <<kind, txSpace, flag, done, ring, events, left, kicks, serviceLocal>>

(* service_get_buffer finds the pool empty after all, and asks to be told  *)
(* without touching the flag.                                              *)

NoBuffer ==
  /\ app = "send"
  /\ left' = 0
  /\ app' = "notify"
  /\ IF flag THEN Excused("unannounced") ELSE UNCHANGED excuse
  /\ UNCHANGED <<kind, shared, kicks, serviceLocal>>

SendClear ==
  /\ app = "send"
  /\ flag' = FALSE
  /\ app' = "enqueue"
  /\ UNCHANGED <<kind, txSpace, done, ring, cmds, events, left, kicks, serviceLocal, excuse>>

SentOne ==
  /\ left' = left - 1
  /\ app' = IF left > 1 THEN "send" ELSE "kick"

(* service_send for a stream; service_sendto, which counts, for datagrams. *)

SendEnqueue ==
  /\ app = "enqueue"
  /\ ring' = ring + 1
  /\ IF kind = "dgram" THEN app' = "count" /\ UNCHANGED left ELSE SentOne
  /\ UNCHANGED <<kind, txSpace, flag, done, cmds, events, kicks, serviceLocal, excuse>>

SendCount ==
  /\ app = "count"
  /\ txSpace' = Int32(txSpace - Unit)
  /\ SentOne
  /\ UNCHANGED <<kind, flag, done, ring, cmds, events, kicks, serviceLocal, excuse>>

Kick ==
  /\ app = "kick"
  /\ IF done THEN UNCHANGED <<cmds, excuse>> ELSE Post("kick", "unkicked")
  /\ done' = TRUE
  /\ app' = "select" /\ kicks' = FALSE
  /\ UNCHANGED <<kind, txSpace, flag, ring, events, left, serviceLocal>>

App ==
  \/ Select \/ GetSpace \/ ClearFlag \/ Notify \/ NoBuffer
  \/ SendClear \/ SendEnqueue \/ SendCount \/ Kick

----------------------------------------------------------------------------
(* The service.  It goes round: a command, the list of writable sockets,   *)
(* what the network brings, the waiters.                                   *)

Goto(l) == svc' = l /\ next' = "none"

(* service_mark_writable: an event is posted, in a later step, only when   *)
(* the flag was clear.                                                     *)

Mark(then) ==
  /\ flag' = TRUE
  /\ svc' = IF flag THEN then ELSE "post"
  /\ next' = IF flag THEN "none" ELSE then

(* The selector's ring, shared with other sockets, may be full. *)

PostEvent ==
  /\ svc = "post"
  /\ \/ /\ events < SelRoom
        /\ events' = events + 1 /\ waits' = (waits /\ next # "waiters")
        /\ Goto(next) /\ UNCHANGED excuse
     \/ /\ IF events = 0 THEN Excused("untold") ELSE UNCHANGED excuse
        /\ Goto(IF next = "waiters" THEN "command" ELSE next)
        /\ UNCHANGED <<events, waits>>
  /\ UNCHANGED <<kind, txSpace, flag, done, ring, cmds, cc, listed, ahead, appLocal, wrapped>>

(* After the command, the socket is served if it is on the list of the     *)
(* writable ones.                                                          *)

ProcessTxReady == IF listed THEN "drainListed" ELSE "network"

ProcessKick ==
  /\ svc = "command" /\ cmds # << >> /\ Head(cmds) = "kick"
  /\ cmds' = Tail(cmds)
  /\ Goto("drainKicked")
  /\ UNCHANGED <<kind, txSpace, flag, done, ring, events, cc, listed, waits, ahead, appLocal,
                 wrapped, excuse>>

(* The socket is put at the end of the list, unless it is on it. *)

ProcessTxPoolEmpty ==
  /\ svc = "command" /\ cmds # << >> /\ Head(cmds) = "empty"
  /\ cmds' = Tail(cmds)
  /\ waits' = TRUE /\ ahead' \in IF waits THEN {ahead} ELSE 0 .. MaxAhead
  /\ txSpace' = IF ~waits /\ kind = "dgram" THEN Hiwat ELSE txSpace
  /\ Goto(ProcessTxReady)
  /\ UNCHANGED <<kind, flag, done, ring, events, cc, listed, appLocal, wrapped, excuse>>

NoCommand ==
  /\ svc = "command" /\ cmds = << >>
  /\ Goto(ProcessTxReady)
  /\ UNCHANGED <<kind, shared, cc, listed, waits, ahead, appLocal, wrapped, excuse>>

(* service_reflect_tx_socket_buf: n bytes were appended to or dropped from *)
(* a buffer of the socket; either way they are added.                      *)

Added(n) == Int32(txSpace + n)

Reflect(n, then) ==
  /\ txSpace' = Added(n)
  /\ wrapped' = (wrapped \/ txSpace + n >= Half)
  /\ IF txSpace = 0 THEN Mark(then) ELSE Goto(then) /\ UNCHANGED flag

(* service_on_transmission_opportunity hands the buffers of the ring to    *)
(* sosend one after the other, until the ring is found empty and the       *)
(* socket is marked.  What does not fit, or finds no mbuf, is not sent;    *)
(* nobody is told.                                                         *)

Draining == svc \in {"drainKicked", "drainListed"}
AfterDrain == IF svc = "drainKicked" THEN ProcessTxReady ELSE "network"
Unlisted == listed' = (listed /\ svc = "drainKicked")

SendStream ==
  /\ Draining /\ ring > 0 /\ kind = "stream"
  /\ done' = FALSE
  /\ ring' = ring - 1
  /\ \/ Unit <= Hiwat - cc /\ cc' = cc + Unit /\ Reflect(Unit, svc)
     \/ UNCHANGED <<cc, txSpace, wrapped, flag, svc, next>>
  /\ UNCHANGED <<kind, cmds, events, listed, waits, ahead, appLocal, excuse>>

(* A datagram passes so_snd by.  When no mbuf is left for one, the rest of *)
(* the burst is freed, and the socket not marked.                          *)

SendDatagrams ==
  /\ Draining /\ ring > 0 /\ kind = "dgram"
  /\ done' = FALSE
  /\ ring' = 0
  /\ \/ UNCHANGED <<svc, listed, excuse>>
     \/ svc' = AfterDrain /\ Unlisted /\ Excused("untold")
  /\ UNCHANGED <<kind, txSpace, flag, cmds, events, cc, waits, ahead, appLocal, next,
                 wrapped>>

DrainedQuietly ==
  /\ Draining /\ ring = 0
  /\ done' = FALSE
  /\ Goto(AfterDrain) /\ Unlisted
  /\ UNCHANGED <<kind, txSpace, flag, ring, cmds, events, cc, waits, ahead, appLocal,
                 wrapped, excuse>>

Drained ==
  /\ Draining /\ ring = 0
  /\ done' = FALSE
  /\ Mark(AfterDrain) /\ Unlisted
  /\ UNCHANGED <<kind, txSpace, ring, cmds, events, cc, waits, ahead, appLocal, wrapped,
                 excuse>>

(* tcp_input: an acknowledgement drops bytes from so_snd, data is appended *)
(* to so_rcv; both wake the socket, which is listed if there is room.  (An *)
(* acknowledgement of more than a buffer is several of these.)             *)

Room(c) == Hiwat - c >= Lowat

Acked ==
  /\ svc = "network" /\ kind = "stream"
  /\ \E n \in 1 .. Min({cc, Unit}) :
       /\ cc' = cc - n
       /\ Reflect(n, "network")
       /\ listed' = (listed \/ Room(cc - n))
  /\ UNCHANGED <<kind, done, ring, cmds, events, waits, ahead, appLocal, excuse>>

DataArrives ==
  /\ svc = "network"
  /\ IF kind = "stream" THEN \E n \in 1 .. Unit : Reflect(n, "network")
                        ELSE UNCHANGED <<txSpace, wrapped, flag, svc, next>>
  /\ listed' = (listed \/ Room(cc))
  /\ UNCHANGED <<kind, done, ring, cmds, events, cc, waits, ahead, appLocal, excuse>>

NetworkDone ==
  /\ svc = "network"
  /\ Goto("waiters")
  /\ UNCHANGED <<kind, shared, cc, listed, waits, ahead, appLocal, wrapped, excuse>>

(* The waiters are served in turn while there are buffers.  One that       *)
(* cannot be told (no selector, a full ring, an undefined result) ends the *)
(* loop, stays first, and keeps the others from being told.                *)

WaiterAhead ==
  /\ svc = "waiters" /\ waits /\ ahead > 0
  /\ \/ ahead' = ahead - 1 /\ UNCHANGED <<svc, next, excuse>>
     \/ Goto("command") /\ Excused("blocked") /\ UNCHANGED ahead
  /\ UNCHANGED <<kind, shared, cc, listed, waits, appLocal, wrapped>>

WaiterSpace ==
  /\ svc = "waiters" /\ waits /\ ahead = 0
  /\ txSpace' = IF kind = "dgram" THEN Hiwat ELSE txSpace
  /\ Goto("mark")
  /\ UNCHANGED <<kind, flag, done, ring, cmds, events, cc, listed, waits, ahead, appLocal, wrapped,
                 excuse>>

(* What service_mark_writable returns when the flag was set is undefined:  *)
(* 0 takes the socket off the list, anything else ends the loop.           *)

WaiterMark ==
  /\ svc = "mark"
  /\ \/ ~flag /\ Mark("waiters") /\ UNCHANGED waits
     \/ flag /\ waits' = FALSE /\ Goto("waiters") /\ UNCHANGED flag
     \/ flag /\ Goto("command") /\ UNCHANGED <<flag, waits>>
  /\ UNCHANGED <<kind, txSpace, done, ring, cmds, events, cc, listed, ahead, appLocal, wrapped,
                 excuse>>

WaitersDone ==
  /\ svc = "waiters"
  /\ Goto("command")
  /\ UNCHANGED <<kind, shared, cc, listed, waits, ahead, appLocal, wrapped, excuse>>

Service ==
  \/ ProcessKick \/ ProcessTxPoolEmpty \/ NoCommand
  \/ SendStream \/ SendDatagrams \/ Drained \/ PostEvent
  \/ Acked \/ DataArrives \/ NetworkDone
  \/ WaiterAhead \/ WaiterSpace \/ WaiterMark \/ WaitersDone

Next == App \/ Service

Spec == Init /\ [][Next]_vars

(* Both sides keep running, ipintr has a finite queue of packets, and the  *)
(* service's buffers come back again and again.                            *)

FairSpec ==
  /\ Spec
  /\ WF_vars(App) /\ WF_vars(Service)
  /\ SF_vars(NetworkDone) /\ SF_vars(WaiterAhead \/ WaiterSpace)

----------------------------------------------------------------------------
(* The types; tx_space is a signed 32-bit number, and the tx ring is never *)
(* asked to hold more than it can: the sender checked.                     *)

TypeOK ==
  /\ kind \in Kinds
  /\ txSpace \in -Half .. Half - 1 /\ cc \in 0 .. Hiwat
  /\ flag \in BOOLEAN /\ done \in BOOLEAN
  /\ ring \in 0 .. TxRingSize - 1
  /\ cmds \in Seq({"kick", "empty"}) /\ Len(cmds) <= CmdRoom /\ events \in 0 .. SelRoom
  /\ listed \in BOOLEAN /\ waits \in BOOLEAN /\ ahead \in 0 .. MaxAhead
  /\ app \in {"select", "space", "clear", "notify", "send", "enqueue", "count", "kick"}
  /\ left \in 0 .. TxRingSize - 1 /\ kicks \in BOOLEAN
  /\ svc \in {"command", "drainKicked", "drainListed", "network", "waiters", "mark",
              "post"}
  /\ next \in {"none", "drainKicked", "drainListed", "network", "waiters"}
  /\ wrapped \in BOOLEAN /\ excuse \in Excuses

(* Until it wraps, tx_space of a stream is never less than the room in the *)
(* send buffer, so that accounting alone never stops a sender that has     *)
(* room; and tx_space of a datagram socket, which the service resets while *)
(* the library counts down, never leaves 0 .. sb_hiwat.  And all variables *)
(* have their types.                                                       *)

SpaceSound ==
  /\ TypeOK
  /\ kind = "stream" /\ ~wrapped => txSpace >= Hiwat - cc
  /\ kind = "dgram" => txSpace \in 0 .. Hiwat

(* A sender that waits finds the flag clear or an event on its way: no     *)
(* interleaving of the clearing in service_send and                        *)
(* service_get_socket_tx_space with service_mark_writable loses an event.  *)

Waiting == app = "select" /\ events = 0

FlagMeansEvent == Waiting /\ svc # "post" /\ flag => excuse # "none"

(* A sender that waits for a writable event gets one: what it sent is      *)
(* drained, or it asked to be told of free buffers, and the list of those  *)
(* who did is served.  Unless a command was refused, the event found no    *)
(* room, a datagram failed, it asked from service_get_buffer, a waiter     *)
(* before it could not be told, or its socket was new and nothing was      *)
(* posted for it.                                                          *)

WriterWoken == Waiting ~> (~Waiting \/ excuse # "none")

(* "if no buffers to allocate, it is used to signal the service to wake up *)
(* the application when some buffers become available": also the sender    *)
(* that asked from service_get_buffer is told.                             *)

BuffersAnnounced == Waiting ~> (~Waiting \/ excuse \notin {"none", "unannounced"})

(* "A number of buffers can be allocated and sent on the socket (0 if      *)
(* none)": what a stream sent, having been told it may, fits into the send *)
(* buffer when it gets there, and is not refused and freed by sosend.      *)

ReportedFits == Draining /\ ring > 0 /\ kind = "stream" => Unit <= Hiwat - cc
=============================================================================
