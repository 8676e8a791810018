------------------------------- MODULE RxPath -------------------------------
(***************************************************************************)
(* The receive path of an application that watches several sockets with    *)
(* one selector: data goes from the socket's receive buffer over the rx    *)
(* ring into the library's local cache, and the application is woken by an *)
(* event on the selector's ring and a SIGUSR1.                             *)
(*                                                                         *)
(* read_ready_to_app keeps the events few: the service posts one only when *)
(* its test-and-set finds the flag clear, and the library clears it each   *)
(* time before it looks at the rx ring.  It does so by a plain store,      *)
(* which on x86 can stay in the store buffer until after the look;         *)
(* reordered remembers that it did.  The application does what the test    *)
(* clients do: service_select, then service_receive on every returned      *)
(* socket until it fails.  The two processes run in parallel; every access *)
(* to shared memory is a step of its own.                                  *)
(***************************************************************************)
EXTENDS Naturals, Sequences, FiniteSets, FiniteSetsExt

CONSTANTS
  Socks,         \* the sockets of the selector
  RxRingSize,    \* DATA_RINGS_SIZE
  CacheSize,     \* size of local_cache
  Burst,         \* MAX_PKT_BURST
  SelRingSize,   \* size of ready_connections
  CmdRoom,       \* RX_KICK commands there are buffers and ring entries for
  MaxData,       \* bound: number of buffers that arrive on each socket
  Timeout,       \* service_select is called with a timeout, not with NULL
  None           \* no socket

ASSUME RxAssumption ==
  /\ RxRingSize \in Nat \ {0} /\ CacheSize \in Nat \ {0, 1} /\ Burst \in Nat \ {0}
  /\ SelRingSize \in Nat /\ IsFiniteSet(Socks) /\ Cardinality(Socks) \in 0 .. SelRingSize - 1
  /\ CmdRoom \in Nat /\ MaxData \in Nat
  /\ Timeout \in BOOLEAN /\ None \notin Socks

VARIABLES
  arrived,       \* per socket: number of the last buffer in so_rcv
  taken,         \* per socket: number of the last buffer soreceive returned
  queued,        \* per socket: read_queue_present
  rxRing,        \* per socket: the rx ring
  ready,         \* per socket: read_ready_to_app
  events,        \* ready_connections: READABLE events, by socket
  kicks,         \* RX_KICK commands on the command ring, by socket
  svc,           \* the service: step, socket and ring_free of user_data_available_cbk
  cache,         \* per socket: local_cache
  got,           \* per socket: number of the last buffer given to the application
  app,           \* the application: where it is in service_select or service_receive
  todo,          \* sockets service_select returned and that are not drained yet
  buffered,      \* socket whose read_ready_to_app := 0 is still in the store buffer
  starved,       \* history: a kick found no buffer or no place
  dropped,       \* history: the selector's ring was full for an event
  reordered      \* history: an rx ring was counted before the store to its flag was visible

kernel == <<arrived, taken, queued>>
appVars == <<cache, got, app, todo>>
vars == <<arrived, taken, queued, rxRing, ready, events, kicks, svc, cache, got, app,
          todo, buffered, starved, dropped, reordered>>

Looping == [pc |-> "loop", sock |-> None, free |-> 0, more |-> TRUE]
At(pc, s) == [pc |-> pc, sock |-> s, mbuf |-> 0]

(* SET_SELECT ends with service_mark_readable, so a socket joins its       *)
(* selector with an event posted.                                          *)

Init ==
  /\ arrived = [s \in Socks |-> 0] /\ taken = [s \in Socks |-> 0]
  /\ queued = [s \in Socks |-> FALSE]
  /\ rxRing = [s \in Socks |-> << >>]
  /\ ready = [s \in Socks |-> TRUE]
  /\ events \in [1 .. Cardinality(Socks) -> Socks] /\ Range(events) = Socks
  /\ kicks = << >>
  /\ svc = Looping
  /\ cache = [s \in Socks |-> << >>] /\ got = [s \in Socks |-> 0]
  /\ app = At("select", None) /\ todo = {}
  /\ buffered = None
  /\ starved = FALSE /\ dropped = FALSE /\ reordered = FALSE

----------------------------------------------------------------------------
(* The service.  Data arrives: sowakeup puts the socket on the read queue. *)

Arrive(s) ==
  /\ arrived[s] < MaxData
  /\ arrived' = [arrived EXCEPT ![s] = @ + 1]
  /\ queued' = [queued EXCEPT ![s] = TRUE]
  /\ UNCHANGED <<taken, rxRing, ready, events, kicks, svc, appVars, buffered, starved,
                 dropped, reordered>>

(* process_rx_ready_sockets, and process_commands on RX_KICK: both enter   *)
(* user_data_available_cbk.                                                *)

ProcessRxReady(s) ==
  /\ svc.pc = "loop" /\ queued[s]
  /\ queued' = [queued EXCEPT ![s] = FALSE]
  /\ svc' = [svc EXCEPT !.pc = "free", !.sock = s]
  /\ UNCHANGED <<arrived, taken, rxRing, ready, events, kicks, appVars, buffered,
                 starved, dropped, reordered>>

ProcessRxKick ==
  /\ svc.pc = "loop" /\ kicks # << >>
  /\ kicks' = Tail(kicks)
  /\ svc' = [svc EXCEPT !.pc = "free", !.sock = Head(kicks)]
  /\ UNCHANGED <<kernel, rxRing, ready, events, appVars, buffered, starved, dropped,
                 reordered>>

(* ring_free = service_rx_buf_free_count, read once *)

FreeCountOneMore ==
  /\ svc.pc = "free"
  /\ svc' = [svc EXCEPT !.pc = "receive", !.free = RxRingSize - Len(rxRing[svc.sock])]
  /\ UNCHANGED <<kernel, rxRing, ready, events, kicks, appVars, buffered, starved,
                 dropped, reordered>>

FreeCount ==
  /\ svc.pc = "free"
  /\ svc' = [svc EXCEPT !.pc = "receive", !.free = RxRingSize - 1 - Len(rxRing[svc.sock])]
  /\ UNCHANGED <<kernel, rxRing, ready, events, kicks, appVars, buffered, starved,
                 dropped, reordered>>

(* The loop of user_data_available_cbk: it ends when soreceive has nothing *)
(* (exhausted), when the ring has no more room, in which case it calls     *)
(* service_mark_readable once more, or when a submission failed.           *)

Receive ==
  LET s == svc.sock IN
  /\ svc.pc = "receive"
  /\ \/ /\ svc.more /\ svc.free > 0 /\ taken[s] < arrived[s]
        /\ taken' = [taken EXCEPT ![s] = @ + 1]
        /\ svc' = [svc EXCEPT !.pc = "submit", !.free = @ - 1]
     \/ /\ svc.free = 0
        /\ svc' = [svc EXCEPT !.pc = "lastmark"]
        /\ UNCHANGED taken
     \/ /\ svc.free > 0 /\ (svc.more => taken[s] = arrived[s])
        /\ svc' = Looping
        /\ UNCHANGED taken
  /\ UNCHANGED <<arrived, queued, rxRing, ready, events, kicks, appVars, buffered,
                 starved, dropped, reordered>>

(* service_submit_rx_buf: the watermark of 1 makes every enqueue return    *)
(* nonzero, so it always marks; a full ring loses the buffer.              *)

Submit ==
  LET s == svc.sock
      room == Len(rxRing[s]) < RxRingSize - 1
  IN
  /\ svc.pc = "submit"
  /\ rxRing' = IF room THEN [rxRing EXCEPT ![s] = Append(@, taken[s])] ELSE rxRing
  /\ svc' = [svc EXCEPT !.pc = "mark", !.more = room]
  /\ UNCHANGED <<kernel, ready, events, kicks, appVars, buffered, starved, dropped,
                 reordered>>

(* service_mark_readable.  Its kill wakes the application only when it is  *)
(* inside pselect: sig_handler itself does nothing.                        *)

Woken == IF app.pc = "wait" THEN At(IF Timeout THEN "lastcheck" ELSE "select", None) ELSE app

Marked == IF svc.pc \in {"mark", "post"} THEN [svc EXCEPT !.pc = "receive"] ELSE Looping

MarkReadable ==
  LET s == svc.sock IN
  /\ svc.pc \in {"mark", "lastmark"}
  /\ ready' = [ready EXCEPT ![s] = TRUE]
  /\ \/ ready[s] /\ svc' = Marked /\ app' = Woken
     \/ /\ ~ready[s]
        /\ svc' = [svc EXCEPT !.pc = IF @ = "mark" THEN "post" ELSE "lastpost"]
        /\ UNCHANGED app
  /\ UNCHANGED <<kernel, rxRing, events, kicks, cache, got, todo, buffered, starved,
                 dropped, reordered>>

PostEvent ==
  LET room == Len(events) < SelRingSize - 1 IN
  /\ svc.pc \in {"post", "lastpost"}
  /\ events' = IF room THEN Append(events, svc.sock) ELSE events
  /\ dropped' = (dropped \/ ~room)
  /\ svc' = Marked
  /\ app' = Woken
  /\ UNCHANGED <<kernel, rxRing, ready, kicks, cache, got, todo, buffered, starved,
                 reordered>>

Service ==
  \/ \E s \in Socks : ProcessRxReady(s)
  \/ ProcessRxKick \/ FreeCount \/ Receive \/ Submit \/ MarkReadable \/ PostEvent

----------------------------------------------------------------------------
(* The application.  service_select takes all the events there are, or     *)
(* goes to sleep.  After a wait with a timeout it looks once more, returns *)
(* -1 if there is still nothing, and the caller calls it again.            *)

SelectCheck ==
  /\ app.pc \in {"select", "lastcheck"}
  /\ \/ /\ events = << >>
        /\ app' = At(IF app.pc = "select" THEN "towait" ELSE "select", None)
        /\ UNCHANGED <<todo, events>>
     \/ /\ events # << >>
        /\ todo' = Range(events)
        /\ events' = << >>
        /\ app' = At("next", None)
  /\ UNCHANGED <<kernel, rxRing, ready, kicks, svc, cache, got, buffered, starved,
                 dropped, reordered>>

(* pselect begins; a signal that came before it has been handled already.  *)

PselectBegins ==
  /\ app.pc = "towait"
  /\ app' = At("wait", None)
  /\ UNCHANGED <<kernel, rxRing, ready, events, kicks, svc, cache, got, todo, buffered,
                 starved, dropped, reordered>>

PselectExpires ==
  /\ Timeout /\ app.pc = "wait"
  /\ app' = At("lastcheck", None)
  /\ UNCHANGED <<kernel, rxRing, ready, events, kicks, svc, cache, got, todo, buffered,
                 starved, dropped, reordered>>

(* The caller's loop over the returned sockets. *)

NextSocket ==
  /\ app.pc = "next"
  /\ \/ todo = {} /\ app' = At("select", None)
     \/ \E s \in todo : app' = At("clear", s)
  /\ UNCHANGED <<kernel, rxRing, ready, events, kicks, svc, cache, got, todo, buffered,
                 starved, dropped, reordered>>

(* service_dequeue_rx_buf.  First it pops the local cache and stores 0 to  *)
(* the flag: rte_atomic16_set is a plain store, which waits in the store   *)
(* buffer.                                                                 *)

Popped(c) == IF c = << >> THEN 0 ELSE Head(c)
Rest(c) == IF c = << >> THEN c ELSE Tail(c)

ClearForgotten ==
  LET s == app.sock IN
  /\ app.pc = "clear" /\ buffered = None
  /\ app' = [app EXCEPT !.pc = "move", !.mbuf = Popped(cache[s])]
  /\ cache' = [cache EXCEPT ![s] = Rest(@)]
  /\ UNCHANGED <<kernel, rxRing, ready, buffered, events, kicks, svc, got, todo, starved, dropped,
                 reordered>>

ClearReady ==
  LET s == app.sock IN
  /\ app.pc = "clear" /\ buffered = None
  /\ app' = [app EXCEPT !.pc = "move", !.mbuf = Popped(cache[s])]
  /\ cache' = [cache EXCEPT ![s] = Rest(@)]
  /\ buffered' = s
  /\ UNCHANGED <<kernel, rxRing, ready, events, kicks, svc, got, todo, starved, dropped,
                 reordered>>

StoreDrains ==
  /\ buffered # None
  /\ ready' = [ready EXCEPT ![buffered] = FALSE]
  /\ buffered' = None
  /\ UNCHANGED <<kernel, rxRing, events, kicks, svc, appVars, starved, dropped, reordered>>

(* Then it moves up to a burst from the rx ring to the cache, and pops the *)
(* cache if the first pop found nothing.  The store that releases the      *)
(* ring's entries leaves the store buffer after the flag's.                *)

MoveWholeBurst ==
  LET s == app.sock
      n == Min({Burst, Len(rxRing[s])})
      all == cache[s] \o SubSeq(rxRing[s], 1, n)
      filled == SubSeq(all, 1, Min({CacheSize - 1, Len(all)}))
  IN
  /\ app.pc = "move"
  /\ n > 0 => buffered = None
  /\ rxRing' = [rxRing EXCEPT ![s] = SubSeq(@, n + 1, Len(@))]
  /\ app' = [app EXCEPT !.pc = "kick", !.mbuf = IF @ # 0 THEN @ ELSE Popped(filled)]
  /\ cache' = [cache EXCEPT ![s] = IF app.mbuf # 0 THEN filled ELSE Rest(filled)]
  /\ reordered' = (reordered \/ buffered # None)
  /\ UNCHANGED <<kernel, ready, events, kicks, svc, got, todo, buffered, starved, dropped>>

MoveBurst ==
  LET s == app.sock
      room == CacheSize - 1 - Len(cache[s])
      n == Min({Burst, room, Len(rxRing[s])})
      filled == cache[s] \o SubSeq(rxRing[s], 1, n)
  IN
  /\ app.pc = "move"
  /\ n > 0 => buffered = None
  /\ rxRing' = [rxRing EXCEPT ![s] = SubSeq(@, n + 1, Len(@))]
  /\ app' = [app EXCEPT !.pc = "kick", !.mbuf = IF @ # 0 THEN @ ELSE Popped(filled)]
  /\ cache' = [cache EXCEPT ![s] = IF app.mbuf # 0 THEN filled ELSE Rest(filled)]
  /\ reordered' = (reordered \/ buffered # None)
  /\ UNCHANGED <<kernel, ready, events, kicks, svc, got, todo, buffered, starved, dropped>>

(* At last it sends RX_KICK, when there is a command buffer; the enqueue   *)
(* is a locked operation, which empties the store buffer.  service_receive *)
(* fails when no buffer was found.                                         *)

ReceiveOnly ==
  LET s == app.sock IN
  /\ app.pc = "kick" /\ buffered = None
  /\ got' = IF app.mbuf = 0 THEN got ELSE [got EXCEPT ![s] = app.mbuf]
  /\ todo' = IF app.mbuf = 0 THEN todo \ {s} ELSE todo
  /\ app' = IF app.mbuf = 0 THEN At("next", None) ELSE At("clear", s)
  /\ UNCHANGED <<kernel, rxRing, ready, events, kicks, svc, cache, buffered, starved,
                 dropped, reordered>>

SendRxKick ==
  LET s == app.sock
      room == Len(kicks) < CmdRoom
  IN
  /\ app.pc = "kick" /\ buffered = None
  /\ kicks' = IF room THEN Append(kicks, s) ELSE kicks
  /\ starved' = (starved \/ ~room)
  /\ got' = IF app.mbuf = 0 THEN got ELSE [got EXCEPT ![s] = app.mbuf]
  /\ todo' = IF app.mbuf = 0 THEN todo \ {s} ELSE todo
  /\ app' = IF app.mbuf = 0 THEN At("next", None) ELSE At("clear", s)
  /\ UNCHANGED <<kernel, rxRing, ready, events, svc, cache, buffered, dropped, reordered>>

App ==
  SelectCheck \/ PselectBegins \/ PselectExpires \/ NextSocket
  \/ ClearReady \/ StoreDrains \/ MoveBurst \/ SendRxKick

Next == (\E s \in Socks : Arrive(s)) \/ Service \/ App

Spec == Init /\ [][Next]_vars

(* The service polls and never blocks; the application's caller loops      *)
(* around service_select, and a started pselect with a timeout ends.       *)

FairSpec == Spec /\ WF_vars(Service) /\ WF_vars(App)

----------------------------------------------------------------------------
AppPcs == {"select", "lastcheck", "towait", "wait", "next", "clear", "move", "kick"}
SvcPcs == {"loop", "free", "receive", "submit", "mark", "post", "lastmark", "lastpost"}

(* Every variable has its type; the rings and the cache never hold more    *)
(* than one entry less than their size, which is what rte_ring allows.     *)
TypeOK ==
  /\ arrived \in [Socks -> 0..MaxData] /\ taken \in [Socks -> 0..MaxData]
  /\ got \in [Socks -> 0..MaxData]
  /\ queued \in [Socks -> BOOLEAN] /\ ready \in [Socks -> BOOLEAN]
  /\ rxRing \in [Socks -> Seq(1..MaxData)] /\ cache \in [Socks -> Seq(1..MaxData)]
  /\ \A s \in Socks : Len(rxRing[s]) < RxRingSize /\ Len(cache[s]) < CacheSize
  /\ events \in Seq(Socks) /\ Len(events) < SelRingSize
  /\ kicks \in Seq(Socks) /\ Len(kicks) <= CmdRoom
  /\ svc \in [pc : SvcPcs, sock : Socks \cup {None}, free : 0..(RxRingSize - 1), more : BOOLEAN]
  /\ app \in [pc : AppPcs, sock : Socks \cup {None}, mbuf : 0..MaxData]
  /\ todo \subseteq Socks /\ buffered \in Socks \cup {None}
  /\ starved \in BOOLEAN /\ dropped \in BOOLEAN /\ reordered \in BOOLEAN

Undelivered(s) == rxRing[s] # << >> \/ cache[s] # << >>
Marking(s) == svc.sock = s /\ svc.pc \in {"mark", "post", "lastmark", "lastpost"}

(* An application that has drained a socket and watches its selector again *)
(* is not left with data it was never told of: whatever lies on the rx     *)
(* ring has its event on the selector's ring, or the service is about to   *)
(* post it (the clear of read_ready_to_app in service_dequeue_rx_buf       *)
(* against the test-and-set of service_mark_readable).                     *)
EventPosted ==
  \A s \in Socks :
    Undelivered(s) /\ s \notin todo => s \in Range(events) \/ Marking(s)

(* The same as long as no event met a full selector ring (then             *)
(* service_mark_readable ignores the failed enqueue and the flag stays     *)
(* set) and the cleared flag was visible each time the ring was counted.   *)
EventDelivered == ~dropped /\ ~reordered => EventPosted

(* "shoud not happen!!!": an rx ring that had ring_free places when        *)
(* user_data_available_cbk looked still has one for each buffer it submits,*)
(* although the application uses the ring at the same time.                *)
SubmitNeverFails == svc.more

InHand(s) == IF app.sock = s /\ app.mbuf # 0 THEN <<app.mbuf>> ELSE << >>
Submitting(s) == IF svc.sock = s /\ svc.pc = "submit" THEN <<taken[s]>> ELSE << >>

(* No buffer is lost, duplicated or overtaken between soreceive and the    *)
(* application: what is in service_dequeue_rx_buf's hands, in the cache, on *)
(* the ring and in the service's hands continues what was received; and    *)
(* all variables have their types.                                         *)
StreamIntact ==
  /\ TypeOK
  /\ \A s \in Socks :
       LET path == InHand(s) \o cache[s] \o rxRing[s] \o Submitting(s) IN
         /\ got[s] + Len(path) = taken[s]
         /\ \A i \in DOMAIN path : path[i] = got[s] + i

(* Data that waits in the socket because the rx ring was full is fetched   *)
(* later: the socket is on the read queue, an RX_KICK or an event is under *)
(* way, or the service or the application is at the socket right now.      *)
BacklogServed ==
  \A s \in Socks :
    taken[s] < arrived[s] /\ ~starved /\ ~dropped /\ ~reordered =>
      \/ queued[s] \/ s \in Range(kicks) \/ s \in Range(events)
      \/ svc.sock = s \/ s \in todo

(* Every buffer that arrives is received by an application that loops      *)
(* around service_select, unless an RX_KICK found no command buffer, an    *)
(* event met a full ring or the rx ring was counted too early.             *)
AllReceived ==
  \A s \in Socks : \A n \in 1..MaxData :
    arrived[s] >= n ~> (got[s] >= n \/ starved \/ dropped \/ reordered)

(* service_select with a NULL timeout blocks until an event arrives: it    *)
(* does not go on blocking while an event is on the selector's ring.       *)
SelectReturns == (app.pc = "wait" /\ events # << >>) ~> app.pc # "wait"
=============================================================================
