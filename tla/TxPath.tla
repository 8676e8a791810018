------------------------------- MODULE TxPath -------------------------------
(***************************************************************************)
(* The transmit path of one socket: the application puts buffers on the    *)
(* tx ring and notifies the service with service_socket_kick; the service  *)
(* drains the ring in service_on_transmission_opportunity.                 *)
(*                                                                         *)
(* write_done_from_app keeps at most one TX_KICK command outstanding: the  *)
(* application sends a kick only when its test-and-set finds the flag      *)
(* clear, and the service clears the flag each time before it counts the   *)
(* ring.  The flag is cleared by a plain store and the ring is counted by  *)
(* a plain load of another location, so on x86 the store can stay in the   *)
(* store buffer until after the load; reordered remembers that it did.     *)
(* The two processes run in parallel; every access to shared memory is a   *)
(* step of its own.                                                        *)
(***************************************************************************)
EXTENDS Naturals, Sequences

CONSTANTS
  TxRingSize,    \* DATA_RINGS_SIZE: the tx ring holds one buffer less
  PoolSize,      \* COMMAND_POOL_SIZE: command buffers, and size of the command ring
  MaxSend        \* bound: number of buffers the application sends

ASSUME TxAssumption ==
  TxRingSize \in Nat \ {0} /\ PoolSize \in Nat \ {0} /\ MaxSend \in Nat

VARIABLES
  txRing,        \* the tx ring: buffers are numbered in the order they are sent
  sent,          \* number of the last buffer service_send accepted
  done,          \* write_done_from_app, as memory shows it
  buffered,      \* the service's store of 0 to done is still in its store buffer
  cmdFree,       \* buffers in free_command_pool
  cmdRing,       \* command_ring: kicks of this socket, and other commands
  app,           \* the application: idle, owes a kick, won the test-and-set
  svc,           \* the service: where it is in service_on_transmission_opportunity
  kicked,        \* ... and whether it got there by a TX_KICK command
  count,         \* ring_entries
  stack,         \* number of the last buffer handed to the stack
  starved,       \* history: a kick found no command buffer or a full ring
  reordered      \* history: the ring was counted before the store to done was visible

ring == <<txRing, sent>>
cmds == <<cmdFree, cmdRing>>
drain == <<svc, kicked, count, stack>>
vars == <<txRing, sent, done, buffered, cmdFree, cmdRing, app, drain, starved, reordered>>

Init ==
  /\ txRing = << >> /\ sent = 0
  /\ done = FALSE /\ buffered = FALSE
  /\ cmdFree = PoolSize /\ cmdRing = << >>
  /\ app = "idle"
  /\ svc = "loop" /\ kicked = FALSE /\ count = 0 /\ stack = 0
  /\ starved = FALSE /\ reordered = FALSE

----------------------------------------------------------------------------
(* service_send: with no room the buffer is refused and nothing changes.   *)

Send ==
  /\ app \in {"idle", "owes"} /\ sent < MaxSend
  /\ Len(txRing) < TxRingSize - 1
  /\ txRing' = Append(txRing, sent + 1)
  /\ sent' = sent + 1
  /\ app' = "owes"
  /\ UNCHANGED <<done, buffered, cmds, drain, starved, reordered>>

(* service_socket_kick: the test-and-set.  A set flag is return 0.         *)

KickTestSkipped ==
  /\ app = "owes"
  /\ app' = "idle"
  /\ done' = TRUE
  /\ UNCHANGED <<ring, buffered, cmds, drain, starved, reordered>>

KickTest ==
  /\ app = "owes"
  /\ app' = IF done THEN "idle" ELSE "won"
  /\ done' = TRUE
  /\ UNCHANGED <<ring, buffered, cmds, drain, starved, reordered>>

(* service_socket_kick: the command.  Without a buffer it returns -1 and   *)
(* the caller tries again; on a full ring it returns 0.  Neither clears    *)
(* the flag.                                                               *)

KickSend ==
  /\ app = "won"
  /\ \/ /\ cmdFree > 0 /\ Len(cmdRing) < PoolSize - 1
        /\ cmdRing' = Append(cmdRing, "kick")
        /\ cmdFree' = cmdFree - 1
        /\ app' = "idle"
        /\ UNCHANGED starved
     \/ /\ cmdFree = 0 \/ Len(cmdRing) >= PoolSize - 1
        /\ app' = IF cmdFree = 0 THEN "owes" ELSE "idle"
        /\ starved' = TRUE
        /\ UNCHANGED cmds
  /\ UNCHANGED <<ring, done, buffered, drain, reordered>>

(* Other processes: their commands, and buffers they hold off the ring.    *)

OtherCommand ==
  /\ cmdFree > 0 /\ Len(cmdRing) < PoolSize - 1
  /\ cmdRing' = Append(cmdRing, "other")
  /\ cmdFree' = cmdFree - 1
  /\ UNCHANGED <<ring, done, buffered, app, drain, starved, reordered>>

OtherHolds ==
  /\ cmdFree > 0
  /\ cmdFree' = cmdFree - 1
  /\ UNCHANGED <<ring, done, buffered, cmdRing, app, drain, starved, reordered>>

InUse == Len(cmdRing) + (IF kicked THEN 1 ELSE 0)

OtherReturns ==
  /\ cmdFree + InUse < PoolSize
  /\ cmdFree' = cmdFree + 1
  /\ UNCHANGED <<ring, done, buffered, cmdRing, app, drain, starved, reordered>>

----------------------------------------------------------------------------
(* process_commands *)

ProcessOther ==
  /\ svc = "loop" /\ cmdRing # << >> /\ Head(cmdRing) = "other"
  /\ cmdRing' = Tail(cmdRing)
  /\ cmdFree' = cmdFree + 1
  /\ UNCHANGED <<ring, done, buffered, app, drain, starved, reordered>>

ProcessKick ==
  /\ svc = "loop" /\ cmdRing # << >> /\ Head(cmdRing) = "kick"
  /\ cmdRing' = Tail(cmdRing)
  /\ svc' = "clear" /\ kicked' = TRUE
  /\ UNCHANGED <<ring, done, buffered, cmdFree, app, count, stack, starved, reordered>>

(* process_tx_ready_sockets: the stack reports room in the send buffer.    *)

TxReady ==
  /\ svc = "loop"
  /\ svc' = "clear"
  /\ UNCHANGED <<ring, done, buffered, cmds, app, kicked, count, stack, starved, reordered>>

(* service_tx_buf_count: store 0 to the flag (a store still waiting in the *)
(* buffer is for the same value) ...                                       *)

ClearForgotten ==
  /\ svc = "clear"
  /\ svc' = "count"
  /\ UNCHANGED <<ring, done, buffered, cmds, app, kicked, count, stack, starved, reordered>>

ClearDone ==
  /\ svc = "clear"
  /\ buffered' = TRUE
  /\ svc' = "count"
  /\ UNCHANGED <<ring, done, cmds, app, kicked, count, stack, starved, reordered>>

StoreDrains ==
  /\ buffered
  /\ buffered' = FALSE
  /\ done' = FALSE
  /\ UNCHANGED <<ring, cmds, app, drain, starved, reordered>>

(* ... and count the ring. *)

CountRing ==
  /\ svc = "count"
  /\ count' = Len(txRing)
  /\ reordered' = (reordered \/ buffered)
  /\ svc' = IF count' = 0 THEN "finish" ELSE "dequeue"
  /\ UNCHANGED <<ring, done, buffered, cmds, app, kicked, stack, starved>>

(* service_dequeue_tx_buf_burst of ring_entries buffers, and app_glue_send *)
(* of each in turn.                                                        *)

DequeueWholeRing ==
  /\ svc = "dequeue"
  /\ stack' = stack + count
  /\ txRing' = << >>
  /\ svc' = "clear"
  /\ UNCHANGED <<sent, done, buffered, cmds, app, kicked, count, starved, reordered>>

Dequeue ==
  /\ svc = "dequeue"
  /\ stack' = stack + count
  /\ txRing' = SubSeq(txRing, count + 1, Len(txRing))
  /\ svc' = "clear"
  /\ UNCHANGED <<sent, done, buffered, cmds, app, kicked, count, starved, reordered>>

(* Nothing to send: service_mark_writable, and the buffer of the kick goes *)
(* back to the pool (a locked instruction, so the store is out by then).   *)

Finish ==
  /\ svc = "finish" /\ (kicked => ~buffered)
  /\ cmdFree' = IF kicked THEN cmdFree + 1 ELSE cmdFree
  /\ svc' = "loop" /\ kicked' = FALSE
  /\ UNCHANGED <<ring, done, buffered, cmdRing, app, count, stack, starved, reordered>>

App == Send \/ KickTest \/ KickSend
Other == OtherCommand \/ OtherHolds \/ OtherReturns
Service == ProcessOther \/ ProcessKick \/ ClearDone \/ CountRing \/ Dequeue \/ Finish

Next == App \/ Other \/ Service \/ TxReady \/ StoreDrains

Spec == Init /\ [][Next]_vars

(* The service loops for ever, a store buffer drains, and an application   *)
(* that sent something goes on to kick.                                    *)
FairSpec ==
  Spec /\ WF_vars(Service) /\ WF_vars(StoreDrains) /\ WF_vars(KickTest) /\ WF_vars(KickSend)

----------------------------------------------------------------------------
(* Type invariant. *)
TypeOK ==
  /\ txRing \in Seq(Nat) /\ sent \in Nat
  /\ done \in BOOLEAN /\ buffered \in BOOLEAN
  /\ cmdFree \in Nat /\ cmdRing \in Seq({"kick", "other"})
  /\ app \in {"idle", "owes", "won"}
  /\ svc \in {"loop", "clear", "count", "dequeue", "finish"}
  /\ kicked \in BOOLEAN /\ count \in Nat /\ stack \in Nat
  /\ starved \in BOOLEAN /\ reordered \in BOOLEAN

KickOnRing == \E i \in DOMAIN cmdRing : cmdRing[i] = "kick"

(* Once service_socket_kick has returned 0, what was sent is not stuck: as *)
(* long as a buffer is on the tx ring there is a kick on the command ring, *)
(* or the service has yet to count the ring once more.                     *)
KickNotified ==
  txRing # << >> /\ app = "idle" => KickOnRing \/ svc \in {"clear", "count", "dequeue"}

(* service_socket_kick returns 0 only when the service is notified, even   *)
(* when it has to be called again because there was no command buffer.     *)
KickRetryNotifies == ~reordered => KickNotified

(* The service notices what was sent before the flag was cleared, whatever *)
(* the order in which its accesses to memory become visible.               *)
KickSurvivesReordering == ~starved => KickNotified

(* The kick is not lost as long as every kick found a command buffer and a *)
(* place on the command ring, and the cleared flag was visible each time   *)
(* the ring was counted.                                                   *)
KickDelivered == ~starved /\ ~reordered => KickNotified

(* A set flag is never stale: the kick it stands for is being sent, is on  *)
(* the command ring, or is about to be answered by clearing the flag.      *)
FlagMeansKick ==
  ~starved /\ done => app = "won" \/ KickOnRing \/ svc = "clear" \/ buffered

(* Buffers reach the stack in the order they were sent, none twice and     *)
(* none skipped, although the ring grows between the count and the         *)
(* dequeue.                                                                *)
InOrder ==
  /\ stack + Len(txRing) = sent
  /\ \A i \in DOMAIN txRing : txRing[i] = stack + i

(* Every buffer service_send accepted is handed to the stack, unless a     *)
(* kick was refused or the ring counted too early.                         *)
AllSent == \A n \in 1 .. MaxSend : sent >= n ~> (stack >= n \/ starved \/ reordered)
=============================================================================
