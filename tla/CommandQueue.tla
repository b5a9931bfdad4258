---------------------------- MODULE CommandQueue ----------------------------
(***************************************************************************)
(* The shared inbound-command dispatcher (src/command_dispatch.c): the     *)
(* listener on raw_hid_received_event, which runs in the USB SetReport     *)
(* callback and must not block, the bounded queue cmd_msgq, and the worker *)
(* thread that takes commands from it and handles each to completion.      *)
(*                                                                         *)
(* What a handler does is the business of the module that composes this    *)
(* one; here a command is in hand (item) until Finish.                     *)
(***************************************************************************)
EXTENDS Naturals, Sequences

CONSTANTS
  Commands,    (* the commands the host may send                            *)
  NoCommand,   (* the worker is blocked in k_msgq_get                       *)
  Depth,       (* CMD_QUEUE_DEPTH; 8 in the code                            *)
  MaxArrivals  (* bound: how many commands arrive in a behaviour            *)

ASSUME QueueAssumption ==
  /\ NoCommand \notin Commands
  /\ Depth \in Nat \ {0}
  /\ MaxArrivals \in Nat

VARIABLES
  cmd_msgq,    (* the queue, oldest first                                   *)
  item,        (* the command the worker is handling, or NoCommand          *)
  accepted,    (* history: every command the listener did not drop          *)
  served,      (* history: how many commands have been handled              *)
  refused      (* history: how many commands the listener dropped           *)

queueVars == <<cmd_msgq, item, accepted, served, refused>>

QueueInit ==
  /\ cmd_msgq = <<>>
  /\ item = NoCommand
  /\ accepted = <<>>
  /\ served = 0
  /\ refused = 0

(***************************************************************************)
(* inbound_dispatch_listener(): copy the report and k_msgq_put it with     *)
(* K_NO_WAIT.  A message put while the worker sleeps in k_msgq_get goes    *)
(* straight to it (Zephyr's k_msgq), else it is queued, else dropped.      *)
(***************************************************************************)
PutToWorker(c) ==
  /\ item = NoCommand
  /\ item' = c
  /\ accepted' = Append(accepted, c)
  /\ UNCHANGED <<cmd_msgq, refused>>

(* Slips: the newest first, a queue one short.                              *)
PutFirst(c) ==
  /\ item # NoCommand
  /\ Len(cmd_msgq) < Depth
  /\ cmd_msgq' = <<c>> \o cmd_msgq
  /\ accepted' = Append(accepted, c)
  /\ UNCHANGED <<item, refused>>

DropEarly ==
  /\ item # NoCommand
  /\ Len(cmd_msgq) >= Depth - 1
  /\ refused' = refused + 1
  /\ UNCHANGED <<cmd_msgq, item, accepted>>

PutInQueue(c) ==
  /\ item # NoCommand
  /\ Len(cmd_msgq) < Depth
  /\ cmd_msgq' = Append(cmd_msgq, c)
  /\ accepted' = Append(accepted, c)
  /\ UNCHANGED <<item, refused>>

Drop ==
  /\ item # NoCommand
  /\ Len(cmd_msgq) >= Depth
  /\ refused' = refused + 1
  /\ UNCHANGED <<cmd_msgq, item, accepted>>

Put(c) ==
  /\ Len(accepted) + refused < MaxArrivals
  /\ PutToWorker(c) \/ PutInQueue(c) \/ Drop
  /\ UNCHANGED served

(* The raise of raw_hid_command_event has returned; the worker loops back   *)
(* to k_msgq_get and takes the oldest command or goes to sleep.             *)
Finish ==
  /\ item # NoCommand
  /\ served' = served + 1
  /\ IF cmd_msgq = <<>>
       THEN item' = NoCommand /\ UNCHANGED cmd_msgq
       ELSE item' = Head(cmd_msgq) /\ cmd_msgq' = Tail(cmd_msgq)
  /\ UNCHANGED <<accepted, refused>>

QueueNext == Finish \/ \E c \in Commands : Put(c)

(* Every handler returns: a send inside it ends after 30 ms at the latest   *)
(* (TxFunnel).  The host need not send anything.                            *)
QueueSpec == QueueInit /\ [][QueueNext]_queueVars /\ WF_queueVars(Finish)

-----------------------------------------------------------------------------
(* Every variable has its type.                                             *)
QueueTypeOK ==
  /\ cmd_msgq \in Seq(Commands) /\ Len(cmd_msgq) <= Depth
  /\ item \in Commands \cup {NoCommand}
  /\ accepted \in Seq(Commands)
  /\ served \in Nat
  /\ refused \in Nat

(* Nothing the listener accepted is lost, doubled or overtaken: what has    *)
(* not been handled is, in order, the command in hand and then the queue.   *)
NothingLost ==
  IF item = NoCommand
    THEN cmd_msgq = <<>> /\ Len(accepted) = served
    ELSE /\ Len(accepted) = served + 1 + Len(cmd_msgq)
         /\ accepted[served + 1] = item
         /\ \A k \in 1..Len(cmd_msgq) : accepted[served + 1 + k] = cmd_msgq[k]

Fifo == INSTANCE LossyFifo WITH Capacity <- Depth, current <- item

(* The dispatcher implements the lossy FIFO: its steps are steps of that    *)
(* specification, and it keeps that specification's fairness.               *)
ImplementsLossyFifo == Fifo!FifoSpec
=============================================================================
