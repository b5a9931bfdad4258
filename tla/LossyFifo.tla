----------------------------- MODULE LossyFifo ------------------------------
(***************************************************************************)
(* What the inbound dispatcher promises the host (command_dispatch.c): the *)
(* commands it accepts are handled one at a time, in the order they came,  *)
(* each exactly once; it refuses a command only while Capacity of them are *)
(* already behind the one being handled.                                   *)
(*                                                                         *)
(* There is no queue here: accepted is everything ever accepted, served    *)
(* counts how much of it has been handled.                                 *)
(***************************************************************************)
EXTENDS Naturals, Sequences

CONSTANTS
  Commands,    (* what the host may send                                    *)
  NoCommand,   (* nothing is being handled                                  *)
  Capacity     (* commands kept behind the one being handled                *)

VARIABLES
  accepted,    (* the commands accepted, oldest first                       *)
  served,      (* how many of them have been handled                        *)
  current,     (* the command being handled                                 *)
  refused      (* how many commands were refused                            *)

fifoVars == <<accepted, served, current, refused>>

(* The command to handle when the first n of the log are done with.         *)
Due(log, n) == IF n < Len(log) THEN log[n + 1] ELSE NoCommand

FifoInit == accepted = <<>> /\ served = 0 /\ current = NoCommand /\ refused = 0

Accept(c) ==
  /\ Len(accepted) - served <= Capacity
  /\ accepted' = Append(accepted, c)
  /\ current' = Due(accepted', served)
  /\ UNCHANGED <<served, refused>>

Refuse ==
  /\ Len(accepted) - served > Capacity
  /\ refused' = refused + 1
  /\ UNCHANGED <<accepted, served, current>>

Serve ==
  /\ served < Len(accepted)
  /\ served' = served + 1
  /\ current' = Due(accepted, served')
  /\ UNCHANGED <<accepted, refused>>

FifoNext == Refuse \/ Serve \/ \E c \in Commands : Accept(c)

FifoSpec == FifoInit /\ [][FifoNext]_fifoVars /\ WF_fifoVars(Serve)
=============================================================================
