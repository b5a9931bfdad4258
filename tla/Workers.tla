------------------------------- MODULE Workers -------------------------------
(***************************************************************************)
(* The firmware's threads and what they share, whatever the handlers do:   *)
(* the USB callback feeds the dispatch worker and the manifest worker, and *)
(* every thread that has something to do may send any number of reports    *)
(* while it does it.  The host may stop reading at any time.               *)
(*                                                                         *)
(* HidViz says what the handlers do.  This module asks of the components   *)
(* what they promise once joined, for any handlers.                        *)
(***************************************************************************)
EXTENDS TxFunnel, CommandQueue, ManifestWorker

CONSTANT
  Queries   (* the commands that ask for the manifest, from any index       *)

ASSUME WorkersAssumption ==
  /\ {"sys", "cmd", "man"} \subseteq Threads
  /\ Queries \subseteq Commands

workersVars == <<txVars, queueVars, manifestVars>>

WorkersInit == TxInit /\ QueueInit /\ ManifestInit

(* raw_hid_received_event: the dispatcher's listener takes every report,    *)
(* the manifest's those that ask for it.                                    *)
Receive(c) ==
  /\ listener = "idle"
  /\ Put(c)
  /\ IF c \in Queries THEN \E i \in StartIndices : Request(i)
                      ELSE UNCHANGED manifestVars
  /\ UNCHANGED txVars

Signal == Give /\ UNCHANGED <<txVars, queueVars>>

AtWork(t) ==
  \/ t = "sys"
  \/ t = "cmd" /\ item # NoCommand
  \/ t = "man" /\ worker = "stream"

(* hid_viz_send() from a listener, a handler or the stream.                 *)
Call(t) ==
  /\ AtWork(t) /\ TxRuns(t)
  /\ Lock(t)
  /\ UNCHANGED <<queueVars, manifestVars>>

InSend(t) == TxStep(t) /\ UNCHANGED <<queueVars, manifestVars>>

(* A handler, or a turn of the manifest worker, ends with its sends.        *)
EndCommand == tx["cmd"] = "out" /\ Finish /\ UNCHANGED <<txVars, manifestVars>>
ManifestTurn == tx["man"] = "out" /\ WorkerStep /\ UNCHANGED <<txVars, queueVars>>

Reads == HostRead /\ UNCHANGED <<queueVars, manifestVars>>

WorkersNext ==
  \/ Reads \/ Signal \/ EndCommand \/ ManifestTurn
  \/ \E c \in Commands : Receive(c)
  \/ \E t \in Threads : Call(t) \/ InSend(t)

(* As in the components.  A handler and a stream send finitely many reports *)
(* and are then through, which is strong fairness here.                     *)
WorkersSpec ==
  /\ WorkersInit /\ [][WorkersNext]_workersVars
  /\ \A t \in Threads : WF_workersVars(InSend(t))
  /\ WF_workersVars(Signal)
  /\ SF_workersVars(EndCommand) /\ SF_workersVars(ManifestTurn)
=============================================================================
