------------------------------- MODULE HidViz -------------------------------
(***************************************************************************)
(* The firmware as a whole: the three contexts that send reports, the USB  *)
(* callback that feeds two of them, and the state they share.              *)
(*                                                                         *)
(*   "sys"  ZMK's behaviour and core-event context: layer and key events   *)
(*          (notifier.c), emit and signal behaviours;                      *)
(*   "cmd"  the dispatch worker, which runs every command handler          *)
(*          (command_dispatch.c, command_handler.c, layer_actions.c);      *)
(*   "man"  the manifest worker (manifest.c), the least urgent.            *)
(*                                                                         *)
(* Shared: the mute flag hid_viz_suppress_notifications, the static buffer *)
(* layer_buf, ZMK's set of active layers and the transmit funnel.  The     *)
(* funnel, the command queue and the manifest worker are components; an    *)
(* action here conjoins a component's step with what the thread does.      *)
(***************************************************************************)
EXTENDS Naturals, Sequences, FiniteSets

CONSTANTS
  LayerBits,     (* MAX_LAYER_CHECK: the layers 0..LayerBits-1 are reported *)
  KeymapLayers,  (* the layers the keymap has                               *)
  Positions,     (* key positions; above MaxPosition they are not reported  *)
  MaxPosition,   (* UINT8_MAX                                               *)
  LayerKeys,     (* what a key may do to the layers: [layer, on] records    *)
  Bindings,      (* the emit and signal behaviours that keys are bound to   *)
  MaxJobs,       (* bound: key and layer events in a behaviour              *)
  Commands, NoCommand, Depth, MaxArrivals,   (* see CommandQueue            *)
  LastEntry, StartIndices,                   (* see ManifestWorker          *)
  NoThread, WaitCap,                         (* see TxFunnel                *)
  HostMayStall   (* may the host leave a report unread for 30 ms?           *)

Threads == {"sys", "cmd", "man"}

(* K_LOWEST_APPLICATION_THREAD_PRIO for the manifest worker, one above it   *)
(* for the dispatch worker, and ZMK's own context above both.               *)
Prio == [t \in Threads |-> IF t = "sys" THEN 2 ELSE IF t = "cmd" THEN 1 ELSE 0]

(* A device info query, say: an inbound command.  GET_MANIFEST goes through *)
(* the queue like the others, where no handler takes it.                    *)
CommandTypes == {"SET_LAYER", "LAYER_SET_BASE", "LAYER_ACTIVATE",
  "LAYER_DEACTIVATE", "GET_DEVICE_INFO", "GET_CONFIG_ID", "GET_MANIFEST",
  "IGNORED"}

ASSUME HidVizAssumption ==
  /\ LayerBits \in Nat \ {0}
  /\ KeymapLayers \subseteq Nat /\ 0 \in KeymapLayers
  /\ \A c \in Commands : c.type \in CommandTypes
  /\ NoCommand \notin Commands /\ NoThread \notin Threads
  /\ HostMayStall \in BOOLEAN
  /\ MaxJobs \in Nat

(* What the components assume of their constants.                           *)
ASSUME ComponentAssumption ==
  /\ WaitCap \in Nat
  /\ Depth \in Nat \ {0} /\ MaxArrivals \in Nat
  /\ LastEntry \in Nat
  /\ StartIndices \subseteq Nat /\ 0 \in StartIndices

(* What the host and the keys send is made of numbers.                      *)
ASSUME ReportAssumption ==
  /\ MaxPosition \in Nat /\ Positions \subseteq Nat
  /\ \A c \in Commands :
       /\ c.type \in {"LAYER_ACTIVATE", "LAYER_DEACTIVATE"} => c.ref \in Nat
       /\ c.type = "GET_MANIFEST" => c.start \in StartIndices
  /\ \A b \in Bindings :
       /\ b.behaviour = "emit" => b.param1 \in Nat /\ b.param2 \in Nat
       /\ b.behaviour = "emit_fixed" => b.action \in Nat /\ b.value \in Nat
       /\ b.behaviour = "signal" => b.param1 \in Nat
       /\ b.behaviour = "signal_fixed" => b.id \in Nat

VARIABLES
  pc,        (* where each thread stands                                    *)
  back,      (* where it goes on after the notification or send it is in    *)
  arg,       (* the report it passed to hid_viz_send()                      *)
  bit,       (* the layer send_layer_state() looks at next, per thread      *)
  scan,      (* the layers it has found active, per thread                  *)
  loop,      (* the loop counter of the command handler                     *)
  ret,       (* what the command handler got from zmk_keymap                *)
  active,    (* ZMK's active layers                                         *)
  layer_buf, (* the static buffer of send_layer_state()                     *)
  wire,      (* history: the reports written to the endpoint                *)
  jobs,      (* history: key and layer events so far                        *)
  fired,     (* history: the reports key events and behaviours called for   *)
  disturbed, (* history: a layer report was muted away, mixed up or lost    *)
  tx, owner, busy, waited,                          (* TxFunnel             *)
  cmd_msgq, item, accepted, served, refused,        (* CommandQueue         *)
  manifest_start_idx, manifest_sem, listener, worker, cursor, suppress,
  requests, streams, begun                          (* ManifestWorker       *)

Tx == INSTANCE TxFunnel
Queue == INSTANCE CommandQueue
Manifest == INSTANCE ManifestWorker WITH MaxRequests <- MaxArrivals

flow == <<pc, back>>
report == <<bit, scan, layer_buf>>
handler == <<loop, ret>>
events == <<jobs, fired>>
txVars == <<tx, owner, busy, waited>>
queueVars == <<cmd_msgq, item, accepted, served, refused>>
manVars == <<manifest_start_idx, manifest_sem, listener, worker, cursor,
             requests, streams, begun>>
vars == <<flow, arg, report, handler, active, wire, events, disturbed,
          txVars, queueVars, manVars, suppress>>

(* What a report consists of.  A pointer to a static buffer is read when    *)
(* the transport copies the report, so layer_buf is passed by name.         *)
Blank == [type |-> "NONE", mask |-> {}]
LayerBuf == [type |-> "layer_buf"]
Contents(r) == IF r = LayerBuf THEN layer_buf ELSE r
Confirm(c, ok) == [type |-> "CONFIRM", ref |-> c.ref, ok |-> ok]

Init ==
  /\ pc = [t \in Threads |-> IF t = "sys" THEN "idle"
                             ELSE IF t = "cmd" THEN "handle" ELSE "run"]
  /\ back = pc
  /\ arg = [t \in Threads |-> Blank]
  /\ bit = [t \in Threads |-> 0]
  /\ scan = [t \in Threads |-> {}]
  /\ loop = 0 /\ ret = FALSE
  /\ active = {0}
  /\ layer_buf = Blank
  /\ wire = <<>>
  /\ jobs = 0 /\ fired = <<>>
  /\ disturbed = FALSE
  /\ Tx!TxInit /\ Queue!QueueInit /\ Manifest!ManifestInit

-----------------------------------------------------------------------------
(***************************************************************************)
(* Scheduling.  A thread takes a step only while no more urgent one can.   *)
(***************************************************************************)
HasWork(t) ==
  \/ t = "sys" /\ pc[t] # "idle"
  \/ t = "cmd" /\ item # NoCommand
  \/ t = "man" /\ worker # "asleep"

Ready(t) == HasWork(t) /\ tx[t] # "waiting" /\ ~Tx!Stalled(t)

Runs(t) == Ready(t) /\ \A u \in Threads : Ready(u) => ~Tx!Outranks(u, t)

At(t, label) == pc[t] = label /\ Runs(t)
Goto(t, label) == pc' = [pc EXCEPT ![t] = label] /\ UNCHANGED back
Call(t, label, k) ==
  pc' = [pc EXCEPT ![t] = label] /\ back' = [back EXCEPT ![t] = k]

-----------------------------------------------------------------------------
(***************************************************************************)
(* ZMK's keymap (external): zmk_keymap_layer_activate/deactivate by thread *)
(* t, which goes on at k.  Layer 0 stays active; a layer the keymap does   *)
(* not have is refused; only a real change raises zmk_layer_state_changed, *)
(* whose listener runs at once, in t's context.                            *)
(***************************************************************************)
KeymapOp(t, l, on, k) ==
  /\ active' = IF l \notin KeymapLayers \/ (l = 0 /\ ~on) THEN active
               ELSE IF on THEN active \cup {l} ELSE active \ {l}
  /\ Call(t, IF active' = active THEN k ELSE "notify", k)

(* At label l, to go on at k, a thread is in the loops of a 0xFC, or in a   *)
(* layer listener they called.                                              *)
InLoops(l, k) ==
  l \in {"clear", "fill"} \/ (l = "notify" /\ k \in {"clear", "fill"})

(* The dispatch worker is between 0xFC's mute and its unmute.               *)
SettingLayers == InLoops(pc["cmd"], back["cmd"])

Composing == {"scan", "zero", "header", "mask"}
Resumable == {"idle", "handle", "run", "clear", "fill", "base", "confirm", "finish"}
Labels == Resumable \cup Composing \cup {"notify", "send"}

(* Thread t has begun a layer report that is not on the wire yet.           *)
Reporting(t) ==
  \/ pc[t] \in Composing
  \/ pc[t] = "send" /\ arg[t] = LayerBuf /\ tx[t] \in {"out", "waiting", "sending"}

(* hid_viz_send(r) called by t, which goes on at k.                         *)
Send(t, r, k) == Call(t, "send", k) /\ arg' = [arg EXCEPT ![t] = r]

(* send_layer_state() called by t, which goes on at k.                      *)
ReportLayers(t, k) ==
  /\ Call(t, "scan", k)
  /\ disturbed' = (disturbed \/ \E u \in Threads \ {t} : Reporting(u))

(* layer_state_changed_listener()                                           *)
Notify(t) ==
  /\ At(t, "notify")
  /\ \/ /\ ~suppress
        /\ ReportLayers(t, back[t])
     \/ /\ suppress
        /\ Goto(t, back[t])
        /\ disturbed' = (disturbed \/ ~SettingLayers)
  /\ UNCHANGED <<arg, report, handler, active, wire, events, txVars, queueVars,
                 manVars, suppress>>

(* send_layer_state(): a scan, one layer at a time, into a local; then the  *)
(* static buffer is cleared and filled.  No lock is held.                   *)
ScanLayer(t) ==
  /\ At(t, "scan")
  /\ IF bit[t] < LayerBits
       THEN /\ bit' = [bit EXCEPT ![t] = @ + 1]
            /\ scan' = [scan EXCEPT ![t] = @ \cup ({bit[t]} \cap active)]
            /\ UNCHANGED flow
       ELSE Goto(t, "zero") /\ UNCHANGED <<bit, scan>>
  /\ UNCHANGED <<arg, layer_buf, handler, active, wire, events, disturbed,
                 txVars, queueVars, manVars, suppress>>

ZeroBuffer(t) ==
  /\ At(t, "zero")
  /\ layer_buf' = Blank
  /\ Goto(t, "header")
  /\ UNCHANGED <<arg, bit, scan, handler, active, wire, events, disturbed,
                 txVars, queueVars, manVars, suppress>>

WriteHeader(t) ==
  /\ At(t, "header")
  /\ layer_buf' = [layer_buf EXCEPT !.type = "LAYER_STATE"]
  /\ Goto(t, "mask")
  /\ UNCHANGED <<arg, bit, scan, handler, active, wire, events, disturbed,
                 txVars, queueVars, manVars, suppress>>

(* The locals bit and scan are dead from here on.                           *)
WriteMask(t) ==
  /\ At(t, "mask")
  /\ layer_buf' = [layer_buf EXCEPT !.mask = scan[t]]
  /\ bit' = [bit EXCEPT ![t] = 0]
  /\ scan' = [scan EXCEPT ![t] = {}]
  /\ Send(t, LayerBuf, back[t])
  /\ UNCHANGED <<handler, active, wire, events, disturbed, txVars, queueVars,
                 manVars, suppress>>

-----------------------------------------------------------------------------
(***************************************************************************)
(* hid_viz_send(), on the funnel's mutex and the transport.                *)
(***************************************************************************)
(* Slip: a sender that raises raw_hid_sent_event itself, without the mutex. *)
RaiseDirectly(t) ==
  /\ At(t, "send")
  /\ tx[t] = "out"
  /\ tx' = [tx EXCEPT ![t] = "sending"]
  /\ UNCHANGED <<owner, busy, waited, flow, arg, report, handler, active, wire, events,
                 disturbed, queueVars, manVars, suppress>>

EnterFunnel(t) ==
  /\ At(t, "send")
  /\ Tx!Lock(t)
  /\ UNCHANGED <<flow, arg, report, handler, active, wire, events, disturbed,
                 queueVars, manVars, suppress>>

(* The transport copies the report now, whatever the buffer holds by then.  *)
Transmit(t) ==
  /\ At(t, "send")
  /\ Tx!Write(t)
  /\ wire' = Append(wire, Contents(arg[t]))
  /\ UNCHANGED <<flow, arg, report, handler, active, events, disturbed,
                 queueVars, manVars, suppress>>

TimeOut(t) ==
  /\ HostMayStall
  /\ Tx!GiveUp(t)
  /\ disturbed' = (disturbed \/ arg[t] = LayerBuf)
  /\ UNCHANGED <<flow, arg, report, handler, active, wire, events,
                 queueVars, manVars, suppress>>

LeaveFunnel(t) ==
  /\ At(t, "send")
  /\ Tx!Unlock(t)
  /\ Goto(t, back[t])
  /\ arg' = [arg EXCEPT ![t] = Blank]
  /\ UNCHANGED <<report, handler, active, wire, events, disturbed,
                 queueVars, manVars, suppress>>

HostReads ==
  /\ Tx!HostRead
  /\ UNCHANGED <<flow, arg, report, handler, active, wire, events, disturbed,
                 queueVars, manVars, suppress>>

-----------------------------------------------------------------------------
(***************************************************************************)
(* ZMK's own context: an event arrives while it is idle.                   *)
(***************************************************************************)
Event == pc["sys"] = "idle" /\ jobs < MaxJobs /\ jobs' = jobs + 1

(* A behaviour changes a layer; its event reaches the layer listener.       *)
LayerKey(key) ==
  /\ Event
  /\ KeymapOp("sys", key.layer, key.on, "idle")
  /\ UNCHANGED <<arg, report, handler, wire, fired, disturbed, txVars, queueVars,
                 manVars, suppress>>

(* Slip: key events and triggers that heed the mute.                        *)
FireUnlessMuted(r) ==
  /\ fired' = Append(fired, r)
  /\ IF suppress THEN UNCHANGED <<flow, arg>> ELSE Send("sys", r, "idle")

(* Key events, emits and signals go out ungated.                            *)
Fire(r) == fired' = Append(fired, r) /\ Send("sys", r, "idle")

(* position_state_changed_listener() and send_key_event(): a position that  *)
(* does not fit the packet is not reported.                                 *)
KeyEvent(p) ==
  /\ Event
  /\ IF p > MaxPosition
       THEN UNCHANGED <<flow, arg, fired>>
       ELSE Fire([type |-> "KEY_EVENT", position |-> p])
  /\ UNCHANGED <<report, handler, active, wire, disturbed, txVars, queueVars,
                 manVars, suppress>>

(* (uint8_t)                                                                *)
Byte(n) == n % (MaxPosition + 1)

(* hid_viz_emit_send() and hid_viz_send_signal()                            *)
EmitSend(action, value) == Fire([type |-> "EMIT", action |-> action, value |-> value])
SendSignal(id) == Fire([type |-> "SIGNAL", id |-> id])

(* The four behaviours: &hid_viz_emit with two parameters, &signal with     *)
(* one, and their siblings with the values on the devicetree node.          *)
PressEmit(b) == b.behaviour = "emit" /\ EmitSend(Byte(b.param1), b.param2)
PressEmitFixed(b) == b.behaviour = "emit_fixed" /\ EmitSend(b.action, b.value)
PressSignal(b) == b.behaviour = "signal" /\ SendSignal(Byte(b.param1))
PressSignalFixed(b) == b.behaviour = "signal_fixed" /\ SendSignal(Byte(b.id))

(* A key bound to one of them is pressed; its release does nothing.         *)
Originate(b) ==
  /\ Event
  /\ PressEmit(b) \/ PressEmitFixed(b) \/ PressSignal(b) \/ PressSignalFixed(b)
  /\ UNCHANGED <<report, handler, active, wire, disturbed, txVars, queueVars,
                 manVars, suppress>>

-----------------------------------------------------------------------------
(***************************************************************************)
(* The dispatch worker: the handlers of the command in hand.               *)
(***************************************************************************)
Handle(type) == At("cmd", "handle") /\ item.type = type

Reply(command, response) ==
  /\ Handle(command)
  /\ Send("cmd", [type |-> response], "finish")
  /\ UNCHANGED <<report, handler, active, wire, events, disturbed, txVars,
                 queueVars, manVars, suppress>>

(* Slip: no mute.                                                           *)
SetLayersLoud ==
  /\ Handle("SET_LAYER")
  /\ loop' = 1
  /\ Goto("cmd", "clear")
  /\ UNCHANGED <<arg, report, ret, active, wire, events, disturbed, txVars,
                 queueVars, manVars, suppress>>

(* 0xFC: mute, deactivate every other layer, activate those of the mask,    *)
(* unmute, and send one final report.                                       *)
SetLayers ==
  /\ Handle("SET_LAYER")
  /\ suppress' = TRUE
  /\ loop' = 1
  /\ Goto("cmd", "clear")
  /\ UNCHANGED <<arg, report, ret, active, wire, events, disturbed, txVars,
                 queueVars, manVars>>

ClearLayer ==
  /\ At("cmd", "clear")
  /\ IF loop < LayerBits
       THEN /\ loop' = loop + 1
            /\ IF loop \in active THEN KeymapOp("cmd", loop, FALSE, "clear")
                                 ELSE UNCHANGED <<active, flow>>
       ELSE loop' = 1 /\ Goto("cmd", "fill") /\ UNCHANGED active
  /\ UNCHANGED <<arg, report, ret, wire, events, disturbed, txVars, queueVars,
                 manVars, suppress>>

FillLayer ==
  /\ At("cmd", "fill")
  /\ loop < LayerBits
  /\ loop' = loop + 1
  /\ IF loop \in item.mask THEN KeymapOp("cmd", loop, TRUE, "fill")
                          ELSE UNCHANGED <<active, flow>>
  /\ UNCHANGED <<arg, report, ret, wire, events, disturbed, txVars, queueVars,
                 manVars, suppress>>

(* Slips: no unmute, and no final report.                                   *)
ReportStillMuted ==
  /\ At("cmd", "fill")
  /\ loop >= LayerBits
  /\ ReportLayers("cmd", "finish")
  /\ UNCHANGED <<arg, report, handler, active, wire, events, txVars, queueVars,
                 manVars, suppress>>

EndSetLayersSilently ==
  /\ At("cmd", "fill")
  /\ loop >= LayerBits
  /\ suppress' = FALSE
  /\ Goto("cmd", "finish")
  /\ UNCHANGED <<arg, report, handler, active, wire, events, disturbed, txVars,
                 queueVars, manVars>>

ReportSetLayers ==
  /\ At("cmd", "fill")
  /\ loop >= LayerBits
  /\ suppress' = FALSE
  /\ ReportLayers("cmd", "finish")
  /\ UNCHANGED <<arg, report, handler, active, wire, events, txVars, queueVars,
                 manVars>>

(* 0xF4: zmk_keymap_layer_to (external) deactivates the other layers, save  *)
(* those held by a key, and activates the target; each change notifies.     *)
SetBase ==
  /\ Handle("LAYER_SET_BASE")
  /\ loop' = LayerBits - 1
  /\ Goto("cmd", "base")
  /\ UNCHANGED <<arg, report, ret, active, wire, events, disturbed, txVars,
                 queueVars, manVars, suppress>>

LeaveLayer ==
  /\ At("cmd", "base")
  /\ loop > 0
  /\ loop' = loop - 1
  /\ \/ KeymapOp("cmd", loop, FALSE, "base")
     \/ UNCHANGED <<active, flow>>
  /\ UNCHANGED <<arg, report, ret, wire, events, disturbed, txVars, queueVars,
                 manVars, suppress>>

EnterLayer ==
  /\ At("cmd", "base")
  /\ loop = 0
  /\ KeymapOp("cmd", item.layer, TRUE, "finish")
  /\ UNCHANGED <<arg, report, handler, wire, events, disturbed, txVars, queueVars,
                 manVars, suppress>>

(* Slip: a confirm that does not look at ZMK's answer.                      *)
NudgeBlindly(type, on) ==
  /\ Handle(type)
  /\ ret' = TRUE
  /\ KeymapOp("cmd", item.layer, on, "confirm")
  /\ UNCHANGED <<arg, report, loop, wire, events, disturbed, txVars, queueVars,
                 manVars, suppress>>

(* 0xF3 and 0xF2: one keymap operation, then the confirm, which echoes the  *)
(* host's ref and says whether ZMK took the layer.                          *)
Nudge(type, on) ==
  /\ Handle(type)
  /\ ret' = (item.layer \in KeymapLayers)
  /\ KeymapOp("cmd", item.layer, on, "confirm")
  /\ UNCHANGED <<arg, report, loop, wire, events, disturbed, txVars, queueVars,
                 manVars, suppress>>

SendConfirm ==
  /\ At("cmd", "confirm")
  /\ Send("cmd", Confirm(item, ret), "finish")
  /\ UNCHANGED <<report, handler, active, wire, events, disturbed, txVars,
                 queueVars, manVars, suppress>>

(* 0xF9, unknown or too short: no handler of the worker takes it.           *)
Ignore ==
  /\ Handle("IGNORED") \/ Handle("GET_MANIFEST")
  /\ Goto("cmd", "finish")
  /\ UNCHANGED <<arg, report, handler, active, wire, events, disturbed, txVars,
                 queueVars, manVars, suppress>>

FinishCommand ==
  /\ At("cmd", "finish")
  /\ Queue!Finish
  /\ Goto("cmd", "handle")
  /\ UNCHANGED <<arg, report, handler, active, wire, events, disturbed, txVars,
                 manVars, suppress>>

-----------------------------------------------------------------------------
(***************************************************************************)
(* The manifest worker.  An entry is one report here; for the history, it  *)
(* is told which stream it belongs to.                                     *)
(***************************************************************************)
StreamStep ==
  /\ At("man", "run")
  /\ \/ /\ Manifest!ReadStart \/ Manifest!Mute \/ Manifest!EndStream \/ Manifest!Unmute
        /\ UNCHANGED <<flow, arg>>
     \/ /\ Manifest!NextEntry
        /\ Send("man", [type |-> "MANIFEST_ENTRY", stream |-> streams,
                        seq |-> cursor], "run")
  /\ UNCHANGED <<report, handler, active, wire, events, disturbed, txVars, queueVars>>

(***************************************************************************)
(* The USB SetReport callback: both listeners on raw_hid_received_event.   *)
(***************************************************************************)
Receive(c) ==
  /\ listener = "idle"
  /\ Queue!Put(c)
  /\ IF c.type = "GET_MANIFEST" THEN Manifest!Request(c.start)
                               ELSE UNCHANGED <<manVars, suppress>>
  /\ UNCHANGED <<flow, arg, report, handler, active, wire, events, disturbed, txVars>>

SignalWorker ==
  /\ Manifest!Give
  /\ UNCHANGED <<flow, arg, report, handler, active, wire, events, disturbed,
                 txVars, queueVars>>

-----------------------------------------------------------------------------
Sending(t) ==
  \/ Notify(t) \/ ScanLayer(t) \/ ZeroBuffer(t) \/ WriteHeader(t) \/ WriteMask(t)
  \/ EnterFunnel(t) \/ Transmit(t) \/ LeaveFunnel(t) \/ TimeOut(t)

Dispatching ==
  \/ Reply("GET_DEVICE_INFO", "DEVICE_INFO") \/ Reply("GET_CONFIG_ID", "CONFIG_ID")
  \/ SetLayers \/ ClearLayer \/ FillLayer \/ ReportSetLayers
  \/ SetBase \/ LeaveLayer \/ EnterLayer
  \/ Nudge("LAYER_ACTIVATE", TRUE) \/ Nudge("LAYER_DEACTIVATE", FALSE) \/ SendConfirm
  \/ Ignore \/ FinishCommand

Environment ==
  \/ HostReads
  \/ \E c \in Commands : Receive(c)
  \/ \E key \in LayerKeys : LayerKey(key)
  \/ \E p \in Positions : KeyEvent(p)
  \/ \E b \in Bindings : Originate(b)

Next ==
  \/ Environment \/ SignalWorker
  \/ \E t \in Threads : Sending(t)
  \/ Dispatching \/ StreamStep

(* The scheduler runs every ready thread once the more urgent ones sleep; a *)
(* timer ends every wait for the endpoint; the callback finishes.  A host   *)
(* that may stall need never read; one that may not reads every report.     *)
Fairness ==
  /\ WF_vars(Sending("sys"))
  /\ WF_vars(Sending("cmd") \/ Dispatching)
  /\ WF_vars(Sending("man") \/ StreamStep)
  /\ WF_vars(SignalWorker)
  /\ WF_vars(~HostMayStall /\ HostReads)

Spec == Init /\ [][Next]_vars /\ Fairness

-----------------------------------------------------------------------------
(***************************************************************************)
(* Properties.                                                             *)
(***************************************************************************)
Quiescent == listener = "idle" /\ \A t \in Threads : ~HasWork(t)

(* What the contexts send: layer reports, key events and triggers from      *)
(* ZMK's, the answers of the command handlers, entries of a manifest.       *)
LayerReports == [type : {"NONE", "LAYER_STATE"}, mask : SUBSET (0..LayerBits - 1)]
OwnReports == [type : {"KEY_EVENT"}, position : Positions]
                \cup [type : {"EMIT"}, action : Nat, value : Nat]
                \cup [type : {"SIGNAL"}, id : Nat]
Answers == [type : {"DEVICE_INFO", "CONFIG_ID"}]
             \cup [type : {"CONFIRM"}, ref : Nat, ok : BOOLEAN]
Entries == [type : {"MANIFEST_ENTRY"}, stream : Nat, seq : Nat]
Reports == LayerReports \cup OwnReports \cup Answers \cup Entries

(* Every variable of this module has its type; the components' variables    *)
(* have the types the components give them.                                 *)
TypeOK ==
  /\ pc \in [Threads -> Labels] /\ back \in [Threads -> Resumable]
  /\ arg \in [Threads -> Reports \cup {LayerBuf}]
  /\ bit \in [Threads -> 0..LayerBits]
  /\ scan \in [Threads -> SUBSET (0..LayerBits - 1)]
  /\ loop \in 0..LayerBits
  /\ ret \in BOOLEAN
  /\ active \subseteq KeymapLayers
  /\ layer_buf \in LayerReports
  /\ wire \in Seq(Reports) /\ fired \in Seq(OwnReports)
  /\ jobs \in 0..MaxJobs
  /\ disturbed \in BOOLEAN
  /\ Tx!TxTypeOK /\ Queue!QueueTypeOK /\ Manifest!ManifestTypeOK

(* While the dispatch worker rebuilds the layer stack for a 0xFC, layer     *)
(* notifications are muted all along: nobody can unmute them under it, the  *)
(* manifest worker included, so no intermediate state reaches the host      *)
(* (command_handler.c:82-90).                                               *)
FloodMuted == SettingLayers => suppress

(* Notifications are never left muted: whoever raised the flag is still at  *)
(* work and will clear it.                                                  *)
MuteHasOwner == suppress => SettingLayers \/ worker \in {"stream", "unmute"}

(* The reports of some types among the first n on the wire.                 *)
Sent(types, n) == {m \in 1..n : wire[m].type \in types}

(* The active layers as the host last heard of them, and as the keyboard    *)
(* has them, as far as reports go.                                          *)
HostView == LET heard == Sent({"LAYER_STATE"}, Len(wire))
            IN  IF heard = {} THEN {0}
                ELSE wire[CHOOSE n \in heard : \A m \in heard : m <= n].mask
Visible == active \cap (0..LayerBits - 1)

(* When all is quiet the host knows the active layers, unless one of three  *)
(* things happened: a layer changed while a manifest stream kept the        *)
(* notifications muted, two contexts were composing a layer report at once, *)
(* or the transport gave a layer report up.                                 *)
HostViewCurrent == Quiescent /\ ~disturbed => HostView = Visible

(* README.md:7: every layer change is reported to the host.                 *)
EveryChangeReported == Quiescent => HostView = Visible

(* README.md:85, 135: a layer report carries the active layers, and layer 0 *)
(* is always active.                                                        *)
LayerZeroReported ==
  \A n \in DOMAIN wire : wire[n].type \in {"LAYER_STATE", "NONE"} => 0 \in wire[n].mask

(* manifest.c:220-222: spontaneous layer notifications are muted for the    *)
(* duration of the stream.                                                  *)
StreamMuted == worker = "stream" => suppress

IsNudge(c) == c.type \in {"LAYER_ACTIVATE", "LAYER_DEACTIVATE"}
Nudges(n) == {m \in 1..n : IsNudge(accepted[m])}

(* Each 0xF2 and 0xF3 that got past the listener is confirmed once, in the  *)
(* order the host sent them, with its own ref and the truth about the layer *)
(* (the host matches confirms by ref; layer_actions.c:50-79), as long as    *)
(* the host reads: the k-th confirm is that of the k-th nudge.              *)
ConfirmsInOrder ==
  LET confirms == Sent({"CONFIRM"}, Len(wire))
  IN  ~HostMayStall =>
        /\ \A n \in confirms : \E m \in Nudges(Len(accepted)) :
             /\ Cardinality(Nudges(m)) = Cardinality(Sent({"CONFIRM"}, n))
             /\ wire[n] = Confirm(accepted[m], accepted[m].layer \in KeymapLayers)
        /\ Quiescent => Cardinality(confirms) = Cardinality(Nudges(Len(accepted)))

(* What ZMK's context sends of its own, key events, emits and signals, is   *)
(* never muted, dropped, doubled or overtaken, whatever the other threads   *)
(* are sending, as long as the host reads (hid_viz_send.h:6-22): the k-th   *)
(* on the wire is the k-th that was called for.                             *)
OwnTypes == {"KEY_EVENT", "EMIT", "SIGNAL"}
OwnReportsInOrder ==
  LET own == Sent(OwnTypes, Len(wire))
  IN  ~HostMayStall =>
        /\ \A n \in own : /\ Cardinality(Sent(OwnTypes, n)) <= Len(fired)
                          /\ wire[n] = fired[Cardinality(Sent(OwnTypes, n))]
        /\ Quiescent => Cardinality(own) = Len(fired)

(* The host can put a manifest together from the sequence numbers: a stream *)
(* is not cut into by another one, nor does it go back or repeat itself,    *)
(* whenever requests arrive and whatever reports are lost.                  *)
Precedes(e, f) == e.stream < f.stream \/ (e.stream = f.stream /\ e.seq < f.seq)
StreamsNotInterleaved ==
  \A m, n \in Sent({"MANIFEST_ENTRY"}, Len(wire)) : m < n => Precedes(wire[m], wire[n])

(* The firmware keeps to what its components ask of their users, so what    *)
(* they promise holds in it: every report goes through the funnel's mutex,  *)
(* by a thread that no ready and more urgent one in the transport keeps     *)
(* from running, and commands pass the queue and nothing else               *)
(* (hid_viz_send.h:6-22, command_dispatch.c:68-71).                         *)
UsesComponents ==
  /\ Tx!TxInit /\ [][Tx!TxNext]_txVars
  /\ Queue!QueueInit /\ [][Queue!QueueNext]_queueVars

(* Whatever arrives, and even if the host stops reading, every thread gets  *)
(* back to rest: no handler, stream or send is stuck on the mutex, on the   *)
(* endpoint or behind a more urgent thread.                                 *)
ComesToRest == []<>Quiescent
=============================================================================
