---------------------------- MODULE HidVizProofs ----------------------------
(***************************************************************************)
(* What holds for any number of layers, commands, requests and events.     *)
(*                                                                         *)
(* First the mute flag, which has two owners, the 0xFC handler and the     *)
(* manifest worker, and no lock: what nevertheless holds does so because   *)
(* of the priorities of the two threads.                                   *)
(*                                                                         *)
(* Then what reaches the host.  What each component promises of its own    *)
(* carries over to the firmware that uses it; with that come the types,    *)
(* and on these rest the proofs about the reports on the wire: the order   *)
(* of a manifest's entries, of ZMK's own reports and of the confirms, and  *)
(* the picture of the layers that the host is left with.                   *)
(***************************************************************************)
EXTENDS HidViz, FiniteSetTheorems, SequenceTheorems, TLAPS

(* Where the threads stand with respect to the funnel: only a thread in     *)
(* hid_viz_send() touches the mutex, its owner is in the transport, and the *)
(* manifest worker is either in its own code or in hid_viz_send().          *)
Control ==
  /\ pc \in [Threads -> Labels]
  /\ back \in [Threads -> Labels]
  /\ tx \in [Threads -> {"out", "waiting", "sending", "sent"}]
  /\ \A t \in Threads : tx[t] # "out" => pc[t] = "send"
  /\ \A t \in Threads : owner = t => tx[t] \in {"sending", "sent"}
  /\ pc["man"] \in {"run", "send"} /\ back["man"] = "run"

(* The flag is up all through a 0xFC and never up without an owner; and a   *)
(* 0xFC's loops are never left for a report.                                *)
MuteFlag ==
  /\ SettingLayers => suppress /\ item # NoCommand
  /\ suppress => SettingLayers \/ worker \in {"stream", "unmute"}
  /\ pc["cmd"] \in Composing \cup {"send"} => back["cmd"] \notin {"clear", "fill"}

IInv == Control /\ MuteFlag

(* The manifest worker does not run while the dispatch worker rebuilds the  *)
(* layers: the latter is more urgent, ready, and lends nobody its priority. *)
LEMMA ManifestYields ==
  ASSUME IInv, At("man", "run")
  PROVE  ~SettingLayers
<1> SUFFICES ASSUME SettingLayers PROVE FALSE
  OBVIOUS
<1> USE DEF IInv, Control, MuteFlag, SettingLayers, InLoops, Threads
<1>1. tx["cmd"] = "out" /\ tx["man"] = "out" /\ owner # "man"
  BY DEF At
<1>2. Ready("cmd")
  BY <1>1 DEF Ready, HasWork, Tx!Stalled
<1>3. Tx!Lenders("man") = {"man"}
  BY <1>1 DEF Tx!Lenders
<1>4. "cmd" \in Tx!Lenders("cmd")
  BY DEF Tx!Lenders
<1>5. Prio["cmd"] > Prio["man"]
  BY DEF Prio
<1>6. Tx!Outranks("cmd", "man")
  BY <1>3, <1>4, <1>5 DEF Tx!Outranks
<1>7. QED BY <1>2, <1>6 DEF At, Runs

LEMMA InitIInv == Init => IInv
<1> SUFFICES ASSUME Init PROVE IInv
  OBVIOUS
<1> USE DEF Threads
<1>1. pc \in [Threads -> Labels] /\ back = pc
  <2>1. \A t \in Threads : (IF t = "sys" THEN "idle"
                            ELSE IF t = "cmd" THEN "handle" ELSE "run") \in Labels
    BY DEF Labels, Resumable
  <2>2. QED BY <2>1, Zenon DEF Init
<1>2. pc["cmd"] = "handle" /\ pc["man"] = "run"
  BY DEF Init
<1>3. tx = [t \in Threads |-> "out"] /\ owner \notin Threads
  BY HidVizAssumption DEF Init, Tx!TxInit
<1>4. ~suppress
  BY DEF Init, Manifest!ManifestInit
<1>5. Control
  BY <1>1, <1>2, <1>3 DEF Control
<1>6. MuteFlag
  BY <1>1, <1>2, <1>4 DEF MuteFlag, SettingLayers, InLoops, Composing
<1>7. QED BY <1>5, <1>6 DEF IInv

-----------------------------------------------------------------------------
(***************************************************************************)
(* Three kinds of step.                                                    *)
(***************************************************************************)

(* A step that leaves all of this alone.                                    *)
LEMMA StayKeeps ==
  ASSUME IInv, UNCHANGED <<pc, back, tx, owner, suppress, item, worker>>
  PROVE  IInv'
BY DEF IInv, Control, MuteFlag, SettingLayers

(* A step of a thread outside the funnel from one place to another.         *)
LEMMA MoveKeeps ==
  ASSUME IInv, NEW t \in Threads, NEW l \in Labels, NEW k \in Labels,
         tx[t] = "out",
         pc' = [pc EXCEPT ![t] = l], back' = [back EXCEPT ![t] = k],
         UNCHANGED <<tx, owner, suppress, item, worker>>,
         t = "man" => l \in {"run", "send"} /\ k = "run",
         t = "cmd" => /\ InLoops(l, k) <=> SettingLayers
                      /\ l \in Composing \cup {"send"} => k \notin {"clear", "fill"}
  PROVE  IInv'
<1> USE DEF IInv, Control, MuteFlag
<1>1. pc' \in [Threads -> Labels] /\ back' \in [Threads -> Labels]
  OBVIOUS
<1>2. pc'[t] = l /\ back'[t] = k
  OBVIOUS
<1>3. \A u \in Threads \ {t} : pc'[u] = pc[u] /\ back'[u] = back[u]
  OBVIOUS
<1>4. Control'
  BY <1>1, <1>2, <1>3 DEF Threads
<1>5. SettingLayers' <=> SettingLayers
  BY <1>2, <1>3 DEF SettingLayers, Threads
<1>6. pc'["cmd"] \in Composing \cup {"send"} => back'["cmd"] \notin {"clear", "fill"}
  BY <1>2, <1>3 DEF Threads
<1>7. MuteFlag'
  BY <1>5, <1>6
<1>8. QED BY <1>4, <1>7

(* The same with Goto, which leaves the return label alone.                 *)
LEMMA GotoKeeps ==
  ASSUME IInv, NEW t \in Threads, NEW l \in Labels, tx[t] = "out", Goto(t, l),
         UNCHANGED <<tx, owner, suppress, item, worker>>,
         t = "man" => l \in {"run", "send"},
         t = "cmd" => /\ InLoops(l, back["cmd"]) <=> SettingLayers
                      /\ l \in Composing \cup {"send"}
                           => back["cmd"] \notin {"clear", "fill"}
  PROVE  IInv'
<1>1. back[t] \in Labels /\ back' = [back EXCEPT ![t] = back[t]]
  BY DEF IInv, Control, Goto
<1>2. t = "man" => back[t] = "run"
  BY DEF IInv, Control
<1>3. QED BY <1>1, <1>2, MoveKeeps DEF Goto

(* A step in the funnel by a thread that stays in hid_viz_send().           *)
LEMMA FunnelKeeps ==
  ASSUME IInv, NEW t \in Threads, pc[t] = "send",
         Tx!Lock(t) \/ Tx!Write(t) \/ Tx!GiveUp(t),
         UNCHANGED <<pc, back, suppress, item, worker>>
  PROVE  IInv'
<1> USE DEF IInv, Control
<1>1. MuteFlag'
  BY DEF MuteFlag, SettingLayers
<1>2. CASE Tx!Lock(t)
  BY <1>1, <1>2 DEF Tx!Lock, Threads
<1>3. CASE Tx!Write(t)
  BY <1>1, <1>3 DEF Tx!Write, Threads
<1>4. CASE Tx!GiveUp(t)
  BY <1>1, <1>4 DEF Tx!GiveUp, Threads
<1>5. QED BY <1>2, <1>3, <1>4

-----------------------------------------------------------------------------
(***************************************************************************)
(* The actions.                                                            *)
(***************************************************************************)

(* A thread at a label other than "send" is outside the funnel.             *)
LEMMA OutsideFunnel ==
  ASSUME IInv, NEW t \in Threads, pc[t] # "send" PROVE tx[t] = "out"
BY DEF IInv, Control

LEMMA NotifyKeeps ==
  ASSUME IInv, NEW t \in Threads, Notify(t) PROVE IInv'
<1>1. pc[t] = "notify" /\ tx[t] = "out" /\ t # "man"
  BY OutsideFunnel DEF Notify, At, IInv, Control
<1>2. UNCHANGED <<tx, owner, suppress, item, worker>>
  BY DEF Notify, txVars, manVars, queueVars
<1>3. back[t] \in Labels
  BY DEF IInv, Control
<1>4. CASE ~suppress /\ ReportLayers(t, back[t])
  <2>1. ~SettingLayers
    BY <1>4 DEF IInv, MuteFlag
  <2>2. t = "cmd" => back["cmd"] \notin {"clear", "fill"}
    BY <1>1, <2>1 DEF SettingLayers, InLoops
  <2>3. t = "cmd" => ~InLoops("scan", back["cmd"])
    BY DEF InLoops
  <2>4. "scan" \in Labels
    BY DEF Labels, Composing
  <2>5. QED BY <1>1, <1>2, <1>3, <1>4, <2>1, <2>2, <2>3, <2>4, MoveKeeps
            DEF ReportLayers, Call
<1>5. CASE suppress /\ Goto(t, back[t])
  <2>1. t = "cmd" => (InLoops(back["cmd"], back["cmd"]) <=> SettingLayers)
    BY <1>1 DEF SettingLayers, InLoops
  <2>2. t = "cmd" => (back["cmd"] \in Composing \cup {"send"}
                        => back["cmd"] \notin {"clear", "fill"})
    BY DEF Composing
  <2>3. QED BY <1>1, <1>2, <1>3, <1>5, <2>1, <2>2, GotoKeeps
<1>6. QED BY <1>4, <1>5 DEF Notify

(* The steps of send_layer_state().                                         *)
LEMMA ComposeKeeps ==
  ASSUME IInv, NEW t \in Threads,
         ScanLayer(t) \/ ZeroBuffer(t) \/ WriteHeader(t) \/ WriteMask(t)
  PROVE  IInv'
<1>1. pc[t] \in Composing
  BY DEF ScanLayer, ZeroBuffer, WriteHeader, WriteMask, At, Composing
<1>2. tx[t] = "out" /\ t # "man"
  BY <1>1, OutsideFunnel DEF IInv, Control, Composing
<1>3. UNCHANGED <<tx, owner, suppress, item, worker>>
  BY DEF ScanLayer, ZeroBuffer, WriteHeader, WriteMask, txVars, manVars, queueVars
<1>4. t = "cmd" => back["cmd"] \notin {"clear", "fill"} /\ ~SettingLayers
  BY <1>1 DEF IInv, MuteFlag, SettingLayers, InLoops, Composing
<1>5. UNCHANGED flow \/ \E l \in Composing \cup {"send"} :
                          Goto(t, l) \/ Call(t, l, back[t])
  BY DEF ScanLayer, ZeroBuffer, WriteHeader, WriteMask, Send, Composing
<1>6. CASE UNCHANGED flow
  BY <1>3, <1>6, StayKeeps DEF flow
<1>7. ASSUME NEW l \in Composing \cup {"send"}, Goto(t, l) \/ Call(t, l, back[t])
      PROVE  IInv'
  <2>1. l \in Labels /\ back[t] \in Labels
    BY DEF Labels, IInv, Control
  <2>2. pc' = [pc EXCEPT ![t] = l] /\ back' = [back EXCEPT ![t] = back[t]]
    BY <1>7 DEF Goto, Call, IInv, Control
  <2>3. ~InLoops(l, back[t]) \/ t # "cmd"
    BY <1>4 DEF InLoops, Composing
  <2>4. QED BY <1>2, <1>3, <1>4, <2>1, <2>2, <2>3, MoveKeeps
<1>8. QED BY <1>5, <1>6, <1>7

(* hid_viz_send(), up to the unlock.                                        *)
LEMMA SendKeeps ==
  ASSUME IInv, NEW t \in Threads,
         EnterFunnel(t) \/ Transmit(t) \/ TimeOut(t)
  PROVE  IInv'
<1>1. Tx!Lock(t) \/ Tx!Write(t) \/ Tx!GiveUp(t)
  BY DEF EnterFunnel, Transmit, TimeOut
<1>2. pc[t] = "send"
  BY DEF EnterFunnel, Transmit, TimeOut, At, Tx!GiveUp, IInv, Control
<1>3. UNCHANGED <<pc, back, suppress, item, worker>>
  BY DEF EnterFunnel, Transmit, TimeOut, flow, queueVars, manVars
<1>4. QED BY <1>1, <1>2, <1>3, FunnelKeeps

(* The unlock: back to whoever called, with the mutex free or handed on.    *)
LEMMA LeaveKeeps ==
  ASSUME IInv, NEW t \in Threads, LeaveFunnel(t) PROVE IInv'
<1>1. pc[t] = "send" /\ tx[t] = "sent" /\ pc' = [pc EXCEPT ![t] = back[t]]
      /\ UNCHANGED <<back, suppress, item, worker>>
  BY DEF LeaveFunnel, At, Goto, Tx!Unlock, queueVars, manVars
<1>2. /\ tx' \in [Threads -> {"out", "waiting", "sending", "sent"}]
      /\ tx'[t] = "out" /\ owner' # t
      /\ \A u \in Threads \ {t} :
           /\ tx'[u] # "out" => pc[u] = "send"
           /\ owner' = u => tx'[u] \in {"sending", "sent"}
  <2>1. CASE /\ Tx!Waiters = {} /\ owner' = NoThread
             /\ tx' = [tx EXCEPT ![t] = "out"]
    BY <1>1, <2>1, HidVizAssumption DEF IInv, Control
  <2>2. CASE Tx!HandOver(t)
    <3>1. PICK u \in Tx!Waiters :
            owner' = u /\ tx' = [tx EXCEPT ![t] = "out", ![u] = "sending"]
      BY <2>2 DEF Tx!HandOver
    <3>2. u \in Threads /\ tx[u] = "waiting" /\ u # t
      BY <1>1 DEF Tx!Waiters
    <3>3. QED BY <1>1, <3>1, <3>2 DEF IInv, Control
  <2>3. QED BY <2>1, <2>2 DEF LeaveFunnel, Tx!Unlock
<1>3. Control'
  BY <1>1, <1>2 DEF IInv, Control, Threads
<1>4. SettingLayers' <=> SettingLayers
  BY <1>1 DEF IInv, Control, MuteFlag, SettingLayers, InLoops, Threads
<1>5. pc'["cmd"] \in Composing \cup {"send"} => back'["cmd"] \notin {"clear", "fill"}
  BY <1>1 DEF IInv, Control, MuteFlag, Composing, Threads
<1>6. QED BY <1>1, <1>3, <1>4, <1>5 DEF IInv, MuteFlag

(* Events of ZMK's own context: neither worker is concerned.                *)
LEMMA EventKeeps ==
  ASSUME IInv,
         \/ \E key \in LayerKeys : LayerKey(key)
         \/ \E p \in Positions : KeyEvent(p)
         \/ \E b \in Bindings : Originate(b)
  PROVE  IInv'
<1>1. pc["sys"] = "idle"
  BY DEF LayerKey, KeyEvent, Originate, Event
<1>2. tx["sys"] = "out"
  BY <1>1, OutsideFunnel DEF Threads
<1>3. UNCHANGED <<tx, owner, suppress, item, worker>>
  BY DEF LayerKey, KeyEvent, Originate, txVars, manVars, queueVars
<1>4. UNCHANGED flow \/ \E l \in {"idle", "notify", "send"} : Call("sys", l, "idle")
  BY DEF LayerKey, KeyEvent, Originate, PressEmit, PressEmitFixed, PressSignal,
         PressSignalFixed, EmitSend, SendSignal, Fire, KeymapOp, Send
<1>5. CASE UNCHANGED flow
  BY <1>3, <1>5, StayKeeps DEF flow
<1>6. ASSUME NEW l \in {"idle", "notify", "send"}, Call("sys", l, "idle")
      PROVE  IInv'
  <2>1. l \in Labels /\ "idle" \in Labels /\ "sys" \in Threads
    BY DEF Labels, Resumable, Threads
  <2>2. QED BY <1>2, <1>3, <1>6, <2>1, MoveKeeps DEF Call
<1>7. QED BY <1>4, <1>5, <1>6

LEMMA HostReadsKeeps ==
  ASSUME IInv, HostReads PROVE IInv'
BY StayKeeps DEF HostReads, Tx!HostRead, flow, queueVars, manVars

(* The USB callback may put a command in hand, but never takes one away.    *)
LEMMA ReceiveKeeps ==
  ASSUME IInv, NEW c \in Commands, Receive(c) PROVE IInv'
<1>1. UNCHANGED <<pc, back, tx, owner, suppress, worker>>
  BY DEF Receive, Manifest!Request, flow, txVars, manVars
<1>2. item' # NoCommand \/ item' = item
  BY HidVizAssumption DEF Receive, Queue!Put, Queue!PutToWorker,
     Queue!PutInQueue, Queue!Drop
<1>3. QED BY <1>1, <1>2 DEF IInv, Control, MuteFlag, SettingLayers

(* A give may wake the manifest worker, which was not the flag's owner.     *)
LEMMA SignalKeeps ==
  ASSUME IInv, SignalWorker PROVE IInv'
<1>1. UNCHANGED <<pc, back, tx, owner, suppress, item>>
  BY DEF SignalWorker, Manifest!Give, flow, txVars, queueVars
<1>2. worker' = worker \/ worker = "asleep"
  BY DEF SignalWorker, Manifest!Give
<1>3. QED BY <1>1, <1>2 DEF IInv, Control, MuteFlag, SettingLayers

-----------------------------------------------------------------------------
(* The manifest worker: here the priorities count, for Unmute.              *)
LEMMA StreamKeeps ==
  ASSUME IInv, StreamStep PROVE IInv'
<1>1. At("man", "run") /\ UNCHANGED <<tx, owner, item>>
  BY DEF StreamStep, txVars, queueVars
<1>2. pc["man"] = "run" /\ tx["man"] = "out" /\ ~SettingLayers
  BY <1>1, OutsideFunnel, ManifestYields DEF At, Threads
<1>3. CASE Manifest!NextEntry
  <2>1. UNCHANGED <<suppress, worker>> /\ Call("man", "send", "run")
    BY <1>1, <1>3 DEF StreamStep, Manifest!NextEntry, Manifest!ReadStart,
       Manifest!Mute, Manifest!EndStream, Manifest!Unmute, Send
  <2>2. "send" \in Labels /\ "run" \in Labels /\ "man" \in Threads
    BY DEF Labels, Resumable, Threads
  <2>3. QED BY <1>1, <1>2, <2>1, <2>2, MoveKeeps DEF Call
<1>4. CASE /\ Manifest!ReadStart \/ Manifest!Mute \/ Manifest!EndStream \/ Manifest!Unmute
           /\ UNCHANGED flow
  <2>1. suppress' => worker' \in {"stream", "unmute"}
    BY <1>2, <1>4 DEF IInv, MuteFlag, Manifest!ReadStart, Manifest!Mute,
       Manifest!EndStream, Manifest!Unmute
  <2>2. QED BY <1>1, <1>2, <1>4, <2>1 DEF IInv, Control, MuteFlag, SettingLayers, flow
<1>5. QED BY <1>3, <1>4 DEF StreamStep

-----------------------------------------------------------------------------
(***************************************************************************)
(* The dispatch worker.  Outside a 0xFC it calls and goes about among      *)
(* labels that are not those of the loops; inside one it stays there.      *)
(***************************************************************************)
LEMMA HandlerMoves ==
  ASSUME IInv, pc["cmd"] \in {"handle", "base", "confirm"},
         UNCHANGED <<tx, owner, suppress, item, worker>>,
         UNCHANGED flow \/ \E l \in {"base", "finish", "confirm", "notify", "send"} :
           \/ Goto("cmd", l) /\ l \in {"base", "finish"}
           \/ \E k \in {"base", "finish", "confirm"} : Call("cmd", l, k)
  PROVE  IInv'
<1>1. tx["cmd"] = "out" /\ ~SettingLayers
  BY OutsideFunnel DEF Threads, SettingLayers, InLoops
<1>2. CASE UNCHANGED flow
  BY <1>2, StayKeeps DEF flow
<1>3. ASSUME NEW l \in {"base", "finish"}, Goto("cmd", l) PROVE IInv'
  <2>1. l \in Labels /\ "cmd" \in Threads /\ ~InLoops(l, back["cmd"])
    BY DEF Labels, Resumable, Threads, InLoops
  <2>2. l \notin Composing \cup {"send"}
    BY DEF Composing
  <2>3. QED BY <1>1, <1>3, <2>1, <2>2, GotoKeeps
<1>4. ASSUME NEW l \in {"base", "finish", "confirm", "notify", "send"},
             NEW k \in {"base", "finish", "confirm"}, Call("cmd", l, k)
      PROVE  IInv'
  <2>1. l \in Labels /\ k \in Labels /\ "cmd" \in Threads /\ ~InLoops(l, k)
    BY DEF Labels, Resumable, Threads, InLoops
  <2>2. QED BY <1>1, <1>4, <2>1, MoveKeeps DEF Call
<1>5. QED BY <1>2, <1>3, <1>4

(* 0xFC: the loops, entered with the flag raised and left with it cleared.  *)
LEMMA LoopMoves ==
  ASSUME IInv, pc["cmd"] \in {"clear", "fill"},
         UNCHANGED <<tx, owner, suppress, item, worker>>,
         \/ UNCHANGED flow \/ Goto("cmd", "fill")
         \/ \E k \in {"clear", "fill"}, l \in {"clear", "fill", "notify"} :
              Call("cmd", l, k)
  PROVE  IInv'
<1>1. tx["cmd"] = "out" /\ SettingLayers
  BY OutsideFunnel DEF Threads, SettingLayers, InLoops
<1>2. CASE UNCHANGED flow
  BY <1>2, StayKeeps DEF flow
<1>3. CASE Goto("cmd", "fill")
  <2>1. "fill" \in Labels /\ "cmd" \in Threads /\ InLoops("fill", back["cmd"])
    BY DEF Labels, Resumable, Threads, InLoops
  <2>2. "fill" \notin Composing \cup {"send"}
    BY DEF Composing
  <2>3. QED BY <1>1, <1>3, <2>1, <2>2, GotoKeeps
<1>4. ASSUME NEW k \in {"clear", "fill"}, NEW l \in {"clear", "fill", "notify"},
             Call("cmd", l, k)
      PROVE  IInv'
  <2>1. l \in Labels /\ k \in Labels /\ "cmd" \in Threads /\ InLoops(l, k)
    BY DEF Labels, Resumable, Threads, InLoops
  <2>2. l \notin Composing \cup {"send"}
    BY DEF Composing
  <2>3. QED BY <1>1, <1>4, <2>1, <2>2, MoveKeeps DEF Call
<1>5. QED BY <1>2, <1>3, <1>4

LEMMA SetLayersKeeps ==
  ASSUME IInv, SetLayers PROVE IInv'
<1>1. /\ pc["cmd"] = "handle" /\ pc' = [pc EXCEPT !["cmd"] = "clear"]
      /\ suppress' /\ item # NoCommand
      /\ UNCHANGED <<back, tx, owner, item, worker>>
  BY DEF SetLayers, Handle, At, Runs, Ready, HasWork, Goto, txVars, queueVars, manVars
<1>2. tx["cmd"] = "out"
  BY <1>1, OutsideFunnel DEF Threads
<1>3. Control'
  BY <1>1, <1>2 DEF IInv, Control, Threads, Labels, Resumable
<1>4. pc'["cmd"] = "clear"
  BY <1>1 DEF IInv, Control, Threads
<1>5. SettingLayers'
  BY <1>4 DEF SettingLayers, InLoops
<1>6. QED BY <1>1, <1>3, <1>4, <1>5 DEF IInv, MuteFlag, Composing

LEMMA ReportSetLayersKeeps ==
  ASSUME IInv, ReportSetLayers PROVE IInv'
<1>1. /\ pc["cmd"] = "fill"
      /\ pc' = [pc EXCEPT !["cmd"] = "scan"] /\ back' = [back EXCEPT !["cmd"] = "finish"]
      /\ ~suppress' /\ UNCHANGED <<tx, owner, item, worker>>
  BY DEF ReportSetLayers, At, ReportLayers, Call, txVars, queueVars, manVars
<1>2. tx["cmd"] = "out"
  BY <1>1, OutsideFunnel DEF Threads
<1>3. Control'
  BY <1>1, <1>2 DEF IInv, Control, Threads, Labels, Resumable, Composing
<1>4. pc'["cmd"] = "scan" /\ back'["cmd"] = "finish"
  BY <1>1 DEF IInv, Control, Threads
<1>5. ~SettingLayers'
  BY <1>4 DEF SettingLayers, InLoops
<1>6. QED BY <1>1, <1>3, <1>4, <1>5 DEF IInv, MuteFlag

LEMMA FinishKeeps ==
  ASSUME IInv, FinishCommand PROVE IInv'
<1>1. /\ pc["cmd"] = "finish" /\ pc' = [pc EXCEPT !["cmd"] = "handle"]
      /\ UNCHANGED <<back, tx, owner, suppress, worker>>
  BY DEF FinishCommand, At, Goto, txVars, manVars
<1>2. tx["cmd"] = "out"
  BY <1>1, OutsideFunnel DEF Threads
<1>3. Control'
  BY <1>1, <1>2 DEF IInv, Control, Threads, Labels, Resumable
<1>4. pc'["cmd"] = "handle"
  BY <1>1 DEF IInv, Control, Threads
<1>5. ~SettingLayers /\ ~SettingLayers'
  BY <1>1, <1>4 DEF SettingLayers, InLoops
<1>6. QED BY <1>1, <1>3, <1>4, <1>5 DEF IInv, MuteFlag, Composing

LEMMA DispatchKeeps ==
  ASSUME IInv, Dispatching PROVE IInv'
<1> USE DEF At, Handle, txVars, queueVars, manVars
<1>1. CASE Reply("GET_DEVICE_INFO", "DEVICE_INFO") \/ Reply("GET_CONFIG_ID", "CONFIG_ID")
  BY <1>1, HandlerMoves DEF Reply, Send
<1>2. CASE SetLayers
  BY <1>2, SetLayersKeeps
<1>3. CASE ClearLayer
  BY <1>3, LoopMoves DEF ClearLayer, KeymapOp, flow
<1>4. CASE FillLayer
  BY <1>4, LoopMoves DEF FillLayer, KeymapOp, flow
<1>5. CASE ReportSetLayers
  BY <1>5, ReportSetLayersKeeps
<1>6. CASE SetBase
  BY <1>6, HandlerMoves DEF SetBase
<1>7. CASE LeaveLayer
  BY <1>7, HandlerMoves DEF LeaveLayer, KeymapOp, flow
<1>8. CASE EnterLayer
  BY <1>8, HandlerMoves DEF EnterLayer, KeymapOp
<1>9. CASE Nudge("LAYER_ACTIVATE", TRUE) \/ Nudge("LAYER_DEACTIVATE", FALSE)
  BY <1>9, HandlerMoves DEF Nudge, KeymapOp
<1>10. CASE SendConfirm
  BY <1>10, HandlerMoves DEF SendConfirm, Send
<1>11. CASE Ignore
  BY <1>11, HandlerMoves DEF Ignore
<1>12. CASE FinishCommand
  BY <1>12, FinishKeeps
<1>13. QED
  BY <1>1, <1>2, <1>3, <1>4, <1>5, <1>6, <1>7, <1>8, <1>9, <1>10, <1>11, <1>12
     DEF Dispatching

LEMMA NextIInv == IInv /\ [Next]_vars => IInv'
<1> SUFFICES ASSUME IInv, [Next]_vars PROVE IInv'
  OBVIOUS
<1>1. CASE Environment
  BY <1>1, HostReadsKeeps, ReceiveKeeps, EventKeeps DEF Environment
<1>2. CASE SignalWorker
  BY <1>2, SignalKeeps
<1>3. ASSUME NEW t \in Threads, Sending(t) PROVE IInv'
  BY <1>3, NotifyKeeps, ComposeKeeps, SendKeeps, LeaveKeeps DEF Sending
<1>4. CASE Dispatching
  BY <1>4, DispatchKeeps
<1>5. CASE StreamStep
  BY <1>5, StreamKeeps
<1>6. CASE UNCHANGED vars
  BY <1>6, StayKeeps DEF vars, flow, txVars, queueVars, manVars
<1>7. QED BY <1>1, <1>2, <1>3, <1>4, <1>5, <1>6 DEF Next

-----------------------------------------------------------------------------
LEMMA IInvInvariant == Spec => []IInv
BY InitIInv, NextIInv, PTL DEF Spec

(* While a 0xFC rebuilds the layers, notifications are muted all along,     *)
(* whatever the manifest worker does (command_handler.c:82-105,             *)
(* manifest.c:223-225): its unmute cannot fall into the loops, because of   *)
(* the threads' priorities.                                                 *)
THEOREM FloodMutedInvariant == Spec => []FloodMuted
<1>1. IInv => FloodMuted
  BY DEF IInv, MuteFlag, FloodMuted
<1>2. QED BY <1>1, IInvInvariant, PTL

(* Notifications are never left muted with nobody at work to unmute them    *)
(* (command_handler.c:82, 105; manifest.c:223, 225).                        *)
THEOREM MuteHasOwnerInvariant == Spec => []MuteHasOwner
<1>1. IInv => MuteHasOwner
  BY DEF IInv, MuteFlag, MuteHasOwner
<1>2. QED BY <1>1, IInvInvariant, PTL

-----------------------------------------------------------------------------
(***************************************************************************)
(* The firmware uses its components as they are meant to be used.  The     *)
(* funnel asks most: a thread takes a step in it only if no more urgent    *)
(* one in the transport could run instead.  The firmware's scheduling      *)
(* knows of threads with work; so a thread in the transport must have it.  *)
(***************************************************************************)
Working ==
  /\ pc["cmd"] # "handle" => item # NoCommand
  /\ pc["man"] = "send" => worker # "asleep"

LEMMA BusySenders ==
  ASSUME IInv, Working, NEW u \in Threads, tx[u] # "out"
  PROVE  HasWork(u)
<1>1. pc[u] = "send"
  BY DEF IInv, Control
<1>2. QED BY <1>1 DEF HasWork, Working, Threads

LEMMA RunsInFunnel ==
  ASSUME IInv, Working, NEW t \in Threads, Runs(t)
  PROVE  Tx!TxRuns(t)
<1>1. SUFFICES ASSUME NEW u \in Threads, Tx!InTransport(u), ~Tx!Stalled(u)
               PROVE  ~Tx!Outranks(u, t)
  BY DEF Tx!TxRuns
<1>2. Ready(u)
  BY <1>1, BusySenders DEF Ready, Tx!InTransport
<1>3. QED BY <1>2 DEF Runs

LEMMA WorkingInit == Init => Working
BY DEF Init, Working, Threads

(* A thread's own step, taken because it had work.                          *)
LEMMA OwnStep ==
  ASSUME IInv, Working, NEW t \in Threads, Runs(t), UNCHANGED <<item, worker>>,
         \A u \in Threads \ {t} : pc'[u] = pc[u], t = "man" => pc'[t] # "send"
  PROVE  Working'
<1>1. HasWork(t)
  BY DEF Runs, Ready
<1>2. QED BY <1>1 DEF Working, HasWork, Threads

LEMMA PcStep ==
  ASSUME IInv, NEW t \in Threads, NEW l, pc' = [pc EXCEPT ![t] = l] \/ pc' = pc
  PROVE  \A u \in Threads \ {t} : pc'[u] = pc[u]
BY DEF IInv, Control

LEMMA SendingWorks ==
  ASSUME IInv, Working, NEW t \in Threads, Sending(t)
  PROVE  Working'
<1>1. CASE TimeOut(t)
  BY <1>1 DEF TimeOut, flow, queueVars, manVars, Working
<1>2. CASE EnterFunnel(t) \/ Transmit(t)
  BY <1>2 DEF EnterFunnel, Transmit, flow, queueVars, manVars, Working
<1>3. CASE LeaveFunnel(t)
  <2>1. /\ Runs(t) /\ UNCHANGED <<item, worker>>
        /\ pc' = [pc EXCEPT ![t] = back[t]]
    BY <1>3 DEF LeaveFunnel, At, Goto, queueVars, manVars
  <2>2. t = "man" => pc'[t] # "send"
    BY <2>1 DEF IInv, Control
  <2>3. QED BY <2>1, <2>2, PcStep, OwnStep
<1>4. CASE Notify(t) \/ ScanLayer(t) \/ ZeroBuffer(t) \/ WriteHeader(t) \/ WriteMask(t)
  <2>1. Runs(t) /\ UNCHANGED <<item, worker>> /\ pc[t] \notin {"run", "send"}
    BY <1>4 DEF Notify, ScanLayer, ZeroBuffer, WriteHeader, WriteMask, At,
       queueVars, manVars
  <2>2. t # "man"
    BY <2>1 DEF IInv, Control
  <2>3. \E l : pc' = [pc EXCEPT ![t] = l] \/ pc' = pc
    BY <1>4 DEF Notify, ReportLayers, ScanLayer, ZeroBuffer, WriteHeader, WriteMask,
       Send, Goto, Call, flow
  <2>4. QED BY <2>1, <2>2, <2>3, PcStep, OwnStep
<1>5. QED BY <1>1, <1>2, <1>3, <1>4 DEF Sending

LEMMA DispatchingWorks ==
  ASSUME IInv, Working, Dispatching
  PROVE  Working'
<1>1. CASE FinishCommand
  <2>1. /\ pc' = [pc EXCEPT !["cmd"] = "handle"] /\ worker' = worker
    BY <1>1 DEF FinishCommand, Goto, manVars
  <2>2. pc'["cmd"] = "handle" /\ pc'["man"] = pc["man"]
    BY <2>1 DEF IInv, Control, Threads
  <2>3. QED BY <2>1, <2>2 DEF Working
<1>2. CASE Dispatching /\ ~FinishCommand
  <2>1. Runs("cmd") /\ UNCHANGED <<item, worker>>
    BY <1>2 DEF Dispatching, Reply, SetLayers, ClearLayer, FillLayer, ReportSetLayers,
       SetBase, LeaveLayer, EnterLayer, Nudge, SendConfirm, Ignore, Handle, At, queueVars,
       manVars
  <2>2. \E l : pc' = [pc EXCEPT !["cmd"] = l] \/ pc' = pc
    BY <1>2 DEF Dispatching, Reply, SetLayers, ClearLayer, FillLayer, ReportSetLayers,
       SetBase, LeaveLayer, EnterLayer, Nudge, SendConfirm, Ignore, Send, Goto, Call,
       KeymapOp, ReportLayers, flow
  <2>3. "cmd" \in Threads
    BY DEF Threads
  <2>4. QED BY <2>1, <2>2, <2>3, PcStep, OwnStep
<1>3. QED BY <1>1, <1>2

LEMMA WorkingStep == IInv /\ Working /\ [Next]_vars => Working'
<1> SUFFICES ASSUME IInv, Working, [Next]_vars PROVE Working'
  OBVIOUS
<1>1. CASE HostReads \/ UNCHANGED vars
  BY <1>1 DEF HostReads, vars, flow, queueVars, manVars, Working
<1>2. ASSUME NEW c \in Commands, Receive(c) PROVE Working'
  <2>1. UNCHANGED <<pc, worker>>
    BY <1>2 DEF Receive, Manifest!Request, flow, manVars
  <2>2. item' # NoCommand \/ item' = item
    BY <1>2, HidVizAssumption DEF Receive, Queue!Put, Queue!PutToWorker,
       Queue!PutInQueue, Queue!Drop
  <2>3. QED BY <2>1, <2>2 DEF Working
<1>3. CASE \/ \E key \in LayerKeys : LayerKey(key)
           \/ \E p \in Positions : KeyEvent(p)
           \/ \E b \in Bindings : Originate(b)
  <2>1. UNCHANGED <<item, worker>>
    BY <1>3 DEF LayerKey, KeyEvent, Originate, queueVars, manVars
  <2>2. \E l : pc' = [pc EXCEPT !["sys"] = l] \/ pc' = pc
    BY <1>3 DEF LayerKey, KeyEvent, Originate, PressEmit, PressEmitFixed, PressSignal,
       PressSignalFixed, EmitSend, SendSignal, Fire, KeymapOp, Send, Call, flow
  <2>3. pc'["cmd"] = pc["cmd"] /\ pc'["man"] = pc["man"]
    BY <2>2, PcStep DEF Threads
  <2>4. QED BY <2>1, <2>3 DEF Working
<1>4. CASE SignalWorker
  BY <1>4 DEF SignalWorker, Manifest!Give, flow, queueVars, Working
<1>5. CASE StreamStep
  <2>1. pc["man"] = "run" /\ item' = item
    BY <1>5 DEF StreamStep, At, queueVars
  <2>2. CASE Manifest!NextEntry /\ pc' = [pc EXCEPT !["man"] = "send"]
    <3>1. pc'["cmd"] = pc["cmd"] /\ worker' = "stream"
      BY <2>2 DEF Manifest!NextEntry, IInv, Control, Threads
    <3>2. QED BY <2>1, <3>1 DEF Working
  <2>3. CASE pc' = pc
    BY <2>1, <2>3 DEF Working
  <2>4. QED BY <1>5, <2>2, <2>3 DEF StreamStep, Send, Call, flow
<1>6. QED
  BY <1>1, <1>2, <1>3, <1>4, <1>5, SendingWorks, DispatchingWorks DEF Next, Environment

(* Every step of the firmware is a step of the funnel or leaves it alone.   *)
LEMMA FunnelStep ==
  ASSUME IInv, Working, [Next]_vars
  PROVE  [Tx!TxNext]_txVars
<1>1. ASSUME NEW t \in Threads, Sending(t) PROVE [Tx!TxNext]_txVars
  <2>1. CASE EnterFunnel(t)
    BY <2>1, RunsInFunnel DEF EnterFunnel, At, Tx!TxNext
  <2>2. CASE Transmit(t)
    BY <2>2, RunsInFunnel DEF Transmit, At, Tx!TxNext, Tx!TxStep
  <2>3. CASE LeaveFunnel(t)
    BY <2>3, RunsInFunnel DEF LeaveFunnel, At, Tx!TxNext, Tx!TxStep
  <2>4. CASE TimeOut(t)
    BY <2>4 DEF TimeOut, Tx!TxNext, Tx!TxStep
  <2>5. CASE Notify(t) \/ ScanLayer(t) \/ ZeroBuffer(t) \/ WriteHeader(t) \/ WriteMask(t)
    BY <2>5 DEF Notify, ScanLayer, ZeroBuffer, WriteHeader, WriteMask
  <2>6. QED BY <1>1, <2>1, <2>2, <2>3, <2>4, <2>5 DEF Sending
<1>2. CASE Environment
  BY <1>2 DEF Environment, HostReads, Tx!TxNext, Receive, LayerKey, KeyEvent, Originate
<1>3. CASE Dispatching
  BY <1>3 DEF Dispatching, Reply, SetLayers, ClearLayer, FillLayer, ReportSetLayers,
     SetBase, LeaveLayer, EnterLayer, Nudge, SendConfirm, Ignore, FinishCommand
<1>4. CASE SignalWorker \/ StreamStep \/ UNCHANGED vars
  BY <1>4 DEF SignalWorker, StreamStep, vars
<1>5. QED BY <1>1, <1>2, <1>3, <1>4 DEF Next

LEMMA QueueStep == [Next]_vars => [Queue!QueueNext]_queueVars
<1> SUFFICES ASSUME [Next]_vars PROVE [Queue!QueueNext]_queueVars
  OBVIOUS
<1>1. CASE \E t \in Threads : Sending(t)
  BY <1>1 DEF Sending, Notify, ScanLayer, ZeroBuffer, WriteHeader, WriteMask,
     EnterFunnel, Transmit, LeaveFunnel, TimeOut
<1>2. CASE Environment
  BY <1>2 DEF Environment, HostReads, Receive, Queue!QueueNext, LayerKey, KeyEvent, Originate
<1>3. CASE Dispatching
  BY <1>3 DEF Dispatching, Reply, SetLayers, ClearLayer, FillLayer, ReportSetLayers,
     SetBase, LeaveLayer, EnterLayer, Nudge, SendConfirm, Ignore, FinishCommand,
     Queue!QueueNext
<1>4. CASE SignalWorker \/ StreamStep \/ UNCHANGED vars
  BY <1>4 DEF SignalWorker, StreamStep, vars
<1>5. QED BY <1>1, <1>2, <1>3, <1>4 DEF Next

(* The firmware keeps to the funnel's and the queue's specifications: what  *)
(* they promise for any users who do, holds in it (hid_viz_send.h:6-22,     *)
(* command_dispatch.c:68-71).                                               *)
THEOREM FirmwareUsesComponents == Spec => UsesComponents
<1>1. Init => Tx!TxInit /\ Queue!QueueInit
  BY DEF Init
<1>2. IInv /\ IInv' /\ Working /\ [Next]_vars => Working' /\ [Tx!TxNext]_txVars
  BY WorkingStep, FunnelStep
<1>3. QED BY <1>1, <1>2, QueueStep, WorkingInit, IInvInvariant, PTL DEF Spec, UsesComponents

-----------------------------------------------------------------------------
(* The flag as the manifest worker would have it if it were the only one    *)
(* to raise and lower it.                                                   *)
OwnMute == worker \in {"stream", "unmute"}

(* The commands that ask for the manifest.                                  *)
Asking == {c \in Commands : c.type = "GET_MANIFEST"}
Facts == INSTANCE WorkersProofs
           WITH MaxRequests <- MaxArrivals, suppress <- OwnMute, Queries <- Asking

-----------------------------------------------------------------------------
(***************************************************************************)
(* The components.                                                         *)
(***************************************************************************)
(* The firmware gives the components what they ask for.                     *)
LEMMA PartsAssume ==
  /\ Prio \in [Threads -> Nat]
  /\ \A t, u \in Threads : Prio[t] = Prio[u] => t = u
  /\ {"sys", "cmd", "man"} \subseteq Threads /\ Asking \subseteq Commands
BY DEF Prio, Threads, Asking

LEMMA FunnelFacts ==
  Facts!TxSteps => []( /\ Facts!TxTypeOK /\ Facts!OneInTransport
                       /\ Facts!SleepersHaveHolder
                       /\ Facts!MostUrgentWaitsOneReport )
<1>1. Facts!TxSteps => []Facts!TxTypeOK
  BY PartsAssume, HidVizAssumption, ComponentAssumption, Facts!TxTypes
<1>2. Facts!TxSteps => []Facts!OneInTransport
  BY PartsAssume, HidVizAssumption, ComponentAssumption, Facts!NeverTwo
<1>3. Facts!TxSteps => []Facts!SleepersHaveHolder
  BY PartsAssume, HidVizAssumption, ComponentAssumption, Facts!SleepersWake
<1>4. Facts!TxSteps => []Facts!MostUrgentWaitsOneReport
  BY PartsAssume, HidVizAssumption, ComponentAssumption, Facts!UrgentWait
<1>5. QED BY <1>1, <1>2, <1>3, <1>4, PTL

LEMMA FunnelSteps == Spec => Facts!TxSteps
<1>1. Tx!TxInit => Facts!TxInit
  BY DEF Tx!TxInit, Facts!TxInit
<1>2. [Tx!TxNext]_txVars => [Facts!TxNext]_(Facts!txVars)
  BY DEF txVars, Facts!txVars,
     Tx!TxNext, Tx!TxStep, Tx!TxRuns, Tx!InTransport, Tx!Stalled, Tx!Outranks, Tx!Lenders,
     Tx!Lock, Tx!Write, Tx!GiveUp, Tx!Unlock, Tx!HandOver, Tx!Waiters, Tx!CountReport,
     Tx!HostRead,
     Facts!TxNext, Facts!TxStep, Facts!TxRuns, Facts!InTransport, Facts!Stalled,
     Facts!Outranks, Facts!Lenders, Facts!Lock, Facts!Write, Facts!GiveUp,
     Facts!Unlock, Facts!HandOver, Facts!Waiters, Facts!CountReport, Facts!HostRead
<1>3. QED BY <1>1, <1>2, FirmwareUsesComponents, PTL DEF UsesComponents, Facts!TxSteps

LEMMA QueueFactsHold ==
  Facts!QueueSteps => [](Facts!QueueTypeOK /\ Facts!NothingLost)
<1>1. Facts!QueueSteps => []Facts!QueueTypeOK
  BY PartsAssume, HidVizAssumption, ComponentAssumption, Facts!QueueTypes
<1>2. Facts!QueueSteps => []Facts!NothingLost
  BY PartsAssume, HidVizAssumption, ComponentAssumption, Facts!AcceptedIsServed
<1>3. QED BY <1>1, <1>2, PTL

LEMMA QueueSteps == Spec => Facts!QueueSteps
<1>1. Queue!QueueInit => Facts!QueueInit
  BY DEF Queue!QueueInit, Facts!QueueInit
<1>2. [Queue!QueueNext]_queueVars => [Facts!QueueNext]_(Facts!queueVars)
  BY DEF queueVars, Facts!queueVars,
     Queue!QueueNext, Queue!Finish, Queue!Put, Queue!PutToWorker, Queue!PutInQueue,
     Queue!Drop, Facts!QueueNext, Facts!Finish, Facts!Put,
     Facts!PutToWorker, Facts!PutInQueue, Facts!Drop
<1>3. QED BY <1>1, <1>2, FirmwareUsesComponents, PTL DEF UsesComponents, Facts!QueueSteps

LEMMA ManifestFactsHold ==
  Facts!ManifestSteps => []( /\ Facts!ManifestTypeOK
                             /\ Facts!LatestRequestServed
                             /\ Facts!StreamsNeverExceedRequests )
<1>1. Facts!ManifestSteps => []Facts!ManifestTypeOK
  BY PartsAssume, HidVizAssumption, ComponentAssumption, Facts!ManifestTypes
<1>2. Facts!ManifestSteps => []Facts!LatestRequestServed
  BY PartsAssume, HidVizAssumption, ComponentAssumption, Facts!LatestIsServed
<1>3. Facts!ManifestSteps => []Facts!StreamsNeverExceedRequests
  BY PartsAssume, HidVizAssumption, ComponentAssumption, Facts!OneStreamPerRequest
<1>4. QED BY <1>1, <1>2, <1>3, PTL

(* The steps of the firmware that concern the manifest worker are those of  *)
(* its specification, the flag being what the worker itself makes of it.    *)
LEMMA ManifestStep ==
  [Next]_vars => [Facts!ManifestNext]_(Facts!manifestVars)
<1> SUFFICES ASSUME [Next]_vars
             PROVE  Facts!ManifestNext \/ UNCHANGED Facts!manifestVars
  OBVIOUS
<1> USE DEF Facts!manifestVars, OwnMute
<1>1. CASE \E t \in Threads : Sending(t)
  BY <1>1 DEF Sending, Notify, ScanLayer, ZeroBuffer, WriteHeader, WriteMask,
     EnterFunnel, Transmit, LeaveFunnel, TimeOut, manVars
<1>2. ASSUME NEW c \in Commands, Receive(c)
      PROVE  Facts!ManifestNext \/ UNCHANGED Facts!manifestVars
  <2>1. CASE c.type = "GET_MANIFEST"
    <3>1. c.start \in StartIndices /\ Manifest!Request(c.start)
      BY <1>2, <2>1, ReportAssumption DEF Receive
    <3>2. Facts!Request(c.start)
      BY <3>1 DEF Manifest!Request, Facts!Request
    <3>3. QED BY <3>1, <3>2 DEF Facts!ManifestNext
  <2>2. CASE c.type # "GET_MANIFEST"
    BY <1>2, <2>2 DEF Receive, manVars
  <2>3. QED BY <2>1, <2>2
<1>3. CASE \/ HostReads
           \/ \E key \in LayerKeys : LayerKey(key)
           \/ \E p \in Positions : KeyEvent(p)
           \/ \E b \in Bindings : Originate(b)
  BY <1>3 DEF HostReads, LayerKey, KeyEvent, Originate, manVars
<1>4. CASE SignalWorker
  BY <1>4 DEF SignalWorker, Manifest!Give, Facts!Give, Facts!ManifestNext
<1>5. CASE StreamStep
  <2>1. Manifest!ReadStart => Facts!ReadStart
    BY DEF Manifest!ReadStart, Facts!ReadStart
  <2>2. Manifest!Mute => Facts!Mute
    BY DEF Manifest!Mute, Facts!Mute
  <2>3. Manifest!NextEntry => Facts!NextEntry
    BY DEF Manifest!NextEntry, Facts!NextEntry
  <2>4. Manifest!EndStream => Facts!EndStream
    BY DEF Manifest!EndStream, Facts!EndStream
  <2>5. Manifest!Unmute => Facts!Unmute
    BY DEF Manifest!Unmute, Facts!Unmute
  <2>6. QED BY <1>5, <2>1, <2>2, <2>3, <2>4, <2>5
            DEF StreamStep, Facts!ManifestNext, Facts!WorkerStep
<1>6. CASE Dispatching
  BY <1>6 DEF Dispatching, Reply, SetLayers, ClearLayer, FillLayer, ReportSetLayers,
     SetBase, LeaveLayer, EnterLayer, Nudge, SendConfirm, Ignore, FinishCommand, manVars
<1>7. CASE UNCHANGED vars
  BY <1>7 DEF vars, manVars
<1>8. QED BY <1>1, <1>2, <1>3, <1>4, <1>5, <1>6, <1>7 DEF Next, Environment

LEMMA ManifestSteps == Spec => Facts!ManifestSteps
<1>1. Init => Facts!ManifestInit
  BY DEF Init, Manifest!ManifestInit, Facts!ManifestInit, OwnMute
<1>2. QED BY <1>1, ManifestStep, PTL DEF Spec, Facts!ManifestSteps

(* What the components promise of themselves holds in the firmware, beside  *)
(* everything else that goes on there: no two threads are in the transport  *)
(* together, no sender sleeps without someone to wake it and ZMK's context  *)
(* waits for one report at most (hid_viz_send.h:6-22); no accepted command  *)
(* is lost or overtaken (command_dispatch.c:24-71); the latest manifest     *)
(* request is answered and none twice (manifest.c:202-256).                 *)
THEOREM FirmwareKeepsPromises ==
  Spec => []( /\ Tx!OneInTransport /\ Tx!SleepersHaveHolder
              /\ Tx!MostUrgentWaitsOneReport
              /\ Queue!NothingLost
              /\ Manifest!LatestRequestServed
              /\ Manifest!StreamsNeverExceedRequests )
<1>1. Facts!OneInTransport => Tx!OneInTransport
  BY DEF Tx!OneInTransport, Facts!OneInTransport, Tx!InTransport, Facts!InTransport
<1>2. Facts!SleepersHaveHolder => Tx!SleepersHaveHolder
  BY DEF Tx!SleepersHaveHolder, Facts!SleepersHaveHolder, Tx!InTransport,
     Facts!InTransport
<1>3. Facts!MostUrgentWaitsOneReport => Tx!MostUrgentWaitsOneReport
  BY DEF Tx!MostUrgentWaitsOneReport, Facts!MostUrgentWaitsOneReport, Tx!MostUrgent,
     Facts!MostUrgent
<1>4. Facts!NothingLost => Queue!NothingLost
  BY DEF Queue!NothingLost, Facts!NothingLost
<1>5. Facts!LatestRequestServed => Manifest!LatestRequestServed
  BY DEF Manifest!LatestRequestServed, Facts!LatestRequestServed
<1>6. Facts!StreamsNeverExceedRequests => Manifest!StreamsNeverExceedRequests
  BY DEF Manifest!StreamsNeverExceedRequests, Facts!StreamsNeverExceedRequests
<1>7. QED
  BY <1>1, <1>2, <1>3, <1>4, <1>5, <1>6, FunnelFacts, FunnelSteps, QueueFactsHold,
     QueueSteps, ManifestFactsHold, ManifestSteps, PTL

(* The types the components give their variables.                           *)
PartsTyped ==
  Tx!TxTypeOK /\ Queue!QueueTypeOK /\ Manifest!ManifestTypeOK

FlagType == suppress \in BOOLEAN

LEMMA FlagTyped == Spec => []FlagType
<1> USE DEF FlagType
<1>1. Init => FlagType
  BY DEF Init, Manifest!ManifestInit
<1>2. FlagType /\ [Next]_vars => FlagType'
  <2> SUFFICES ASSUME FlagType, [Next]_vars PROVE FlagType'
    OBVIOUS
  <2>1. CASE \E t \in Threads : Sending(t)
    BY <2>1 DEF Sending, Notify, ScanLayer, ZeroBuffer, WriteHeader, WriteMask,
       EnterFunnel, Transmit, LeaveFunnel, TimeOut
  <2>2. CASE Environment
    BY <2>2 DEF Environment, HostReads, Receive, Manifest!Request, LayerKey, KeyEvent,
       Originate
  <2>3. CASE Dispatching
    BY <2>3 DEF Dispatching, Reply, SetLayers, ClearLayer, FillLayer, ReportSetLayers,
       SetBase, LeaveLayer, EnterLayer, Nudge, SendConfirm, Ignore, FinishCommand
  <2>4. CASE SignalWorker \/ StreamStep \/ UNCHANGED vars
    BY <2>4 DEF SignalWorker, Manifest!Give, StreamStep, Manifest!ReadStart,
       Manifest!Mute, Manifest!NextEntry, Manifest!EndStream, Manifest!Unmute, vars
  <2>5. QED BY <2>1, <2>2, <2>3, <2>4 DEF Next
<1>3. QED BY <1>1, <1>2, PTL DEF Spec

LEMMA PartsTypedInvariant == Spec => []PartsTyped
<1>1. Facts!TxTypeOK => Tx!TxTypeOK
  BY DEF Tx!TxTypeOK, Facts!TxTypeOK, Tx!TxStates, Facts!TxStates
<1>2. Facts!QueueTypeOK => Queue!QueueTypeOK
  BY DEF Queue!QueueTypeOK, Facts!QueueTypeOK
<1>3. Facts!ManifestTypeOK /\ FlagType => Manifest!ManifestTypeOK
  BY DEF FlagType, Manifest!ManifestTypeOK, Facts!ManifestTypeOK, Manifest!WorkerStates,
     Facts!WorkerStates
<1>4. QED
  BY <1>1, <1>2, <1>3, FunnelFacts, FunnelSteps, QueueFactsHold, FlagTyped,
     QueueSteps, ManifestFactsHold, ManifestSteps, PTL DEF PartsTyped

-----------------------------------------------------------------------------
(***************************************************************************)
(* The course of the threads: which labels each passes, and that the       *)
(* dispatch worker is on its way to a confirm only for a 0xF2 or 0xF3.     *)
(***************************************************************************)
OnItsWay == {"notify", "send"} \cup Composing

Course ==
  /\ pc["sys"] \in {"idle"} \cup OnItsWay /\ back["sys"] = "idle"
  /\ pc["cmd"] \in {"handle", "clear", "fill", "base", "confirm", "finish"} \cup OnItsWay
  /\ back["cmd"] \in {"handle", "clear", "fill", "base", "confirm", "finish"}
  /\ pc["cmd"] \in OnItsWay => back["cmd"] # "handle"
  /\ pc["cmd"] = "confirm" => back["cmd"] = "confirm"
  /\ back["cmd"] = "confirm" =>
       pc["cmd"] \in {"confirm"} \cup OnItsWay /\ item \in Commands /\ IsNudge(item)

(* A thread that reports or sends goes on in that, or returns.              *)
LEMMA SendingFlow ==
  ASSUME IInv, NEW t \in Threads, Sending(t)
  PROVE  /\ back' = back
         /\ \A u \in Threads \ {t} : pc'[u] = pc[u]
         /\ \/ pc'[t] = pc[t]
            \/ pc[t] \in {"notify"} \cup Composing /\ pc'[t] \in Composing \cup {"send"}
            \/ pc[t] \in {"notify", "send"} /\ pc'[t] = back[t]
<1> USE DEF IInv, Control
<1>1. CASE Notify(t)
  BY <1>1 DEF Notify, At, ReportLayers, Call, Goto, Composing
<1>2. CASE ScanLayer(t) \/ ZeroBuffer(t) \/ WriteHeader(t) \/ WriteMask(t)
  BY <1>2 DEF ScanLayer, ZeroBuffer, WriteHeader, WriteMask, At, Send, Call, Goto,
     Composing, flow
<1>3. CASE EnterFunnel(t) \/ Transmit(t) \/ TimeOut(t)
  BY <1>3 DEF EnterFunnel, Transmit, TimeOut, flow
<1>4. CASE LeaveFunnel(t)
  BY <1>4 DEF LeaveFunnel, At, Goto
<1>5. QED BY <1>1, <1>2, <1>3, <1>4 DEF Sending

(* What the dispatch worker does in a handler.                              *)
LEMMA DispatchFlow ==
  ASSUME IInv, Dispatching
  PROVE  LET l == pc'["cmd"]
             k == back'["cmd"]
         IN  /\ \A u \in Threads \ {"cmd"} : pc'[u] = pc[u] /\ back'[u] = back[u]
             /\ Runs("cmd")
             /\ \/ /\ pc["cmd"] = "handle" /\ item' = item
                   /\ \/ l \in {"clear", "base", "finish"} /\ k = back["cmd"]
                      \/ l = "send" /\ k = "finish"
                      \/ l \in {"notify", "confirm"} /\ k = "confirm" /\ IsNudge(item)
                \/ /\ pc["cmd"] \in {"clear", "fill", "base"} /\ item' = item
                   /\ \/ l \in {"clear", "fill", "base"} /\ k = back["cmd"]
                      \/ /\ l \in {"clear", "fill", "base", "finish", "notify"}
                         /\ k \in {"clear", "fill", "base", "finish"}
                      \/ l = "scan" /\ k = "finish"
                \/ /\ pc["cmd"] = "confirm" /\ item' = item
                   /\ l = "send" /\ k = "finish"
                \/ /\ pc["cmd"] = "finish"
                   /\ l = "handle" /\ k = back["cmd"]
<1> USE DEF IInv, Control, At, Handle, Goto, Call, Send, queueVars, Threads
<1>1. CASE Reply("GET_DEVICE_INFO", "DEVICE_INFO") \/ Reply("GET_CONFIG_ID", "CONFIG_ID")
  BY <1>1 DEF Reply
<1>2. CASE SetLayers \/ SetBase \/ Ignore
  BY <1>2 DEF SetLayers, SetBase, Ignore
<1>3. CASE ClearLayer
  BY <1>3 DEF ClearLayer, KeymapOp, flow
<1>4. CASE FillLayer
  BY <1>4 DEF FillLayer, KeymapOp, flow
<1>5. CASE ReportSetLayers
  BY <1>5 DEF ReportSetLayers, ReportLayers
<1>6. CASE LeaveLayer \/ EnterLayer
  BY <1>6 DEF LeaveLayer, EnterLayer, KeymapOp, flow
<1>7. CASE Nudge("LAYER_ACTIVATE", TRUE) \/ Nudge("LAYER_DEACTIVATE", FALSE)
  BY <1>7 DEF Nudge, KeymapOp, IsNudge
<1>8. CASE SendConfirm
  BY <1>8 DEF SendConfirm
<1>9. CASE FinishCommand
  BY <1>9 DEF FinishCommand
<1>10. QED
  BY <1>1, <1>2, <1>3, <1>4, <1>5, <1>6, <1>7, <1>8, <1>9 DEF Dispatching

(* What an event does to ZMK's own context.                                 *)
LEMMA EventFlow ==
  ASSUME IInv, \/ \E key \in LayerKeys : LayerKey(key)
               \/ \E p \in Positions : KeyEvent(p)
               \/ \E b \in Bindings : Originate(b)
  PROVE  /\ \A u \in Threads \ {"sys"} : pc'[u] = pc[u] /\ back'[u] = back[u]
         /\ pc["sys"] = "idle" /\ item' = item
         /\ \/ pc'["sys"] = "idle" /\ back'["sys"] = back["sys"]
            \/ pc'["sys"] \in {"idle", "notify", "send"} /\ back'["sys"] = "idle"
<1> USE DEF IInv, Control, Event, Call, Send, queueVars, Threads, flow
<1>1. CASE \E key \in LayerKeys : LayerKey(key)
  BY <1>1 DEF LayerKey, KeymapOp
<1>2. CASE \E p \in Positions : KeyEvent(p)
  BY <1>2 DEF KeyEvent, Fire
<1>3. CASE \E b \in Bindings : Originate(b)
  BY <1>3 DEF Originate, PressEmit, PressEmitFixed, PressSignal, PressSignalFixed,
     EmitSend, SendSignal, Fire
<1>4. QED BY <1>1, <1>2, <1>3

LEMMA CourseInit == Init => Course
BY DEF Init, Course, Threads, OnItsWay, Composing

LEMMA CourseStep == IInv /\ PartsTyped /\ Working /\ Course /\ [Next]_vars => Course'
<1> SUFFICES ASSUME IInv, PartsTyped, Working, Course, [Next]_vars PROVE Course'
  OBVIOUS
<1> USE DEF Course, OnItsWay
<1>1. ASSUME NEW t \in Threads, Sending(t) PROVE Course'
  <2>1. item' = item
    BY <1>1 DEF Sending, Notify, ScanLayer, ZeroBuffer, WriteHeader, WriteMask,
       EnterFunnel, Transmit, LeaveFunnel, TimeOut, queueVars
  <2>2. t = "man" => pc'["sys"] = pc["sys"] /\ pc'["cmd"] = pc["cmd"] /\ back' = back
    BY <1>1, SendingFlow DEF Threads
  <2>3. CASE t = "man"
    BY <2>1, <2>2, <2>3
  <2>4. CASE t = "sys"
    BY <1>1, <2>1, <2>4, SendingFlow DEF Threads, Composing
  <2>5. CASE t = "cmd"
    BY <1>1, <2>1, <2>5, SendingFlow DEF Threads, Composing
  <2>6. QED BY <2>3, <2>4, <2>5 DEF Threads
<1>2. ASSUME NEW c \in Commands, Receive(c) PROVE Course'
  <2>1. UNCHANGED <<pc, back>>
    BY <1>2 DEF Receive, flow
  <2>2. item' = item \/ item = NoCommand
    BY <1>2 DEF Receive, Queue!Put, Queue!PutToWorker, Queue!PutInQueue, Queue!Drop
  <2>3. NoCommand \notin Commands
    BY HidVizAssumption
  <2>4. QED BY <2>1, <2>2, <2>3
<1>3. CASE \/ \E key \in LayerKeys : LayerKey(key)
           \/ \E p \in Positions : KeyEvent(p)
           \/ \E b \in Bindings : Originate(b)
  BY <1>3, EventFlow DEF Threads
<1>4. CASE Dispatching
  <2>1. item \in Commands \/ item = NoCommand
    BY DEF PartsTyped, Queue!QueueTypeOK
  <2>2. Runs("cmd") => item # NoCommand
    BY DEF Runs, Ready, HasWork
  <2>3. QED BY <1>4, <2>1, <2>2, DispatchFlow DEF Threads, Composing
<1>5. CASE StreamStep
  <2>1. item' = item /\ At("man", "run")
    BY <1>5 DEF StreamStep, queueVars
  <2>2. \A u \in Threads \ {"man"} : pc'[u] = pc[u] /\ back'[u] = back[u]
    BY <1>5 DEF StreamStep, Send, Call, flow, IInv, Control
  <2>3. QED BY <2>1, <2>2 DEF Threads
<1>6. CASE HostReads \/ SignalWorker \/ UNCHANGED vars
  BY <1>6 DEF HostReads, SignalWorker, vars, flow, queueVars
<1>7. QED
  BY <1>1, <1>2, <1>3, <1>4, <1>5, <1>6 DEF Next, Environment

LEMMA CourseInvariant == Spec => [](IInv /\ Working /\ PartsTyped /\ Course)
<1>1. Spec => []Working
  BY WorkingInit, WorkingStep, IInvInvariant, PTL DEF Spec
<1>2. QED
  BY <1>1, IInvInvariant, PartsTypedInvariant, CourseInit, CourseStep, PTL DEF Spec

-----------------------------------------------------------------------------
(***************************************************************************)
(* The types of this module's variables.  By thread, what it may pass to   *)
(* hid_viz_send(): the report of layers is sent by the two contexts that   *)
(* change them, the rest by one only.                                      *)
(***************************************************************************)
Passed(t) == IF t = "sys" THEN OwnReports \cup {Blank, LayerBuf}
             ELSE IF t = "cmd" THEN Answers \cup {Blank, LayerBuf}
             ELSE Entries \cup {Blank}

ArgTyped == /\ arg \in [Threads -> Reports \cup {LayerBuf}]
            /\ \A t \in Threads : arg[t] \in Passed(t)

ComposedTyped == /\ bit \in [Threads -> 0..LayerBits]
                 /\ scan \in [Threads -> SUBSET (0..LayerBits - 1)]
                 /\ layer_buf \in LayerReports

HandledTyped == loop \in 0..LayerBits /\ ret \in BOOLEAN /\ active \subseteq KeymapLayers

HistoryTyped == /\ wire \in Seq(Reports) /\ fired \in Seq(OwnReports)
                /\ jobs \in 0..MaxJobs /\ disturbed \in BOOLEAN

Typed == ArgTyped /\ ComposedTyped /\ HandledTyped /\ HistoryTyped

LEMMA BlankTyped == Blank \in LayerReports /\ \A t \in Threads : Blank \in Passed(t)
BY DEF Blank, LayerReports, Passed

LEMMA PassedTyped ==
  \A t \in Threads : Passed(t) \subseteq Reports \cup {LayerBuf}
BY BlankTyped DEF Passed, Reports, Threads

(* What a thread passes when it calls hid_viz_send() has the thread's type. *)
LEMMA SendTyped ==
  ASSUME ArgTyped, NEW t \in Threads, NEW r \in Passed(t), arg' = [arg EXCEPT ![t] = r]
  PROVE  ArgTyped'
BY PassedTyped DEF ArgTyped

LEMMA TypedInit == Init => Typed
<1> SUFFICES ASSUME Init PROVE Typed
  OBVIOUS
<1> USE DEF Init
<1>1. ArgTyped
  BY BlankTyped, PassedTyped DEF ArgTyped
<1>2. ComposedTyped
  BY BlankTyped, HidVizAssumption DEF ComposedTyped
<1>3. HandledTyped
  <2>1. loop \in 0..LayerBits
    BY HidVizAssumption
  <2>2. ret \in BOOLEAN
    OBVIOUS
  <2>3. active \subseteq KeymapLayers
    BY HidVizAssumption
  <2>4. QED BY <2>1, <2>2, <2>3 DEF HandledTyped
<1>4. HistoryTyped
  <2>1. wire = <<>> /\ fired = <<>> /\ jobs = 0 /\ disturbed = FALSE
    OBVIOUS
  <2>2. wire \in Seq(Reports)
    BY <2>1
  <2>3. fired \in Seq(OwnReports)
    BY <2>1
  <2>4. jobs \in 0..MaxJobs
    BY <2>1, HidVizAssumption
  <2>5. disturbed \in BOOLEAN
    BY <2>1
  <2>6. QED BY <2>2, <2>3, <2>4, <2>5 DEF HistoryTyped
<1>5. QED BY <1>1, <1>2, <1>3, <1>4 DEF Typed

(* The keymap knows no layers but its own.                                  *)
LEMMA KeymapTyped ==
  ASSUME active \subseteq KeymapLayers, NEW t, NEW l, NEW on, NEW k, KeymapOp(t, l, on, k)
  PROVE  active' \subseteq KeymapLayers
BY DEF KeymapOp

LEMMA SendingTyped ==
  ASSUME IInv, Course, Typed, NEW t \in Threads, Sending(t) PROVE Typed'
<1> USE HidVizAssumption DEF Typed
<1>1. HandledTyped'
  BY DEF HandledTyped, Sending, Notify, ScanLayer, ZeroBuffer, WriteHeader, WriteMask,
     EnterFunnel, Transmit, LeaveFunnel, TimeOut, handler
<1>2. ComposedTyped'
  <2> USE DEF ComposedTyped
  <2>1. CASE ScanLayer(t)
    BY <2>1 DEF ScanLayer
  <2>2. CASE ZeroBuffer(t)
    BY <2>2, BlankTyped DEF ZeroBuffer
  <2>3. CASE WriteHeader(t)
    BY <2>3 DEF WriteHeader, LayerReports
  <2>4. CASE WriteMask(t)
    <3>1. layer_buf' \in LayerReports
      BY <2>4 DEF WriteMask, LayerReports
    <3>2. QED BY <2>4, <3>1 DEF WriteMask
  <2>5. CASE Notify(t) \/ EnterFunnel(t) \/ Transmit(t) \/ LeaveFunnel(t) \/ TimeOut(t)
    BY <2>5 DEF Notify, EnterFunnel, Transmit, LeaveFunnel, TimeOut, report
  <2>6. QED BY <2>1, <2>2, <2>3, <2>4, <2>5 DEF Sending
<1>3. ArgTyped'
  <2>1. CASE WriteMask(t)
    <3>1. t # "man"
      BY <2>1 DEF WriteMask, At, IInv, Control
    <3>2. LayerBuf \in Passed(t)
      BY <3>1 DEF Passed, Threads
    <3>3. QED BY <2>1, <3>2, SendTyped DEF WriteMask, Send
  <2>2. CASE LeaveFunnel(t)
    BY <2>2, BlankTyped, SendTyped DEF LeaveFunnel
  <2>3. CASE arg' = arg
    BY <2>3 DEF ArgTyped
  <2>4. QED BY <2>1, <2>2, <2>3 DEF Sending, Notify, ScanLayer, ZeroBuffer, WriteHeader,
               EnterFunnel, Transmit, TimeOut
<1>4. HistoryTyped'
  <2> USE DEF HistoryTyped
  <2>1. CASE Transmit(t)
    <3>1. Contents(arg[t]) \in Reports
      BY DEF Contents, ArgTyped, ComposedTyped, Reports
    <3>2. QED BY <2>1, <3>1 DEF Transmit, events
  <2>2. CASE Notify(t) \/ TimeOut(t)
    BY <2>2 DEF Notify, ReportLayers, TimeOut, events
  <2>3. CASE \/ ScanLayer(t) \/ ZeroBuffer(t) \/ WriteHeader(t) \/ WriteMask(t)
             \/ EnterFunnel(t) \/ LeaveFunnel(t)
    BY <2>3 DEF ScanLayer, ZeroBuffer, WriteHeader, WriteMask, EnterFunnel, LeaveFunnel,
       events
  <2>4. QED BY <2>1, <2>2, <2>3 DEF Sending
<1>5. QED BY <1>1, <1>2, <1>3, <1>4

LEMMA DispatchTyped ==
  ASSUME IInv, Course, Typed, Dispatching PROVE Typed'
<1> USE DEF Typed
<1>1. ComposedTyped' /\ HistoryTyped'
  <2>1. UNCHANGED <<bit, scan, layer_buf, wire, fired, jobs>> /\ disturbed' \in BOOLEAN
    BY DEF Dispatching, Reply, SetLayers, ClearLayer, FillLayer, ReportSetLayers,
       SetBase, LeaveLayer, EnterLayer, Nudge, SendConfirm, Ignore, FinishCommand,
       ReportLayers, report, events, HistoryTyped
  <2>2. QED BY <2>1 DEF ComposedTyped, HistoryTyped
<1>2. HandledTyped'
  <2>1. loop' \in 0..LayerBits
    <3>1. loop \in Nat /\ loop <= LayerBits /\ LayerBits \in Nat \ {0}
      BY HidVizAssumption DEF HandledTyped
    <3>2. \/ loop' \in {1, loop, LayerBits - 1}
          \/ loop < LayerBits /\ loop' = loop + 1
          \/ loop > 0 /\ loop' = loop - 1
      BY DEF Dispatching, Reply, SetLayers, ClearLayer, FillLayer, ReportSetLayers,
         SetBase, LeaveLayer, EnterLayer, Nudge, SendConfirm, Ignore, FinishCommand, handler
    <3>3. QED BY <3>1, <3>2
  <2>2. ret' \in BOOLEAN
    <3>1. ret' = ret \/ ret' = (item.layer \in KeymapLayers)
      BY DEF Dispatching, Reply, SetLayers, ClearLayer, FillLayer, ReportSetLayers,
         SetBase, LeaveLayer, EnterLayer, Nudge, SendConfirm, Ignore, FinishCommand, handler
    <3>2. (item.layer \in KeymapLayers) \in BOOLEAN
      OBVIOUS
    <3>3. QED BY <3>1, <3>2, Zenon DEF HandledTyped
  <2>3. active' \subseteq KeymapLayers
    <3>1. active' = active \/ \E l, on, k : KeymapOp("cmd", l, on, k)
      BY DEF Dispatching, Reply, SetLayers, ClearLayer, FillLayer, ReportSetLayers,
         SetBase, LeaveLayer, EnterLayer, Nudge, SendConfirm, Ignore, FinishCommand
    <3>2. QED BY <3>1, KeymapTyped DEF HandledTyped
  <2>4. QED BY <2>1, <2>2, <2>3 DEF HandledTyped
<1>3. ArgTyped'
  <2>0. "cmd" \in Threads
    BY DEF Threads
  <2>1. CASE SendConfirm
    <3>1. item \in Commands /\ IsNudge(item)
      BY <2>1 DEF SendConfirm, At, Course
    <3>2. item.ref \in Nat
      BY <3>1, ReportAssumption DEF IsNudge
    <3>3. Confirm(item, ret) \in Passed("cmd")
      BY <3>2 DEF Confirm, Passed, Answers, HandledTyped
    <3>4. QED BY <2>0, <2>1, <3>3, SendTyped DEF SendConfirm, Send
  <2>2. CASE Reply("GET_DEVICE_INFO", "DEVICE_INFO") \/ Reply("GET_CONFIG_ID", "CONFIG_ID")
    <3>1. PICK r \in {"DEVICE_INFO", "CONFIG_ID"} :
            arg' = [arg EXCEPT !["cmd"] = [type |-> r]]
      BY <2>2 DEF Reply, Send
    <3>2. [type |-> r] \in Passed("cmd")
      BY DEF Passed, Answers
    <3>3. QED BY <2>0, <3>1, <3>2, SendTyped
  <2>3. CASE arg' = arg
    BY <2>3 DEF ArgTyped
  <2>4. QED BY <2>1, <2>2, <2>3 DEF Dispatching, SetLayers, ClearLayer, FillLayer,
               ReportSetLayers, SetBase, LeaveLayer, EnterLayer, Nudge, Ignore, FinishCommand
<1>4. QED BY <1>1, <1>2, <1>3

(* What key events and behaviours call for are reports of ZMK's context.    *)
LEMMA EventReports ==
  ASSUME \/ \E p \in Positions : KeyEvent(p)
         \/ \E b \in Bindings : Originate(b)
  PROVE  UNCHANGED <<flow, arg, fired>> \/ \E r \in OwnReports : Fire(r)
<1>1. ASSUME NEW p \in Positions, KeyEvent(p)
      PROVE  UNCHANGED <<flow, arg, fired>> \/ \E r \in OwnReports : Fire(r)
  BY <1>1 DEF KeyEvent, OwnReports
<1>2. ASSUME NEW b \in Bindings, Originate(b)
      PROVE  \E r \in OwnReports : Fire(r)
  <2>1. \A n \in Nat : Byte(n) \in Nat
    BY ReportAssumption DEF Byte
  <2>2. ASSUME NEW a \in Nat, NEW v \in Nat, EmitSend(a, v)
        PROVE  \E r \in OwnReports : Fire(r)
    BY <2>2 DEF EmitSend, OwnReports
  <2>3. ASSUME NEW a \in Nat, SendSignal(a)
        PROVE  \E r \in OwnReports : Fire(r)
    BY <2>3 DEF SendSignal, OwnReports
  <2>4. QED BY <1>2, <2>1, <2>2, <2>3, ReportAssumption
            DEF Originate, PressEmit, PressEmitFixed, PressSignal, PressSignalFixed
<1>3. QED BY <1>1, <1>2

LEMMA EventTyped ==
  ASSUME Typed, \/ \E key \in LayerKeys : LayerKey(key)
                \/ \E p \in Positions : KeyEvent(p)
                \/ \E b \in Bindings : Originate(b)
  PROVE  Typed'
<1> USE DEF Typed
<1>1. jobs' \in 0..MaxJobs
  <2>1. jobs \in 0..MaxJobs /\ MaxJobs \in Nat
    BY HidVizAssumption DEF HistoryTyped
  <2>2. jobs < MaxJobs /\ jobs' = jobs + 1
    BY DEF LayerKey, KeyEvent, Originate, Event
  <2>3. QED BY <2>1, <2>2
<1>2. UNCHANGED <<bit, scan, layer_buf, loop, ret, wire, disturbed>>
  BY DEF LayerKey, KeyEvent, Originate, report, handler
<1>3. ComposedTyped'
  BY <1>2 DEF ComposedTyped
<1>4. CASE \E key \in LayerKeys : LayerKey(key)
  <2>1. active' \subseteq KeymapLayers /\ UNCHANGED <<arg, fired>>
    BY <1>4, KeymapTyped DEF LayerKey, HandledTyped
  <2>2. QED BY <1>1, <1>2, <1>3, <2>1 DEF HandledTyped, HistoryTyped, ArgTyped
<1>5. CASE \/ \E p \in Positions : KeyEvent(p)
           \/ \E b \in Bindings : Originate(b)
  <2>1. active' = active
    BY <1>5 DEF KeyEvent, Originate
  <2>2. CASE UNCHANGED <<arg, fired>>
    BY <1>1, <1>2, <1>3, <2>1, <2>2 DEF HandledTyped, HistoryTyped, ArgTyped
  <2>3. ASSUME NEW r \in OwnReports, Fire(r) PROVE Typed'
    <3>1. r \in Passed("sys") /\ "sys" \in Threads
      BY DEF Passed, Threads
    <3>2. ArgTyped'
      BY <2>3, <3>1, SendTyped DEF Fire, Send
    <3>3. fired' \in Seq(OwnReports)
      BY <2>3 DEF Fire, HistoryTyped
    <3>4. HistoryTyped'
      BY <1>1, <1>2, <3>3 DEF HistoryTyped
    <3>5. QED BY <1>2, <1>3, <2>1, <3>2, <3>4 DEF HandledTyped
  <2>4. QED BY <1>5, <2>2, <2>3, EventReports
<1>6. QED BY <1>4, <1>5

LEMMA StreamTyped ==
  ASSUME PartsTyped, Typed, StreamStep PROVE Typed'
<1> USE DEF Typed
<1>1. UNCHANGED <<bit, scan, layer_buf, loop, ret, active, wire, fired, jobs, disturbed>>
  BY DEF StreamStep, report, handler, events
<1>2. ArgTyped'
  <2>1. CASE arg' = arg
    BY <2>1 DEF ArgTyped
  <2>2. CASE Send("man", [type |-> "MANIFEST_ENTRY", stream |-> streams, seq |-> cursor],
                  "run")
    <3>1. streams \in Nat /\ cursor \in Nat
      BY DEF PartsTyped, Manifest!ManifestTypeOK
    <3>2. [type |-> "MANIFEST_ENTRY", stream |-> streams, seq |-> cursor] \in Passed("man")
      BY <3>1 DEF Passed, Entries
    <3>3. "man" \in Threads
      BY DEF Threads
    <3>4. QED BY <2>2, <3>2, <3>3, SendTyped DEF Send
  <2>3. QED BY <2>1, <2>2 DEF StreamStep
<1>3. QED BY <1>1, <1>2 DEF ComposedTyped, HandledTyped, HistoryTyped

LEMMA TypedStep ==
  IInv /\ PartsTyped /\ Course /\ Typed /\ [Next]_vars => Typed'
<1> SUFFICES ASSUME IInv, PartsTyped, Course, Typed, [Next]_vars PROVE Typed'
  OBVIOUS
<1>1. CASE \/ HostReads \/ SignalWorker \/ UNCHANGED vars
           \/ \E c \in Commands : Receive(c)
  <2>1. UNCHANGED <<arg, bit, scan, layer_buf, loop, ret, active, wire, fired, jobs, disturbed>>
    BY <1>1 DEF HostReads, SignalWorker, Receive, vars, report, handler, events
  <2>2. QED BY <2>1 DEF Typed, ArgTyped, ComposedTyped, HandledTyped, HistoryTyped
<1>2. QED
  BY <1>1, SendingTyped, DispatchTyped, EventTyped, StreamTyped DEF Next, Environment

LEMMA TypedInvariant == Spec => [](IInv /\ Working /\ PartsTyped /\ Course /\ Typed)
BY CourseInvariant, TypedInit, TypedStep, PTL DEF Spec

(* Type correctness of the whole firmware: labels, reports, layers and the  *)
(* components' variables, the queue's bound (command_dispatch.c:24) and the *)
(* semaphore's (manifest.c:197) among them.                                 *)
THEOREM TypeCorrect == Spec => []TypeOK
<1>1. IInv /\ PartsTyped /\ Course /\ Typed => TypeOK
  <2> SUFFICES ASSUME IInv, PartsTyped, Course, Typed PROVE TypeOK
    OBVIOUS
  <2>1. pc \in [Threads -> Labels]
    BY DEF IInv, Control
  <2>2. back \in [Threads -> Resumable]
    BY DEF IInv, Control, Course, Resumable, Threads
  <2>3. QED BY <2>1, <2>2 DEF Typed, ArgTyped, ComposedTyped, HandledTyped, HistoryTyped,
               PartsTyped, TypeOK
<1>2. QED BY <1>1, TypedInvariant, PTL

-----------------------------------------------------------------------------
(***************************************************************************)
(* The reports of some types among the first of a sequence, and what one   *)
(* more report makes of them.                                              *)
(***************************************************************************)
Among(w, types, n) == {m \in 1..n : w[m].type \in types}

LEMMA AmongFinite ==
  ASSUME NEW w, NEW types, NEW n \in Nat
  PROVE  /\ IsFiniteSet(Among(w, types, n))
         /\ Cardinality(Among(w, types, n)) \in Nat
<1>1. IsFiniteSet(1..n)
  BY FS_Interval
<1>2. Among(w, types, n) \subseteq 1..n
  BY DEF Among
<1>3. QED BY <1>1, <1>2, FS_Subset, FS_CardinalityType

LEMMA AmongNext ==
  ASSUME NEW w, NEW types, NEW n \in Nat
  PROVE  /\ w[n + 1].type \in types =>
              /\ Among(w, types, n + 1) = Among(w, types, n) \cup {n + 1}
              /\ Cardinality(Among(w, types, n + 1)) = Cardinality(Among(w, types, n)) + 1
         /\ w[n + 1].type \notin types => Among(w, types, n + 1) = Among(w, types, n)
<1>1. 1..(n + 1) = (1..n) \cup {n + 1}
  OBVIOUS
<1>2. w[n + 1].type \in types => Among(w, types, n + 1) = Among(w, types, n) \cup {n + 1}
  BY <1>1 DEF Among
<1>3. n + 1 \notin Among(w, types, n)
  BY DEF Among
<1>4. w[n + 1].type \in types
        => Cardinality(Among(w, types, n + 1)) = Cardinality(Among(w, types, n)) + 1
  BY <1>2, <1>3, AmongFinite, FS_AddElement
<1>5. QED BY <1>1, <1>2, <1>4 DEF Among

(* What was among the first n stays so when the sequence grows.             *)
LEMMA AmongKept ==
  ASSUME NEW S, NEW w \in Seq(S), NEW r \in S, NEW types, NEW n \in 0..Len(w)
  PROVE  Among(Append(w, r), types, n) = Among(w, types, n)
<1>1. \A m \in 1..n : Append(w, r)[m] = w[m]
  OBVIOUS
<1>2. QED BY <1>1 DEF Among

LEMMA AmongAppend ==
  ASSUME NEW S, NEW w \in Seq(S), NEW r \in S, NEW types
  PROVE  LET v == Append(w, r)
         IN  /\ Len(v) = Len(w) + 1 /\ v[Len(v)] = r
             /\ \A m \in 1..Len(w) : v[m] = w[m]
             /\ \A n \in 0..Len(w) : Among(v, types, n) = Among(w, types, n)
             /\ r.type \in types =>
                  /\ Among(v, types, Len(v)) = Among(w, types, Len(w)) \cup {Len(v)}
                  /\ Cardinality(Among(v, types, Len(v)))
                       = Cardinality(Among(w, types, Len(w))) + 1
             /\ r.type \notin types => Among(v, types, Len(v)) = Among(w, types, Len(w))
<1> DEFINE v == Append(w, r)
<1>1. Len(w) \in Nat /\ Len(v) = Len(w) + 1 /\ v[Len(w) + 1] = r
      /\ \A m \in 1..Len(w) : v[m] = w[m]
  OBVIOUS
<1>2. \A n \in 0..Len(w) : Among(v, types, n) = Among(w, types, n)
  BY AmongKept
<1>3. Among(v, types, Len(w)) = Among(w, types, Len(w))
  BY <1>1, <1>2
<1>4. /\ r.type \in types =>
           /\ Among(v, types, Len(w) + 1) = Among(v, types, Len(w)) \cup {Len(w) + 1}
           /\ Cardinality(Among(v, types, Len(w) + 1))
                = Cardinality(Among(v, types, Len(w))) + 1
      /\ r.type \notin types => Among(v, types, Len(w) + 1) = Among(v, types, Len(w))
  <2> HIDE DEF v
  <2>1. QED BY <1>1, AmongNext
<1>5. QED BY <1>1, <1>2, <1>3, <1>4

-----------------------------------------------------------------------------
(***************************************************************************)
(* Steps, by what they do to the reports under way.  Only the transport's  *)
(* write adds to the wire; a thread is past its write, or not, as long as  *)
(* it takes no step in the funnel itself.                                  *)
(***************************************************************************)
Unsent(t) == pc[t] = "send" /\ tx[t] # "sent"

LEMMA WireStep == [Next]_vars => wire' = wire \/ \E t \in Threads : Transmit(t)
<1> SUFFICES ASSUME [Next]_vars PROVE wire' = wire \/ \E t \in Threads : Transmit(t)
  OBVIOUS
<1>1. CASE Environment \/ SignalWorker \/ StreamStep \/ UNCHANGED vars
  BY <1>1 DEF Environment, HostReads, Receive, LayerKey, KeyEvent, Originate,
     SignalWorker, StreamStep, vars
<1>2. CASE Dispatching
  BY <1>2 DEF Dispatching, Reply, SetLayers, ClearLayer, FillLayer, ReportSetLayers,
     SetBase, LeaveLayer, EnterLayer, Nudge, SendConfirm, Ignore, FinishCommand
<1>3. ASSUME NEW t \in Threads, Sending(t)
      PROVE  wire' = wire \/ \E u \in Threads : Transmit(u)
  BY <1>3 DEF Sending, Notify, ScanLayer, ZeroBuffer, WriteHeader, WriteMask,
     EnterFunnel, LeaveFunnel, TimeOut
<1>4. QED BY <1>1, <1>2, <1>3 DEF Next

(* What another thread does in hid_viz_send() leaves t before its write or  *)
(* past it, at most awake instead of asleep.                                *)
LEMMA OthersSend ==
  ASSUME IInv, ArgTyped, NEW t \in Threads, NEW u \in Threads \ {t}, Sending(u)
  PROVE  /\ pc'[t] = pc[t] /\ back' = back /\ arg'[t] = arg[t]
         /\ tx'[t] = "sent" <=> tx[t] = "sent"
         /\ tx'[t] = "out" <=> tx[t] = "out"
         /\ tx'[t] \in {"out", "waiting", "sending"}
              <=> tx[t] \in {"out", "waiting", "sending"}
<1> USE DEF IInv, Control
<1>1. pc'[t] = pc[t] /\ back' = back
  BY SendingFlow
<1>2. arg' = arg \/ \E r : arg' = [arg EXCEPT ![u] = r]
  BY DEF Sending, Notify, ScanLayer, ZeroBuffer, WriteHeader, WriteMask, EnterFunnel,
     Transmit, LeaveFunnel, TimeOut, Send
<1>3. tx' = tx \/ (\E s : tx' = [tx EXCEPT ![u] = s])
      \/ \E w \in Tx!Waiters : tx' = [tx EXCEPT ![u] = "out", ![w] = "sending"]
  BY DEF Sending, Notify, ScanLayer, ZeroBuffer, WriteHeader, WriteMask, EnterFunnel,
     Transmit, LeaveFunnel, TimeOut, txVars, Tx!Lock, Tx!Write, Tx!Unlock, Tx!HandOver,
     Tx!GiveUp
<1>4. arg'[t] = arg[t]
  BY <1>2 DEF ArgTyped
<1>5. tx'[t] = tx[t] \/ (tx[t] = "waiting" /\ tx'[t] = "sending")
  <2>1. CASE tx' = tx
    BY <2>1
  <2>2. ASSUME NEW s, tx' = [tx EXCEPT ![u] = s] PROVE tx'[t] = tx[t]
    BY <2>2
  <2>3. ASSUME NEW w \in Tx!Waiters, tx' = [tx EXCEPT ![u] = "out", ![w] = "sending"]
        PROVE  tx'[t] = tx[t] \/ (tx[t] = "waiting" /\ tx'[t] = "sending")
    BY <2>3 DEF Tx!Waiters
  <2>4. QED BY <1>3, <2>1, <2>2, <2>3
<1>6. QED BY <1>1, <1>4, <1>5

-----------------------------------------------------------------------------
(***************************************************************************)
(* The entries of a manifest.  Every entry on the wire precedes the next   *)
(* one the worker would send, and the one it is sending.                   *)
(***************************************************************************)
EntryTypes == {"MANIFEST_ENTRY"}
EntriesSent == Sent(EntryTypes, Len(wire))
AllPrecede(e) == \A n \in EntriesSent : Precedes(wire[n], e)
Upcoming == [type |-> "MANIFEST_ENTRY", stream |-> streams, seq |-> cursor]

Streaming ==
  /\ StreamsNotInterleaved
  /\ AllPrecede(Upcoming)
  /\ pc["man"] = "send" =>
       arg["man"].type \in EntryTypes /\ Precedes(arg["man"], Upcoming)
  /\ Unsent("man") => AllPrecede(arg["man"])

LEMMA StreamingInit == Init => Streaming
<1> SUFFICES ASSUME Init PROVE Streaming
  OBVIOUS
<1>1. wire = <<>> /\ pc["man"] = "run"
  BY DEF Init, Threads
<1>2. EntriesSent = {} /\ Sent({"MANIFEST_ENTRY"}, Len(wire)) = {}
  BY <1>1 DEF EntriesSent, EntryTypes, Sent
<1>3. QED BY <1>1, <1>2 DEF Streaming, StreamsNotInterleaved, AllPrecede, Unsent

(* On the wire, what has the type of an entry is one, with its numbers.     *)
LEMMA EntryTyped ==
  ASSUME HistoryTyped, NEW n \in EntriesSent
  PROVE  n \in 1..Len(wire) /\ wire[n].stream \in Nat /\ wire[n].seq \in Nat
<1>1. n \in 1..Len(wire) /\ wire[n] \in Reports /\ wire[n].type = "MANIFEST_ENTRY"
  BY DEF EntriesSent, Sent, EntryTypes, HistoryTyped
<1>2. wire[n] \in Entries
  BY <1>1 DEF Reports, LayerReports, OwnReports, Answers
<1>3. QED BY <1>1, <1>2 DEF Entries

(* A step that adds no entry, and none to be sent, keeps the order.         *)
LEMMA NoEntryKeeps ==
  ASSUME Streaming, HistoryTyped,
         EntriesSent' = EntriesSent, \A n \in EntriesSent : wire'[n] = wire[n],
         UNCHANGED <<streams, cursor>>,
         \/ pc'["man"] = pc["man"] /\ arg'["man"] = arg["man"]
         \/ pc'["man"] # "send",
         Unsent("man")' => Unsent("man")
  PROVE  Streaming'
<1> USE DEF Streaming
<1>1. StreamsNotInterleaved'
  BY DEF StreamsNotInterleaved, EntriesSent, EntryTypes
<1>2. AllPrecede(Upcoming)'
  BY DEF AllPrecede, Upcoming
<1>3. Unsent("man")' => AllPrecede(arg["man"])'
  BY DEF AllPrecede, Unsent
<1>4. pc'["man"] = "send" =>
        arg'["man"].type \in EntryTypes /\ Precedes(arg["man"], Upcoming)'
  BY DEF Upcoming, Precedes
<1>5. QED BY <1>1, <1>2, <1>3, <1>4

(* The worker itself, outside hid_viz_send().                               *)
LEMMA StreamStepKeeps ==
  ASSUME IInv, PartsTyped, Typed, Streaming, StreamStep
  PROVE  Streaming'
<1>1. /\ pc["man"] = "run" /\ tx["man"] = "out" /\ UNCHANGED <<tx, wire>>
      /\ EntriesSent' = EntriesSent
  BY OutsideFunnel DEF StreamStep, At, Threads, txVars, EntriesSent, Sent
<1>2. streams \in Nat /\ cursor \in Nat
  BY DEF PartsTyped, Manifest!ManifestTypeOK
<1>3. StreamsNotInterleaved'
  BY <1>1 DEF Streaming, StreamsNotInterleaved, Sent
<1>4. CASE Manifest!ReadStart /\ UNCHANGED <<flow, arg>>
  <2>1. streams' = streams + 1 /\ pc'["man"] # "send"
    BY <1>1, <1>4 DEF Manifest!ReadStart, flow
  <2>2. AllPrecede(Upcoming)'
    <3>1. ASSUME NEW n \in EntriesSent PROVE wire[n].stream < streams + 1
      BY <1>2, EntryTyped DEF Typed, Streaming, AllPrecede, Precedes, Upcoming
    <3>2. QED BY <1>1, <2>1, <3>1 DEF AllPrecede, Precedes, Upcoming
  <2>3. QED BY <1>3, <2>1, <2>2 DEF Streaming, Unsent
<1>5. CASE /\ Manifest!Mute \/ Manifest!EndStream \/ Manifest!Unmute
           /\ UNCHANGED <<flow, arg>>
  <2>1. UNCHANGED <<streams, cursor, pc, arg>>
    BY <1>5 DEF Manifest!Mute, Manifest!EndStream, Manifest!Unmute, flow
  <2>2. QED BY <1>1, <2>1, NoEntryKeeps DEF Typed, Unsent
<1>6. CASE Manifest!NextEntry /\ Send("man", Upcoming, "run")
  <2>1. cursor' = cursor + 1 /\ streams' = streams
    BY <1>6 DEF Manifest!NextEntry
  <2>2. arg'["man"] = Upcoming
    BY <1>6 DEF Send, Typed, ArgTyped, Threads
  <2>3. AllPrecede(Upcoming)'
    <3>1. ASSUME NEW n \in EntriesSent
          PROVE  Precedes(wire[n], [stream |-> streams, seq |-> cursor + 1])
      BY <1>2, EntryTyped DEF Typed, Streaming, AllPrecede, Precedes, Upcoming
    <3>2. QED BY <1>1, <2>1, <3>1 DEF AllPrecede, Precedes, Upcoming
  <2>4. AllPrecede(arg["man"])'
    BY <1>1, <2>2 DEF Streaming, AllPrecede
  <2>5. arg'["man"].type \in EntryTypes /\ Precedes(arg["man"], Upcoming)'
    BY <1>2, <2>1, <2>2 DEF Upcoming, Precedes, EntryTypes
  <2>6. QED BY <1>3, <2>3, <2>4, <2>5 DEF Streaming
<1>7. QED BY <1>4, <1>5, <1>6 DEF StreamStep, Upcoming

(* The write of a report: of an entry by the worker, of another report by   *)
(* the others.                                                              *)
LEMMA TransmitKeeps ==
  ASSUME IInv, Typed, Streaming, NEW t \in Threads, Transmit(t)
  PROVE  Streaming'
<1>1. /\ wire' = Append(wire, Contents(arg[t])) /\ wire \in Seq(Reports)
      /\ UNCHANGED <<pc, arg, streams, cursor>>
      /\ pc[t] = "send" /\ tx[t] = "sending" /\ tx' = [tx EXCEPT ![t] = "sent"]
  BY DEF Transmit, At, Tx!Write, flow, manVars, Typed, HistoryTyped
<1>2. Contents(arg[t]) \in Reports
  BY DEF Contents, Typed, ArgTyped, ComposedTyped, Reports
<1>3. tx \in [Threads -> {"out", "waiting", "sending", "sent"}]
  BY DEF IInv, Control
<1>4. /\ Len(wire') = Len(wire) + 1 /\ wire'[Len(wire')] = Contents(arg[t])
      /\ \A m \in 1..Len(wire) : wire'[m] = wire[m]
      /\ Contents(arg[t]).type \in EntryTypes => EntriesSent' = EntriesSent \cup {Len(wire')}
      /\ Contents(arg[t]).type \notin EntryTypes => EntriesSent' = EntriesSent
  <2>1. EntriesSent = Among(wire, EntryTypes, Len(wire))
        /\ EntriesSent' = Among(wire', EntryTypes, Len(wire'))
    BY DEF EntriesSent, Sent, Among
  <2>2. QED BY <1>1, <1>2, <2>1, AmongAppend
<1>5. \A n \in EntriesSent : n \in 1..Len(wire) /\ wire'[n] = wire[n]
  BY <1>4, EntryTyped DEF Typed
<1>6. CASE t # "man"
  <2>1. Contents(arg[t]).type \notin EntryTypes
    BY <1>6 DEF Contents, Typed, ArgTyped, ComposedTyped, Passed, LayerReports, OwnReports,
       Answers, Blank, EntryTypes, Threads
  <2>2. Unsent("man")' <=> Unsent("man")
    BY <1>1, <1>3, <1>6 DEF Unsent, Threads
  <2>3. QED BY <1>1, <1>4, <1>5, <2>1, <2>2, NoEntryKeeps DEF Typed
<1>7. CASE t = "man"
  <2>1. arg["man"].type \in EntryTypes
    BY <1>1, <1>7 DEF Streaming
  <2>2. Contents(arg["man"]) = arg["man"]
    BY <2>1 DEF Contents, LayerBuf, EntryTypes
  <2>3. EntriesSent' = EntriesSent \cup {Len(wire')} /\ wire'[Len(wire')] = arg["man"]
    BY <1>4, <1>7, <2>1, <2>2
  <2>4. AllPrecede(arg["man"]) /\ Precedes(arg["man"], Upcoming)
    BY <1>1, <1>7 DEF Streaming, Unsent
  <2>5. StreamsNotInterleaved'
    <3>1. SUFFICES ASSUME NEW m \in EntriesSent', NEW n \in EntriesSent', m < n
                   PROVE  Precedes(wire'[m], wire'[n])
      BY DEF StreamsNotInterleaved, EntriesSent, EntryTypes, Precedes
    <3>2. CASE n \in EntriesSent
      <4>1. m \in EntriesSent
        BY <1>4, <1>5, <2>3, <3>1, <3>2
      <4>2. QED BY <1>5, <3>1, <3>2, <4>1
                DEF Streaming, StreamsNotInterleaved, EntriesSent, EntryTypes
    <3>3. CASE n = Len(wire')
      <4>1. m \in EntriesSent
        BY <2>3, <3>1, <3>3
      <4>2. QED BY <1>5, <2>3, <2>4, <3>3, <4>1 DEF AllPrecede
    <3>4. QED BY <2>3, <3>2, <3>3
  <2>6. AllPrecede(Upcoming)'
    BY <1>1, <1>5, <2>3, <2>4 DEF Streaming, AllPrecede, Upcoming
  <2>7. ~Unsent("man")'
    BY <1>1, <1>3, <1>7 DEF Unsent
  <2>8. pc'["man"] = "send" =>
          arg'["man"].type \in EntryTypes /\ Precedes(arg["man"], Upcoming)'
    BY <1>1, <2>1, <2>4 DEF Upcoming, Precedes
  <2>9. QED BY <2>5, <2>6, <2>7, <2>8 DEF Streaming
<1>8. QED BY <1>6, <1>7

(* The steps that leave both the wire and the manifest worker alone.        *)
LEMMA StreamingStep ==
  IInv /\ PartsTyped /\ Typed /\ Streaming /\ [Next]_vars => Streaming'
<1> SUFFICES ASSUME IInv, PartsTyped, Typed, Streaming, [Next]_vars PROVE Streaming'
  OBVIOUS
<1>1. ASSUME NEW t \in Threads, Sending(t) PROVE Streaming'
  <2>1. CASE Transmit(t)
    BY <2>1, TransmitKeeps
  <2>2. CASE ~Transmit(t)
    <3>1. wire' = wire /\ UNCHANGED <<streams, cursor>>
      BY <1>1, <2>2 DEF Sending, Notify, ScanLayer, ZeroBuffer, WriteHeader, WriteMask,
         EnterFunnel, LeaveFunnel, TimeOut, manVars
    <3>2. EntriesSent' = EntriesSent
      BY <3>1 DEF EntriesSent, Sent
    <3>3. CASE t # "man"
      <4>1. pc'["man"] = pc["man"] /\ arg'["man"] = arg["man"]
            /\ (tx'["man"] = "sent" <=> tx["man"] = "sent")
        BY <1>1, <3>3, OthersSend DEF Threads, Typed
      <4>2. QED BY <3>1, <3>2, <4>1, NoEntryKeeps DEF Typed, Unsent
    <3>4. CASE t = "man"
      <4>1. CASE LeaveFunnel(t)
        <5>1. pc'["man"] = "run"
          BY <3>4, <4>1 DEF LeaveFunnel, Goto, IInv, Control
        <5>2. QED BY <3>1, <3>2, <5>1, NoEntryKeeps DEF Typed, Unsent
      <4>2. CASE EnterFunnel(t) \/ TimeOut(t)
        <5>1. UNCHANGED <<pc, arg>> /\ tx["man"] # "sent"
          BY <3>4, <4>2 DEF EnterFunnel, TimeOut, flow, Tx!Lock, Tx!GiveUp
        <5>2. QED BY <3>1, <3>2, <5>1, NoEntryKeeps DEF Typed, Unsent
      <4>3. QED BY <1>1, <2>2, <3>4, <4>1, <4>2 DEF Sending, Notify, ScanLayer, ZeroBuffer,
                   WriteHeader, WriteMask, At, IInv, Control
    <3>5. QED BY <3>3, <3>4
  <2>3. QED BY <2>1, <2>2
<1>2. CASE Environment \/ SignalWorker \/ Dispatching \/ UNCHANGED vars
  <2>1. UNCHANGED <<wire, tx, streams, cursor>>
    BY <1>2 DEF Environment, HostReads, Tx!HostRead, Receive, Manifest!Request, LayerKey,
       KeyEvent, Originate, SignalWorker, Manifest!Give, Dispatching, Reply, SetLayers,
       ClearLayer, FillLayer, ReportSetLayers, SetBase, LeaveLayer, EnterLayer, Nudge,
       SendConfirm, Ignore, FinishCommand, vars, txVars, manVars
  <2>2. pc'["man"] = pc["man"]
    <3>1. CASE Dispatching
      BY <3>1, DispatchFlow DEF Threads
    <3>2. CASE HostReads \/ SignalWorker \/ UNCHANGED vars \/ \E c \in Commands : Receive(c)
      BY <3>2 DEF HostReads, SignalWorker, Receive, vars, flow
    <3>3. QED BY <1>2, <3>1, <3>2, EventFlow DEF Environment, Threads
  <2>3. arg' = arg \/ \E t \in Threads \ {"man"} : \E r : arg' = [arg EXCEPT ![t] = r]
    BY <1>2 DEF Environment, HostReads, Receive, LayerKey, KeyEvent, Originate, PressEmit,
       PressEmitFixed, PressSignal, PressSignalFixed, EmitSend, SendSignal, Fire, Send,
       SignalWorker, Dispatching, Reply, SetLayers, ClearLayer, FillLayer, ReportSetLayers,
       SetBase, LeaveLayer, EnterLayer, Nudge, SendConfirm, Ignore, FinishCommand, vars,
       Threads
  <2>4. arg'["man"] = arg["man"]
    BY <2>3 DEF Typed, ArgTyped, Threads
  <2>5. EntriesSent' = EntriesSent
    BY <2>1 DEF EntriesSent, Sent
  <2>6. QED BY <2>1, <2>2, <2>4, <2>5, NoEntryKeeps DEF Typed, Unsent
<1>3. CASE StreamStep
  BY <1>3, StreamStepKeeps
<1>4. QED BY <1>1, <1>2, <1>3 DEF Next

(* The host can put a manifest together from the sequence numbers, whatever *)
(* requests arrive while a stream runs and whatever reports are lost        *)
(* (manifest.c:76-256): streams follow one another on the wire and each     *)
(* goes forward only.                                                       *)
THEOREM StreamsNotInterleavedInvariant == Spec => []StreamsNotInterleaved
<1>1. Streaming => StreamsNotInterleaved
  BY DEF Streaming
<1>2. QED BY <1>1, StreamingInit, StreamingStep, TypedInvariant, PTL DEF Spec

-----------------------------------------------------------------------------
(***************************************************************************)
(* ZMK's own reports.  While the host reads, as many are on the wire as    *)
(* were called for, less the one that is still on its way.                 *)
(***************************************************************************)
OwnSent == Sent(OwnTypes, Len(wire))
OwnDue == Unsent("sys") /\ arg["sys"].type \in OwnTypes

OwnMatched ==
  \A n \in OwnSent : /\ Cardinality(Sent(OwnTypes, n)) \in 1..Len(fired)
                     /\ wire[n] = fired[Cardinality(Sent(OwnTypes, n))]

OwnCounted ==
  IF OwnDue
    THEN Len(fired) = Cardinality(OwnSent) + 1 /\ arg["sys"] = fired[Len(fired)]
    ELSE Len(fired) = Cardinality(OwnSent)

OwnInOrder == ~HostMayStall => OwnMatched /\ OwnCounted

LEMMA OwnInit == Init => OwnInOrder
<1> SUFFICES ASSUME Init PROVE OwnMatched /\ OwnCounted
  BY DEF OwnInOrder
<1>1. wire = <<>> /\ fired = <<>> /\ pc["sys"] = "idle"
  BY DEF Init, Threads
<1>2. OwnSent = {} /\ ~OwnDue
  BY <1>1 DEF OwnSent, Sent, OwnDue, Unsent
<1>3. QED BY <1>1, <1>2, FS_EmptySet DEF OwnMatched, OwnCounted

LEMMA OwnKept ==
  ASSUME OwnInOrder, UNCHANGED <<wire, fired>>, OwnDue' <=> OwnDue,
         OwnDue => arg'["sys"] = arg["sys"]
  PROVE  OwnInOrder'
BY DEF OwnInOrder, OwnMatched, OwnCounted, OwnSent, Sent

(* A report that is not one of ZMK's own, written while none of those that  *)
(* are on their way is.                                                     *)
LEMMA OwnTransmit ==
  ASSUME IInv, Typed, OwnInOrder, NEW t \in Threads, Transmit(t)
  PROVE  OwnInOrder'
<1> SUFFICES ASSUME ~HostMayStall PROVE OwnMatched' /\ OwnCounted'
  BY DEF OwnInOrder
<1> DEFINE r == Contents(arg[t])
<1>1. /\ wire' = Append(wire, r) /\ wire \in Seq(Reports)
      /\ UNCHANGED <<pc, arg, fired>>
      /\ pc[t] = "send" /\ tx[t] = "sending" /\ tx' = [tx EXCEPT ![t] = "sent"]
  BY DEF Transmit, At, Tx!Write, flow, events, Typed, HistoryTyped
<1>2. r \in Reports
  BY DEF Contents, Typed, ArgTyped, ComposedTyped, Reports
<1>3. tx \in [Threads -> {"out", "waiting", "sending", "sent"}]
  BY DEF IInv, Control
<1>4. /\ Len(wire') = Len(wire) + 1 /\ wire'[Len(wire')] = r
      /\ \A m \in 1..Len(wire) : wire'[m] = wire[m]
      /\ \A n \in 0..Len(wire) : Sent(OwnTypes, n)' = Sent(OwnTypes, n)
      /\ r.type \in OwnTypes =>
           /\ OwnSent' = OwnSent \cup {Len(wire')}
           /\ Cardinality(OwnSent') = Cardinality(OwnSent) + 1
      /\ r.type \notin OwnTypes => OwnSent' = OwnSent
  <2>1. OwnSent = Among(wire, OwnTypes, Len(wire))
        /\ OwnSent' = Among(wire', OwnTypes, Len(wire'))
        /\ \A n \in 0..Len(wire) : /\ Sent(OwnTypes, n) = Among(wire, OwnTypes, n)
                                   /\ Sent(OwnTypes, n)' = Among(wire', OwnTypes, n)
    BY DEF OwnSent, Sent, Among
  <2> HIDE DEF r
  <2>2. QED BY <1>1, <1>2, <2>1, AmongAppend
<1>5. \A n \in OwnSent : n \in 1..Len(wire) /\ n \in 0..Len(wire)
  BY DEF OwnSent, Sent
<1>6. OwnMatched /\ OwnCounted
  BY DEF OwnInOrder
<1>7. CASE r.type \in OwnTypes
  <2>1. t = "sys" /\ r = arg["sys"]
    BY <1>7 DEF Contents, Typed, ArgTyped, ComposedTyped, Passed, LayerReports, Answers,
       Entries, Blank, OwnTypes, Threads
  <2>2. OwnDue /\ ~OwnDue'
    BY <1>1, <1>3, <1>7, <2>1 DEF OwnDue, Unsent
  <2>3. Len(fired) = Cardinality(OwnSent) + 1 /\ r = fired[Len(fired)]
    BY <1>6, <2>1, <2>2 DEF OwnCounted
  <2>4. OwnCounted'
    BY <1>1, <1>4, <1>7, <2>2, <2>3 DEF OwnCounted
  <2>5. ASSUME NEW n \in OwnSent'
        PROVE  /\ Cardinality(Sent(OwnTypes, n)') \in 1..Len(fired)
               /\ wire'[n] = fired[Cardinality(Sent(OwnTypes, n)')]
    <3>1. CASE n \in OwnSent
      BY <1>4, <1>5, <1>6, <3>1 DEF OwnMatched
    <3>2. CASE n = Len(wire')
      <4>1. Sent(OwnTypes, n)' = OwnSent'
        BY <3>2 DEF OwnSent, Sent
      <4>2. Cardinality(OwnSent') = Len(fired) /\ wire'[n] = r
        BY <1>4, <1>7, <2>3, <3>2
      <4>3. Cardinality(OwnSent) \in Nat
        <5>1. Len(wire) \in Nat /\ OwnSent = Among(wire, OwnTypes, Len(wire))
          BY <1>1 DEF OwnSent, Sent, Among
        <5>2. QED BY <5>1, AmongFinite
      <4>4. QED BY <2>3, <4>1, <4>2, <4>3
    <3>3. QED BY <1>4, <1>7, <2>5, <3>1, <3>2
  <2>6. OwnMatched'
    BY <1>1, <2>5 DEF OwnMatched, Sent
  <2>7. QED BY <2>4, <2>6
<1>8. CASE r.type \notin OwnTypes
  <2>1. OwnDue' <=> OwnDue
    <3>1. CASE t = "sys"
      <4>1. arg["sys"].type \notin OwnTypes
        BY <1>8, <3>1 DEF Contents, LayerBuf, OwnTypes
      <4>2. QED BY <1>1, <4>1 DEF OwnDue
    <3>2. CASE t # "sys"
      BY <1>1, <1>3, <3>2 DEF OwnDue, Unsent, Threads
    <3>3. QED BY <3>1, <3>2
  <2>2. OwnCounted'
    BY <1>1, <1>4, <1>6, <1>8, <2>1 DEF OwnCounted
  <2>3. \A n \in OwnSent : /\ Cardinality(Sent(OwnTypes, n)') \in 1..Len(fired)
                           /\ wire'[n] = fired[Cardinality(Sent(OwnTypes, n)')]
    BY <1>4, <1>5, <1>6 DEF OwnMatched
  <2>4. OwnMatched'
    BY <1>1, <1>4, <1>8, <2>3 DEF OwnMatched, Sent
  <2>5. QED BY <2>2, <2>4
<1>9. QED BY <1>7, <1>8

LEMMA OwnFire ==
  ASSUME IInv, Typed, OwnInOrder, NEW r \in OwnReports, pc["sys"] = "idle", Fire(r),
         UNCHANGED <<wire, tx>>
  PROVE  OwnInOrder'
<1> SUFFICES ASSUME ~HostMayStall PROVE OwnMatched' /\ OwnCounted'
  BY DEF OwnInOrder
<1>1. fired \in Seq(OwnReports) /\ fired' = Append(fired, r)
  BY DEF Fire, Typed, HistoryTyped
<1>2. /\ Len(fired') = Len(fired) + 1 /\ fired'[Len(fired')] = r
      /\ \A k \in 1..Len(fired) : fired'[k] = fired[k]
  BY <1>1
<1>3. OwnMatched /\ OwnCounted /\ ~OwnDue
  BY DEF OwnInOrder, OwnDue, Unsent
<1>4. OwnSent' = OwnSent /\ \A n \in OwnSent : Sent(OwnTypes, n)' = Sent(OwnTypes, n)
  BY DEF OwnSent, Sent
<1>5. OwnMatched'
  BY <1>1, <1>2, <1>3, <1>4 DEF OwnMatched, Sent
<1>6. OwnDue'
  <2>1. pc'["sys"] = "send" /\ arg'["sys"] = r
    BY DEF Fire, Send, Call, IInv, Control, Typed, ArgTyped, Threads
  <2>2. tx["sys"] = "out"
    BY OutsideFunnel DEF Threads
  <2>3. QED BY <2>1, <2>2 DEF OwnDue, Unsent, OwnReports, OwnTypes
<1>7. OwnCounted'
  <2>1. arg'["sys"] = r
    BY DEF Fire, Send, Typed, ArgTyped, Threads
  <2>2. QED BY <1>2, <1>3, <1>4, <1>6, <2>1 DEF OwnCounted
<1>8. QED BY <1>5, <1>7

LEMMA OwnReportsStep ==
  IInv /\ PartsTyped /\ Course /\ Typed /\ OwnInOrder /\ [Next]_vars => OwnInOrder'
<1> SUFFICES ASSUME IInv, PartsTyped, Course, Typed, OwnInOrder, [Next]_vars
             PROVE  OwnInOrder'
  OBVIOUS
<1>1. ASSUME NEW t \in Threads, Sending(t) PROVE OwnInOrder'
  <2>1. CASE Transmit(t)
    BY <2>1, OwnTransmit
  <2>2. CASE TimeOut(t)
    BY <2>2 DEF TimeOut, OwnInOrder
  <2>3. CASE ~Transmit(t) /\ ~TimeOut(t)
    <3>1. UNCHANGED <<wire, fired>>
      BY <1>1, <2>3 DEF Sending, Notify, ScanLayer, ZeroBuffer, WriteHeader, WriteMask,
         EnterFunnel, LeaveFunnel, events
    <3>2. CASE t # "sys"
      <4>1. pc'["sys"] = pc["sys"] /\ arg'["sys"] = arg["sys"]
            /\ (tx'["sys"] = "sent" <=> tx["sys"] = "sent")
        BY <1>1, <3>2, OthersSend DEF Threads, Typed
      <4>2. QED BY <3>1, <4>1, OwnKept DEF OwnDue, Unsent
    <3>3. CASE t = "sys"
      <4>1. CASE LeaveFunnel(t)
        <5>1. pc'["sys"] = "idle" /\ tx["sys"] = "sent"
          BY <3>3, <4>1 DEF LeaveFunnel, Goto, Tx!Unlock, IInv, Control, Course, Threads
        <5>2. ~OwnDue /\ ~OwnDue'
          BY <5>1 DEF OwnDue, Unsent
        <5>3. QED BY <3>1, <5>2, OwnKept
      <4>2. CASE EnterFunnel(t)
        <5>1. UNCHANGED <<pc, arg>> /\ tx["sys"] = "out" /\ tx'["sys"] # "sent"
          BY <3>3, <4>2 DEF EnterFunnel, flow, Tx!Lock, IInv, Control, Threads
        <5>2. QED BY <3>1, <5>1, OwnKept DEF OwnDue, Unsent
      <4>3. CASE Notify(t) \/ ScanLayer(t) \/ ZeroBuffer(t) \/ WriteHeader(t)
        <5>1. pc["sys"] # "send" /\ pc'["sys"] # "send"
          BY <3>3, <4>3 DEF Notify, ReportLayers, ScanLayer, ZeroBuffer, WriteHeader, At,
             Goto, Call, flow, IInv, Control, Course, Threads
        <5>2. ~OwnDue /\ ~OwnDue'
          BY <5>1 DEF OwnDue, Unsent
        <5>3. QED BY <3>1, <5>2, OwnKept
      <4>4. CASE WriteMask(t)
        <5>1. pc["sys"] = "mask" /\ arg'["sys"] = LayerBuf
          BY <3>3, <4>4 DEF WriteMask, At, Send, Typed, ArgTyped, Threads
        <5>2. ~OwnDue /\ ~OwnDue'
          BY <5>1 DEF OwnDue, Unsent, LayerBuf, OwnTypes
        <5>3. QED BY <3>1, <5>2, OwnKept
      <4>5. QED BY <1>1, <2>3, <4>1, <4>2, <4>3, <4>4 DEF Sending
    <3>4. QED BY <3>2, <3>3
  <2>4. QED BY <2>1, <2>2, <2>3
<1>2. CASE \E key \in LayerKeys : LayerKey(key)
  <2>1. UNCHANGED <<wire, fired>> /\ pc["sys"] = "idle" /\ pc'["sys"] # "send"
    BY <1>2 DEF LayerKey, Event, KeymapOp, Call, IInv, Control, Threads
  <2>2. ~OwnDue /\ ~OwnDue'
    BY <2>1 DEF OwnDue, Unsent
  <2>3. QED BY <2>1, <2>2, OwnKept
<1>3. CASE \/ \E p \in Positions : KeyEvent(p)
           \/ \E b \in Bindings : Originate(b)
  <2>1. pc["sys"] = "idle" /\ UNCHANGED <<wire, tx>>
    BY <1>3 DEF KeyEvent, Originate, Event, txVars
  <2>2. CASE UNCHANGED <<flow, arg, fired>>
    BY <2>1, <2>2, OwnKept DEF OwnDue, Unsent, flow
  <2>3. QED BY <1>3, <2>1, <2>2, EventReports, OwnFire
<1>4. CASE \/ HostReads \/ SignalWorker \/ StreamStep \/ Dispatching \/ UNCHANGED vars
           \/ \E c \in Commands : Receive(c)
  <2>1. UNCHANGED <<wire, fired, tx>>
    BY <1>4 DEF HostReads, Tx!HostRead, Receive, SignalWorker, StreamStep, Dispatching,
       Reply, SetLayers, ClearLayer, FillLayer, ReportSetLayers, SetBase, LeaveLayer,
       EnterLayer, Nudge, SendConfirm, Ignore, FinishCommand, vars, txVars, events
  <2>2. pc'["sys"] = pc["sys"]
    <3>1. CASE Dispatching
      BY <3>1, DispatchFlow DEF Threads
    <3>2. CASE StreamStep
      BY <3>2 DEF StreamStep, Send, Call, flow, IInv, Control, Threads
    <3>3. QED BY <1>4, <3>1, <3>2 DEF HostReads, SignalWorker, Receive, vars, flow
  <2>3. arg' = arg \/ \E t \in {"cmd", "man"} : \E r : arg' = [arg EXCEPT ![t] = r]
    BY <1>4 DEF HostReads, Receive, SignalWorker, StreamStep, Dispatching, Reply, SetLayers,
       ClearLayer, FillLayer, ReportSetLayers, SetBase, LeaveLayer, EnterLayer, Nudge,
       SendConfirm, Ignore, FinishCommand, Send, vars
  <2>4. arg'["sys"] = arg["sys"]
    BY <2>3 DEF Typed, ArgTyped, Threads
  <2>5. QED BY <2>1, <2>2, <2>4, OwnKept DEF OwnDue, Unsent
<1>5. QED BY <1>1, <1>2, <1>3, <1>4 DEF Next, Environment

(* As long as the host reads, what ZMK's context sends of its own arrives   *)
(* once and in order, whatever the workers send and mute (notifier.c,       *)
(* hid_viz_send.h:6-22): nothing is left out once it is quiet.              *)
THEOREM OwnReportsInvariant == Spec => []OwnReportsInOrder
<1>1. OwnInOrder => OwnReportsInOrder
  <2> SUFFICES ASSUME OwnInOrder, ~HostMayStall
               PROVE  /\ \A n \in OwnSent : /\ Cardinality(Sent(OwnTypes, n)) <= Len(fired)
                                            /\ wire[n] = fired[Cardinality(Sent(OwnTypes, n))]
                      /\ Quiescent => Cardinality(OwnSent) = Len(fired)
    BY DEF OwnReportsInOrder, OwnSent
  <2>1. Quiescent => ~OwnDue
    BY DEF Quiescent, HasWork, OwnDue, Unsent, Threads
  <2>2. QED BY <2>1 DEF OwnInOrder, OwnMatched, OwnCounted
<1>2. QED BY <1>1, OwnInit, OwnReportsStep, TypedInvariant, PTL DEF Spec

-----------------------------------------------------------------------------
(***************************************************************************)
(* The confirms.  A 0xF2 or 0xF3 in hand is at its handler's start, on its *)
(* way to the confirm with ZMK's answer kept, or confirming.               *)
(***************************************************************************)
NudgeInHand == item # NoCommand /\ IsNudge(item)
Truth(c) == Confirm(c, c.layer \in KeymapLayers)
Confirming == NudgeInHand /\ pc["cmd"] = "send" /\ back["cmd"] = "finish"

NudgeCourse ==
  /\ NudgeInHand => \/ pc["cmd"] = "handle"
                    \/ back["cmd"] = "confirm" /\ ret = (item.layer \in KeymapLayers)
                    \/ back["cmd"] = "finish" /\ pc["cmd"] \in {"send", "finish"}
  /\ pc["cmd"] = "send" => (arg["cmd"].type = "CONFIRM" <=> Confirming)
  /\ Confirming => arg["cmd"] = Truth(item)

(* The confirm of the command in hand has been written.                     *)
Confirmed == NudgeInHand /\ (pc["cmd"] = "finish" \/ (Confirming /\ tx["cmd"] = "sent"))

LEMMA NudgeCourseInit == Init => NudgeCourse
BY DEF Init, NudgeCourse, NudgeInHand, Confirming, Queue!QueueInit, Threads

(* Steps that leave the dispatch worker where it is.                        *)
LEMMA HandlerRests ==
  ASSUME IInv, ArgTyped,
         \/ HostReads \/ SignalWorker \/ StreamStep \/ UNCHANGED vars
         \/ \E key \in LayerKeys : LayerKey(key)
         \/ \E p \in Positions : KeyEvent(p)
         \/ \E b \in Bindings : Originate(b)
         \/ \E u \in Threads \ {"cmd"} : Sending(u)
  PROVE  /\ pc'["cmd"] = pc["cmd"] /\ back'["cmd"] = back["cmd"]
         /\ arg'["cmd"] = arg["cmd"] /\ (tx'["cmd"] = "sent" <=> tx["cmd"] = "sent")
         /\ UNCHANGED <<ret, item, accepted, served>>
<1>1. CASE \E u \in Threads \ {"cmd"} : Sending(u)
  <2>1. UNCHANGED <<ret, item, accepted, served>>
    BY <1>1 DEF Sending, Notify, ScanLayer, ZeroBuffer, WriteHeader, WriteMask,
       EnterFunnel, Transmit, LeaveFunnel, TimeOut, queueVars, handler
  <2>2. QED BY <1>1, <2>1, OthersSend DEF Threads
<1>2. CASE \/ HostReads \/ SignalWorker \/ StreamStep \/ UNCHANGED vars
           \/ \E key \in LayerKeys : LayerKey(key)
           \/ \E p \in Positions : KeyEvent(p)
           \/ \E b \in Bindings : Originate(b)
  <2>1. UNCHANGED <<tx, ret, item, accepted, served>>
    BY <1>2 DEF HostReads, Tx!HostRead, SignalWorker, StreamStep, LayerKey, KeyEvent,
       Originate, vars, txVars, queueVars, handler
  <2>2. \/ UNCHANGED <<pc, back>>
        \/ \E t \in {"sys", "man"} : \E l, k :
             pc' = [pc EXCEPT ![t] = l] /\ back' = [back EXCEPT ![t] = k]
    BY <1>2 DEF HostReads, SignalWorker, StreamStep, LayerKey, KeymapOp, KeyEvent, Originate,
       PressEmit, PressEmitFixed, PressSignal, PressSignalFixed, EmitSend, SendSignal, Fire,
       Send, Call, vars, flow
  <2>3. arg' = arg \/ \E t \in {"sys", "man"} : \E r : arg' = [arg EXCEPT ![t] = r]
    BY <1>2 DEF HostReads, SignalWorker, StreamStep, LayerKey, KeyEvent, Originate,
       PressEmit, PressEmitFixed, PressSignal, PressSignalFixed, EmitSend, SendSignal, Fire,
       Send, vars
  <2>4. QED BY <2>1, <2>2, <2>3 DEF IInv, Control, ArgTyped, Threads
<1>3. QED BY <1>1, <1>2

LEMMA SendingNudge ==
  ASSUME IInv, Course, Typed, NudgeCourse, Sending("cmd")
  PROVE  /\ NudgeCourse'
         /\ ~Transmit("cmd") /\ ~TimeOut("cmd") => (Confirmed' <=> Confirmed)
<1> USE DEF Threads
<1>1. UNCHANGED <<ret, item, back>> /\ (NudgeInHand' <=> NudgeInHand)
  BY SendingFlow DEF Sending, Notify, ScanLayer, ZeroBuffer, WriteHeader, WriteMask,
     EnterFunnel, Transmit, LeaveFunnel, TimeOut, queueVars, handler, NudgeInHand
<1>2. back["cmd"] \in {"handle", "clear", "fill", "base", "confirm", "finish"}
      /\ (pc["cmd"] \in OnItsWay => back["cmd"] # "handle")
  BY DEF Course
<1>3. CASE EnterFunnel("cmd") \/ Transmit("cmd") \/ TimeOut("cmd")
  <2>1. UNCHANGED <<pc, arg>>
    BY <1>3 DEF EnterFunnel, Transmit, TimeOut, flow
  <2>2. EnterFunnel("cmd") => tx["cmd"] # "sent" /\ tx'["cmd"] # "sent"
    BY DEF EnterFunnel, Tx!Lock, IInv, Control
  <2>3. QED BY <1>1, <1>3, <2>1, <2>2 DEF NudgeCourse, Confirming, Confirmed
<1>4. CASE LeaveFunnel("cmd")
  <2>1. pc["cmd"] = "send" /\ pc'["cmd"] = back["cmd"] /\ tx["cmd"] = "sent"
    BY <1>4 DEF LeaveFunnel, At, Goto, Tx!Unlock, IInv, Control
  <2>2. QED BY <1>1, <1>2, <2>1 DEF NudgeCourse, Confirming, Confirmed
<1>5. CASE Notify("cmd")
  <2>1. pc["cmd"] = "notify" /\ pc'["cmd"] \in {"scan", back["cmd"]}
    BY <1>5 DEF Notify, At, ReportLayers, Call, Goto, IInv, Control
  <2>2. QED BY <1>1, <1>2, <2>1 DEF NudgeCourse, Confirming, Confirmed, OnItsWay
<1>6. CASE ScanLayer("cmd") \/ ZeroBuffer("cmd") \/ WriteHeader("cmd")
  <2>1. pc["cmd"] \in Composing /\ pc'["cmd"] \in Composing
    BY <1>6 DEF ScanLayer, ZeroBuffer, WriteHeader, At, Goto, flow, IInv, Control, Composing
  <2>2. QED BY <1>1, <2>1 DEF NudgeCourse, Confirming, Confirmed, Composing
<1>7. CASE WriteMask("cmd")
  <2>1. pc["cmd"] = "mask" /\ pc'["cmd"] = "send" /\ arg'["cmd"] = LayerBuf
    BY <1>7 DEF WriteMask, At, Send, Call, IInv, Control, Typed, ArgTyped
  <2>2. NudgeInHand => back["cmd"] = "confirm"
    BY <2>1 DEF NudgeCourse
  <2>3. ~Confirming' /\ LayerBuf.type # "CONFIRM"
    BY <1>1, <2>2 DEF Confirming, LayerBuf
  <2>4. NudgeCourse'
    BY <1>1, <2>1, <2>2, <2>3 DEF NudgeCourse
  <2>5. Confirmed' <=> Confirmed
    BY <2>1, <2>3 DEF Confirmed, Confirming
  <2>6. QED BY <2>4, <2>5
<1>8. QED BY <1>3, <1>4, <1>5, <1>6, <1>7 DEF Sending

LEMMA DispatchNudge ==
  ASSUME IInv, Course, Typed, NudgeCourse, Dispatching
  PROVE  /\ NudgeCourse'
         /\ ~FinishCommand => (Confirmed' <=> Confirmed)
<1> USE DEF Threads
<1>1. CASE FinishCommand
  <2>1. pc'["cmd"] = "handle"
    BY <1>1 DEF FinishCommand, Goto, IInv, Control
  <2>2. QED BY <1>1, <2>1 DEF NudgeCourse, Confirming
<1>2. CASE \/ Reply("GET_DEVICE_INFO", "DEVICE_INFO") \/ Reply("GET_CONFIG_ID", "CONFIG_ID")
           \/ SetLayers \/ SetBase \/ Ignore
  <2>1. pc["cmd"] = "handle" /\ item' = item /\ ~NudgeInHand
    BY <1>2 DEF Reply, SetLayers, SetBase, Ignore, Handle, At, queueVars, NudgeInHand, IsNudge
  <2>2. ~NudgeInHand'
    BY <2>1 DEF NudgeInHand
  <2>3. pc'["cmd"] = "send" => arg'["cmd"].type \in {"DEVICE_INFO", "CONFIG_ID"}
    BY <1>2 DEF Reply, SetLayers, SetBase, Ignore, Goto, Send, Call, IInv, Control, Typed,
       ArgTyped
  <2>4. QED BY <2>1, <2>2, <2>3 DEF NudgeCourse, Confirming, Confirmed
<1>3. CASE ClearLayer \/ FillLayer \/ ReportSetLayers \/ LeaveLayer \/ EnterLayer
  <2>1. pc["cmd"] \in {"clear", "fill", "base"} /\ item' = item
    BY <1>3 DEF ClearLayer, FillLayer, ReportSetLayers, LeaveLayer, EnterLayer, At, queueVars
  <2>2. ~NudgeInHand /\ ~NudgeInHand'
    BY <2>1 DEF NudgeCourse, Course, NudgeInHand, OnItsWay, Composing
  <2>3. pc'["cmd"] # "send"
    BY <1>3, <2>1, DispatchFlow
  <2>4. QED BY <2>2, <2>3 DEF NudgeCourse, Confirming, Confirmed
<1>4. CASE Nudge("LAYER_ACTIVATE", TRUE) \/ Nudge("LAYER_DEACTIVATE", FALSE)
  <2>1. /\ pc["cmd"] = "handle" /\ item' = item
        /\ pc'["cmd"] \in {"notify", "confirm"} /\ back'["cmd"] = "confirm"
        /\ ret' = (item.layer \in KeymapLayers)
    BY <1>4 DEF Nudge, Handle, At, queueVars, KeymapOp, Call, IInv, Control
  <2>2. QED BY <2>1 DEF NudgeCourse, Confirming, Confirmed, NudgeInHand
<1>5. CASE SendConfirm
  <2>1. /\ pc["cmd"] = "confirm" /\ pc'["cmd"] = "send" /\ back'["cmd"] = "finish"
        /\ arg'["cmd"] = Confirm(item, ret) /\ UNCHANGED <<item, ret, tx>>
    BY <1>5 DEF SendConfirm, At, Send, Call, queueVars, handler, txVars, IInv, Control,
       Typed, ArgTyped
  <2>2. NudgeInHand /\ ret = (item.layer \in KeymapLayers)
    <3>1. item \in Commands /\ IsNudge(item)
      BY <2>1 DEF Course
    <3>2. item # NoCommand
      BY <3>1, HidVizAssumption
    <3>3. QED BY <2>1, <3>1, <3>2 DEF NudgeCourse, NudgeInHand
  <2>3. NudgeInHand' /\ Confirming'
    BY <2>1, <2>2 DEF NudgeInHand, Confirming
  <2>4. arg'["cmd"] = Truth(item) /\ arg'["cmd"].type = "CONFIRM"
    BY <2>1, <2>2 DEF Truth, Confirm
  <2>5. NudgeCourse'
    BY <2>1, <2>3, <2>4 DEF NudgeCourse
  <2>6. tx'["cmd"] # "sent"
    BY <2>1, OutsideFunnel
  <2>7. ~Confirmed /\ ~Confirmed'
    BY <2>1, <2>6 DEF Confirmed, Confirming
  <2>8. QED BY <2>5, <2>7
<1>6. QED BY <1>1, <1>2, <1>3, <1>4, <1>5 DEF Dispatching

LEMMA ReceiveNudge ==
  ASSUME IInv, PartsTyped, Working, NudgeCourse, NEW c \in Commands, Receive(c)
  PROVE  /\ NudgeCourse' /\ (Confirmed' <=> Confirmed)
         /\ accepted' = accepted \/ accepted' = Append(accepted, c)
         /\ UNCHANGED <<wire, served>>
<1>1. /\ UNCHANGED <<pc, back, arg, ret, tx, wire, served>>
      /\ accepted' = accepted \/ accepted' = Append(accepted, c)
      /\ item' = item \/ item = NoCommand
  BY DEF Receive, Queue!Put, Queue!PutToWorker, Queue!PutInQueue, Queue!Drop, flow, handler,
     txVars
<1>2. CASE item' = item
  BY <1>1, <1>2 DEF NudgeCourse, NudgeInHand, Confirming, Confirmed
<1>3. CASE item = NoCommand
  <2>1. pc["cmd"] = "handle"
    BY <1>3 DEF Working
  <2>2. QED BY <1>1, <2>1 DEF NudgeCourse, Confirming, Confirmed
<1>4. QED BY <1>1, <1>2, <1>3

LEMMA NudgeCourseStep ==
  IInv /\ PartsTyped /\ Working /\ Course /\ Typed /\ NudgeCourse /\ [Next]_vars
    => NudgeCourse'
<1> SUFFICES ASSUME IInv, PartsTyped, Working, Course, Typed, NudgeCourse, [Next]_vars
             PROVE  NudgeCourse'
  OBVIOUS
<1>1. CASE \/ HostReads \/ SignalWorker \/ StreamStep \/ UNCHANGED vars
           \/ \E key \in LayerKeys : LayerKey(key)
           \/ \E p \in Positions : KeyEvent(p)
           \/ \E b \in Bindings : Originate(b)
           \/ \E u \in Threads \ {"cmd"} : Sending(u)
  BY <1>1, HandlerRests DEF Typed, NudgeCourse, NudgeInHand, Confirming
<1>2. QED
  BY <1>1, SendingNudge, DispatchNudge, ReceiveNudge DEF Next, Environment

(* The confirms on the wire are those of the nudges that have been handled, *)
(* and of the one in hand once it is confirmed.                             *)
ConfirmTypes == {"CONFIRM"}
NudgeTypes == {"LAYER_ACTIVATE", "LAYER_DEACTIVATE"}
ConfirmsSent == Sent(ConfirmTypes, Len(wire))

Matched ==
  \A n \in ConfirmsSent : \E m \in Nudges(Len(accepted)) :
    /\ Cardinality(Nudges(m)) = Cardinality(Sent(ConfirmTypes, n))
    /\ wire[n] = Truth(accepted[m])

Counted ==
  IF Confirmed THEN Cardinality(ConfirmsSent) = Cardinality(Nudges(served)) + 1
               ELSE Cardinality(ConfirmsSent) = Cardinality(Nudges(served))

ConfirmCount == ~HostMayStall => Matched /\ Counted

LEMMA NudgesAmong ==
  \A n : Nudges(n) = Among(accepted, NudgeTypes, n)
BY DEF Nudges, IsNudge, Among, NudgeTypes

LEMMA ConfirmInit == Init => ConfirmCount
<1> SUFFICES ASSUME Init PROVE Matched /\ Counted
  BY DEF ConfirmCount
<1>1. wire = <<>> /\ served = 0 /\ item = NoCommand
  BY DEF Init, Queue!QueueInit
<1>2. ConfirmsSent = {} /\ Nudges(served) = {} /\ ~Confirmed
  BY <1>1 DEF ConfirmsSent, Sent, Nudges, Confirmed, NudgeInHand
<1>3. QED BY <1>2, FS_EmptySet DEF Matched, Counted

LEMMA MatchedKept ==
  ASSUME Matched, UNCHANGED <<wire, accepted>>
  PROVE  Matched'
<1>1. ConfirmsSent' = ConfirmsSent /\ \A n : Sent(ConfirmTypes, n)' = Sent(ConfirmTypes, n)
  BY DEF ConfirmsSent, Sent
<1>2. \A n : Nudges(n)' = Nudges(n)
  BY DEF Nudges, IsNudge
<1>3. \A m : Truth(accepted[m])' = Truth(accepted[m])
  BY DEF Truth, Confirm
<1>4. QED BY <1>1, <1>2, <1>3 DEF Matched

LEMMA ConfirmKept ==
  ASSUME ConfirmCount, UNCHANGED <<wire, accepted, served>>, Confirmed' <=> Confirmed
  PROVE  ConfirmCount'
<1>1. Nudges(served)' = Nudges(served) /\ ConfirmsSent' = ConfirmsSent
  BY DEF Nudges, IsNudge, ConfirmsSent, Sent
<1>2. Counted => Counted'
  BY <1>1 DEF Counted
<1>3. QED BY <1>2, MatchedKept DEF ConfirmCount

(* The k-th nudge is the one in hand when k-1 are handled.                  *)
LEMMA NudgeServed ==
  ASSUME PartsTyped, Queue!NothingLost, item # NoCommand
  PROVE  /\ served \in Nat /\ Len(accepted) \in Nat
         /\ served + 1 \in 1..Len(accepted) /\ accepted[served + 1] = item
         /\ IsNudge(item) =>
              /\ served + 1 \in Nudges(Len(accepted))
              /\ Cardinality(Nudges(served + 1)) = Cardinality(Nudges(served)) + 1
         /\ ~IsNudge(item) => Nudges(served + 1) = Nudges(served)
<1>1. /\ served \in Nat /\ Len(accepted) \in Nat /\ Len(cmd_msgq) \in Nat
      /\ Len(accepted) = served + 1 + Len(cmd_msgq) /\ accepted[served + 1] = item
  BY DEF PartsTyped, Queue!QueueTypeOK, Queue!NothingLost
<1>2. served + 1 \in 1..Len(accepted)
  BY <1>1
<1>3. IsNudge(item) <=> accepted[served + 1].type \in NudgeTypes
  BY <1>1 DEF IsNudge, NudgeTypes
<1>4. IsNudge(item) => Cardinality(Nudges(served + 1)) = Cardinality(Nudges(served)) + 1
  BY <1>1, <1>3, NudgesAmong, AmongNext
<1>5. ~IsNudge(item) => Nudges(served + 1) = Nudges(served)
  BY <1>1, <1>3, NudgesAmong, AmongNext
<1>6. IsNudge(item) => served + 1 \in Nudges(Len(accepted))
  BY <1>1, <1>2 DEF Nudges
<1>7. QED BY <1>1, <1>2, <1>4, <1>5, <1>6

LEMMA ConfirmTransmit ==
  ASSUME IInv, PartsTyped, Typed, NudgeCourse, Queue!NothingLost, ConfirmCount,
         NEW t \in Threads, Transmit(t)
  PROVE  ConfirmCount'
<1> SUFFICES ASSUME ~HostMayStall PROVE Matched' /\ Counted'
  BY DEF ConfirmCount
<1> DEFINE r == Contents(arg[t])
<1>1. /\ wire' = Append(wire, r) /\ wire \in Seq(Reports)
      /\ UNCHANGED <<pc, back, arg, item, accepted, served>>
      /\ pc[t] = "send" /\ tx[t] = "sending" /\ tx' = [tx EXCEPT ![t] = "sent"]
  BY DEF Transmit, At, Tx!Write, flow, queueVars, Typed, HistoryTyped
<1>2. r \in Reports
  BY DEF Contents, Typed, ArgTyped, ComposedTyped, Reports
<1>3. tx \in [Threads -> {"out", "waiting", "sending", "sent"}]
  BY DEF IInv, Control
<1>4. /\ Len(wire') = Len(wire) + 1 /\ wire'[Len(wire')] = r
      /\ \A m \in 1..Len(wire) : wire'[m] = wire[m]
      /\ \A n \in 0..Len(wire) : Sent(ConfirmTypes, n)' = Sent(ConfirmTypes, n)
      /\ r.type \in ConfirmTypes =>
           /\ ConfirmsSent' = ConfirmsSent \cup {Len(wire')}
           /\ Cardinality(ConfirmsSent') = Cardinality(ConfirmsSent) + 1
      /\ r.type \notin ConfirmTypes => ConfirmsSent' = ConfirmsSent
  <2>1. ConfirmsSent = Among(wire, ConfirmTypes, Len(wire))
        /\ ConfirmsSent' = Among(wire', ConfirmTypes, Len(wire'))
        /\ \A n \in 0..Len(wire) : /\ Sent(ConfirmTypes, n) = Among(wire, ConfirmTypes, n)
                                   /\ Sent(ConfirmTypes, n)' = Among(wire', ConfirmTypes, n)
    BY DEF ConfirmsSent, Sent, Among
  <2> HIDE DEF r
  <2>2. QED BY <1>1, <1>2, <2>1, AmongAppend
<1>5. \A n \in ConfirmsSent : n \in 1..Len(wire) /\ n \in 0..Len(wire)
  BY DEF ConfirmsSent, Sent
<1>6. Matched /\ Counted
  BY DEF ConfirmCount
<1>7. \A n : Nudges(n)' = Nudges(n)
  BY <1>1 DEF Nudges, IsNudge
<1>8. \A m : Truth(accepted[m])' = Truth(accepted[m])
  BY <1>1 DEF Truth, Confirm
<1>9. ASSUME NEW n \in ConfirmsSent
      PROVE  \E m \in Nudges(Len(accepted)) :
               /\ Cardinality(Nudges(m)) = Cardinality(Sent(ConfirmTypes, n)')
               /\ wire'[n] = Truth(accepted[m])
  BY <1>4, <1>5, <1>6 DEF Matched
<1>10. CASE r.type \in ConfirmTypes
  <2>1. t = "cmd" /\ r = arg["cmd"]
    BY <1>10 DEF Contents, Typed, ArgTyped, ComposedTyped, Passed, LayerReports, OwnReports,
       Entries, Blank, ConfirmTypes, Threads
  <2>2. Confirming /\ r = Truth(item)
    BY <1>1, <1>10, <2>1 DEF NudgeCourse, ConfirmTypes
  <2>3. item # NoCommand /\ IsNudge(item)
    BY <2>2 DEF Confirming, NudgeInHand
  <2>4. ~Confirmed
    BY <1>1, <2>1, <2>2 DEF Confirmed, Confirming
  <2>5. Confirmed'
    <3>1. tx'["cmd"] = "sent"
      BY <1>1, <1>3, <2>1 DEF Threads
    <3>2. QED BY <1>1, <2>2, <3>1 DEF Confirmed, Confirming, NudgeInHand, IsNudge
  <2>6. Cardinality(ConfirmsSent') = Cardinality(Nudges(served)) + 1
    BY <1>4, <1>6, <1>10, <2>4 DEF Counted
  <2>7. Counted'
    BY <1>1, <1>7, <2>5, <2>6 DEF Counted
  <2>8. ASSUME NEW n \in ConfirmsSent'
        PROVE  \E m \in Nudges(Len(accepted)) :
                 /\ Cardinality(Nudges(m)) = Cardinality(Sent(ConfirmTypes, n)')
                 /\ wire'[n] = Truth(accepted[m])
    <3>1. CASE n \in ConfirmsSent
      BY <1>9, <3>1
    <3>2. CASE n = Len(wire')
      <4>1. Sent(ConfirmTypes, n)' = ConfirmsSent'
        BY <3>2 DEF ConfirmsSent, Sent
      <4>2. served + 1 \in Nudges(Len(accepted)) /\ accepted[served + 1] = item
            /\ Cardinality(Nudges(served + 1)) = Cardinality(Nudges(served)) + 1
        BY <2>3, NudgeServed
      <4>3. wire'[n] = Truth(accepted[served + 1])
        BY <1>4, <2>2, <3>2, <4>2
      <4>4. Cardinality(Nudges(served + 1)) = Cardinality(Sent(ConfirmTypes, n)')
        BY <2>6, <4>1, <4>2
      <4>5. QED BY <4>2, <4>3, <4>4
    <3>3. QED BY <1>4, <1>10, <2>8, <3>1, <3>2
  <2>9. Matched'
    BY <1>1, <1>7, <1>8, <2>8 DEF Matched, Sent
  <2>10. QED BY <2>7, <2>9
<1>11. CASE r.type \notin ConfirmTypes
  <2>1. Confirmed' <=> Confirmed
    <3>1. CASE t = "cmd"
      <4>1. arg["cmd"].type \notin ConfirmTypes
        BY <1>11, <3>1 DEF Contents, LayerBuf, ConfirmTypes
      <4>2. ~Confirming
        BY <1>1, <3>1, <4>1 DEF NudgeCourse, ConfirmTypes
      <4>3. QED BY <1>1, <4>2 DEF Confirmed, Confirming, NudgeInHand, IsNudge
    <3>2. CASE t # "cmd"
      <4>1. tx'["cmd"] = tx["cmd"]
        BY <1>1, <1>3, <3>2 DEF Threads
      <4>2. QED BY <1>1, <4>1 DEF Confirmed, Confirming, NudgeInHand, IsNudge
    <3>3. QED BY <3>1, <3>2
  <2>2. Counted'
    BY <1>1, <1>4, <1>6, <1>7, <1>11, <2>1 DEF Counted
  <2>3. Matched'
    BY <1>1, <1>4, <1>7, <1>8, <1>9, <1>11 DEF Matched, Sent
  <2>4. QED BY <2>2, <2>3
<1>12. QED BY <1>10, <1>11

LEMMA ConfirmFinish ==
  ASSUME IInv, PartsTyped, NudgeCourse, Queue!NothingLost, ConfirmCount, FinishCommand
  PROVE  ConfirmCount'
<1> SUFFICES ASSUME ~HostMayStall PROVE Matched' /\ Counted'
  BY DEF ConfirmCount
<1>1. /\ pc["cmd"] = "finish" /\ pc'["cmd"] = "handle" /\ item # NoCommand
      /\ served' = served + 1 /\ UNCHANGED <<wire, accepted>>
  BY DEF FinishCommand, At, Goto, Queue!Finish, IInv, Control, Threads
<1>2. Matched /\ Counted
  BY DEF ConfirmCount
<1>3. (Confirmed <=> IsNudge(item)) /\ ~Confirmed'
  BY <1>1 DEF Confirmed, NudgeInHand, Confirming
<1>4. ConfirmsSent' = ConfirmsSent /\ \A n : Nudges(n)' = Nudges(n)
  BY <1>1 DEF ConfirmsSent, Sent, Nudges, IsNudge
<1>5. Counted'
  BY <1>1, <1>2, <1>3, <1>4, NudgeServed DEF Counted
<1>6. Matched'
  BY <1>1, <1>2, MatchedKept
<1>7. QED BY <1>5, <1>6

(* A command more does not disturb what is known of the earlier ones.       *)
LEMMA ConfirmReceive ==
  ASSUME PartsTyped, Queue!NothingLost, ConfirmCount, NEW c \in Commands,
         accepted' = accepted \/ accepted' = Append(accepted, c),
         UNCHANGED <<wire, served>>, Confirmed' <=> Confirmed
  PROVE  ConfirmCount'
<1>1. CASE accepted' = accepted
  BY <1>1, ConfirmKept
<1>2. CASE accepted' = Append(accepted, c)
  <2> SUFFICES ASSUME ~HostMayStall PROVE Matched' /\ Counted'
    BY DEF ConfirmCount
  <2>1. Matched /\ Counted
    BY DEF ConfirmCount
  <2>2. accepted \in Seq(Commands) /\ Len(accepted) \in Nat /\ served \in 0..Len(accepted)
    BY DEF PartsTyped, Queue!QueueTypeOK, Queue!NothingLost
  <2>3. /\ Len(accepted') = Len(accepted) + 1
        /\ \A m \in 1..Len(accepted) : accepted'[m] = accepted[m]
    BY <1>2, <2>2
  <2>4. \A n \in 0..Len(accepted) : Nudges(n)' = Nudges(n)
    <3>1. \A n : Nudges(n)' = Among(accepted', NudgeTypes, n)
      BY DEF Nudges, IsNudge, Among, NudgeTypes
    <3>2. \A n \in 0..Len(accepted) :
            Among(accepted', NudgeTypes, n) = Among(accepted, NudgeTypes, n)
      BY <1>2, <2>2, AmongAppend
    <3>3. QED BY <3>1, <3>2, NudgesAmong
  <2>5. ConfirmsSent' = ConfirmsSent /\ \A n : Sent(ConfirmTypes, n)' = Sent(ConfirmTypes, n)
    BY DEF ConfirmsSent, Sent
  <2>6. Counted'
    BY <2>1, <2>2, <2>4, <2>5 DEF Counted
  <2>7. ASSUME NEW n \in ConfirmsSent
        PROVE  \E m \in Nudges(Len(accepted))' :
                 /\ Cardinality(Nudges(m)') = Cardinality(Sent(ConfirmTypes, n))
                 /\ wire[n] = Truth(accepted'[m])
    <3>1. PICK m \in Nudges(Len(accepted)) :
            /\ Cardinality(Nudges(m)) = Cardinality(Sent(ConfirmTypes, n))
            /\ wire[n] = Truth(accepted[m])
      BY <2>1 DEF Matched
    <3>2. m \in 1..Len(accepted) /\ m \in 0..Len(accepted) /\ IsNudge(accepted[m])
      BY <2>2, <3>1 DEF Nudges
    <3>3. accepted'[m] = accepted[m] /\ m \in Nudges(Len(accepted))'
      BY <2>2, <2>3, <3>2 DEF Nudges, IsNudge
    <3>4. QED BY <2>4, <3>1, <3>2, <3>3
  <2>8. Matched'
    BY <2>5, <2>7 DEF Matched, Sent, Truth, Confirm, Nudges
  <2>9. QED BY <2>6, <2>8
<1>3. QED BY <1>1, <1>2

LEMMA ConfirmStep ==
  /\ IInv /\ PartsTyped /\ Working /\ Course /\ Typed
  /\ Queue!NothingLost /\ NudgeCourse /\ ConfirmCount /\ [Next]_vars
  => ConfirmCount'
<1> SUFFICES ASSUME IInv, PartsTyped, Working, Course, Typed, Queue!NothingLost,
                    NudgeCourse, ConfirmCount, [Next]_vars
             PROVE  ConfirmCount'
  OBVIOUS
<1>1. CASE \E t \in Threads : Transmit(t)
  BY <1>1, ConfirmTransmit
<1>2. CASE /\ \/ HostReads \/ SignalWorker \/ StreamStep \/ UNCHANGED vars
              \/ \E key \in LayerKeys : LayerKey(key)
              \/ \E p \in Positions : KeyEvent(p)
              \/ \E b \in Bindings : Originate(b)
              \/ \E u \in Threads \ {"cmd"} : Sending(u)
           /\ ~\E t \in Threads : Transmit(t)
  <2>1. wire' = wire
    BY <1>2, WireStep
  <2>2. Confirmed' <=> Confirmed
    BY <1>2, HandlerRests DEF Typed, Confirmed, Confirming, NudgeInHand, IsNudge
  <2>3. UNCHANGED <<accepted, served>>
    BY <1>2, HandlerRests DEF Typed
  <2>4. QED BY <2>1, <2>2, <2>3, ConfirmKept
<1>3. CASE TimeOut("cmd")
  BY <1>3 DEF TimeOut, ConfirmCount
<1>4. CASE Sending("cmd") /\ ~TimeOut("cmd") /\ ~\E t \in Threads : Transmit(t)
  <2>1. wire' = wire
    BY <1>4, WireStep
  <2>2. Confirmed' <=> Confirmed
    BY <1>4, SendingNudge DEF Threads
  <2>3. UNCHANGED <<accepted, served>>
    BY <1>4 DEF Sending, Notify, ScanLayer, ZeroBuffer, WriteHeader, WriteMask,
       EnterFunnel, LeaveFunnel, Threads, queueVars
  <2>4. QED BY <2>1, <2>2, <2>3, ConfirmKept
<1>5. CASE FinishCommand
  BY <1>5, ConfirmFinish
<1>6. CASE Dispatching /\ ~FinishCommand
  <2>1. Confirmed' <=> Confirmed
    BY <1>6, DispatchNudge
  <2>2. UNCHANGED <<wire, accepted, served>>
    BY <1>6 DEF Dispatching, Reply, SetLayers, ClearLayer, FillLayer, ReportSetLayers,
       SetBase, LeaveLayer, EnterLayer, Nudge, SendConfirm, Ignore, queueVars
  <2>3. QED BY <2>1, <2>2, ConfirmKept
<1>7. ASSUME NEW c \in Commands, Receive(c) PROVE ConfirmCount'
  BY <1>7, ReceiveNudge, ConfirmReceive
<1>8. QED
  BY <1>1, <1>2, <1>3, <1>4, <1>5, <1>6, <1>7 DEF Next, Environment

(* Each 0xF2 and 0xF3 that got past the listener is confirmed once, in the  *)
(* order the host sent them and with ZMK's answer (layer_actions.c:50-79),  *)
(* while the host reads: however commands queue up behind one another and   *)
(* whatever the other threads send in between.                              *)
THEOREM ConfirmsInvariant == Spec => []ConfirmsInOrder
<1>1. PartsTyped /\ Queue!NothingLost /\ ConfirmCount => ConfirmsInOrder
  <2> SUFFICES ASSUME PartsTyped, Queue!NothingLost, Matched, Counted
               PROVE  ConfirmsInOrder
    BY DEF ConfirmCount, ConfirmsInOrder
  <2>1. Quiescent => Cardinality(ConfirmsSent) = Cardinality(Nudges(Len(accepted)))
    <3> SUFFICES ASSUME Quiescent
                 PROVE  Cardinality(ConfirmsSent) = Cardinality(Nudges(Len(accepted)))
      OBVIOUS
    <3>1. item = NoCommand
      BY DEF Quiescent, HasWork, Threads
    <3>2. ~Confirmed /\ Len(accepted) = served
      BY <3>1 DEF Confirmed, NudgeInHand, Queue!NothingLost
    <3>3. QED BY <3>2 DEF Counted
  <2>2. QED BY <2>1 DEF Matched, ConfirmsInOrder, ConfirmsSent, ConfirmTypes, Truth
<1>2. Spec => []Queue!NothingLost
  BY FirmwareKeepsPromises, PTL
<1>3. Spec => [](NudgeCourse /\ ConfirmCount)
  BY <1>2, NudgeCourseInit, NudgeCourseStep, ConfirmInit, ConfirmStep, TypedInvariant, PTL
     DEF Spec
<1>4. QED BY <1>1, <1>2, <1>3, TypedInvariant, PTL

-----------------------------------------------------------------------------
(***************************************************************************)
(* The picture of the layers that the host is left with.  Unless disturbed,*)
(* at most one thread reports the layers, and when no report of them is    *)
(* owed what it has gathered so far is what they are; with none under way, *)
(* the last report on the wire says what they are.                         *)
(***************************************************************************)
Owed == SettingLayers \/ \E t \in Threads : pc[t] = "notify"

Fresh(t) ==
  /\ pc[t] = "scan" => scan[t] = active \cap (0..bit[t] - 1)
  /\ pc[t] \in {"zero", "header", "mask"} => scan[t] = Visible
  /\ pc[t] \in {"mask", "send"} => layer_buf.type = "LAYER_STATE"
  /\ pc[t] = "send" => layer_buf.mask = Visible

Picture ==
  ~disturbed =>
    /\ \A t, u \in Threads : Reporting(t) /\ Reporting(u) => t = u
    /\ ~Owed => /\ \A t \in Threads : Reporting(t) => Fresh(t)
                /\ (\A t \in Threads : ~Reporting(t)) => HostView = Visible

(* send_layer_state() starts from clear locals.                             *)
LocalsClear == \A t \in Threads : pc[t] \notin Composing => bit[t] = 0 /\ scan[t] = {}

(* The layer reports of a sequence, the last of them and what it says.      *)
LayerTypes == {"LAYER_STATE"}
Heard(w) == Among(w, LayerTypes, Len(w))
IsLast(n, w) == n \in Heard(w) /\ \A m \in Heard(w) : m <= n
View(w) == IF Heard(w) = {} THEN {0}
           ELSE w[CHOOSE n \in Heard(w) : \A m \in Heard(w) : m <= n].mask

(* There is a last one among the layer reports on the wire, if any.         *)
HasLast(w) == Heard(w) = {} \/ \E n : IsLast(n, w)

Portrait == HasLast(wire) /\ LocalsClear /\ Picture

LEMMA HostViews == HostView = View(wire) /\ HostView' = View(wire')
BY DEF HostView, View, Heard, Sent, Among, LayerTypes

LEMMA LastHeard ==
  ASSUME NEW w, NEW n, IsLast(n, w), Len(w) \in Nat
  PROVE  View(w) = w[n].mask
<1> DEFINE last == CHOOSE k \in Heard(w) : \A m \in Heard(w) : m <= k
<1>1. last \in Heard(w) /\ \A m \in Heard(w) : m <= last
  BY DEF IsLast
<1>2. View(w) = w[last].mask
  BY DEF View, IsLast
<1> HIDE DEF last
<1>3. n \in Nat /\ last \in Nat /\ n <= last /\ last <= n
  BY <1>1 DEF IsLast, Heard, Among
<1>4. last = n
  BY <1>3
<1>5. QED BY <1>2, <1>4

(* What a report on the wire does to the picture the host has.              *)
LEMMA ViewAppend ==
  ASSUME NEW S, NEW w \in Seq(S), NEW r \in S, HasLast(w)
  PROVE  LET v == Append(w, r)
         IN  /\ HasLast(v)
             /\ r.type \in LayerTypes => View(v) = r.mask
             /\ r.type \notin LayerTypes => View(v) = View(w)
<1> DEFINE v == Append(w, r)
<1>1. /\ Len(v) = Len(w) + 1 /\ v[Len(v)] = r
      /\ \A m \in 1..Len(w) : v[m] = w[m]
      /\ r.type \in LayerTypes => Heard(v) = Heard(w) \cup {Len(v)}
      /\ r.type \notin LayerTypes => Heard(v) = Heard(w)
  BY AmongAppend DEF Heard
<1>2. Heard(w) \subseteq 1..Len(w) /\ Len(w) \in Nat /\ Len(v) \in Nat
  BY DEF Heard, Among
<1> HIDE DEF v
<1>3. CASE r.type \in LayerTypes
  <2>1. IsLast(Len(v), v)
    BY <1>1, <1>2, <1>3 DEF IsLast
  <2>2. View(v) = r.mask
    BY <1>1, <1>2, <2>1, LastHeard
  <2>3. QED BY <1>3, <2>1, <2>2 DEF HasLast, v
<1>4. CASE r.type \notin LayerTypes
  <2>1. CASE Heard(w) = {}
    BY <1>1, <1>4, <2>1 DEF HasLast, View, v
  <2>2. CASE Heard(w) # {}
    <3>1. PICK n : IsLast(n, w)
      BY <2>2 DEF HasLast
    <3>2. n \in 1..Len(w) /\ IsLast(n, v)
      BY <1>1, <1>2, <1>4, <3>1 DEF IsLast
    <3>3. View(w) = w[n].mask /\ View(v) = v[n].mask
      BY <1>2, <3>1, <3>2, LastHeard
    <3>4. QED BY <1>1, <1>4, <3>2, <3>3 DEF HasLast, v
  <2>3. QED BY <2>1, <2>2
<1>5. QED BY <1>3, <1>4 DEF v

LEMMA PortraitInit == Init => Portrait
<1> SUFFICES ASSUME Init PROVE Portrait
  OBVIOUS
<1>1. \A t \in Threads : pc[t] \in {"idle", "handle", "run"} /\ bit[t] = 0 /\ scan[t] = {}
  BY DEF Init
<1>2. \A t \in Threads : ~Reporting(t)
  BY <1>1 DEF Reporting, Composing
<1>3. wire = <<>> /\ active = {0}
  BY DEF Init
<1>4. Heard(wire) = {}
  BY <1>3 DEF Heard, Among
<1>5. Visible = {0}
  BY <1>3, HidVizAssumption DEF Visible
<1>6. Picture
  BY <1>2, <1>4, <1>5, HostViews DEF Picture, View
<1>7. QED BY <1>1, <1>4, <1>6 DEF Portrait, HasLast, LocalsClear

(* A step of thread t that begins no report of the layers and is not part   *)
(* of one, whatever it does to the layers: it then owes the host a report.  *)
LEMMA PictureStays ==
  ASSUME Portrait, NEW t \in Threads,
         UNCHANGED <<tx, wire, bit, scan, layer_buf, disturbed>>,
         \A u \in Threads \ {t} : pc'[u] = pc[u] /\ arg'[u] = arg[u],
         \/ pc'[t] = pc[t] /\ arg'[t] = arg[t]
         \/ /\ pc[t] \notin Composing \cup {"notify", "send"}
            /\ pc'[t] \notin Composing
            /\ pc'[t] = "send" => arg'[t] # LayerBuf,
         SettingLayers => SettingLayers',
         active' = active \/ Owed'
  PROVE  Portrait'
<1>1. \A u \in Threads : Reporting(u)' <=> Reporting(u)
  <2>1. \A u \in Threads \ {t} : Reporting(u)' <=> Reporting(u)
    BY DEF Reporting
  <2>2. Reporting(t)' <=> Reporting(t)
    BY DEF Reporting
  <2>3. QED BY <2>1, <2>2
<1>2. Owed => Owed'
  BY DEF Owed
<1>3. HostView' = HostView
  BY HostViews
<1>4. ~Owed' => \A u \in Threads : Reporting(u) => (Fresh(u)' <=> Fresh(u))
  <2>1. \A u \in Threads : Reporting(u) => pc'[u] = pc[u]
    BY DEF Reporting
  <2>2. QED BY <2>1 DEF Fresh, Visible
<1>5. Picture'
  <2>1. ~Owed' => Visible' = Visible
    BY DEF Visible
  <2>2. QED BY <1>1, <1>2, <1>3, <1>4, <2>1 DEF Portrait, Picture
<1>6. LocalsClear'
  <2>1. \A u \in Threads : pc'[u] \notin Composing => pc[u] \notin Composing
    OBVIOUS
  <2>2. QED BY <2>1 DEF Portrait, LocalsClear
<1>7. QED BY <1>5, <1>6 DEF Portrait

(* send_layer_state() is entered: if nothing is disturbed by that, it is    *)
(* the only report of the layers under way, and nothing is scanned yet.     *)
LEMMA ReportBegins ==
  ASSUME IInv, ComposedTyped, Portrait, NEW t \in Threads, NEW k, ReportLayers(t, k),
         pc[t] \notin Composing,
         UNCHANGED <<tx, arg, wire, bit, scan, layer_buf>>
  PROVE  Portrait'
<1>1. pc'[t] = "scan" /\ \A u \in Threads \ {t} : pc'[u] = pc[u]
  BY DEF ReportLayers, Call, IInv, Control
<1>2. \A u \in Threads \ {t} : Reporting(u)' <=> Reporting(u)
  BY <1>1 DEF Reporting
<1>3. bit'[t] = 0 /\ scan'[t] = {}
  BY DEF Portrait, LocalsClear
<1>4. Fresh(t)'
  BY <1>1, <1>3 DEF Fresh
<1>5. Picture'
  <2>1. SUFFICES ASSUME ~disturbed'
                 PROVE  (\A u \in Threads : Reporting(u)' <=> u = t)
    BY <1>4, <2>1 DEF Picture
  <2>2. \A u \in Threads \ {t} : ~Reporting(u)
    BY <2>1 DEF ReportLayers
  <2>3. Reporting(t)'
    BY <1>1 DEF Reporting, Composing
  <2>4. QED BY <1>2, <2>2, <2>3
<1>6. LocalsClear'
  BY <1>1 DEF Portrait, LocalsClear, Composing
<1>7. QED BY <1>5, <1>6 DEF Portrait

(* A step of a report of the layers under way: what it has gathered stays   *)
(* true of the layers, and there is no other one.                           *)
LEMMA ReportGoesOn ==
  ASSUME Portrait, NEW t \in Threads, pc[t] \in Composing, Reporting(t)',
         \A u \in Threads \ {t} : pc'[u] = pc[u] /\ arg'[u] = arg[u],
         UNCHANGED <<back, tx, wire, active, disturbed>>,
         pc'[t] \in Composing \cup {"send"},
         Fresh(t) => Fresh(t)', LocalsClear'
  PROVE  Portrait'
<1>1. \A u \in Threads : Reporting(u)' <=> Reporting(u)
  <2>1. Reporting(t)
    BY DEF Reporting
  <2>2. \A u \in Threads \ {t} : Reporting(u)' <=> Reporting(u)
    BY DEF Reporting
  <2>3. QED BY <2>1, <2>2
<1>2. Owed => Owed'
  <2>1. SettingLayers => SettingLayers'
    BY DEF SettingLayers, InLoops, Composing, Threads
  <2>2. \A u \in Threads : pc[u] = "notify" => pc'[u] = "notify"
    BY DEF Composing
  <2>3. QED BY <2>1, <2>2 DEF Owed
<1>3. Picture'
  BY <1>1, <1>2 DEF Portrait, Picture
<1>4. QED BY <1>3 DEF Portrait

LEMMA ComposePaints ==
  ASSUME IInv, Typed, Portrait, NEW t \in Threads,
         ScanLayer(t) \/ ZeroBuffer(t) \/ WriteHeader(t) \/ WriteMask(t)
  PROVE  Portrait'
<1>1. /\ pc \in [Threads -> Labels] /\ arg \in [Threads -> Reports \cup {LayerBuf}]
      /\ bit \in [Threads -> 0..LayerBits]
      /\ scan \in [Threads -> SUBSET (0..LayerBits - 1)] /\ layer_buf \in LayerReports
      /\ LayerBits \in Nat
  BY HidVizAssumption DEF IInv, Control, Typed, ArgTyped, ComposedTyped
<1>2. LocalsClear
  BY DEF Portrait
<1>3. CASE ScanLayer(t)
  <2>1. pc[t] = "scan" /\ UNCHANGED <<back, arg, tx, wire, active, disturbed>>
    BY <1>3 DEF ScanLayer, At, flow, Goto, txVars
  <2>2. CASE bit[t] < LayerBits
    <3>1. /\ pc' = pc
          /\ bit'[t] = bit[t] + 1 /\ scan'[t] = scan[t] \cup ({bit[t]} \cap active)
          /\ \A u \in Threads \ {t} : bit'[u] = bit[u] /\ scan'[u] = scan[u]
      BY <1>1, <1>3, <2>2 DEF ScanLayer, flow
    <3>2. Fresh(t) => Fresh(t)'
      <4>1. bit[t] \in Nat
        BY <1>1
      <4>2. 0..(bit[t] + 1) - 1 = (0..bit[t] - 1) \cup {bit[t]}
        BY <4>1
      <4>3. QED BY <2>1, <3>1, <4>2 DEF Fresh
    <3>3. LocalsClear'
      BY <1>2, <2>1, <3>1 DEF LocalsClear, Composing
    <3>4. QED BY <2>1, <3>1, <3>2, <3>3, ReportGoesOn DEF Reporting, Composing
  <2>3. CASE ~(bit[t] < LayerBits)
    <3>1. /\ pc'[t] = "zero" /\ \A u \in Threads \ {t} : pc'[u] = pc[u]
          /\ UNCHANGED <<bit, scan>>
      BY <1>1, <1>3, <2>3 DEF ScanLayer, Goto
    <3>2. Fresh(t) => Fresh(t)'
      <4>1. bit[t] = LayerBits
        BY <1>1, <2>3
      <4>2. QED BY <2>1, <3>1, <4>1 DEF Fresh, Visible
    <3>3. LocalsClear'
      BY <1>2, <3>1 DEF LocalsClear, Composing
    <3>4. QED BY <2>1, <3>1, <3>2, <3>3, ReportGoesOn DEF Reporting, Composing
  <2>4. QED BY <2>2, <2>3
<1>4. CASE ZeroBuffer(t) \/ WriteHeader(t)
  <2>1. /\ pc[t] \in {"zero", "header"} /\ pc'[t] \in {"header", "mask"}
        /\ pc'[t] = "mask" => pc[t] = "header"
        /\ \A u \in Threads \ {t} : pc'[u] = pc[u]
        /\ UNCHANGED <<back, arg, tx, wire, active, bit, scan, disturbed>>
        /\ pc'[t] = "mask" => layer_buf'.type = "LAYER_STATE"
    BY <1>1, <1>4 DEF ZeroBuffer, WriteHeader, At, Goto, txVars, LayerReports
  <2>2. Fresh(t) => Fresh(t)'
    BY <2>1 DEF Fresh, Visible
  <2>3. LocalsClear'
    BY <1>2, <2>1 DEF LocalsClear, Composing
  <2>4. QED BY <2>1, <2>2, <2>3, ReportGoesOn DEF Reporting, Composing
<1>5. CASE WriteMask(t)
  <2>1. /\ pc[t] = "mask" /\ pc'[t] = "send" /\ arg'[t] = LayerBuf
        /\ \A u \in Threads \ {t} : /\ pc'[u] = pc[u] /\ arg'[u] = arg[u]
                                    /\ bit'[u] = bit[u] /\ scan'[u] = scan[u]
        /\ UNCHANGED <<back, tx, wire, active, disturbed>>
        /\ bit'[t] = 0 /\ scan'[t] = {}
        /\ layer_buf'.type = layer_buf.type /\ layer_buf'.mask = scan[t]
    BY <1>1, <1>5 DEF WriteMask, At, Send, Call, txVars, LayerReports, IInv, Control
  <2>2. Fresh(t) => Fresh(t)'
    BY <2>1 DEF Fresh, Visible
  <2>3. LocalsClear'
    BY <1>2, <2>1 DEF LocalsClear
  <2>4. Reporting(t)'
    BY <2>1, OutsideFunnel DEF Reporting
  <2>5. QED BY <2>1, <2>2, <2>3, <2>4, ReportGoesOn DEF Composing
<1>6. QED BY <1>3, <1>4, <1>5

(* A layer event: reported, or muted away while more of them are to come,   *)
(* or disturbing.                                                           *)
LEMMA NotifyPaints ==
  ASSUME IInv, Course, Typed, Portrait, NEW t \in Threads, Notify(t)
  PROVE  Portrait'
<1>1. pc[t] = "notify" /\ UNCHANGED <<tx, arg, wire, bit, scan, layer_buf, active>>
  BY DEF Notify, At, txVars, report
<1>2. CASE ReportLayers(t, back[t])
  BY <1>1, <1>2, ReportBegins DEF Composing, Typed
<1>3. CASE Goto(t, back[t]) /\ disturbed' = (disturbed \/ ~SettingLayers)
  <2>1. /\ pc'[t] = back[t] /\ \A u \in Threads \ {t} : pc'[u] = pc[u]
        /\ back' = back /\ back[t] \in Resumable
    BY <1>3 DEF Goto, IInv, Control, Course, Threads, Resumable
  <2>2. \A u \in Threads : Reporting(u)' <=> Reporting(u)
    <3>1. pc'[t] \notin Composing \cup {"send"}
      BY <2>1 DEF Resumable, Composing
    <3>2. QED BY <1>1, <2>1, <3>1 DEF Reporting, Composing
  <2>3. SettingLayers => SettingLayers'
    BY <1>1, <2>1 DEF SettingLayers, InLoops, Threads
  <2>4. Picture'
    <3>1. SUFFICES ASSUME ~disturbed' PROVE Picture'
      BY DEF Picture
    <3>2. ~disturbed /\ SettingLayers
      BY <1>3, <3>1
    <3>3. Owed'
      BY <2>3, <3>2 DEF Owed
    <3>4. QED BY <2>2, <3>2, <3>3 DEF Portrait, Picture
  <2>5. LocalsClear'
    BY <1>1, <2>1 DEF Portrait, LocalsClear, Composing
  <2>6. QED BY <1>1, <2>4, <2>5 DEF Portrait
<1>4. QED BY <1>2, <1>3 DEF Notify

(* The funnel moves the threads in hid_viz_send(): whose report of the      *)
(* layers is under way changes only when one is written or given up.        *)
LEMMA FunnelPaints ==
  ASSUME IInv, Course, Typed, Portrait, NEW t \in Threads,
         EnterFunnel(t) \/ Transmit(t) \/ LeaveFunnel(t) \/ TimeOut(t)
  PROVE  Portrait'
<1>1. /\ pc[t] = "send" /\ UNCHANGED <<back, bit, scan, layer_buf, active>>
      /\ tx \in [Threads -> {"out", "waiting", "sending", "sent"}]
      /\ pc \in [Threads -> Labels] /\ arg \in [Threads -> Reports \cup {LayerBuf}]
  BY DEF EnterFunnel, Transmit, LeaveFunnel, TimeOut, At, Tx!GiveUp, flow, report, Goto,
     IInv, Control, Typed, ArgTyped
<1>2. \A u \in Threads \ {t} : /\ Reporting(u)' <=> Reporting(u)
                               /\ pc'[u] = pc[u]
  <2>1. Sending(t)
    BY DEF Sending
  <2>2. QED BY <2>1, OthersSend DEF Typed, Reporting
<1>3. back[t] \in Resumable /\ (t = "cmd" => back[t] \notin {"clear", "fill"})
  BY <1>1 DEF IInv, Control, MuteFlag, Course, Threads, Resumable
<1>4. pc'[t] \in {"send", back[t]}
  BY <1>1 DEF EnterFunnel, Transmit, LeaveFunnel, TimeOut, Goto, flow
<1>5. Owed' <=> Owed
  <2>1. SettingLayers' <=> SettingLayers
    BY <1>1, <1>2, <1>3, <1>4 DEF SettingLayers, InLoops, Threads
  <2>2. \A u \in Threads : pc'[u] = "notify" <=> pc[u] = "notify"
    BY <1>1, <1>2, <1>3, <1>4 DEF Resumable
  <2>3. QED BY <2>1, <2>2 DEF Owed
<1>6. LocalsClear'
  BY <1>1, <1>2 DEF Portrait, LocalsClear, Composing
<1>7. \A u \in Threads \ {t} : Fresh(u)' <=> Fresh(u)
  BY <1>1, <1>2 DEF Fresh, Visible
<1>8. Visible' = Visible
  BY <1>1 DEF Visible
<1>9. CASE EnterFunnel(t) \/ LeaveFunnel(t) \/ (TimeOut(t) /\ arg[t] # LayerBuf)
  <2>1. wire' = wire /\ disturbed' \in {disturbed, TRUE}
    BY <1>9 DEF EnterFunnel, LeaveFunnel, TimeOut, Typed, HistoryTyped
  <2>2. Reporting(t)' <=> Reporting(t)
    <3>1. CASE EnterFunnel(t)
      BY <1>1, <3>1 DEF EnterFunnel, Tx!Lock, flow, Reporting, Composing
    <3>2. CASE LeaveFunnel(t)
      <4>1. pc'[t] = back[t] /\ tx[t] = "sent"
        BY <1>1, <3>2 DEF LeaveFunnel, Goto, Tx!Unlock
      <4>2. QED BY <1>1, <1>3, <4>1 DEF Reporting, Composing, Resumable
    <3>3. CASE TimeOut(t) /\ arg[t] # LayerBuf
      BY <1>1, <3>3 DEF TimeOut, flow, Reporting, Composing
    <3>4. QED BY <1>9, <3>1, <3>2, <3>3
  <2>3. Fresh(t) /\ Reporting(t) => Fresh(t)'
    <3>1. Reporting(t)' => pc'[t] = "send"
      BY <1>3, <1>4 DEF Reporting, Composing, Resumable
    <3>2. QED BY <1>1, <1>8, <2>2, <3>1 DEF Fresh
  <2>4. HostView' = HostView /\ HasLast(wire)'
    BY <2>1, HostViews DEF Portrait
  <2>5. Picture'
    <3>1. SUFFICES ASSUME ~disturbed' PROVE Picture'
      BY DEF Picture
    <3>2. ~disturbed
      BY <2>1, <3>1
    <3>3. QED BY <1>2, <1>5, <1>7, <1>8, <2>2, <2>3, <2>4, <3>2 DEF Portrait, Picture
  <2>6. QED BY <1>6, <2>4, <2>5 DEF Portrait
<1>10. CASE TimeOut(t) /\ arg[t] = LayerBuf
  <2>1. disturbed' /\ wire' = wire
    BY <1>10 DEF TimeOut
  <2>2. QED BY <1>6, <2>1 DEF Portrait, Picture
<1>11. CASE Transmit(t)
  <2> DEFINE r == Contents(arg[t])
  <2>1. /\ wire' = Append(wire, r) /\ wire \in Seq(Reports) /\ r \in Reports
        /\ UNCHANGED <<pc, arg, disturbed>>
        /\ tx[t] = "sending" /\ tx'[t] = "sent"
    BY <1>1, <1>11 DEF Transmit, Tx!Write, flow, Contents, Typed, ArgTyped, ComposedTyped,
       HistoryTyped, Reports
  <2>2. /\ HasLast(wire')
        /\ r.type \in LayerTypes => HostView' = r.mask
        /\ r.type \notin LayerTypes => HostView' = HostView
    <3> HIDE DEF r
    <3>1. QED BY <2>1, ViewAppend, HostViews DEF Portrait
  <2>3. ~Reporting(t)'
    BY <1>1, <2>1 DEF Reporting, Composing
  <2>4. CASE arg[t] = LayerBuf
    <3>1. Reporting(t) /\ r = layer_buf
      BY <1>1, <2>1, <2>4 DEF Reporting, Contents
    <3>2. Fresh(t) => HostView' = Visible
      BY <1>1, <2>2, <3>1 DEF Fresh, LayerTypes
    <3>3. Picture'
      BY <1>2, <1>5, <1>8, <2>1, <2>3, <3>1, <3>2 DEF Portrait, Picture
    <3>4. QED BY <1>6, <2>2, <3>3 DEF Portrait
  <2>5. CASE arg[t] # LayerBuf
    <3>1. r.type \notin LayerTypes
      BY <2>5 DEF Contents, Typed, ArgTyped, Passed, OwnReports, Answers, Entries, Blank,
         LayerTypes, Threads
    <3>2. ~Reporting(t)
      BY <1>1, <2>5 DEF Reporting, Composing
    <3>3. Picture'
      BY <1>2, <1>5, <1>7, <1>8, <2>1, <2>2, <2>3, <3>1, <3>2 DEF Portrait, Picture
    <3>4. QED BY <1>6, <2>2, <3>3 DEF Portrait
  <2>6. QED BY <2>4, <2>5
<1>12. QED BY <1>9, <1>10, <1>11

(* The handlers, which owe the host a report for each change of a layer and *)
(* for all of a 0xFC's changes together until the last.                     *)
LEMMA DispatchPaints ==
  ASSUME IInv, Course, Typed, Portrait, Dispatching
  PROVE  Portrait'
<1>1. CASE ReportSetLayers
  <2>1. /\ pc["cmd"] = "fill" /\ ReportLayers("cmd", "finish")
        /\ UNCHANGED <<tx, arg, wire, bit, scan, layer_buf>>
    BY <1>1 DEF ReportSetLayers, At, txVars, report
  <2>2. QED BY <1>1, <2>1, ReportBegins DEF Composing, Typed, Threads
<1>2. CASE ~ReportSetLayers
  <2>1. UNCHANGED <<tx, wire, bit, scan, layer_buf, disturbed>>
    BY <1>2 DEF Dispatching, Reply, SetLayers, ClearLayer, FillLayer, SetBase, LeaveLayer,
       EnterLayer, Nudge, SendConfirm, Ignore, FinishCommand, txVars, report
  <2>2. \A u \in Threads \ {"cmd"} : pc'[u] = pc[u] /\ arg'[u] = arg[u]
    <3>1. arg' = arg \/ \E r : arg' = [arg EXCEPT !["cmd"] = r]
      BY <1>2 DEF Dispatching, Reply, SetLayers, ClearLayer, FillLayer, SetBase, LeaveLayer,
         EnterLayer, Nudge, SendConfirm, Ignore, FinishCommand, Send
    <3>2. QED BY <3>1, DispatchFlow DEF Typed, ArgTyped
  <2>3. pc["cmd"] \notin Composing \cup {"notify", "send"}
    BY DispatchFlow DEF Composing
  <2>4. pc'["cmd"] \notin Composing
    BY <1>2 DEF Dispatching, Reply, SetLayers, ClearLayer, FillLayer, SetBase, LeaveLayer,
       EnterLayer, Nudge, SendConfirm, Ignore, FinishCommand, KeymapOp, At, Handle, Goto,
       Call, Send, flow, Composing, IInv, Control, Threads
  <2>5. pc'["cmd"] = "send" => arg'["cmd"] # LayerBuf
    <3>1. CASE \/ Reply("GET_DEVICE_INFO", "DEVICE_INFO") \/ Reply("GET_CONFIG_ID", "CONFIG_ID")
               \/ SendConfirm
      BY <3>1 DEF Reply, SendConfirm, Send, Confirm, LayerBuf, Typed, ArgTyped, Threads
    <3>2. CASE ~\/ Reply("GET_DEVICE_INFO", "DEVICE_INFO") \/ Reply("GET_CONFIG_ID", "CONFIG_ID")
                \/ SendConfirm
      BY <1>2, <3>2 DEF Dispatching, SetLayers, ClearLayer, FillLayer, SetBase,
         LeaveLayer, EnterLayer, Nudge, Ignore, FinishCommand, KeymapOp, At, Handle, Goto,
         Call, flow, IInv, Control, Threads
    <3>3. QED BY <3>1, <3>2
  <2>6. SettingLayers => SettingLayers'
    <3>1. SettingLayers => pc["cmd"] \in {"clear", "fill"}
      BY <2>3 DEF SettingLayers, InLoops
    <3>2. CASE ClearLayer \/ FillLayer
      BY <3>2 DEF ClearLayer, FillLayer, At, KeymapOp, Goto, Call, flow, SettingLayers, InLoops,
         IInv, Control, Threads
    <3>3. CASE ~ClearLayer /\ ~FillLayer
      BY <1>2, <3>1, <3>3 DEF Dispatching, Reply, SetLayers, SetBase, LeaveLayer,
         EnterLayer, Nudge, SendConfirm, Ignore, FinishCommand, At, Handle
    <3>4. QED BY <3>2, <3>3
  <2>7. active' = active \/ Owed'
    <3>1. active' = active \/ pc'["cmd"] = "notify"
      BY <1>2 DEF Dispatching, Reply, SetLayers, ClearLayer, FillLayer, SetBase, LeaveLayer,
         EnterLayer, Nudge, SendConfirm, Ignore, FinishCommand, KeymapOp, Call, IInv, Control,
         Threads
    <3>2. QED BY <3>1 DEF Owed, Threads
  <2>8. QED BY <2>1, <2>2, <2>3, <2>4, <2>5, <2>6, <2>7, PictureStays DEF Threads
<1>3. QED BY <1>1, <1>2

LEMMA EventPaints ==
  ASSUME IInv, Typed, Portrait,
         \/ \E key \in LayerKeys : LayerKey(key)
         \/ \E p \in Positions : KeyEvent(p)
         \/ \E b \in Bindings : Originate(b)
  PROVE  Portrait'
<1>1. UNCHANGED <<tx, wire, bit, scan, layer_buf, disturbed>>
  BY DEF LayerKey, KeyEvent, Originate, txVars, report
<1>2. arg' = arg \/ \E r \in OwnReports : Fire(r)
  BY EventReports DEF LayerKey
<1>3. /\ \A u \in Threads \ {"sys"} : pc'[u] = pc[u] /\ arg'[u] = arg[u]
      /\ arg'["sys"] = arg["sys"] \/ arg'["sys"] \in OwnReports
  BY <1>2, EventFlow DEF Fire, Send, Typed, ArgTyped, Threads
<1>4. pc["sys"] = "idle" /\ pc'["sys"] \in {"idle", "notify", "send"}
  BY EventFlow
<1>5. pc'["sys"] = "send" => arg'["sys"] # LayerBuf
  <2>1. CASE \E key \in LayerKeys : LayerKey(key)
    BY <1>4, <2>1 DEF LayerKey, KeymapOp, Call, IInv, Control, Threads
  <2>2. CASE UNCHANGED <<flow, arg, fired>>
    BY <1>4, <2>2 DEF flow
  <2>3. CASE \E r \in OwnReports : Fire(r)
    BY <2>3 DEF Fire, Send, OwnReports, LayerBuf, Typed, ArgTyped, Threads
  <2>4. QED BY <2>1, <2>2, <2>3, EventReports
<1>6. SettingLayers => SettingLayers'
  BY EventFlow DEF SettingLayers, Threads
<1>7. active' = active \/ Owed'
  <2>1. active' = active \/ pc'["sys"] = "notify"
    BY DEF LayerKey, KeyEvent, Originate, KeymapOp, Call, IInv, Control, Threads
  <2>2. QED BY <2>1 DEF Owed, Threads
<1>8. QED BY <1>1, <1>3, <1>4, <1>5, <1>6, <1>7, PictureStays DEF Composing, Threads

LEMMA OtherPaints ==
  ASSUME IInv, Typed, Portrait,
         \/ StreamStep \/ HostReads \/ SignalWorker \/ UNCHANGED vars
         \/ \E c \in Commands : Receive(c)
  PROVE  Portrait'
<1>1. UNCHANGED <<tx, wire, bit, scan, layer_buf, disturbed, active>>
  BY DEF StreamStep, HostReads, Tx!HostRead, SignalWorker, Receive, vars, txVars, report
<1>2. CASE UNCHANGED <<flow, arg>>
  <2>1. pc' = pc /\ arg' = arg /\ (SettingLayers => SettingLayers')
    BY <1>2 DEF flow, SettingLayers
  <2>2. QED BY <1>1, <2>1, PictureStays DEF Threads
<1>3. CASE StreamStep /\ Send("man", Upcoming, "run")
  <2>1. /\ pc["man"] = "run" /\ arg'["man"] = Upcoming /\ pc'["man"] = "send"
        /\ \A u \in Threads \ {"man"} : /\ pc'[u] = pc[u] /\ arg'[u] = arg[u]
                                        /\ back'[u] = back[u]
    BY <1>3 DEF StreamStep, At, Send, Call, IInv, Control, Typed, ArgTyped, Threads
  <2>2. SettingLayers => SettingLayers'
    BY <2>1 DEF SettingLayers, Threads
  <2>3. Upcoming # LayerBuf
    BY DEF Upcoming, LayerBuf
  <2>4. QED BY <1>1, <2>1, <2>2, <2>3, PictureStays DEF Composing, Threads
<1>4. QED BY <1>2, <1>3 DEF StreamStep, HostReads, SignalWorker, Receive, vars, Upcoming

LEMMA PortraitStep ==
  IInv /\ Course /\ Typed /\ Portrait /\ [Next]_vars => Portrait'
BY FunnelPaints, NotifyPaints, ComposePaints, DispatchPaints, EventPaints, OtherPaints
   DEF Next, Environment, Sending

(* When all is quiet, the host's picture of the active layers is the        *)
(* keyboard's, unless a layer report was muted away by a manifest stream,   *)
(* composed by two contexts at once or given up by the transport            *)
(* (notifier.c:35-86, command_handler.c:79-123): however layer changes,     *)
(* commands, streams and reports interleave.                                *)
THEOREM HostViewInvariant == Spec => []HostViewCurrent
<1>1. IInv /\ Working /\ Course /\ Typed /\ Portrait => HostViewCurrent
  <2> SUFFICES ASSUME IInv, Working, Course, Typed, Portrait, Quiescent, ~disturbed
               PROVE  HostView = Visible
    BY DEF HostViewCurrent
  <2>1. pc["sys"] = "idle" /\ pc["cmd"] = "handle" /\ pc["man"] = "run"
    BY DEF Quiescent, HasWork, Working, IInv, Control, Threads
  <2>2. \A t \in Threads : ~Reporting(t)
    BY <2>1 DEF Reporting, Composing, Threads
  <2>3. ~Owed
    BY <2>1 DEF Owed, SettingLayers, InLoops, Threads
  <2>4. QED BY <2>2, <2>3 DEF Portrait, Picture
<1>2. QED BY <1>1, PortraitInit, PortraitStep, TypedInvariant, PTL DEF Spec
=============================================================================
