----------------------------- MODULE HubBroker ------------------------------
(***************************************************************************)
(* The hub from the devices it has found to the end of its run: main()     *)
(* opens and queries one after another, build_routes() makes the routing   *)
(* table, run_hub() polls the devices in turn and handle_report() forwards *)
(* a trigger, verbatim, to everyone else who handles it.                   *)
(*                                                                         *)
(* A report that comes while its own device is being queried is read and   *)
(* thrown away with the manifest (hid_viz_hub.py:159-160); reports count   *)
(* from the end of the query.  A device is taken to list an id once, as the *)
(* manifest's deduplication has it (manifest.c:172-174).  An inbox holds   *)
(* the numbers of triggers in its device's log, and 0 for a report that    *)
(* the hub only reads.                                                     *)
(***************************************************************************)
EXTENDS Naturals, Sequences, FiniteSets, SequencesExt

CONSTANTS
  Devices,
  Actions,     (* ids in ACTION_ID_BY_BYTE                                  *)
  Found,       (* what find_devices() may return                            *)
  Handles,     (* [Devices -> SUBSET Actions]: what each says it handles    *)
  Emits,       (* [Devices -> SUBSET Actions]: what the keys of each trigger *)
  NoDevice,    (* nobody's report is being handled                          *)
  Buffer,      (* reports the host's system holds for a device              *)
  MaxLog       (* bound: triggers of a device                               *)

ASSUME BrokerAssumption ==
  /\ NoDevice \notin Devices
  /\ \A found \in Found : found \in Seq(Devices) /\ IsInjective(found)
  /\ Handles \in [Devices -> SUBSET Actions] /\ Emits \in [Devices -> SUBSET Actions]
  /\ Buffer \in Nat \ {0} /\ MaxLog \in Nat

VARIABLES
  found,    (* devices not yet opened                                       *)
  devices,  (* opened and queried, in the order found                       *)
  learned,  (* [Devices -> SUBSET Actions]: handles rows read from each     *)
  routes,   (* handlers_by_id: [Actions -> SUBSET Devices]                  *)
  phase,    (* "start", "broker" or "stopped"                               *)
  turn,     (* index of the device to poll                                  *)
  src,      (* whose trigger is being forwarded                             *)
  num,      (* its number in the log                                        *)
  targets,  (* devices it has still to be written to                        *)
  inbox,    (* [Devices -> Seq(Nat)]                                        *)
  log,      (* history: [Devices -> Seq(Actions)], triggers since the query *)
  told,     (* history: reports written to each device, as <<source, number>> *)
  gone      (* devices that have been unplugged                             *)

startVars == <<found, devices, learned, routes>>
loopVars == <<phase, turn, src, num, targets>>
deviceVars == <<inbox, log, gone>>
hubVars == <<startVars, loopVars, deviceVars, told>>

Opened == ToSet(devices)

HubInit ==
  /\ found \in Found
  /\ devices = <<>> /\ learned = [d \in Devices |-> {}]
  /\ routes = [a \in Actions |-> {}]
  /\ phase = "start" /\ turn = 1
  /\ src = NoDevice /\ num = 0 /\ targets = {}
  /\ inbox = [d \in Devices |-> <<>>] /\ log = [d \in Devices |-> <<>>]
  /\ told = [d \in Devices |-> <<>>] /\ gone = {}

-----------------------------------------------------------------------------
(* main()'s loop: the next device is opened and asked for its manifest, of  *)
(* which the hub may have got only a part (HubQuery).                       *)
Open ==
  /\ phase = "start" /\ found # <<>>
  /\ found' = Tail(found)
  /\ devices' = Append(devices, Head(found))
  /\ \E part \in SUBSET Handles[Head(found)] : learned' = [learned EXCEPT ![Head(found)] = part]
  /\ UNCHANGED <<routes, loopVars, deviceVars, told>>

(* open_path() raises OSError: the hub does without the device.             *)
OpenFails ==
  /\ phase = "start" /\ found # <<>>
  /\ found' = Tail(found)
  /\ UNCHANGED <<devices, learned, routes, loopVars, deviceVars, told>>

(* build_routes(): the devices that said they handle the action.            *)
Route(a) == {d \in Opened : a \in learned[d]}

(* build_routes(), and into run_hub().                                      *)
BuildRoutes ==
  /\ phase = "start" /\ found = <<>>
  /\ routes' = [a \in Actions |-> Route(a)]
  /\ phase' = "broker"
  /\ UNCHANGED <<found, devices, learned, turn, src, num, targets, deviceVars, told>>

-----------------------------------------------------------------------------
(* The devices, for as long as the hub holds them open: a trigger or any    *)
(* other report arrives, or the device goes.                                *)
Present(d) == d \in Opened \ gone /\ phase # "stopped"

Triggers(d, a) ==
  /\ Present(d)
  /\ Len(inbox[d]) < Buffer /\ Len(log[d]) < MaxLog
  /\ log' = [log EXCEPT ![d] = Append(@, a)]
  /\ inbox' = [inbox EXCEPT ![d] = Append(@, Len(log[d]) + 1)]
  /\ UNCHANGED <<startVars, loopVars, gone, told>>

OtherReport(d) ==
  /\ Present(d)
  /\ Len(inbox[d]) < Buffer
  /\ inbox' = [inbox EXCEPT ![d] = Append(@, 0)]
  /\ UNCHANGED <<startVars, loopVars, log, gone, told>>

Unplug(d) ==
  /\ Present(d)
  /\ gone' = gone \cup {d}
  /\ UNCHANGED <<startVars, loopVars, inbox, log, told>>

-----------------------------------------------------------------------------
(* A list of handlers is in the order of devices.                           *)
Position(d) == CHOOSE k \in DOMAIN devices : devices[k] = d

(* Slips: the loop stays with a device that has something to say; a handler *)
(* gets its own trigger; only the first handler is written to.              *)
StayWithTalker == turn' = turn
EveryHandler(d, a) == routes[a]
FirstHandler(d, a) == {h \in routes[a] \ {d} : \A g \in routes[a] : Position(h) <= Position(g)}

(* Slip: the newest report is read first.                                   *)
ReadNewest(box) == [report |-> Last(box), rest |-> Front(box)]

(* One report of a device, then the next device.                            *)
NextDevice == turn' = IF turn = Len(devices) THEN 1 ELSE turn + 1
Reported == NextDevice

(* dev.read()                                                               *)
ReadOldest(box) == [report |-> Head(box), rest |-> Tail(box)]

(* handle_report(): everyone who handles the action but its source.         *)
Targets(d, a) == routes[a] \ {d}

Polling == phase = "broker" /\ src = NoDevice /\ devices # <<>>

(* A trigger is read; with nobody to take it, it is dropped.                *)
PollTrigger ==
  /\ Polling
  /\ inbox[devices[turn]] # <<>>
  /\ LET d == devices[turn]
         read == ReadOldest(inbox[d])
         to == Targets(d, log[d][read.report])
     IN  /\ read.report # 0
         /\ inbox' = [inbox EXCEPT ![d] = read.rest]
         /\ IF to = {} THEN Reported /\ UNCHANGED <<src, num, targets>>
            ELSE src' = d /\ num' = read.report /\ targets' = to /\ UNCHANGED turn
  /\ UNCHANGED <<startVars, phase, log, gone, told>>

(* Layer reports, key events and confirms are at most printed.              *)
PollOther ==
  /\ Polling
  /\ inbox[devices[turn]] # <<>>
  /\ LET d == devices[turn]
         read == ReadOldest(inbox[d])
     IN  read.report = 0 /\ inbox' = [inbox EXCEPT ![d] = read.rest]
  /\ Reported
  /\ UNCHANGED <<startVars, phase, src, num, targets, log, gone, told>>

(* Nothing to read, or OSError from a device that is gone.                  *)
PollNothing ==
  /\ Polling
  /\ inbox[devices[turn]] = <<>> \/ devices[turn] \in gone
  /\ NextDevice
  /\ UNCHANGED <<startVars, phase, src, num, targets, deviceVars, told>>

(* One dev.write(); to a device that is gone it fails without a word.       *)
Forward(h) ==
  /\ phase = "broker" /\ src # NoDevice
  /\ h \in targets /\ \A g \in targets : Position(h) <= Position(g)
  /\ told' = IF h \in gone THEN told ELSE [told EXCEPT ![h] = Append(@, <<src, num>>)]
  /\ targets' = targets \ {h}
  /\ IF targets = {h} THEN src' = NoDevice /\ num' = 0 /\ Reported
     ELSE UNCHANGED <<src, num, turn>>
  /\ UNCHANGED <<startVars, phase, deviceVars>>

(* Ctrl-C, or the time is up.                                               *)
Stop ==
  /\ phase = "broker"
  /\ phase' = "stopped"
  /\ UNCHANGED <<startVars, turn, src, num, targets, deviceVars, told>>

HubStep ==
  PollTrigger \/ PollOther \/ PollNothing \/ \E h \in Devices : Forward(h)

HubNext ==
  \/ Open \/ OpenFails \/ BuildRoutes \/ HubStep \/ Stop
  \/ \E d \in Devices :
       \/ OtherReport(d) \/ Unplug(d)
       \/ \E a \in Emits[d] : Triggers(d, a)

(* The hub's loop goes round; what the devices do is up to them.            *)
HubSpec == HubInit /\ [][HubNext]_hubVars /\ WF_hubVars(HubStep)

-----------------------------------------------------------------------------
(***************************************************************************)
(* Properties.                                                             *)
(***************************************************************************)
(* Every variable has its type; inboxes keep within their bound.            *)
StartTypeOK ==
  /\ found \in Seq(Devices) /\ devices \in Seq(Devices)
  /\ learned \in [Devices -> SUBSET Actions]
  /\ routes \in [Actions -> SUBSET Devices]

LoopTypeOK ==
  /\ phase \in {"start", "broker", "stopped"}
  /\ turn \in Nat \ {0} /\ (devices # <<>> => turn <= Len(devices))
  /\ src \in Devices \cup {NoDevice} /\ num \in Nat
  /\ (src # NoDevice => num \in DOMAIN log[src])
  /\ targets \subseteq Devices /\ (src # NoDevice <=> targets # {})
  /\ (phase = "start" => turn = 1 /\ src = NoDevice)

BoxTypeOK(d) ==
  /\ inbox[d] \in Seq(Nat) /\ Len(inbox[d]) <= Buffer
  /\ log[d] \in Seq(Actions) /\ Len(log[d]) <= MaxLog
  /\ ToSet(inbox[d]) \subseteq {0} \cup DOMAIN log[d]

DeviceTypeOK ==
  /\ inbox = [d \in Devices |-> inbox[d]] /\ log = [d \in Devices |-> log[d]]
  /\ \A d \in Devices : BoxTypeOK(d)

ToldTypeOK ==
  /\ told \in [Devices -> Seq(Devices \X Nat)]
  /\ gone \subseteq Devices

HubTypeOK == StartTypeOK /\ LoopTypeOK /\ DeviceTypeOK /\ ToldTypeOK

(* A trigger is written to a device at most once, and those of one source   *)
(* in the order they were made, whatever else the hub reads and writes      *)
(* meanwhile (hid_viz_hub.py:242-251).                                      *)
OnceInOrder ==
  \A h \in Devices : \A i, j \in DOMAIN told[h] :
    i < j /\ told[h][i][1] = told[h][j][1] => told[h][i][2] < told[h][j][2]

(* A device is written only what it said it handles, and never its own.     *)
OnlyToHandlers ==
  \A h \in Devices : \A k \in DOMAIN told[h] :
    LET s == told[h][k][1]
        n == told[h][k][2]
    IN  s # h /\ n \in DOMAIN log[s] /\ log[s][n] \in Handles[h]

(* No trigger the hub has read is forgotten: whoever it has learned to      *)
(* handle it has been written to, or is about to be, unless unplugged.      *)
NothingForgotten ==
  phase = "broker" =>
    \A s \in Devices : \A n \in DOMAIN log[s] : \A h \in Opened \ (gone \cup {s}) :
      log[s][n] \in learned[h] =>
        \/ n \in ToSet(inbox[s])
        \/ src = s /\ num = n /\ h \in targets
        \/ <<s, n>> \in ToSet(told[h])

(* The hub as a broker: once in order to every handler still plugged in,    *)
(* and, while the hub runs, sooner or later.                                *)
Promise == INSTANCE Broker WITH
  handlers <- routes,
  serving <- phase = "broker"
ImplementsBroker == Promise!BrokerSpec
=============================================================================
