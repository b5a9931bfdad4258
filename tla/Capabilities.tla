---------------------------- MODULE Capabilities ----------------------------
(***************************************************************************)
(* Which parts of the module a build contains (Kconfig, CMakeLists.txt),   *)
(* what each of them registers for the manifest (HID_VIZ_CAP_REGISTER),    *)
(* and what the built firmware then does: which listener takes a command,  *)
(* what is sent for it, and what a key sends.  What the manifest says must *)
(* be what the firmware does, in every configuration.                      *)
(*                                                                         *)
(* How the listeners work and in which threads is in HidViz and RgbActions.*)
(***************************************************************************)
EXTENDS Naturals, FiniteSets

CONSTANTS
  Nodes,      (* behaviour nodes a keymap may have, as records              *)
  Params,     (* what a key may give the one-cell &signal                   *)
  Positions,  (* key positions; a keymap may have some beyond a byte        *)
  NoEvent     (* nothing has happened yet                                   *)

(* capabilities.h: the wire bytes.                                          *)
MSG_LAYER_STATE == \hFF
MSG_KEY_EVENT == \hF1
CMD_GET_DEVICE_INFO == \hFD
RSP_DEVICE_INFO == \hFE
CMD_GET_CONFIG_ID == \hFB
RSP_CONFIG_ID == \hFA
CMD_SET_LAYER == \hFC
MSG_RGB_CHANGED == \hD0
CMD_RGB_SET == \hD1
SIGNAL_FIRE == \hC0
CMD_GET_MANIFEST == \hF9
RSP_MANIFEST_ENTRY == \hF8
CMD_LAYER_SET_BASE == \hF4
CMD_LAYER_ACTIVATE == \hF3
CMD_LAYER_DEACTIVATE == \hF2
RSP_CONFIRM == \hF7

CommandTypes ==
  {CMD_GET_DEVICE_INFO, CMD_GET_CONFIG_ID, CMD_SET_LAYER, CMD_RGB_SET, CMD_GET_MANIFEST,
   CMD_LAYER_SET_BASE, CMD_LAYER_ACTIVATE, CMD_LAYER_DEACTIVATE}

(* The enum of the devicetree binding, whose order gives the index into the *)
(* table HID_VIZ_ACTION_*; slip: two rows of it exchanged.                  *)
ActionEnum == <<"dpi.set", "dpi.setIndex", "dragScroll.set", "snipe.set">>

ActionTableSwapped ==
  <<[byte |-> \hE1, tier |-> "core", id |-> "dpi.set"],
    [byte |-> \hE9, tier |-> "core", id |-> "dpi.setIndex"],
    [byte |-> \hE2, tier |-> "firmware", id |-> "dragScroll.set"],
    [byte |-> \hEB, tier |-> "firmware", id |-> "snipe.set"]>>

ActionTable ==
  <<[byte |-> \hE1, tier |-> "core", id |-> "dpi.set"],
    [byte |-> \hE2, tier |-> "core", id |-> "dpi.setIndex"],
    [byte |-> \hE9, tier |-> "firmware", id |-> "dragScroll.set"],
    [byte |-> \hEB, tier |-> "firmware", id |-> "snipe.set"]>>

(* DT_INST_ENUM_IDX, counted from one here.                                 *)
EnumIdx(node) == CHOOSE k \in DOMAIN ActionEnum : ActionEnum[k] = node.action
ActionOf(node) == ActionTable[EnumIdx(node)]

(* emit.h: the constants for the two-cell form.                             *)
EmitConstant ==
  [DPI_SET |-> \hE1, DPI_SETINDEX |-> \hE2, DRAGSCROLL_SET |-> \hE9, SNIPE_SET |-> \hEB]

(* hid_viz_hub.py: what the host takes a trigger for.                       *)
HostActionIds ==
  {<<\hE1, "dpi.set">>, <<\hE2, "dpi.setIndex">>,
   <<\hE9, "dragScroll.set">>, <<\hEB, "snipe.set">>}

HostIds(message) ==
  IF message.type = SIGNAL_FIRE THEN {<<"signal.fire", message.arg>>}
  ELSE {<<pair[2]>> : pair \in {p \in HostActionIds : p[1] = message.type}}

(* What the devicetree bindings let a node be.                              *)
ASSUME CapAssumption ==
  /\ \A node \in Nodes :
       /\ node.compat \in {"emit", "emit-fixed", "signal", "signal-fixed"}
       /\ node.compat = "emit-fixed" =>
            (\E k \in DOMAIN ActionEnum : ActionEnum[k] = node.action) /\ node.value \in Nat
       /\ node.compat = "signal-fixed" => node.id \in Nat
  /\ Params \subseteq Nat

-----------------------------------------------------------------------------
Options ==
  {"LAYER_EVENTS", "KEY_EVENTS", "COMMANDS", "MANIFEST", "EMIT", "SIGNAL", "RGB"}

(* CMakeLists.txt: the optional files.                                      *)
Compiled(opts) ==
  (IF opts \cap {"LAYER_EVENTS", "KEY_EVENTS"} # {} THEN {"notifier"} ELSE {}) \cup
  (IF "COMMANDS" \in opts THEN {"command_handler", "layer_actions"} ELSE {}) \cup
  (IF "RGB" \in opts THEN {"rgb_actions"} ELSE {}) \cup
  (IF "MANIFEST" \in opts THEN {"manifest"} ELSE {}) \cup
  (IF "EMIT" \in opts THEN {"emit", "emit-fixed"} ELSE {}) \cup
  (IF "SIGNAL" \in opts THEN {"signal", "signal-fixed"} ELSE {})

(* command_handler.c calls send_layer_state(), which is in notifier.c.      *)
Links(files) == "command_handler" \in files => "notifier" \in files

Row(type, role, tier, confirm, id) ==
  [type |-> type, role |-> role, tier |-> tier, confirm |-> confirm, id |-> id]

(* What a file registers, beside what a node does.                          *)
NotifierRows(opts) ==
  {row \in {Row(MSG_LAYER_STATE, "notifies", "core", FALSE, <<"layer.changed">>)} :
     "LAYER_EVENTS" \in opts} \cup
  {row \in {Row(MSG_KEY_EVENT, "notifies", "optional", FALSE, <<"keyboard.key.event">>)} :
     "KEY_EVENTS" \in opts}

CommandRows == {Row(CMD_SET_LAYER, "handles", "core", FALSE, <<"layer.set">>)}

(* Slip: an action that confirms is registered as one that does not.        *)
LayerRowsUnconfirmed ==
  {Row(CMD_LAYER_SET_BASE, "handles", "core", FALSE, <<"layer.setBase">>),
   Row(CMD_LAYER_ACTIVATE, "handles", "optional", TRUE, <<"layer.activate">>),
   Row(CMD_LAYER_DEACTIVATE, "handles", "optional", FALSE, <<"layer.deactivate">>)}

LayerRows ==
  {Row(CMD_LAYER_SET_BASE, "handles", "core", FALSE, <<"layer.setBase">>),
   Row(CMD_LAYER_ACTIVATE, "handles", "optional", TRUE, <<"layer.activate">>),
   Row(CMD_LAYER_DEACTIVATE, "handles", "optional", TRUE, <<"layer.deactivate">>)}
RgbRows ==
  {Row(MSG_RGB_CHANGED, "notifies", "profile", FALSE, <<"rgb.changed">>),
   Row(CMD_RGB_SET, "handles", "profile", FALSE, <<"rgb.set">>)}

(* The two-cell &hid_viz_emit registers nothing; slip: its sibling's row    *)
(* depends on the node's value.                                             *)
EmitRow(node, tier) ==
  Row(ActionOf(node).byte, "triggers", tier, FALSE, <<ActionOf(node).id>>)
SignalRow(id) == Row(SIGNAL_FIRE, "triggers", "core", FALSE, id)

NodeRowsByValue(node) ==
  CASE node.compat = "emit-fixed" ->
         {EmitRow(node, IF node.value = 0 THEN "core" ELSE "firmware")}
    [] node.compat = "signal" -> {SignalRow(<<"signal.fire">>)}
    [] node.compat = "signal-fixed" -> {SignalRow(<<"signal.fire", node.id>>)}
    [] OTHER -> {}

NodeRows(node) ==
  CASE node.compat = "emit-fixed" -> {EmitRow(node, ActionOf(node).tier)}
    [] node.compat = "signal" -> {SignalRow(<<"signal.fire">>)}
    [] node.compat = "signal-fixed" -> {SignalRow(<<"signal.fire", node.id>>)}
    [] OTHER -> {}

(* The section, as a set: the rows of all that is compiled in.              *)
Registered(opts, nodes) ==
  (IF "notifier" \in Compiled(opts) THEN NotifierRows(opts) ELSE {}) \cup
  (IF "command_handler" \in Compiled(opts) THEN CommandRows ELSE {}) \cup
  (IF "layer_actions" \in Compiled(opts) THEN LayerRows ELSE {}) \cup
  (IF "rgb_actions" \in Compiled(opts) THEN RgbRows ELSE {}) \cup
  UNION {NodeRows(node) : node \in {n \in nodes : n.compat \in Compiled(opts)}}

-----------------------------------------------------------------------------
VARIABLES
  opts,      (* options set                                                 *)
  nodes,     (* nodes of the keymap                                         *)
  phase,     (* "configured", "running" or "link error"                     *)
  event,     (* the latest: a command, a key or a layer change              *)
  waiting,   (* listeners the command has still to reach                    *)
  acted,     (* listeners that took it                                      *)
  sent       (* reports sent for the event                                  *)

capVars == <<opts, nodes, phase, event, waiting, acted, sent>>

Rows == Registered(opts, nodes)
Has(file) == file \in Compiled(opts)

CapInit ==
  /\ opts \in SUBSET Options
  /\ nodes \in SUBSET Nodes
  /\ phase = "configured"
  /\ event = NoEvent /\ waiting = {} /\ acted = {} /\ sent = {}

Build ==
  /\ phase = "configured"
  /\ phase' = IF Links(Compiled(opts)) THEN "running" ELSE "link error"
  /\ UNCHANGED <<opts, nodes, event, waiting, acted, sent>>

Message(type, arg) == [type |-> type, arg |-> arg]
Plain(type) == Message(type, 0)

Idle == phase = "running" /\ waiting = {}

-----------------------------------------------------------------------------
(* A command reaches every listener that is compiled in, in no order that   *)
(* the code fixes.  full: it is as long as its handler asks for.            *)
Listeners ==
  Compiled(opts) \cap {"command_handler", "layer_actions", "rgb_actions", "manifest"}

Command(type, full) == [kind |-> "command", type |-> type, full |-> full]

HostSends(type, full) ==
  /\ Idle
  /\ event' = Command(type, full)
  /\ waiting' = Listeners
  /\ acted' = {} /\ sent' = {}
  /\ UNCHANGED <<opts, nodes, phase>>

(* The two identity queries and the manifest query may be of any length.    *)
NoLengthAsked == {CMD_GET_DEVICE_INFO, CMD_GET_CONFIG_ID, CMD_GET_MANIFEST}
Understood(types) == event.type \in types /\ (event.full \/ event.type \in NoLengthAsked)

Take(listener, reports) ==
  /\ waiting' = waiting \ {listener}
  /\ acted' = acted \cup {listener}
  /\ sent' = sent \cup reports
  /\ UNCHANGED <<opts, nodes, phase, event>>

(* The event bubbles on.                                                    *)
Pass(listener) ==
  /\ waiting' = waiting \ {listener}
  /\ UNCHANGED <<opts, nodes, phase, event, acted, sent>>

(* A change of the layers is reported if the notifier is there.             *)
LayerReport(changed) ==
  IF changed /\ Has("notifier") THEN {Plain(MSG_LAYER_STATE)} ELSE {}

(* command_handler()                                                        *)
HandleCommand ==
  /\ "command_handler" \in waiting
  /\ \/ /\ Understood({CMD_GET_DEVICE_INFO})
        /\ Take("command_handler", {Plain(RSP_DEVICE_INFO)})
     \/ /\ Understood({CMD_GET_CONFIG_ID})
        /\ Take("command_handler", {Plain(RSP_CONFIG_ID)})
     \/ /\ Understood({CMD_SET_LAYER})
        /\ Take("command_handler", {Plain(MSG_LAYER_STATE)})
     \/ /\ ~Understood({CMD_GET_DEVICE_INFO, CMD_GET_CONFIG_ID, CMD_SET_LAYER})
        /\ Pass("command_handler")

(* Slip: the full set is taken along with its siblings.                     *)
AllLayerCommands ==
  {CMD_LAYER_SET_BASE, CMD_LAYER_ACTIVATE, CMD_LAYER_DEACTIVATE, CMD_SET_LAYER}
LayerCommands == {CMD_LAYER_SET_BASE, CMD_LAYER_ACTIVATE, CMD_LAYER_DEACTIVATE}

(* layer_actions_handler(): all but setBase are confirmed.                  *)
HandleLayerAction ==
  /\ "layer_actions" \in waiting
  /\ \/ /\ Understood(LayerCommands)
        /\ \E changed \in BOOLEAN :
             Take("layer_actions",
                  LayerReport(changed) \cup
                  (IF event.type = CMD_LAYER_SET_BASE THEN {} ELSE {Plain(RSP_CONFIRM)}))
     \/ ~Understood(LayerCommands) /\ Pass("layer_actions")

(* rgb_actions_handler()                                                    *)
HandleRgb ==
  /\ "rgb_actions" \in waiting
  /\ \/ Understood({CMD_RGB_SET}) /\ Take("rgb_actions", {Plain(MSG_RGB_CHANGED)})
     \/ ~Understood({CMD_RGB_SET}) /\ Pass("rgb_actions")

(* manifest_command_handler(), which hears the received event itself, and   *)
(* the stream its worker sends.                                             *)
HandleManifest ==
  /\ "manifest" \in waiting
  /\ \/ Understood({CMD_GET_MANIFEST}) /\ Take("manifest", {Plain(RSP_MANIFEST_ENTRY)})
     \/ ~Understood({CMD_GET_MANIFEST}) /\ Pass("manifest")

-----------------------------------------------------------------------------
(* The keyboard's own events.                                               *)
Happens(what, reports) ==
  /\ Idle
  /\ event' = what
  /\ acted' = {} /\ sent' = reports
  /\ UNCHANGED <<opts, nodes, phase, waiting>>

(* Slip: key events hang on the layer option.                               *)
KeyMovesWithLayers(position) ==
  Happens([kind |-> "key", position |-> position],
          IF "LAYER_EVENTS" \in opts /\ position < 256 THEN {Plain(MSG_KEY_EVENT)} ELSE {})

LayerChanges == Happens([kind |-> "layers"], LayerReport(TRUE))

(* A position that does not fit a byte is not reported.                     *)
KeyMoves(position) ==
  Happens([kind |-> "key", position |-> position],
          IF Has("notifier") /\ position < 256 THEN {Plain(MSG_KEY_EVENT)} ELSE {})

(* A number in a byte.                                                      *)
Byte(n) == n % 256

PressEmit(node, constant) ==
  /\ node.compat = "emit" /\ Has("emit")
  /\ Happens([kind |-> "emit", constant |-> constant], {Plain(EmitConstant[constant])})

PressEmitFixed(node) ==
  /\ node.compat = "emit-fixed" /\ Has("emit-fixed")
  /\ Happens([kind |-> "emit-fixed", node |-> node],
             {Message(ActionOf(node).byte, node.value)})

PressSignal(node, id) ==
  /\ node.compat = "signal" /\ Has("signal")
  /\ Happens([kind |-> "signal"], {Message(SIGNAL_FIRE, Byte(id))})

PressSignalFixed(node) ==
  /\ node.compat = "signal-fixed" /\ Has("signal-fixed")
  /\ Happens([kind |-> "signal-fixed", node |-> node],
             {Message(SIGNAL_FIRE, Byte(node.id))})

CapNext ==
  \/ Build
  \/ \E type \in CommandTypes, full \in BOOLEAN : HostSends(type, full)
  \/ HandleCommand \/ HandleLayerAction \/ HandleRgb \/ HandleManifest
  \/ LayerChanges
  \/ \E position \in Positions : KeyMoves(position)
  \/ \E node \in nodes :
       \/ \E constant \in DOMAIN EmitConstant : PressEmit(node, constant)
       \/ \E id \in Params : PressSignal(node, id)
       \/ PressEmitFixed(node) \/ PressSignalFixed(node)

CapSpec == CapInit /\ [][CapNext]_capVars

-----------------------------------------------------------------------------
(***************************************************************************)
(* Properties.                                                             *)
(***************************************************************************)
Answered == phase = "running" /\ waiting = {} /\ event # NoEvent

Advertised(role) == {r \in Rows : r.role = role}
Ids(role) == {r.id : r \in Advertised(role)}

(* Every variable has its type.                                             *)
CapTypeOK ==
  /\ opts \subseteq Options /\ nodes \subseteq Nodes
  /\ phase \in {"configured", "running", "link error"}
  /\ acted \subseteq Listeners /\ waiting \subseteq Listeners \ acted
  /\ sent \subseteq [type : 0..255, arg : Nat]

(* Whatever is built in, the manifest says which commands are taken: each   *)
(* that is registered is acted on by exactly one listener, and of the rest  *)
(* only the queries for the device's identity and its manifest are.         *)
Queries ==
  (IF Has("command_handler") THEN {CMD_GET_DEVICE_INFO, CMD_GET_CONFIG_ID} ELSE {}) \cup
  (IF Has("manifest") THEN {CMD_GET_MANIFEST} ELSE {})

AdvertisedIsHandled ==
  Answered /\ event.kind = "command" /\ event.full =>
    IF event.type \in {r.type : r \in Advertised("handles")} \cup Queries
      THEN \E listener \in acted : acted = {listener}
      ELSE acted = {} /\ sent = {}

(* An action that is taken is confirmed if and only if its row says so.     *)
ConfirmAsAdvertised ==
  Answered /\ event.kind = "command" /\ acted # {} =>
    (Plain(RSP_CONFIRM) \in sent
       <=> \E r \in Advertised("handles") : r.type = event.type /\ r.confirm)

(* What a node of the fixed forms sends, the host takes for the very action *)
(* or id that is written on the node and listed under triggers: the order   *)
(* of the binding's enum, the table it indexes and the host's map agree.    *)
(* An id must be one the binding allows, 0-255; more are cut to a byte.     *)
Announces(expected) ==
  \A m \in sent : HostIds(m) = {expected} /\ expected \in Ids("triggers")

TriggerMatchesRow ==
  Answered =>
    /\ event.kind = "emit-fixed" => Announces(<<event.node.action>>)
    /\ event.kind = "signal-fixed" /\ event.node.id < 256 =>
         Announces(<<"signal.fire", event.node.id>>)
    /\ event.kind = "signal" => <<"signal.fire">> \in Ids("triggers")

(* seen_id() drops a row whose id was seen before without a look at the     *)
(* rest of it: nothing is lost, because rows of one id are the same.        *)
DedupLosesNothing == \A r1, r2 \in Rows : r1.id = r2.id => r1 = r2

(* What is advertised as notified is sent; without any of the two event     *)
(* options a change of the layers or a key sends nothing.  A key beyond     *)
(* position 255 has no place in the report (notifier.c:67-70).              *)
NotifiesAsAdvertised ==
  Answered =>
    /\ event.kind = "layers" /\ <<"layer.changed">> \in Ids("notifies") => sent # {}
    /\ event.kind = "key" /\ event.position < 256
         /\ <<"keyboard.key.event">> \in Ids("notifies") => sent # {}
    /\ event.kind \in {"layers", "key"} /\ sent # {} =>
         {<<"layer.changed">>, <<"keyboard.key.event">>} \cap Ids("notifies") # {}
=============================================================================
