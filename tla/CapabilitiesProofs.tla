------------------------- MODULE CapabilitiesProofs -------------------------
(***************************************************************************)
(* The manifest is true of the firmware in every configuration: for every  *)
(* set of options, whatever nodes the keymap has.                          *)
(***************************************************************************)
EXTENDS Capabilities, TLAPS

(* Of the four listeners, the one that takes a command.                     *)
TypesOf(listener) ==
  CASE listener = "command_handler" -> {CMD_GET_DEVICE_INFO, CMD_GET_CONFIG_ID, CMD_SET_LAYER}
    [] listener = "layer_actions" -> LayerCommands
    [] listener = "rgb_actions" -> {CMD_RGB_SET}
    [] listener = "manifest" -> {CMD_GET_MANIFEST}
    [] OTHER -> {}

(* The listeners left have not been asked; those asked took the command if  *)
(* it is theirs, and only the layer actions confirm.                        *)
Serving ==
  event # NoEvent /\ event.kind = "command" =>
    /\ event.type \in CommandTypes /\ event.full \in BOOLEAN
    /\ acted = {l \in Listeners \ waiting : Understood(TypesOf(l))}
    /\ acted = {} => sent = {}
    /\ Plain(RSP_CONFIRM) \in sent
         <=> "layer_actions" \in acted /\ event.type # CMD_LAYER_SET_BASE

OnlyCommandsWait == waiting # {} => event.kind = "command"

(* What the keyboard's own events sent.                                     *)
Originated ==
  event # NoEvent =>
    /\ event.kind = "layers" => sent = LayerReport(TRUE)
    /\ event.kind = "key" =>
         sent = IF Has("notifier") /\ event.position < 256 THEN {Plain(MSG_KEY_EVENT)} ELSE {}
    /\ event.kind = "emit-fixed" =>
         /\ event.node \in nodes /\ event.node.compat = "emit-fixed" /\ Has("emit-fixed")
         /\ sent = {Message(ActionOf(event.node).byte, event.node.value)}
    /\ event.kind = "signal-fixed" =>
         /\ event.node \in nodes /\ event.node.compat = "signal-fixed" /\ Has("signal-fixed")
         /\ sent = {Message(SIGNAL_FIRE, Byte(event.node.id))}
    /\ event.kind = "signal" =>
         \E node \in nodes : node.compat = "signal" /\ Has("signal")

CapInv == CapTypeOK /\ Serving /\ OnlyCommandsWait /\ Originated

-----------------------------------------------------------------------------
(***************************************************************************)
(* The tables.                                                             *)
(***************************************************************************)
LEMMA ActionRows ==
  ASSUME NEW node \in Nodes, node.compat = "emit-fixed"
  PROVE  /\ EnumIdx(node) \in 1..4
         /\ ActionOf(node) = ActionTable[EnumIdx(node)]
         /\ ActionOf(node).id = node.action
<1>1. \E k \in DOMAIN ActionEnum : ActionEnum[k] = node.action
  BY CapAssumption
<1>2. EnumIdx(node) \in DOMAIN ActionEnum /\ ActionEnum[EnumIdx(node)] = node.action
  BY <1>1, Zenon DEF EnumIdx
<1>3. DOMAIN ActionEnum = 1..4
  BY DEF ActionEnum
<1>4. \A k \in 1..4 : ActionTable[k].id = ActionEnum[k]
  BY DEF ActionEnum, ActionTable
<1>5. QED BY <1>2, <1>3, <1>4 DEF ActionOf

(* The rows there can be: thirteen, and one for each signal id.             *)
Known ==
  {Row(MSG_LAYER_STATE, "notifies", "core", FALSE, <<"layer.changed">>),
   Row(MSG_KEY_EVENT, "notifies", "optional", FALSE, <<"keyboard.key.event">>)} \cup
  CommandRows \cup LayerRows \cup RgbRows \cup
  {Row(ActionTable[k].byte, "triggers", ActionTable[k].tier, FALSE, <<ActionTable[k].id>>) :
     k \in 1..4} \cup
  {SignalRow(<<"signal.fire">>)}

Numbered == {SignalRow(<<"signal.fire", n>>) : n \in Nat}

LEMMA RowsOfNodes ==
  ASSUME NEW node \in Nodes, NEW row \in NodeRows(node)
  PROVE  row \in Known \cup Numbered /\ row.role = "triggers"
<1>1. CASE node.compat = "emit-fixed"
  <2>1. row = EmitRow(node, ActionOf(node).tier)
    BY <1>1 DEF NodeRows
  <2>2. row \in Known
    BY <1>1, <2>1, ActionRows DEF EmitRow, Known
  <2>3. QED BY <2>1, <2>2 DEF EmitRow, Row
<1>2. CASE node.compat = "signal"
  BY <1>2 DEF NodeRows, SignalRow, Row, Known
<1>3. CASE node.compat = "signal-fixed"
  BY <1>3, CapAssumption DEF NodeRows, SignalRow, Row, Numbered
<1>4. CASE node.compat = "emit"
  BY <1>4 DEF NodeRows
<1>5. QED BY <1>1, <1>2, <1>3, <1>4, CapAssumption

LEMMA RowsAreKnown ==
  ASSUME nodes \subseteq Nodes
  PROVE  Rows \subseteq Known \cup Numbered
<1> SUFFICES ASSUME NEW row \in Rows PROVE row \in Known \cup Numbered
  OBVIOUS
<1>1. CASE \E node \in nodes : row \in NodeRows(node)
  BY <1>1, RowsOfNodes
<1>2. CASE row \in NotifierRows(opts) \cup CommandRows \cup LayerRows \cup RgbRows
  BY <1>2 DEF NotifierRows, Known
<1>3. QED BY <1>1, <1>2, Zenon DEF Rows, Registered

(* What the rows of role "handles" name.                                    *)
LEMMA HandledRows ==
  ASSUME nodes \subseteq Nodes, NEW row \in Rows, row.role = "handles"
  PROVE  \/ row \in CommandRows /\ Has("command_handler")
         \/ row \in LayerRows /\ Has("layer_actions")
         \/ row \in RgbRows /\ Has("rgb_actions")
<1>1. \A node \in nodes : row \notin NodeRows(node)
  BY RowsOfNodes
<1>2. row \notin NotifierRows(opts)
  BY DEF NotifierRows, Row
<1>3. QED BY <1>1, <1>2, Zenon DEF Rows, Registered, Has

HandledTypes == {r.type : r \in Advertised("handles")}

LEMMA TypesHandled ==
  ASSUME nodes \subseteq Nodes, NEW type \in CommandTypes
  PROVE  type \in HandledTypes <=>
           \/ type = CMD_SET_LAYER /\ Has("command_handler")
           \/ type \in LayerCommands /\ Has("layer_actions")
           \/ type = CMD_RGB_SET /\ Has("rgb_actions")
<1>1. ASSUME NEW row \in Rows, row.role = "handles", row.type = type
      PROVE  \/ type = CMD_SET_LAYER /\ Has("command_handler")
             \/ type \in LayerCommands /\ Has("layer_actions")
             \/ type = CMD_RGB_SET /\ Has("rgb_actions")
  <2>1. row \in CommandRows => row.type = CMD_SET_LAYER
    BY DEF CommandRows, Row
  <2>2. row \in LayerRows => row.type \in LayerCommands
    BY DEF LayerRows, LayerCommands, Row
  <2>3. row \in RgbRows => row.type = CMD_RGB_SET
    BY <1>1 DEF RgbRows, Row
  <2>4. QED BY <1>1, <2>1, <2>2, <2>3, HandledRows
<1>2. ASSUME type = CMD_SET_LAYER, Has("command_handler") PROVE type \in HandledTypes
  <2> DEFINE row == Row(CMD_SET_LAYER, "handles", "core", FALSE, <<"layer.set">>)
  <2>1. row \in Rows
    BY <1>2 DEF Rows, Registered, CommandRows, Has
  <2>2. row.role = "handles" /\ row.type = type
    BY <1>2 DEF Row
  <2>3. QED BY <2>1, <2>2, Zenon DEF HandledTypes, Advertised
<1>3. ASSUME type \in LayerCommands, Has("layer_actions") PROVE type \in HandledTypes
  <2>1. PICK row \in LayerRows : row.role = "handles" /\ row.type = type
    BY <1>3 DEF LayerRows, LayerCommands, Row
  <2>2. row \in Rows
    BY <1>3 DEF Rows, Registered, Has
  <2>3. QED BY <2>1, <2>2, Zenon DEF HandledTypes, Advertised
<1>4. ASSUME type = CMD_RGB_SET, Has("rgb_actions") PROVE type \in HandledTypes
  <2> DEFINE row == Row(CMD_RGB_SET, "handles", "profile", FALSE, <<"rgb.set">>)
  <2>1. row \in Rows
    BY <1>4 DEF Rows, Registered, RgbRows, Has
  <2>2. row.role = "handles" /\ row.type = type
    BY <1>4 DEF Row
  <2>3. QED BY <2>1, <2>2, Zenon DEF HandledTypes, Advertised
<1>5. type \in HandledTypes => \E row \in Rows : row.role = "handles" /\ row.type = type
  BY DEF HandledTypes, Advertised
<1>6. QED BY <1>1, <1>2, <1>3, <1>4, <1>5

LEMMA KnownDiffer ==
  \A r1, r2 \in Known \cup Numbered : r1.id = r2.id => r1 = r2
<1>1. \A k \in 1..4 : \A l \in 1..4 : ActionTable[k].id = ActionTable[l].id => k = l
  BY DEF ActionTable
<1> DEFINE EmitRows == {Row(ActionTable[k].byte, "triggers", ActionTable[k].tier, FALSE,
                            <<ActionTable[k].id>>) : k \in 1..4}
           OtherRows ==
             {Row(MSG_LAYER_STATE, "notifies", "core", FALSE, <<"layer.changed">>),
              Row(MSG_KEY_EVENT, "notifies", "optional", FALSE, <<"keyboard.key.event">>)}
             \cup CommandRows \cup LayerRows \cup RgbRows \cup {SignalRow(<<"signal.fire">>)}
           OtherNames ==
             {"layer.changed", "keyboard.key.event", "layer.set", "layer.setBase",
              "layer.activate", "layer.deactivate", "rgb.changed", "rgb.set", "signal.fire"}
<1>0. \A s, u : <<s>> = <<u>> => s = u
  OBVIOUS
<1>2. ASSUME NEW r1 \in EmitRows, NEW r2 \in EmitRows, r1.id = r2.id
      PROVE  r1 = r2
  <2>1. PICK k \in 1..4 : r1 = Row(ActionTable[k].byte, "triggers", ActionTable[k].tier,
                                   FALSE, <<ActionTable[k].id>>)
    OBVIOUS
  <2>2. PICK l \in 1..4 : r2 = Row(ActionTable[l].byte, "triggers", ActionTable[l].tier,
                                   FALSE, <<ActionTable[l].id>>)
    OBVIOUS
  <2>3. <<ActionTable[k].id>> = <<ActionTable[l].id>>
    BY <1>2, <2>1, <2>2 DEF Row
  <2>4. k = l
    BY <1>0, <1>1, <2>3
  <2>5. QED BY <2>1, <2>2, <2>4
<1>3. ASSUME NEW r1 \in OtherRows, NEW r2 \in OtherRows, r1.id = r2.id
      PROVE  r1 = r2
  <2> DEFINE Named(s) ==
        CASE s = "layer.changed" -> Row(MSG_LAYER_STATE, "notifies", "core", FALSE, <<s>>)
          [] s = "keyboard.key.event" ->
               Row(MSG_KEY_EVENT, "notifies", "optional", FALSE, <<s>>)
          [] s = "layer.set" -> Row(CMD_SET_LAYER, "handles", "core", FALSE, <<s>>)
          [] s = "layer.setBase" -> Row(CMD_LAYER_SET_BASE, "handles", "core", FALSE, <<s>>)
          [] s = "layer.activate" ->
               Row(CMD_LAYER_ACTIVATE, "handles", "optional", TRUE, <<s>>)
          [] s = "layer.deactivate" ->
               Row(CMD_LAYER_DEACTIVATE, "handles", "optional", TRUE, <<s>>)
          [] s = "rgb.changed" -> Row(MSG_RGB_CHANGED, "notifies", "profile", FALSE, <<s>>)
          [] s = "rgb.set" -> Row(CMD_RGB_SET, "handles", "profile", FALSE, <<s>>)
          [] s = "signal.fire" -> SignalRow(<<s>>)
  <2>1. \A row \in OtherRows : \E s : row = Named(s) /\ row.id = <<s>>
    BY DEF CommandRows, LayerRows, RgbRows, SignalRow, Row
  <2> HIDE DEF Named, OtherRows
  <2>2. PICK s1 : r1 = Named(s1) /\ r1.id = <<s1>>
    BY <2>1
  <2>3. PICK s2 : r2 = Named(s2) /\ r2.id = <<s2>>
    BY <2>1
  <2>4. QED BY <1>0, <1>3, <2>2, <2>3
<1>4. \A r1 \in OtherRows : \E s \in OtherNames : r1.id = <<s>>
  BY DEF CommandRows, LayerRows, RgbRows, SignalRow, Row
<1>5. \A k \in 1..4 : ActionTable[k].id \notin OtherNames
  BY DEF ActionTable
<1>6. \A r1 \in OtherRows, r2 \in EmitRows : r1.id # r2.id
  BY <1>4, <1>5 DEF Row
<1>7. \A r1 \in OtherRows \cup EmitRows : \E s : r1.id = <<s>>
  BY <1>4 DEF Row
<1>8. \A r2 \in Numbered : \E n \in Nat : /\ r2 = SignalRow(<<"signal.fire", n>>)
                                        /\ r2.id = <<"signal.fire", n>>
  BY DEF Numbered, SignalRow, Row
<1>9. \A s, n : <<s>> # <<"signal.fire", n>>
  OBVIOUS
<1>10. \A n, m : <<"signal.fire", n>> = <<"signal.fire", m>> => n = m
  OBVIOUS
<1>11. Known = OtherRows \cup EmitRows
  BY Zenon DEF Known
<1> HIDE DEF EmitRows, OtherRows, OtherNames
<1>12. ASSUME NEW r1 \in Numbered, NEW r2 \in Numbered, r1.id = r2.id
       PROVE  r1 = r2
  BY <1>8, <1>10, <1>12
<1>13. \A r1 \in OtherRows \cup EmitRows, r2 \in Numbered : r1.id # r2.id
  BY <1>7, <1>8, <1>9
<1>14. QED BY <1>2, <1>3, <1>6, <1>11, <1>12, <1>13

-----------------------------------------------------------------------------
(***************************************************************************)
(* The invariant.                                                          *)
(***************************************************************************)
LEMMA CapInitInv == CapInit => CapInv
BY DEF CapInit, CapInv, CapTypeOK, Serving, OnlyCommandsWait, Originated

LEMMA MessageType ==
  \A type \in 0..255, arg \in Nat : Message(type, arg) \in [type : 0..255, arg : Nat]
BY DEF Message

LEMMA BuildKeeps ==
  ASSUME CapInv, Build
  PROVE  CapInv'
BY DEF CapInv, Build, CapTypeOK, Serving, OnlyCommandsWait, Originated, Listeners,
   Understood, LayerReport, Has

LEMMA HostSendsKeeps ==
  ASSUME CapInv, NEW type \in CommandTypes, NEW full \in BOOLEAN, HostSends(type, full)
  PROVE  CapInv'
<1>1. event' = [kind |-> "command", type |-> type, full |-> full]
  BY DEF HostSends, Command
<1>2. waiting' = Listeners' /\ acted' = {} /\ sent' = {}
  BY DEF HostSends, Listeners
<1>3. CapTypeOK'
  BY <1>2 DEF CapInv, CapTypeOK, HostSends
<1>4. Serving'
  BY <1>1, <1>2 DEF Serving
<1>5. OnlyCommandsWait' /\ Originated'
  BY <1>1 DEF OnlyCommandsWait, Originated
<1>6. QED BY <1>3, <1>4, <1>5 DEF CapInv

(* A listener that is waiting is asked, and takes the command or not.       *)
LEMMA AskedKeeps ==
  ASSUME CapInv, NEW listener \in waiting, NEW reports,
         \/ Understood(TypesOf(listener)) /\ Take(listener, reports)
         \/ ~Understood(TypesOf(listener)) /\ Pass(listener) /\ reports = {},
         reports \subseteq [type : 0..255, arg : Nat],
         Plain(RSP_CONFIRM) \in reports
           <=> /\ listener = "layer_actions" /\ event.type # CMD_LAYER_SET_BASE
               /\ Understood(TypesOf(listener))
  PROVE  CapInv'
<1>1. event.kind = "command" /\ UNCHANGED <<opts, nodes, phase, event>>
  BY DEF CapInv, OnlyCommandsWait, Take, Pass
<1>2. listener \in Listeners /\ listener \notin acted /\ Listeners' = Listeners
  BY <1>1 DEF CapInv, CapTypeOK, Listeners
<1>3. waiting' = waiting \ {listener} /\ sent' = sent \cup reports
  BY DEF Take, Pass
<1>4. acted' = acted \cup {l \in {listener} : Understood(TypesOf(l))}
  BY DEF Take, Pass
<1>5. CapTypeOK'
  BY <1>1, <1>2, <1>3, <1>4 DEF CapInv, CapTypeOK
<1>6. Serving'
  <2> SUFFICES ASSUME event # NoEvent
               PROVE  /\ event.type \in CommandTypes /\ event.full \in BOOLEAN
                      /\ acted' = {l \in Listeners \ waiting' : Understood(TypesOf(l))}
                      /\ acted' = {} => sent' = {}
                      /\ Plain(RSP_CONFIRM) \in sent'
                           <=> "layer_actions" \in acted' /\ event.type # CMD_LAYER_SET_BASE
    BY <1>1, <1>2 DEF Serving, Understood
  <2>1. /\ event.type \in CommandTypes /\ event.full \in BOOLEAN
        /\ acted = {l \in Listeners \ waiting : Understood(TypesOf(l))}
        /\ acted = {} => sent = {}
        /\ Plain(RSP_CONFIRM) \in sent
             <=> "layer_actions" \in acted /\ event.type # CMD_LAYER_SET_BASE
    BY <1>1 DEF CapInv, Serving
  <2>2. Listeners \ waiting' = (Listeners \ waiting) \cup {listener}
    BY <1>2, <1>3
  <2>3. acted' = {l \in Listeners \ waiting' : Understood(TypesOf(l))}
    BY <1>4, <2>1, <2>2
  <2>4. acted' = {} => sent' = {}
    BY <1>3, <1>4, <2>1 DEF Take, Pass
  <2>5. Plain(RSP_CONFIRM) \in sent'
          <=> "layer_actions" \in acted' /\ event.type # CMD_LAYER_SET_BASE
    BY <1>3, <1>4, <2>1
  <2>6. QED BY <2>1, <2>3, <2>4, <2>5
<1>7. OnlyCommandsWait' /\ Originated'
  BY <1>1 DEF OnlyCommandsWait, Originated
<1>8. QED BY <1>5, <1>6, <1>7 DEF CapInv

LEMMA ReplyTypes ==
  /\ RSP_CONFIRM \in 0..255
  /\ \A type \in {RSP_DEVICE_INFO, RSP_CONFIG_ID, MSG_LAYER_STATE, MSG_RGB_CHANGED,
                  RSP_MANIFEST_ENTRY} : type \in 0..255 /\ type # RSP_CONFIRM
BY DEF RSP_CONFIRM, RSP_DEVICE_INFO, RSP_CONFIG_ID, MSG_LAYER_STATE, MSG_RGB_CHANGED,
   RSP_MANIFEST_ENTRY

LEMMA PlainReports ==
  /\ \A type \in 0..255 : {Plain(type)} \subseteq [type : 0..255, arg : Nat]
  /\ \A type : type # RSP_CONFIRM => Plain(RSP_CONFIRM) \notin {Plain(type)}
<1>1. \A type : type # RSP_CONFIRM => Plain(RSP_CONFIRM) # Plain(type)
  BY DEF Plain, Message
<1>2. QED BY <1>1, MessageType DEF Plain

LEMMA PassKeeps ==
  ASSUME CapInv, NEW listener \in waiting, ~Understood(TypesOf(listener)), Pass(listener)
  PROVE  CapInv'
<1>1. {} \subseteq [type : 0..255, arg : Nat] /\ Plain(RSP_CONFIRM) \notin {}
  OBVIOUS
<1>2. QED BY <1>1, AskedKeeps

(* A listener that answers with one report and does not confirm.            *)
LEMMA AnswerKeeps ==
  ASSUME CapInv, NEW listener \in waiting, listener # "layer_actions",
         NEW type \in 0..255, type # RSP_CONFIRM,
         \/ Understood(TypesOf(listener)) /\ Take(listener, {Plain(type)})
         \/ ~Understood(TypesOf(listener)) /\ Pass(listener)
  PROVE  CapInv'
<1>1. CASE Understood(TypesOf(listener)) /\ Take(listener, {Plain(type)})
  BY <1>1, PlainReports, AskedKeeps
<1>2. CASE ~Understood(TypesOf(listener)) /\ Pass(listener)
  BY <1>2, PassKeeps
<1>3. QED BY <1>1, <1>2

LEMMA HandlersKeep ==
  ASSUME CapInv, HandleCommand \/ HandleLayerAction \/ HandleRgb \/ HandleManifest
  PROVE  CapInv'
<1>1. CASE HandleCommand
  <2>1. TypesOf("command_handler") = {CMD_GET_DEVICE_INFO, CMD_GET_CONFIG_ID, CMD_SET_LAYER}
    BY DEF TypesOf
  <2>2. PICK type \in {RSP_DEVICE_INFO, RSP_CONFIG_ID, MSG_LAYER_STATE} :
          \/ Understood(TypesOf("command_handler")) /\ Take("command_handler", {Plain(type)})
          \/ ~Understood(TypesOf("command_handler")) /\ Pass("command_handler")
    BY <1>1, <2>1 DEF HandleCommand, Understood
  <2>3. "command_handler" \in waiting
    BY <1>1 DEF HandleCommand
  <2>4. QED BY <2>2, <2>3, ReplyTypes, AnswerKeeps
<1>2. CASE HandleLayerAction
  <2>1. TypesOf("layer_actions") = LayerCommands /\ "layer_actions" \in waiting
    BY <1>2 DEF TypesOf, HandleLayerAction
  <2>2. CASE Understood(LayerCommands)
    <3>1. PICK changed \in BOOLEAN :
            Take("layer_actions",
                 LayerReport(changed) \cup
                 (IF event.type = CMD_LAYER_SET_BASE THEN {} ELSE {Plain(RSP_CONFIRM)}))
      BY <1>2, <2>2 DEF HandleLayerAction
    <3> DEFINE confirm == IF event.type = CMD_LAYER_SET_BASE THEN {} ELSE {Plain(RSP_CONFIRM)}
               reports == LayerReport(changed) \cup confirm
    <3>2. /\ LayerReport(changed) \subseteq [type : 0..255, arg : Nat]
          /\ Plain(RSP_CONFIRM) \notin LayerReport(changed)
      BY PlainReports, ReplyTypes DEF LayerReport
    <3>3. reports \subseteq [type : 0..255, arg : Nat]
      BY <3>2, PlainReports, ReplyTypes
    <3>4. Plain(RSP_CONFIRM) \in reports <=> event.type # CMD_LAYER_SET_BASE
      BY <3>2
    <3>5. Take("layer_actions", reports)
      BY <3>1
    <3> HIDE DEF reports, confirm
    <3>6. QED BY <2>1, <2>2, <3>3, <3>4, <3>5, AskedKeeps
  <2>3. CASE ~Understood(LayerCommands)
    <3>1. Pass("layer_actions")
      BY <1>2, <2>3 DEF HandleLayerAction
    <3>2. QED BY <2>1, <2>3, <3>1, PassKeeps
  <2>4. QED BY <2>2, <2>3
<1>3. CASE HandleRgb
  <2>1. TypesOf("rgb_actions") = {CMD_RGB_SET}
    BY DEF TypesOf
  <2>2. QED BY <1>3, <2>1, ReplyTypes, AnswerKeeps DEF HandleRgb
<1>4. CASE HandleManifest
  <2>1. TypesOf("manifest") = {CMD_GET_MANIFEST}
    BY DEF TypesOf
  <2>2. QED BY <1>4, <2>1, ReplyTypes, AnswerKeeps DEF HandleManifest
<1>5. QED BY <1>1, <1>2, <1>3, <1>4

(* An event of the keyboard's own, which is no command.                     *)
LEMMA HappensKeeps ==
  ASSUME CapInv, NEW what, NEW reports, Happens(what, reports),
         reports \subseteq [type : 0..255, arg : Nat],
         what.kind # "command", Originated'
  PROVE  CapInv'
<1>1. waiting' = {} /\ event' = what /\ acted' = {} /\ sent' = reports
  BY DEF Happens, Idle
<1>2. CapTypeOK'
  BY <1>1 DEF CapInv, CapTypeOK, Happens
<1>3. Serving' /\ OnlyCommandsWait'
  BY <1>1 DEF Serving, OnlyCommandsWait
<1>4. QED BY <1>2, <1>3 DEF CapInv

LEMMA KeysKeep ==
  ASSUME CapInv, NEW node \in nodes,
         \/ \E constant \in DOMAIN EmitConstant : PressEmit(node, constant)
         \/ \E id \in Params : PressSignal(node, id)
         \/ PressEmitFixed(node) \/ PressSignalFixed(node)
  PROVE  CapInv'
<1>1. node \in Nodes /\ nodes \subseteq Nodes
  BY DEF CapInv, CapTypeOK
<1>2. \A n \in Nat : Byte(n) \in 0..255
  BY DEF Byte
<1>3. ASSUME NEW constant \in DOMAIN EmitConstant, PressEmit(node, constant)
      PROVE  CapInv'
  <2> DEFINE what == [kind |-> "emit", constant |-> constant]
             reports == {Plain(EmitConstant[constant])}
  <2>1. Happens(what, reports) /\ event' = what
    BY <1>3 DEF PressEmit, Happens
  <2>2. EmitConstant[constant] \in 0..255
    BY DEF EmitConstant
  <2>3. reports \subseteq [type : 0..255, arg : Nat]
    BY <2>2, MessageType DEF Plain
  <2>4. Originated'
    BY <2>1 DEF Originated
  <2>5. what.kind # "command"
    OBVIOUS
  <2> HIDE DEF what, reports
  <2>6. QED BY <2>1, <2>3, <2>4, <2>5, HappensKeeps
<1>4. ASSUME NEW id \in Params, PressSignal(node, id)
      PROVE  CapInv'
  <2> DEFINE what == [kind |-> "signal"]
             reports == {Message(SIGNAL_FIRE, Byte(id))}
  <2>1. Happens(what, reports) /\ event' = what
    BY <1>4 DEF PressSignal, Happens
  <2>2. reports \subseteq [type : 0..255, arg : Nat]
    <3>1. SIGNAL_FIRE \in 0..255 /\ Byte(id) \in Nat
      BY <1>2, CapAssumption DEF SIGNAL_FIRE
    <3>2. QED BY <3>1, MessageType
  <2>3. UNCHANGED <<opts, nodes>> /\ node.compat = "signal" /\ Has("signal")
    BY <1>4 DEF PressSignal, Happens
  <2>4. Originated'
    BY <2>1, <2>3 DEF Originated, Has
  <2>5. what.kind # "command"
    OBVIOUS
  <2> HIDE DEF what, reports
  <2>6. QED BY <2>1, <2>2, <2>4, <2>5, HappensKeeps
<1>5. CASE PressEmitFixed(node)
  <2> DEFINE what == [kind |-> "emit-fixed", node |-> node]
             reports == {Message(ActionOf(node).byte, node.value)}
  <2>1. Happens(what, reports) /\ event' = what /\ sent' = reports
    BY <1>5 DEF PressEmitFixed, Happens
  <2>2. UNCHANGED <<opts, nodes>> /\ node.compat = "emit-fixed" /\ Has("emit-fixed")
    BY <1>5 DEF PressEmitFixed, Happens
  <2>3. ActionOf(node).byte \in 0..255 /\ node.value \in Nat
    BY <1>1, <2>2, ActionRows, CapAssumption DEF ActionTable
  <2>4. reports \subseteq [type : 0..255, arg : Nat]
    BY <2>3, MessageType
  <2>5. Originated'
    BY <2>1, <2>2 DEF Originated, Has
  <2>6. what.kind # "command"
    OBVIOUS
  <2> HIDE DEF what, reports
  <2>7. QED BY <2>1, <2>4, <2>5, <2>6, HappensKeeps
<1>6. CASE PressSignalFixed(node)
  <2> DEFINE what == [kind |-> "signal-fixed", node |-> node]
             reports == {Message(SIGNAL_FIRE, Byte(node.id))}
  <2>1. Happens(what, reports) /\ event' = what /\ sent' = reports
    BY <1>6 DEF PressSignalFixed, Happens
  <2>2. UNCHANGED <<opts, nodes>> /\ node.compat = "signal-fixed" /\ Has("signal-fixed")
    BY <1>6 DEF PressSignalFixed, Happens
  <2>3. reports \subseteq [type : 0..255, arg : Nat]
    <3>1. SIGNAL_FIRE \in 0..255 /\ Byte(node.id) \in Nat
      BY <1>1, <1>2, <2>2, CapAssumption DEF SIGNAL_FIRE
    <3>2. QED BY <3>1, MessageType
  <2>4. Originated'
    BY <2>1, <2>2 DEF Originated, Has
  <2>5. what.kind # "command"
    OBVIOUS
  <2> HIDE DEF what, reports
  <2>6. QED BY <2>1, <2>3, <2>4, <2>5, HappensKeeps
<1>7. QED BY <1>3, <1>4, <1>5, <1>6

LEMMA CapNextInv == CapInv /\ [CapNext]_capVars => CapInv'
<1> SUFFICES ASSUME CapInv, [CapNext]_capVars PROVE CapInv'
  OBVIOUS
<1>1. CASE LayerChanges
  <2> DEFINE what == [kind |-> "layers"]
             reports == LayerReport(TRUE)
  <2>1. Happens(what, reports) /\ event' = what /\ sent' = reports /\ UNCHANGED opts
    BY <1>1 DEF LayerChanges, Happens
  <2>2. reports \subseteq [type : 0..255, arg : Nat]
    BY PlainReports, ReplyTypes DEF LayerReport
  <2>3. Originated'
    BY <2>1 DEF Originated, LayerReport, Has
  <2>4. what.kind # "command"
    OBVIOUS
  <2> HIDE DEF what, reports
  <2>5. QED BY <2>1, <2>2, <2>3, <2>4, HappensKeeps
<1>2. ASSUME NEW p \in Positions, KeyMoves(p) PROVE CapInv'
  <2> DEFINE what == [kind |-> "key", position |-> p]
             reports == IF Has("notifier") /\ p < 256 THEN {Plain(MSG_KEY_EVENT)} ELSE {}
  <2>1. Happens(what, reports) /\ event' = what /\ sent' = reports /\ UNCHANGED opts
    BY <1>2 DEF KeyMoves, Happens
  <2>2. MSG_KEY_EVENT \in 0..255
    BY DEF MSG_KEY_EVENT
  <2>3. reports \subseteq [type : 0..255, arg : Nat]
    BY <2>2, PlainReports
  <2>4. Originated'
    BY <2>1 DEF Originated, Has
  <2>5. what.kind # "command"
    OBVIOUS
  <2> HIDE DEF what, reports
  <2>6. QED BY <2>1, <2>3, <2>4, <2>5, HappensKeeps
<1>3. CASE UNCHANGED capVars
  BY <1>3 DEF capVars, CapInv, CapTypeOK, Serving, OnlyCommandsWait, Originated, Listeners,
     Understood, LayerReport, Has
<1>4. QED BY <1>1, <1>2, <1>3, BuildKeeps, HostSendsKeeps, HandlersKeep, KeysKeep DEF CapNext

LEMMA CapInvInvariant == CapSpec => []CapInv
BY CapInitInv, CapNextInv, PTL DEF CapSpec

-----------------------------------------------------------------------------
(***************************************************************************)
(* Theorems.                                                               *)
(***************************************************************************)

(* Types, for every configuration and keymap; a report fits its bytes.      *)
THEOREM CapTypeCorrect == CapSpec => []CapTypeOK
<1>1. CapInv => CapTypeOK
  BY DEF CapInv
<1>2. QED BY <1>1, CapInvInvariant, PTL

(* seen_id(), which looks at the id only, drops nothing but copies: two     *)
(* rows with one id are the same row, whatever is built and bound.          *)
THEOREM DedupLosesNothingInvariant == CapSpec => []DedupLosesNothing
<1>1. CapInv => DedupLosesNothing
  BY RowsAreKnown, KnownDiffer DEF CapInv, CapTypeOK, DedupLosesNothing
<1>2. QED BY <1>1, CapInvInvariant, PTL

(* A command that is registered is taken by exactly one listener, and one   *)
(* that is neither registered nor a query is taken by none.                 *)
THEOREM AdvertisedIsHandledInvariant == CapSpec => []AdvertisedIsHandled
<1>1. ASSUME CapInv, Answered, event.kind = "command", event.full
      PROVE  IF event.type \in HandledTypes \cup Queries
               THEN \E listener \in acted : acted = {listener}
               ELSE acted = {} /\ sent = {}
  <2>1. /\ event.type \in CommandTypes
        /\ acted = {l \in Listeners : Understood(TypesOf(l))}
        /\ acted = {} => sent = {}
    BY <1>1 DEF Answered, CapInv, Serving
  <2>2. \A types : Understood(types) <=> event.type \in types
    BY <1>1 DEF Understood
  <2>3. acted = {l \in Listeners : event.type \in TypesOf(l)}
    BY <2>1, <2>2
  <2>4. \A l \in {"command_handler", "layer_actions", "rgb_actions", "manifest"} :
          l \in Listeners <=> Has(l)
    BY DEF Listeners, Has
  <2>5. Listeners \subseteq {"command_handler", "layer_actions", "rgb_actions", "manifest"}
    BY DEF Listeners
  <2>6. event.type \in HandledTypes <=>
          \/ event.type = CMD_SET_LAYER /\ Has("command_handler")
          \/ event.type \in LayerCommands /\ Has("layer_actions")
          \/ event.type = CMD_RGB_SET /\ Has("rgb_actions")
    BY <1>1, <2>1, TypesHandled DEF CapInv, CapTypeOK
  <2>7. event.type \in Queries <=>
          \/ event.type \in {CMD_GET_DEVICE_INFO, CMD_GET_CONFIG_ID} /\ Has("command_handler")
          \/ event.type = CMD_GET_MANIFEST /\ Has("manifest")
    BY DEF Queries
  <2>8. \A l \in Listeners, k \in Listeners :
          event.type \in TypesOf(l) /\ event.type \in TypesOf(k) => l = k
    BY <2>5 DEF TypesOf, LayerCommands, CMD_GET_DEVICE_INFO, CMD_GET_CONFIG_ID,
       CMD_SET_LAYER, CMD_RGB_SET, CMD_GET_MANIFEST, CMD_LAYER_SET_BASE, CMD_LAYER_ACTIVATE,
       CMD_LAYER_DEACTIVATE
  <2>9. event.type \in HandledTypes \cup Queries
          <=> \E l \in Listeners : event.type \in TypesOf(l)
    BY <2>4, <2>5, <2>6, <2>7 DEF TypesOf
  <2>10. QED BY <2>1, <2>3, <2>8, <2>9
<1>2. CapInv => AdvertisedIsHandled
  BY <1>1 DEF AdvertisedIsHandled, HandledTypes
<1>3. QED BY <1>2, CapInvInvariant, PTL

(* Whether a taken action is confirmed is what its row says.                *)
THEOREM ConfirmAsAdvertisedInvariant == CapSpec => []ConfirmAsAdvertised
<1>1. ASSUME CapInv, Answered, event.kind = "command", acted # {}
      PROVE  Plain(RSP_CONFIRM) \in sent
               <=> \E r \in Advertised("handles") : r.type = event.type /\ r.confirm
  <2> DEFINE Confirming == event.type \in {CMD_LAYER_ACTIVATE, CMD_LAYER_DEACTIVATE}
  <2>1. /\ event.type \in CommandTypes
        /\ acted = {l \in Listeners : Understood(TypesOf(l))}
        /\ Plain(RSP_CONFIRM) \in sent
             <=> "layer_actions" \in acted /\ event.type # CMD_LAYER_SET_BASE
    BY <1>1 DEF Answered, CapInv, Serving
  <2>2. PICK l \in Listeners : Understood(TypesOf(l))
    BY <1>1, <2>1
  <2>3. "layer_actions" \in acted => event.type \in LayerCommands /\ Has("layer_actions")
    BY <2>1 DEF TypesOf, Understood, Listeners, Has
  <2>4. event.type \in LayerCommands => "layer_actions" \in acted
    <3>1. SUFFICES ASSUME event.type \in LayerCommands PROVE l = "layer_actions"
      BY <2>1, <2>2
    <3>2. event.type \in TypesOf(l)
      BY <2>2 DEF Understood
    <3>3. l \in {"command_handler", "layer_actions", "rgb_actions", "manifest"}
      BY <2>2 DEF Listeners
    <3>4. QED BY <3>1, <3>2, <3>3 DEF TypesOf, LayerCommands, CMD_GET_DEVICE_INFO,
          CMD_GET_CONFIG_ID, CMD_SET_LAYER, CMD_RGB_SET, CMD_GET_MANIFEST,
          CMD_LAYER_SET_BASE, CMD_LAYER_ACTIVATE, CMD_LAYER_DEACTIVATE
  <2>5. Plain(RSP_CONFIRM) \in sent <=> Confirming
    BY <2>1, <2>3, <2>4 DEF LayerCommands, CMD_LAYER_SET_BASE, CMD_LAYER_ACTIVATE,
       CMD_LAYER_DEACTIVATE
  <2>6. ASSUME NEW r \in Advertised("handles"), r.type = event.type, r.confirm
        PROVE  Confirming
    <3>1. r \in CommandRows \cup LayerRows \cup RgbRows
      BY <1>1, <2>6, HandledRows DEF CapInv, CapTypeOK, Advertised
    <3>2. \A row \in CommandRows \cup RgbRows : ~row.confirm
      BY DEF CommandRows, RgbRows, Row
    <3>3. \A row \in LayerRows : row.confirm
            => row.type \in {CMD_LAYER_ACTIVATE, CMD_LAYER_DEACTIVATE}
      BY DEF LayerRows, Row
    <3>4. QED BY <2>6, <3>1, <3>2, <3>3
  <2>7. ASSUME Confirming
        PROVE  \E r \in Advertised("handles") : r.type = event.type /\ r.confirm
    <3>1. PICK r \in LayerRows : r.role = "handles" /\ r.type = event.type /\ r.confirm
      BY <2>7 DEF LayerRows, Row
    <3>2. Has("layer_actions")
      BY <2>3, <2>4, <2>7 DEF LayerCommands
    <3>3. r \in Rows
      BY <3>2 DEF Rows, Registered, Has
    <3>4. QED BY <3>1, <3>3 DEF Advertised
  <2>8. QED BY <2>5, <2>6, <2>7
<1>2. CapInv => ConfirmAsAdvertised
  BY <1>1 DEF ConfirmAsAdvertised
<1>3. QED BY <1>2, CapInvInvariant, PTL

(* A node's key sends what the node's row lists, and the host takes it for  *)
(* the action or the id written on the node.                                *)
LEMMA TriggersOfNode ==
  ASSUME nodes \subseteq Nodes, NEW node \in nodes, Has(node.compat), NEW row \in NodeRows(node)
  PROVE  row.id \in Ids("triggers")
<1>1. row \in Rows
  BY DEF Rows, Registered, Has
<1>2. row.role = "triggers"
  BY RowsOfNodes
<1>3. QED BY <1>1, <1>2, Zenon DEF Ids, Advertised

LEMMA HostTakesActions ==
  ASSUME NEW k \in 1..4, NEW value
  PROVE  HostIds(Message(ActionTable[k].byte, value)) = {<<ActionTable[k].id>>}
<1>1. ActionTable[k].byte # SIGNAL_FIRE
  BY DEF ActionTable, SIGNAL_FIRE
<1>2. {p \in HostActionIds : p[1] = ActionTable[k].byte}
        = {<<ActionTable[k].byte, ActionTable[k].id>>}
  BY DEF HostActionIds, ActionTable
<1>3. HostIds(Message(ActionTable[k].byte, value))
        = {<<pair[2]>> : pair \in {<<ActionTable[k].byte, ActionTable[k].id>>}}
  BY <1>1, <1>2 DEF HostIds, Message
<1>4. <<ActionTable[k].byte, ActionTable[k].id>>[2] = ActionTable[k].id
  OBVIOUS
<1>5. QED BY <1>3, <1>4

(* Every key of the fixed forms sends what its node's row announces, and    *)
(* the host reads it as that action or id, for any nodes in the keymap.     *)
THEOREM TriggerMatchesRowInvariant == CapSpec => []TriggerMatchesRow
<1>1. ASSUME CapInv, Answered, event.kind = "emit-fixed"
      PROVE  Announces(<<event.node.action>>)
  <2> DEFINE node == event.node
  <2>1. /\ node \in nodes /\ node.compat = "emit-fixed" /\ Has("emit-fixed")
        /\ sent = {Message(ActionOf(node).byte, node.value)}
    BY <1>1 DEF Answered, CapInv, Originated
  <2>2. nodes \subseteq Nodes
    BY <1>1 DEF CapInv, CapTypeOK
  <2>3. /\ EnumIdx(node) \in 1..4 /\ ActionOf(node) = ActionTable[EnumIdx(node)]
        /\ ActionOf(node).id = node.action
    BY <2>1, <2>2, ActionRows
  <2>4. HostIds(Message(ActionOf(node).byte, node.value)) = {<<node.action>>}
    BY <2>3, HostTakesActions
  <2>5. EmitRow(node, ActionOf(node).tier) \in NodeRows(node)
    BY <2>1 DEF NodeRows
  <2>6. EmitRow(node, ActionOf(node).tier).id = <<node.action>>
    BY <2>3 DEF EmitRow, Row
  <2>7. <<node.action>> \in Ids("triggers")
    BY <2>1, <2>2, <2>5, <2>6, TriggersOfNode
  <2>8. QED BY <2>1, <2>4, <2>7 DEF Announces
<1>2. ASSUME CapInv, Answered, event.kind = "signal-fixed", event.node.id < 256
      PROVE  Announces(<<"signal.fire", event.node.id>>)
  <2> DEFINE node == event.node
  <2>1. /\ node \in nodes /\ node.compat = "signal-fixed" /\ Has("signal-fixed")
        /\ sent = {Message(SIGNAL_FIRE, Byte(node.id))}
    BY <1>2 DEF Answered, CapInv, Originated
  <2>2. nodes \subseteq Nodes
    BY <1>2 DEF CapInv, CapTypeOK
  <2>3. node.id \in Nat /\ node.id < 256
    BY <1>2, <2>1, <2>2, CapAssumption
  <2>4. Byte(node.id) = node.id
    <3>1. \A n \in Nat : n < 256 => n % 256 = n
      OBVIOUS
    <3>2. QED BY <2>3, <3>1 DEF Byte
  <2>5. HostIds(Message(SIGNAL_FIRE, node.id)) = {<<"signal.fire", node.id>>}
    BY DEF HostIds, Message
  <2>6. SignalRow(<<"signal.fire", node.id>>) \in NodeRows(node)
    BY <2>1 DEF NodeRows
  <2>7. SignalRow(<<"signal.fire", node.id>>).id = <<"signal.fire", node.id>>
    BY DEF SignalRow, Row
  <2>8. <<"signal.fire", node.id>> \in Ids("triggers")
    BY <2>1, <2>2, <2>6, <2>7, TriggersOfNode
  <2>9. QED BY <2>1, <2>4, <2>5, <2>8 DEF Announces
<1>3. ASSUME CapInv, Answered, event.kind = "signal"
      PROVE  <<"signal.fire">> \in Ids("triggers")
  <2>1. PICK node \in nodes : node.compat = "signal" /\ Has("signal")
    BY <1>3 DEF Answered, CapInv, Originated
  <2>2. nodes \subseteq Nodes
    BY <1>3 DEF CapInv, CapTypeOK
  <2>3. SignalRow(<<"signal.fire">>) \in NodeRows(node)
    BY <2>1 DEF NodeRows
  <2>4. SignalRow(<<"signal.fire">>).id = <<"signal.fire">>
    BY DEF SignalRow, Row
  <2>5. QED BY <2>1, <2>2, <2>3, <2>4, TriggersOfNode
<1>4. CapInv => TriggerMatchesRow
  BY <1>1, <1>2, <1>3 DEF TriggerMatchesRow
<1>5. QED BY <1>4, CapInvInvariant, PTL

(* What the manifest lists under notifies is sent, and nothing is sent if   *)
(* neither event is listed.                                                 *)
THEOREM NotifiesAsAdvertisedInvariant == CapSpec => []NotifiesAsAdvertised
<1>1. Has("notifier") <=> "LAYER_EVENTS" \in opts \/ "KEY_EVENTS" \in opts
  BY DEF Has, Compiled
<1>2. ASSUME nodes \subseteq Nodes, NEW id \in Ids("notifies"),
             id \in {<<"layer.changed">>, <<"keyboard.key.event">>}
      PROVE  Has("notifier")
  <2>1. PICK row \in Rows : row.role = "notifies" /\ row.id = id
    BY <1>2 DEF Ids, Advertised
  <2>2. \A node \in nodes : row \notin NodeRows(node)
    BY <1>2, <2>1, RowsOfNodes
  <2>3. \A s, u : <<s>> = <<u>> => s = u
    OBVIOUS
  <2>4. row \notin CommandRows \cup LayerRows \cup RgbRows
    BY <1>2, <2>1, <2>3 DEF CommandRows, LayerRows, RgbRows, Row
  <2>5. QED BY <2>2, <2>4, Zenon DEF Rows, Registered, Has
<1>3. ASSUME Has("notifier")
      PROVE  <<"layer.changed">> \in Ids("notifies") \/ <<"keyboard.key.event">> \in Ids("notifies")
  <2>1. PICK row \in NotifierRows(opts) :
          /\ row.role = "notifies"
          /\ row.id = <<"layer.changed">> \/ row.id = <<"keyboard.key.event">>
    <3> DEFINE layers == Row(MSG_LAYER_STATE, "notifies", "core", FALSE, <<"layer.changed">>)
               keys == Row(MSG_KEY_EVENT, "notifies", "optional", FALSE, <<"keyboard.key.event">>)
    <3>1. layers.role = "notifies" /\ layers.id = <<"layer.changed">>
      BY DEF Row
    <3>2. keys.role = "notifies" /\ keys.id = <<"keyboard.key.event">>
      BY DEF Row
    <3>3. /\ "LAYER_EVENTS" \in opts => layers \in NotifierRows(opts)
          /\ "KEY_EVENTS" \in opts => keys \in NotifierRows(opts)
      BY DEF NotifierRows
    <3> HIDE DEF layers, keys
    <3>4. QED BY <1>1, <1>3, <3>1, <3>2, <3>3
  <2>2. row \in Rows
    BY <1>3 DEF Rows, Registered, Has
  <2>3. QED BY <2>1, <2>2 DEF Ids, Advertised
<1>4. ASSUME CapInv, Answered, event.kind \in {"layers", "key"}
      PROVE  /\ sent # {} => Has("notifier")
             /\ event.kind = "layers" \/ event.position < 256 =>
                  (Has("notifier") => sent # {})
  BY <1>4 DEF Answered, CapInv, Originated, LayerReport
<1>5. CapInv => NotifiesAsAdvertised
  BY <1>2, <1>3, <1>4 DEF NotifiesAsAdvertised, CapInv, CapTypeOK
<1>6. QED BY <1>5, CapInvInvariant, PTL
=============================================================================
