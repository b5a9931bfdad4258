------------------------------ MODULE MCHidViz ------------------------------
(* HidViz on small instances: three layers, two or three events.            *)
EXTENDS HidViz

MCKeymapLayers == {0, 1, 2}

Layers(m) == [type |-> "SET_LAYER", mask |-> m]
Base(l) == [type |-> "LAYER_SET_BASE", layer |-> l]
Activate(r, l) == [type |-> "LAYER_ACTIVATE", ref |-> r, layer |-> l]
Deactivate(r, l) == [type |-> "LAYER_DEACTIVATE", ref |-> r, layer |-> l]
Query(t) == [type |-> t]
GetManifest(i) == [type |-> "GET_MANIFEST", start |-> i]

(* The host drives the layers; one activate names a layer there is none of. *)
HostCommands == {Layers({1}), Base(2), Activate(1, 2), Activate(2, 9),
                 Deactivate(3, 2), Query("GET_DEVICE_INFO")}

(* The host sets layers, reads the manifest from either end and asks for     *)
(* the rest.                                                                *)
MixedCommands == {Layers({1, 2}), Activate(1, 1), Base(2), GetManifest(0), GetManifest(1),
                  Query("GET_CONFIG_ID"), Query("IGNORED")}

StreamCommands == {GetManifest(0), Layers({1})}
SetCommands == {Layers({1, 2})}

MCLayerKeys == {[layer |-> 1, on |-> TRUE], [layer |-> 1, on |-> FALSE]}

(* Parameters that do not fit a byte are cut down to one.                   *)
MCBindings == {[behaviour |-> "emit", param1 |-> 481, param2 |-> 800],
               [behaviour |-> "emit_fixed", action |-> 233, value |-> 1],
               [behaviour |-> "signal", param1 |-> 263],
               [behaviour |-> "signal_fixed", id |-> 7]}
HostBindings == {b \in MCBindings : b.behaviour \in {"emit", "signal_fixed"}}
MixedBindings == {b \in MCBindings : b.behaviour \in {"emit_fixed", "signal"}}
MCNone == {}
=============================================================================
