---------------------------- MODULE MCHubBroker -----------------------------
(* HubBroker with a keyboard that triggers an action, a trackball that      *)
(* handles it, and a third device that handles it as well, and also handles *)
(* the other action, which it triggers itself.                              *)
EXTENDS HubBroker

MCDevices == {"keyboard", "trackball", "knob"}
MCFound == {<<"keyboard", "trackball", "knob">>}
MCHandles == [d \in MCDevices |->
                IF d = "trackball" THEN {"dpi.set"}
                ELSE IF d = "knob" THEN {"dpi.set", "snipe.set"} ELSE {}]
MCEmits == [d \in MCDevices |->
              IF d = "keyboard" THEN {"dpi.set"}
              ELSE IF d = "knob" THEN {"snipe.set"} ELSE {}]
=============================================================================
