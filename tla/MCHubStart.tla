----------------------------- MODULE MCHubStart -----------------------------
(* HubStart with a keyboard listed as macOS does, two trackballs of one     *)
(* model, one of them also listed without a number, and a device of no      *)
(* interest; ids shorter than, as long as and longer than a chunk.          *)
EXTENDS HubStart

Interface(unit, model, number, viz) ==
  [unit |-> unit, model |-> model, number |-> number, viz |-> viz]

MCInterfaces ==
  {Interface("keyboard", "zmk", -1, TRUE), Interface("keyboard", "zmk", 1, TRUE),
   Interface("keyboard", "zmk", 0, FALSE),
   Interface("ball1", "qmk", 1, TRUE), Interface("ball1", "qmk", 999, TRUE),
   Interface("ball2", "qmk", 2, TRUE), Interface("mouse", "hid", 1, TRUE)}

MCIds == {"layer.set", "dpi.setIndex", "dragScroll.set"}
MCLength == [s \in MCIds \cup {"board", "guid"} |->
               IF s = "layer.set" THEN 1 ELSE IF s = "dpi.setIndex" THEN 2
               ELSE IF s = "dragScroll.set" THEN 3 ELSE IF s = "board" THEN 1 ELSE 3]

(* None, and manifests of four and five reports.                            *)
MCManifests ==
  {<<>>, <<"board", "guid", "dpi.setIndex">>,
   <<"board", "dragScroll.set", "dpi.setIndex", "layer.set">>}
=============================================================================
