-------------------------- MODULE MCManifestStream --------------------------
(* ManifestStream with strings shorter than, as long as and longer than a   *)
(* chunk, an exact multiple of one included, for TLC.                       *)
EXTENDS ManifestStream

MCIds == {"layer.set", "dpi.setIndex", "dragScroll.set"}
MCLength == [s \in MCIds \cup {"board", "guid"} |->
               IF s = "layer.set" THEN 1 ELSE IF s = "dpi.setIndex" THEN 2
               ELSE IF s = "dragScroll.set" THEN 4 ELSE IF s = "board" THEN 2 ELSE 5]
=============================================================================
