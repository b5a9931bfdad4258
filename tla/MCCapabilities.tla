--------------------------- MODULE MCCapabilities ---------------------------
(* Capabilities with two nodes of one action, one of another, both signal   *)
(* forms, and an id that does not fit a byte.                               *)
EXTENDS Capabilities

MCNodes ==
  {[compat |-> "emit"],
   [compat |-> "emit-fixed", action |-> "dpi.setIndex", value |-> 0],
   [compat |-> "emit-fixed", action |-> "dragScroll.set", value |-> 0],
   [compat |-> "emit-fixed", action |-> "dragScroll.set", value |-> 1],
   [compat |-> "signal"],
   [compat |-> "signal-fixed", id |-> 7],
   [compat |-> "signal-fixed", id |-> 263]}
=============================================================================
