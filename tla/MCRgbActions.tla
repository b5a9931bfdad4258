---------------------------- MODULE MCRgbActions ----------------------------
(* RgbActions with a few commands, one out of range and one empty, for TLC. *)
EXTENDS RgbActions

Values(h, s, v, e) ==
  [n \in Settings |-> CASE n = "h" -> h [] n = "s" -> s [] n = "v" -> v [] n = "effect" -> e]
Command(f, o, v) == [fields |-> f, on |-> o, value |-> v]

MCSets == {
  Command({}, FALSE, Values(0, 0, 0, 0)),
  Command({"v"}, FALSE, Values(1, 1, 2, 1)),
  Command({"on", "h", "s", "v"}, TRUE, Values(2, 1, 3, 0)),
  Command({"h", "effect"}, TRUE, Values(1, 0, 0, 5)),
  Command({"on", "h", "effect"}, TRUE, Values(2, 0, 0, 1)),
  Command({"on", "effect"}, FALSE, Values(2, 2, 2, 1)) }
=============================================================================
