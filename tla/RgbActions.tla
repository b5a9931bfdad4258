----------------------------- MODULE RgbActions -----------------------------
(***************************************************************************)
(* core.rgb.set (src/rgb_actions.c).  The handler of 0xD1 runs on the      *)
(* dispatch worker and drives ZMK's underglow through the rgb_ug behaviour *)
(* (external), up to three times; 0xD0 tells the host what has become of   *)
(* it.  ZMK has no getter for colour and effect, so the module keeps what  *)
(* it last set in statics; keys bound to &rgb_ug, in ZMK's own context and *)
(* at any moment, change the underglow without the module hearing of it.   *)
(*                                                                         *)
(* The three colour components are alike, and each is a number 0..MaxColour*)
(* once clamped.                                                           *)
(***************************************************************************)
EXTENDS Naturals

CONSTANTS
  MaxColour, (* RGB_HUE_MAX, RGB_SAT_MAX, RGB_BRT_MAX                       *)
  Effects,   (* number of effects the underglow has                         *)
  Sets,      (* the 0xD1 commands the host sends                            *)
  MaxSets,   (* bound: commands in a behaviour                              *)
  MaxKeys    (* bound: &rgb_ug keys pressed in a behaviour                  *)

Colour == {"h", "s", "v"}
Settings == Colour \cup {"effect"}

ASSUME RgbAssumption ==
  /\ MaxColour \in Nat /\ Effects \in Nat \ {0}
  /\ MaxSets \in Nat /\ MaxKeys \in Nat
  /\ \A c \in Sets : /\ c.fields \subseteq Settings \cup {"on"}
                     /\ c.on \in BOOLEAN /\ c.value \in [Settings -> Nat]

VARIABLES
  on,       (* the underglow: lit?                                          *)
  actual,   (* the underglow: colour and effect                             *)
  cur,      (* cur_h, cur_s, cur_v, cur_effect                              *)
  pc,       (* where handle_rgb_set stands                                  *)
  command,  (* the command in hand                                          *)
  receipt,  (* the latest 0xD0                                              *)
  sets, keys,                  (* bounded counters                          *)
  bypassed, (* history: settings a key changed since the module last set them *)
  before,   (* history: actual when the command in hand was taken           *)
  stale,    (* history: bypassed when the command in hand was taken         *)
  quiet,    (* history: no key pressed since then                           *)
  refused   (* history: the settings of it that the underglow refused       *)

rgb == <<on, actual>>
history == <<bypassed, before, stale, quiet, refused>>
rgbVars == <<rgb, cur, pc, command, receipt, sets, keys, history>>

NoReceipt == [on |-> FALSE, cur |-> [n \in Settings |-> 0]]

(* Colour and effect come up as configured, unless flash says otherwise.    *)
RgbInit ==
  /\ cur = [n \in Settings |-> 0]
  /\ actual \in {cur, [cur EXCEPT !["h"] = MaxColour]}
  /\ on \in BOOLEAN
  /\ pc = "idle" /\ command \in Sets
  /\ receipt = NoReceipt
  /\ sets = 0 /\ keys = 0
  /\ bypassed = {n \in Settings : actual[n] # cur[n]}
  /\ before = actual /\ stale = {} /\ quiet = TRUE /\ refused = {}

-----------------------------------------------------------------------------
(* A key bound to &rgb_ug, in ZMK's own context.                            *)
KeyColour(n) ==
  /\ keys < MaxKeys /\ keys' = keys + 1
  /\ actual' = [actual EXCEPT ![n] = (@ + 1) % (IF n = "effect" THEN Effects
                                               ELSE MaxColour + 1)]
  /\ bypassed' = bypassed \cup {n}
  /\ quiet' = FALSE
  /\ UNCHANGED <<on, cur, pc, command, receipt, sets, before, stale, refused>>

KeyToggle ==
  /\ keys < MaxKeys /\ keys' = keys + 1
  /\ on' = ~on
  /\ quiet' = FALSE
  /\ UNCHANGED <<actual, cur, pc, command, receipt, sets, bypassed, before, stale,
                 refused>>

-----------------------------------------------------------------------------
(* rgb_actions_handler(): a command of full length is taken up.             *)
Take(c) ==
  /\ pc = "idle"
  /\ sets < MaxSets /\ sets' = sets + 1
  /\ command' = c /\ pc' = "colour"
  /\ before' = actual /\ stale' = bypassed /\ quiet' = TRUE /\ refused' = {}
  /\ UNCHANGED <<rgb, cur, receipt, keys, bypassed>>

(* Slip: no clamp.                                                          *)
Unclamped(x) == x

Clamp(x) == IF x > MaxColour THEN MaxColour ELSE x

(* Slips: absent components are zero; the mask is read the wrong way round. *)
TripleOrZero ==
  [n \in Colour |-> IF n \in command.fields THEN Clamp(command.value[n]) ELSE 0]

TripleInverted ==
  [n \in Colour |-> IF n \in command.fields THEN cur[n] ELSE Clamp(command.value[n])]

(* The full triple the behaviour takes: absent components from the statics. *)
Triple ==
  [n \in Colour |-> IF n \in command.fields THEN Clamp(command.value[n]) ELSE cur[n]]

(* Slip: the statics follow although the underglow refused.                 *)
SetColourAnyway ==
  /\ pc = "colour" /\ pc' = "effect"
  /\ IF command.fields \cap Colour = {}
       THEN UNCHANGED <<actual, cur, bypassed, refused>>
       ELSE /\ cur' = [n \in Settings |-> IF n \in Colour THEN Triple[n] ELSE cur[n]]
            /\ bypassed' = bypassed \ Colour
            /\ \/ actual' = [n \in Settings |-> IF n \in Colour THEN Triple[n] ELSE actual[n]]
                  /\ UNCHANGED refused
               \/ refused' = Colour /\ UNCHANGED actual
  /\ UNCHANGED <<on, command, receipt, sets, keys, before, stale, quiet>>

SetColour ==
  /\ pc = "colour" /\ pc' = "effect"
  /\ \/ /\ command.fields \cap Colour = {}
        /\ UNCHANGED <<actual, cur, bypassed, refused>>
     \/ /\ command.fields \cap Colour # {}
        /\ actual' = [n \in Settings |-> IF n \in Colour THEN Triple[n] ELSE actual[n]]
        /\ cur' = [n \in Settings |-> IF n \in Colour THEN Triple[n] ELSE cur[n]]
        /\ bypassed' = bypassed \ Colour
        /\ UNCHANGED refused
     \/ /\ command.fields \cap Colour # {}    (* the behaviour reports an error *)
        /\ refused' = Colour
        /\ UNCHANGED <<actual, cur, bypassed>>
  /\ UNCHANGED <<on, command, receipt, sets, keys, before, stale, quiet>>

SetEffect ==
  /\ pc = "effect" /\ pc' = "on"
  /\ LET e == command.value["effect"]
     IN  \/ /\ "effect" \notin command.fields
            /\ UNCHANGED <<actual, cur, bypassed, refused>>
         \/ /\ "effect" \in command.fields /\ e < Effects
            /\ actual' = [actual EXCEPT !["effect"] = e]
            /\ cur' = [cur EXCEPT !["effect"] = e]
            /\ bypassed' = bypassed \ {"effect"}
            /\ UNCHANGED refused
         \/ /\ "effect" \in command.fields /\ e >= Effects
            /\ refused' = refused \cup {"effect"}
            /\ UNCHANGED <<actual, cur, bypassed>>
  /\ UNCHANGED <<on, command, receipt, sets, keys, before, stale, quiet>>

(* Slip: switched at once when the colour is set, before the effect.        *)
SwitchEarly ==
  /\ pc \in {"effect", "on"}
  /\ pc' = IF pc = "on" THEN "receipt" ELSE pc
  /\ on' = IF "on" \in command.fields THEN command.on ELSE on
  /\ UNCHANGED <<actual, cur, command, receipt, sets, keys, history>>

(* On/off comes last; its result is not looked at.                          *)
Switch ==
  /\ pc = "on" /\ pc' = "receipt"
  /\ on' = IF "on" \in command.fields THEN command.on ELSE on
  /\ UNCHANGED <<actual, cur, command, receipt, sets, keys, history>>

(* send_rgb_changed(): on/off from the underglow, the rest from the statics.*)
SendReceipt ==
  /\ pc = "receipt" /\ pc' = "idle"
  /\ receipt' = [on |-> on, cur |-> cur]
  /\ UNCHANGED <<rgb, cur, command, sets, keys, history>>

Handling == SetColour \/ SetEffect \/ Switch \/ SendReceipt

RgbNext ==
  \/ Handling \/ KeyToggle
  \/ \E n \in Settings : KeyColour(n)
  \/ \E c \in Sets : Take(c)

RgbSpec == RgbInit /\ [][RgbNext]_rgbVars

-----------------------------------------------------------------------------
(***************************************************************************)
(* Properties.                                                             *)
(***************************************************************************)
InRange(setting) ==
  /\ \A n \in Colour : setting[n] \in 0..MaxColour
  /\ setting["effect"] \in 0..Effects - 1

(* Every variable has its type; the values the host sends are clamped       *)
(* before they reach the underglow or the statics.                          *)
RgbTypeOK ==
  /\ InRange(actual) /\ InRange(cur) /\ InRange(receipt.cur)
  /\ pc \in {"idle", "colour", "effect", "on", "receipt"}
  /\ command \in Sets
  /\ bypassed \subseteq Settings /\ refused \subseteq Settings

(* The statics tell the truth about every setting no key has changed behind *)
(* the module's back, also while a command is half done or was refused in   *)
(* part (rgb_actions.c:79-85, 139-153).                                     *)
StaticsFollow == \A n \in Settings \ bypassed : cur[n] = actual[n]

(* What a command asks of a setting it names: an effect is not clamped.     *)
Named(c, n) == IF n \in Colour THEN Clamp(c.value[n]) ELSE c.value[n]

(* A set is absolute (README.md:150): undisturbed and not refused, it ends  *)
(* with each setting it names at the value it names, and the receipt says   *)
(* so, whatever state it found.                                             *)
AbsoluteSet ==
  pc = "idle" /\ sets > 0 /\ quiet /\ refused = {} =>
    /\ \A n \in command.fields \cap Settings :
         actual[n] = Named(command, n) /\ receipt.cur[n] = actual[n]
    /\ "on" \in command.fields => on = command.on /\ receipt.on = on

Handled == pc \in {"on", "receipt"} /\ quiet

(* A set leaves the settings it does not name alone, when the statics were  *)
(* up to date as it came (rgb_actions.c:132-138).                           *)
AbsentKeptUnlessBypassed ==
  Handled => \A n \in Settings \ (command.fields \cup stale) : actual[n] = before[n]

(* README.md:150-151: bytes whose mask bit is clear are ignored and the     *)
(* setting keeps its current value.  It does not, once a key or the flash   *)
(* has set another one: the statics' value comes back.                      *)
AbsentKept ==
  Handled => \A n \in Settings \ command.fields : actual[n] = before[n]

(* Switching on shows no old setting: when a command lights the underglow,  *)
(* every colour component and the effect it names are in place, except what *)
(* the underglow refused and what a key has changed since it was set        *)
(* (rgb_actions.c:156-157, README.md:152-153).                              *)
LightsUpAsNamed ==
  [][~on /\ on' /\ keys' = keys =>
       \A n \in (command'.fields \cap Settings) \ (refused' \cup bypassed') :
         actual'[n] = Named(command', n)]_rgbVars
=============================================================================
