-------------------------- MODULE RgbActionsProofs --------------------------
(***************************************************************************)
(* core.rgb.set, for any set of commands and any number of keys pressed    *)
(* meanwhile: what the module's record of the underglow is good for, what  *)
(* a command leaves behind it, and what it never touches.                  *)
(***************************************************************************)
EXTENDS RgbActions, TLAPS

(* The variables the record depends on.                                     *)
RecordTypes ==
  /\ actual \in [Settings -> Nat]
  /\ cur \in [Settings -> Nat]
  /\ command \in Sets
  /\ bypassed \subseteq Settings

LEMMA TripleType ==
  ASSUME RecordTypes
  PROVE  \A n \in Colour : Triple[n] \in Nat
BY RgbAssumption DEF RecordTypes, Triple, Clamp, Settings

(* The record follows the underglow in every setting that no key changed    *)
(* behind the module's back, between the steps of a command and after a     *)
(* refusal as well: a static is written only together with the underglow.   *)
THEOREM StaticsFollowInvariant == RgbSpec => []StaticsFollow
<1> USE DEF RecordTypes, StaticsFollow
<1>1. RgbInit => RecordTypes /\ StaticsFollow
  BY RgbAssumption DEF RgbInit, Settings, Colour
<1>2. RecordTypes /\ StaticsFollow /\ [RgbNext]_rgbVars
        => RecordTypes' /\ StaticsFollow'
  <2> SUFFICES ASSUME RecordTypes, StaticsFollow, [RgbNext]_rgbVars
               PROVE  RecordTypes' /\ StaticsFollow'
    OBVIOUS
  <2>1. ASSUME NEW m \in Settings, KeyColour(m)
        PROVE  RecordTypes' /\ StaticsFollow'
    <3>1. actual' \in [Settings -> Nat]
      BY <2>1, RgbAssumption DEF KeyColour
    <3>2. \A n \in Settings \ {m} : actual'[n] = actual[n]
      BY <2>1 DEF KeyColour
    <3>3. bypassed' = bypassed \cup {m} /\ cur' = cur /\ command' = command
      BY <2>1 DEF KeyColour
    <3>4. QED BY <3>1, <3>2, <3>3
  <2>2. ASSUME NEW c \in Sets, Take(c) PROVE RecordTypes' /\ StaticsFollow'
    BY <2>2 DEF Take, rgb
  <2>3. CASE SetColour
    <3>1. CASE UNCHANGED <<actual, cur, bypassed, command>>
      BY <3>1
    <3>2. CASE /\ actual' = [n \in Settings |-> IF n \in Colour THEN Triple[n] ELSE actual[n]]
               /\ cur' = [n \in Settings |-> IF n \in Colour THEN Triple[n] ELSE cur[n]]
               /\ bypassed' = bypassed \ Colour
               /\ command' = command
      BY <3>2, TripleType
    <3>3. QED BY <2>3, <3>1, <3>2 DEF SetColour
  <2>4. CASE SetEffect
    <3>1. command.value["effect"] \in Nat
      BY RgbAssumption DEF Settings
    <3>2. QED BY <2>4, <3>1 DEF SetEffect, Settings
  <2>5. CASE KeyToggle \/ Switch \/ SendReceipt
    BY <2>5 DEF KeyToggle, Switch, SendReceipt, rgb, history
  <2>6. CASE UNCHANGED rgbVars
    BY <2>6 DEF rgbVars, rgb, history
  <2>7. QED BY <2>1, <2>2, <2>3, <2>4, <2>5, <2>6 DEF RgbNext, Handling
<1>3. QED BY <1>1, <1>2, PTL DEF RgbSpec

-----------------------------------------------------------------------------
(***************************************************************************)
(* Ranges.                                                                 *)
(***************************************************************************)
RgbTypes ==
  /\ RecordTypes
  /\ receipt \in [on : BOOLEAN, cur : [Settings -> Nat]]
  /\ on \in BOOLEAN
  /\ keys \in Nat /\ sets \in Nat
  /\ RgbTypeOK

LEMMA TripleInRange ==
  ASSUME RecordTypes, InRange(cur)
  PROVE  \A n \in Colour : Triple[n] \in 0..MaxColour
BY RgbAssumption DEF RecordTypes, InRange, Triple, Clamp, Settings

LEMMA RgbTypesStep ==
  ASSUME RgbTypes, [RgbNext]_rgbVars
  PROVE  RgbTypes'
<1> USE DEF RgbTypes, RecordTypes, RgbTypeOK, InRange
<1>1. ASSUME NEW m \in Settings, KeyColour(m)
      PROVE  RgbTypes'
  <2>1. MaxColour + 1 \in Nat \ {0} /\ Effects \in Nat \ {0}
    BY RgbAssumption
  <2>2. actual[m] + 1 \in Nat
    OBVIOUS
  <2>3. /\ (actual[m] + 1) % (MaxColour + 1) \in 0..MaxColour
        /\ (actual[m] + 1) % Effects \in 0..Effects - 1
    BY <2>1, <2>2, RgbAssumption
  <2>4. actual' \in [Settings -> Nat] /\ InRange(actual)'
    BY <1>1, <2>3, RgbAssumption DEF KeyColour, Settings, Colour
  <2>5. QED BY <1>1, <2>4 DEF KeyColour
<1>2. ASSUME NEW c \in Sets, Take(c) PROVE RgbTypes'
  BY <1>2 DEF Take, rgb
<1>3. CASE SetColour
  <2>0. refused' \subseteq Settings
    BY <1>3 DEF SetColour, Settings
  <2>1. CASE UNCHANGED <<actual, cur, bypassed>>
    BY <1>3, <2>0, <2>1 DEF SetColour
  <2>2. CASE /\ actual' = [n \in Settings |-> IF n \in Colour THEN Triple[n] ELSE actual[n]]
             /\ cur' = [n \in Settings |-> IF n \in Colour THEN Triple[n] ELSE cur[n]]
             /\ bypassed' = bypassed \ Colour
    <3>1. \A n \in Colour : Triple[n] \in 0..MaxColour
      BY TripleInRange
    <3>2. "effect" \in Settings \ Colour /\ Colour \subseteq Settings
      BY DEF Settings, Colour
    <3>3. actual' \in [Settings -> Nat] /\ cur' \in [Settings -> Nat]
      BY <2>2, <3>1, RgbAssumption
    <3>4. InRange(actual)' /\ InRange(cur)'
      BY <2>2, <3>1, <3>2
    <3>5. UNCHANGED <<on, command, receipt, sets, keys>> /\ pc' = "effect"
      BY <1>3 DEF SetColour
    <3>6. QED BY <2>0, <2>2, <3>3, <3>4, <3>5
  <2>3. QED BY <1>3, <2>1, <2>2 DEF SetColour
<1>4. CASE SetEffect
  <2>1. command.value["effect"] \in Nat
    BY RgbAssumption DEF Settings
  <2>0. refused' \subseteq Settings
    BY <1>4 DEF SetEffect, Settings
  <2>2. CASE UNCHANGED <<actual, cur, bypassed>>
    BY <1>4, <2>0, <2>2 DEF SetEffect
  <2>3. CASE /\ command.value["effect"] < Effects
             /\ actual' = [actual EXCEPT !["effect"] = command.value["effect"]]
             /\ cur' = [cur EXCEPT !["effect"] = command.value["effect"]]
             /\ bypassed' = bypassed \ {"effect"}
    BY <1>4, <2>0, <2>1, <2>3, RgbAssumption DEF SetEffect, Settings, Colour
  <2>4. QED BY <1>4, <2>2, <2>3 DEF SetEffect
<1>5. CASE KeyToggle
  BY <1>5 DEF KeyToggle
<1>6. CASE Switch
  <2>1. command.on \in BOOLEAN
    BY RgbAssumption
  <2>2. on' \in BOOLEAN
    BY <1>6, <2>1 DEF Switch
  <2>3. QED BY <1>6, <2>2 DEF Switch, history
<1>7. CASE SendReceipt
  BY <1>7 DEF SendReceipt, rgb, history
<1>8. CASE UNCHANGED rgbVars
  BY <1>8 DEF rgbVars, rgb, history
<1>9. QED BY <1>1, <1>2, <1>3, <1>4, <1>5, <1>6, <1>7, <1>8 DEF RgbNext, Handling

LEMMA RgbInitTypes == RgbInit => RgbTypes
BY RgbAssumption DEF RgbInit, RgbTypes, RecordTypes, RgbTypeOK, InRange, NoReceipt,
   Settings, Colour

(* The ranges the underglow takes and the receipt reports, whatever bytes   *)
(* the host sends: clamped before they reach either.                        *)
THEOREM RgbTypeCorrect == RgbSpec => []RgbTypeOK
<1>1. RgbTypes /\ [RgbNext]_rgbVars => RgbTypes'
  BY RgbTypesStep
<1>2. RgbTypes => RgbTypeOK
  BY DEF RgbTypes
<1>3. QED BY <1>1, <1>2, RgbInitTypes, PTL DEF RgbSpec

-----------------------------------------------------------------------------
(***************************************************************************)
(* What a command has done by the time it stands where it stands, if it    *)
(* was neither disturbed by a key nor refused: the order of its steps in   *)
(* one invariant.                                                          *)
(***************************************************************************)
(* The command in hand, or the latest, is past the step.                    *)
PastColour == pc \in {"effect", "on", "receipt"} \/ (pc = "idle" /\ sets > 0)
PastEffect == pc \in {"on", "receipt"} \/ (pc = "idle" /\ sets > 0)
PastSwitch == pc = "receipt" \/ (pc = "idle" /\ sets > 0)

ColourDone ==
  \A n \in command.fields \cap Colour :
    actual[n] = Clamp(command.value[n]) /\ cur[n] = actual[n]
EffectDone ==
  "effect" \in command.fields =>
    actual["effect"] = command.value["effect"] /\ cur["effect"] = actual["effect"]
SwitchDone == "on" \in command.fields => on = command.on
Receipted == pc = "idle" /\ sets > 0 => receipt = [on |-> on, cur |-> cur]

Progress ==
  quiet /\ refused = {} =>
    /\ PastColour => ColourDone
    /\ PastEffect => EffectDone
    /\ PastSwitch => SwitchDone
    /\ Receipted

LEMMA ProgressStep ==
  ASSUME RgbTypes, Progress, [RgbNext]_rgbVars
  PROVE  Progress'
<1> USE DEF Progress, PastColour, PastEffect, PastSwitch, Receipted
<1> USE DEF ColourDone, EffectDone, SwitchDone
<1>1. ASSUME NEW m \in Settings, KeyColour(m)
      PROVE  Progress'
  BY <1>1 DEF KeyColour
<1>2. CASE KeyToggle
  BY <1>2 DEF KeyToggle
<1>3. ASSUME NEW c \in Sets, Take(c) PROVE Progress'
  BY <1>3 DEF Take
<1>4. CASE SetColour
  <2> SUFFICES ASSUME quiet', refused' = {}
               PROVE  ColourDone'
    BY <1>4 DEF SetColour
  <2>1. CASE command.fields \cap Colour = {}
    BY <1>4, <2>1 DEF SetColour
  <2>2. CASE /\ actual' = [n \in Settings |-> IF n \in Colour THEN Triple[n] ELSE actual[n]]
             /\ cur' = [n \in Settings |-> IF n \in Colour THEN Triple[n] ELSE cur[n]]
    <3>1. \A n \in Colour : n \in Settings
      BY DEF Settings
    <3>2. \A n \in command.fields \cap Colour : Triple[n] = Clamp(command.value[n])
      BY DEF Triple
    <3>3. command' = command
      BY <1>4 DEF SetColour
    <3>4. QED BY <2>2, <3>1, <3>2, <3>3
  <2>3. QED BY <1>4, <2>1, <2>2 DEF SetColour
<1>5. CASE SetEffect
  <2> SUFFICES ASSUME quiet', refused' = {}
               PROVE  ColourDone' /\ EffectDone'
    BY <1>5 DEF SetEffect
  <2>1. ColourDone /\ command' = command
    BY <1>5 DEF SetEffect
  <2>2. CASE "effect" \notin command.fields
    BY <1>5, <2>1, <2>2 DEF SetEffect
  <2>3. CASE /\ actual' = [actual EXCEPT !["effect"] = command.value["effect"]]
             /\ cur' = [cur EXCEPT !["effect"] = command.value["effect"]]
    <3>1. "effect" \in Settings /\ Colour \subseteq Settings /\ "effect" \notin Colour
      BY DEF Settings, Colour
    <3>2. actual \in [Settings -> Nat] /\ cur \in [Settings -> Nat]
      BY DEF RgbTypes, RecordTypes
    <3>3. QED BY <2>1, <2>3, <3>1, <3>2
  <2>4. QED BY <1>5, <2>2, <2>3 DEF SetEffect
<1>6. CASE Switch
  BY <1>6 DEF Switch, history
<1>7. CASE SendReceipt
  BY <1>7 DEF SendReceipt, rgb, history
<1>8. CASE UNCHANGED rgbVars
  BY <1>8 DEF rgbVars, rgb, history
<1>9. QED BY <1>1, <1>2, <1>3, <1>4, <1>5, <1>6, <1>7, <1>8 DEF RgbNext, Handling

LEMMA InitProgress == RgbInit => RgbTypes /\ Progress
<1>1. RgbInit => Progress
  BY DEF RgbInit, Progress, PastColour, PastEffect, PastSwitch, Receipted
<1>2. QED BY <1>1, RgbInitTypes

(* A set is absolute: whatever state it finds, an undisturbed and unrefused *)
(* command ends with every setting it names at its value, and the receipt   *)
(* says so.                                                                 *)
THEOREM AbsoluteSetInvariant == RgbSpec => []AbsoluteSet
<1>1. RgbTypes /\ Progress /\ [RgbNext]_rgbVars => RgbTypes' /\ Progress'
  BY RgbTypesStep, ProgressStep
<1>2. RgbTypes /\ Progress => AbsoluteSet
  BY DEF Progress, PastColour, PastEffect, PastSwitch, ColourDone, EffectDone, SwitchDone,
     Receipted, AbsoluteSet, Named, Settings, Colour
<1>3. QED BY <1>1, <1>2, InitProgress, PTL DEF RgbSpec

(***************************************************************************)
(* What a command has set by the time it stands where it stands, disturbed *)
(* and refused in part or not: whatever of it was not refused, and no key  *)
(* has changed since, is in place.                                         *)
(***************************************************************************)
Kept(part) ==
  \A n \in (command.fields \cap part) \ (refused \cup bypassed) : actual[n] = Named(command, n)

InPlace ==
  /\ pc \in {"effect", "on"} => Kept(Colour)
  /\ pc = "on" => Kept({"effect"})

LEMMA InPlaceStep ==
  ASSUME RgbTypes, InPlace, [RgbNext]_rgbVars
  PROVE  InPlace'
<1> USE DEF InPlace, Kept
<1>1. ASSUME NEW m \in Settings, KeyColour(m)
      PROVE  InPlace'
  <2>1. actual \in [Settings -> Nat]
    BY DEF RgbTypes, RecordTypes
  <2>2. \A n \in Settings \ bypassed' : actual'[n] = actual[n]
    BY <1>1, <2>1 DEF KeyColour
  <2>3. /\ UNCHANGED <<pc, command, refused>>
        /\ bypassed \subseteq bypassed'
    BY <1>1 DEF KeyColour
  <2>4. \A n : Named(command, n)' = Named(command, n)
    BY <2>3 DEF Named, Clamp
  <2>5. Colour \subseteq Settings /\ {"effect"} \subseteq Settings
    BY DEF Settings
  <2>6. QED BY <2>2, <2>3, <2>4, <2>5
<1>2. CASE KeyToggle
  BY <1>2 DEF KeyToggle, Named, Clamp
<1>3. ASSUME NEW c \in Sets, Take(c) PROVE InPlace'
  BY <1>3 DEF Take
<1>4. CASE SetColour
  <2> SUFFICES Kept(Colour)'
    BY <1>4 DEF SetColour
  <2>1. CASE command.fields \cap Colour = {}
    BY <1>4, <2>1 DEF SetColour
  <2>2. CASE refused' = Colour
    BY <2>2
  <2>3. CASE actual' = [n \in Settings |-> IF n \in Colour THEN Triple[n] ELSE actual[n]]
    <3>1. command' = command
      BY <1>4 DEF SetColour
    <3>2. \A n \in command.fields \cap Colour : Triple[n] = Named(command, n)
      BY DEF Triple, Named
    <3>3. \A n \in Colour : actual'[n] = Triple[n]
      BY <2>3 DEF Settings
    <3>4. \A n : Named(command, n)' = Named(command, n)
      BY <3>1 DEF Named, Clamp
    <3>5. QED BY <3>1, <3>2, <3>3, <3>4
  <2>4. QED BY <1>4, <2>1, <2>2, <2>3 DEF SetColour
<1>5. CASE SetEffect
  <2>1. pc' = "on" /\ command' = command /\ Kept(Colour)
    BY <1>5 DEF SetEffect
  <2>2. \A n : Named(command, n)' = Named(command, n)
    BY <2>1 DEF Named, Clamp
  <2>3. "effect" \notin Colour /\ "effect" \in Settings /\ Colour \subseteq Settings
    BY DEF Colour, Settings
  <2>4. actual \in [Settings -> Nat]
    BY DEF RgbTypes, RecordTypes
  <2>5. Kept(Colour)'
    <3>1. \A n \in Colour : actual'[n] = actual[n] /\ (n \in bypassed' <=> n \in bypassed)
      BY <1>5, <2>3, <2>4 DEF SetEffect
    <3>2. refused \subseteq refused'
      BY <1>5 DEF SetEffect
    <3>3. QED BY <2>1, <2>2, <3>1, <3>2
  <2>6. Kept({"effect"})'
    <3>1. CASE "effect" \notin command.fields
      BY <2>1, <3>1
    <3>2. CASE "effect" \in refused'
      BY <3>2
    <3>3. CASE actual' = [actual EXCEPT !["effect"] = command.value["effect"]]
      BY <2>1, <2>3, <2>4, <3>3 DEF Named
    <3>4. QED BY <1>5, <3>1, <3>2, <3>3 DEF SetEffect
  <2>7. QED BY <2>1, <2>5, <2>6
<1>6. CASE Switch \/ SendReceipt
  BY <1>6 DEF Switch, SendReceipt
<1>7. CASE UNCHANGED rgbVars
  BY <1>7 DEF rgbVars, rgb, history, Named, Clamp
<1>8. QED BY <1>1, <1>2, <1>3, <1>4, <1>5, <1>6, <1>7 DEF RgbNext, Handling

(* When a command lights the underglow, every colour component and the      *)
(* effect it names are in place, except what was refused or what a key has  *)
(* changed since: only Switch lights it for the host, and it comes last.    *)
THEOREM LightsUpCorrectly == RgbSpec => LightsUpAsNamed
<1>1. RgbInit => RgbTypes /\ InPlace
  BY RgbInitTypes DEF RgbInit, InPlace
<1>2. RgbTypes /\ InPlace /\ [RgbNext]_rgbVars => RgbTypes' /\ InPlace'
  BY RgbTypesStep, InPlaceStep
<1>3. ASSUME RgbTypes, InPlace, RgbNext, ~on, on', keys' = keys,
             NEW n \in (command'.fields \cap Settings) \ (refused' \cup bypassed')
      PROVE  actual'[n] = Named(command', n)
  <2>1. ~KeyToggle
    <3>1. keys' # keys + 1
      BY <1>3 DEF RgbTypes
    <3>2. QED BY <3>1 DEF KeyToggle
  <2>2. Switch
    BY <1>3, <2>1 DEF RgbNext, Handling, KeyColour, Take, SetColour, SetEffect, SendReceipt,
       rgb
  <2>3. pc = "on" /\ UNCHANGED <<actual, command, refused, bypassed>>
    BY <2>2 DEF Switch, history
  <2>4. QED BY <1>3, <2>3 DEF InPlace, Kept, Settings
<1>4. RgbTypes /\ InPlace /\ [RgbNext]_rgbVars
        => [~on /\ on' /\ keys' = keys =>
              \A n \in (command'.fields \cap Settings) \ (refused' \cup bypassed') :
                actual'[n] = Named(command', n)]_rgbVars
  BY <1>3
<1>5. QED BY <1>1, <1>2, <1>4, PTL DEF RgbSpec, LightsUpAsNamed

-----------------------------------------------------------------------------
(***************************************************************************)
(* What a command does not name.                                           *)
(***************************************************************************)
Untouched ==
  quiet =>
    /\ pc = "colour" => actual = before /\ stale = bypassed
    /\ pc = "effect" =>
         \A n \in Settings \ (command.fields \cup stale) : actual[n] = before[n]
    /\ pc \in {"on", "receipt"} =>
         \A n \in Settings \ (command.fields \cup stale) : actual[n] = before[n]

LEMMA UntouchedStep ==
  ASSUME RgbTypes, StaticsFollow, Untouched, [RgbNext]_rgbVars
  PROVE  Untouched'
<1> USE DEF Untouched
<1>1. ASSUME NEW m \in Settings, KeyColour(m)
      PROVE  Untouched'
  BY <1>1 DEF KeyColour
<1>2. CASE KeyToggle
  BY <1>2 DEF KeyToggle
<1>3. ASSUME NEW c \in Sets, Take(c) PROVE Untouched'
  BY <1>3 DEF Take, rgb
<1>4. CASE SetColour
  <2> SUFFICES ASSUME quiet', NEW n \in Settings \ (command.fields \cup stale)
               PROVE  actual'[n] = before[n]
    BY <1>4 DEF SetColour
  <2>1. actual[n] = before[n] /\ n \notin bypassed
    BY <1>4 DEF SetColour
  <2>2. CASE actual' = actual
    BY <2>1, <2>2
  <2>3. CASE actual' = [k \in Settings |-> IF k \in Colour THEN Triple[k] ELSE actual[k]]
    <3>1. n \in Colour => Triple[n] = cur[n]
      BY DEF Triple
    <3>2. cur[n] = actual[n]
      BY <2>1 DEF StaticsFollow
    <3>3. QED BY <2>1, <2>3, <3>1, <3>2
  <2>4. QED BY <1>4, <2>2, <2>3 DEF SetColour
<1>5. CASE SetEffect
  <2> SUFFICES ASSUME quiet', NEW n \in Settings \ (command.fields \cup stale)
               PROVE  actual'[n] = before[n]
    BY <1>5 DEF SetEffect
  <2>1. actual[n] = before[n]
    BY <1>5 DEF SetEffect
  <2>2. actual \in [Settings -> Nat]
    BY DEF RgbTypes, RecordTypes
  <2>3. QED BY <1>5, <2>1, <2>2 DEF SetEffect
<1>6. CASE Switch
  BY <1>6 DEF Switch, history
<1>7. CASE SendReceipt
  BY <1>7 DEF SendReceipt, rgb, history
<1>8. CASE UNCHANGED rgbVars
  BY <1>8 DEF rgbVars, rgb, history
<1>9. QED BY <1>1, <1>2, <1>3, <1>4, <1>5, <1>6, <1>7, <1>8 DEF RgbNext, Handling

(* A command leaves alone what it does not name, as long as the record of   *)
(* that setting was good when the command came: this is all that writing    *)
(* back the record costs.                                                   *)
THEOREM AbsentKeptInvariant == RgbSpec => []AbsentKeptUnlessBypassed
<1>1. RgbInit => Untouched
  BY DEF RgbInit, Untouched
<1>2. RgbTypes /\ StaticsFollow /\ Untouched /\ [RgbNext]_rgbVars => RgbTypes' /\ Untouched'
  BY RgbTypesStep, UntouchedStep
<1>3. Untouched => AbsentKeptUnlessBypassed
  BY DEF Untouched, AbsentKeptUnlessBypassed, Handled
<1>4. QED BY <1>1, <1>2, <1>3, InitProgress, StaticsFollowInvariant, PTL DEF RgbSpec
=============================================================================
