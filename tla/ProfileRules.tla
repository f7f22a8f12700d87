---------------------------- MODULE ProfileRules ----------------------------
(***************************************************************************)
(* What makes a profile valid.  The rules exist three times: in the server *)
(* (ProfileV2::validate), in the page of Controls Studio                   *)
(* (profile-model.js), which lets a user save only what it finds valid,    *)
(* and in the construction of the control plan a session starts with.      *)
(*                                                                         *)
(* Names and keys are values with a function that trims, or canonicalises, *)
(* them.  Coordinates are integers from 0 to One, along one axis.          *)
(***************************************************************************)
EXTENDS Integers, Sequences, Functions

CONSTANTS
  TrimName,     \* names -> names without surrounding space
  Blank,        \* the empty name
  BaseName,     \* "base"
  Canonical,    \* spellings of keys and buttons -> their canonical names
  KeyNames,     \* the canonical names of supported keys
  Ctrl, Esc, C, \* three of them
  ButtonNames,  \* the supported buttons
  None,         \* no layer, no modifier, no toggle key, no multiplier
  One,          \* the coordinate 1.0; sensitivities are in ten-thousandths
  MaxLayers,    \* 64
  Sides,        \* lengths of the sides of screens
  MaxMilli      \* u32::MAX, the largest sensitivity in thousandths

ASSUME RuleConstants ==
  /\ {Ctrl, Esc, C} \subseteq KeyNames
  /\ KeyNames \cup ButtonNames \subseteq DOMAIN Canonical
  /\ None \notin DOMAIN TrimName \cup DOMAIN Canonical
  /\ One \in Nat \ {0} /\ One % 10 = 0     \* 0.1 is a coordinate
  /\ MaxLayers \in Nat /\ Sides \subseteq Nat \ {0}
  /\ MaxMilli \in Nat /\ 1000 <= MaxMilli

\* A profile: named, layers [name, mode, key] and bindings [name, layer, modifier,
\* input, action].  An input is [kind, on], `on` the spelled keys or the button; an
\* action is [kind, n, toggle, steps], n its numbers by field.

AllBindings(d) == {d.bindings[b] : b \in DOMAIN d.bindings}
LayerNames(d) == {d.layers[l].name : l \in DOMAIN d.layers}

InputSet(b) == {Canonical[b.input.on[k]] : k \in DOMAIN b.input.on}
InputKeys(b) == IF b.input.kind = "mouse_button" THEN {} ELSE InputSet(b)

Words == DOMAIN TrimName
Spellings == DOMAIN Canonical

Layers == [name : Words, mode : {"hold", "toggle"}, key : Spellings]

Triggers == [kind : {"key", "key_cluster", "mouse_button"}, on : Seq(Spellings)]
              \cup [kind : {"mouse_move"}, on : {<<>>}]

Sticks == [center : Int, radius : Int, dead_zone : Int, reaffirm_ms : Int]
Aims == [x : Int, w : Int, sensitivity : Int, threshold : Int, ads : Int \cup {None},
         reaffirm_ms : Int]
Toggles == Spellings \cup {None}

LeafActions ==
  [kind : {"tap", "hold"}, n : [point : Int], toggle : Toggles, steps : {<<>>}]
    \cup [kind : {"virtual_joystick"}, n : Sticks, toggle : Toggles, steps : {<<>>}]
    \cup [kind : {"mouse_aim"}, n : Aims, toggle : Toggles, steps : {<<>>}]
Macros == [kind : {"macro"}, n : {<<>>}, toggle : Toggles, steps : Seq(LeafActions)]

Bindings == [name : Words, layer : Words \cup {None}, modifier : Spellings \cup {None},
             input : Triggers, action : LeafActions \cup Macros]

Documents == [named : BOOLEAN, layers : Seq(Layers), bindings : Seq(Bindings)]

-----------------------------------------------------------------------------
(* ProfileV2::validate *)

RustLayers(d) ==
  /\ \A l \in DOMAIN d.layers : TrimName[d.layers[l].name] \notin {Blank, BaseName}
  /\ IsInjective([l \in DOMAIN d.layers |-> TrimName[d.layers[l].name]])
  /\ Len(d.layers) <= MaxLayers
  /\ \A l \in DOMAIN d.layers : Canonical[d.layers[l].key] \in KeyNames
  /\ IsInjective([l \in DOMAIN d.layers |-> Canonical[d.layers[l].key]])

RustActivationKeys(d) == {Canonical[d.layers[l].key] : l \in DOMAIN d.layers}

RustInput(b) ==
  /\ b.input.kind \in {"key", "key_cluster"} => InputSet(b) \subseteq KeyNames
  /\ b.input.kind = "mouse_button" => InputSet(b) \subseteq ButtonNames

Normalized(x) == x \in 0 .. One

RustStick(n) ==
  /\ Normalized(n.center)
  /\ n.radius > 0 /\ n.radius <= One
  /\ n.dead_zone >= 0 /\ n.dead_zone < One /\ n.dead_zone < n.radius
  /\ n.reaffirm_ms # 0

RustAim(n, toggle) ==
  /\ Normalized(n.x) /\ n.w > 0 /\ n.x + n.w <= One
  /\ n.sensitivity > 0
  /\ toggle # None => Canonical[toggle] \in KeyNames
  /\ 10 * n.threshold >= One /\ n.threshold <= One
  /\ n.ads # None => 10 * n.ads >= One /\ n.ads <= One
  /\ n.reaffirm_ms # 0

RustLeaf(a) ==
  \/ a.kind \in {"tap", "hold"} /\ Normalized(a.n.point)
  \/ a.kind = "virtual_joystick" /\ RustStick(a.n)
  \/ a.kind = "mouse_aim" /\ RustAim(a.n, a.toggle)

\* validate_action; a macro in a macro is not looked at here
RustAction(a) ==
  IF a.kind = "macro" THEN a.steps # <<>> /\ \A s \in DOMAIN a.steps : RustLeaf(a.steps[s])
                      ELSE RustLeaf(a)

RustCompatible(b) ==
  \/ b.action.kind \in {"tap", "hold"} /\ b.input.kind \in {"key", "mouse_button"}
  \/ b.action.kind = "virtual_joystick" /\ b.input.kind = "key_cluster"
  \/ b.action.kind = "mouse_aim" /\ b.input.kind = "mouse_move"
  \/ b.action.kind = "macro"

RustModifier(b) ==
  b.modifier # None =>
    LET m == Canonical[b.modifier] IN
    /\ m \in KeyNames /\ m \notin InputKeys(b)
    /\ b.input.kind # "mouse_move"
    /\ m = Ctrl => InputKeys(b) \cap {Esc, C} = {}

\* an input drives one binding of a layer with a given modifier
RustScope(b) == <<b.layer, IF b.modifier = None THEN None ELSE Canonical[b.modifier],
                  b.input.kind = "mouse_button">>

RustAccepts(d) ==
  /\ d.named /\ RustLayers(d)
  /\ IsInjective([b \in DOMAIN d.bindings |-> TrimName[d.bindings[b].name]])
  /\ \A b \in AllBindings(d) :
       /\ TrimName[b.name] # Blank
       /\ RustInput(b) /\ RustAction(b.action) /\ RustCompatible(b) /\ RustModifier(b)
       /\ b.layer \in {None} \cup LayerNames(d)
       /\ b.layer = None /\ b.modifier = None => InputKeys(b) \cap RustActivationKeys(d) = {}
       /\ \A l \in DOMAIN d.layers :
            d.layers[l].name = b.layer => Canonical[d.layers[l].key] \notin InputKeys(b)
  /\ \A i, j \in DOMAIN d.bindings :
       i # j /\ RustScope(d.bindings[i]) = RustScope(d.bindings[j]) =>
         InputSet(d.bindings[i]) \cap InputSet(d.bindings[j]) = {}

-----------------------------------------------------------------------------
(* profile-model.js: the errors the page lists *)

Report(wrong, error) == IF wrong THEN {error} ELSE {}

JsLayer(d, l) ==
  LET name == TrimName[d.layers[l].name]
      key == Canonical[d.layers[l].key]
      earlier == 1 .. l - 1
  IN  Report(name = Blank, "layer name empty")
        \cup Report(name # Blank /\ \E m \in earlier : TrimName[d.layers[m].name] = name,
                    "layer name duplicate")
        \cup Report(name = BaseName, "layer name reserved")
        \cup Report(key \notin KeyNames, "activation unsupported")
        \cup Report(\E m \in earlier : Canonical[d.layers[m].key] = key, "activation duplicate")

JsLayerErrors(d) == UNION {JsLayer(d, l) : l \in DOMAIN d.layers}

JsCountErrors(d) == IF Len(d.layers) > MaxLayers THEN {"too many layers"} ELSE {}

JsInputErrors(input) ==
  Report(\E k \in DOMAIN input.on :
           \/ input.kind \in {"key", "key_cluster"} /\ Canonical[input.on[k]] \notin KeyNames
           \/ input.kind = "mouse_button" /\ Canonical[input.on[k]] \notin ButtonNames,
         "input unsupported")

FiniteWithin(x, low, high) == low <= x /\ x <= high

JsStickErrors(n) ==
  Report(~FiniteWithin(n.center, 0, One), "center")
    \cup Report(n.radius <= 0 \/ n.radius > One, "radius")
    \cup Report(n.dead_zone \notin 0 .. One - 1 \/ n.dead_zone >= n.radius, "dead zone")
    \cup Report(n.reaffirm_ms = 0, "reaffirm")

JsAimErrors(n, toggle) ==
  Report(~FiniteWithin(n.x, 0, One) \/ n.w <= 0 \/ n.x + n.w > One, "region")
    \cup Report(n.sensitivity <= 0, "sensitivity")
    \cup Report(toggle # None /\ Canonical[toggle] \notin KeyNames, "toggle")
    \cup Report(~FiniteWithin(10 * n.threshold, One, 10 * One), "threshold")
    \cup Report(n.ads # None /\ ~FiniteWithin(10 * n.ads, One, 10 * One), "ads")
    \cup Report(n.reaffirm_ms = 0, "reaffirm")

JsLeafErrors(a) ==
  IF a.kind \in {"tap", "hold"} THEN Report(~FiniteWithin(a.n.point, 0, One), "point")
  ELSE IF a.kind = "virtual_joystick" THEN JsStickErrors(a.n)
  ELSE JsAimErrors(a.n, a.toggle)

JsActionErrors(a) ==
  IF a.kind = "macro"
  THEN Report(a.steps = <<>>, "macro empty")
         \cup UNION {JsLeafErrors(a.steps[s]) : s \in DOMAIN a.steps}
  ELSE JsLeafErrors(a)

JsCompatibilityErrors(b) ==
  Report(\/ b.action.kind \in {"tap", "hold"} /\ b.input.kind \notin {"key", "mouse_button"}
         \/ b.action.kind = "virtual_joystick" /\ b.input.kind # "key_cluster"
         \/ b.action.kind = "mouse_aim" /\ b.input.kind # "mouse_move", "pairing")

JsModifierErrors(b) ==
  IF b.modifier = None THEN {}
  ELSE LET m == Canonical[b.modifier] IN
       Report(m \notin KeyNames, "modifier unsupported")
         \cup Report(/\ b.input.kind \in {"key", "key_cluster"}
                     /\ \E k \in DOMAIN b.input.on : Canonical[b.input.on[k]] = m,
                     "modifier is input")
         \cup Report(b.input.kind = "mouse_move", "modifier on mouse")
         \cup Report(m = Ctrl /\ \E key \in InputKeys(b) : key = Esc \/ key = C, "exit hotkey")

\* mutant: a modifier does not make a scope of its own
JsScopeKeysAnyModifier(b) ==
  {<<b.layer, b.input.kind = "mouse_button", x>> : x \in InputSet(b)}

\* the keys of scopedInputKeys that a binding claims
JsScopeKeys(b) ==
  {<<b.layer, IF b.modifier = None THEN None ELSE Canonical[b.modifier],
     b.input.kind = "mouse_button", x>> : x \in InputSet(b)}

\* the keys that activate one of some layers
JsActivating(d, layers) == {Canonical[d.layers[l].key] : l \in layers}

JsBindingErrors(d, i) ==
  LET b == d.bindings[i]
      earlier == 1 .. i - 1
      own == {l \in DOMAIN d.layers : d.layers[l].name = b.layer}
  IN  JsInputErrors(b.input) \cup JsActionErrors(b.action)
        \cup JsCompatibilityErrors(b) \cup JsModifierErrors(b)
        \cup Report(\/ TrimName[b.name] = Blank
                    \/ \E j \in earlier : TrimName[d.bindings[j].name] = TrimName[b.name],
                    "binding name")
        \cup Report(b.layer # None /\ b.layer \notin LayerNames(d), "unknown layer")
        \cup Report(/\ b.layer = None /\ b.modifier = None
                    /\ JsActivating(d, DOMAIN d.layers) \cap InputKeys(b) # {},
                    "activation key in base")
        \cup Report(b.layer # None /\ JsActivating(d, own) \cap InputKeys(b) # {},
                    "activation key in layer")
        \cup Report(\E j \in earlier : JsScopeKeys(d.bindings[j]) \cap JsScopeKeys(b) # {},
                    "input taken")

JsControlErrors(d) == UNION {JsBindingErrors(d, i) : i \in DOMAIN d.bindings}

JsErrors(d) ==
  Report(~d.named, "name") \cup JsLayerErrors(d) \cup JsCountErrors(d) \cup JsControlErrors(d)

JsAccepts(d) == JsErrors(d) = {}

-----------------------------------------------------------------------------
(* RuntimeControlPlan::from_profile_v2 *)

Rounded(num, den) == (2 * num + den) \div (2 * den)

Larger(a, b) == IF a > b THEN a ELSE b
Smaller(a, b) == IF a < b THEN a ELSE b

\* materialize_axis
Axis(x, side) == Smaller(Rounded(Smaller(Larger(x, 0), One) * (side - 1), One), side - 1)

Radius(r, side) == Larger(Rounded(Smaller(r, One) * side, One), 1)

\* materialize_dead_zone, r being the radius in pixels
DeadZone(z, r, side) ==
  IF z <= 0 \/ r <= 1 THEN 0 ELSE Smaller(Rounded(z * side, One), r - 1)

\* materialize_mouse_sensitivity, in thousandths
SensitivityFits(num, den) == Rounded(num, den) \in 1 .. MaxMilli

StickFits(n, side) ==
  LET r == Radius(n.radius, side) IN
  Axis(n.center, side) < side /\ DeadZone(n.dead_zone, r, side) < r

AimFits(n, side) ==
  LET first == Axis(n.x, side)
      last == Axis(n.x + n.w, side)
      origin == first + ((last - first) \div 2)
  IN  /\ first <= origin /\ origin <= last /\ last < side
      /\ SensitivityFits(n.sensitivity, 10)
      /\ n.ads # None => SensitivityFits(1000 * n.ads, One)

\* VirtualJoystick::new_with_dead_zone, MouseAim::new and MouseAimRegion::validate
Fits(a, side) ==
  \/ a.kind \in {"tap", "hold"} /\ Axis(a.n.point, side) < side
  \/ a.kind = "virtual_joystick" /\ StickFits(a.n, side)
  \/ a.kind = "mouse_aim" /\ AimFits(a.n, side)

\* every `expect` of the construction is met, every layer found, every action supported
PlanBuilds(d, side) ==
  /\ \A l \in DOMAIN d.layers : Canonical[d.layers[l].key] \in KeyNames
  /\ \A b \in AllBindings(d) :
       /\ b.layer \in {None} \cup LayerNames(d)
       /\ b.modifier # None => Canonical[b.modifier] \in KeyNames
       /\ Fits(b.action, side)

=============================================================================
