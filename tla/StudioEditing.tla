--------------------------- MODULE StudioEditing ---------------------------
(***************************************************************************)
(* Editing a profile in Controls Studio: every edit of the page, dragging  *)
(* included, on a document that the rules of ProfileRules judge.  Undo and *)
(* redo lead to documents that were on the page before, so that leaving    *)
(* them out leaves out no document.                                        *)
(***************************************************************************)
EXTENDS ProfileRules, SequencesExt

CONSTANTS
  Starts,          \* profiles that an editor opens (the server has validated them)
  TypedNames,      \* names a user types, trimmed
  TypedKeys,       \* supported keys a user presses
  Typed,           \* numbers a user types; MouseSpots, where a pointer is dragged to
  MouseSpots,
  DefaultLayers,   \* "layer", "layer_2", ...
  ActivationKeys,  \* the keys suggested for a new layer, in order
  Default,         \* kind of action -> the control that is added
  DefaultInput,    \* kind of input -> the input that is selected
  Copies,          \* names of copies, in order
  Grid,            \* the positions a drag snaps to are its multiples
  MaxEdits

\* an aim has a sensitivity that the plan can represent
Representable(b) == b.action.kind = "mouse_aim" => SensitivityFits(b.action.n.sensitivity, 10)

\* Documents are of the types the page reads and writes.  Sensitivities are the one
\* number for which the validators take more than a plan can hold: the profiles that are
\* opened and the numbers that are typed are within its range.
ASSUME EditingConstants ==
  /\ Starts \subseteq Documents /\ \A d \in Starts : \A b \in AllBindings(d) : Representable(b)
  /\ TypedNames \subseteq Words /\ \A name \in TypedNames : TrimName[name] = name
  /\ TypedKeys \subseteq KeyNames /\ \A key \in TypedKeys : Canonical[key] = key
  /\ Typed \subseteq Int /\ \A v \in Typed : Rounded(v, 10) <= MaxMilli
  /\ MouseSpots \subseteq Int
  /\ DefaultLayers \in Seq(Words \ {Blank, BaseName})
  /\ \A i \in DOMAIN DefaultLayers : TrimName[DefaultLayers[i]] = DefaultLayers[i]
  /\ ActivationKeys \in Seq(KeyNames) /\ ActivationKeys # <<>>
  /\ \A i \in DOMAIN ActivationKeys : Canonical[ActivationKeys[i]] = ActivationKeys[i]
  /\ \A kind \in DOMAIN Default : Default[kind] \in Bindings /\ Representable(Default[kind])
  /\ DefaultInput \in [{"key", "mouse_button"} -> Triggers]
  /\ Copies \in Seq(Words)
  /\ Grid \in Nat \ {0} /\ MaxEdits \in Nat

NoDrag == [on |-> 0, resize |-> FALSE]

VARIABLES
  doc,      \* state.profile
  drag,     \* state.drag
  edits     \* the number of edits so far

editVars == <<doc, drag, edits>>

Opened(d) == doc = d /\ drag = NoDrag /\ edits = 0

\* mutate, which remembers the profile for undo first
Commit(d) ==
  /\ drag = NoDrag /\ edits < MaxEdits
  /\ doc' = d
  /\ edits' = edits + 1
  /\ UNCHANGED drag

-----------------------------------------------------------------------------
(* Layers *)

Selectable == {i \in DOMAIN doc.bindings : doc.bindings[i].action.kind # "macro"}

Moved(d, from, to) ==
  [d EXCEPT !.bindings =
     [i \in DOMAIN @ |-> IF @[i].layer = from THEN [@[i] EXCEPT !.layer = to] ELSE @[i]]]

\* mutant: only the exact name of another layer is refused
RenameUntrimmed(d, previous, next) ==
  /\ next \notin {Blank, BaseName}
  /\ \A l \in DOMAIN d.layers : d.layers[l].name # next

\* layerRenameError
RenameAllowed(d, previous, next) ==
  /\ next \notin {Blank, BaseName}
  /\ \A l \in DOMAIN d.layers :
       d.layers[l].name # previous => TrimName[d.layers[l].name] # next

RenameLayer(l, next) ==
  LET previous == doc.layers[l].name IN
  /\ RenameAllowed(doc, previous, next)
  /\ Commit(Moved([doc EXCEPT !.layers[l].name = next], previous, next))

LayerMode(l, mode) == Commit([doc EXCEPT !.layers[l].mode = mode])

LayerKey(l, key) == Commit([doc EXCEPT !.layers[l].key = key])

DeleteLayer(l) ==
  Commit(Moved([doc EXCEPT !.layers = RemoveAt(@, l)], doc.layers[l].name, None))

\* the first of some names that is not taken: a set of at most one name, because an
\* instance offers only so many
FirstFree(names, taken) ==
  {names[i] : i \in {i \in DOMAIN names :
     names[i] \notin taken /\ \A j \in 1 .. i - 1 : names[j] \in taken}}

\* the keys of layers, and of plain base bindings
UsedKeys(d) ==
  {Canonical[d.layers[l].key] : l \in DOMAIN d.layers}
    \cup UNION {InputKeys(b) : b \in {c \in AllBindings(d) : c.layer = None /\ c.modifier = None}}

FreeKeys(d) == FirstFree(ActivationKeys, UsedKeys(d))

\* availableActivationKey
SuggestedKeys(d) == IF FreeKeys(d) = {} THEN {ActivationKeys[1]} ELSE FreeKeys(d)

AddLayer ==
  /\ Len(doc.layers) < MaxLayers
  /\ \E name \in FirstFree(DefaultLayers, LayerNames(doc)), key \in SuggestedKeys(doc) :
       Commit([doc EXCEPT !.layers = Append(@, [name |-> name, mode |-> "hold", key |-> key])])

-----------------------------------------------------------------------------
(* The inspector of a control *)

Binding(i) == doc.bindings[i]
EditBinding(i, b) == Commit([doc EXCEPT !.bindings[i] = b])

RenameBinding(i, name) == EditBinding(i, [Binding(i) EXCEPT !.name = name])

BindingLayer(i, layer) ==
  /\ Binding(i).input.kind # "mouse_move"
  /\ EditBinding(i, [Binding(i) EXCEPT !.layer = layer])

BindingModifier(i, key) ==
  /\ Binding(i).input.kind # "mouse_move"
  /\ EditBinding(i, [Binding(i) EXCEPT !.modifier = key])

ClearRouting(i) ==
  /\ Binding(i).input.kind = "mouse_move"
  /\ Binding(i).layer # None \/ Binding(i).modifier # None
  /\ EditBinding(i, [Binding(i) EXCEPT !.layer = None, !.modifier = None])

\* the selection of an input is locked for joysticks and aims
InputKind(i, kind) ==
  /\ Binding(i).action.kind \in {"tap", "hold"}
  /\ Binding(i).input.kind # kind
  /\ EditBinding(i, [Binding(i) EXCEPT !.input = DefaultInput[kind]])

InputKey(i, k, key) ==
  /\ Binding(i).input.kind \in {"key", "key_cluster"}
  /\ EditBinding(i, [Binding(i) EXCEPT !.input.on[k] = key])

MouseButton(i, button) ==
  /\ Binding(i).input.kind = "mouse_button"
  /\ EditBinding(i, [Binding(i) EXCEPT !.input.on[1] = button])

AimToggle(i, key) ==
  /\ Binding(i).action.kind = "mouse_aim"
  /\ EditBinding(i, [Binding(i) EXCEPT !.action.toggle = key])

Within(v, low, high) == Smaller(high, Larger(v, low))

\* the setters of wireInspector
TypedNumber(n, field, v) ==
  CASE field \in {"point", "center"} -> [n EXCEPT ![field] = Within(v, 0, One)]
    [] field = "radius" ->
         LET r == Within(v, 1, One) IN [n EXCEPT !.radius = r, !.dead_zone = Smaller(@, r - 1)]
    [] field = "dead_zone" -> [n EXCEPT !.dead_zone = Within(v, 0, Larger(0, n.radius - 1))]
    [] field = "reaffirm_ms" -> [n EXCEPT !.reaffirm_ms = Larger(1, v)]
    [] field = "x" -> [n EXCEPT !.x = Within(v, 0, One - n.w)]
    [] field = "w" -> [n EXCEPT !.w = Within(v, 1, One - n.x)]
    [] field = "sensitivity" -> [n EXCEPT !.sensitivity = Larger(100, v)]
    [] OTHER -> [n EXCEPT ![field] = Within(v, One \div 10, One)]

TypeNumber(i, field, v) ==
  /\ field \in DOMAIN Binding(i).action.n
  /\ EditBinding(i, [Binding(i) EXCEPT !.action.n = TypedNumber(@, field, v)])

-----------------------------------------------------------------------------
(* Controls *)

BindingNames(d) == {b.name : b \in AllBindings(d)}

AddControl(kind, layer) ==
  \E name \in FirstFree(<<Default[kind].name>> \o Copies, BindingNames(doc)) :
    Commit([doc EXCEPT !.bindings = Append(@,
      [Default[kind] EXCEPT !.name = name,
                            !.layer = IF kind = "mouse_aim" THEN None ELSE layer])])

DeleteSelected(i) == Commit([doc EXCEPT !.bindings = RemoveAt(@, i)])

Beside(n) ==
  CASE "point" \in DOMAIN n -> [n EXCEPT !.point = Within(@ + One \div 40, 0, One)]
    [] "center" \in DOMAIN n -> [n EXCEPT !.center = Within(@ + One \div 40, 0, One)]
    [] "w" \in DOMAIN n -> [n EXCEPT !.x = Within(@ + One \div 50, 0, One - n.w)]
    [] OTHER -> n

DuplicateSelected(i) ==
  \E name \in FirstFree(Copies, BindingNames(doc)) :
    LET copy == [Binding(i) EXCEPT !.name = name, !.action.n = Beside(@)]
    IN  Commit([doc EXCEPT !.bindings = InsertAt(@, i + 1, copy)])

-----------------------------------------------------------------------------
(* Dragging *)

Snapped(v) == Within(((2 * v + Grid) \div (2 * Grid)) * Grid, 0, One)

BeginDrag(i, resize) ==
  /\ drag = NoDrag /\ edits < MaxEdits
  /\ resize => Binding(i).action.kind \in {"virtual_joystick", "mouse_aim"}
  /\ drag' = [on |-> i, resize |-> resize]
  /\ UNCHANGED <<doc, edits>>

\* moveDrag; v is where the pointer is, or how far it is from a joystick's centre
Dragged(n, resize, v) ==
  CASE "point" \in DOMAIN n -> [n EXCEPT !.point = Snapped(v)]
    [] "center" \in DOMAIN n /\ ~resize -> [n EXCEPT !.center = Snapped(v)]
    [] "center" \in DOMAIN n /\ resize ->
         LET r == Within(v, One \div 100, (45 * One) \div 100) IN
         [n EXCEPT !.radius = r, !.dead_zone = Smaller(@, r - 1)]
    [] "w" \in DOMAIN n /\ ~resize -> [n EXCEPT !.x = Snapped(Within(v, 0, One - n.w))]
    [] OTHER -> [n EXCEPT !.w = Snapped(Within(v - n.x, One \div 20, One - n.x))]

MoveDrag(v) ==
  /\ drag # NoDrag
  /\ doc' = [doc EXCEPT !.bindings[drag.on].action.n = Dragged(@, drag.resize, v)]
  /\ UNCHANGED <<drag, edits>>

EndDrag ==
  /\ drag # NoDrag
  /\ drag' = NoDrag /\ edits' = edits + 1
  /\ UNCHANGED doc

-----------------------------------------------------------------------------

RenameProfile(named) == Commit([doc EXCEPT !.named = named])

\* edits that leave the inputs and the names of controls alone
Routine ==
  \/ \E l \in DOMAIN doc.layers :
       \/ \E next \in TypedNames : RenameLayer(l, next)
       \/ \E mode \in {"hold", "toggle"} : LayerMode(l, mode)
  \/ \E i \in Selectable :
       \/ ClearRouting(i)
       \/ \E key \in TypedKeys \cup {None} : AimToggle(i, key)
       \/ \E field \in {"point", "center", "radius", "dead_zone", "reaffirm_ms", "x", "w",
                        "sensitivity", "threshold", "ads"}, v \in Typed :
            TypeNumber(i, field, v)
  \/ \E i \in DOMAIN doc.bindings : DeleteSelected(i)
  \/ /\ FreeKeys(doc) # {}
     /\ \A l \in DOMAIN doc.layers : TrimName[doc.layers[l].name] = doc.layers[l].name
     /\ AddLayer

Rebinding ==
  \/ \E named \in BOOLEAN : RenameProfile(named)
  \/ AddLayer
  \/ \E l \in DOMAIN doc.layers :
       \/ DeleteLayer(l)
       \/ \E key \in TypedKeys : LayerKey(l, key)
  \/ \E i \in Selectable :
       \/ \E name \in TypedNames : RenameBinding(i, name)
       \/ \E layer \in LayerNames(doc) \cup {None} : BindingLayer(i, layer)
       \/ \E key \in TypedKeys \cup {None} : BindingModifier(i, key)
       \/ \E kind \in {"key", "mouse_button"} : InputKind(i, kind)
       \/ \E k \in DOMAIN Binding(i).input.on, key \in TypedKeys : InputKey(i, k, key)
       \/ \E button \in ButtonNames : MouseButton(i, button)
  \/ \E kind \in DOMAIN Default, layer \in LayerNames(doc) \cup {None} : AddControl(kind, layer)
  \/ \E i \in DOMAIN doc.bindings : DuplicateSelected(i)

Dragging ==
  \/ \E i \in Selectable, resize \in BOOLEAN : BeginDrag(i, resize)
  \/ \E v \in MouseSpots : MoveDrag(v)
  \/ EndDrag

EditInit == \E d \in Starts : Opened(d)
EditNext == Routine \/ Rebinding \/ Dragging
EditSpec == EditInit /\ [][EditNext]_editVars

-----------------------------------------------------------------------------

\* The page and the server agree on every profile that editing can produce
\* (profile-model.js:238, profile_v2.rs:52): "Save" is refused by the page with a list
\* of errors exactly when the server would refuse it.
ValidatorsAgree == JsAccepts(doc) <=> RustAccepts(doc)

\* A session can be started with every profile that is saved, whatever the screen:
\* the conversions that the construction of the plan expects to succeed
\* (profile_controls.rs:147) do succeed.
SavedProfilesRun ==
  RustAccepts(doc) /\ Selectable = DOMAIN doc.bindings =>
    \A side \in Sides : PlanBuilds(doc, side)

\* What the page shows as valid can be saved, and what is saved can be played.
ValidProfilesPlay == ValidatorsAgree /\ SavedProfilesRun

\* Renaming or re-moding a layer, typing a number, clearing a routing, deleting a control
\* and adding a layer never turn a profile that can be saved into one that cannot.
RoutineEditsKeepValid == [][Routine /\ RustAccepts(doc) => RustAccepts(doc')]_editVars

=============================================================================
