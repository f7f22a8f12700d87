--------------------------- MODULE StudioPreview ---------------------------
(***************************************************************************)
(* "Test bindings" of Controls Studio: the page shows which bindings the   *)
(* keys and buttons that are held would drive, without a runtime.  It has  *)
(* a second implementation of layers, modifiers and siblings for this      *)
(* (assets/editor/profile-model.js).  Here both look at the same profile   *)
(* and the same events: `held` and `layers` are the runtime's, `preview`   *)
(* is the page's.                                                          *)
(***************************************************************************)
EXTENDS UnifiedRuntime

VARIABLE preview

previewVars == <<preview, vars>>

\* createPreviewState
NoPreview == [keys |-> {}, buttons |-> {}, active |-> {}, toggled |-> {}, latched |-> {},
              moving |-> FALSE]

HeldIn(p) == p.keys \cup p.buttons

LayersOn(p) ==
  {l \in LayerIds : IF plan.layers[l].mode = "hold" THEN plan.layers[l].key \in p.keys
                                                    ELSE l \in p.toggled}

\* the highest active layer that has a binding for x, and the base layer otherwise
SelectedLayer(p, x) ==
  LET candidates == {Layer(i) : i \in {j \in Controls : Uses(j, x) /\ Layer(j) \in p.active}}
  IN  CHOOSE l \in candidates \cup {0} : \A m \in candidates : m <= l

\* mutant: a binding without a modifier does not look at its siblings
AvailableAnyway(p, i, x) ==
  /\ Layer(i) = SelectedLayer(p, x)
  /\ Modifier(i) # NoKey => Modifier(i) \in p.keys

\* bindingAvailableForSource
AvailableForSource(p, i, x) ==
  /\ Layer(i) = SelectedLayer(p, x)
  /\ Modifier(i) # NoKey => Modifier(i) \in p.keys
  /\ Modifier(i) = NoKey =>
       \A j \in Controls \ {i} :
         ~(Layer(j) = Layer(i) /\ Modifier(j) \in p.keys /\ Uses(j, x))

Driven(p, i) ==
  \E x \in InputsOf(plan.controls[i]) \cap HeldIn(p) : AvailableForSource(p, i, x)

TapsFor(p, x) ==
  {i \in Controls : Kind(i) = "tap" /\ Uses(i, x) /\ AvailableForSource(p, i, x)}

\* reconcileTapLatches
Reconcile(p) == [p EXCEPT !.latched = {i \in @ : Driven(p, i)}]

Latch(p, x) == IF x \in LayerKeys THEN p ELSE [p EXCEPT !.latched = @ \cup TapsFor(p, x)]

\* setPreviewKey
SetPreviewKey(p, k, pressed) ==
  LET fresh == pressed /\ k \notin p.keys
      flips == {l \in LayerIds : fresh /\ plan.layers[l].mode = "toggle" /\ plan.layers[l].key = k}
      q == [p EXCEPT !.keys = IF pressed THEN @ \cup {k} ELSE @ \ {k},
                     !.toggled = SymDiff(@, flips)]
      r == [q EXCEPT !.active = LayersOn(q)]
  IN  Reconcile(IF fresh THEN Latch(r, k) ELSE r)

\* setPreviewButton
SetPreviewButton(p, b, pressed) ==
  LET q == [p EXCEPT !.buttons = IF pressed THEN @ \cup {b} ELSE @ \ {b}]
  IN  Reconcile(IF pressed /\ b \notin p.buttons THEN Latch(q, b) ELSE q)

\* activePreviewBindingIndexes
Shown(p, i) ==
  CASE Kind(i) = "tap" -> i \in p.latched
    [] IsAim(i) -> p.moving \/ plan.controls[i].toggle \in p.keys
    [] OTHER -> \E x \in (InputsOf(plan.controls[i]) \cap HeldIn(p)) \ LayerKeys :
                  AvailableForSource(p, i, x)

-----------------------------------------------------------------------------

NoTouches == UNCHANGED <<plan, at, engaged, finger, aims, cursor>>

\* a keyboard repeats a key that is down, and the runtime's readers drop the repeats
TestKey(k, pressed) ==
  /\ preview' = SetPreviewKey(preview, k, pressed)
  /\ held' = SetHeld(k, pressed)
  /\ layers' = IF pressed <=> k \in held THEN layers ELSE SwitchLayers(k, pressed)
  /\ NoTouches

\* handleTestPointer: a button that went down elsewhere is not let go of here
TestPointer(b, pressed) ==
  /\ pressed \/ b \in preview.buttons
  /\ preview' = SetPreviewButton(preview, b, pressed)
  /\ held' = SetHeld(b, pressed)
  /\ UNCHANGED layers /\ NoTouches

PulseMouseMovement ==
  /\ preview' = [preview EXCEPT !.moving = ~@]
  /\ UNCHANGED <<held, layers>> /\ NoTouches

\* setTesting, and every change of the profile: resetTestInputState.  What stands beside
\* it is a session that starts.
ResetTest ==
  /\ preview' = NoPreview /\ held' = {} /\ layers' = {}
  /\ NoTouches

PreviewInit == Init /\ preview = NoPreview

PreviewNext ==
  \/ \E k \in Keys \cap PlanInputs, pressed \in BOOLEAN : TestKey(k, pressed)
  \/ \E b \in Buttons, pressed \in BOOLEAN : TestPointer(b, pressed)
  \/ PulseMouseMovement \/ ResetTest

PreviewSpec == PreviewInit /\ [][PreviewNext]_previewVars

-----------------------------------------------------------------------------

\* The page shows a hold or a joystick exactly when the runtime would engage it, through
\* any nesting of layers, modifiers and siblings (activePreviewBindingIndexes and
\* desired_bindings).  A joystick that toggles is shown while its keys are held.
PreviewShowsTheRuntime ==
  \A i \in {j \in Controls : Kind(j) \in {"hold", "stick"}} :
    Shown(preview, i) <=> Desired(i, {}, held, layers) # {}

=============================================================================
