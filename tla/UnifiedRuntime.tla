--------------------------- MODULE UnifiedRuntime ---------------------------
(***************************************************************************)
(* The input runtime of a game session (game_session.rs): it turns keys,   *)
(* mouse buttons and mouse motion into touches, following the control plan *)
(* materialized from a profile.  A control belongs to a layer, may ask for *)
(* a modifier, and is a tap, a hold, a joystick or a mouse aim; holds and  *)
(* joysticks are reconciled with everything that is held after every       *)
(* event.  Each touch is a frame that the injector may refuse, and a       *)
(* refused frame ends the handler where it is, with the work before it     *)
(* done and the work after it not.                                         *)
(*                                                                         *)
(* A handler is therefore a numbered list of steps.  At(c) is the runtime  *)
(* after the first c of them.                                              *)
(***************************************************************************)
EXTENDS MouseAim, FiniteSetsExt

CONSTANTS
  Keys,         \* keys a profile can name
  NoKey,        \* no modifier, no toggle key
  Buttons,      \* mouse buttons
  RightButton,  \* the one that aims down sights
  Plans,        \* control plans to look at
  Deltas,       \* mouse motions
  MaxContacts   \* slots of the touchscreen

Inputs == Keys \cup Buttons

ASSUME InputsAssumption == Keys \cap Buttons = {} /\ NoKey \notin Inputs
ASSUME SlotsAssumption == MaxContacts \in Nat
ASSUME DeltasAssumption == Deltas \subseteq Int \ {0}

\* What a control listens to, by the role the input has: "press" for a tap or a
\* hold, the directions for a joystick, nothing for a mouse aim.
Directions == {"up", "left", "down", "right"}
Roles == Directions \cup {"press"}

ControlKinds == {"tap", "hold", "stick", "toggle_stick", "aim"}

RolesOf(kind) == IF kind = "aim" THEN {}
                 ELSE IF kind \in {"tap", "hold"} THEN {"press"} ELSE Directions

\* RuntimeControlBinding.  Layer 0 is the base layer; toggle and gap are an aim's.
IsControl(c, layers) ==
  /\ c.kind \in ControlKinds
  /\ DOMAIN c.keys = RolesOf(c.kind)
  /\ \A r \in DOMAIN c.keys : c.keys[r] \in IF c.kind \in {"tap", "hold"} THEN Inputs ELSE Keys
  /\ c.layer \in {0} \cup layers
  /\ c.modifier \in Keys \cup {NoKey}
  /\ c.toggle \in Keys \cup {NoKey}
  /\ c.gap \in BOOLEAN

InputsOf(c) == {c.keys[r] : r \in DOMAIN c.keys}

\* ProfileV2::validate, for what can be said of controls and layers
IsPlan(p) ==
  LET n == p.size
      ids == DOMAIN p.layers
  IN  /\ n \in Nat /\ DOMAIN p.controls = 1 .. n
      /\ ids \subseteq Nat \ {0}
      /\ \A l \in ids : p.layers[l].key \in Keys /\ p.layers[l].mode \in {"hold", "toggle"}
      /\ \A l, m \in ids : p.layers[l].key = p.layers[m].key => l = m
      /\ \A i \in 1 .. n :
           LET c == p.controls[i] IN
           /\ IsControl(c, ids)
           /\ c.modifier \notin InputsOf(c)
           /\ c.kind = "aim" => c.modifier = NoKey
           /\ c.layer # 0 => p.layers[c.layer].key \notin InputsOf(c)
           /\ c.layer = 0 /\ c.modifier = NoKey =>
                \A l \in ids : p.layers[l].key \notin InputsOf(c)
      /\ \A i, j \in 1 .. n :
           LET c == p.controls[i]
               d == p.controls[j] IN
           i # j /\ c.layer = d.layer /\ c.modifier = d.modifier =>
             InputsOf(c) \cap InputsOf(d) = {}

ASSUME PlansAssumption == \A p \in Plans : IsPlan(p)

VARIABLES
  plan,      \* RuntimeControlPlan
  at,        \* "up"; "failed": a handler returned an error; "stopped", "stuck"
  held,      \* held_keys and held_mouse_buttons
  layers,    \* active_layers
  engaged,   \* by control: its directions, {"press"} for a hold that is active
  finger,    \* by control: the engine's contact, as the roles it is displaced by
  aims,      \* by control: aim_controllers
  cursor     \* the cursor's contact is down

vars == <<plan, at, held, layers, engaged, finger, aims, cursor>>

Controls == 1 .. plan.size
Kind(i) == plan.controls[i].kind
Layer(i) == plan.controls[i].layer
Modifier(i) == plan.controls[i].modifier
Key(i, r) == plan.controls[i].keys[r]
Uses(i, x) == x \in InputsOf(plan.controls[i])

LayerIds == DOMAIN plan.layers
\* a key the plan does not name is only remembered as held
PlanInputs ==
  (UNION {InputsOf(plan.controls[i]) \cup {Modifier(i), plan.controls[i].toggle} : i \in Controls}
     \cup {plan.layers[l].key : l \in LayerIds}) \ {NoKey}

LayerKeys == {plan.layers[l].key : l \in LayerIds}

IsAim(i) == Kind(i) = "aim"
IsStick(i) == Kind(i) \in {"stick", "toggle_stick"}

TypeOK ==
  /\ plan \in Plans
  /\ at \in {"up", "failed", "stopped", "stuck"}
  /\ held \subseteq Inputs
  /\ layers \subseteq LayerIds
  /\ engaged \in [Controls -> SUBSET Roles]
  /\ finger \in [Controls -> SUBSET Roles]
  /\ aims \in [Controls -> Controllers]
  /\ cursor \in BOOLEAN

-----------------------------------------------------------------------------
(* Which control owns an input *)

\* selected_input_layers: active layers that declare the input; a control below
\* the highest of them does not get it
Shadowed(i, x, ly) ==
  \E j \in Controls : Layer(j) \in ly /\ Layer(j) > Layer(i) /\ Uses(j, x)

\* is_suppressed: a sibling that asks for a modifier takes the input from those
\* that ask for none
Suppressed(i, x, h) ==
  /\ Modifier(i) = NoKey
  /\ \E j \in Controls : /\ Layer(j) = Layer(i) /\ Uses(j, x)
                         /\ Modifier(j) # NoKey /\ Modifier(j) \in h

\* binding_available
Available(i, x, h, ly) ==
  /\ ~Shadowed(i, x, ly)
  /\ Layer(i) # 0 => Layer(i) \in ly
  /\ Modifier(i) # NoKey => Modifier(i) \in h
  /\ ~Suppressed(i, x, h)

\* desired_bindings and desired_directions
Desired(i, e, h, ly) ==
  CASE Kind(i) \in {"hold", "stick"} ->
         {r \in RolesOf(Kind(i)) : /\ Key(i, r) \in h
                                   /\ Key(i, r) \notin LayerKeys
                                   /\ Available(i, Key(i, r), h, ly)}
    [] Kind(i) = "toggle_stick" -> {r \in e : Available(i, Key(i, r), h, ly)}
    [] OTHER -> {}

\* VirtualJoystick::target: opposite directions cancel, and no direction is no touch
Opposite(r) == CASE r = "up" -> "down" [] r = "down" -> "up"
                 [] r = "left" -> "right" [] r = "right" -> "left" [] OTHER -> "none"

Target(e) == {r \in e : Opposite(r) \notin e}

-----------------------------------------------------------------------------
(* The steps of a handler: joysticks give up directions, holds are lifted,  *)
(* holds and joysticks are engaged (reconcile_continuous); then, for a key  *)
(* pressed, aims are toggled and taps and toggle joysticks driven.          *)

Size == plan.size
Reconciled == 3 * Size
Steps == 6 * Size

\* Mutant of ReleaseStep: each control gives up and takes in one step of its own.
ReleaseStep_Late(i) == 2 * Size + i

ReleaseStep(i) == IF IsStick(i) THEN i ELSE Size + i
EngageStep(i)  == 2 * Size + i
ToggleStep(i)  == 3 * Size + i
DownStep(i)    == 4 * Size + 2 * i - 1     \* a tap is two frames
DriveStep(i)   == 4 * Size + 2 * i

\* what a pressed input drives, given what reconciling it asked for: `want`
Tapped(i, x, h, ly) == Kind(i) = "tap" /\ Key(i, "press") = x /\ Available(i, x, h, ly)

Flipped(i, x, h, ly) ==
  IF Kind(i) = "toggle_stick" /\ x \in Keys /\ Available(i, x, h, ly)
  THEN {r \in Directions : Key(i, r) = x} ELSE {}

\* The runtime after c steps, when h is held, the layers ly are active, the aims
\* are a, and x was pressed (NoKey: nothing to drive).
Fingers(s) ==
  Cardinality({i \in Controls : s.finger[i] # {}})
    + Cardinality({ia \in Controls \X AimIds : ia[2] \in s.aims[ia[1]].down})
    + (IF cursor THEN 1 ELSE 0)

EngagedAfter(c, i, x, h, ly) ==
  LET want == Desired(i, engaged[i], h, ly)
  IN  IF c >= DriveStep(i) THEN SymDiff(want, Flipped(i, x, h, ly))
      ELSE IF c >= EngageStep(i) THEN want
      ELSE IF c >= ReleaseStep(i) THEN engaged[i] \cap want
      ELSE engaged[i]

\* Mutant of FingerAfter: a tap does not lift its finger.
FingerAfter_NoLift(c, i, x, h, ly) ==
  LET e == EngagedAfter(c, i, x, h, ly)
  IN  IF c >= DownStep(i) /\ Tapped(i, x, h, ly) THEN {"press"}
      ELSE IF e = engaged[i] THEN finger[i] ELSE Target(e)

FingerAfter(c, i, x, h, ly) ==
  LET e == EngagedAfter(c, i, x, h, ly)
  IN  IF c = DownStep(i) /\ Tapped(i, x, h, ly) THEN {"press"}
      ELSE IF e = engaged[i] THEN finger[i] ELSE Target(e)

AimAfter(c, i, x, a) ==
  IF c >= ToggleStep(i) /\ IsAim(i) /\ x # NoKey /\ plan.controls[i].toggle = x
  THEN Toggle(a[i], TRUE).done ELSE a[i]

RuntimeAfter(c, x, h, ly, a) ==
  [engaged |-> [i \in Controls |-> EngagedAfter(c, i, x, h, ly)],
   finger  |-> [i \in Controls |-> FingerAfter(c, i, x, h, ly)],
   aims    |-> [i \in Controls |-> AimAfter(c, i, x, a)]]

\* step c submits a frame
Submits(s, t) == s.finger # t.finger \/ \E i \in Controls : s.aims[i].down # t.aims[i].down

\* What the aim toggled by the refused step c + 1 forgets: a finger it is to lift.
AimsRefused(s, t) ==
  [i \in Controls |-> IF s.aims[i].down \ t.aims[i].down # {}
                      THEN [s.aims[i] EXCEPT !.active = "none"] ELSE s.aims[i]]

Becomes(s) == engaged' = s.engaged /\ finger' = s.finger /\ aims' = s.aims

\* The handler runs its first `last` steps, or is refused a frame before: any frame
\* may be, one that needs a slot too many is.
Run(last, x, h, ly, a) ==
  LET after == [c \in 0 .. last |-> RuntimeAfter(c, x, h, ly, a)]
      frames == {c \in 1 .. last : Submits(after[c - 1], after[c])}
      full == {c \in frames : Fingers(after[c]) > MaxContacts}
  IN  \/ full = {} /\ at' = "up" /\ Becomes(after[last])
      \/ \E c \in frames :
           /\ \A k \in full : c <= k
           /\ at' = "failed"
           /\ Becomes([after[c - 1] EXCEPT !.aims = AimsRefused(after[c - 1], after[c])])

-----------------------------------------------------------------------------
(* Handlers *)

Init ==
  /\ plan \in Plans /\ at = "up"
  /\ held = {} /\ layers = {} /\ cursor = FALSE
  /\ engaged = [i \in Controls |-> {}] /\ finger = [i \in Controls |-> {}]
  /\ aims = [i \in Controls |-> NewController]

SetHeld(x, pressed) == IF pressed THEN held \cup {x} ELSE held \ {x}

\* a layer's key on its way down or up
SwitchLayers(k, pressed) ==
  LET l == CHOOSE l \in LayerIds : plan.layers[l].key = k
  IN  IF k \notin LayerKeys THEN layers
      ELSE IF plan.layers[l].mode = "hold"
      THEN IF pressed THEN layers \cup {l} ELSE layers \ {l}
      ELSE IF pressed THEN SymDiff(layers, {l}) ELSE layers

HandleKeyboard(k, pressed) ==
  /\ at = "up"
  /\ held' = SetHeld(k, pressed)
  /\ layers' = SwitchLayers(k, pressed)
  /\ IF pressed /\ k \notin LayerKeys
     THEN Run(Steps, k, held', layers', aims)
     ELSE Run(Reconciled, NoKey, held', layers', aims)
  /\ UNCHANGED <<plan, cursor>>

AimsDownSights(on) == [i \in Controls |-> IF IsAim(i) THEN SetAds(aims[i], on) ELSE aims[i]]

HandleMouseButton(b, pressed) ==
  /\ at = "up"
  /\ held' = SetHeld(b, pressed)
  /\ LET a == IF b = RightButton THEN AimsDownSights(pressed) ELSE aims
     IN  IF pressed THEN Run(Steps, b, held', layers, a)
                    ELSE Run(Reconciled, NoKey, held', layers, a)
  /\ UNCHANGED <<plan, layers, cursor>>

\* Every aim in turn; the first whose frame is refused ends the handler.
Now(a) == [engaged |-> engaged, finger |-> finger, aims |-> a]

HasRoom(a) == Fingers(Now(a)) < MaxContacts

\* turn[i][room] is what an operation does to aim i, with or without room for a finger;
\* the aims below i have had their turn
AimsBefore(turn, i) ==
  [j \in Controls |-> IF j < i /\ IsAim(j) THEN turn[j][TRUE].done ELSE aims[j]]

TurnOf(turn, i) == turn[i][HasRoom(AimsBefore(turn, i))]

\* no aim below i is short of a slot
ReachesAim(turn, i) == \A j \in 1 .. i - 1 : IsAim(j) => TurnOf(turn, j).fits

\* more: a frame after the last aim may be refused
ForEachAim(turn, more) ==
  \/ /\ ReachesAim(turn, Size + 1)
     /\ aims' = AimsBefore(turn, Size + 1)
     /\ at' \in IF more THEN {"up", "failed"} ELSE {"up"}
  \/ \E i \in Controls :
       /\ IsAim(i) /\ ReachesAim(turn, i) /\ at' = "failed"
       /\ \E a \in TurnOf(turn, i).fails : aims' = [AimsBefore(turn, i) EXCEPT ![i] = a]

HandleMotion(dx) ==
  /\ at = "up"
  /\ \A i \in Controls : aims[i].residual \in -MaxResidual .. MaxResidual
  /\ \E due \in BOOLEAN :
       ForEachAim([i \in Controls |-> [room \in BOOLEAN |->
                     MoveBy(aims[i], plan.controls[i].gap, dx, due, room)]], FALSE)
  /\ UNCHANGED <<plan, held, layers, engaged, finger, cursor>>

\* Time passes between events: gaps end, and aims and joysticks are reaffirmed at
\* the place they are at.
Tick ==
  /\ at = "up"
  /\ ForEachAim([i \in Controls |-> [room \in BOOLEAN |-> TickAim(aims[i], TRUE, room)]],
                \E i \in Controls : IsStick(i) /\ finger[i] # {})
  /\ UNCHANGED <<plan, held, layers, engaged, finger, cursor>>

\* start and restore_aim: aims without a toggle key, and the others if asked
RestoreAim(reactivate) ==
  /\ at = "up"
  /\ ForEachAim([i \in Controls |-> [room \in BOOLEAN |->
       IF plan.controls[i].toggle = NoKey \/ reactivate
       THEN Activate(aims[i], room) ELSE Ignored(aims[i])]], FALSE)
  /\ UNCHANGED <<plan, held, layers, engaged, finger, cursor>>

\* The mouse goes to the cursor: set_aim_enabled(false), release_mouse_buttons.
DisableAims ==
  /\ at = "up"
  /\ ForEachAim([i \in Controls |-> [room \in BOOLEAN |->
       IF AimIsActive(aims[i]) THEN Deactivate(aims[i]) ELSE Ignored(aims[i])]], FALSE)
  /\ UNCHANGED <<plan, held, layers, engaged, finger, cursor>>

ReleaseMouseButtons ==
  /\ at = "up" /\ held \cap Buttons # {}
  /\ held' = held \ Buttons
  /\ Run(Reconciled, NoKey, held', layers, AimsDownSights(FALSE))
  /\ UNCHANGED <<plan, layers, cursor>>

CursorDown ==
  /\ at = "up"
  /\ \/ (cursor \/ HasRoom(aims)) /\ cursor' = TRUE /\ at' = at
     \/ at' = "failed" /\ UNCHANGED cursor
  /\ UNCHANGED <<plan, held, layers, engaged, finger, aims>>

CursorUp ==
  /\ at = "up" /\ cursor
  /\ \/ cursor' = FALSE /\ at' = at
     \/ at' = "failed" /\ UNCHANGED cursor
  /\ UNCHANGED <<plan, held, layers, engaged, finger, aims>>

\* suspend: every aim is cancelled, and again if its frame was refused, which only
\* forgets; then whatever the engine still has down is cancelled in one frame.
CancelAim(a, refused) ==
  IF a.active # "none" /\ ~refused
  THEN Reset([a EXCEPT !.down = @ \ {a.active}, !.pos = Origin])
  ELSE Reset(a)

\* Mutant of LiftAll: only the contacts the controls account for are cancelled.
LiftAll_Known(a) ==
  /\ finger' = [i \in Controls |-> IF engaged[i] # {} THEN {} ELSE finger[i]]
  /\ cursor' = FALSE
  /\ aims' = a

LiftAll(a) ==
  /\ finger' = [i \in Controls |-> {}]
  /\ cursor' = FALSE
  /\ aims' = [i \in Controls |-> [a[i] EXCEPT !.down = {}, !.pos = Origin]]

Forget ==
  /\ held' = {} /\ layers' = {}
  /\ engaged' = [i \in Controls |-> {}]
  /\ UNCHANGED plan

Suspend ==
  /\ at = "up" /\ Forget
  /\ \E refused \in SUBSET {i \in Controls : aims[i].down # {}} :
       LET a == [i \in Controls |-> CancelAim(aims[i], i \in refused)]
       IN  \/ LiftAll(a) /\ at' = IF refused = {} THEN "up" ELSE "failed"
           \/ /\ Fingers(Now(a)) # 0
              /\ aims' = a /\ at' = "failed" /\ UNCHANGED <<finger, cursor>>

\* The session ends: stop suspends, dropping the runtime cancels once more.
Stop ==
  /\ at \in {"up", "failed"} /\ Forget
  /\ \E refused \in SUBSET {i \in Controls : aims[i].down # {}} :
       LET a == [i \in Controls |-> CancelAim(aims[i], i \in refused)]
       IN  \/ LiftAll(a) /\ at' = "stopped"
           \/ /\ Fingers(Now(a)) # 0
              /\ aims' = a /\ at' = "stuck" /\ UNCHANGED <<finger, cursor>>

Next ==
  \/ \E k \in Keys \cap PlanInputs, pressed \in BOOLEAN : HandleKeyboard(k, pressed)
  \/ \E b \in Buttons, pressed \in BOOLEAN : HandleMouseButton(b, pressed)
  \/ \E dx \in Deltas : HandleMotion(dx)
  \/ Tick
  \/ \E reactivate \in BOOLEAN : RestoreAim(reactivate)
  \/ DisableAims \/ ReleaseMouseButtons
  \/ CursorDown \/ CursorUp
  \/ Suspend \/ Stop

Spec == Init /\ [][Next]_vars

-----------------------------------------------------------------------------
(* Properties *)

\* While the runtime is up, what Android sees down is exactly what the runtime
\* believes: a control's finger is where its engaged roles put it, a tap's is up,
\* and an aim has the one finger it is active with (handlers return early on a
\* refused frame, in the middle of their work, and their state must not be used).
FingersFollowBindings ==
  at = "up" => \A i \in Controls :
    /\ finger[i] = Target(engaged[i])
    /\ aims[i].down = {aims[i].active} \ {"none"}

\* An input drives one control at a time, whatever layers and modifiers are on: two
\* that share it are both engaged only if they are in the same layer and each asks
\* for a modifier of its own (a profile may hold one in Shift and one in Ctrl).
OneOwnerPerInput ==
  at = "up" => \A i, j \in Controls :
    \A r \in engaged[i], s \in engaged[j] :
      i # j /\ Key(i, r) = Key(j, s) =>
        Layer(i) = Layer(j) /\ NoKey \notin {Modifier(i), Modifier(j)}

\* Whatever frame was refused, in a tap, a recentering or a deactivation, no finger
\* stays on the touchscreen after the session when its last frame was accepted.
NothingOutlivesSession ==
  at = "stopped" => /\ ~cursor
                    /\ \A i \in Controls : finger[i] = {} /\ aims[i].down = {}

\* a joystick held in opposite directions only: engaged, with no touch
Opposed(i, e) == IsStick(i) /\ e # {} /\ Target(e) = {}

\* Giving inputs from one control to another works on a full touchscreen: when the
\* touches wanted after a key's change fit its slots, no step on the way needs one
\* slot more.  (Not so for a joystick held in opposite directions before or after:
\* letting go of one puts it down before the holds are lifted, and taking a second
\* one lifts it only after the holds before it are down.)
HandOffFits ==
  at = "up" => \A k \in Keys \cap PlanInputs, pressed \in BOOLEAN :
    LET h  == SetHeld(k, pressed)
        ly == SwitchLayers(k, pressed)
        touches(c) == Fingers(RuntimeAfter(c, NoKey, h, ly, aims))
        opposed(i) == Opposed(i, engaged[i]) \/ Opposed(i, Desired(i, engaged[i], h, ly))
    IN  touches(Reconciled) <= MaxContacts /\ (\A i \in Controls : ~opposed(i)) =>
          \A c \in 0 .. Reconciled : touches(c) <= MaxContacts

\* Who may act on an input, and whether there is room for it, holds together over every
\* change of keys, layers and modifiers (reconcile_bindings).
AdmissionIsSound == OneOwnerPerInput /\ HandOffFits
=============================================================================
