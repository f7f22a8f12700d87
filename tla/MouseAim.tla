------------------------------ MODULE MouseAim ------------------------------
(***************************************************************************)
(* MouseAimController of wroid-runtime (mouse_aim.rs): relative mouse      *)
(* motion drags one touch contact over a region of the screen.  When the   *)
(* contact gets too far from the middle the controller swaps to its other  *)
(* contact, put down in the middle: in one frame, or with a gap between    *)
(* lifting the old and starting the new.  Motion is scaled by a fraction   *)
(* whose remainder is carried into the next event.                         *)
(*                                                                         *)
(* One axis stands for both.  A controller is a record; with it are kept   *)
(* the fingers its contacts have down on the engine, which can outlive     *)
(* what the controller knows of them when a frame is refused.              *)
(*                                                                         *)
(* An operation is described by its outcome: done, the controller when     *)
(* every frame is accepted; fits, whether the touchscreen has the slot its *)
(* frames need; fails, the controllers that a refused frame leaves behind  *)
(* (none when the operation submits nothing).                              *)
(***************************************************************************)
EXTENDS Integers

CONSTANTS
  Right,             \* the region is 0 .. Right
  Origin,            \* its middle
  Threshold,         \* recentering radius
  Num, Den,          \* sensitivity
  AdsNum, AdsDen,    \* multiplier while aiming down sights; 1, 1 if there is none
  MaxResidual        \* bound: motion buffered during a gap

ASSUME AimAssumption ==
  /\ Right \in Nat /\ Origin \in 0 .. Right /\ Threshold \in Nat
  /\ Num \in Nat \ {0} /\ Den \in Nat \ {0}
  /\ AdsNum \in Nat \ {0} /\ AdsDen \in Nat \ {0}
  /\ MaxResidual \in Nat

Region  == 0 .. Right
AimIds  == {"primary", "alternate"}

\* MouseAimController, its fingers and where the active one is
Controllers ==
  [active   : AimIds \cup {"none"},
   next     : AimIds,
   pending  : BOOLEAN,                  \* pending_recenter is Some
   previous : AimIds,                   \* its previous_contact_id
   residual : Int,                      \* and the motion it buffers
   ads      : BOOLEAN,
   carry    : Int,
   down     : SUBSET AimIds,
   pos      : Region]

NewController ==
  [active |-> "none", next |-> "alternate", pending |-> FALSE, previous |-> "primary",
   residual |-> 0, ads |-> FALSE, carry |-> 0, down |-> {}, pos |-> Origin]

AimIsActive(a) == a.active # "none" \/ a.pending

-----------------------------------------------------------------------------
(* Scaling *)

\* the integer division of Rust, which rounds towards zero
Quot(n, d) == IF n >= 0 THEN n \div d ELSE -((-n) \div d)

Scale(ads) ==
  [num |-> IF ads THEN Num * AdsNum ELSE Num,
   den |-> IF ads THEN Den * AdsDen ELSE Den]

\* ScaleAccumulator::step
ScaledDelta(a, dx) ==
  LET s == Scale(a.ads)
      n == dx * s.num + a.carry
  IN  [whole |-> Quot(n, s.den), carry |-> n - s.den * Quot(n, s.den)]

SetAds(a, on) == [a EXCEPT !.ads = on, !.carry = IF a.ads # on THEN 0 ELSE @]

Clamp(x) == IF x < 0 THEN 0 ELSE IF x > Right THEN Right ELSE x

PastThreshold(x) == x - Origin > Threshold \/ Origin - x > Threshold

-----------------------------------------------------------------------------
(* Operations *)

Ignored(a) == [done |-> a, fits |-> TRUE, fails |-> {}]

Activate(a, room) ==
  IF AimIsActive(a) THEN Ignored(a)
  ELSE [done  |-> [a EXCEPT !.active = "primary", !.next = "alternate",
                            !.down = @ \cup {"primary"}, !.pos = Origin],
        fits  |-> room /\ "primary" \notin a.down,
        fails |-> {a}]

\* what deactivate and cancel forget at their end
Reset(a) == [a EXCEPT !.active = "none", !.pending = FALSE, !.residual = 0,
                      !.ads = FALSE, !.carry = 0]

\* The contact is taken out of the controller before its Up is submitted: when
\* that fails the finger stays down and nobody knows its owner.
Deactivate(a) ==
  IF a.active = "none" THEN Ignored(Reset(a))
  ELSE [done  |-> Reset([a EXCEPT !.down = @ \ {a.active}, !.pos = Origin]),
        fits  |-> TRUE,
        fails |-> {[a EXCEPT !.active = "none"]}]

Toggle(a, room) == IF AimIsActive(a) THEN Deactivate(a) ELSE Activate(a, room)

\* `next` put down in the middle, then moved by what is left of the motion;
\* `lifted` goes up in the same frame
Restart(a, lifted, old, dx, room) ==
  LET fresh == [a EXCEPT !.active = a.next, !.next = old, !.pending = FALSE, !.residual = 0,
                         !.down = (@ \ lifted) \cup {a.next}, !.pos = Origin]
      moved == [fresh EXCEPT !.pos = Clamp(Origin + dx)]
  IN  [done  |-> moved,
       fits  |-> room /\ a.next \notin a.down,
       fails |-> {a} \cup (IF moved # fresh /\ room THEN {fresh} ELSE {})]

\* The new contact goes down before the old one goes up: with no gap the frame
\* needs a free slot although it adds no finger.
Recenter(a, gap, dx, room) ==
  IF gap
  THEN [done  |-> [a EXCEPT !.active = "none", !.pending = TRUE, !.previous = a.active,
                            !.residual = dx, !.down = @ \ {a.active}, !.pos = Origin],
        fits  |-> TRUE,
        fails |-> {a}]
  ELSE Restart(a, {a.active}, a.active, dx, room)

\* due: the gap is over, or the reaffirm interval is
TickAim(a, due, room) ==
  IF due /\ a.pending THEN Restart(a, {}, a.previous, a.residual, room)
  ELSE IF due /\ a.active # "none"
  THEN [done |-> a, fits |-> TRUE, fails |-> {a}]
  ELSE Ignored(a)

MoveBy(a, gap, dx, due, room) ==
  LET s == ScaledDelta(a, dx)
      b == [a EXCEPT !.carry = s.carry]
      target == Clamp(a.pos + s.whole)
  IN  IF ~AimIsActive(a) THEN Ignored(a)
      ELSE IF a.pending
      THEN TickAim([b EXCEPT !.residual = @ + s.whole], due, room)
      ELSE IF target = a.pos THEN Ignored(b)
      ELSE IF PastThreshold(target) THEN Recenter(b, gap, s.whole, room)
      ELSE [done |-> [b EXCEPT !.pos = target], fits |-> TRUE, fails |-> {b}]

=============================================================================
