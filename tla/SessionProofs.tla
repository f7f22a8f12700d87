--------------------------- MODULE SessionProofs ---------------------------
(***************************************************************************)
(* The parts of a session for every plan, every touchscreen, every frame   *)
(* refused and every answer of the desktop.  What is proved of the input   *)
(* runtime: its state is typed, the fingers down are the ones the controls *)
(* and aims believe in, an input drives one control at a time, handing     *)
(* inputs over fits the touchscreen, and nothing outlives the session.     *)
(* Then the preview of Controls Studio, which shows what that runtime      *)
(* would do, the focus relay and the cursor overlay.                       *)
(*                                                                         *)
(* The argument for the runtime: one aim's operations keep it to one       *)
(* finger and put one down only where there is room; a handler of a key    *)
(* ends with every control settled (engaged by what is available to it)    *)
(* and took no frame that needs a slot too many; the operations of the     *)
(* aims, in turn, and the two that end the session keep the same.          *)
(***************************************************************************)
EXTENDS StudioPreview, FocusRelay, CursorOverlay, FiniteSetTheorems, WellFoundedInduction,
        TLAPS

-----------------------------------------------------------------------------
(* One aim *)

\* The aim has the one finger it is active with, and none in a gap.
OneFinger(a) == a.down = {a.active} \ {"none"} /\ (a.pending => a.active = "none")

\* An outcome of an operation: controllers stay controllers, an aim keeps to one finger,
\* and a finger is put down where there was none only if there is room.
SoundOutcome(a, o, room) ==
  /\ o.done \in Controllers
  /\ o.fails \subseteq Controllers
  /\ OneFinger(a) => OneFinger(o.done)
  /\ OneFinger(a) /\ a.down = {} /\ o.done.down # {} /\ o.fits => room

\* Scaling gives integers.
LEMMA ScaledIsInt ==
  ASSUME NEW a \in Controllers, NEW dx \in Int
  PROVE  ScaledDelta(a, dx).whole \in Int /\ ScaledDelta(a, dx).carry \in Int
<1> DEFINE s == Scale(a.ads)
           n == dx * s.num + a.carry
<1>1. a.carry \in Int /\ a.ads \in BOOLEAN
  BY DEF Controllers
<1>2. Num * AdsNum \in Nat \ {0} /\ Den * AdsDen \in Nat \ {0}
  BY AimAssumption
<1>3. s.num \in Nat \ {0} /\ s.den \in Nat \ {0}
  BY <1>1, <1>2, AimAssumption DEF Scale
<1> HIDE DEF s
<1>4. n \in Int
  BY <1>1, <1>3
<1>5. ASSUME NEW k \in Int, NEW d \in Nat \ {0}
      PROVE  Quot(k, d) \in Int /\ k - d * Quot(k, d) \in Int
  BY <1>5 DEF Quot
<1>6. ScaledDelta(a, dx) = [whole |-> Quot(n, s.den), carry |-> n - s.den * Quot(n, s.den)]
  BY DEF ScaledDelta, s
<1> HIDE DEF n
<1> QED
  BY <1>3, <1>4, <1>5, <1>6

\* Clamping gives a place in the region.
LEMMA ClampInRegion ==
  ASSUME NEW x \in Int
  PROVE  Clamp(x) \in Region
BY AimAssumption DEF Clamp, Region

\* Each field of a controller may be changed within its type.
LEMMA ControllerFields ==
  ASSUME NEW a \in Controllers
  PROVE  /\ \A x \in AimIds \cup {"none"} : [a EXCEPT !.active = x] \in Controllers
         /\ \A x \in AimIds : [a EXCEPT !.next = x] \in Controllers
         /\ \A x \in BOOLEAN : [a EXCEPT !.pending = x] \in Controllers
         /\ \A x \in AimIds : [a EXCEPT !.previous = x] \in Controllers
         /\ \A x \in Int : [a EXCEPT !.residual = x] \in Controllers
         /\ \A x \in BOOLEAN : [a EXCEPT !.ads = x] \in Controllers
         /\ \A x \in Int : [a EXCEPT !.carry = x] \in Controllers
         /\ \A x \in SUBSET AimIds : [a EXCEPT !.down = x] \in Controllers
         /\ \A x \in Region : [a EXCEPT !.pos = x] \in Controllers
<1>1. \A x \in AimIds \cup {"none"} : [a EXCEPT !.active = x] \in Controllers
  BY DEF Controllers
<1>2. \A x \in AimIds : [a EXCEPT !.next = x] \in Controllers
  BY DEF Controllers
<1>3. \A x \in BOOLEAN : [a EXCEPT !.pending = x] \in Controllers
  BY DEF Controllers
<1>4. \A x \in AimIds : [a EXCEPT !.previous = x] \in Controllers
  BY DEF Controllers
<1>5. \A x \in Int : [a EXCEPT !.residual = x] \in Controllers
  BY DEF Controllers
<1>6. \A x \in BOOLEAN : [a EXCEPT !.ads = x] \in Controllers
  BY DEF Controllers
<1>7. \A x \in Int : [a EXCEPT !.carry = x] \in Controllers
  BY DEF Controllers
<1>8. \A x \in SUBSET AimIds : [a EXCEPT !.down = x] \in Controllers
  BY DEF Controllers
<1>9. \A x \in Region : [a EXCEPT !.pos = x] \in Controllers
  BY DEF Controllers
<1> QED
  BY <1>1, <1>2, <1>3, <1>4, <1>5, <1>6, <1>7, <1>8, <1>9

\* A controller whose place is changed within the region.
LEMMA MovedController ==
  ASSUME NEW a \in Controllers, NEW pos \in Region
  PROVE  /\ [a EXCEPT !.pos = pos] \in Controllers
         /\ OneFinger(a) => OneFinger([a EXCEPT !.pos = pos])
<1>1. [a EXCEPT !.pos = pos] \in Controllers
  BY DEF Controllers
<1>2. /\ [a EXCEPT !.pos = pos].down = a.down /\ [a EXCEPT !.pos = pos].active = a.active
      /\ [a EXCEPT !.pos = pos].pending = a.pending
  BY DEF Controllers
<1> QED
  BY <1>1, <1>2 DEF OneFinger

\* Aiming down sights moves no finger.
LEMMA SetAdsSound ==
  ASSUME NEW a \in Controllers, NEW on \in BOOLEAN
  PROVE  /\ SetAds(a, on) \in Controllers /\ SetAds(a, on).down = a.down
         /\ OneFinger(a) => OneFinger(SetAds(a, on))
<1>1. a.carry \in Int
  BY DEF Controllers
<1> DEFINE carry == IF a.ads # on THEN 0 ELSE a.carry
           b == [a EXCEPT !.ads = on, !.carry = carry]
<1>2. carry \in Int
  BY <1>1
<1>3. SetAds(a, on) = b
  BY DEF SetAds, Controllers
<1> HIDE DEF carry
<1>4. b \in Controllers
  BY <1>2 DEF Controllers
<1>5. b.down = a.down /\ b.active = a.active /\ b.pending = a.pending
  BY DEF Controllers
<1> HIDE DEF b
<1> QED
  BY <1>3, <1>4, <1>5 DEF OneFinger

\* What is ignored is sound.
LEMMA IgnoredSound ==
  ASSUME NEW a \in Controllers, NEW room
  PROVE  SoundOutcome(a, Ignored(a), room)
BY DEF SoundOutcome, Ignored, OneFinger

\* activate
LEMMA ActivateSound ==
  ASSUME NEW a \in Controllers, NEW room \in BOOLEAN
  PROVE  SoundOutcome(a, Activate(a, room), room)
<1>1. CASE AimIsActive(a)
  BY <1>1, IgnoredSound DEF Activate
<1>2. CASE ~AimIsActive(a)
  <2> DEFINE done == [a EXCEPT !.active = "primary", !.next = "alternate",
                               !.down = @ \cup {"primary"}, !.pos = Origin]
  <2>1. Activate(a, room) = [done |-> done, fits |-> room /\ "primary" \notin a.down, fails |-> {a}]
    BY <1>2 DEF Activate
  <2>2. Origin \in Region
    BY AimAssumption DEF Region
  <2>3. done \in Controllers
    BY <2>2 DEF Controllers, AimIds
  <2>4. OneFinger(a) => OneFinger(done)
    BY <1>2 DEF OneFinger, AimIsActive, Controllers
  <2> HIDE DEF done
  <2> QED
    BY <2>1, <2>3, <2>4 DEF SoundOutcome
<1> QED
  BY <1>1, <1>2

\* what deactivate and cancel forget
LEMMA ResetSound ==
  ASSUME NEW a \in Controllers
  PROVE  /\ Reset(a) \in Controllers /\ Reset(a).down = a.down
         /\ Reset(a).active = "none" /\ ~Reset(a).pending
         /\ a.down = {} => OneFinger(Reset(a))
<1> DEFINE b1 == [a EXCEPT !.active = "none"]
           b2 == [b1 EXCEPT !.pending = FALSE]
           b3 == [b2 EXCEPT !.residual = 0]
           b4 == [b3 EXCEPT !.ads = FALSE]
           b5 == [b4 EXCEPT !.carry = 0]
<1>2. Reset(a) = b5
  BY DEF Reset
<1>1. b1 \in Controllers /\ b1.active = "none" /\ b1.down = a.down
  BY ControllerFields DEF Controllers
<1> HIDE DEF b1
<1>3. b2 \in Controllers /\ b2.active = "none" /\ b2.down = a.down /\ ~b2.pending
  BY <1>1, ControllerFields DEF Controllers
<1> HIDE DEF b2
<1>4. b3 \in Controllers /\ b3.active = "none" /\ b3.down = a.down /\ ~b3.pending
  BY <1>3, ControllerFields DEF Controllers
<1> HIDE DEF b3
<1>5. b4 \in Controllers /\ b4.active = "none" /\ b4.down = a.down /\ ~b4.pending
  BY <1>4, ControllerFields DEF Controllers
<1> HIDE DEF b4
<1>6. b5 \in Controllers /\ b5.active = "none" /\ b5.down = a.down /\ ~b5.pending
  BY <1>5, ControllerFields DEF Controllers
<1> HIDE DEF b5
<1> QED
  BY <1>2, <1>6 DEF OneFinger

\* deactivate: the finger is lifted, or nobody knows its owner.
LEMMA DeactivateSound ==
  ASSUME NEW a \in Controllers, NEW room
  PROVE  SoundOutcome(a, Deactivate(a), room)
<1>1. CASE a.active = "none"
  <2>1. Reset(a) \in Controllers /\ Reset(a).down = a.down /\ (a.down = {} => OneFinger(Reset(a)))
    BY ResetSound
  <2>2. Deactivate(a) = [done |-> Reset(a), fits |-> TRUE, fails |-> {}]
    BY <1>1 DEF Deactivate, Ignored
  <2>3. OneFinger(a) => a.down = {}
    BY <1>1 DEF OneFinger
  <2> QED
    BY <2>1, <2>2, <2>3 DEF SoundOutcome
<1>2. CASE a.active # "none"
  <2> DEFINE lifted == [a EXCEPT !.down = @ \ {a.active}, !.pos = Origin]
             lost == [a EXCEPT !.active = "none"]
  <2>1. Origin \in Region
    BY AimAssumption DEF Region
  <2>2. lifted \in Controllers /\ lost \in Controllers /\ lifted.down = a.down \ {a.active}
    BY <2>1 DEF Controllers
  <2>3. Deactivate(a) = [done |-> Reset(lifted), fits |-> TRUE, fails |-> {lost}]
    BY <1>2 DEF Deactivate
  <2> HIDE DEF lifted, lost
  <2>4. Reset(lifted) \in Controllers /\ Reset(lifted).down = lifted.down /\ (lifted.down = {} => OneFinger(Reset(lifted)))
    BY <2>2, ResetSound
  <2>5. OneFinger(a) => lifted.down = {}
    BY <2>2 DEF OneFinger
  <2> QED
    BY <2>2, <2>3, <2>4, <2>5 DEF SoundOutcome
<1> QED
  BY <1>1, <1>2

\* Restart: the other contact, alone, when what was down is lifted.
LEMMA RestartSound ==
  ASSUME NEW a \in Controllers, NEW lifted \in SUBSET AimIds, NEW old \in AimIds, NEW dx \in Int,
         NEW room \in BOOLEAN, OneFinger(a) => a.down \subseteq lifted
  PROVE  SoundOutcome(a, Restart(a, lifted, old, dx, room), room)
<1> DEFINE fresh == [a EXCEPT !.active = a.next, !.next = old, !.pending = FALSE, !.residual = 0,
                              !.down = (@ \ lifted) \cup {a.next}, !.pos = Origin]
           moved == [fresh EXCEPT !.pos = Clamp(Origin + dx)]
<1>1. Origin \in Region /\ Clamp(Origin + dx) \in Region
  BY AimAssumption, ClampInRegion DEF Region
<1>0. a.next \in AimIds /\ a.down \in SUBSET AimIds
  BY DEF Controllers
<1>2. fresh \in Controllers
  <2> DEFINE d == (a.down \ lifted) \cup {a.next}
             b1 == [a EXCEPT !.active = a.next]
             b2 == [b1 EXCEPT !.next = old]
             b3 == [b2 EXCEPT !.pending = FALSE]
             b4 == [b3 EXCEPT !.residual = 0]
             b5 == [b4 EXCEPT !.down = d]
             b6 == [b5 EXCEPT !.pos = Origin]
  <2>1. d \in SUBSET AimIds
    BY <1>0
  <2>2. fresh = b6
    OBVIOUS
  <2>3. b1 \in Controllers
    BY <1>0, ControllerFields
  <2> HIDE DEF fresh, d, b1
  <2>4. b2 \in Controllers
    BY <2>3, ControllerFields
  <2> HIDE DEF b2
  <2>5. b3 \in Controllers
    BY <2>4, ControllerFields
  <2> HIDE DEF b3
  <2>6. b4 \in Controllers
    BY <2>5, ControllerFields
  <2> HIDE DEF b4
  <2>7. b5 \in Controllers
    BY <2>1, <2>6, ControllerFields
  <2> HIDE DEF b5
  <2> QED
    BY <1>1, <2>2, <2>7, ControllerFields
<1>6. /\ fresh.active = a.next /\ fresh.pending = FALSE
      /\ fresh.down = (a.down \ lifted) \cup {a.next}
  BY DEF Controllers
<1>3. OneFinger(a) => OneFinger(fresh)
  <2>1. a.next # "none"
    BY <1>0 DEF AimIds
  <2> QED
    BY <1>6, <2>1 DEF OneFinger
<1>4. Restart(a, lifted, old, dx, room) =
        [done |-> moved, fits |-> room /\ a.next \notin a.down,
         fails |-> {a} \cup (IF moved # fresh /\ room THEN {fresh} ELSE {})]
  BY DEF Restart
<1> HIDE DEF fresh
<1>5. moved \in Controllers /\ (OneFinger(fresh) => OneFinger(moved))
  BY <1>1, <1>2, MovedController
<1> HIDE DEF moved
<1> QED
  BY <1>2, <1>3, <1>4, <1>5 DEF SoundOutcome

\* Recenter: in one frame, or with a gap.
LEMMA RecenterSound ==
  ASSUME NEW a \in Controllers, NEW gap \in BOOLEAN, NEW dx \in Int, NEW room \in BOOLEAN,
         a.active # "none"
  PROVE  SoundOutcome(a, Recenter(a, gap, dx, room), room)
<1>0. a.active \in AimIds
  BY DEF Controllers
<1>1. CASE ~gap
  <2>1. OneFinger(a) => a.down \subseteq {a.active}
    BY DEF OneFinger
  <2> QED
    BY <1>0, <1>1, <2>1, RestartSound DEF Recenter
<1>2. CASE gap
  <2> DEFINE done == [a EXCEPT !.active = "none", !.pending = TRUE, !.previous = a.active,
                               !.residual = dx, !.down = @ \ {a.active}, !.pos = Origin]
  <2>1. Origin \in Region
    BY AimAssumption DEF Region
  <2>2. /\ done \in Controllers /\ done.active = "none" /\ done.down = a.down \ {a.active}
    BY <1>0, <2>1 DEF Controllers
  <2>3. OneFinger(a) => OneFinger(done) /\ done.down = {}
    BY <2>2 DEF OneFinger
  <2>4. Recenter(a, gap, dx, room) = [done |-> done, fits |-> TRUE, fails |-> {a}]
    BY <1>2 DEF Recenter
  <2> HIDE DEF done
  <2> QED
    BY <2>2, <2>3, <2>4 DEF SoundOutcome
<1> QED
  BY <1>1, <1>2

\* tick
LEMMA TickAimSound ==
  ASSUME NEW a \in Controllers, NEW due \in BOOLEAN, NEW room \in BOOLEAN
  PROVE  SoundOutcome(a, TickAim(a, due, room), room)
<1>1. CASE due /\ a.pending
  <2>1. a.previous \in AimIds /\ a.residual \in Int
    BY DEF Controllers
  <2>2. OneFinger(a) => a.down \subseteq {}
    BY <1>1 DEF OneFinger
  <2> QED
    BY <1>1, <2>1, <2>2, RestartSound DEF TickAim
<1>2. CASE due /\ ~a.pending /\ a.active # "none"
  BY <1>2 DEF TickAim, SoundOutcome
<1>3. CASE ~due \/ (~a.pending /\ a.active = "none")
  <2>1. TickAim(a, due, room) = Ignored(a)
    BY <1>3 DEF TickAim
  <2> QED
    BY <2>1, IgnoredSound
<1> QED
  BY <1>1, <1>2, <1>3

\* move_by
LEMMA MoveBySound ==
  ASSUME NEW a \in Controllers, NEW gap \in BOOLEAN, NEW dx \in Int, NEW due \in BOOLEAN,
         NEW room \in BOOLEAN
  PROVE  SoundOutcome(a, MoveBy(a, gap, dx, due, room), room)
<1> DEFINE s == ScaledDelta(a, dx)
           b == [a EXCEPT !.carry = s.carry]
           target == Clamp(a.pos + s.whole)
           c == [b EXCEPT !.residual = @ + s.whole]
           d == [b EXCEPT !.pos = target]
<1>1. s.whole \in Int /\ s.carry \in Int /\ a.pos \in Region /\ a.pos \in Int
  BY ScaledIsInt, AimAssumption DEF Controllers, Region
<1>2. target \in Region
  BY <1>1, ClampInRegion
<1>3. MoveBy(a, gap, dx, due, room) =
        IF ~AimIsActive(a) THEN Ignored(a)
        ELSE IF a.pending THEN TickAim(c, due, room)
        ELSE IF target = a.pos THEN Ignored(b)
        ELSE IF PastThreshold(target) THEN Recenter(b, gap, s.whole, room)
        ELSE [done |-> d, fits |-> TRUE, fails |-> {b}]
  BY DEF MoveBy
<1> HIDE DEF s, target
<1>4. /\ b \in Controllers /\ b.active = a.active /\ b.pending = a.pending /\ b.down = a.down
      /\ b.residual \in Int
  BY <1>1 DEF Controllers
<1> HIDE DEF b
<1>5. /\ c \in Controllers /\ c.active = a.active /\ c.pending = a.pending /\ c.down = a.down
  BY <1>1, <1>4 DEF Controllers
<1>6. /\ d \in Controllers /\ d.active = a.active /\ d.pending = a.pending /\ d.down = a.down
  BY <1>2, <1>4 DEF Controllers
<1> HIDE DEF c, d
<1>7. OneFinger(a) <=> OneFinger(b)
  BY <1>4 DEF OneFinger
<1>8. OneFinger(a) <=> OneFinger(c)
  BY <1>5 DEF OneFinger
<1>9. OneFinger(a) <=> OneFinger(d)
  BY <1>6 DEF OneFinger
<1>10. CASE ~AimIsActive(a)
  BY <1>3, <1>10, IgnoredSound
<1>11. CASE AimIsActive(a) /\ a.pending
  <2>1. SoundOutcome(c, TickAim(c, due, room), room)
    BY <1>5, TickAimSound
  <2> QED
    BY <1>3, <1>5, <1>8, <1>11, <2>1 DEF SoundOutcome
<1>12. CASE AimIsActive(a) /\ ~a.pending /\ target = a.pos
  <2>1. SoundOutcome(b, Ignored(b), room)
    BY <1>4, IgnoredSound
  <2> QED
    BY <1>3, <1>4, <1>7, <1>12, <2>1 DEF SoundOutcome
<1>13. CASE AimIsActive(a) /\ ~a.pending /\ target # a.pos /\ PastThreshold(target)
  <2>1. b.active # "none"
    BY <1>4, <1>13 DEF AimIsActive
  <2>2. SoundOutcome(b, Recenter(b, gap, s.whole, room), room)
    BY <1>1, <1>4, <2>1, RecenterSound
  <2> QED
    BY <1>3, <1>4, <1>7, <1>13, <2>2 DEF SoundOutcome
<1>14. CASE AimIsActive(a) /\ ~a.pending /\ target # a.pos /\ ~PastThreshold(target)
  <2>1. MoveBy(a, gap, dx, due, room) = [done |-> d, fits |-> TRUE, fails |-> {b}]
    BY <1>3, <1>14
  <2> QED
    BY <1>4, <1>6, <1>9, <2>1 DEF SoundOutcome
<1> QED
  BY <1>10, <1>11, <1>12, <1>13, <1>14

-----------------------------------------------------------------------------
(* Counting touches *)

\* The controls 1 .. n whose finger is down, the aims' fingers, and both with the cursor.
FingersDown(n, f) == {i \in 1 .. n : f[i] # {}}
AimsDown(n, a) == {ia \in (1 .. n) \X AimIds : ia[2] \in a[ia[1]].down}
Touches(n, f, a, c) ==
  Cardinality(FingersDown(n, f)) + Cardinality(AimsDown(n, a)) + (IF c THEN 1 ELSE 0)

\* Fingers counts touches.
LEMMA FingersAreTouches ==
  ASSUME NEW s
  PROVE  Fingers(s) = Touches(Size, s.finger, s.aims, cursor)
BY DEF Fingers, Touches, FingersDown, AimsDown, Controls, Size

\* There are finitely many.
LEMMA DownFinite ==
  ASSUME NEW n \in Nat, NEW f, NEW a, NEW c \in BOOLEAN
  PROVE  /\ IsFiniteSet(FingersDown(n, f)) /\ IsFiniteSet(AimsDown(n, a))
         /\ Cardinality(FingersDown(n, f)) \in Nat /\ Cardinality(AimsDown(n, a)) \in Nat
         /\ Touches(n, f, a, c) \in Nat
<1>1. IsFiniteSet(1 .. n)
  BY FS_Interval
<1>2. IsFiniteSet(AimIds)
  <2>1. AimIds = ({} \cup {"primary"}) \cup {"alternate"}
    BY DEF AimIds
  <2> QED
    BY <2>1, FS_EmptySet, FS_AddElement
<1>3. IsFiniteSet((1 .. n) \X AimIds)
  BY <1>1, <1>2, FS_Product
<1>4. IsFiniteSet(FingersDown(n, f))
  <2>1. FingersDown(n, f) \in SUBSET (1 .. n)
    BY DEF FingersDown
  <2> QED
    BY <1>1, <2>1, FS_Subset
<1>5. IsFiniteSet(AimsDown(n, a))
  <2>1. AimsDown(n, a) \in SUBSET ((1 .. n) \X AimIds)
    BY DEF AimsDown
  <2> QED
    BY <1>3, <2>1, FS_Subset
<1>6. Cardinality(FingersDown(n, f)) \in Nat /\ Cardinality(AimsDown(n, a)) \in Nat
  BY <1>4, <1>5, FS_CardinalityType
<1> QED
  BY <1>4, <1>5, <1>6 DEF Touches

\* More fingers, more touches.
LEMMA MoreTouches ==
  ASSUME NEW n \in Nat, NEW f, NEW g, NEW a, NEW b, NEW c \in BOOLEAN,
         FingersDown(n, f) \subseteq FingersDown(n, g),
         AimsDown(n, a) \subseteq AimsDown(n, b)
  PROVE  Touches(n, f, a, c) <= Touches(n, g, b, c)
<1>1. /\ IsFiniteSet(FingersDown(n, g)) /\ IsFiniteSet(AimsDown(n, b))
      /\ Cardinality(FingersDown(n, f)) \in Nat /\ Cardinality(AimsDown(n, a)) \in Nat
      /\ Cardinality(FingersDown(n, g)) \in Nat /\ Cardinality(AimsDown(n, b)) \in Nat
  BY DownFinite
<1>2. Cardinality(FingersDown(n, f)) <= Cardinality(FingersDown(n, g))
  BY <1>1, FS_Subset
<1>3. Cardinality(AimsDown(n, a)) <= Cardinality(AimsDown(n, b))
  BY <1>1, FS_Subset
<1> QED
  BY <1>1, <1>2, <1>3 DEF Touches

\* One aim that has one finger, at most, adds one touch, and none if it had one before.
LEMMA OneAimMoves ==
  ASSUME NEW n \in Nat, NEW f, NEW a, NEW b, NEW c \in BOOLEAN, NEW i \in 1 .. n, NEW y \in AimIds,
         \A j \in 1 .. n : j # i => a[j].down = b[j].down,
         b[i].down \subseteq {y}
  PROVE  /\ Touches(n, f, b, c) <= Touches(n, f, a, c) + 1
         /\ a[i].down \cap AimIds # {} => Touches(n, f, b, c) <= Touches(n, f, a, c)
<1>1. /\ IsFiniteSet(AimsDown(n, a)) /\ IsFiniteSet(AimsDown(n, b))
      /\ Cardinality(FingersDown(n, f)) \in Nat
      /\ Cardinality(AimsDown(n, a)) \in Nat /\ Cardinality(AimsDown(n, b)) \in Nat
  BY DownFinite
<1>2. Cardinality(AimsDown(n, b)) <= Cardinality(AimsDown(n, a)) + 1
  <2> DEFINE S == AimsDown(n, a) \cup {<<i, y>>}
  <2>1. AimsDown(n, b) \subseteq S
    BY DEF AimsDown
  <2>2. IsFiniteSet(S) /\ Cardinality(S) <= Cardinality(AimsDown(n, a)) + 1
    <3>1. /\ IsFiniteSet(S)
          /\ Cardinality(S) = IF <<i, y>> \in AimsDown(n, a) THEN Cardinality(AimsDown(n, a))
                              ELSE Cardinality(AimsDown(n, a)) + 1
      BY <1>1, FS_AddElement
    <3> QED
      BY <1>1, <3>1
  <2> HIDE DEF S
  <2>3. Cardinality(AimsDown(n, b)) <= Cardinality(S) /\ Cardinality(S) \in Nat
    BY <2>1, <2>2, FS_Subset, FS_CardinalityType
  <2> QED
    BY <1>1, <2>2, <2>3
<1>3. ASSUME a[i].down \cap AimIds # {}
      PROVE  Cardinality(AimsDown(n, b)) <= Cardinality(AimsDown(n, a))
  <2>1. PICK z \in AimIds : z \in a[i].down
    BY <1>3
  <2> DEFINE R == AimsDown(n, a) \ {<<i, z>>}
             S == R \cup {<<i, y>>}
  <2>2. <<i, z>> \in AimsDown(n, a)
    BY <2>1 DEF AimsDown
  <2>3. IsFiniteSet(R) /\ Cardinality(R) = Cardinality(AimsDown(n, a)) - 1
    BY <1>1, <2>2, FS_RemoveElement
  <2>4. ASSUME NEW w \in AimsDown(n, b) PROVE w \in S
    <3>1. w \in (1 .. n) \X AimIds /\ w[2] \in b[w[1]].down /\ w = <<w[1], w[2]>>
      BY <2>4 DEF AimsDown
    <3>2. CASE w[1] = i
      <4>1. w[2] = y
        BY <3>1, <3>2
      <4> QED
        BY <3>1, <3>2, <4>1
    <3>3. CASE w[1] # i
      <4>1. w \in AimsDown(n, a)
        BY <3>1, <3>3 DEF AimsDown
      <4>2. w # <<i, z>>
        BY <3>3
      <4> QED
        BY <4>1, <4>2
    <3> QED
      BY <3>2, <3>3
  <2> HIDE DEF R
  <2>5. IsFiniteSet(S) /\ Cardinality(S) <= Cardinality(R) + 1
    <3>1. /\ IsFiniteSet(S)
          /\ Cardinality(S) = IF <<i, y>> \in R THEN Cardinality(R) ELSE Cardinality(R) + 1
      BY <2>3, FS_AddElement
    <3>2. Cardinality(R) \in Nat
      BY <2>3, FS_CardinalityType
    <3> QED
      BY <3>1, <3>2
  <2> HIDE DEF S
  <2>6. Cardinality(AimsDown(n, b)) <= Cardinality(S) /\ Cardinality(S) \in Nat
    BY <2>4, <2>5, FS_Subset, FS_CardinalityType
  <2>7. Cardinality(R) \in Nat
    BY <2>3, FS_CardinalityType
  <2> QED
    BY <1>1, <2>3, <2>5, <2>6, <2>7
<1> HIDE DEF Touches
<1>4. Touches(n, f, b, c) <= Touches(n, f, a, c) + 1
  BY <1>1, <1>2 DEF Touches
<1>5. a[i].down \cap AimIds # {} => Touches(n, f, b, c) <= Touches(n, f, a, c)
  BY <1>1, <1>3 DEF Touches
<1> QED
  BY <1>4, <1>5

\* A set of natural numbers that is not empty has a lowest one.
LEMMA HasLowest ==
  ASSUME NEW S, S \subseteq Nat, S # {}
  PROVE  \E i \in S : \A j \in S : i <= j
<1> DEFINE R == {ss \in Nat \X Nat : ss[1] < ss[2]}
<1>1. IsWellFoundedOn(R, Nat)
  BY NatLessThanWellFounded, Zenon DEF OpToRel
<1>2. PICK i \in S : \A j \in S : ~(<<j, i>> \in R)
  BY <1>1, WFMin
<1>3. ASSUME NEW j \in S PROVE i <= j
  <2>1. i \in Nat /\ j \in Nat
    OBVIOUS
  <2>2. j < i => <<j, i>> \in R
    BY <2>1
  <2> QED
    BY <1>2, <2>1, <2>2
<1> QED
  BY <1>3

-----------------------------------------------------------------------------
(* The invariant *)

\* A control is engaged by roles it has.
RolesFit == \A i \in Controls : engaged[i] \subseteq RolesOf(Kind(i))

\* What is engaged is available to the control it is engaged by.
Settled == \A i \in Controls : \A r \in engaged[i] : Available(i, Key(i, r), held, layers)

FingersFollow == \A i \in Controls : finger[i] = Target(engaged[i])

AimsHaveOneFinger == \A i \in Controls : OneFinger(aims[i])

\* The touchscreen has a slot for every touch.
FitsSlots == Touches(Size, finger, aims, cursor) <= MaxContacts

RuntimeInv ==
  /\ TypeOK
  /\ RolesFit
  /\ at = "up" => Settled /\ FingersFollow /\ AimsHaveOneFinger /\ FitsSlots
  /\ NothingOutlivesSession

\* What validation says of a plan.
LEMMA PlanFacts ==
  ASSUME plan \in Plans
  PROVE  /\ Size \in Nat /\ Controls = 1 .. Size
         /\ LayerIds \subseteq Nat \ {0}
         /\ \A i \in Controls : /\ Kind(i) \in ControlKinds
                                /\ Layer(i) \in {0} \cup LayerIds
                                /\ \A r \in RolesOf(Kind(i)) : /\ Key(i, r) \in Inputs
                                                               /\ Uses(i, Key(i, r))
         /\ \A i, j \in Controls : \A x :
              i # j /\ Layer(i) = Layer(j) /\ Modifier(i) = Modifier(j) => ~(Uses(i, x) /\ Uses(j, x))
<1>1. IsPlan(plan)
  BY PlansAssumption
<1>2. Size \in Nat /\ Controls = 1 .. Size
  BY <1>1 DEF IsPlan, Size, Controls
<1>3. LayerIds \subseteq Nat \ {0}
  BY <1>1 DEF IsPlan, LayerIds
<1>4. ASSUME NEW i \in Controls
      PROVE  /\ Kind(i) \in ControlKinds
             /\ Layer(i) \in {0} \cup LayerIds
             /\ \A r \in RolesOf(Kind(i)) : Key(i, r) \in Inputs /\ Uses(i, Key(i, r))
  <2>1. IsControl(plan.controls[i], LayerIds)
    BY <1>1, <1>2 DEF IsPlan, LayerIds, Size
  <2>2. Kind(i) \in ControlKinds /\ Layer(i) \in {0} \cup LayerIds
    BY <2>1 DEF IsControl, Kind, Layer
  <2>3. ASSUME NEW r \in RolesOf(Kind(i)) PROVE Key(i, r) \in Inputs /\ Uses(i, Key(i, r))
    <3>1. r \in DOMAIN plan.controls[i].keys
      BY <2>1 DEF IsControl, Kind
    <3>2. Key(i, r) \in Inputs
      BY <2>1, <3>1 DEF IsControl, Key, Inputs
    <3>3. Uses(i, Key(i, r))
      BY <3>1 DEF Uses, InputsOf, Key
    <3> QED
      BY <3>2, <3>3
  <2> QED
    BY <2>2, <2>3
<1>5. ASSUME NEW i \in Controls, NEW j \in Controls, NEW x,
             i # j, Layer(i) = Layer(j), Modifier(i) = Modifier(j)
      PROVE  ~(Uses(i, x) /\ Uses(j, x))
  <2>1. InputsOf(plan.controls[i]) \cap InputsOf(plan.controls[j]) = {}
    BY <1>1, <1>2, <1>5 DEF IsPlan, Layer, Modifier, Size
  <2> QED
    BY <2>1 DEF Uses
<1> QED
  BY <1>2, <1>3, <1>4, <1>5

\* The roles of a kind are roles.
LEMMA RolesOfRoles ==
  ASSUME NEW kind
  PROVE  RolesOf(kind) \subseteq Roles
BY DEF RolesOf, Roles, Directions

\* Opposite directions cancel, and nothing is added.
LEMMA TargetIsPart ==
  ASSUME NEW e
  PROVE  Target(e) \subseteq e
BY DEF Target

\* A role that a control wants is its own and available to it.
LEMMA DesiredIsAvailable ==
  ASSUME NEW i, NEW e, NEW h, NEW ly, NEW r \in Desired(i, e, h, ly), e \subseteq RolesOf(Kind(i))
  PROVE  r \in RolesOf(Kind(i)) /\ Available(i, Key(i, r), h, ly)
<1>1. CASE Kind(i) \in {"hold", "stick"}
  <2>1. Desired(i, e, h, ly) = {d \in RolesOf(Kind(i)) : /\ Key(i, d) \in h
                                                         /\ Key(i, d) \notin LayerKeys
                                                         /\ Available(i, Key(i, d), h, ly)}
    BY <1>1 DEF Desired
  <2> QED
    BY <2>1
<1>2. CASE Kind(i) = "toggle_stick"
  <2>1. Desired(i, e, h, ly) = {d \in e : Available(i, Key(i, d), h, ly)}
    BY <1>2 DEF Desired
  <2> QED
    BY <2>1
<1>3. CASE Kind(i) \notin {"hold", "stick", "toggle_stick"}
  <2>1. Desired(i, e, h, ly) = {}
    BY <1>3 DEF Desired
  <2> QED
    BY <2>1
<1> QED
  BY <1>1, <1>2, <1>3

\* So is one that a pressed key toggles.
LEMMA FlippedIsAvailable ==
  ASSUME NEW i, NEW x, NEW h, NEW ly, NEW r \in Flipped(i, x, h, ly)
  PROVE  r \in RolesOf(Kind(i)) /\ Available(i, Key(i, r), h, ly)
<1>1. Kind(i) = "toggle_stick" /\ Available(i, x, h, ly) /\ r \in Directions /\ Key(i, r) = x
  BY DEF Flipped
<1>2. RolesOf(Kind(i)) = Directions
  BY <1>1 DEF RolesOf
<1> QED
  BY <1>1, <1>2

\* Along a handler a control is engaged by roles it has; what it has been given in it is
\* available.
LEMMA EngagedAlong ==
  ASSUME plan \in Plans, RolesFit, NEW i \in Controls, NEW c \in Int, NEW x, NEW h, NEW ly
  PROVE  /\ EngagedAfter(c, i, x, h, ly) \subseteq RolesOf(Kind(i))
         /\ c >= EngageStep(i) =>
              \A r \in EngagedAfter(c, i, x, h, ly) : Available(i, Key(i, r), h, ly)
         /\ c <= 0 => EngagedAfter(c, i, x, h, ly) = engaged[i]
<1> DEFINE want == Desired(i, engaged[i], h, ly)
           flip == Flipped(i, x, h, ly)
           e == EngagedAfter(c, i, x, h, ly)
<1>1. engaged[i] \subseteq RolesOf(Kind(i))
  BY DEF RolesFit
<1>2. \A r \in want : r \in RolesOf(Kind(i)) /\ Available(i, Key(i, r), h, ly)
  BY <1>1, DesiredIsAvailable
<1>3. \A r \in flip : r \in RolesOf(Kind(i)) /\ Available(i, Key(i, r), h, ly)
  BY FlippedIsAvailable
<1>4. i \in 1 .. Size /\ Size \in Nat
  BY PlanFacts
<1>5. /\ DriveStep(i) \in Int /\ EngageStep(i) \in Int /\ ReleaseStep(i) \in Int
      /\ 0 < ReleaseStep(i) /\ ReleaseStep(i) <= EngageStep(i) /\ EngageStep(i) <= DriveStep(i)
  BY <1>4 DEF DriveStep, EngageStep, ReleaseStep
<1>6. e = IF c >= DriveStep(i) THEN SymDiff(want, flip)
          ELSE IF c >= EngageStep(i) THEN want
          ELSE IF c >= ReleaseStep(i) THEN engaged[i] \cap want
          ELSE engaged[i]
  BY DEF EngagedAfter
<1> HIDE DEF want, flip, e
<1>7. \A r \in SymDiff(want, flip) : r \in want \/ r \in flip
  BY DEF SymDiff
<1>8. e \subseteq RolesOf(Kind(i))
  BY <1>1, <1>2, <1>3, <1>6, <1>7
<1>9. c >= EngageStep(i) => \A r \in e : Available(i, Key(i, r), h, ly)
  BY <1>2, <1>3, <1>5, <1>6, <1>7
<1>10. c <= 0 => e = engaged[i]
  BY <1>5, <1>6
<1> QED
  BY <1>8, <1>9, <1>10 DEF e

\* Along a handler a finger is where the engaged roles put it, but for a tap's.
LEMMA FingerAlong ==
  ASSUME TypeOK, RolesFit, NEW i \in Controls, NEW c \in Int, NEW x, NEW h, NEW ly
  PROVE  /\ FingerAfter(c, i, x, h, ly) \subseteq Roles
         /\ FingersFollow /\ (c = DownStep(i) => ~Tapped(i, x, h, ly)) =>
              FingerAfter(c, i, x, h, ly) = Target(EngagedAfter(c, i, x, h, ly))
         /\ c <= 0 => FingerAfter(c, i, x, h, ly) = finger[i]
<1>1. plan \in Plans /\ finger[i] \subseteq Roles
  BY DEF TypeOK
<1>2. i \in 1 .. Size /\ Size \in Nat
  BY <1>1, PlanFacts
<1>3. DownStep(i) \in Int /\ 0 < DownStep(i)
  BY <1>2 DEF DownStep
<1> DEFINE e == EngagedAfter(c, i, x, h, ly)
           f == FingerAfter(c, i, x, h, ly)
<1>4. f = IF c = DownStep(i) /\ Tapped(i, x, h, ly) THEN {"press"}
          ELSE IF e = engaged[i] THEN finger[i] ELSE Target(e)
  BY DEF FingerAfter
<1>5. e \subseteq Roles /\ (c <= 0 => e = engaged[i])
  BY <1>1, EngagedAlong, RolesOfRoles
<1> HIDE DEF e, f
<1>6. Target(e) \subseteq Roles
  BY <1>5, TargetIsPart
<1>7. f \subseteq Roles
  BY <1>1, <1>4, <1>6 DEF Roles
<1>8. FingersFollow /\ (c = DownStep(i) => ~Tapped(i, x, h, ly)) => f = Target(e)
  BY <1>4 DEF FingersFollow
<1>9. c <= 0 => f = finger[i]
  BY <1>3, <1>4, <1>5
<1> QED
  BY <1>7, <1>8, <1>9 DEF e, f

\* toggle
LEMMA ToggleSound ==
  ASSUME NEW a \in Controllers
  PROVE  /\ Toggle(a, TRUE).done \in Controllers
         /\ OneFinger(a) => OneFinger(Toggle(a, TRUE).done)
<1>1. CASE AimIsActive(a)
  <2>1. SoundOutcome(a, Deactivate(a), TRUE)
    BY DeactivateSound
  <2> QED
    BY <1>1, <2>1 DEF Toggle, SoundOutcome
<1>2. CASE ~AimIsActive(a)
  <2>1. SoundOutcome(a, Activate(a, TRUE), TRUE)
    BY ActivateSound
  <2> QED
    BY <1>2, <2>1 DEF Toggle, SoundOutcome
<1> QED
  BY <1>1, <1>2

\* Along a handler aims are controllers, each with its finger.
LEMMA AimAlong ==
  ASSUME plan \in Plans, NEW a \in [Controls -> Controllers], NEW i \in Controls, NEW c \in Int, NEW x
  PROVE  /\ AimAfter(c, i, x, a) \in Controllers
         /\ OneFinger(a[i]) => OneFinger(AimAfter(c, i, x, a))
         /\ c <= 0 \/ x = NoKey => AimAfter(c, i, x, a) = a[i]
<1>1. i \in 1 .. Size /\ Size \in Nat
  BY PlanFacts
<1>2. ToggleStep(i) \in Int /\ 0 < ToggleStep(i)
  BY <1>1 DEF ToggleStep
<1>3. a[i] \in Controllers
  OBVIOUS
<1>4. Toggle(a[i], TRUE).done \in Controllers /\ (OneFinger(a[i]) => OneFinger(Toggle(a[i], TRUE).done))
  BY <1>3, ToggleSound
<1>5. AimAfter(c, i, x, a) = Toggle(a[i], TRUE).done \/ AimAfter(c, i, x, a) = a[i]
  BY DEF AimAfter
<1>6. ASSUME c <= 0 \/ x = NoKey PROVE AimAfter(c, i, x, a) = a[i]
  <2>1. ~(c >= ToggleStep(i) /\ x # NoKey)
    BY <1>2, <1>6
  <2> QED
    BY <2>1 DEF AimAfter
<1> QED
  BY <1>3, <1>4, <1>5, <1>6

-----------------------------------------------------------------------------
(* A handler's steps *)

\* The runtime along a handler is typed, and at its start what it was.
LEMMA StateAlong ==
  ASSUME TypeOK, RolesFit, NEW a \in [Controls -> Controllers], NEW c \in Int, NEW x, NEW h, NEW ly,
         NEW s, s = RuntimeAfter(c, x, h, ly, a)
  PROVE  /\ s.engaged \in [Controls -> SUBSET Roles]
         /\ \A i \in Controls : s.engaged[i] \subseteq RolesOf(Kind(i))
         /\ s.finger \in [Controls -> SUBSET Roles]
         /\ s.aims \in [Controls -> Controllers]
         /\ c = 0 => s.engaged = engaged /\ s.finger = finger /\ s.aims = a
<1>1. plan \in Plans /\ engaged \in [Controls -> SUBSET Roles] /\ finger \in [Controls -> SUBSET Roles]
  BY DEF TypeOK
<1>2. /\ s.engaged = [i \in Controls |-> EngagedAfter(c, i, x, h, ly)]
      /\ s.finger = [i \in Controls |-> FingerAfter(c, i, x, h, ly)]
      /\ s.aims = [i \in Controls |-> AimAfter(c, i, x, a)]
  BY DEF RuntimeAfter
<1>3. \A i \in Controls : /\ EngagedAfter(c, i, x, h, ly) \subseteq RolesOf(Kind(i))
                          /\ c <= 0 => EngagedAfter(c, i, x, h, ly) = engaged[i]
  BY <1>1, EngagedAlong
<1>4. \A i \in Controls : /\ FingerAfter(c, i, x, h, ly) \subseteq Roles
                          /\ c <= 0 => FingerAfter(c, i, x, h, ly) = finger[i]
  BY FingerAlong
<1>5. \A i \in Controls : /\ AimAfter(c, i, x, a) \in Controllers
                          /\ c <= 0 => AimAfter(c, i, x, a) = a[i]
  BY <1>1, AimAlong
<1>6. \A i \in Controls : s.engaged[i] \subseteq RolesOf(Kind(i))
  BY <1>2, <1>3
<1>7. s.engaged \in [Controls -> SUBSET Roles]
  BY <1>2, <1>3, RolesOfRoles
<1>8. s.finger \in [Controls -> SUBSET Roles]
  BY <1>2, <1>4
<1>9. s.aims \in [Controls -> Controllers]
  BY <1>2, <1>5
<1>10. ASSUME c = 0 PROVE s.engaged = engaged /\ s.finger = finger /\ s.aims = a
  <2>1. s.engaged = engaged
    BY <1>1, <1>2, <1>3, <1>10
  <2>2. s.finger = finger
    BY <1>1, <1>2, <1>4, <1>10
  <2>3. s.aims = a
    BY <1>2, <1>5, <1>10
  <2> QED
    BY <2>1, <2>2, <2>3
<1> QED
  BY <1>6, <1>7, <1>8, <1>9, <1>10

\* What a refused toggle forgets leaves controllers.
LEMMA RefusedTyped ==
  ASSUME NEW s, NEW t, s.aims \in [Controls -> Controllers]
  PROVE  AimsRefused(s, t) \in [Controls -> Controllers]
<1>1. ASSUME NEW i \in Controls
      PROVE  s.aims[i] \in Controllers /\ [s.aims[i] EXCEPT !.active = "none"] \in Controllers
  BY ControllerFields
<1> QED
  BY <1>1 DEF AimsRefused

\* However far it gets, a handler leaves the runtime typed.
LEMMA RunTyped ==
  ASSUME TypeOK, RolesFit, NEW a \in [Controls -> Controllers], NEW last \in Nat, NEW x, NEW h, NEW ly,
         Run(last, x, h, ly, a)
  PROVE  /\ at' \in {"up", "failed"}
         /\ engaged' \in [Controls -> SUBSET Roles]
         /\ \A i \in Controls : engaged'[i] \subseteq RolesOf(Kind(i))
         /\ finger' \in [Controls -> SUBSET Roles]
         /\ aims' \in [Controls -> Controllers]
<1>1. CASE at' = "up" /\ Becomes(RuntimeAfter(last, x, h, ly, a))
  <2>1. PICK s : s = RuntimeAfter(last, x, h, ly, a)
    OBVIOUS
  <2>2. engaged' = s.engaged /\ finger' = s.finger /\ aims' = s.aims
    BY <1>1, <2>1 DEF Becomes
  <2> QED
    BY <1>1, <2>1, <2>2, StateAlong
<1>2. ASSUME NEW c \in 1 .. last, at' = "failed",
             Becomes([RuntimeAfter(c - 1, x, h, ly, a) EXCEPT
                        !.aims = AimsRefused(RuntimeAfter(c - 1, x, h, ly, a), RuntimeAfter(c, x, h, ly, a))])
      PROVE  /\ at' \in {"up", "failed"}
             /\ engaged' \in [Controls -> SUBSET Roles]
             /\ \A i \in Controls : engaged'[i] \subseteq RolesOf(Kind(i))
             /\ finger' \in [Controls -> SUBSET Roles]
             /\ aims' \in [Controls -> Controllers]
  <2>1. PICK s : s = RuntimeAfter(c - 1, x, h, ly, a)
    OBVIOUS
  <2>2. PICK t : t = RuntimeAfter(c, x, h, ly, a)
    OBVIOUS
  <2>3. s = [engaged |-> s.engaged, finger |-> s.finger, aims |-> s.aims]
    BY <2>1 DEF RuntimeAfter
  <2>4. engaged' = s.engaged /\ finger' = s.finger /\ aims' = AimsRefused(s, t)
    BY <1>2, <2>1, <2>2, <2>3 DEF Becomes
  <2>5. c - 1 \in Int
    OBVIOUS
  <2>6. /\ s.engaged \in [Controls -> SUBSET Roles]
        /\ \A i \in Controls : s.engaged[i] \subseteq RolesOf(Kind(i))
        /\ s.finger \in [Controls -> SUBSET Roles]
        /\ s.aims \in [Controls -> Controllers]
    BY <2>1, <2>5, StateAlong
  <2>7. AimsRefused(s, t) \in [Controls -> Controllers]
    BY <2>6, RefusedTyped
  <2> QED
    BY <1>2, <2>4, <2>6, <2>7
<1>3. \/ at' = "up" /\ Becomes(RuntimeAfter(last, x, h, ly, a))
      \/ \E c \in 1 .. last : /\ at' = "failed"
           /\ Becomes([RuntimeAfter(c - 1, x, h, ly, a) EXCEPT
                !.aims = AimsRefused(RuntimeAfter(c - 1, x, h, ly, a), RuntimeAfter(c, x, h, ly, a))])
  <2> DEFINE after == [c \in 0 .. last |-> RuntimeAfter(c, x, h, ly, a)]
  <2>1. /\ after[last] = RuntimeAfter(last, x, h, ly, a)
        /\ \A c \in 1 .. last : /\ after[c - 1] = RuntimeAfter(c - 1, x, h, ly, a)
                                /\ after[c] = RuntimeAfter(c, x, h, ly, a)
    OBVIOUS
  <2>2. \/ at' = "up" /\ Becomes(after[last])
        \/ \E c \in 1 .. last : /\ at' = "failed"
             /\ Becomes([after[c - 1] EXCEPT !.aims = AimsRefused(after[c - 1], after[c])])
    BY DEF Run
  <2> HIDE DEF after
  <2> QED
    BY <2>1, <2>2
<1> QED
  BY <1>1, <1>2, <1>3

\* A handler that finishes took none but frames the touchscreen has slots for.
LEMMA RunFits ==
  ASSUME TypeOK, RolesFit, NEW a \in [Controls -> Controllers], NEW last \in Nat, NEW x, NEW h, NEW ly,
         Run(last, x, h, ly, a), at' = "up", Touches(Size, finger, a, cursor) <= MaxContacts
  PROVE  /\ Becomes(RuntimeAfter(last, x, h, ly, a))
         /\ Touches(Size, finger', aims', cursor) <= MaxContacts
<1> DEFINE after == [c \in 0 .. last |-> RuntimeAfter(c, x, h, ly, a)]
           T(c) == Touches(Size, after[c].finger, after[c].aims, cursor)
           high == {c \in 0 .. last : ~(T(c) <= MaxContacts)}
<1>1. /\ Becomes(after[last])
      /\ \A c \in 1 .. last : Submits(after[c - 1], after[c]) => ~(Fingers(after[c]) > MaxContacts)
  BY DEF Run
<1>2. plan \in Plans /\ cursor \in BOOLEAN
  BY DEF TypeOK
<1>3. Size \in Nat /\ Controls = 1 .. Size /\ MaxContacts \in Nat
  BY <1>2, PlanFacts, SlotsAssumption
<1>4. \A c \in 0 .. last : T(c) \in Nat /\ Fingers(after[c]) = T(c)
  BY <1>2, <1>3, DownFinite, FingersAreTouches
<1>5. after[0].finger = finger /\ after[0].aims = a
  <2>1. after[0] = RuntimeAfter(0, x, h, ly, a)
    OBVIOUS
  <2> QED
    BY <2>1, StateAlong
<1>6. high = {}
  <2> SUFFICES ASSUME high # {} PROVE FALSE
    OBVIOUS
  <2>1. PICK c \in high : \A d \in high : c <= d
    <3>1. high \subseteq Nat
      OBVIOUS
    <3> HIDE DEF high
    <3> QED
      BY <3>1, HasLowest
  <2>2. c \in 0 .. last /\ ~(T(c) <= MaxContacts)
    BY <2>1
  <2> HIDE DEF after
  <2>3. c # 0
    BY <1>5, <2>2
  <2>4. c \in 1 .. last /\ c - 1 \in 0 .. last
    BY <2>2, <2>3
  <2>5. T(c - 1) <= MaxContacts
    <3>1. c - 1 \notin high
      BY <2>1, <2>2
    <3> QED
      BY <2>4, <3>1
  <2>6. ~Submits(after[c - 1], after[c])
    <3>1. Fingers(after[c]) > MaxContacts
      BY <1>3, <1>4, <2>2
    <3> QED
      BY <1>1, <2>4, <3>1
  <2>7. after[c - 1].finger = after[c].finger
    BY <2>6 DEF Submits
  <2>8. \A i \in Controls : after[c - 1].aims[i].down = after[c].aims[i].down
    BY <2>6 DEF Submits
  <2>9. AimsDown(Size, after[c].aims) = AimsDown(Size, after[c - 1].aims)
    BY <1>3, <2>8 DEF AimsDown
  <2>10. T(c) = T(c - 1)
    BY <2>7, <2>9 DEF Touches
  <2> QED
    BY <2>2, <2>5, <2>10
<1>7. last \in 0 .. last /\ after[last] = RuntimeAfter(last, x, h, ly, a)
  OBVIOUS
<1>8. T(last) <= MaxContacts
  BY <1>6, <1>7
<1> HIDE DEF after
<1>9. finger' = after[last].finger /\ aims' = after[last].aims
  BY <1>1 DEF Becomes
<1> QED
  BY <1>1, <1>7, <1>8, <1>9

\* A handler that finishes has settled every control, and left every finger in its place.
LEMMA RunSettles ==
  ASSUME TypeOK, RolesFit, FingersFollow, NEW a \in [Controls -> Controllers],
         NEW last \in {Reconciled, Steps}, NEW x, NEW h, NEW ly,
         Becomes(RuntimeAfter(last, x, h, ly, a)), NEW i \in Controls
  PROVE  /\ \A r \in engaged'[i] : Available(i, Key(i, r), h, ly)
         /\ finger'[i] = Target(engaged'[i])
         /\ OneFinger(a[i]) => OneFinger(aims'[i])
<1>1. plan \in Plans
  BY DEF TypeOK
<1>2. i \in 1 .. Size /\ Size \in Nat
  BY <1>1, PlanFacts
<1>3. /\ last \in Int
      /\ last >= EngageStep(i) /\ last # DownStep(i)
  BY <1>2 DEF Reconciled, Steps, EngageStep, DownStep
<1>4. /\ engaged'[i] = EngagedAfter(last, i, x, h, ly)
      /\ finger'[i] = FingerAfter(last, i, x, h, ly)
      /\ aims'[i] = AimAfter(last, i, x, a)
  BY DEF Becomes, RuntimeAfter
<1>5. \A r \in engaged'[i] : Available(i, Key(i, r), h, ly)
  BY <1>1, <1>3, <1>4, EngagedAlong
<1>6. finger'[i] = Target(engaged'[i])
  BY <1>3, <1>4, FingerAlong
<1>7. OneFinger(a[i]) => OneFinger(aims'[i])
  BY <1>1, <1>3, <1>4, AimAlong
<1> QED
  BY <1>5, <1>6, <1>7

-----------------------------------------------------------------------------
(* Keys and buttons *)

\* A handler of a key or a button keeps the invariant.
LEMMA Handled ==
  ASSUME RuntimeInv, at = "up", NEW a \in [Controls -> Controllers],
         \A i \in Controls : a[i].down = aims[i].down /\ OneFinger(a[i]),
         NEW h \in SUBSET Inputs, NEW ly \in SUBSET LayerIds, held' = h, layers' = ly,
         UNCHANGED <<plan, cursor>>, NEW x, NEW last \in {Reconciled, Steps}, Run(last, x, h, ly, a)
  PROVE  RuntimeInv'
<1>1. TypeOK /\ RolesFit /\ Settled /\ FingersFollow /\ AimsHaveOneFinger /\ FitsSlots
  BY DEF RuntimeInv
<1>2. plan \in Plans /\ cursor \in BOOLEAN /\ plan' = plan /\ cursor' = cursor
  BY <1>1 DEF TypeOK
<1>3. Size \in Nat /\ Controls = 1 .. Size
  BY <1>2, PlanFacts
<1>4. last \in Nat
  BY <1>3 DEF Reconciled, Steps
<1>5. /\ Controls' = Controls /\ Size' = Size /\ LayerIds' = LayerIds
      /\ \A i : Kind(i)' = Kind(i)
      /\ \A i, r : Key(i, r)' = Key(i, r)
  BY <1>2 DEF Controls, Size, LayerIds, Kind, Key
<1>6. /\ at' \in {"up", "failed"}
      /\ engaged' \in [Controls -> SUBSET Roles]
      /\ \A i \in Controls : engaged'[i] \subseteq RolesOf(Kind(i))
      /\ finger' \in [Controls -> SUBSET Roles]
      /\ aims' \in [Controls -> Controllers]
  BY <1>1, <1>4, RunTyped
<1>7. TypeOK'
  BY <1>2, <1>5, <1>6 DEF TypeOK
<1>8. RolesFit'
  BY <1>5, <1>6 DEF RolesFit
<1>9. NothingOutlivesSession'
  BY <1>6 DEF NothingOutlivesSession
<1>10. ASSUME at' = "up"
       PROVE  (Settled /\ FingersFollow /\ AimsHaveOneFinger /\ FitsSlots)'
  <2>1. Touches(Size, finger, a, cursor) <= MaxContacts
    <3>1. AimsDown(Size, a) = AimsDown(Size, aims)
      BY <1>3 DEF AimsDown
    <3> QED
      BY <1>1, <3>1 DEF FitsSlots, Touches
  <2>2. /\ Becomes(RuntimeAfter(last, x, h, ly, a))
        /\ Touches(Size, finger', aims', cursor) <= MaxContacts
    BY <1>1, <1>4, <1>10, <2>1, RunFits
  <2>3. ASSUME NEW i \in Controls
        PROVE  /\ \A r \in engaged'[i] : Available(i, Key(i, r), h, ly)
               /\ finger'[i] = Target(engaged'[i])
               /\ OneFinger(aims'[i])
    BY <1>1, <2>2, RunSettles
  <2>4. Settled'
    <3>1. ASSUME NEW i \in Controls, NEW r \in engaged'[i]
          PROVE  Available(i, Key(i, r), held, layers)'
      <4>1. PICK y : y = Key(i, r)
        OBVIOUS
      <4>2. Available(i, y, h, ly)
        BY <2>3, <4>1
      <4>3. y = Key(i, r)'
        BY <1>5, <4>1
      <4>4. Available(i, y, h, ly)'
        BY <1>2, <4>2 DEF Available, Shadowed, Suppressed, Layer, Modifier, Uses, Controls
      <4> QED
        BY <4>3, <4>4 DEF Available, Shadowed, Suppressed
    <3> QED
      BY <1>5, <3>1 DEF Settled
  <2>5. FingersFollow'
    BY <1>5, <2>3 DEF FingersFollow
  <2>6. AimsHaveOneFinger'
    BY <1>5, <2>3 DEF AimsHaveOneFinger
  <2>7. FitsSlots'
    BY <1>2, <1>5, <2>2 DEF FitsSlots
  <2> QED
    BY <2>4, <2>5, <2>6, <2>7
<1> QED
  BY <1>7, <1>8, <1>9, <1>10 DEF RuntimeInv

\* A layer's key switches a layer there is.
LEMMA LayersSwitched ==
  ASSUME plan \in Plans, layers \subseteq LayerIds, NEW k, NEW pressed
  PROVE  SwitchLayers(k, pressed) \subseteq LayerIds
<1> DEFINE l == CHOOSE l \in LayerIds : plan.layers[l].key = k
<1>1. CASE k \notin LayerKeys
  BY <1>1 DEF SwitchLayers
<1>2. CASE k \in LayerKeys
  <2>1. \E m \in LayerIds : plan.layers[m].key = k
    BY <1>2 DEF LayerKeys
  <2>2. l \in LayerIds
    BY <2>1
  <2>3. SwitchLayers(k, pressed) =
          IF plan.layers[l].mode = "hold"
          THEN IF pressed THEN layers \cup {l} ELSE layers \ {l}
          ELSE IF pressed THEN SymDiff(layers, {l}) ELSE layers
    BY <1>2 DEF SwitchLayers
  <2> HIDE DEF l
  <2>4. SymDiff(layers, {l}) \subseteq LayerIds
    BY <2>2 DEF SymDiff
  <2> QED
    BY <2>2, <2>3, <2>4
<1> QED
  BY <1>1, <1>2

\* HandleKeyboard keeps the invariant.
LEMMA KeyboardKeeps ==
  ASSUME RuntimeInv, NEW k \in Keys, NEW pressed \in BOOLEAN, HandleKeyboard(k, pressed)
  PROVE  RuntimeInv'
<1>1. TypeOK /\ at = "up" /\ AimsHaveOneFinger
  BY DEF RuntimeInv, HandleKeyboard
<1>2. PICK h : h = held'
  OBVIOUS
<1>3. PICK ly : ly = layers'
  OBVIOUS
<1>4. PICK a : a = aims
  OBVIOUS
<1>5. h \in SUBSET Inputs
  BY <1>1, <1>2 DEF HandleKeyboard, SetHeld, TypeOK, Inputs
<1>6. ly \in SUBSET LayerIds
  BY <1>1, <1>3, LayersSwitched DEF HandleKeyboard, TypeOK
<1>7. a \in [Controls -> Controllers] /\ \A i \in Controls : a[i].down = aims[i].down /\ OneFinger(a[i])
  BY <1>1, <1>4 DEF TypeOK, AimsHaveOneFinger
<1>8. UNCHANGED <<plan, cursor>>
  BY DEF HandleKeyboard
<1>9. Run(Steps, k, h, ly, a) \/ Run(Reconciled, NoKey, h, ly, a)
  BY <1>2, <1>3, <1>4 DEF HandleKeyboard
<1>10. CASE Run(Steps, k, h, ly, a)
  BY <1>1, <1>2, <1>3, <1>5, <1>6, <1>7, <1>8, <1>10, Handled
<1>11. CASE Run(Reconciled, NoKey, h, ly, a)
  BY <1>1, <1>2, <1>3, <1>5, <1>6, <1>7, <1>8, <1>11, Handled
<1> QED
  BY <1>9, <1>10, <1>11

\* Aims stay controllers with the fingers they have when they aim down sights.
LEMMA AimsDownSightsKeep ==
  ASSUME TypeOK, AimsHaveOneFinger, NEW on \in BOOLEAN, NEW a, a = AimsDownSights(on)
  PROVE  /\ a \in [Controls -> Controllers]
         /\ \A i \in Controls : a[i].down = aims[i].down /\ OneFinger(a[i])
<1>1. ASSUME NEW i \in Controls
      PROVE  a[i] \in Controllers /\ a[i].down = aims[i].down /\ OneFinger(a[i])
  <2>1. aims[i] \in Controllers /\ OneFinger(aims[i])
    BY DEF TypeOK, AimsHaveOneFinger
  <2>2. a[i] = IF IsAim(i) THEN SetAds(aims[i], on) ELSE aims[i]
    BY DEF AimsDownSights
  <2>3. /\ SetAds(aims[i], on) \in Controllers /\ SetAds(aims[i], on).down = aims[i].down
        /\ OneFinger(SetAds(aims[i], on))
    BY <2>1, SetAdsSound
  <2> QED
    BY <2>1, <2>2, <2>3
<1>2. a \in [Controls -> Controllers]
  BY <1>1 DEF AimsDownSights
<1> QED
  BY <1>1, <1>2

\* HandleMouseButton keeps the invariant.
LEMMA ButtonKeeps ==
  ASSUME RuntimeInv, NEW b \in Buttons, NEW pressed \in BOOLEAN, HandleMouseButton(b, pressed)
  PROVE  RuntimeInv'
<1>1. TypeOK /\ at = "up" /\ AimsHaveOneFinger
  BY DEF RuntimeInv, HandleMouseButton
<1>2. PICK h : h = held'
  OBVIOUS
<1>3. PICK ly : ly = layers'
  OBVIOUS
<1>4. PICK a : a = IF b = RightButton THEN AimsDownSights(pressed) ELSE aims
  OBVIOUS
<1>5. h \in SUBSET Inputs
  BY <1>1, <1>2 DEF HandleMouseButton, SetHeld, TypeOK, Inputs
<1>6. ly \in SUBSET LayerIds /\ layers = ly
  BY <1>1, <1>3 DEF HandleMouseButton, TypeOK
<1>7. a \in [Controls -> Controllers] /\ \A i \in Controls : a[i].down = aims[i].down /\ OneFinger(a[i])
  <2>1. CASE b = RightButton
    BY <1>1, <1>4, <2>1, AimsDownSightsKeep
  <2>2. CASE b # RightButton
    BY <1>1, <1>4, <2>2 DEF TypeOK, AimsHaveOneFinger
  <2> QED
    BY <2>1, <2>2
<1>8. UNCHANGED <<plan, cursor>>
  BY DEF HandleMouseButton
<1>9. Run(Steps, b, h, ly, a) \/ Run(Reconciled, NoKey, h, ly, a)
  BY <1>2, <1>4, <1>6 DEF HandleMouseButton
<1>10. CASE Run(Steps, b, h, ly, a)
  BY <1>1, <1>2, <1>3, <1>5, <1>6, <1>7, <1>8, <1>10, Handled
<1>11. CASE Run(Reconciled, NoKey, h, ly, a)
  BY <1>1, <1>2, <1>3, <1>5, <1>6, <1>7, <1>8, <1>11, Handled
<1> QED
  BY <1>9, <1>10, <1>11

\* ReleaseMouseButtons keeps the invariant.
LEMMA ReleaseButtonsKeeps ==
  ASSUME RuntimeInv, ReleaseMouseButtons
  PROVE  RuntimeInv'
<1>1. TypeOK /\ at = "up" /\ AimsHaveOneFinger
  BY DEF RuntimeInv, ReleaseMouseButtons
<1>2. PICK h : h = held'
  OBVIOUS
<1>3. PICK ly : ly = layers'
  OBVIOUS
<1>4. PICK a : a = AimsDownSights(FALSE)
  OBVIOUS
<1>5. h \in SUBSET Inputs
  BY <1>1, <1>2 DEF ReleaseMouseButtons, TypeOK
<1>6. ly \in SUBSET LayerIds /\ layers = ly
  BY <1>1, <1>3 DEF ReleaseMouseButtons, TypeOK
<1>7. a \in [Controls -> Controllers] /\ \A i \in Controls : a[i].down = aims[i].down /\ OneFinger(a[i])
  BY <1>1, <1>4, AimsDownSightsKeep
<1>8. UNCHANGED <<plan, cursor>>
  BY DEF ReleaseMouseButtons
<1>9. Run(Reconciled, NoKey, h, ly, a)
  BY <1>2, <1>4, <1>6 DEF ReleaseMouseButtons
<1> QED
  BY <1>1, <1>2, <1>3, <1>5, <1>6, <1>7, <1>8, <1>9, Handled

-----------------------------------------------------------------------------
(* The aims in turn *)

\* O[j][room] is what an operation does to aim j with or without room for a finger.
SoundTurns(O) ==
  \A j \in Controls : \A room \in BOOLEAN :
    SoundOutcome(aims[j], O[j][room], room) /\ O[j][room].done = O[j][TRUE].done

TakeTurns(O) ==
  \/ /\ \A j \in Controls : IsAim(j) => TurnOf(O, j).fits
     /\ aims' = AimsBefore(O, Size + 1)
     /\ at' \in {"up", "failed"}
  \/ \E i \in Controls :
       /\ at' = "failed"
       /\ \E b \in TurnOf(O, i).fails : aims' = [AimsBefore(O, i) EXCEPT ![i] = b]

\* Aim j has had its turn, or has not.
LEMMA HadTurn ==
  ASSUME NEW O, NEW i \in Int, NEW j \in Controls
  PROVE  /\ IsAim(j) /\ j < i => AimsBefore(O, i)[j] = O[j][TRUE].done
         /\ ~IsAim(j) \/ ~(j < i) => AimsBefore(O, i)[j] = aims[j]
<1>1. AimsBefore(O, i)[j] = IF j < i /\ IsAim(j) THEN O[j][TRUE].done ELSE aims[j]
  BY Zenon DEF AimsBefore
<1> QED
  BY <1>1

\* Aims that had their turn are controllers with one finger.
LEMMA TurnsSound ==
  ASSUME TypeOK, AimsHaveOneFinger, NEW O, SoundTurns(O), NEW i
  PROVE  /\ AimsBefore(O, i) \in [Controls -> Controllers]
         /\ \A j \in Controls : OneFinger(AimsBefore(O, i)[j])
<1>1. ASSUME NEW j \in Controls
      PROVE  /\ aims[j] \in Controllers /\ OneFinger(aims[j])
             /\ O[j][TRUE].done \in Controllers /\ OneFinger(O[j][TRUE].done)
  <2>1. aims[j] \in Controllers /\ OneFinger(aims[j])
    BY DEF TypeOK, AimsHaveOneFinger
  <2>2. SoundOutcome(aims[j], O[j][TRUE], TRUE)
    BY DEF SoundTurns
  <2> QED
    BY <2>1, <2>2 DEF SoundOutcome
<1>2. AimsBefore(O, i) \in [Controls -> Controllers]
  BY <1>1 DEF AimsBefore
<1>3. ASSUME NEW j \in Controls PROVE OneFinger(AimsBefore(O, i)[j])
  <2>1. AimsBefore(O, i)[j] = O[j][TRUE].done \/ AimsBefore(O, i)[j] = aims[j]
    BY DEF AimsBefore
  <2> QED
    BY <1>1, <2>1
<1> QED
  BY <1>2, <1>3

\* One turn that fits takes a slot there is.
LEMMA OneTurnFits ==
  ASSUME TypeOK, AimsHaveOneFinger, NEW O, SoundTurns(O), NEW j \in Controls,
         IsAim(j) => TurnOf(O, j).fits,
         Touches(Size, finger, AimsBefore(O, j), cursor) <= MaxContacts
  PROVE  Touches(Size, finger, AimsBefore(O, j + 1), cursor) <= MaxContacts
<1>1. plan \in Plans /\ cursor \in BOOLEAN
  BY DEF TypeOK
<1>2. Size \in Nat /\ Controls = 1 .. Size /\ MaxContacts \in Nat
  BY <1>1, PlanFacts, SlotsAssumption
<1>3. PICK a : a = AimsBefore(O, j)
  OBVIOUS
<1>4. PICK b : b = AimsBefore(O, j + 1)
  OBVIOUS
<1>5. PICK o : o = TurnOf(O, j)
  OBVIOUS
<1>6. /\ Touches(Size, finger, a, cursor) \in Nat
      /\ Touches(Size, finger, b, cursor) \in Nat
  BY <1>1, <1>2, DownFinite
<1>7. ASSUME NEW k \in 1 .. Size, k # j PROVE a[k] = b[k]
  <2>1. j \in Int /\ j + 1 \in Int /\ k \in Controls /\ (k < j <=> k < j + 1)
    BY <1>2, <1>7
  <2>2. CASE IsAim(k) /\ k < j
    BY <1>3, <1>4, <2>1, <2>2, HadTurn
  <2>3. CASE ~IsAim(k) \/ ~(k < j)
    BY <1>3, <1>4, <2>1, <2>3, HadTurn
  <2> QED
    BY <2>2, <2>3
<1>8. a[j] = aims[j] /\ (IsAim(j) => b[j] = O[j][TRUE].done) /\ (~IsAim(j) => b[j] = aims[j])
  <2>1. j \in Int /\ j + 1 \in Int /\ ~(j < j) /\ j < j + 1
    BY <1>2
  <2> QED
    BY <1>3, <1>4, <2>1, HadTurn
<1>9. a[j] \in Controllers /\ b[j] \in Controllers /\ OneFinger(a[j]) /\ OneFinger(b[j])
  BY <1>3, <1>4, TurnsSound
<1>10. CASE b[j].down \subseteq a[j].down
  <2>1. AimsDown(Size, b) \subseteq AimsDown(Size, a)
    BY <1>7, <1>10 DEF AimsDown
  <2>2. Touches(Size, finger, b, cursor) <= Touches(Size, finger, a, cursor)
    BY <1>1, <1>2, <2>1, MoreTouches
  <2> QED
    BY <1>2, <1>3, <1>4, <1>6, <2>2
<1>11. CASE ~(b[j].down \subseteq a[j].down)
  <2>1. IsAim(j) /\ b[j] = O[j][TRUE].done
    BY <1>8, <1>11
  <2>2. /\ b[j].down \subseteq {b[j].active} /\ b[j].active \in AimIds
        /\ b[j].down # {}
    BY <1>9, <1>11 DEF OneFinger, Controllers
  <2>3. HasRoom(AimsBefore(O, j)) \in BOOLEAN
    BY DEF HasRoom
  <2>4. /\ SoundOutcome(aims[j], o, HasRoom(AimsBefore(O, j))) /\ o.done = O[j][TRUE].done
        /\ o.fits
    BY <1>5, <2>1, <2>3 DEF SoundTurns, TurnOf
  <2>5. CASE a[j].down = {}
    <3>1. HasRoom(a)
      BY <1>3, <1>8, <1>9, <2>1, <2>2, <2>4, <2>5 DEF SoundOutcome
    <3>2. Touches(Size, finger, a, cursor) < MaxContacts
      BY <3>1, FingersAreTouches DEF HasRoom, Now
    <3>3. Touches(Size, finger, b, cursor) <= Touches(Size, finger, a, cursor) + 1
      BY <1>1, <1>2, <1>7, <2>2, OneAimMoves
    <3> QED
      BY <1>2, <1>4, <1>6, <3>2, <3>3
  <2>6. CASE a[j].down # {}
    <3>1. a[j].down \cap AimIds # {}
      BY <1>9, <2>6 DEF Controllers
    <3>2. Touches(Size, finger, b, cursor) <= Touches(Size, finger, a, cursor)
      BY <1>1, <1>2, <1>7, <2>2, <3>1, OneAimMoves
    <3> QED
      BY <1>2, <1>3, <1>4, <1>6, <3>2
  <2> QED
    BY <2>5, <2>6
<1> QED
  BY <1>10, <1>11

\* Every turn that fits takes a slot there is.
LEMMA TurnsFit ==
  ASSUME TypeOK, AimsHaveOneFinger, FitsSlots, NEW O, SoundTurns(O),
         \A j \in Controls : IsAim(j) => TurnOf(O, j).fits
  PROVE  Touches(Size, finger, AimsBefore(O, Size + 1), cursor) <= MaxContacts
<1> DEFINE T(i) == Touches(Size, finger, AimsBefore(O, i), cursor) <= MaxContacts
           high == {i \in 1 .. Size + 1 : ~T(i)}
<1>1. Size \in Nat /\ Controls = 1 .. Size
  BY PlanFacts DEF TypeOK
<1>2. T(1)
  <2>1. ASSUME NEW j \in 1 .. Size PROVE AimsBefore(O, 1)[j] = aims[j]
    <3>1. j \in Controls /\ ~(j < 1) /\ 1 \in Int
      BY <1>1
    <3> QED
      BY <3>1, HadTurn
  <2>2. AimsDown(Size, AimsBefore(O, 1)) = AimsDown(Size, aims)
    BY <2>1 DEF AimsDown
  <2> QED
    BY <2>2 DEF Touches, FitsSlots
<1>3. ASSUME NEW j \in Controls, T(j) PROVE T(j + 1)
  BY <1>3, OneTurnFits
<1> HIDE DEF T
<1>4. high = {}
  <2> SUFFICES ASSUME high # {} PROVE FALSE
    OBVIOUS
  <2>1. PICK i \in high : \A k \in high : i <= k
    <3>1. high \subseteq Nat
      BY <1>1
    <3> HIDE DEF high
    <3> QED
      BY <3>1, HasLowest
  <2>2. i \in 1 .. Size + 1 /\ ~T(i) /\ i # 1
    BY <1>2, <2>1
  <2>3. i - 1 \in Controls /\ i - 1 \in 1 .. Size + 1 /\ i = (i - 1) + 1
    BY <1>1, <2>2
  <2>4. T(i - 1)
    BY <1>1, <2>1, <2>2, <2>3
  <2>5. T((i - 1) + 1)
    BY <1>3, <2>3, <2>4
  <2> QED
    BY <2>2, <2>3, <2>5
<1>5. T(Size + 1)
  BY <1>1, <1>4
<1> QED
  BY <1>5 DEF T

\* Aims that take sound turns keep the invariant.
LEMMA TurnsKeep ==
  ASSUME RuntimeInv, at = "up", NEW O, SoundTurns(O), TakeTurns(O),
         UNCHANGED <<plan, held, layers, engaged, finger, cursor>>
  PROVE  RuntimeInv'
<1>1. TypeOK /\ RolesFit /\ Settled /\ FingersFollow /\ AimsHaveOneFinger /\ FitsSlots
  BY DEF RuntimeInv
<1>2. /\ Controls' = Controls /\ Size' = Size /\ LayerIds' = LayerIds
      /\ plan' = plan /\ held' = held /\ layers' = layers /\ engaged' = engaged /\ finger' = finger
      /\ cursor' = cursor
  BY DEF Controls, Size, LayerIds
<1>3. at' \in {"up", "failed"}
  BY DEF TakeTurns
<1>4. aims' \in [Controls -> Controllers]
  <2>1. CASE aims' = AimsBefore(O, Size + 1)
    BY <1>1, <2>1, TurnsSound
  <2>2. ASSUME NEW i \in Controls, NEW b \in TurnOf(O, i).fails,
               aims' = [AimsBefore(O, i) EXCEPT ![i] = b]
        PROVE  aims' \in [Controls -> Controllers]
    <3>1. HasRoom(AimsBefore(O, i)) \in BOOLEAN
      BY DEF HasRoom
    <3>2. SoundOutcome(aims[i], TurnOf(O, i), HasRoom(AimsBefore(O, i)))
      BY <3>1 DEF SoundTurns, TurnOf
    <3>3. b \in Controllers
      BY <3>2 DEF SoundOutcome
    <3>4. AimsBefore(O, i) \in [Controls -> Controllers]
      BY <1>1, TurnsSound
    <3> QED
      BY <2>2, <3>3, <3>4
  <2> QED
    BY <2>1, <2>2 DEF TakeTurns
<1>5. TypeOK'
  BY <1>1, <1>2, <1>3, <1>4 DEF TypeOK
<1>6. RolesFit'
  BY <1>1, <1>2 DEF RolesFit, Kind
<1>7. NothingOutlivesSession'
  BY <1>3 DEF NothingOutlivesSession
<1>8. Settled' /\ FingersFollow'
  BY <1>1, <1>2 DEF Settled, FingersFollow, Available, Shadowed, Suppressed, Layer, Modifier, Uses,
                    Controls, Key
<1>9. ASSUME at' = "up" PROVE AimsHaveOneFinger' /\ FitsSlots'
  <2>1. /\ aims' = AimsBefore(O, Size + 1)
        /\ \A j \in Controls : IsAim(j) => TurnOf(O, j).fits
    BY <1>9 DEF TakeTurns
  <2>2. AimsHaveOneFinger'
    BY <1>1, <1>2, <2>1, TurnsSound DEF AimsHaveOneFinger
  <2>3. Touches(Size, finger, aims', cursor) <= MaxContacts
    BY <1>1, <2>1, TurnsFit
  <2>4. FitsSlots'
    BY <1>2, <2>3 DEF FitsSlots
  <2> QED
    BY <2>2, <2>4
<1> QED
  BY <1>5, <1>6, <1>7, <1>8, <1>9 DEF RuntimeInv

\* What an operation does when every frame is accepted does not depend on there being room.
LEMMA RestartIgnoresRoom ==
  ASSUME NEW a, NEW lifted, NEW old, NEW dx, NEW room \in BOOLEAN
  PROVE  Restart(a, lifted, old, dx, room).done = Restart(a, lifted, old, dx, TRUE).done
BY DEF Restart

\* tick
LEMMA TickIgnoresRoom ==
  ASSUME NEW a, NEW due, NEW room \in BOOLEAN
  PROVE  TickAim(a, due, room).done = TickAim(a, due, TRUE).done
BY RestartIgnoresRoom DEF TickAim

\* activate
LEMMA ActivateIgnoresRoom ==
  ASSUME NEW a, NEW room \in BOOLEAN
  PROVE  Activate(a, room).done = Activate(a, TRUE).done
BY DEF Activate

\* A mouse aim has a gap or has none.
LEMMA GapIsBoolean ==
  ASSUME plan \in Plans, NEW i \in Controls
  PROVE  plan.controls[i].gap \in BOOLEAN
<1>1. IsPlan(plan) /\ i \in 1 .. plan.size
  BY PlansAssumption DEF Controls
<1> QED
  BY <1>1 DEF IsPlan, IsControl

\* Each aim in turn is what TakeTurns says.
LEMMA EachAimTakesTurns ==
  ASSUME plan \in Plans, NEW O, NEW more \in BOOLEAN, ForEachAim(O, more)
  PROVE  TakeTurns(O)
<1>1. Size \in Nat /\ Controls = 1 .. Size /\ 1 .. Size + 1 - 1 = Controls
  BY PlanFacts
<1>2. ReachesAim(O, Size + 1) => \A j \in Controls : IsAim(j) => TurnOf(O, j).fits
  BY <1>1 DEF ReachesAim
<1>3. at' \in (IF more THEN {"up", "failed"} ELSE {"up"}) => at' \in {"up", "failed"}
  OBVIOUS
<1> QED
  BY <1>2, <1>3 DEF ForEachAim, TakeTurns

\* HandleMotion keeps the invariant.
LEMMA MotionKeeps ==
  ASSUME RuntimeInv, NEW dx \in Int, HandleMotion(dx)
  PROVE  RuntimeInv'
<1>1. TypeOK /\ at = "up" /\ plan \in Plans
  BY DEF RuntimeInv, HandleMotion, TypeOK
<1>0. PICK due \in BOOLEAN :
        ForEachAim([i \in Controls |-> [room \in BOOLEAN |->
                      MoveBy(aims[i], plan.controls[i].gap, dx, due, room)]], FALSE)
  BY DEF HandleMotion
<1>3. PICK O : O = [i \in Controls |-> [room \in BOOLEAN |->
                      MoveBy(aims[i], plan.controls[i].gap, dx, due, room)]]
  OBVIOUS
<1>2. ForEachAim(O, FALSE)
  BY <1>0, <1>3
<1>4. ASSUME NEW j \in Controls, NEW room \in BOOLEAN
      PROVE  O[j][room] = MoveBy(aims[j], plan.controls[j].gap, dx, due, room)
  BY <1>3
<1>5. SoundTurns(O)
  <2>1. ASSUME NEW j \in Controls, NEW room \in BOOLEAN
        PROVE  SoundOutcome(aims[j], O[j][room], room) /\ O[j][room].done = O[j][TRUE].done
    <3>1. aims[j] \in Controllers /\ plan.controls[j].gap \in BOOLEAN
      BY <1>1, GapIsBoolean DEF TypeOK
    <3>2. O[j][room] = MoveBy(aims[j], plan.controls[j].gap, dx, due, room)
      BY <1>4
    <3>4. SoundOutcome(aims[j], O[j][room], room)
      BY <3>1, <3>2, MoveBySound
    <3>5. O[j][room].done = O[j][TRUE].done
      <4> DEFINE x == ScaledDelta(aims[j], dx)
                 b == [aims[j] EXCEPT !.carry = x.carry]
                 target == Clamp(aims[j].pos + x.whole)
                 c == [b EXCEPT !.residual = @ + x.whole]
                 d == [b EXCEPT !.pos = target]
      <4>1. ASSUME NEW r \in BOOLEAN
            PROVE  O[j][r] = IF ~AimIsActive(aims[j]) THEN Ignored(aims[j])
                             ELSE IF aims[j].pending THEN TickAim(c, due, r)
                             ELSE IF target = aims[j].pos THEN Ignored(b)
                             ELSE IF PastThreshold(target)
                             THEN Recenter(b, plan.controls[j].gap, x.whole, r)
                             ELSE [done |-> d, fits |-> TRUE, fails |-> {b}]
        <5>1. O[j][r] = MoveBy(aims[j], plan.controls[j].gap, dx, due, r)
          BY <1>4
        <5> QED
          BY <5>1 DEF MoveBy
      <4> HIDE DEF x, target, b, c, d
      <4>2. TickAim(c, due, room).done = TickAim(c, due, TRUE).done
        BY TickIgnoresRoom
      <4>3. Recenter(b, plan.controls[j].gap, x.whole, room).done
              = Recenter(b, plan.controls[j].gap, x.whole, TRUE).done
        BY RestartIgnoresRoom DEF Recenter
      <4>4. TRUE \in BOOLEAN
        OBVIOUS
      <4>5. CASE ~AimIsActive(aims[j])
        BY <4>1, <4>4, <4>5
      <4>6. CASE AimIsActive(aims[j]) /\ aims[j].pending
        BY <4>1, <4>2, <4>4, <4>6
      <4>7. CASE AimIsActive(aims[j]) /\ ~aims[j].pending
        BY <4>1, <4>3, <4>4, <4>7
      <4> QED
        BY <4>5, <4>6, <4>7
    <3> QED
      BY <3>4, <3>5
  <2> QED
    BY <2>1 DEF SoundTurns
<1>6. TakeTurns(O)
  BY <1>1, <1>2, EachAimTakesTurns
<1> QED
  BY <1>1, <1>5, <1>6, TurnsKeep DEF HandleMotion

\* Tick keeps the invariant.
LEMMA TickKeeps ==
  ASSUME RuntimeInv, Tick
  PROVE  RuntimeInv'
<1>1. TypeOK /\ at = "up" /\ plan \in Plans
  BY DEF RuntimeInv, Tick, TypeOK
<1>3. PICK O : O = [i \in Controls |-> [room \in BOOLEAN |->
                      TickAim(aims[i], TRUE, room)]]
  OBVIOUS
<1>7. PICK more \in BOOLEAN : more = (\E i \in Controls : IsStick(i) /\ finger[i] # {})
  OBVIOUS
<1>2. ForEachAim(O, more)
  BY <1>3, <1>7 DEF Tick
<1>4. ASSUME NEW j \in Controls, NEW room \in BOOLEAN
      PROVE  O[j][room] = TickAim(aims[j], TRUE, room)
  BY <1>3
<1>5. SoundTurns(O)
  <2>1. ASSUME NEW j \in Controls, NEW room \in BOOLEAN
        PROVE  SoundOutcome(aims[j], O[j][room], room) /\ O[j][room].done = O[j][TRUE].done
    <3>1. aims[j] \in Controllers
      BY <1>1, GapIsBoolean DEF TypeOK
    <3>2. O[j][room] = TickAim(aims[j], TRUE, room)
      BY <1>4
    <3>3. O[j][TRUE] = TickAim(aims[j], TRUE, TRUE)
      BY <1>4
    <3>4. SoundOutcome(aims[j], O[j][room], room)
      BY <3>1, <3>2, TickAimSound
    <3>5. O[j][room].done = O[j][TRUE].done
      BY <3>2, <3>3, TickIgnoresRoom
    <3> QED
      BY <3>4, <3>5
  <2> QED
    BY <2>1 DEF SoundTurns
<1>6. TakeTurns(O)
  BY <1>1, <1>2, EachAimTakesTurns
<1> QED
  BY <1>1, <1>5, <1>6, TurnsKeep DEF Tick

\* RestoreAim keeps the invariant.
LEMMA RestoreAimKeeps ==
  ASSUME RuntimeInv, NEW reactivate \in BOOLEAN, RestoreAim(reactivate)
  PROVE  RuntimeInv'
<1>1. TypeOK /\ at = "up" /\ plan \in Plans
  BY DEF RuntimeInv, RestoreAim, TypeOK
<1>3. PICK O : O = [i \in Controls |-> [room \in BOOLEAN |->
                      IF plan.controls[i].toggle = NoKey \/ reactivate
                      THEN Activate(aims[i], room) ELSE Ignored(aims[i])]]
  OBVIOUS
<1>7. PICK more \in BOOLEAN : more = (FALSE)
  OBVIOUS
<1>2. ForEachAim(O, more)
  BY <1>3, <1>7 DEF RestoreAim
<1>4. ASSUME NEW j \in Controls, NEW room \in BOOLEAN
      PROVE  O[j][room] = IF plan.controls[j].toggle = NoKey \/ reactivate
                      THEN Activate(aims[j], room) ELSE Ignored(aims[j])
  BY <1>3
<1>5. SoundTurns(O)
  <2>1. ASSUME NEW j \in Controls, NEW room \in BOOLEAN
        PROVE  SoundOutcome(aims[j], O[j][room], room) /\ O[j][room].done = O[j][TRUE].done
    <3>1. aims[j] \in Controllers
      BY <1>1, GapIsBoolean DEF TypeOK
    <3>2. O[j][room] = IF plan.controls[j].toggle = NoKey \/ reactivate
                      THEN Activate(aims[j], room) ELSE Ignored(aims[j])
      BY <1>4
    <3>3. O[j][TRUE] = IF plan.controls[j].toggle = NoKey \/ reactivate
                      THEN Activate(aims[j], TRUE) ELSE Ignored(aims[j])
      BY <1>4
    <3>4. SoundOutcome(aims[j], O[j][room], room)
      BY <3>1, <3>2, ActivateSound, IgnoredSound
    <3>5. O[j][room].done = O[j][TRUE].done
      BY <3>2, <3>3, ActivateIgnoresRoom
    <3> QED
      BY <3>4, <3>5
  <2> QED
    BY <2>1 DEF SoundTurns
<1>6. TakeTurns(O)
  BY <1>1, <1>2, EachAimTakesTurns
<1> QED
  BY <1>1, <1>5, <1>6, TurnsKeep DEF RestoreAim

\* DisableAims keeps the invariant.
LEMMA DisableAimsKeeps ==
  ASSUME RuntimeInv, DisableAims
  PROVE  RuntimeInv'
<1>1. TypeOK /\ at = "up" /\ plan \in Plans
  BY DEF RuntimeInv, DisableAims, TypeOK
<1>3. PICK O : O = [i \in Controls |-> [room \in BOOLEAN |->
                      IF AimIsActive(aims[i]) THEN Deactivate(aims[i])
                      ELSE Ignored(aims[i])]]
  OBVIOUS
<1>7. PICK more \in BOOLEAN : more = (FALSE)
  OBVIOUS
<1>2. ForEachAim(O, more)
  BY <1>3, <1>7 DEF DisableAims
<1>4. ASSUME NEW j \in Controls, NEW room \in BOOLEAN
      PROVE  O[j][room] = IF AimIsActive(aims[j]) THEN Deactivate(aims[j])
                      ELSE Ignored(aims[j])
  BY <1>3
<1>5. SoundTurns(O)
  <2>1. ASSUME NEW j \in Controls, NEW room \in BOOLEAN
        PROVE  SoundOutcome(aims[j], O[j][room], room) /\ O[j][room].done = O[j][TRUE].done
    <3>1. aims[j] \in Controllers
      BY <1>1, GapIsBoolean DEF TypeOK
    <3>2. O[j][room] = IF AimIsActive(aims[j]) THEN Deactivate(aims[j])
                      ELSE Ignored(aims[j])
      BY <1>4
    <3>3. O[j][TRUE] = IF AimIsActive(aims[j]) THEN Deactivate(aims[j])
                      ELSE Ignored(aims[j])
      BY <1>4
    <3>4. SoundOutcome(aims[j], O[j][room], room)
      BY <3>1, <3>2, DeactivateSound, IgnoredSound
    <3>5. O[j][room].done = O[j][TRUE].done
      BY <3>2, <3>3
    <3> QED
      BY <3>4, <3>5
  <2> QED
    BY <2>1 DEF SoundTurns
<1>6. TakeTurns(O)
  BY <1>1, <1>2, EachAimTakesTurns
<1> QED
  BY <1>1, <1>5, <1>6, TurnsKeep DEF DisableAims

-----------------------------------------------------------------------------
(* The cursor, and the end *)

\* The cursor's contact keeps the invariant.
LEMMA CursorKeeps ==
  ASSUME RuntimeInv, CursorDown \/ CursorUp
  PROVE  RuntimeInv'
<1>1. /\ at = "up" /\ plan' = plan /\ held' = held /\ layers' = layers /\ engaged' = engaged
      /\ finger' = finger /\ aims' = aims
  BY DEF CursorDown, CursorUp
<1>2. TypeOK /\ RolesFit /\ Settled /\ FingersFollow /\ AimsHaveOneFinger /\ FitsSlots
  BY <1>1 DEF RuntimeInv
<1>3. at' \in {"up", "failed"} /\ cursor' \in BOOLEAN
  BY <1>1, <1>2 DEF CursorDown, CursorUp, TypeOK
<1>4. Controls' = Controls /\ Size' = Size /\ LayerIds' = LayerIds
  BY <1>1 DEF Controls, Size, LayerIds
<1>5. TypeOK'
  BY <1>1, <1>2, <1>3, <1>4 DEF TypeOK
<1>6. RolesFit' /\ AimsHaveOneFinger' /\ FingersFollow'
  BY <1>1, <1>2, <1>4 DEF RolesFit, Kind, AimsHaveOneFinger, FingersFollow
<1>7. Settled'
  BY <1>1, <1>2, <1>4 DEF Settled, Available, Shadowed, Suppressed, Layer, Modifier, Uses, Controls, Key
<1>8. NothingOutlivesSession'
  BY <1>3 DEF NothingOutlivesSession
<1>9. ASSUME at' = "up" PROVE FitsSlots'
  <2>1. plan \in Plans /\ cursor \in BOOLEAN
    BY <1>2 DEF TypeOK
  <2>2. Size \in Nat /\ MaxContacts \in Nat
    BY <2>1, PlanFacts, SlotsAssumption
  <2>3. /\ Cardinality(FingersDown(Size, finger)) \in Nat
        /\ Cardinality(AimsDown(Size, aims)) \in Nat
    BY <2>2, DownFinite
  <2>4. CASE CursorDown
    <3>1. cursor \/ HasRoom(aims)
      BY <1>9, <2>4 DEF CursorDown
    <3>2. HasRoom(aims) => Touches(Size, finger, aims, cursor) < MaxContacts
      BY FingersAreTouches DEF HasRoom, Now
    <3>3. cursor' = TRUE
      BY <1>9, <2>4 DEF CursorDown
    <3>4. Touches(Size, finger, aims, TRUE) <= MaxContacts
      <4>1. CASE cursor
        BY <1>2, <2>1, <4>1 DEF FitsSlots, Touches
      <4>2. CASE ~cursor
        BY <2>1, <2>2, <2>3, <3>1, <3>2, <4>2 DEF Touches
      <4> QED
        BY <4>1, <4>2
    <3> QED
      BY <1>1, <1>4, <3>3, <3>4 DEF FitsSlots
  <2>5. CASE CursorUp
    <3>1. cursor' = FALSE
      BY <1>9, <2>5 DEF CursorUp
    <3>2. Touches(Size, finger, aims, FALSE) <= MaxContacts
      BY <1>2, <2>1, <2>2, <2>3 DEF FitsSlots, Touches
    <3> QED
      BY <1>1, <1>4, <3>1, <3>2 DEF FitsSlots
  <2> QED
    BY <2>4, <2>5
<1> QED
  BY <1>5, <1>6, <1>7, <1>8, <1>9 DEF RuntimeInv

\* A cancelled aim has forgotten its finger.
LEMMA CancelForgets ==
  ASSUME NEW a \in Controllers, NEW refused
  PROVE  /\ CancelAim(a, refused) \in Controllers
         /\ CancelAim(a, refused).active = "none" /\ ~CancelAim(a, refused).pending
<1> DEFINE b == [a EXCEPT !.down = @ \ {a.active}]
           c == [b EXCEPT !.pos = Origin]
<1>1. CancelAim(a, refused) = Reset(c) \/ CancelAim(a, refused) = Reset(a)
  BY DEF CancelAim
<1>2. Origin \in Region /\ a.down \ {a.active} \in SUBSET AimIds
  BY AimAssumption DEF Region, Controllers
<1> DEFINE down == a.down \ {a.active}
<1>6. b = [a EXCEPT !.down = down] /\ down \in SUBSET AimIds
  BY <1>2
<1> HIDE DEF down, b
<1>3. b \in Controllers
  BY <1>6, ControllerFields
<1>4. c \in Controllers
  BY <1>2, <1>3, ControllerFields
<1> HIDE DEF c
<1>5. ASSUME NEW x \in Controllers
      PROVE  Reset(x) \in Controllers /\ Reset(x).active = "none" /\ ~Reset(x).pending
  BY ResetSound
<1> QED
  BY <1>1, <1>4, <1>5

\* After the last frame no finger is down, and no aim believes in one.
LEMMA LiftedAll ==
  ASSUME TypeOK, NEW a \in [Controls -> Controllers], LiftAll(a),
         \A i \in Controls : a[i].active = "none" /\ ~a[i].pending
  PROVE  /\ finger' \in [Controls -> SUBSET Roles] /\ aims' \in [Controls -> Controllers]
         /\ cursor' = FALSE
         /\ \A i \in Controls : finger'[i] = {} /\ aims'[i].down = {} /\ OneFinger(aims'[i])
<1>1. finger' \in [Controls -> SUBSET Roles] /\ cursor' = FALSE /\ \A i \in Controls : finger'[i] = {}
  BY DEF LiftAll
<1>2. ASSUME NEW i \in Controls
      PROVE  aims'[i] \in Controllers /\ aims'[i].down = {} /\ OneFinger(aims'[i])
  <2> DEFINE b == [a[i] EXCEPT !.down = {}]
             c == [b EXCEPT !.pos = Origin]
  <2>1. aims'[i] = c
    BY DEF LiftAll
  <2>2. Origin \in Region /\ {} \in SUBSET AimIds
    BY AimAssumption DEF Region
  <2>3. b \in Controllers /\ b.active = "none" /\ ~b.pending /\ b.down = {}
    <3>1. b \in Controllers
      BY <2>2, ControllerFields
    <3>2. b.active = a[i].active /\ b.pending = a[i].pending /\ b.down = {}
      BY DEF Controllers
    <3> QED
      BY <3>1, <3>2
  <2> HIDE DEF b
  <2>4. c \in Controllers /\ c.active = "none" /\ ~c.pending /\ c.down = {}
    <3>1. c \in Controllers
      BY <2>2, <2>3, ControllerFields
    <3>2. c.active = b.active /\ c.pending = b.pending /\ c.down = b.down
      BY <2>3 DEF Controllers
    <3> QED
      BY <2>3, <3>1, <3>2
  <2> HIDE DEF c
  <2> QED
    BY <2>1, <2>4 DEF OneFinger
<1>3. aims' \in [Controls -> Controllers]
  BY <1>2 DEF LiftAll
<1> QED
  BY <1>1, <1>2, <1>3

\* Suspend and Stop keep the invariant.
LEMMA EndsKeep ==
  ASSUME RuntimeInv, Suspend \/ Stop
  PROVE  RuntimeInv'
<1>1. TypeOK /\ Forget
  BY DEF RuntimeInv, Suspend, Stop
<1>2. PICK refused :
        LET a == [i \in Controls |-> CancelAim(aims[i], i \in refused)]
        IN  \/ LiftAll(a) /\ at' \in {"up", "failed", "stopped"}
            \/ aims' = a /\ at' \in {"failed", "stuck"} /\ UNCHANGED <<finger, cursor>>
  <2>1. CASE Suspend
    <3>1. PICK refused \in SUBSET {i \in Controls : aims[i].down # {}} :
            LET a == [i \in Controls |-> CancelAim(aims[i], i \in refused)]
            IN  \/ LiftAll(a) /\ at' = IF refused = {} THEN "up" ELSE "failed"
                \/ /\ Fingers(Now(a)) # 0
                   /\ aims' = a /\ at' = "failed" /\ UNCHANGED <<finger, cursor>>
      BY <2>1 DEF Suspend
    <3> QED
      BY <3>1
  <2>2. CASE Stop
    <3>1. PICK refused \in SUBSET {i \in Controls : aims[i].down # {}} :
            LET a == [i \in Controls |-> CancelAim(aims[i], i \in refused)]
            IN  \/ LiftAll(a) /\ at' = "stopped"
                \/ /\ Fingers(Now(a)) # 0
                   /\ aims' = a /\ at' = "stuck" /\ UNCHANGED <<finger, cursor>>
      BY <2>2 DEF Stop
    <3> QED
      BY <3>1
  <2> QED
    BY <2>1, <2>2
<1>3. PICK a : a = [i \in Controls |-> CancelAim(aims[i], i \in refused)]
  OBVIOUS
<1>4. /\ a \in [Controls -> Controllers]
      /\ \A i \in Controls : a[i].active = "none" /\ ~a[i].pending
  <2>1. ASSUME NEW i \in Controls
        PROVE  a[i] \in Controllers /\ a[i].active = "none" /\ ~a[i].pending
    <3>1. aims[i] \in Controllers
      BY <1>1 DEF TypeOK
    <3>2. a[i] = CancelAim(aims[i], i \in refused)
      BY <1>3
    <3>3. /\ CancelAim(aims[i], i \in refused) \in Controllers
          /\ CancelAim(aims[i], i \in refused).active = "none"
          /\ ~CancelAim(aims[i], i \in refused).pending
      BY <3>1, CancelForgets
    <3> QED
      BY <3>2, <3>3
  <2> QED
    BY <1>3, <2>1
<1>5. /\ plan' = plan /\ Controls' = Controls /\ Size' = Size /\ LayerIds' = LayerIds
      /\ held' = {} /\ layers' = {} /\ engaged' = [i \in Controls |-> {}]
  BY <1>1 DEF Forget, Controls, Size, LayerIds
<1>6. RolesFit' /\ Settled'
  BY <1>5 DEF RolesFit, Settled
<1>7. CASE LiftAll(a) /\ at' \in {"up", "failed", "stopped"}
  <2>1. /\ finger' \in [Controls -> SUBSET Roles] /\ aims' \in [Controls -> Controllers]
        /\ cursor' = FALSE
        /\ \A i \in Controls : finger'[i] = {} /\ aims'[i].down = {} /\ OneFinger(aims'[i])
    BY <1>1, <1>4, <1>7, LiftedAll
  <2>2. TypeOK'
    BY <1>1, <1>5, <1>7, <2>1 DEF TypeOK
  <2>3. NothingOutlivesSession'
    BY <1>5, <2>1 DEF NothingOutlivesSession
  <2>4. FingersFollow' /\ AimsHaveOneFinger'
    <3>1. Target({}) = {}
      BY DEF Target
    <3> QED
      BY <1>5, <2>1, <3>1 DEF FingersFollow, AimsHaveOneFinger
  <2>5. FitsSlots'
    <3>1. Size \in Nat /\ Controls = 1 .. Size /\ MaxContacts \in Nat
      BY <1>1, PlanFacts, SlotsAssumption DEF TypeOK
    <3>2. FingersDown(Size, finger') = {} /\ AimsDown(Size, aims') = {}
      BY <2>1, <3>1 DEF FingersDown, AimsDown
    <3>3. Touches(Size, finger', aims', cursor') = 0
      BY <2>1, <3>2, FS_EmptySet DEF Touches
    <3> QED
      BY <1>5, <3>1, <3>3 DEF FitsSlots
  <2> QED
    BY <1>6, <2>2, <2>3, <2>4, <2>5 DEF RuntimeInv
<1>8. CASE aims' = a /\ at' \in {"failed", "stuck"} /\ UNCHANGED <<finger, cursor>>
  <2>1. TypeOK'
    BY <1>1, <1>4, <1>5, <1>8 DEF TypeOK
  <2>2. NothingOutlivesSession' /\ at' # "up"
    BY <1>8 DEF NothingOutlivesSession
  <2> QED
    BY <1>6, <2>1, <2>2 DEF RuntimeInv
<1> QED
  BY <1>2, <1>3, <1>7, <1>8

-----------------------------------------------------------------------------
(* The runtime *)

\* The invariant holds at the start: nothing is held, engaged or down.
LEMMA RuntimeInit ==
  ASSUME Init
  PROVE  RuntimeInv
<1>1. /\ plan \in Plans /\ at = "up" /\ held = {} /\ layers = {} /\ cursor = FALSE
      /\ engaged = [i \in Controls |-> {}] /\ finger = [i \in Controls |-> {}]
      /\ aims = [i \in Controls |-> NewController]
  BY DEF Init
<1>2. Size \in Nat /\ Controls = 1 .. Size /\ MaxContacts \in Nat
  BY <1>1, PlanFacts, SlotsAssumption
<1>3. NewController \in Controllers /\ NewController.down = {} /\ OneFinger(NewController)
  <2>1. Origin \in Region
    BY AimAssumption DEF Region
  <2>2. NewController \in Controllers
    BY <2>1 DEF NewController, Controllers, AimIds
  <2>3. NewController.down = {} /\ NewController.active = "none" /\ ~NewController.pending
    BY DEF NewController
  <2> QED
    BY <2>2, <2>3 DEF OneFinger
<1>4. TypeOK
  BY <1>1, <1>3 DEF TypeOK
<1>5. RolesFit /\ Settled /\ NothingOutlivesSession
  BY <1>1 DEF RolesFit, Settled, NothingOutlivesSession
<1>6. FingersFollow /\ AimsHaveOneFinger
  <2>1. Target({}) = {}
    BY DEF Target
  <2> QED
    BY <1>1, <1>3, <2>1 DEF FingersFollow, AimsHaveOneFinger
<1>7. FitsSlots
  <2>1. FingersDown(Size, finger) = {} /\ AimsDown(Size, aims) = {}
    BY <1>1, <1>2, <1>3 DEF FingersDown, AimsDown
  <2>2. Touches(Size, finger, aims, cursor) = 0
    <3>1. ~cursor
      BY <1>1
    <3>2. Cardinality({}) = 0
      BY FS_EmptySet
    <3> QED
      BY <2>1, <3>1, <3>2 DEF Touches
  <2> QED
    BY <1>2, <2>2 DEF FitsSlots
<1> QED
  BY <1>4, <1>5, <1>6, <1>7 DEF RuntimeInv

\* Every handler keeps it.
LEMMA RuntimeStep ==
  ASSUME RuntimeInv, [Next]_vars
  PROVE  RuntimeInv'
<1>1. ASSUME NEW k \in Keys \cap PlanInputs, NEW pressed \in BOOLEAN, HandleKeyboard(k, pressed)
      PROVE  RuntimeInv'
  BY <1>1, KeyboardKeeps
<1>2. ASSUME NEW b \in Buttons, NEW pressed \in BOOLEAN, HandleMouseButton(b, pressed)
      PROVE  RuntimeInv'
  BY <1>2, ButtonKeeps
<1>3. ASSUME NEW dx \in Deltas, HandleMotion(dx)
      PROVE  RuntimeInv'
  <2>1. dx \in Int
    BY DeltasAssumption
  <2> QED
    BY <1>3, <2>1, MotionKeeps
<1>4. CASE Tick
  BY <1>4, TickKeeps
<1>5. ASSUME NEW reactivate \in BOOLEAN, RestoreAim(reactivate)
      PROVE  RuntimeInv'
  BY <1>5, RestoreAimKeeps
<1>6. CASE DisableAims
  BY <1>6, DisableAimsKeeps
<1>7. CASE ReleaseMouseButtons
  BY <1>7, ReleaseButtonsKeeps
<1>8. CASE CursorDown \/ CursorUp
  BY <1>8, CursorKeeps
<1>9. CASE Suspend \/ Stop
  BY <1>9, EndsKeep
<1>10. CASE UNCHANGED vars
  <2>1. /\ plan' = plan /\ at' = at /\ held' = held /\ layers' = layers /\ engaged' = engaged
        /\ finger' = finger /\ aims' = aims /\ cursor' = cursor
    BY <1>10 DEF vars
  <2>2. Controls' = Controls /\ Size' = Size /\ LayerIds' = LayerIds
    BY <2>1 DEF Controls, Size, LayerIds
  <2>3. TypeOK'
    BY <2>1, <2>2 DEF RuntimeInv, TypeOK
  <2>4. RolesFit'
    BY <2>1, <2>2 DEF RuntimeInv, RolesFit, Kind
  <2>5. NothingOutlivesSession'
    BY <2>1, <2>2 DEF RuntimeInv, NothingOutlivesSession
  <2>6. Settled => Settled'
    BY <2>1, <2>2 DEF Settled, Available, Shadowed, Suppressed, Layer, Modifier, Uses, Controls, Key
  <2>7. /\ FingersFollow => FingersFollow'
        /\ AimsHaveOneFinger => AimsHaveOneFinger'
        /\ FitsSlots => FitsSlots'
    BY <2>1, <2>2 DEF FingersFollow, AimsHaveOneFinger, FitsSlots
  <2> QED
    BY <2>1, <2>3, <2>4, <2>5, <2>6, <2>7 DEF RuntimeInv
<1> QED
  BY <1>1, <1>2, <1>3, <1>4, <1>5, <1>6, <1>7, <1>8, <1>9, <1>10 DEF Next

\* So it is an invariant of the runtime.
LEMMA RuntimeAlways == Spec => []RuntimeInv
<1>1. Init => RuntimeInv
  BY RuntimeInit
<1>2. RuntimeInv /\ [Next]_vars => RuntimeInv'
  BY RuntimeStep
<1> QED
  BY <1>1, <1>2, PTL DEF Spec

\* Whatever the plan, the events and the refused frames, the runtime's state has its type
\* (UnifiedRuntime).
THEOREM RuntimeTypeCorrect == Spec => []TypeOK
<1>1. RuntimeInv => TypeOK
  BY DEF RuntimeInv
<1> QED
  BY <1>1, RuntimeAlways, PTL

\* While the runtime is up, what is down on the touchscreen is what the controls and aims
\* believe to be (handle_keyboard, handle_mouse_button, reconcile_bindings, handle_motion).
THEOREM FingersAlwaysFollowBindings == Spec => []FingersFollowBindings
<1>1. RuntimeInv => FingersFollowBindings
  BY DEF RuntimeInv, FingersFollow, AimsHaveOneFinger, OneFinger, FingersFollowBindings
<1> QED
  BY <1>1, RuntimeAlways, PTL

\* No finger stays on the touchscreen after a session whose last frame was accepted
\* (suspend, and dropping the runtime).
THEOREM NothingEverOutlivesSession == Spec => []NothingOutlivesSession
<1>1. RuntimeInv => NothingOutlivesSession
  BY DEF RuntimeInv
<1> QED
  BY <1>1, RuntimeAlways, PTL

\* Of two controls that are both engaged by an input and available for it, neither is on a
\* lower layer, and each asks for a modifier.
LEMMA SettledHasOneOwner ==
  ASSUME TypeOK, RolesFit, Settled, NEW i \in Controls, NEW j \in Controls,
         NEW r \in engaged[i], NEW s \in engaged[j], i # j, Key(i, r) = Key(j, s)
  PROVE  ~(Layer(i) < Layer(j)) /\ (Layer(i) = Layer(j) => Modifier(i) # NoKey)
<1>1. plan \in Plans
  BY DEF TypeOK
<1>2. PICK x : x = Key(i, r)
  OBVIOUS
<1>3. Uses(i, x) /\ Uses(j, x)
  BY <1>1, <1>2, PlanFacts DEF RolesFit
<1>4. Available(i, x, held, layers) /\ Available(j, x, held, layers)
  BY <1>2 DEF Settled
<1>5. ASSUME Layer(i) < Layer(j) PROVE FALSE
  <2>1. Layer(j) # 0
    <3>1. Layer(i) \in Nat /\ Layer(j) \in Nat
      BY PlanFacts DEF TypeOK
    <3> QED
      BY <1>5, <3>1
  <2>2. Layer(j) \in layers
    BY <1>4, <2>1 DEF Available
  <2>3. Layer(j) > Layer(i)
    BY <1>5
  <2>4. Shadowed(i, x, layers)
    BY <1>3, <2>2, <2>3 DEF Shadowed
  <2> QED
    BY <1>4, <2>4 DEF Available
<1>6. ASSUME Layer(i) = Layer(j), Modifier(i) = NoKey PROVE FALSE
  <2>1. Modifier(j) # NoKey
    BY <1>1, <1>3, <1>6, PlanFacts
  <2>2. Modifier(j) \in held
    BY <1>4, <2>1 DEF Available
  <2>3. Suppressed(i, x, held)
    BY <1>3, <1>6, <2>1, <2>2 DEF Suppressed
  <2> QED
    BY <1>4, <2>3 DEF Available
<1> QED
  BY <1>5, <1>6

\* So an input drives one control, or several that ask for different modifiers.
LEMMA SettledInputsHaveOneOwner ==
  ASSUME RuntimeInv
  PROVE  OneOwnerPerInput
<1> SUFFICES ASSUME at = "up", NEW i \in Controls, NEW j \in Controls,
                    NEW r \in engaged[i], NEW s \in engaged[j], i # j, Key(i, r) = Key(j, s)
             PROVE  Layer(i) = Layer(j) /\ NoKey \notin {Modifier(i), Modifier(j)}
  BY DEF OneOwnerPerInput
<1>1. TypeOK /\ RolesFit /\ Settled
  BY DEF RuntimeInv
<1>2. Layer(i) \in Nat /\ Layer(j) \in Nat
  BY <1>1, PlanFacts DEF TypeOK
<1>3. ~(Layer(i) < Layer(j)) /\ (Layer(i) = Layer(j) => Modifier(i) # NoKey)
  BY <1>1, SettledHasOneOwner
<1>4. ~(Layer(j) < Layer(i)) /\ (Layer(j) = Layer(i) => Modifier(j) # NoKey)
  BY <1>1, SettledHasOneOwner
<1>5. Layer(i) = Layer(j)
  BY <1>2, <1>3, <1>4
<1> QED
  BY <1>3, <1>4, <1>5

\* A reconciliation never has more touches than there were or than there will be, but for
\* joysticks whose directions cancel.
LEMMA HandOffPeaks ==
  ASSUME RuntimeInv, at = "up", NEW h, NEW ly, NEW c \in 0 .. Reconciled,
         \A i \in Controls : ~Opposed(i, engaged[i]) /\ ~Opposed(i, Desired(i, engaged[i], h, ly))
  PROVE  \/ Fingers(RuntimeAfter(c, NoKey, h, ly, aims)) <= MaxContacts
         \/ Fingers(RuntimeAfter(c, NoKey, h, ly, aims))
              <= Fingers(RuntimeAfter(Reconciled, NoKey, h, ly, aims))
<1>1. TypeOK /\ RolesFit /\ Settled /\ FingersFollow /\ AimsHaveOneFinger /\ FitsSlots
  BY DEF RuntimeInv
<1>2. plan \in Plans /\ cursor \in BOOLEAN
  BY <1>1 DEF TypeOK
<1>3. Size \in Nat /\ Controls = 1 .. Size /\ MaxContacts \in Nat
  BY <1>2, PlanFacts, SlotsAssumption
<1>4. Reconciled = 3 * Size /\ c \in Int /\ Reconciled \in Int
  BY <1>3 DEF Reconciled
<1>5. PICK s : s = RuntimeAfter(c, NoKey, h, ly, aims)
  OBVIOUS
<1>6. PICK t : t = RuntimeAfter(Reconciled, NoKey, h, ly, aims)
  OBVIOUS
<1>7. AimsDown(Size, s.aims) = AimsDown(Size, aims) /\ AimsDown(Size, t.aims) = AimsDown(Size, aims)
  <2>1. aims \in [Controls -> Controllers]
    BY <1>1 DEF TypeOK
  <2>2. \A i \in Controls : s.aims[i] = aims[i] /\ t.aims[i] = aims[i]
    BY <1>2, <1>4, <1>5, <1>6, <2>1, AimAlong DEF RuntimeAfter
  <2> QED
    BY <1>3, <2>2 DEF AimsDown
<1>8. ASSUME NEW i \in Controls, NEW d \in {c, Reconciled}
      PROVE  RuntimeAfter(d, NoKey, h, ly, aims).finger[i] = Target(EngagedAfter(d, i, NoKey, h, ly))
  <2>1. d \in Int /\ d # DownStep(i)
    BY <1>3, <1>4 DEF DownStep
  <2> QED
    BY <1>1, <2>1, FingerAlong DEF RuntimeAfter
<1>9. ASSUME NEW i \in Controls, NEW e, NEW f, e \subseteq f, f \subseteq RolesOf(Kind(i)),
             ~Opposed(i, f), Target(e) # {}
      PROVE  Target(f) # {}
  <2>1. f # {}
    BY <1>9, TargetIsPart
  <2>2. CASE IsStick(i)
    BY <1>9, <2>1, <2>2 DEF Opposed
  <2>3. CASE ~IsStick(i)
    <3>1. f \subseteq {"press"}
      BY <1>2, <1>9, <2>3, PlanFacts DEF IsStick, RolesOf, ControlKinds
    <3>2. "press" \in f /\ Opposite("press") \notin f
      BY <2>1, <3>1 DEF Opposite
    <3> QED
      BY <3>2 DEF Target
  <2> QED
    BY <2>2, <2>3
<1>10. ASSUME NEW i \in Controls
       PROVE  /\ engaged[i] \subseteq RolesOf(Kind(i))
              /\ Desired(i, engaged[i], h, ly) \subseteq RolesOf(Kind(i))
              /\ EngagedAfter(Reconciled, i, NoKey, h, ly) = Desired(i, engaged[i], h, ly)
              /\ \/ EngagedAfter(c, i, NoKey, h, ly) = engaged[i]
                 \/ EngagedAfter(c, i, NoKey, h, ly) = engaged[i] \cap Desired(i, engaged[i], h, ly)
                 \/ /\ EngagedAfter(c, i, NoKey, h, ly) = Desired(i, engaged[i], h, ly)
                    /\ c > 2 * Size
              /\ c >= 2 * Size =>
                   EngagedAfter(c, i, NoKey, h, ly) \subseteq Desired(i, engaged[i], h, ly)
  <2> DEFINE want == Desired(i, engaged[i], h, ly)
  <2>1. engaged[i] \subseteq RolesOf(Kind(i))
    BY <1>1 DEF RolesFit
  <2>2. want \subseteq RolesOf(Kind(i))
    BY <2>1, DesiredIsAvailable
  <2>3. /\ DriveStep(i) \in Int /\ EngageStep(i) \in Int /\ ReleaseStep(i) \in Int
        /\ ReleaseStep(i) <= 2 * Size /\ 2 * Size < EngageStep(i) /\ EngageStep(i) <= Reconciled
        /\ Reconciled < DriveStep(i) /\ c < DriveStep(i)
    BY <1>3, <1>4 DEF DriveStep, EngageStep, ReleaseStep
  <2>4. \A d \in {c, Reconciled} :
          EngagedAfter(d, i, NoKey, h, ly) =
            IF d >= EngageStep(i) THEN want
            ELSE IF d >= ReleaseStep(i) THEN engaged[i] \cap want
            ELSE engaged[i]
    <3>1. \A d \in {c, Reconciled} : ~(d >= DriveStep(i))
      BY <1>4, <2>3
    <3> QED
      BY <3>1 DEF EngagedAfter
  <2> HIDE DEF want
  <2>5. EngagedAfter(Reconciled, i, NoKey, h, ly) = want
    BY <1>4, <2>3, <2>4
  <2>6. \/ EngagedAfter(c, i, NoKey, h, ly) = engaged[i]
        \/ EngagedAfter(c, i, NoKey, h, ly) = engaged[i] \cap want
        \/ EngagedAfter(c, i, NoKey, h, ly) = want /\ c > 2 * Size
    BY <1>3, <1>4, <2>3, <2>4
  <2>7. c >= 2 * Size => EngagedAfter(c, i, NoKey, h, ly) \subseteq want
    BY <1>3, <1>4, <2>3, <2>4
  <2> QED
    BY <2>1, <2>2, <2>5, <2>6, <2>7 DEF want
<1>11. CASE c >= 2 * Size
  <2>1. ASSUME NEW i \in Controls, s.finger[i] # {} PROVE t.finger[i] # {}
    <3>1. s.finger[i] = Target(EngagedAfter(c, i, NoKey, h, ly))
      BY <1>5, <1>8
    <3>2. t.finger[i] = Target(Desired(i, engaged[i], h, ly))
      BY <1>6, <1>8, <1>10
    <3>3. EngagedAfter(c, i, NoKey, h, ly) \subseteq Desired(i, engaged[i], h, ly)
      BY <1>10, <1>11
    <3> QED
      BY <1>9, <1>10, <2>1, <3>1, <3>2, <3>3
  <2>2. FingersDown(Size, s.finger) \subseteq FingersDown(Size, t.finger)
    BY <1>3, <2>1 DEF FingersDown
  <2>3. Touches(Size, s.finger, s.aims, cursor) <= Touches(Size, t.finger, t.aims, cursor)
    BY <1>2, <1>3, <1>7, <2>2, MoreTouches
  <2> QED
    BY <1>5, <1>6, <2>3, FingersAreTouches
<1>12. CASE ~(c >= 2 * Size)
  <2>1. ASSUME NEW i \in Controls, s.finger[i] # {} PROVE finger[i] # {}
    <3>1. s.finger[i] = Target(EngagedAfter(c, i, NoKey, h, ly))
      BY <1>5, <1>8
    <3>2. finger[i] = Target(engaged[i])
      BY <1>1 DEF FingersFollow
    <3>3. ~(c > 2 * Size)
      BY <1>3, <1>4, <1>12
    <3>4. EngagedAfter(c, i, NoKey, h, ly) \subseteq engaged[i]
      BY <1>10, <3>3
    <3> QED
      BY <1>9, <1>10, <2>1, <3>1, <3>2, <3>4
  <2>2. FingersDown(Size, s.finger) \subseteq FingersDown(Size, finger)
    BY <1>3, <2>1 DEF FingersDown
  <2>3. Touches(Size, s.finger, s.aims, cursor) <= Touches(Size, finger, aims, cursor)
    BY <1>2, <1>3, <1>7, <2>2, MoreTouches
  <2>4. /\ Touches(Size, s.finger, s.aims, cursor) \in Nat
        /\ Touches(Size, finger, aims, cursor) \in Nat
    BY <1>2, <1>3, DownFinite
  <2>5. Touches(Size, s.finger, s.aims, cursor) <= MaxContacts
    BY <1>1, <1>3, <2>3, <2>4 DEF FitsSlots
  <2> QED
    BY <1>5, <2>5, FingersAreTouches
<1> QED
  BY <1>11, <1>12

\* So giving inputs from one control to another fits when its result does.
LEMMA HandOffAlwaysFits ==
  ASSUME RuntimeInv
  PROVE  HandOffFits
<1> SUFFICES ASSUME at = "up", NEW k \in Keys \cap PlanInputs, NEW pressed \in BOOLEAN,
                    NEW h, h = SetHeld(k, pressed), NEW ly, ly = SwitchLayers(k, pressed),
                    Fingers(RuntimeAfter(Reconciled, NoKey, h, ly, aims)) <= MaxContacts,
                    \A i \in Controls : ~(Opposed(i, engaged[i])
                                            \/ Opposed(i, Desired(i, engaged[i], h, ly))),
                    NEW c \in 0 .. Reconciled
             PROVE  Fingers(RuntimeAfter(c, NoKey, h, ly, aims)) <= MaxContacts
  BY DEF HandOffFits
<1>1. Size \in Nat /\ cursor \in BOOLEAN /\ MaxContacts \in Nat
  BY PlanFacts, SlotsAssumption DEF RuntimeInv, TypeOK
<1>2. \A s : Fingers(s) \in Nat
  BY <1>1, DownFinite, FingersAreTouches
<1>3. \/ Fingers(RuntimeAfter(c, NoKey, h, ly, aims)) <= MaxContacts
      \/ Fingers(RuntimeAfter(c, NoKey, h, ly, aims))
           <= Fingers(RuntimeAfter(Reconciled, NoKey, h, ly, aims))
  BY HandOffPeaks
<1> QED
  BY <1>1, <1>2, <1>3

\* An input drives one control at a time whatever layers and modifiers are on, and handing
\* inputs from one to another needs no slot more than the touchscreen has when its result
\* fits (binding_available, reconcile_bindings).
THEOREM AdmissionIsAlwaysSound == Spec => []AdmissionIsSound
<1>1. RuntimeInv => AdmissionIsSound
  BY SettledInputsHaveOneOwner, HandOffAlwaysFits DEF AdmissionIsSound
<1> QED
  BY <1>1, RuntimeAlways, PTL


-----------------------------------------------------------------------------
(***************************************************************************)
(* The preview of Controls Studio: the page and the runtime agree on what  *)
(* is held and on which layers are active, so they select the same layer   *)
(* for an input, and with it the same controls.                            *)
(***************************************************************************)

Previews ==
  [keys : SUBSET Keys, buttons : SUBSET Buttons, active : SUBSET LayerIds,
   toggled : SUBSET LayerIds, latched : SUBSET Controls, moving : BOOLEAN]

PreviewInv ==
  /\ plan \in Plans /\ preview \in Previews
  /\ held = HeldIn(preview)
  /\ preview.active = LayersOn(preview) /\ layers = preview.active

\* Some element of a finite set has the highest layer.
LEMMA HasHighest ==
  ASSUME NEW n \in Nat, NEW J, J \subseteq 1 .. n, J # {}, NEW f \in [J -> Nat]
  PROVE  \E h \in J : \A j \in J : f[j] <= f[h]
<1> DEFINE above(j) == {k \in J : f[k] > f[j]}
           counts == {Cardinality(above(j)) : j \in J}
<1>1. IsFiniteSet(J)
  <2>1. IsFiniteSet(1 .. n) /\ J \in SUBSET (1 .. n)
    BY FS_Interval
  <2> QED
    BY <2>1, FS_Subset
<1>2. ASSUME NEW j \in J PROVE IsFiniteSet(above(j)) /\ Cardinality(above(j)) \in Nat
  <2>1. above(j) \in SUBSET J
    OBVIOUS
  <2> QED
    BY <1>1, <2>1, FS_Subset, FS_CardinalityType
<1>3. counts \subseteq Nat /\ counts # {}
  BY <1>2
<1>4. PICK h \in J : \A j \in J : Cardinality(above(h)) <= Cardinality(above(j))
  <2> HIDE DEF counts
  <2>1. PICK c \in counts : \A d \in counts : c <= d
    BY <1>3, HasLowest
  <2> QED
    BY <2>1 DEF counts
<1>5. ASSUME NEW j \in J, ~(f[j] <= f[h]) PROVE FALSE
  <2>1. f[j] \in Nat /\ f[h] \in Nat /\ f[j] > f[h]
    BY <1>5
  <2>2. above(j) \subseteq above(h)
    <3>1. SUFFICES ASSUME NEW k \in J, f[k] > f[j] PROVE f[k] > f[h]
      OBVIOUS
    <3>2. f[k] \in Nat
      OBVIOUS
    <3> QED
      BY <2>1, <3>1, <3>2
  <2>3. j \in above(h) /\ j \notin above(j)
    BY <2>1
  <2>4. above(j) \in SUBSET above(h)
    BY <2>2
  <2> HIDE DEF above
  <2>5. Cardinality(above(j)) <= Cardinality(above(h)) /\ Cardinality(above(h)) # Cardinality(above(j))
    BY <1>2, <2>3, <2>4, FS_Subset
  <2> QED
    BY <1>2, <1>4, <2>5
<1> QED
  BY <1>4, <1>5

\* The layer that the page selects for an input a control has is that control's exactly
\* when the runtime finds it active and nothing above it.
LEMMA SameLayer ==
  ASSUME plan \in Plans, NEW p, NEW i \in Controls, NEW x, Uses(i, x)
  PROVE  Layer(i) = SelectedLayer(p, x)
           <=> ~Shadowed(i, x, p.active) /\ (Layer(i) # 0 => Layer(i) \in p.active)
<1> DEFINE J == {j \in Controls : Uses(j, x) /\ Layer(j) \in p.active}
           candidates == {Layer(j) : j \in J}
<1>1. /\ Size \in Nat /\ Controls = 1 .. Size
      /\ \A j \in Controls : Layer(j) \in Nat
  BY PlanFacts
<1>2. \E l \in candidates \cup {0} : \A m \in candidates : m <= l
  <2>1. CASE J = {}
    BY <2>1
  <2>2. CASE J # {}
    <3>1. [j \in J |-> Layer(j)] \in [J -> Nat] /\ J \subseteq 1 .. Size
      BY <1>1
    <3>2. PICK f \in [J -> Nat] : f = [j \in J |-> Layer(j)]
      BY <3>1
    <3> HIDE DEF J
    <3>3. PICK h \in J : \A j \in J : f[j] <= f[h]
      BY <1>1, <2>2, <3>1, HasHighest
    <3>4. \A j \in J : f[j] = Layer(j)
      BY <3>2
    <3> QED
      BY <3>3, <3>4
  <2> QED
    BY <2>1, <2>2
<1>3. PICK l : l = SelectedLayer(p, x)
  OBVIOUS
<1>4. l \in candidates \cup {0} /\ \A m \in candidates : m <= l
  <2>1. SelectedLayer(p, x) = CHOOSE m \in candidates \cup {0} : \A k \in candidates : k <= m
    BY DEF SelectedLayer
  <2> HIDE DEF candidates, J
  <2> QED
    BY <1>2, <1>3, <2>1
<1>5. ASSUME Layer(i) = l
      PROVE  ~Shadowed(i, x, p.active) /\ (Layer(i) # 0 => Layer(i) \in p.active)
  <2>1. Layer(i) # 0 => Layer(i) \in p.active
    BY <1>4, <1>5
  <2>2. ASSUME NEW j \in Controls, Layer(j) \in p.active, Layer(j) > Layer(i), Uses(j, x) PROVE FALSE
    <3>1. Layer(j) \in candidates
      BY <2>2
    <3>2. Layer(j) <= Layer(i) /\ Layer(j) \in Nat /\ Layer(i) \in Nat
      BY <1>1, <1>4, <1>5, <3>1
    <3> QED
      BY <2>2, <3>2
  <2> QED
    BY <2>1, <2>2 DEF Shadowed
<1>6. ASSUME ~Shadowed(i, x, p.active), Layer(i) # 0 => Layer(i) \in p.active
      PROVE  Layer(i) = l
  <2>1. Layer(i) \in candidates \cup {0} /\ Layer(i) \in Nat /\ l \in Nat
    BY <1>1, <1>4, <1>6
  <2>2. Layer(i) <= l
    BY <1>4, <2>1
  <2>3. CASE l = 0
    BY <2>1, <2>2, <2>3
  <2>4. CASE l # 0
    <3>1. PICK j \in J : Layer(j) = l
      BY <1>4, <2>4
    <3>2. ~(l > Layer(i))
      BY <1>6, <3>1 DEF Shadowed
    <3> QED
      BY <2>1, <2>2, <3>2
  <2> QED
    BY <2>3, <2>4
<1> QED
  BY <1>3, <1>5, <1>6

\* What is available on the page is available to the runtime.
LEMMA SameAvailability ==
  ASSUME PreviewInv, NEW i \in Controls, NEW x, Uses(i, x)
  PROVE  AvailableForSource(preview, i, x) <=> Available(i, x, held, layers)
<1>1. \A j \in Controls : Modifier(j) # NoKey => (Modifier(j) \in preview.keys <=> Modifier(j) \in held)
  <2>1. SUFFICES ASSUME NEW j \in Controls, Modifier(j) # NoKey
                 PROVE  Modifier(j) \in preview.keys <=> Modifier(j) \in held
    OBVIOUS
  <2>2. Modifier(j) \in Keys
    <3>1. IsPlan(plan)
      BY PlansAssumption DEF PreviewInv
    <3>2. plan.controls[j].modifier \in Keys \cup {NoKey}
      BY <3>1 DEF IsPlan, IsControl, Controls
    <3> QED
      BY <2>1, <3>2 DEF Modifier
  <2>3. Modifier(j) \notin preview.buttons
    BY <2>2, InputsAssumption DEF PreviewInv, Previews
  <2> QED
    BY <2>3 DEF PreviewInv, HeldIn
<1>2. NoKey \notin preview.keys
  BY InputsAssumption DEF PreviewInv, Previews, Inputs
<1>3. layers = preview.active /\ plan \in Plans
  BY DEF PreviewInv
<1>4. Layer(i) = SelectedLayer(preview, x)
        <=> ~Shadowed(i, x, layers) /\ (Layer(i) # 0 => Layer(i) \in layers)
  BY <1>3, SameLayer
<1>5. Modifier(i) = NoKey =>
        ((\A j \in Controls \ {i} : ~(Layer(j) = Layer(i) /\ Modifier(j) \in preview.keys /\ Uses(j, x)))
           <=> ~Suppressed(i, x, held))
  BY <1>1, <1>2 DEF Suppressed
<1>6. Modifier(i) # NoKey => ~Suppressed(i, x, held)
  BY DEF Suppressed
<1> QED
  BY <1>1, <1>4, <1>5, <1>6 DEF AvailableForSource, Available

\* What the page shows is what the runtime wants.
LEMMA SameShown ==
  ASSUME PreviewInv
  PROVE  PreviewShowsTheRuntime
<1>1. SUFFICES ASSUME NEW i \in Controls, Kind(i) \in {"hold", "stick"}
               PROVE  Shown(preview, i) <=> Desired(i, {}, held, layers) # {}
  BY DEF PreviewShowsTheRuntime
<1> DEFINE c == plan.controls[i]
<1>2. DOMAIN c.keys = RolesOf(Kind(i))
  <2>1. IsPlan(plan)
    BY PlansAssumption DEF PreviewInv
  <2> QED
    BY <2>1 DEF IsPlan, IsControl, Controls, Kind
<1>3. /\ InputsOf(c) = {Key(i, r) : r \in RolesOf(Kind(i))}
      /\ \A x \in InputsOf(c) : Uses(i, x)
  BY <1>2 DEF InputsOf, Key, Uses
<1>4. held = HeldIn(preview)
  BY DEF PreviewInv
<1>5. Shown(preview, i) <=> \E x \in (InputsOf(c) \cap held) \ LayerKeys : AvailableForSource(preview, i, x)
  BY <1>1, <1>4 DEF Shown, IsAim
<1>6. Shown(preview, i) <=> \E x \in (InputsOf(c) \cap held) \ LayerKeys : Available(i, x, held, layers)
  BY <1>3, <1>5, SameAvailability
<1>7. Desired(i, {}, held, layers) =
        {r \in RolesOf(Kind(i)) : /\ Key(i, r) \in held /\ Key(i, r) \notin LayerKeys
                                  /\ Available(i, Key(i, r), held, layers)}
  BY <1>1 DEF Desired
<1> HIDE DEF c
<1> QED
  BY <1>3, <1>6, <1>7

\* A key down or up: a layer that is held follows its key, one that toggles is turned by a
\* press that is fresh, and the runtime's layers are the page's.
LEMMA LayersFollow ==
  ASSUME PreviewInv, NEW k \in Keys, NEW pressed \in BOOLEAN,
         NEW keys, keys = (IF pressed THEN preview.keys \cup {k} ELSE preview.keys \ {k}),
         NEW flips, flips = {l \in LayerIds : /\ pressed /\ k \notin preview.keys
                                              /\ plan.layers[l].mode = "toggle"
                                              /\ plan.layers[l].key = k},
         NEW p, p.keys = keys, p.toggled = SymDiff(preview.toggled, flips),
         NEW ly, ly = IF pressed <=> k \in held THEN layers ELSE SwitchLayers(k, pressed)
  PROVE  ly = LayersOn(p)
<1>1. /\ LayersOn(p) = {l \in LayerIds : IF plan.layers[l].mode = "hold" THEN plan.layers[l].key \in keys
                                         ELSE l \in SymDiff(preview.toggled, flips)}
      /\ layers = {l \in LayerIds : IF plan.layers[l].mode = "hold" THEN plan.layers[l].key \in preview.keys
                                    ELSE l \in preview.toggled}
  BY DEF PreviewInv, LayersOn
<1>2. k \in held <=> k \in preview.keys
  BY InputsAssumption DEF PreviewInv, Previews, HeldIn
<1>3. /\ \A l \in LayerIds : plan.layers[l].mode \in {"hold", "toggle"}
      /\ \A l, m \in LayerIds : plan.layers[l].key = plan.layers[m].key => l = m
  <2>1. IsPlan(plan)
    BY PlansAssumption DEF PreviewInv
  <2> QED
    BY <2>1 DEF IsPlan, LayerIds
<1>4. \A l \in LayerIds : plan.layers[l].key # k =>
        (plan.layers[l].key \in keys <=> plan.layers[l].key \in preview.keys)
  OBVIOUS
<1>5. CASE pressed <=> k \in held
  <2>1. keys = preview.keys /\ flips = {}
    BY <1>2, <1>5
  <2>2. SymDiff(preview.toggled, flips) = preview.toggled
    BY <2>1 DEF SymDiff
  <2> QED
    BY <1>1, <1>5, <2>1, <2>2
<1>6. CASE ~(pressed <=> k \in held)
  <2>1. ly = SwitchLayers(k, pressed) /\ (pressed <=> k \notin preview.keys)
    BY <1>2, <1>6
  <2>2. CASE k \notin LayerKeys
    <3>1. flips = {} /\ ly = layers
      BY <2>1, <2>2 DEF LayerKeys, SwitchLayers
    <3>2. SymDiff(preview.toggled, flips) = preview.toggled
      BY <3>1 DEF SymDiff
    <3>3. \A l \in LayerIds : plan.layers[l].key # k
      BY <2>2 DEF LayerKeys
    <3> QED
      BY <1>1, <1>4, <3>1, <3>2, <3>3
  <2>3. CASE k \in LayerKeys
    <3> DEFINE l == CHOOSE m \in LayerIds : plan.layers[m].key = k
    <3>1. l \in LayerIds /\ plan.layers[l].key = k
      <4>1. \E m \in LayerIds : plan.layers[m].key = k
        BY <2>3 DEF LayerKeys
      <4> QED
        BY <4>1
    <3>2. ly = IF plan.layers[l].mode = "hold"
               THEN IF pressed THEN layers \cup {l} ELSE layers \ {l}
               ELSE IF pressed THEN SymDiff(layers, {l}) ELSE layers
      BY <2>1, <2>3 DEF SwitchLayers
    <3> HIDE DEF l
    <3>3. \A m \in LayerIds : m # l => plan.layers[m].key # k
      BY <1>3, <3>1
    <3>4. ly \subseteq LayerIds /\ LayersOn(p) \subseteq LayerIds
      BY <1>1, <3>1, <3>2 DEF SymDiff
    <3>5. ASSUME NEW m \in LayerIds, m # l PROVE m \in ly <=> m \in LayersOn(p)
      <4>1. m \in ly <=> m \in layers
        BY <3>2, <3>5 DEF SymDiff
      <4>2. m \notin flips
        BY <3>3, <3>5
      <4>3. m \in SymDiff(preview.toggled, flips) <=> m \in preview.toggled
        BY <4>2 DEF SymDiff
      <4> QED
        BY <1>1, <1>4, <3>3, <3>5, <4>1, <4>3
    <3>6. l \in ly <=> l \in LayersOn(p)
      <4>1. CASE plan.layers[l].mode = "hold"
        <5>1. l \in ly <=> pressed
          BY <3>2, <4>1
        <5>2. l \in LayersOn(p) <=> k \in keys
          BY <1>1, <3>1, <4>1
        <5> QED
          BY <5>1, <5>2
      <4>2. CASE plan.layers[l].mode # "hold"
        <5>1. l \in layers <=> l \in preview.toggled
          BY <1>1, <3>1, <4>2
        <5>2. l \in LayersOn(p) <=> l \in SymDiff(preview.toggled, flips)
          BY <1>1, <3>1, <4>2
        <5>3. l \in flips <=> pressed
          BY <1>3, <2>1, <3>1, <4>2
        <5>4. l \in ly <=> (IF pressed THEN l \notin layers ELSE l \in layers)
          BY <3>2, <4>2 DEF SymDiff
        <5>5. l \in SymDiff(preview.toggled, flips)
                <=> (IF pressed THEN l \notin preview.toggled ELSE l \in preview.toggled)
          BY <5>3 DEF SymDiff
        <5> QED
          BY <5>1, <5>2, <5>4, <5>5
      <4> QED
        BY <4>1, <4>2
    <3>7. \A m \in LayerIds : m \in ly <=> m \in LayersOn(p)
      BY <3>5, <3>6
    <3>8. \A m : m \in ly <=> m \in LayersOn(p)
      BY <3>4, <3>7
    <3> HIDE DEF LayersOn
    <3> QED
      BY <3>8, Zenon
  <2> QED
    BY <2>2, <2>3
<1> QED
  BY <1>5, <1>6

\* Latches change nothing else.
LEMMA LatchesOnly ==
  ASSUME NEW p \in Previews, NEW x, NEW fresh
  PROVE  LET q == Reconcile(IF fresh THEN Latch(p, x) ELSE p)
         IN  /\ q \in Previews /\ q.keys = p.keys /\ q.buttons = p.buttons
             /\ q.active = p.active /\ q.toggled = p.toggled
<1>1. PICK o : o = IF fresh THEN Latch(p, x) ELSE p
  OBVIOUS
<1>2. /\ o \in Previews /\ o.keys = p.keys /\ o.buttons = p.buttons
      /\ o.active = p.active /\ o.toggled = p.toggled
  <2>1. TapsFor(p, x) \subseteq Controls
    BY DEF TapsFor
  <2>2. Latch(p, x) = IF x \in LayerKeys THEN p
                      ELSE [p EXCEPT !.latched = p.latched \cup TapsFor(p, x)]
    BY DEF Latch
  <2> HIDE DEF TapsFor, Latch
  <2>3. PICK more : more = p.latched \cup TapsFor(p, x)
    OBVIOUS
  <2>4. more \subseteq Controls
    BY <2>1, <2>3 DEF Previews
  <2>5. Latch(p, x) = p \/ Latch(p, x) = [p EXCEPT !.latched = more]
    BY <2>2, <2>3
  <2> QED
    BY <1>1, <2>4, <2>5 DEF Previews
<1>3. PICK left \in SUBSET Controls : left = {i \in o.latched : Driven(o, i)}
  BY <1>2 DEF Previews
<1>4. Reconcile(o) = [o EXCEPT !.latched = left]
  BY <1>3 DEF Reconcile
<1> QED
  BY <1>1, <1>2, <1>4 DEF Previews

\* The steps.
LEMMA TestKeyKeeps ==
  ASSUME PreviewInv, NEW k \in Keys, NEW pressed \in BOOLEAN, TestKey(k, pressed)
  PROVE  PreviewInv'
<1>1. PICK keys \in SUBSET Keys :
        keys = IF pressed THEN preview.keys \cup {k} ELSE preview.keys \ {k}
  BY DEF PreviewInv, Previews
<1>2. PICK fresh \in BOOLEAN : fresh = (pressed /\ k \notin preview.keys)
  OBVIOUS
<1>3. PICK flips \in SUBSET LayerIds :
        flips = {l \in LayerIds : /\ pressed /\ k \notin preview.keys
                                  /\ plan.layers[l].mode = "toggle"
                                  /\ plan.layers[l].key = k}
  OBVIOUS
<1>4. PICK toggled \in SUBSET LayerIds : toggled = SymDiff(preview.toggled, flips)
  <2>1. SymDiff(preview.toggled, flips) \subseteq LayerIds
    BY DEF PreviewInv, Previews, SymDiff
  <2> QED
    BY <2>1
<1>5. PICK q : q = [preview EXCEPT !.keys = keys, !.toggled = toggled]
  OBVIOUS
<1>6. q \in Previews /\ q.keys = keys /\ q.toggled = toggled /\ q.buttons = preview.buttons
  BY <1>5 DEF PreviewInv, Previews
<1>7. PICK active \in SUBSET LayerIds : active = LayersOn(q)
  BY DEF LayersOn
<1>8. PICK r : r = [q EXCEPT !.active = active]
  OBVIOUS
<1>9. /\ r \in Previews /\ r.keys = keys /\ r.toggled = toggled /\ r.buttons = preview.buttons
      /\ r.active = active
  BY <1>6, <1>8 DEF Previews
<1>10. preview' = Reconcile(IF fresh THEN Latch(r, k) ELSE r)
  <2>1. preview' = SetPreviewKey(preview, k, pressed)
    BY DEF TestKey
  <2>2. q = [preview EXCEPT !.keys = IF pressed THEN @ \cup {k} ELSE @ \ {k},
                            !.toggled = SymDiff(@, {l \in LayerIds : /\ fresh
                                                      /\ plan.layers[l].mode = "toggle"
                                                      /\ plan.layers[l].key = k})]
    BY <1>1, <1>2, <1>3, <1>4, <1>5 DEF PreviewInv, Previews
  <2> QED
    BY <1>2, <1>7, <1>8, <2>1, <2>2 DEF SetPreviewKey
<1>11. /\ preview' \in Previews /\ preview'.keys = keys /\ preview'.toggled = toggled
       /\ preview'.buttons = preview.buttons /\ preview'.active = active
  BY <1>9, <1>10, LatchesOnly
<1>12. /\ UNCHANGED plan /\ held' = SetHeld(k, pressed)
       /\ layers' = IF pressed <=> k \in held THEN layers ELSE SwitchLayers(k, pressed)
  BY DEF TestKey, NoTouches
<1>13. held' = HeldIn(preview')
  <2>1. k \notin preview.buttons
    BY InputsAssumption DEF PreviewInv, Previews
  <2>2. HeldIn(preview') = keys \cup preview.buttons
    BY <1>11 DEF HeldIn
  <2>3. held = preview.keys \cup preview.buttons
    BY DEF PreviewInv, HeldIn
  <2> QED
    BY <1>1, <1>12, <2>1, <2>2, <2>3 DEF SetHeld
<1>14. PICK ly : ly = IF pressed <=> k \in held THEN layers ELSE SwitchLayers(k, pressed)
  OBVIOUS
<1>15. ly = LayersOn(q)
  BY <1>1, <1>3, <1>4, <1>6, <1>14, LayersFollow
<1>16. LayersOn(preview)' = LayersOn(q)
  BY <1>6, <1>11, <1>12 DEF LayersOn, LayerIds
<1>17. plan' \in Plans /\ preview' \in Previews'
  BY <1>11, <1>12 DEF PreviewInv, Previews, LayerIds, Controls
<1> QED
  BY <1>7, <1>11, <1>12, <1>13, <1>14, <1>15, <1>16, <1>17 DEF PreviewInv, HeldIn

\* A mouse button does the same, but for the layers.
LEMMA TestPointerKeeps ==
  ASSUME PreviewInv, NEW b \in Buttons, NEW pressed \in BOOLEAN, TestPointer(b, pressed)
  PROVE  PreviewInv'
<1>1. PICK buttons \in SUBSET Buttons :
        buttons = IF pressed THEN preview.buttons \cup {b} ELSE preview.buttons \ {b}
  BY DEF PreviewInv, Previews
<1>2. PICK q : q = [preview EXCEPT !.buttons = buttons]
  OBVIOUS
<1>3. /\ q \in Previews /\ q.keys = preview.keys /\ q.toggled = preview.toggled
      /\ q.buttons = buttons /\ q.active = preview.active
  BY <1>2 DEF PreviewInv, Previews
<1>4. PICK fresh \in BOOLEAN : fresh = (pressed /\ b \notin preview.buttons)
  OBVIOUS
<1>5. preview' = Reconcile(IF fresh THEN Latch(q, b) ELSE q)
  <2>1. preview' = SetPreviewButton(preview, b, pressed)
    BY DEF TestPointer
  <2>2. q = [preview EXCEPT !.buttons = IF pressed THEN @ \cup {b} ELSE @ \ {b}]
    BY <1>1, <1>2 DEF PreviewInv, Previews
  <2> QED
    BY <1>4, <2>1, <2>2 DEF SetPreviewButton
<1>6. /\ preview' \in Previews /\ preview'.keys = preview.keys /\ preview'.toggled = preview.toggled
      /\ preview'.buttons = buttons /\ preview'.active = preview.active
  BY <1>3, <1>5, LatchesOnly
<1>7. UNCHANGED <<plan, layers>> /\ held' = SetHeld(b, pressed)
  BY DEF TestPointer, NoTouches
<1>8. held' = HeldIn(preview')
  <2>1. b \notin preview.keys
    BY InputsAssumption DEF PreviewInv, Previews
  <2>2. HeldIn(preview') = preview.keys \cup buttons
    BY <1>6 DEF HeldIn
  <2>3. held = preview.keys \cup preview.buttons
    BY DEF PreviewInv, HeldIn
  <2> QED
    BY <1>1, <1>7, <2>1, <2>2, <2>3 DEF SetHeld
<1>9. LayersOn(preview)' = LayersOn(preview)
  BY <1>6, <1>7 DEF LayersOn, LayerIds
<1>10. plan' \in Plans /\ preview' \in Previews'
  BY <1>6, <1>7 DEF PreviewInv, Previews, LayerIds, Controls
<1> QED
  BY <1>6, <1>7, <1>8, <1>9, <1>10 DEF PreviewInv, HeldIn

\* Every step of the page and of the runtime beside it.
LEMMA PreviewStep == ASSUME PreviewInv, [PreviewNext]_previewVars PROVE PreviewInv'
<1>1. CASE UNCHANGED previewVars
  BY <1>1 DEF previewVars, vars, PreviewInv, Previews, HeldIn, LayersOn, LayerIds, Controls
<1>2. ASSUME NEW k \in Keys \cap PlanInputs, NEW pressed \in BOOLEAN, TestKey(k, pressed)
      PROVE  PreviewInv'
  BY <1>2, TestKeyKeeps
<1>3. ASSUME NEW b \in Buttons, NEW pressed \in BOOLEAN, TestPointer(b, pressed)
      PROVE  PreviewInv'
  BY <1>3, TestPointerKeeps
<1>4. CASE PulseMouseMovement
  <2>1. /\ UNCHANGED <<plan, held, layers>>
        /\ preview' = [preview EXCEPT !.moving = ~preview.moving]
    BY <1>4 DEF PulseMouseMovement, NoTouches
  <2>2. /\ preview' \in Previews /\ preview'.keys = preview.keys /\ preview'.toggled = preview.toggled
        /\ preview'.buttons = preview.buttons /\ preview'.active = preview.active
    BY <2>1 DEF PreviewInv, Previews
  <2>3. preview' \in Previews' /\ LayersOn(preview)' = LayersOn(preview) /\ HeldIn(preview)' = HeldIn(preview)
    BY <2>1, <2>2 DEF Previews, LayersOn, LayerIds, Controls, HeldIn
  <2> QED
    BY <2>1, <2>2, <2>3 DEF PreviewInv
<1>5. CASE ResetTest
  <2>1. UNCHANGED plan /\ preview' = NoPreview /\ held' = {} /\ layers' = {}
    BY <1>5 DEF ResetTest, NoTouches
  <2>2. preview' \in Previews'
    BY <2>1 DEF Previews, NoPreview
  <2>3. LayersOn(preview)' = {}
    BY <2>1 DEF LayersOn, NoPreview
  <2> QED
    BY <2>1, <2>2, <2>3 DEF PreviewInv, HeldIn, NoPreview
<1> QED
  BY <1>1, <1>2, <1>3, <1>4, <1>5 DEF PreviewNext

\* The page shows a hold or a joystick exactly when the runtime would engage it, through
\* any nesting of layers, modifiers and siblings (activePreviewBindingIndexes and
\* desired_bindings), for every profile that passes validation.
THEOREM PreviewAlwaysShowsTheRuntime == PreviewSpec => []PreviewShowsTheRuntime
<1>1. PreviewInit => PreviewInv
  <2>1. SUFFICES ASSUME PreviewInit PROVE PreviewInv
    OBVIOUS
  <2>2. plan \in Plans /\ held = {} /\ layers = {} /\ preview = NoPreview
    BY <2>1 DEF PreviewInit, Init
  <2>3. preview \in Previews
    BY <2>2 DEF Previews, NoPreview
  <2>4. LayersOn(preview) = {}
    BY <2>2 DEF LayersOn, NoPreview
  <2> QED
    BY <2>2, <2>3, <2>4 DEF PreviewInv, HeldIn, NoPreview
<1>2. PreviewInv /\ [PreviewNext]_previewVars => PreviewInv'
  BY PreviewStep
<1>3. PreviewInv => PreviewShowsTheRuntime
  BY SameShown
<1> QED
  BY <1>1, <1>2, <1>3, PTL DEF PreviewSpec
-----------------------------------------------------------------------------
(***************************************************************************)
(* The focus relay: it cleans up whatever step fails, and what it knows or *)
(* is about to know is the active window.  Whose window that is, a climb   *)
(* through the processes, is a hypothesis here: it fails for a process     *)
(* more than MaxDepth below the worker.                                    *)
(***************************************************************************)

LoopPlaces == {"check", "process", "accept", "commands", "drain"}
RelayPlaces == {"start", "load", "run", "ready", "ended"} \cup LoopPlaces

\* the last of the reports on the way, else of those heard, else the focus, is the window
Knows(coming, heard, focus, w) ==
  IF coming # <<>> THEN coming[Len(coming)] = w
  ELSE IF heard # <<>> THEN heard[Len(heard)] = Owned(w)
  ELSE focus = {Owned(w)}

RelayTyped ==
  /\ relay \in [at : RelayPlaces, focus : SUBSET BOOLEAN, heard : Seq(BOOLEAN)]
  /\ reports \in Seq(Windows) /\ window \in Windows

\* KWin has the script from its loading on, and runs it in the loop.
ScriptIsThere ==
  /\ relay.at \in {"start", "load"} => plugin = "none"
  /\ relay.at \in {"ready"} \cup LoopPlaces => plugin = "running"

\* A script that runs has reported the window.
RelayHears ==
  /\ relay.at = "ready" => reports # <<>> /\ reports[Len(reports)] = window
  /\ relay.at \in LoopPlaces => Knows(reports, relay.heard, relay.focus, window)

CleanEnd ==
  /\ relay.at = "ended" =>
       relayFiles = {} /\ (plugin = "none" \/ broken \cap {"load", "unload"} # {})
  /\ launcher = "done" => relay.at = "ended"

RelayInv == RelayTyped /\ ScriptIsThere /\ RelayHears /\ CleanEnd

\* A report more.
LEMMA Reported ==
  ASSUME NEW coming \in Seq(Windows), NEW w \in Windows
  PROVE  /\ Append(coming, w) \in Seq(Windows) /\ Append(coming, w) # <<>>
         /\ Append(coming, w)[Len(Append(coming, w))] = w
<1>1. Append(coming, w) \in Seq(Windows) /\ Len(Append(coming, w)) = Len(coming) + 1
  OBVIOUS
<1>2. Append(coming, w)[Len(coming) + 1] = w
  OBVIOUS
<1>3. Append(coming, w) # <<>>
  <2>1. Len(coming) + 1 # 0 /\ Len(<<>>) = 0
    OBVIOUS
  <2> QED
    BY <1>1, <2>1
<1> QED
  BY <1>1, <1>2, <1>3

\* A report heard.
LEMMA Heard ==
  ASSUME NEW coming \in Seq(Windows), coming # <<>>, NEW heard \in Seq(BOOLEAN), NEW focus, NEW w,
         Knows(coming, heard, focus, w),
         NEW next, next = Append(heard, Owned(Head(coming)))
  PROVE  /\ Tail(coming) \in Seq(Windows) /\ next \in Seq(BOOLEAN)
         /\ Knows(Tail(coming), next, focus, w)
<1>1. Len(coming) \in Nat \ {0} /\ coming[Len(coming)] = w
  BY DEF Knows
<1>2. Tail(coming) \in Seq(Windows) /\ Len(Tail(coming)) = Len(coming) - 1
  OBVIOUS
<1>3. Owned(Head(coming)) \in BOOLEAN
  BY Zenon DEF Owned
<1>4. next \in Seq(BOOLEAN) /\ Len(next) = Len(heard) + 1 /\ next[Len(next)] = Owned(Head(coming))
  <2> HIDE DEF Owned
  <2> QED
    BY <1>3
<1>5. next # <<>>
  BY <1>4
<1>6. CASE Tail(coming) = <<>>
  <2>1. Len(coming) = 1
    BY <1>1, <1>2, <1>6
  <2>2. Head(coming) = w
    BY <1>1, <2>1
  <2> QED
    BY <1>2, <1>4, <1>5, <1>6, <2>2 DEF Knows
<1>7. CASE Tail(coming) # <<>>
  <2>1. Len(Tail(coming)) \in Nat \ {0}
    BY <1>2, <1>7
  <2>2. Tail(coming)[Len(Tail(coming))] = coming[Len(coming)]
    BY <1>1, <1>2, <2>1
  <2> QED
    BY <1>1, <1>2, <1>4, <1>7, <2>2 DEF Knows
<1> QED
  BY <1>6, <1>7

\* Nothing that the relay knows by changes.
LEMMA RelayStays ==
  ASSUME RelayInv, UNCHANGED <<relay, reports, window, plugin, relayFiles, broken>>,
         launcher' = "done" => relay.at = "ended"
  PROVE  RelayInv'
<1>1. RelayTyped'
  BY DEF RelayInv, RelayTyped
<1>2. ScriptIsThere'
  BY DEF RelayInv, ScriptIsThere
<1>3. RelayHears'
  BY DEF RelayInv, RelayHears, Knows
<1>4. CleanEnd'
  BY DEF RelayInv, CleanEnd
<1> QED
  BY <1>1, <1>2, <1>3, <1>4 DEF RelayInv

\* The thread ends, from wherever: its files are gone, and the script but for a refusal.
LEMMA RelayEnded ==
  ASSUME RelayInv, NEW failed, RelayEnds(failed), window' = window,
         plugin' = "none" \/ broken' \cap {"load", "unload"} # {}
  PROVE  RelayInv'
<1>1. relay' = [relay EXCEPT !.at = "ended"] /\ relayFiles' = {} /\ reports' = <<>>
  BY DEF RelayEnds, RelayAt
<1>2. relay'.at = "ended" /\ relay' \in [at : RelayPlaces, focus : SUBSET BOOLEAN, heard : Seq(BOOLEAN)]
  BY <1>1 DEF RelayInv, RelayTyped, RelayPlaces
<1>3. <<>> \in Seq(Windows)
  OBVIOUS
<1>4. RelayTyped'
  BY <1>1, <1>2, <1>3 DEF RelayInv, RelayTyped
<1>5. ScriptIsThere' /\ RelayHears'
  BY <1>2 DEF ScriptIsThere, RelayHears, LoopPlaces
<1>6. CleanEnd'
  BY <1>1, <1>2 DEF CleanEnd
<1> QED
  BY <1>4, <1>5, <1>6 DEF RelayInv

\* The thread goes on, within the loop or on the way to it.
LEMMA RelayGoesOn ==
  ASSUME RelayInv, relay.at # "ended", NEW place \in RelayPlaces \ {"ended"}, NEW heard \in Seq(BOOLEAN),
         NEW focus \in SUBSET BOOLEAN,
         relay' = [relay EXCEPT !.at = place, !.heard = heard, !.focus = focus],
         reports' \in Seq(Windows), window' = window, launcher' = launcher,
         place \in {"start", "load"} => plugin' = "none",
         place \in {"ready"} \cup LoopPlaces => plugin' = "running",
         place = "ready" => reports' # <<>> /\ reports'[Len(reports')] = window,
         place \in LoopPlaces => Knows(reports', heard, focus, window)
  PROVE  RelayInv'
<1>1. /\ relay'.at = place /\ relay'.heard = heard /\ relay'.focus = focus
      /\ relay' \in [at : RelayPlaces, focus : SUBSET BOOLEAN, heard : Seq(BOOLEAN)]
  BY DEF RelayInv, RelayTyped
<1>2. RelayTyped'
  BY <1>1 DEF RelayInv, RelayTyped
<1>3. ScriptIsThere'
  BY <1>1 DEF ScriptIsThere
<1>4. RelayHears'
  BY <1>1 DEF RelayHears, Knows
<1>5. CleanEnd'
  BY <1>1 DEF RelayInv, CleanEnd
<1> QED
  BY <1>2, <1>3, <1>4, <1>5 DEF RelayInv

\* A change of place only.
LEMMA RelayMovesOn ==
  ASSUME RelayInv, relay.at # "ended", NEW place \in RelayPlaces \ {"ended"},
         RelayAt(place),
         reports' \in Seq(Windows), window' = window, launcher' = launcher,
         place \in {"start", "load"} => plugin' = "none",
         place \in {"ready"} \cup LoopPlaces => plugin' = "running",
         place = "ready" => reports' # <<>> /\ reports'[Len(reports')] = window,
         place \in LoopPlaces => Knows(reports', relay.heard, relay.focus, window)
  PROVE  RelayInv'
<1>1. PICK heard : heard = relay.heard
  OBVIOUS
<1>2. PICK focus : focus = relay.focus
  OBVIOUS
<1>3. heard \in Seq(BOOLEAN) /\ focus \in SUBSET BOOLEAN
  BY <1>1, <1>2 DEF RelayInv, RelayTyped
<1>4. relay' = [relay EXCEPT !.at = place, !.heard = heard, !.focus = focus]
  BY <1>1, <1>2 DEF RelayAt, RelayInv, RelayTyped
<1> QED
  BY <1>1, <1>2, <1>3, <1>4, RelayGoesOn


\* At the start nothing is known and nothing is with KWin.
LEMMA RelayStarts == ASSUME RelayInit PROVE RelayInv
<1>1. relay.at = "start" /\ launcher # "done"
  BY DEF RelayInit
<1>2. relay \in [at : RelayPlaces, focus : SUBSET BOOLEAN, heard : Seq(BOOLEAN)]
  <2>1. <<>> \in Seq(BOOLEAN)
    OBVIOUS
  <2> QED
    BY <2>1 DEF RelayInit, RelayPlaces
<1>3. <<>> \in Seq(Windows)
  OBVIOUS
<1>4. RelayTyped
  BY <1>2, <1>3 DEF RelayInit, RelayTyped
<1>5. ScriptIsThere /\ RelayHears
  BY <1>1 DEF RelayInit, ScriptIsThere, RelayHears, LoopPlaces
<1>6. CleanEnd
  BY <1>1 DEF CleanEnd
<1> QED
  BY <1>4, <1>5, <1>6 DEF RelayInv

\* The loop's end, whichever way KWin takes the script's unloading.
LEMMA LoopEndsClean ==
  ASSUME RelayInv, NEW failed, NEW failures, LoopEnds(failed, failures)
  PROVE  RelayInv'
<1>1. RelayEnds(failed) /\ window' = window
  BY DEF LoopEnds, SessionUnchanged
<1>2. plugin' = "none" \/ broken' \cap {"load", "unload"} # {}
  BY DEF LoopEnds, Unload
<1> QED
  BY <1>1, <1>2, RelayEnded

\* The steps to the loop.
LEMMA PrepareKeeps == ASSUME RelayInv, PrepareScript PROVE RelayInv'
<1>1. relay.at = "start" /\ plugin = "none" /\ relay.at # "ended" /\ reports \in Seq(Windows)
  BY DEF PrepareScript, RelayInv, ScriptIsThere, RelayTyped
<1>2. ASSUME RelayAt("load"), UNCHANGED <<launcher, plugin, reports>>, SessionUnchanged
      PROVE  RelayInv'
  <2>1. "load" \in RelayPlaces \ {"ended"} /\ "load" \notin {"ready"} \cup LoopPlaces
    BY DEF RelayPlaces, LoopPlaces
  <2>2. plugin' = "none" /\ reports' \in Seq(Windows) /\ window' = window /\ launcher' = launcher
    BY <1>1, <1>2 DEF SessionUnchanged
  <2> QED
    BY <1>1, <1>2, <2>1, <2>2, RelayMovesOn
<1>3. ASSUME RelayEnds(TRUE), UNCHANGED plugin, SessionUnchanged
      PROVE  RelayInv'
  <2>1. window' = window /\ plugin' = "none"
    BY <1>1, <1>3 DEF SessionUnchanged
  <2> QED
    BY <1>3, <2>1, RelayEnded
<1> QED
  BY <1>2, <1>3 DEF PrepareScript

\* KWin has the script when it answers, and may have it when its answer is late.
LEMMA LoadKeeps == ASSUME RelayInv, LoadScript PROVE RelayInv'
<1>1. relay.at = "load" /\ plugin = "none" /\ relay.at # "ended" /\ reports \in Seq(Windows)
  BY DEF LoadScript, RelayInv, ScriptIsThere, RelayTyped
<1>2. ASSUME RelayAt("run"), UNCHANGED <<launcher, reports>>, SessionUnchanged
      PROVE  RelayInv'
  <2>1. "run" \in RelayPlaces \ {"ended"} /\ "run" \notin {"ready", "start", "load"} \cup LoopPlaces
    BY DEF RelayPlaces, LoopPlaces
  <2>2. reports' \in Seq(Windows) /\ window' = window /\ launcher' = launcher
    BY <1>1, <1>2 DEF SessionUnchanged
  <2> QED
    BY <1>1, <1>2, <2>1, <2>2, RelayMovesOn
<1>3. ASSUME RelayEnds(TRUE), SessionUnchanged,
             UNCHANGED plugin \/ Breaks("load")
      PROVE  RelayInv'
  <2>1. window' = window
    BY <1>3 DEF SessionUnchanged
  <2>2. plugin' = "none" \/ broken' \cap {"load", "unload"} # {}
    BY <1>1, <1>3 DEF Breaks
  <2> QED
    BY <1>3, <2>1, <2>2, RelayEnded
<1> QED
  BY <1>2, <1>3 DEF LoadScript

\* A script that runs reports the active window at once.
LEMMA RunKeeps == ASSUME RelayInv, RunScript PROVE RelayInv'
<1>1. relay.at = "run" /\ relay.at # "ended" /\ window \in Windows
  BY DEF RunScript, RelayInv, RelayTyped
<1>2. ASSUME RelayAt("ready"), plugin' = "running", reports' = <<window>>, UNCHANGED launcher,
             SessionUnchanged
      PROVE  RelayInv'
  <2>1. "ready" \in RelayPlaces \ {"ended"} /\ "ready" \notin {"start", "load"} \cup LoopPlaces
    BY DEF RelayPlaces, LoopPlaces
  <2>2. /\ reports' \in Seq(Windows) /\ reports' # <<>> /\ reports'[Len(reports')] = window
    BY <1>1, <1>2
  <2>3. window' = window /\ launcher' = launcher
    BY <1>2 DEF SessionUnchanged
  <2> QED
    BY <1>1, <1>2, <2>1, <2>2, <2>3, RelayMovesOn
<1>3. ASSUME RelayEnds(TRUE), Unload(broken \cup {"bus"}), SessionUnchanged
      PROVE  RelayInv'
  <2>1. window' = window
    BY <1>3 DEF SessionUnchanged
  <2>2. plugin' = "none" \/ broken' \cap {"load", "unload"} # {}
    BY <1>3 DEF Unload
  <2> QED
    BY <1>3, <2>1, <2>2, RelayEnded
<1> QED
  BY <1>2, <1>3 DEF RunScript

\* What was reported before the receiver was there is still on the way.
LEMMA ReadyKeeps == ASSUME RelayInv, SayReady PROVE RelayInv'
<1>1. /\ relay.at = "ready" /\ relay.at # "ended" /\ plugin = "running"
      /\ reports \in Seq(Windows) /\ reports # <<>> /\ reports[Len(reports)] = window
  BY DEF SayReady, RelayInv, RelayTyped, ScriptIsThere, RelayHears
<1>2. "check" \in RelayPlaces \ {"ended"} /\ "check" \notin {"start", "load", "ready"}
  BY DEF RelayPlaces, LoopPlaces
<1>3. /\ RelayAt("check") /\ reports' = reports /\ plugin' = plugin
      /\ window' = window /\ launcher' = launcher
  BY DEF SayReady, SessionUnchanged
<1>4. Knows(reports', relay.heard, relay.focus, window)
  BY <1>1, <1>3 DEF Knows
<1> QED
  BY <1>1, <1>2, <1>3, <1>4, RelayMovesOn

\* What holds within the loop.
LEMMA InTheLoop ==
  ASSUME RelayInv, relay.at \in LoopPlaces
  PROVE  /\ relay.at # "ended" /\ plugin = "running" /\ reports \in Seq(Windows)
         /\ relay.heard \in Seq(BOOLEAN) /\ relay.focus \in SUBSET BOOLEAN
         /\ Knows(reports, relay.heard, relay.focus, window)
BY DEF RelayInv, RelayTyped, ScriptIsThere, RelayHears, LoopPlaces

\* From one place of the loop to another, with nothing heard.
LEMMA LoopMovesOn ==
  ASSUME RelayInv, relay.at \in LoopPlaces, NEW place \in LoopPlaces, RelayAt(place),
         UNCHANGED <<reports, plugin, window, launcher>>
  PROVE  RelayInv'
<1>1. place \in RelayPlaces \ {"ended"} /\ place \notin {"start", "load", "ready"}
  BY DEF RelayPlaces, LoopPlaces
<1> QED
  BY <1>1, InTheLoop, RelayMovesOn

\* A stop ends the loop.
LEMMA CheckKeeps == ASSUME RelayInv, CheckStop PROVE RelayInv'
<1>1. relay.at \in LoopPlaces /\ "process" \in LoopPlaces
  BY DEF CheckStop, LoopPlaces
<1>2. ASSUME RelayAt("process"), UNCHANGED <<reports, plugin, launcher>>, SessionUnchanged
      PROVE  RelayInv'
  BY <1>1, <1>2, LoopMovesOn DEF SessionUnchanged
<1> QED
  BY <1>2, LoopEndsClean DEF CheckStop

\* A report goes from the bus to what the relay has heard, in a turn that ends with it or not.
LEMMA ProcessKeeps == ASSUME RelayInv, ProcessBus PROVE RelayInv'
<1>1. /\ relay.at = "process" /\ relay.at \in LoopPlaces /\ "accept" \in LoopPlaces
      /\ UNCHANGED <<plugin, window, launcher>>
  BY DEF ProcessBus, LoopPlaces, SessionUnchanged
<1>2. ASSUME RelayAt("accept"), UNCHANGED reports
      PROVE  RelayInv'
  BY <1>1, <1>2, LoopMovesOn
<1>3. ASSUME NEW place \in {"accept", "process"}, reports # <<>>, reports' = Tail(reports),
             relay' = [relay EXCEPT !.at = place, !.heard = Append(@, Owned(Head(reports)))]
      PROVE  RelayInv'
  <2>1. PICK next : next = Append(relay.heard, Owned(Head(reports)))
    OBVIOUS
  <2>2. PICK focus : focus = relay.focus
    OBVIOUS
  <2>3. relay \in [at : RelayPlaces, focus : SUBSET BOOLEAN, heard : Seq(BOOLEAN)]
    BY DEF RelayInv, RelayTyped
  <2>4. relay' = [relay EXCEPT !.at = place, !.heard = next, !.focus = focus]
    BY <1>3, <2>1, <2>2, <2>3
  <2>5. next \in Seq(BOOLEAN) /\ reports' \in Seq(Windows) /\ Knows(reports', next, focus, window)
    BY <1>1, <1>3, <2>1, <2>2, InTheLoop, Heard
  <2>6. place \in RelayPlaces \ {"ended"} /\ place \notin {"start", "load", "ready"}
    BY <1>3 DEF RelayPlaces, LoopPlaces
  <2> QED
    BY <1>1, <2>2, <2>4, <2>5, <2>6, InTheLoop, RelayGoesOn
<1>4. CASE reports = <<>> /\ RelayAt("accept") /\ UNCHANGED reports
  BY <1>2, <1>4
<1>5. CASE /\ reports # <<>> /\ reports' = Tail(reports)
           /\ relay' = [relay EXCEPT !.at = "accept", !.heard = Append(@, Owned(Head(reports)))]
  BY <1>3, <1>5
<1>6. CASE /\ Len(reports) > 1 /\ reports' = Tail(reports)
           /\ relay' = [relay EXCEPT !.heard = Append(@, Owned(Head(reports)))]
  <2>1. reports # <<>>
    BY <1>6
  <2>2. relay' = [relay EXCEPT !.at = "process", !.heard = Append(@, Owned(Head(reports)))]
    <3>1. relay \in [at : RelayPlaces, focus : SUBSET BOOLEAN, heard : Seq(BOOLEAN)]
      BY DEF RelayInv, RelayTyped
    <3>2. PICK next : next = Append(relay.heard, Owned(Head(reports)))
      OBVIOUS
    <3>3. relay' = [relay EXCEPT !.heard = next]
      BY <1>6, <3>2
    <3>4. [relay EXCEPT !.heard = next] = [relay EXCEPT !.at = "process", !.heard = next]
      BY <1>1, <3>1
    <3> QED
      BY <3>2, <3>3, <3>4
  <2> QED
    BY <1>3, <1>6, <2>1, <2>2
<1> QED
  BY <1>4, <1>5, <1>6 DEF ProcessBus

\* A client changes nothing of what the relay knows, or ends the loop.
LEMMA AcceptKeeps == ASSUME RelayInv, AcceptClient PROVE RelayInv'
<1>1. /\ relay.at \in LoopPlaces /\ "drain" \in LoopPlaces /\ "commands" \in LoopPlaces
      /\ UNCHANGED <<launcher, window>>
  BY DEF AcceptClient, LoopPlaces, SessionUnchanged
<1>2. ASSUME NEW place \in {"drain", "commands"}, RelayAt(place), UNCHANGED <<plugin, reports>>
      PROVE  RelayInv'
  BY <1>1, <1>2, LoopMovesOn
<1> QED
  BY <1>2, LoopEndsClean DEF AcceptClient

\* The last report heard becomes the focus.
LEMMA DrainKeeps == ASSUME RelayInv, DrainFocus PROVE RelayInv'
<1>1. /\ relay.at \in LoopPlaces /\ UNCHANGED <<plugin, window, launcher, reports>>
  BY DEF DrainFocus, LoopPlaces, SessionUnchanged
<1>2. PICK focus : focus = IF relay.heard = <<>> THEN relay.focus
                           ELSE {relay.heard[Len(relay.heard)]}
  OBVIOUS
<1>3. relay' = [relay EXCEPT !.at = "check", !.heard = <<>>, !.focus = focus]
  BY <1>2 DEF DrainFocus
<1>4. <<>> \in Seq(BOOLEAN) /\ focus \in SUBSET BOOLEAN
  <2>1. CASE relay.heard = <<>>
    BY <1>1, <1>2, <2>1, InTheLoop
  <2>2. CASE relay.heard # <<>>
    <3>1. relay.heard[Len(relay.heard)] \in BOOLEAN
      BY <1>1, <2>2, InTheLoop
    <3> QED
      BY <1>2, <2>2, <3>1
  <2> QED
    BY <2>1, <2>2
<1>5. Knows(reports', <<>>, focus, window)
  BY <1>1, <1>2, InTheLoop DEF Knows
<1>6. "check" \in RelayPlaces \ {"ended"} /\ "check" \notin {"start", "load", "ready"}
  BY DEF RelayPlaces, LoopPlaces
<1> QED
  BY <1>1, <1>3, <1>4, <1>5, <1>6, InTheLoop, RelayGoesOn

\* The user changes windows: a script that runs reports it.
LEMMA SwitchKeeps == ASSUME RelayInv, SwitchWindow PROVE RelayInv'
<1>1. UNCHANGED <<launcher, relay, plugin, relayFiles, broken>>
  BY DEF SwitchWindow
<1>2. PICK w \in Windows :
        window' = w /\ reports' = IF plugin = "running" THEN Append(reports, w) ELSE reports
  BY DEF SwitchWindow
<1>3. reports \in Seq(Windows) /\ relay \in [at : RelayPlaces, focus : SUBSET BOOLEAN, heard : Seq(BOOLEAN)]
  BY DEF RelayInv, RelayTyped
<1>4. RelayTyped'
  BY <1>1, <1>2, <1>3, Reported DEF RelayTyped
<1>5. ScriptIsThere' /\ CleanEnd'
  BY <1>1 DEF RelayInv, ScriptIsThere, CleanEnd
<1>6. RelayHears'
  <2>1. ASSUME plugin = "running"
        PROVE  reports' # <<>> /\ reports'[Len(reports')] = window'
    BY <1>2, <1>3, <2>1, Reported
  <2>2. ASSUME relay'.at \in {"ready"} \cup LoopPlaces
        PROVE  reports' # <<>> /\ reports'[Len(reports')] = window'
    BY <1>1, <2>1, <2>2 DEF RelayInv, ScriptIsThere
  <2>3. ASSUME relay'.at \in LoopPlaces
        PROVE  Knows(reports, relay.heard, relay.focus, window)'
    BY <2>2, <2>3 DEF Knows
  <2> QED
    BY <2>2, <2>3 DEF RelayHears
<1> QED
  BY <1>4, <1>5, <1>6 DEF RelayInv

\* The worker's and the session's steps touch nothing that the relay knows by.
LEMMA OthersKeep ==
  ASSUME RelayInv,
         StartRelay \/ DropRelay \/ JoinRelay \/ ConnectReader \/ FirstLine \/ ReadEnd
  PROVE  RelayInv'
<1>1. UNCHANGED <<relay, reports, window, plugin, relayFiles, broken>>
  BY DEF StartRelay, DropRelay, JoinRelay, ConnectReader, FirstLine, ReadEnd, LineOnly,
         RelayUnchanged, SessionUnchanged
<1>2. launcher' = "done" => relay.at = "ended"
  BY DEF StartRelay, DropRelay, JoinRelay, ConnectReader, FirstLine, ReadEnd, LineOnly,
         RelayInv, CleanEnd
<1> QED
  BY <1>1, <1>2, RelayStays

\* Every step of the relay, the worker, the desktop and the session.
LEMMA RelayStep == ASSUME RelayInv, [RelayNext]_relayVars PROVE RelayInv'
<1>1. CASE UNCHANGED relayVars
  BY <1>1, RelayStays DEF relayVars, RelayInv, CleanEnd
<1>2. CASE PrepareScript
  BY <1>2, PrepareKeeps
<1>3. CASE LoadScript
  BY <1>3, LoadKeeps
<1>4. CASE RunScript
  BY <1>4, RunKeeps
<1>5. CASE SayReady
  BY <1>5, ReadyKeeps
<1>6. CASE CheckStop
  BY <1>6, CheckKeeps
<1>7. CASE ProcessBus
  BY <1>7, ProcessKeeps
<1>8. CASE BusBreaks \/ HandleClientCommands
  BY <1>8, LoopEndsClean DEF BusBreaks, HandleClientCommands
<1>9. CASE AcceptClient
  BY <1>9, AcceptKeeps
<1>10. CASE DrainFocus
  BY <1>10, DrainKeeps
<1>11. CASE SwitchWindow
  BY <1>11, SwitchKeeps
<1>12. CASE StartRelay \/ DropRelay \/ JoinRelay \/ ConnectReader \/ FirstLine \/ ReadEnd
  BY <1>12, OthersKeep
<1> QED
  BY <1>1, <1>2, <1>3, <1>4, <1>5, <1>6, <1>7, <1>8, <1>9, <1>10, <1>11, <1>12 DEF RelayNext

\* What the relay's theorems rest on.
LEMMA RelayInvariant == RelaySpec => []RelayInv
<1>1. RelayInit => RelayInv
  BY RelayStarts
<1>2. RelayInv /\ [RelayNext]_relayVars => RelayInv'
  BY RelayStep
<1> QED
  BY <1>1, <1>2, PTL DEF RelaySpec

\* A relay that failed to start or was dropped has taken its thread, its files and KWin's
\* copy of its script with it, at whatever step it ended (KwinFocusRelay::start, Drop,
\* run_relay_thread); the copy stays only when KWin answered too late or did not unload it.
THEOREM RelayAlwaysCleansUp == RelaySpec => []RelayCleansUp
<1>1. RelayInv => RelayCleansUp
  BY DEF RelayInv, CleanEnd, RelayCleansUp
<1> QED
  BY <1>1, RelayInvariant, PTL

\* A relay cleans up and judges the active window as it is (kwin_focus.rs), wherever
\* process_descends_from is right about the windows that there are.
THEOREM RelayIsAlwaysTrue ==
  ASSUME ClimbIsExact
  PROVE  RelaySpec => []RelayIsTrue
<1>1. ASSUME RelayInv PROVE RelayIsTrue
  <2>1. RelayCleansUp
    BY <1>1 DEF RelayInv, CleanEnd, RelayCleansUp
  <2>2. window \in Windows /\ Owned(window) = Ours(window)
    BY <1>1 DEF RelayInv, RelayTyped, ClimbIsExact
  <2>3. ASSUME relay.at \in LoopPlaces
        PROVE  Knows(reports, relay.heard, relay.focus, window)
    BY <1>1, <2>3 DEF RelayInv, RelayHears
  <2> HIDE DEF Owned, Ours
  <2>4. RelayKnowsTheWindow
    BY <2>2, <2>3 DEF RelayKnowsTheWindow, Knows, LoopPlaces
  <2> QED
    BY <2>1, <2>4 DEF RelayIsTrue
<1> QED
  BY <1>1, RelayInvariant, PTL

-----------------------------------------------------------------------------
(***************************************************************************)
(* The cursor overlay: what Gamescope shows is what the session asked for, *)
(* whatever answers came too late, a contact has its cause, and the arrow  *)
(* alternates.  While the thread serves, the commands on their way are the *)
(* last that were asked, so an answer to the last one finds none.          *)
(***************************************************************************)

EarlyPlaces == {"connect", "globals", "configure", "map"}
OverlayPlaces == EarlyPlaces \cup {"drain", "dispatch", "ended"}
HandlePlaces == {"starting", "up", "asking", "joining", "gone", "aborted"}

Commands ==
  [what : {"stop"}] \cup [what : {"region"}, ask : Nat, enabled : BOOLEAN]
    \cup [what : {"cursor"}, ask : Nat, cursor : Cursors]

Events ==
  [what : {"configure"}, extent : Extents] \cup [what : {"capabilities"}, present : BOOLEAN]
    \cup [what : {"closed", "press", "release", "leave"}]

OverlayStates ==
  [at : OverlayPlaces, rounds : Nat, enabled : BOOLEAN, size : Extents \cup {NoExtent},
   pointer : BOOLEAN, left : BOOLEAN, visible : BOOLEAN, index : {"first", "second"},
   closed : BOOLEAN]

Questions == ({"region"} \X BOOLEAN) \cup ({"cursor"} \X Cursors)

Handles ==
  [at : HandlePlaces, asks : Nat, regions : SUBSET BOOLEAN, cursors : SUBSET Cursors,
   last : Questions \cup {<<>>}]

ShownAt == {0} \cup {Clamped(s, x) : s \in Spots, x \in Extents}

Surfaces ==
  [region : {"none", "nothing", "everything"}, buffer : {"none", "blank", "first", "second"},
   spot : ShownAt]

Seats == [present : BOOLEAN, over : BOOLEAN, down : BOOLEAN, sent : Nat]

OverlayTyped ==
  /\ handle \in Handles /\ overlay \in OverlayStates /\ committed \in Surfaces
  /\ control \in Seq(Commands) /\ answered \in Int

\* A surface with the cursor c.
Shows(c) ==
  IF c.shown THEN \E x \in Extents : committed.spot = Clamped(c.spot, x)
             ELSE committed.buffer = "blank"

\* What the last question asked is in place; it is what the command c says.
InPlace(last) == IF last[1] = "region" THEN overlay.enabled = last[2] ELSE Shows(last[2])
Says(c, last) == c.what = last[1] /\ (IF last[1] = "region" THEN c.enabled ELSE c.cursor) = last[2]

\* A command changes nothing that the session does not reckon with.
Reckoned(c) ==
  /\ c.what = "region" => c.enabled \in handle.regions
  /\ c.what = "cursor" => c.cursor \in handle.cursors

\* The commands on their way are the last ones asked; the question that waits is the last.
Numbered ==
  /\ answered = handle.asks - Len(control)
  /\ \A n \in DOMAIN control :
       control[n].what # "stop" /\ control[n].ask = handle.asks - Len(control) + n

Waits ==
  /\ handle.last \in Questions
  /\ IF control = <<>> THEN InPlace(handle.last) ELSE Says(control[Len(control)], handle.last)

Reckons ==
  overlay.at # "ended" =>
    /\ overlay.enabled \in handle.regions
    /\ \A n \in DOMAIN control : Reckoned(control[n])
    /\ handle.at = "starting" => control = <<>> /\ handle.asks = 0 /\ answered = 0
    /\ handle.at \in {"up", "asking"} => Numbered
    /\ handle.at = "asking" => Waits

\* Before the surface is mapped the session has asked nothing.
NothingAsked ==
  overlay.at \in EarlyPlaces =>
    /\ handle.at \in {"starting", "joining"} /\ readiness # "ok"
    /\ handle.regions = {FALSE} /\ handle.cursors = {Hidden}
    /\ ~overlay.visible

\* The surface is as the thread has it, and as the session reckons.
Surface ==
  /\ overlay.at \in {"map", "drain", "dispatch"} => overlay.size \in Extents
  /\ InLoop =>
       /\ committed.region = InputRegion(overlay.enabled)
       /\ committed.buffer = IF overlay.visible THEN overlay.index ELSE "blank"
       /\ \E c \in handle.cursors : Shows(c)
  /\ overlay.at = "ended" => committed = NoSurface
  /\ handle.at = "gone" => overlay.at = "ended"
  /\ handle.at = "asking" => handle.last \in Questions

SurfaceInv == OverlayTyped /\ Reckons /\ NothingAsked /\ Surface

\* What takes a press back.
Lifts(e) ==
  e.what \in {"release", "leave"} \/ e = [what |-> "capabilities", present |-> FALSE]

\* A press on its way is followed by what takes it back, or the button is down; the thread
\* that has told the session of one knows.
TouchInv ==
  /\ wire \in Seq(Events) /\ seat \in Seats
  /\ touch \in BOOLEAN /\ overlay.left \in BOOLEAN
  /\ touch /\ overlay.at # "ended" => overlay.left
  /\ TouchIsExplained
  /\ \A n \in DOMAIN wire :
       wire[n].what = "press" => seat.down \/ \E m \in DOMAIN wire : m > n /\ Lifts(wire[m])

OverlayInv == SurfaceInv /\ TouchInv

\* At the start nothing is asked, shown or pressed.
LEMMA OverlayStarts == ASSUME OverlayInit PROVE OverlayInv
<1>1. overlay.at = "connect" /\ handle.at = "starting" /\ control = <<>> /\ wire = <<>>
  BY DEF OverlayInit
<1>2. Hidden \in Cursors /\ <<>> \in Seq(Commands) /\ <<>> \in Seq(Events)
  BY DEF Cursors
<1>3. handle \in Handles
  BY <1>2 DEF OverlayInit, Handles, HandlePlaces
<1>4. overlay \in OverlayStates
  BY DEF OverlayInit, OverlayStates, OverlayPlaces, EarlyPlaces
<1>5. committed \in Surfaces
  BY DEF OverlayInit, Surfaces, NoSurface, ShownAt
<1>6. OverlayTyped
  BY <1>2, <1>3, <1>4, <1>5 DEF OverlayInit, OverlayTyped
<1>7. Reckons /\ NothingAsked /\ Surface
  BY <1>1 DEF OverlayInit, Reckons, NothingAsked, Surface, InLoop
<1>8. TouchInv
  <2>1. DOMAIN wire = {}
    BY <1>1
  <2>2. seat \in Seats /\ overlay.left = FALSE /\ touch = FALSE
    BY DEF OverlayInit, Seats
  <2> QED
    BY <1>1, <1>2, <2>1, <2>2 DEF TouchInv, TouchIsExplained
<1> QED
  BY <1>6, <1>7, <1>8 DEF OverlayInv, SurfaceInv

\* The thread is gone, and everything with it.
LEMMA SurfaceEnds ==
  ASSUME SurfaceInv, overlay' = [overlay EXCEPT !.at = "ended"], control' = <<>>,
         committed' = NoSurface, UNCHANGED answered,
         handle' = handle \/ handle' = [handle EXCEPT !.at = "aborted"]
  PROVE  SurfaceInv'
<1>1. overlay'.at = "ended" /\ overlay' \in OverlayStates
  BY DEF SurfaceInv, OverlayTyped, OverlayStates, OverlayPlaces
<1>2. handle' \in Handles
  BY DEF SurfaceInv, OverlayTyped, Handles, HandlePlaces
<1>3. committed' \in Surfaces
  BY DEF Surfaces, NoSurface, ShownAt
<1>4. <<>> \in Seq(Commands)
  OBVIOUS
<1>5. OverlayTyped'
  BY <1>1, <1>2, <1>3, <1>4 DEF SurfaceInv, OverlayTyped
<1>6. Reckons' /\ NothingAsked'
  BY <1>1 DEF Reckons, NothingAsked, EarlyPlaces
<1>7. handle'.at = "asking" => handle'.last \in Questions
  <2>1. handle'.at = "asking" => handle' = handle
    BY DEF SurfaceInv, OverlayTyped, Handles
  <2> QED
    BY <2>1 DEF SurfaceInv, Surface
<1>8. Surface'
  BY <1>1, <1>7 DEF Surface, InLoop
<1> QED
  BY <1>5, <1>6, <1>8 DEF SurfaceInv

\* Nothing is pressed on a surface that is gone.
LEMMA TouchEnds ==
  ASSUME TouchInv, overlay' = [overlay EXCEPT !.at = "ended"], overlay \in OverlayStates,
         wire' = <<>>, seat' = [seat EXCEPT !.over = FALSE, !.down = FALSE],
         touch' \in {touch, FALSE}, UNCHANGED orphaned
  PROVE  TouchInv'
<1>1. overlay'.at = "ended" /\ overlay'.left = overlay.left
  BY DEF OverlayStates
<1>2. seat' \in Seats
  BY DEF TouchInv, Seats
<1>3. <<>> \in Seq(Events) /\ DOMAIN wire' = {}
  OBVIOUS
<1>4. touch' \in BOOLEAN /\ overlay'.left \in BOOLEAN
  BY <1>1 DEF TouchInv
<1>5. TouchIsExplained'
  BY <1>1 DEF TouchIsExplained
<1> QED
  BY <1>1, <1>2, <1>3, <1>4, <1>5 DEF TouchInv

\* run_overlay returns.
LEMMA ThreadEnds == ASSUME OverlayInv, OverlayEnds PROVE OverlayInv'
BY SurfaceEnds, TouchEnds DEF OverlayInv, OverlayEnds, SurfaceInv, OverlayTyped

\* Nothing that a contact is explained by changes.
LEMMA TouchStays ==
  ASSUME TouchInv, UNCHANGED <<wire, seat, touch, orphaned>>, overlay'.left = overlay.left,
         overlay.at # "ended" \/ overlay'.at = overlay.at
  PROVE  TouchInv'
<1>1. TouchIsExplained'
  BY DEF TouchInv, TouchIsExplained
<1>2. touch' /\ overlay'.at # "ended" => overlay'.left
  BY DEF TouchInv
<1> QED
  BY <1>1, <1>2 DEF TouchInv, Lifts

\* The thread moves on without a change of what it shows.
LEMMA SurfaceStays ==
  ASSUME SurfaceInv, UNCHANGED <<handle, control, answered, committed>>,
         overlay' \in OverlayStates,
         overlay'.enabled = overlay.enabled, overlay'.visible = overlay.visible,
         overlay'.index = overlay.index,
         \/ overlay'.at = overlay.at
         \/ overlay.at \in EarlyPlaces /\ overlay'.at \in EarlyPlaces
         \/ overlay.at \in {"drain", "dispatch"} /\ overlay'.at \in {"drain", "dispatch"},
         overlay'.at \in {"map", "drain", "dispatch"} => overlay'.size \in Extents,
         readiness' = readiness
  PROVE  SurfaceInv'
<1>1. OverlayTyped'
  BY DEF SurfaceInv, OverlayTyped
<1>2. overlay'.at # "ended" => overlay.at # "ended"
  BY DEF EarlyPlaces
<1>3. InLoop' => InLoop
  BY DEF InLoop, EarlyPlaces
<1>4. overlay'.at = "ended" <=> overlay.at = "ended"
  BY DEF EarlyPlaces
<1>5. Reckons'
  <2>1. Waits' = Waits /\ Numbered' = Numbered
    BY DEF Waits, Numbered, InPlace, Shows, Says
  <2>2. \A n \in DOMAIN control : Reckoned(control[n]) => Reckoned(control[n])'
    BY DEF Reckoned
  <2> QED
    BY <1>2, <2>1, <2>2 DEF SurfaceInv, Reckons
<1>6. NothingAsked'
  BY DEF SurfaceInv, NothingAsked, EarlyPlaces
<1>7. Surface'
  BY <1>3, <1>4 DEF SurfaceInv, Surface, Shows
<1> QED
  BY <1>1, <1>5, <1>6, <1>7 DEF SurfaceInv

\* The steps of the thread before it serves.
LEMMA EarlyKeeps ==
  ASSUME OverlayInv, ConnectOverlay \/ LearnGlobals \/ AwaitConfigure
  PROVE  OverlayInv'
<1>1. overlay \in OverlayStates /\ overlay.at \in {"connect", "globals", "configure"}
  BY DEF OverlayInv, SurfaceInv, OverlayTyped, ConnectOverlay, LearnGlobals, AwaitConfigure
<1>2. ASSUME NEW place \in EarlyPlaces, overlay' = [overlay EXCEPT !.at = place],
             place = "map" => overlay.size # NoExtent,
             UNCHANGED <<readiness, committed, wire, seat>>, ThreadUnchanged
      PROVE  OverlayInv'
  <2>1. /\ overlay' \in OverlayStates
        /\ overlay'.at = place /\ overlay'.size = overlay.size
        /\ overlay'.enabled = overlay.enabled /\ overlay'.visible = overlay.visible
        /\ overlay'.index = overlay.index /\ overlay'.left = overlay.left
    BY <1>1, <1>2 DEF OverlayStates, OverlayPlaces
  <2>2. overlay'.at \in {"map", "drain", "dispatch"} => overlay'.size \in Extents
    BY <1>1, <1>2, <2>1 DEF OverlayStates, EarlyPlaces
  <2>3. SurfaceInv'
    BY <1>1, <1>2, <2>1, <2>2, SurfaceStays DEF OverlayInv, ThreadUnchanged, EarlyPlaces
  <2>4. TouchInv'
    BY <1>1, <1>2, <2>1, TouchStays DEF OverlayInv, ThreadUnchanged
  <2> QED
    BY <2>3, <2>4 DEF OverlayInv
<1>3. ASSUME overlay' = [overlay EXCEPT !.rounds = @ + 1], overlay.at = "configure",
             UNCHANGED <<readiness, committed, wire, seat>>, ThreadUnchanged
      PROVE  OverlayInv'
  <2>1. /\ overlay' \in OverlayStates
        /\ overlay'.at = "configure"
        /\ overlay'.enabled = overlay.enabled /\ overlay'.visible = overlay.visible
        /\ overlay'.index = overlay.index /\ overlay'.left = overlay.left
    BY <1>1, <1>3 DEF OverlayStates, OverlayPlaces
  <2>2. SurfaceInv'
    BY <1>3, <2>1, SurfaceStays DEF OverlayInv, ThreadUnchanged
  <2>3. TouchInv'
    BY <1>3, <2>1, TouchStays DEF OverlayInv, ThreadUnchanged
  <2> QED
    BY <2>2, <2>3 DEF OverlayInv
<1>4. {"globals", "configure", "map"} \subseteq EarlyPlaces
  BY DEF EarlyPlaces
<1>5. CASE ConnectOverlay
  BY <1>2, <1>4, <1>5, ThreadEnds DEF ConnectOverlay
<1>6. CASE LearnGlobals
  BY <1>2, <1>4, <1>6, ThreadEnds DEF LearnGlobals
<1>7. CASE AwaitConfigure
  BY <1>2, <1>3, <1>4, <1>7, ThreadEnds DEF AwaitConfigure
<1> QED
  BY <1>5, <1>6, <1>7

\* The surface is mapped, with the transparent buffer.
LEMMA MapKeeps == ASSUME OverlayInv, MapSurface PROVE OverlayInv'
<1>1. overlay \in OverlayStates /\ overlay.at = "map" /\ overlay.at \in EarlyPlaces
  BY DEF OverlayInv, SurfaceInv, OverlayTyped, MapSurface, EarlyPlaces
<1>2. ASSUME overlay' = [overlay EXCEPT !.at = "drain"],
             committed' = [region |-> InputRegion(overlay.enabled), buffer |-> "blank", spot |-> 0],
             UNCHANGED <<wire, seat>>, ThreadUnchanged
      PROVE  OverlayInv'
  <2>1. /\ overlay' \in OverlayStates
        /\ overlay'.at = "drain" /\ overlay'.size = overlay.size
        /\ overlay'.enabled = overlay.enabled /\ overlay'.visible = overlay.visible
        /\ overlay'.left = overlay.left
    BY <1>1, <1>2 DEF OverlayStates, OverlayPlaces
  <2>2. /\ committed' \in Surfaces /\ committed'.region = InputRegion(overlay.enabled)
        /\ committed'.buffer = "blank"
    BY <1>2 DEF Surfaces, InputRegion, ShownAt
  <2>3. OverlayTyped'
    BY <1>2, <2>1, <2>2 DEF OverlayInv, SurfaceInv, OverlayTyped, ThreadUnchanged
  <2>4. /\ handle.at \in {"starting", "joining"} /\ handle.cursors = {Hidden}
        /\ ~overlay.visible /\ UNCHANGED <<handle, control, answered>>
    BY <1>1, <1>2 DEF OverlayInv, SurfaceInv, NothingAsked, ThreadUnchanged
  <2>5. Reckons'
    <3>1. \A n \in DOMAIN control : Reckoned(control[n]) => Reckoned(control[n])'
      BY <2>4 DEF Reckoned
    <3> QED
      BY <1>1, <2>1, <2>4, <3>1 DEF OverlayInv, SurfaceInv, Reckons
  <2>6. NothingAsked'
    BY <2>1 DEF NothingAsked, EarlyPlaces
  <2>7. Surface'
    <3>1. Shows(Hidden)'
      BY <2>2 DEF Shows, Hidden
    <3>2. handle'.at # "gone" /\ Hidden \in handle'.cursors
      BY <2>4
    <3>3. overlay'.size \in Extents
      BY <1>1, <2>1 DEF OverlayInv, SurfaceInv, Surface
    <3> QED
      BY <2>1, <2>2, <2>4, <3>1, <3>2, <3>3 DEF Surface, InLoop, InputRegion
  <2>8. TouchInv'
    BY <1>1, <1>2, <2>1, TouchStays DEF OverlayInv, ThreadUnchanged
  <2> QED
    BY <2>3, <2>5, <2>6, <2>7, <2>8 DEF OverlayInv, SurfaceInv
<1> QED
  BY <1>2, ThreadEnds DEF MapSurface

\* What is left of a queue when its first is taken.
LEMMA QueueAdvances ==
  ASSUME NEW S, NEW queue \in Seq(S), queue # <<>>
  PROVE  /\ Head(queue) = queue[1] /\ Head(queue) \in S /\ 1 \in DOMAIN queue
         /\ Tail(queue) \in Seq(S)
         /\ Len(queue) \in Nat \ {0} /\ Len(Tail(queue)) = Len(queue) - 1
         /\ \A n \in DOMAIN Tail(queue) : n + 1 \in DOMAIN queue /\ Tail(queue)[n] = queue[n + 1]
         /\ \A n \in DOMAIN queue :
              n > 1 => n - 1 \in DOMAIN Tail(queue) /\ Tail(queue)[n - 1] = queue[n]
         /\ Tail(queue) = <<>> => Len(queue) = 1
         /\ Tail(queue) # <<>> => Tail(queue)[Len(Tail(queue))] = queue[Len(queue)]
<1>1. Len(queue) \in Nat \ {0} /\ Len(Tail(queue)) = Len(queue) - 1
  OBVIOUS
<1>2. \A n \in DOMAIN Tail(queue) : n + 1 \in DOMAIN queue /\ Tail(queue)[n] = queue[n + 1]
  BY <1>1
<1>3. Tail(queue) = <<>> => Len(queue) = 1
  <2>1. PICK rest : rest = Tail(queue)
    OBVIOUS
  <2>2. rest = <<>> => Len(rest) = 0
    OBVIOUS
  <2>3. Len(rest) = Len(queue) - 1
    BY <1>1, <2>1
  <2>4. ASSUME NEW m \in Nat, NEW n \in Nat \ {0}, m = n - 1, m = 0 PROVE n = 1
    BY <2>4
  <2>5. Len(rest) \in Nat
    BY <1>1, <2>3
  <2>6. rest = <<>> => Len(queue) = 1
    BY <1>1, <2>2, <2>3, <2>4, <2>5
  <2> QED
    BY <2>1, <2>6
<1>4. Tail(queue) # <<>> => Tail(queue)[Len(Tail(queue))] = queue[Len(queue)]
  <2>1. Tail(queue) # <<>> => Len(Tail(queue)) \in DOMAIN Tail(queue)
    BY <1>1
  <2> QED
    BY <1>1, <1>2, <2>1
<1>5. \A n \in DOMAIN queue :
        n > 1 => n - 1 \in DOMAIN Tail(queue) /\ Tail(queue)[n - 1] = queue[n]
  BY <1>1
<1> QED
  BY <1>1, <1>2, <1>3, <1>4, <1>5

\* A command is carried out and answered.
LEMMA CarriedOut ==
  ASSUME SurfaceInv, overlay.at = "drain", control # <<>>,
         Answers(Head(control)), UNCHANGED handle,
         overlay' \in OverlayStates, overlay'.at = "drain", committed' \in Surfaces,
         overlay'.enabled \in handle.regions,
         Head(control).what # "stop",
         Says(Head(control), handle.last) => InPlace(handle.last)',
         Surface'
  PROVE  SurfaceInv'
<1>1. control \in Seq(Commands)
  BY DEF SurfaceInv, OverlayTyped
<1>2. control' = Tail(control) /\ answered' = Head(control).ask
  BY DEF Answers
<1>3. Head(control).ask \in Nat
  BY <1>1, QueueAdvances DEF Commands
<1>4. OverlayTyped'
  BY <1>1, <1>2, <1>3, QueueAdvances DEF SurfaceInv, OverlayTyped
<1>5. NothingAsked'
  BY DEF NothingAsked, EarlyPlaces
<1>6. Reckons'
  <2>1. \A n \in DOMAIN control' : Reckoned(control[n + 1]) /\ control'[n] = control[n + 1]
    BY <1>1, <1>2, QueueAdvances DEF SurfaceInv, Reckons
  <2>6. (\A n \in DOMAIN control : Reckoned(control[n]))'
    BY <2>1 DEF Reckoned
  <2>2. handle'.at # "starting"
    BY DEF SurfaceInv, Reckons
  <2>3. ASSUME handle.at \in {"up", "asking"} PROVE Numbered'
    <3>1. Numbered /\ handle.asks \in Nat
      BY <2>3 DEF SurfaceInv, Reckons, OverlayTyped, Handles
    <3>2. answered' = handle.asks - Len(control')
      <4>1. /\ 1 \in DOMAIN control /\ answered' = control[1].ask
            /\ Len(control') = Len(control) - 1 /\ Len(control) \in Nat
        BY <1>1, <1>2, QueueAdvances
      <4>2. control[1].ask = handle.asks - Len(control) + 1
        BY <3>1, <4>1 DEF Numbered
      <4> QED
        BY <3>1, <4>1, <4>2
    <3>3. \A n \in DOMAIN control' :
            control'[n].what # "stop" /\ control'[n].ask = handle.asks - Len(control') + n
      <4>1. SUFFICES ASSUME NEW n \in DOMAIN control'
                     PROVE  /\ control'[n].what # "stop"
                            /\ control'[n].ask = handle.asks - Len(control') + n
        OBVIOUS
      <4>2. /\ n + 1 \in DOMAIN control /\ control'[n] = control[n + 1]
            /\ Len(control') = Len(control) - 1 /\ Len(control) \in Nat /\ n \in Nat
        BY <1>1, <1>2, QueueAdvances
      <4>3. /\ control[n + 1].what # "stop"
            /\ control[n + 1].ask = handle.asks - Len(control) + (n + 1)
        BY <3>1, <4>2 DEF Numbered
      <4> QED
        BY <3>1, <4>2, <4>3
    <3> QED
      BY <3>2, <3>3 DEF Numbered
  <2>4. ASSUME handle.at = "asking" PROVE Waits'
    <3>1. Waits
      BY <2>4 DEF SurfaceInv, Reckons
    <3>2. CASE control' = <<>>
      <4>1. Says(Head(control), handle.last)
        BY <1>1, <1>2, <3>1, <3>2, QueueAdvances DEF Waits
      <4> QED
        BY <3>1, <3>2, <4>1 DEF Waits
    <3>3. CASE control' # <<>>
      <4>1. Says(control'[Len(control')], handle.last)
        BY <1>1, <1>2, <3>1, <3>3, QueueAdvances DEF Waits
      <4> QED
        BY <3>1, <3>3, <4>1 DEF Waits, Says
    <3> QED
      BY <3>2, <3>3
  <2>5. overlay'.enabled \in handle'.regions /\ handle'.at = handle.at
    OBVIOUS
  <2> QED
    BY <2>2, <2>3, <2>4, <2>5, <2>6 DEF Reckons
<1> QED
  BY <1>4, <1>5, <1>6 DEF SurfaceInv

\* The region is set.
LEMMA RegionKeeps ==
  ASSUME OverlayInv, overlay.at = "drain", control # <<>>, NEW c, c = Head(control),
         c.what = "region", Answers(c),
         overlay' = [overlay EXCEPT !.enabled = c.enabled],
         committed' = [committed EXCEPT !.region = InputRegion(c.enabled)],
         UNCHANGED <<handle, wire, seat, touch, orphaned>>
  PROVE  OverlayInv'
<1>1. /\ overlay \in OverlayStates /\ committed \in Surfaces /\ control \in Seq(Commands)
      /\ overlay.at # "ended"
  BY DEF OverlayInv, SurfaceInv, OverlayTyped
<1>2. c \in Commands /\ c.enabled \in BOOLEAN
  BY <1>1, QueueAdvances DEF Commands
<1>3. /\ overlay' \in OverlayStates
      /\ overlay'.at = "drain" /\ overlay'.enabled = c.enabled /\ overlay'.size = overlay.size
      /\ overlay'.visible = overlay.visible /\ overlay'.index = overlay.index
      /\ overlay'.left = overlay.left
  BY <1>1, <1>2 DEF OverlayStates
<1>4. /\ committed' \in Surfaces /\ committed'.region = InputRegion(c.enabled)
      /\ committed'.buffer = committed.buffer /\ committed'.spot = committed.spot
  BY <1>1 DEF Surfaces, InputRegion
<1>5. c.enabled \in handle.regions
  BY <1>1, QueueAdvances DEF OverlayInv, SurfaceInv, Reckons, Reckoned
<1>6. Surface'
  <2>1. InLoop /\ Surface
    BY DEF OverlayInv, SurfaceInv, InLoop
  <2>2. PICK shown \in handle.cursors : Shows(shown)
    BY <2>1 DEF Surface
  <2>3. Shows(shown)'
    BY <1>4, <2>2 DEF Shows
  <2>4. handle'.at # "gone"
    BY <2>1 DEF Surface
  <2> QED
    BY <1>3, <1>4, <2>1, <2>2, <2>3, <2>4 DEF Surface, InLoop
<1>7. Says(c, handle.last) => InPlace(handle.last)'
  BY <1>3 DEF Says, InPlace
<1>8. SurfaceInv'
  BY <1>1, <1>3, <1>4, <1>5, <1>6, <1>7, CarriedOut DEF OverlayInv
<1>9. TouchInv'
  BY <1>1, <1>3, TouchStays DEF OverlayInv
<1> QED
  BY <1>8, <1>9 DEF OverlayInv

\* Drawing the cursor: a frame with the arrow takes the other copy.
LEMMA Drawn ==
  ASSUME overlay \in OverlayStates, committed \in Surfaces, NEW c \in Cursors, DrawCursor(c),
         overlay.size \in Extents,
         committed.buffer = IF overlay.visible THEN overlay.index ELSE "blank"
  PROVE  /\ overlay' \in OverlayStates /\ committed' \in Surfaces
         /\ overlay'.at = overlay.at /\ overlay'.size = overlay.size
         /\ overlay'.enabled = overlay.enabled /\ overlay'.left = overlay.left
         /\ committed'.region = committed.region
         /\ committed'.buffer = IF overlay'.visible THEN overlay'.index ELSE "blank"
         /\ Shows(c)'
         /\ committed.buffer \in {"first", "second"} /\ committed'.buffer \in {"first", "second"}
              => committed'.buffer # committed.buffer
<1>1. PICK next \in {"first", "second"} :
        next = IF overlay.index = "first" THEN "second" ELSE "first"
  OBVIOUS
<1>2. next # overlay.index
  BY <1>1
<1>3. CASE c.shown
  <2>1. overlay' = [overlay EXCEPT !.visible = c.shown, !.index = next]
    BY <1>1, <1>3 DEF DrawCursor
  <2>2. committed' = [committed EXCEPT !.buffer = next, !.spot = Clamped(c.spot, overlay.size)]
    BY <1>1, <1>3 DEF DrawCursor
  <2>3. c.shown = TRUE /\ c.spot \in Spots
    <3>1. c # Hidden
      BY <1>3 DEF Hidden
    <3>2. c \in [shown : {TRUE}, spot : Spots]
      BY <3>1 DEF Cursors
    <3> QED
      BY <3>2
  <2>4. /\ overlay' \in OverlayStates
        /\ overlay'.at = overlay.at /\ overlay'.size = overlay.size
        /\ overlay'.enabled = overlay.enabled /\ overlay'.left = overlay.left
        /\ overlay'.visible = TRUE /\ overlay'.index = next
    BY <2>1, <2>3 DEF OverlayStates
  <2>5. /\ committed' \in Surfaces /\ committed'.region = committed.region
        /\ committed'.buffer = next /\ committed'.spot = Clamped(c.spot, overlay.size)
    <3>1. PICK spot : spot = Clamped(c.spot, overlay.size)
      OBVIOUS
    <3>2. spot \in ShownAt
      BY <2>3, <3>1 DEF ShownAt
    <3> QED
      BY <2>2, <3>1, <3>2 DEF Surfaces
  <2>6. Shows(c)'
    BY <1>3, <2>5 DEF Shows, Clamped
  <2> QED
    BY <1>2, <2>4, <2>5, <2>6
<1>4. CASE ~c.shown
  <2>1. c = Hidden /\ c.shown = FALSE
    <3>1. c \notin [shown : {TRUE}, spot : Spots]
      BY <1>4
    <3>2. c = Hidden
      BY <3>1 DEF Cursors
    <3>3. Hidden.shown = FALSE
      BY DEF Hidden
    <3> QED
      BY <3>2, <3>3
  <2>2. overlay' = [overlay EXCEPT !.visible = FALSE, !.index = @]
    BY <2>1 DEF DrawCursor
  <2>3. /\ overlay' \in OverlayStates
        /\ overlay'.at = overlay.at /\ overlay'.size = overlay.size
        /\ overlay'.enabled = overlay.enabled /\ overlay'.left = overlay.left
        /\ overlay'.visible = FALSE
    BY <2>2 DEF OverlayStates
  <2>4. committed' = IF overlay.visible THEN [committed EXCEPT !.buffer = "blank", !.spot = 0]
                     ELSE committed
    BY <1>4 DEF DrawCursor
  <2>5. /\ committed' \in Surfaces /\ committed'.region = committed.region
        /\ committed'.buffer = "blank"
    <3>1. 0 \in ShownAt
      BY DEF ShownAt
    <3> QED
      BY <2>4, <3>1 DEF Surfaces
  <2>6. Shows(c)'
    BY <2>1, <2>5 DEF Shows
  <2> QED
    BY <2>3, <2>5, <2>6
<1> QED
  BY <1>3, <1>4

\* The cursor is drawn or hidden.
LEMMA DrawKeeps ==
  ASSUME OverlayInv, overlay.at = "drain", control # <<>>, NEW c, c = Head(control),
         c.what = "cursor", Answers(c), DrawCursor(c.cursor),
         UNCHANGED <<handle, wire, seat, touch, orphaned>>
  PROVE  OverlayInv'
<1>1. /\ overlay \in OverlayStates /\ committed \in Surfaces /\ control \in Seq(Commands)
      /\ overlay.at # "ended" /\ InLoop
  BY DEF OverlayInv, SurfaceInv, OverlayTyped, InLoop
<1>2. c \in Commands /\ c.cursor \in Cursors
  BY <1>1, QueueAdvances DEF Commands
<1>3. /\ overlay.size \in Extents
      /\ committed.region = InputRegion(overlay.enabled)
      /\ committed.buffer = IF overlay.visible THEN overlay.index ELSE "blank"
      /\ handle.at # "gone"
  BY <1>1 DEF OverlayInv, SurfaceInv, Surface
<1>4. PICK drawn \in Cursors : drawn = c.cursor
  BY <1>2
<1>5. /\ overlay' \in OverlayStates /\ committed' \in Surfaces
      /\ overlay'.at = overlay.at /\ overlay'.size = overlay.size
      /\ overlay'.enabled = overlay.enabled /\ overlay'.left = overlay.left
      /\ committed'.region = committed.region
      /\ committed'.buffer = IF overlay'.visible THEN overlay'.index ELSE "blank"
      /\ Shows(drawn)'
  BY <1>1, <1>3, <1>4, Drawn
<1>6. drawn \in handle.cursors /\ overlay.enabled \in handle.regions
  BY <1>1, <1>4, QueueAdvances DEF OverlayInv, SurfaceInv, Reckons, Reckoned
<1>7. Surface'
  <2>1. handle'.at = "asking" => handle'.last \in Questions
    BY DEF OverlayInv, SurfaceInv, Surface
  <2>2. \E shown \in handle'.cursors : Shows(shown)'
    BY <1>5, <1>6
  <2>3. overlay'.at \in {"drain", "dispatch"} /\ overlay'.at # "ended" /\ handle'.at # "gone"
    BY <1>1, <1>3, <1>5
  <2> QED
    BY <1>3, <1>5, <2>1, <2>2, <2>3 DEF Surface, InLoop
<1>8. Says(c, handle.last) => InPlace(handle.last)'
  <2>1. PICK last : last = handle.last
    OBVIOUS
  <2>2. Says(c, last) => last[1] = "cursor" /\ last[2] = drawn
    BY <1>4 DEF Says
  <2>3. Says(c, last) => InPlace(last)'
    BY <1>5, <2>2 DEF InPlace
  <2> QED
    BY <2>1, <2>3
<1>9. SurfaceInv'
  BY <1>1, <1>5, <1>6, <1>7, <1>8, CarriedOut DEF OverlayInv
<1>10. TouchInv'
  BY <1>1, <1>5, TouchStays DEF OverlayInv
<1> QED
  BY <1>9, <1>10 DEF OverlayInv

\* A command: the stop, the region, the cursor, or a cursor that does not fit.
LEMMA DrainKeepsOverlay == ASSUME OverlayInv, DrainCommand PROVE OverlayInv'
<1>1. overlay.at = "drain" /\ control # <<>> /\ overlay \in OverlayStates
  BY DEF DrainCommand, OverlayInv, SurfaceInv, OverlayTyped
<1>2. PICK c : c = Head(control)
  OBVIOUS
<1>3. CASE c.what = "stop" /\ OverlayEnds
  BY <1>3, ThreadEnds
<1>4. CASE /\ c.what = "region" /\ Answers(c)
           /\ overlay' = [overlay EXCEPT !.enabled = c.enabled]
           /\ committed' = [committed EXCEPT !.region = InputRegion(c.enabled)]
           /\ UNCHANGED <<handle, wire, seat, touch, orphaned>>
  BY <1>1, <1>2, <1>4, RegionKeeps
<1>5. CASE /\ c.what = "cursor" /\ Fits /\ Answers(c) /\ DrawCursor(c.cursor)
           /\ UNCHANGED <<handle, wire, seat, touch, orphaned>>
  BY <1>1, <1>2, <1>5, DrawKeeps
<1>6. CASE /\ c.what = "cursor" /\ ~Fits
           /\ overlay' = [overlay EXCEPT !.at = "ended"]
           /\ handle' = [handle EXCEPT !.at = "aborted"]
           /\ control' = <<>> /\ wire' = <<>> /\ committed' = NoSurface
           /\ seat' = [seat EXCEPT !.over = FALSE, !.down = FALSE]
           /\ touch' = FALSE /\ UNCHANGED <<answered, orphaned>>
  <2>1. SurfaceInv'
    BY <1>6, SurfaceEnds DEF OverlayInv
  <2>2. TouchInv'
    BY <1>1, <1>6, TouchEnds DEF OverlayInv
  <2> QED
    BY <2>1, <2>2 DEF OverlayInv
<1> QED
  BY <1>2, <1>3, <1>4, <1>5, <1>6 DEF DrainCommand

\* The turns of the loop.
LEMMA TurnKeeps == ASSUME OverlayInv, Drained \/ NextTurn PROVE OverlayInv'
<1>1. ASSUME NEW place \in {"drain", "dispatch"}, overlay' = [overlay EXCEPT !.at = place],
             overlay.at \in {"drain", "dispatch"},
             UNCHANGED <<readiness, committed, wire, seat>>, ThreadUnchanged
      PROVE  OverlayInv'
  <2>1. overlay \in OverlayStates
    BY DEF OverlayInv, SurfaceInv, OverlayTyped
  <2>2. /\ overlay' \in OverlayStates
        /\ overlay'.at = place /\ overlay'.size = overlay.size
        /\ overlay'.enabled = overlay.enabled /\ overlay'.visible = overlay.visible
        /\ overlay'.index = overlay.index /\ overlay'.left = overlay.left
    BY <1>1, <2>1 DEF OverlayStates, OverlayPlaces
  <2>3. overlay'.size \in Extents
    BY <1>1, <2>2 DEF OverlayInv, SurfaceInv, Surface
  <2>4. SurfaceInv'
    BY <1>1, <2>2, <2>3, SurfaceStays DEF OverlayInv, ThreadUnchanged
  <2>5. TouchInv'
    BY <1>1, <2>2, TouchStays DEF OverlayInv, ThreadUnchanged
  <2> QED
    BY <2>4, <2>5 DEF OverlayInv
<1>2. CASE Drained
  BY <1>1, <1>2 DEF Drained
<1>3. CASE NextTurn
  BY <1>1, <1>3, ThreadEnds DEF NextTurn
<1> QED
  BY <1>2, <1>3

\* Presses stay followed by what takes them back when the first event has been dispatched,
\* and the contact explained by an event other than it.
LEMMA WireAdvances ==
  ASSUME TouchInv, wire # <<>>, wire' = Tail(wire), UNCHANGED seat
  PROVE  /\ wire' \in Seq(Events) /\ Head(wire) \in Events
         /\ (\A n \in DOMAIN wire :
               wire[n].what = "press" => seat.down \/ \E m \in DOMAIN wire : m > n /\ Lifts(wire[m]))'
         /\ Head(wire).what = "press" => seat.down \/ \E m \in DOMAIN wire' : Lifts(wire'[m])
         /\ (\E n \in DOMAIN wire : Lifts(wire[n])) /\ ~Lifts(Head(wire))
              => \E m \in DOMAIN wire' : Lifts(wire'[m])
<1>1. wire \in Seq(Events) /\ DOMAIN wire \subseteq Nat /\ DOMAIN wire' \subseteq Nat
  <2>1. wire \in Seq(Events) /\ wire' \in Seq(Events)
    BY QueueAdvances DEF TouchInv
  <2> QED
    BY <2>1
<1>2. ASSUME NEW n \in DOMAIN wire, n > 1 PROVE n - 1 \in DOMAIN wire' /\ wire'[n - 1] = wire[n]
  BY <1>1, <1>2, QueueAdvances
<1>3. ASSUME NEW n \in DOMAIN wire', wire'[n].what = "press"
      PROVE  seat.down \/ \E m \in DOMAIN wire' : m > n /\ Lifts(wire'[m])
  <2>1. n + 1 \in DOMAIN wire /\ wire'[n] = wire[n + 1] /\ n \in Nat
    BY <1>1, <1>3, QueueAdvances
  <2>2. CASE seat.down
    BY <2>2
  <2>3. CASE \E m \in DOMAIN wire : m > n + 1 /\ Lifts(wire[m])
    <3>1. PICK m \in DOMAIN wire : m > n + 1 /\ Lifts(wire[m])
      BY <2>3
    <3>2. m \in Nat /\ m > 1 /\ m - 1 > n
      BY <1>1, <2>1, <3>1
    <3>3. m - 1 \in DOMAIN wire' /\ Lifts(wire'[m - 1])
      BY <1>2, <3>1, <3>2
    <3> QED
      BY <3>2, <3>3
  <2> QED
    BY <1>3, <2>1, <2>2, <2>3 DEF TouchInv
<1>4. ASSUME Head(wire).what = "press"
      PROVE  seat.down \/ \E m \in DOMAIN wire' : Lifts(wire'[m])
  <2>1. Head(wire) = wire[1] /\ 1 \in DOMAIN wire
    BY <1>1, QueueAdvances
  <2>2. CASE seat.down
    BY <2>2
  <2>3. CASE \E m \in DOMAIN wire : m > 1 /\ Lifts(wire[m])
    BY <1>2, <2>3
  <2> QED
    BY <1>4, <2>1, <2>2, <2>3 DEF TouchInv
<1>5. ASSUME NEW n \in DOMAIN wire, Lifts(wire[n]), ~Lifts(Head(wire))
      PROVE  \E m \in DOMAIN wire' : Lifts(wire'[m])
  <2>1. Head(wire) = wire[1] /\ n \in Nat /\ n \in DOMAIN wire /\ n >= 1
    BY <1>1, QueueAdvances
  <2>2. n > 1
    BY <1>5, <2>1
  <2> QED
    BY <1>2, <1>5, <2>2
<1>6. (\A n \in DOMAIN wire :
         wire[n].what = "press" => seat.down \/ \E m \in DOMAIN wire : m > n /\ Lifts(wire[m]))'
  BY <1>3 DEF Lifts
<1> QED
  BY <1>1, <1>4, <1>5, <1>6, QueueAdvances

\* What the thread makes of Gamescope's events.
LEMMA DispatchKeeps == ASSUME OverlayInv, DispatchEvent PROVE OverlayInv'
<1>1. PICK e : e = Head(wire)
  OBVIOUS
<1>2. /\ overlay \in OverlayStates /\ overlay.at \in {"configure", "dispatch"} /\ wire # <<>>
      /\ TouchInv /\ SurfaceInv
      /\ UNCHANGED <<handle, control, answered, readiness, committed, seat>>
  BY DEF DispatchEvent, OverlayInv, SurfaceInv, OverlayTyped
<1>3. e \in Events
  BY <1>1, <1>2, QueueAdvances DEF TouchInv
<1>4. \/ e.what \in {"configure", "closed"} /\ SurfaceEvent(e)
      \/ e.what = "capabilities" /\ SeatChanged(e)
      \/ e.what \in {"press", "release"} /\ LeftButton(e.what = "press")
      \/ e.what = "leave" /\ PointerLeft
  BY <1>1 DEF DispatchEvent
<1>5. wire' = Tail(wire)
  BY <1>4 DEF SurfaceEvent, SeatChanged, LeftButton, PointerLeft
<1>6. /\ overlay' \in OverlayStates /\ overlay'.at = overlay.at
      /\ overlay'.enabled = overlay.enabled /\ overlay'.visible = overlay.visible
      /\ overlay'.index = overlay.index
      /\ overlay'.size = overlay.size \/ overlay'.size \in Extents
  <2>1. CASE e.what = "configure" /\ SurfaceEvent(e)
    <3>1. e.extent \in Extents
      BY <1>3, <2>1 DEF Events
    <3> QED
      BY <1>2, <2>1, <3>1 DEF SurfaceEvent, OverlayStates
  <2>2. CASE e.what = "closed" /\ SurfaceEvent(e)
    BY <1>2, <2>2 DEF SurfaceEvent, OverlayStates
  <2>3. CASE e.what = "capabilities" /\ SeatChanged(e)
    <3>1. e.present \in BOOLEAN
      BY <1>3, <2>3 DEF Events
    <3> QED
      BY <1>2, <2>3, <3>1 DEF SeatChanged, OverlayStates
  <2>4. ASSUME NEW pressed \in BOOLEAN, overlay' = [overlay EXCEPT !.left = pressed]
        PROVE  /\ overlay' \in OverlayStates /\ overlay'.at = overlay.at
               /\ overlay'.enabled = overlay.enabled /\ overlay'.visible = overlay.visible
               /\ overlay'.index = overlay.index /\ overlay'.size = overlay.size
    BY <1>2, <2>4 DEF OverlayStates
  <2>5. CASE e.what \in {"press", "release"} /\ LeftButton(e.what = "press")
    BY <2>4, <2>5 DEF LeftButton
  <2>6. CASE e.what = "leave" /\ PointerLeft
    BY <1>2, <2>4, <2>6 DEF PointerLeft, LeftButton
  <2> QED
    BY <1>4, <2>1, <2>2, <2>3, <2>5, <2>6
<1>7. SurfaceInv'
  <2>1. overlay'.at \in {"map", "drain", "dispatch"} => overlay'.size \in Extents
    BY <1>2, <1>6 DEF SurfaceInv, Surface
  <2> QED
    BY <1>2, <1>6, <2>1, SurfaceStays
<1>8. TouchInv'
  <2>1. /\ wire' \in Seq(Events) /\ seat' \in Seats /\ overlay.at # "ended"
        /\ (\A n \in DOMAIN wire :
              wire[n].what = "press" => seat.down \/ \E m \in DOMAIN wire : m > n /\ Lifts(wire[m]))'
    BY <1>2, <1>5, WireAdvances DEF TouchInv
  <2>2. /\ touch \in BOOLEAN /\ overlay.left \in BOOLEAN /\ (touch => overlay.left)
        /\ touch => seat.down \/ orphaned \/ \E n \in DOMAIN wire : Lifts(wire[n])
    BY <1>2 DEF TouchInv, TouchIsExplained, Lifts
  <2>3. SUFFICES /\ touch' \in BOOLEAN /\ overlay'.left \in BOOLEAN /\ (touch' => overlay'.left)
                 /\ touch' => seat.down \/ orphaned' \/ \E n \in DOMAIN wire' : Lifts(wire'[n])
    BY <1>2, <2>1 DEF TouchInv, TouchIsExplained, Lifts
  <2>4. CASE e.what \in {"configure", "closed"} /\ SurfaceEvent(e)
    <3>1. ~Lifts(e) /\ overlay'.left = overlay.left
      BY <1>2, <2>4 DEF Lifts, SurfaceEvent, OverlayStates
    <3> QED
      BY <1>1, <1>2, <1>5, <2>2, <2>4, <3>1, WireAdvances DEF SurfaceEvent
  <2>5. CASE e.what = "capabilities" /\ SeatChanged(e)
    <3>1. overlay'.left = overlay.left /\ touch' = touch /\ e.present \in BOOLEAN
      BY <1>2, <1>3, <2>5 DEF SeatChanged, OverlayStates, Events
    <3>2. CASE e.present
      <4>1. e # [what |-> "capabilities", present |-> FALSE]
        BY <3>2
      <4>2. ~Lifts(e)
        BY <2>5, <4>1 DEF Lifts
      <4>3. orphaned => orphaned'
        BY <2>5 DEF SeatChanged
      <4>4. (\E n \in DOMAIN wire : Lifts(wire[n])) => \E n \in DOMAIN wire' : Lifts(wire'[n])
        BY <1>1, <1>2, <1>5, <4>2, WireAdvances
      <4> QED
        BY <2>2, <3>1, <4>3, <4>4
    <3>3. CASE ~e.present
      BY <2>2, <2>5, <3>1, <3>3 DEF SeatChanged
    <3> QED
      BY <3>2, <3>3
  <2>6. CASE e.what = "press" /\ LeftButton(TRUE)
    <3>1. overlay'.left = TRUE /\ touch' = TRUE
      BY <1>2, <2>6 DEF LeftButton, OverlayStates
    <3>2. seat.down \/ \E m \in DOMAIN wire' : Lifts(wire'[m])
      BY <1>1, <1>2, <1>5, <2>6, WireAdvances
    <3> QED
      BY <3>1, <3>2
  <2>7. CASE LeftButton(FALSE)
    <3>1. overlay'.left = FALSE /\ touch' = FALSE
      BY <1>2, <2>7 DEF LeftButton, OverlayStates
    <3> QED
      BY <3>1
  <2>8. CASE e.what = "leave" /\ ~overlay.left /\ UNCHANGED <<overlay, touch, orphaned>>
    BY <2>2, <2>8
  <2>9. e.what \in {"press", "release"} /\ LeftButton(e.what = "press")
          => (e.what = "press" /\ LeftButton(TRUE)) \/ LeftButton(FALSE)
    BY DEF LeftButton
  <2> QED
    BY <1>4, <2>4, <2>5, <2>6, <2>7, <2>8, <2>9 DEF PointerLeft
<1> QED
  BY <1>7, <1>8 DEF OverlayInv

\* Gamescope sends an event.
LEMMA SentKeeps ==
  ASSUME OverlayInv, NEW e \in Events, Sends(e), seat' \in Seats,
         seat.down => seat'.down \/ Lifts(e),
         e.what = "press" => seat'.down
  PROVE  OverlayInv'
<1>1. /\ UNCHANGED <<handle, control, answered, overlay, readiness, committed, touch, orphaned>>
      /\ wire' = Append(wire, e) /\ wire \in Seq(Events) /\ overlay \in OverlayStates
  BY DEF Sends, OverlayInv, SurfaceInv, OverlayTyped, TouchInv
<1>2. SurfaceInv'
  <2>1. overlay'.at \in {"map", "drain", "dispatch"} => overlay'.size \in Extents
    BY <1>1 DEF OverlayInv, SurfaceInv, Surface
  <2> QED
    BY <1>1, <2>1, SurfaceStays DEF OverlayInv
<1>3. /\ wire' \in Seq(Events) /\ Len(wire) + 1 \in DOMAIN wire' /\ wire'[Len(wire) + 1] = e
      /\ \A n \in DOMAIN wire : n \in DOMAIN wire' /\ wire'[n] = wire[n] /\ Len(wire) + 1 > n
      /\ \A n \in DOMAIN wire' : n \in DOMAIN wire \/ n = Len(wire) + 1
  BY <1>1
<1>4. TouchIsExplained'
  BY <1>1, <1>3 DEF OverlayInv, TouchInv, TouchIsExplained, Lifts
<1>5. ASSUME NEW n \in DOMAIN wire', wire'[n].what = "press"
      PROVE  seat'.down \/ \E m \in DOMAIN wire' : m > n /\ Lifts(wire'[m])
  <2>1. CASE n = Len(wire) + 1
    BY <1>3, <1>5, <2>1
  <2>2. CASE n \in DOMAIN wire
    <3>1. seat.down \/ \E m \in DOMAIN wire : m > n /\ Lifts(wire[m])
      BY <1>3, <1>5, <2>2 DEF OverlayInv, TouchInv
    <3> QED
      BY <1>3, <2>2, <3>1
  <2> QED
    BY <1>3, <2>1, <2>2
<1>6. (\A n \in DOMAIN wire :
         wire[n].what = "press" => seat.down \/ \E m \in DOMAIN wire : m > n /\ Lifts(wire[m]))'
  BY <1>5 DEF Lifts
<1>7. /\ touch' \in BOOLEAN /\ overlay'.left \in BOOLEAN
      /\ touch' /\ overlay'.at # "ended" => overlay'.left
  BY <1>1 DEF OverlayInv, TouchInv
<1>8. TouchInv'
  BY <1>3, <1>4, <1>6, <1>7 DEF TouchInv
<1> QED
  BY <1>2, <1>8 DEF OverlayInv

\* An event more, and the seat as it then is.
LEMMA SeatCounted ==
  ASSUME NEW s \in Seats, Counted(s)
  PROVE  seat' \in Seats /\ seat'.down = s.down
BY DEF Counted, Seats

\* A press comes with the button down, and whatever ends it is what takes it back.
LEMMA GamescopeKeeps ==
  ASSUME OverlayInv,
         Configures \/ Closes \/ SeatGains \/ SeatLoses \/ Presses \/ Releases \/ Leaves
  PROVE  OverlayInv'
<1>1. seat \in Seats
  BY DEF OverlayInv, TouchInv
<1>2. CASE Configures
  <2>1. PICK x \in Extents : Sends([what |-> "configure", extent |-> x]) /\ Counted(seat)
    BY <1>2 DEF Configures
  <2>2. /\ [what |-> "configure", extent |-> x] \in Events
        /\ [what |-> "configure", extent |-> x].what # "press"
    BY DEF Events
  <2>3. seat' \in Seats /\ seat'.down = seat.down
    BY <1>1, <2>1 DEF Counted, Seats
  <2> QED
    BY <2>1, <2>2, <2>3, SentKeeps
<1>3. CASE Closes
  <2>1. [what |-> "closed"] \in Events /\ [what |-> "closed"].what # "press"
    BY DEF Events
  <2>2. seat' \in Seats /\ seat'.down = seat.down
    BY <1>1, <1>3 DEF Closes, Counted, Seats
  <2> QED
    BY <1>3, <2>1, <2>2, SentKeeps DEF Closes
<1>4. CASE SeatGains
  <2>1. /\ [what |-> "capabilities", present |-> TRUE] \in Events
        /\ [what |-> "capabilities", present |-> TRUE].what # "press"
    BY DEF Events
  <2>2. seat' \in Seats /\ seat'.down = seat.down
    <3>1. /\ [seat EXCEPT !.present = TRUE] \in Seats
          /\ [seat EXCEPT !.present = TRUE].down = seat.down
      BY <1>1 DEF Seats
    <3> QED
      BY <1>4, <3>1, SeatCounted DEF SeatGains
  <2> QED
    BY <1>4, <2>1, <2>2, SentKeeps DEF SeatGains
<1>5. CASE SeatLoses
  <2>1. /\ [what |-> "capabilities", present |-> FALSE] \in Events
        /\ Lifts([what |-> "capabilities", present |-> FALSE])
        /\ [what |-> "capabilities", present |-> FALSE].what # "press"
    BY DEF Events, Lifts
  <2>2. seat' \in Seats
    <3>1. [seat EXCEPT !.present = FALSE, !.over = FALSE, !.down = FALSE] \in Seats
      BY <1>1 DEF Seats
    <3> QED
      BY <1>5, <3>1, SeatCounted DEF SeatLoses
  <2> QED
    BY <1>5, <2>1, <2>2, SentKeeps DEF SeatLoses
<1>6. CASE Presses
  <2>1. [what |-> "press"] \in Events
    BY DEF Events
  <2>2. seat' \in Seats /\ seat'.down
    <3>1. [seat EXCEPT !.down = TRUE] \in Seats /\ [seat EXCEPT !.down = TRUE].down
      BY <1>1 DEF Seats
    <3> QED
      BY <1>6, <3>1, SeatCounted DEF Presses
  <2> QED
    BY <1>6, <2>1, <2>2, SentKeeps DEF Presses
<1>7. CASE Releases
  <2>1. /\ [what |-> "release"] \in Events /\ Lifts([what |-> "release"])
        /\ [what |-> "release"].what # "press"
    BY DEF Events, Lifts
  <2>2. seat' \in Seats
    <3>1. [seat EXCEPT !.down = FALSE] \in Seats
      BY <1>1 DEF Seats
    <3> QED
      BY <1>7, <3>1, SeatCounted DEF Releases
  <2> QED
    BY <1>7, <2>1, <2>2, SentKeeps DEF Releases
<1>8. CASE Leaves
  <2>1. /\ [what |-> "leave"] \in Events /\ Lifts([what |-> "leave"])
        /\ [what |-> "leave"].what # "press"
    BY DEF Events, Lifts
  <2>2. seat' \in Seats
    <3>1. [seat EXCEPT !.over = FALSE, !.down = FALSE] \in Seats
      BY <1>1 DEF Seats
    <3> QED
      BY <1>8, <3>1, SeatCounted DEF Leaves
  <2> QED
    BY <1>8, <2>1, <2>2, SentKeeps DEF Leaves
<1> QED
  BY <1>2, <1>3, <1>4, <1>5, <1>6, <1>7, <1>8

\* The pointer is over the surface.
LEMMA EntersKeeps == ASSUME OverlayInv, Enters PROVE OverlayInv'
<1>1. /\ UNCHANGED <<handle, control, answered, overlay, readiness, committed, wire, touch, orphaned>>
      /\ seat' = [seat EXCEPT !.over = TRUE] /\ seat \in Seats
  BY DEF Enters, OverlayInv, TouchInv
<1>2. seat' \in Seats /\ seat'.down = seat.down
  BY <1>1 DEF Seats
<1>3. SurfaceInv'
  <2>1. overlay' \in OverlayStates
    BY <1>1 DEF OverlayInv, SurfaceInv, OverlayTyped
  <2>2. overlay'.at \in {"map", "drain", "dispatch"} => overlay'.size \in Extents
    BY <1>1 DEF OverlayInv, SurfaceInv, Surface
  <2> QED
    BY <1>1, <2>1, <2>2, SurfaceStays DEF OverlayInv
<1>4. TouchIsExplained'
  BY <1>1, <1>2 DEF OverlayInv, TouchInv, TouchIsExplained
<1>5. TouchInv'
  BY <1>1, <1>2, <1>4 DEF OverlayInv, TouchInv, Lifts
<1> QED
  BY <1>3, <1>5 DEF OverlayInv

\* A step of the session: the thread, the surface and what a contact is explained by stay.
LEMMA SessionKeeps ==
  ASSUME OverlayInv, HandleOnly, handle' \in Handles, control' \in Seq(Commands),
         Reckons', NothingAsked',
         InLoop => \E c \in handle'.cursors : Shows(c),
         handle'.at = "gone" => overlay.at = "ended",
         handle'.at = "asking" => handle'.last \in Questions
  PROVE  OverlayInv'
<1>1. UNCHANGED <<answered, overlay, readiness, committed, wire, seat, touch, orphaned>>
  BY DEF HandleOnly
<1>2. OverlayTyped'
  BY <1>1 DEF OverlayInv, SurfaceInv, OverlayTyped
<1>3. Surface'
  BY <1>1 DEF OverlayInv, SurfaceInv, Surface, InLoop, Shows
<1>4. TouchInv'
  BY <1>1, TouchStays DEF OverlayInv
<1> QED
  BY <1>2, <1>3, <1>4 DEF OverlayInv, SurfaceInv

\* The session gives up or is done: at most the stop is asked, and nothing after it.
LEMMA StopKeeps ==
  ASSUME OverlayInv, HandleOnly, handle' = [handle EXCEPT !.at = "joining"],
         handle.at \in {"starting", "up"},
         control' \in {control, <<>>, Append(control, [what |-> "stop"])}
  PROVE  OverlayInv'
<1>1. /\ handle \in Handles /\ control \in Seq(Commands) /\ UNCHANGED <<overlay, readiness, committed>>
      /\ [what |-> "stop"] \in Commands
  BY DEF OverlayInv, SurfaceInv, OverlayTyped, HandleOnly, Commands
<1>2. /\ handle' \in Handles /\ handle'.at = "joining"
      /\ handle'.regions = handle.regions /\ handle'.cursors = handle.cursors
  BY <1>1 DEF Handles, HandlePlaces
<1>3. control' \in Seq(Commands)
  <2>1. PICK stop \in Commands : stop = [what |-> "stop"]
    BY <1>1
  <2>2. Append(control, stop) \in Seq(Commands) /\ <<>> \in Seq(Commands)
    BY <1>1
  <2> QED
    BY <1>1, <2>1, <2>2
<1>4. ASSUME overlay.at # "ended", NEW n \in DOMAIN control' PROVE Reckoned(control[n])'
  <2>1. (n \in DOMAIN control /\ control'[n] = control[n]) \/ control'[n] = [what |-> "stop"]
    BY <1>1, <1>4
  <2>2. CASE n \in DOMAIN control /\ control'[n] = control[n]
    BY <1>2, <1>4, <2>2 DEF OverlayInv, SurfaceInv, Reckons, Reckoned
  <2>3. CASE control'[n] = [what |-> "stop"]
    BY <2>3 DEF Reckoned
  <2> QED
    BY <2>1, <2>2, <2>3
<1>5. Reckons'
  <2>1. overlay.at # "ended" => (\A n \in DOMAIN control : Reckoned(control[n]))'
    BY <1>4 DEF Reckoned
  <2>2. overlay.at # "ended" => overlay'.enabled \in handle'.regions
    BY <1>1, <1>2 DEF OverlayInv, SurfaceInv, Reckons
  <2> QED
    BY <1>1, <1>2, <2>1, <2>2 DEF Reckons
<1>6. NothingAsked'
  BY <1>1, <1>2 DEF OverlayInv, SurfaceInv, NothingAsked
<1>7. InLoop => \E c \in handle'.cursors : Shows(c)
  BY <1>2 DEF OverlayInv, SurfaceInv, Surface
<1> QED
  BY <1>2, <1>3, <1>5, <1>6, <1>7, SessionKeeps

\* spawn returns the overlay with nothing asked, or gives up.
LEMMA SpawnedKeeps == ASSUME OverlayInv, Spawned PROVE OverlayInv'
<1>1. handle.at = "starting" /\ handle \in Handles /\ HandleOnly
  BY DEF Spawned, OverlayInv, SurfaceInv, OverlayTyped
<1>2. CASE readiness = "ok" /\ HandleAt("up") /\ UNCHANGED control
  <2>1. /\ handle' \in Handles /\ handle'.at = "up" /\ handle'.asks = handle.asks
        /\ handle'.regions = handle.regions /\ handle'.cursors = handle.cursors
    BY <1>1, <1>2 DEF HandleAt, Handles, HandlePlaces
  <2>2. overlay' = overlay /\ answered' = answered /\ readiness' = readiness
    BY <1>1 DEF HandleOnly
  <2>3. Reckons'
    <3>1. overlay.at # "ended" => control = <<>> /\ handle.asks = 0 /\ answered = 0
      BY <1>1 DEF OverlayInv, SurfaceInv, Reckons
    <3>2. overlay.at # "ended" => Numbered'
      BY <1>2, <2>1, <2>2, <3>1 DEF Numbered
    <3>3. overlay.at # "ended" => overlay.enabled \in handle.regions
      BY DEF OverlayInv, SurfaceInv, Reckons
    <3>4. overlay.at # "ended" => DOMAIN control' = {}
      BY <1>2, <3>1
    <3> QED
      BY <2>1, <2>2, <3>2, <3>3, <3>4 DEF Reckons
  <2>4. NothingAsked'
    BY <1>2, <2>2 DEF OverlayInv, SurfaceInv, NothingAsked
  <2>5. InLoop => \E c \in handle'.cursors : Shows(c)
    BY <2>1 DEF OverlayInv, SurfaceInv, Surface
  <2>6. control' \in Seq(Commands)
    BY <1>2 DEF OverlayInv, SurfaceInv, OverlayTyped
  <2> QED
    BY <1>1, <2>1, <2>3, <2>4, <2>5, <2>6, SessionKeeps
<1>3. ASSUME HandleAt("joining"),
             control' \in {control, <<>>, Append(control, [what |-> "stop"])}
      PROVE  OverlayInv'
  BY <1>1, <1>3, StopKeeps DEF HandleAt
<1> QED
  BY <1>2, <1>3 DEF Spawned

\* The handle is dropped.
LEMMA DropKeeps == ASSUME OverlayInv, DropOverlay PROVE OverlayInv'
<1>1. control' \in {control, <<>>, Append(control, [what |-> "stop"])}
  BY DEF DropOverlay
<1> QED
  BY <1>1, StopKeeps DEF DropOverlay, HandleAt

\* The session asks: the question is the last command, unless the thread is gone.
LEMMA AskKeeps ==
  ASSUME OverlayInv, NEW c \in Commands, NEW regions \in SUBSET BOOLEAN, NEW cursors \in SUBSET Cursors,
         NEW last \in Questions,
         c.what # "stop", c.ask = handle.asks + 1, Says(c, last),
         handle.regions \subseteq regions, handle.cursors \subseteq cursors,
         c.what = "region" => c.enabled \in regions,
         c.what = "cursor" => c.cursor \in cursors,
         NEW known, known = [handle EXCEPT !.regions = regions, !.cursors = cursors, !.last = last],
         Ask(c, known)
  PROVE  OverlayInv'
<1>1. /\ handle.at = "up" /\ HandleOnly /\ handle \in Handles /\ control \in Seq(Commands)
      /\ handle.asks \in Nat /\ answered \in Int
  BY DEF Ask, OverlayInv, SurfaceInv, OverlayTyped, Handles
<1>2. UNCHANGED <<overlay, readiness, answered, committed>> /\ overlay.at \notin EarlyPlaces
  BY <1>1 DEF HandleOnly, OverlayInv, SurfaceInv, NothingAsked
<1>3. NothingAsked'
  BY <1>2 DEF NothingAsked
<1>4. CASE overlay.at = "ended"
  <2>1. handle' = [handle EXCEPT !.asks = @ + 1] /\ control' = control
    BY <1>4 DEF Ask
  <2>2. handle' \in Handles /\ handle'.at = "up"
    BY <1>1, <2>1 DEF Handles
  <2>3. Reckons' /\ ~InLoop
    BY <1>2, <1>4 DEF Reckons, InLoop
  <2> QED
    BY <1>1, <1>3, <2>1, <2>2, <2>3, SessionKeeps
<1>5. CASE overlay.at # "ended"
  <2>1. control' = Append(control, c) /\ handle' = [known EXCEPT !.at = "asking", !.asks = @ + 1]
    BY <1>5 DEF Ask
  <2>2. /\ known \in Handles /\ known.asks = handle.asks
        /\ known.regions = regions /\ known.cursors = cursors /\ known.last = last
    BY <1>1 DEF Handles
  <2>3. /\ handle' \in Handles /\ handle'.at = "asking" /\ handle'.asks = handle.asks + 1
        /\ handle'.regions = regions /\ handle'.cursors = cursors /\ handle'.last = last
    <3>1. PICK asks \in Nat : asks = known.asks + 1
      BY <1>1, <2>2
    <3>2. handle' = [known EXCEPT !.at = "asking", !.asks = asks]
      BY <2>1, <3>1
    <3> QED
      BY <2>2, <3>1, <3>2 DEF Handles, HandlePlaces
  <2>4. /\ control' \in Seq(Commands) /\ Len(control') = Len(control) + 1 /\ Len(control) \in Nat
        /\ control'[Len(control')] = c /\ control' # <<>>
        /\ \A n \in DOMAIN control' :
             n \in Nat /\ ((n \in DOMAIN control /\ control'[n] = control[n]) \/ (n = Len(control) + 1 /\ control'[n] = c))
    BY <1>1, <2>1
  <2>5. Reckons'
    <3>1. Reckons /\ Numbered /\ overlay.enabled \in handle.regions
      BY <1>1, <1>5 DEF OverlayInv, SurfaceInv, Reckons
    <3>2. ASSUME NEW n \in DOMAIN control' PROVE Reckoned(control[n])'
      <4>1. CASE n \in DOMAIN control /\ control'[n] = control[n]
        BY <1>5, <2>3, <3>1, <4>1 DEF Reckons, Reckoned
      <4>2. CASE control'[n] = c
        BY <2>3, <4>2 DEF Reckoned
      <4> QED
        BY <2>4, <4>1, <4>2
    <3>3. Numbered'
      <4>1. answered' = handle'.asks - Len(control')
        BY <1>1, <1>2, <2>3, <2>4, <3>1 DEF Numbered
      <4>2. ASSUME NEW n \in DOMAIN control'
            PROVE  control'[n].what # "stop" /\ control'[n].ask = handle'.asks - Len(control') + n
        <5>1. CASE n \in DOMAIN control /\ control'[n] = control[n]
          <6>1. control[n].what # "stop" /\ control[n].ask = handle.asks - Len(control) + n /\ n \in Nat
            BY <2>4, <3>1, <5>1 DEF Numbered
          <6> QED
            BY <1>1, <2>3, <2>4, <5>1, <6>1
        <5>2. CASE n = Len(control) + 1 /\ control'[n] = c
          BY <1>1, <2>3, <2>4, <5>2
        <5> QED
          BY <2>4, <5>1, <5>2
      <4> QED
        BY <4>1, <4>2 DEF Numbered
    <3>4. Waits'
      BY <2>3, <2>4 DEF Waits, Says
    <3>5. overlay'.enabled \in handle'.regions
      BY <1>2, <2>3, <3>1
    <3>6. (\A n \in DOMAIN control : Reckoned(control[n]))'
      BY <3>2 DEF Reckoned
    <3> QED
      BY <2>3, <3>3, <3>4, <3>5, <3>6 DEF Reckons
  <2>6. InLoop => \E x \in handle'.cursors : Shows(x)
    BY <2>3 DEF OverlayInv, SurfaceInv, Surface
  <2> QED
    BY <1>1, <1>3, <2>3, <2>4, <2>5, <2>6, SessionKeeps
<1> QED
  BY <1>4, <1>5

\* What set_enabled and set_cursor ask for keeps what the overlay reckons with.
LEMMA AskingKeeps ==
  ASSUME OverlayInv,
         (\E on \in BOOLEAN : SetEnabled(on)) \/ (\E c \in Cursors : SetCursor(c))
  PROVE  OverlayInv'
<1>1. handle \in Handles /\ handle.asks \in Nat /\ handle.asks + 1 \in Nat
  BY DEF OverlayInv, SurfaceInv, OverlayTyped, Handles
<1>2. PICK regions \in SUBSET BOOLEAN, cursors \in SUBSET Cursors :
        regions = handle.regions /\ cursors = handle.cursors
  BY <1>1 DEF Handles
<1>3. ASSUME NEW on \in BOOLEAN, SetEnabled(on) PROVE OverlayInv'
  <2>1. PICK c : c = [what |-> "region", ask |-> handle.asks + 1, enabled |-> on]
    OBVIOUS
  <2>2. PICK last : last = <<"region", on>>
    OBVIOUS
  <2>3. PICK known : known = [handle EXCEPT !.regions = @ \cup {on}, !.last = <<"region", on>>]
    OBVIOUS
  <2>4. known = [handle EXCEPT !.regions = regions \cup {on}, !.cursors = cursors, !.last = last]
    BY <1>1, <1>2, <2>2, <2>3 DEF Handles
  <2>5. c \in Commands /\ c.what = "region" /\ c.enabled = on /\ c.ask = handle.asks + 1
    BY <1>1, <2>1 DEF Commands
  <2>6. last \in Questions /\ Says(c, last)
    BY <2>2, <2>5 DEF Questions, Says
  <2>7. Ask(c, known)
    BY <1>3, <2>1, <2>3 DEF SetEnabled
  <2>8. regions \cup {on} \in SUBSET BOOLEAN
    OBVIOUS
  <2> QED
    BY <1>2, <2>4, <2>5, <2>6, <2>7, <2>8, AskKeeps
<1>4. ASSUME NEW x \in Cursors, SetCursor(x) PROVE OverlayInv'
  <2>1. PICK c : c = [what |-> "cursor", ask |-> handle.asks + 1, cursor |-> x]
    OBVIOUS
  <2>2. PICK last : last = <<"cursor", x>>
    OBVIOUS
  <2>3. PICK known : known = [handle EXCEPT !.cursors = @ \cup {x}, !.last = <<"cursor", x>>]
    OBVIOUS
  <2>4. known = [handle EXCEPT !.regions = regions, !.cursors = cursors \cup {x}, !.last = last]
    BY <1>1, <1>2, <2>2, <2>3 DEF Handles
  <2>5. c \in Commands /\ c.what = "cursor" /\ c.cursor = x /\ c.ask = handle.asks + 1
    BY <1>1, <2>1 DEF Commands
  <2>6. last \in Questions /\ Says(c, last)
    BY <2>2, <2>5 DEF Questions, Says
  <2>7. Ask(c, known)
    BY <1>4, <2>1, <2>3 DEF SetCursor
  <2>8. cursors \cup {x} \in SUBSET Cursors
    OBVIOUS
  <2> QED
    BY <1>2, <2>4, <2>5, <2>6, <2>7, <2>8, AskKeeps
<1> QED
  BY <1>3, <1>4

\* An answer to the last question: no command is on its way, and what was asked is so.
LEMMA AnsweredKeeps == ASSUME OverlayInv, Answered PROVE OverlayInv'
<1>1. /\ handle.at = "asking" /\ answered = handle.asks /\ handle \in Handles
      /\ control \in Seq(Commands) /\ HandleOnly /\ control' = control
  BY DEF Answered, OverlayInv, SurfaceInv, OverlayTyped
<1>2. PICK last : last = handle.last
  OBVIOUS
<1>3. UNCHANGED <<overlay, readiness, answered, committed>> /\ overlay.at \notin EarlyPlaces
  BY <1>1 DEF HandleOnly, OverlayInv, SurfaceInv, NothingAsked
<1>4. ASSUME overlay.at # "ended"
      PROVE  /\ control = <<>> /\ last \in Questions /\ InPlace(last) /\ overlay.enabled \in handle.regions
  <2>1. Numbered /\ Waits /\ overlay.enabled \in handle.regions
    BY <1>1, <1>4 DEF OverlayInv, SurfaceInv, Reckons
  <2>2. Len(control) = 0
    <3>1. handle.asks \in Nat /\ Len(control) \in Nat
      BY <1>1 DEF Handles
    <3> QED
      BY <1>1, <2>1, <3>1 DEF Numbered
  <2>3. control = <<>>
    BY <1>1, <2>2
  <2> QED
    BY <1>2, <2>1, <2>3 DEF Waits
<1>5. handle' = IF last[1] = "region"
                THEN [handle EXCEPT !.at = "up", !.regions = {last[2]}]
                ELSE [handle EXCEPT !.at = "up", !.cursors = {last[2]}]
  BY <1>2 DEF Answered
<1>6. NothingAsked'
  BY <1>3 DEF NothingAsked
<1>7. last \in Questions
  BY <1>1, <1>2 DEF OverlayInv, SurfaceInv, Surface
<1>8. handle' \in Handles /\ handle'.at = "up" /\ handle'.asks = handle.asks
  BY <1>1, <1>5, <1>7 DEF Handles, HandlePlaces, Questions
<1>9. ASSUME overlay.at # "ended"
      PROVE  overlay.enabled \in handle'.regions
  BY <1>1, <1>4, <1>5, <1>9 DEF InPlace, Handles
<1>10. ASSUME overlay.at # "ended" PROVE Numbered'
  BY <1>1, <1>3, <1>4, <1>8, <1>10 DEF OverlayInv, SurfaceInv, Reckons, Numbered
<1>11. overlay.at # "ended" => DOMAIN control' = {}
  BY <1>1, <1>4
<1>12. Reckons'
  BY <1>3, <1>8, <1>9, <1>10, <1>11 DEF Reckons
<1>13. InLoop => \E c \in handle'.cursors : Shows(c)
  <2>1. CASE last[1] = "region"
    <3>1. handle'.cursors = handle.cursors
      BY <1>1, <1>5, <2>1 DEF Handles
    <3> QED
      BY <3>1 DEF OverlayInv, SurfaceInv, Surface
  <2>2. CASE last[1] # "region"
    <3>1. handle'.cursors = {last[2]}
      BY <1>1, <1>5, <2>2 DEF Handles
    <3> QED
      BY <1>4, <2>2, <3>1 DEF InPlace, InLoop
  <2> QED
    BY <2>1, <2>2
<1> QED
  BY <1>1, <1>6, <1>8, <1>12, <1>13, SessionKeeps

\* The session goes on without an answer, or has waited for the thread.
LEMMA UnansweredKeeps == ASSUME OverlayInv, Unanswered \/ JoinOverlay PROVE OverlayInv'
<1>1. PICK place \in {"up", "gone"} :
        /\ HandleAt(place) /\ UNCHANGED control /\ HandleOnly
        /\ place = "up" => handle.at = "asking"
        /\ place = "gone" => overlay.at = "ended"
  BY DEF Unanswered, JoinOverlay
<1>2. handle \in Handles /\ control \in Seq(Commands)
  BY DEF OverlayInv, SurfaceInv, OverlayTyped
<1>3. /\ handle' \in Handles /\ handle'.at = place /\ handle'.asks = handle.asks
      /\ handle'.regions = handle.regions /\ handle'.cursors = handle.cursors
  BY <1>1, <1>2 DEF HandleAt, Handles, HandlePlaces
<1>4. UNCHANGED <<overlay, readiness, answered, committed, control>>
  BY <1>1 DEF HandleOnly
<1>5. NothingAsked'
  BY <1>1, <1>4 DEF OverlayInv, SurfaceInv, NothingAsked, EarlyPlaces
<1>6. Reckons'
  <2>1. SUFFICES ASSUME overlay.at # "ended" PROVE Reckons'
    BY <1>4 DEF Reckons
  <2>2. place = "up" /\ handle.at = "asking" /\ Reckons
    BY <1>1, <2>1 DEF OverlayInv, SurfaceInv
  <2>3. Numbered'
    BY <1>3, <1>4, <2>1, <2>2 DEF Reckons, Numbered
  <2>4. (\A n \in DOMAIN control : Reckoned(control[n]))'
    BY <1>3, <1>4, <2>1, <2>2 DEF Reckons, Reckoned
  <2> QED
    BY <1>3, <1>4, <2>1, <2>2, <2>3, <2>4 DEF Reckons
<1>7. InLoop => \E c \in handle'.cursors : Shows(c)
  BY <1>3 DEF OverlayInv, SurfaceInv, Surface
<1> QED
  BY <1>1, <1>2, <1>3, <1>4, <1>5, <1>6, <1>7, SessionKeeps

\* Every step of the thread, of Gamescope and of the session.
LEMMA OverlayStep == ASSUME OverlayInv, [OverlayNext]_overlayVars PROVE OverlayInv'
<1>1. CASE UNCHANGED overlayVars
  <2>1. overlay' \in OverlayStates
    BY <1>1 DEF overlayVars, OverlayInv, SurfaceInv, OverlayTyped
  <2>2. overlay'.at \in {"map", "drain", "dispatch"} => overlay'.size \in Extents
    BY <1>1 DEF overlayVars, OverlayInv, SurfaceInv, Surface
  <2> QED
    BY <1>1, <2>1, <2>2, SurfaceStays, TouchStays DEF overlayVars, OverlayInv
<1>2. CASE ConnectOverlay \/ LearnGlobals \/ AwaitConfigure
  BY <1>2, EarlyKeeps
<1>3. CASE MapSurface
  BY <1>3, MapKeeps
<1>4. CASE DrainCommand
  BY <1>4, DrainKeepsOverlay
<1>5. CASE Drained \/ NextTurn
  BY <1>5, TurnKeeps
<1>6. CASE DispatchEvent
  BY <1>6, DispatchKeeps
<1>7. CASE Configures \/ Closes \/ SeatGains \/ SeatLoses \/ Presses \/ Releases \/ Leaves
  BY <1>7, GamescopeKeeps
<1>8. CASE Enters
  BY <1>8, EntersKeeps
<1>9. CASE Spawned
  BY <1>9, SpawnedKeeps
<1>10. CASE Answered
  BY <1>10, AnsweredKeeps
<1>11. CASE Unanswered \/ JoinOverlay
  BY <1>11, UnansweredKeeps
<1>12. CASE DropOverlay
  BY <1>12, DropKeeps
<1>13. CASE (\E on \in BOOLEAN : SetEnabled(on)) \/ (\E c \in Cursors : SetCursor(c))
  BY <1>13, AskingKeeps
<1> QED
  BY <1>1, <1>2, <1>3, <1>4, <1>5, <1>6, <1>7, <1>8, <1>9, <1>10, <1>11, <1>12, <1>13
  DEF OverlayNext

\* What the overlay's theorem rests on.
LEMMA OverlayInvariant == OverlaySpec => []OverlayInv
<1>1. OverlayInit => OverlayInv
  BY OverlayStarts
<1>2. OverlayInv /\ [OverlayNext]_overlayVars => OverlayInv'
  BY OverlayStep
<1> QED
  BY <1>1, <1>2, PTL DEF OverlaySpec

\* Only a command that is carried out is answered, and only a cursor is drawn.
LEMMA Alternates ==
  ASSUME OverlayInv, [OverlayNext]_overlayVars
  PROVE  ArrowAlternates
<1>1. SUFFICES ASSUME answered' # answered, Head(control).what = "cursor",
                      committed.buffer \in {"first", "second"},
                      committed'.buffer \in {"first", "second"}
               PROVE  committed'.buffer # committed.buffer
  BY DEF ArrowAlternates
<1>2. DrainCommand
  BY <1>1 DEF OverlayNext, overlayVars, ConnectOverlay, LearnGlobals, AwaitConfigure, MapSurface,
     OverlayEnds, ThreadUnchanged, Drained, NextTurn, DispatchEvent, Configures, Closes, SeatGains,
     SeatLoses, Enters, Presses, Releases, Leaves, Sends, Spawned, Answered, Unanswered,
     DropOverlay, JoinOverlay, SetEnabled, SetCursor, Ask, HandleOnly
<1>3. overlay.at = "drain" /\ control # <<>> /\ DrawCursor(Head(control).cursor)
  BY <1>1, <1>2 DEF DrainCommand, OverlayEnds
<1>4. /\ overlay \in OverlayStates /\ committed \in Surfaces /\ control \in Seq(Commands)
      /\ overlay.size \in Extents
      /\ committed.buffer = IF overlay.visible THEN overlay.index ELSE "blank"
  BY <1>3 DEF OverlayInv, SurfaceInv, OverlayTyped, Surface, InLoop
<1>5. PICK c \in Cursors : c = Head(control).cursor
  BY <1>1, <1>3, <1>4, QueueAdvances DEF Commands
<1> QED
  BY <1>1, <1>3, <1>4, <1>5, Drawn

\* The overlay shows what the session was told or has asked for since, holds no contact
\* without a cause, leaves no thread and no surface behind, and two frames with the arrow
\* never share a buffer (run_overlay, CursorOverlay, draw_cursor), through late answers, a
\* surface that is closed or resized and a pointer that comes and goes.
THEOREM OverlayIsAlwaysTrue == OverlaySpec => OverlayIsTrue
<1>1. ASSUME OverlayInv PROVE ShowsWhatWasAsked /\ TouchIsExplained /\ NothingIsLeftOver
  <2>1. ShowsWhatWasAsked
    <3>1. SUFFICES ASSUME InLoop PROVE ShowsWhatWasAsked
      BY DEF ShowsWhatWasAsked
    <3>2. overlay.enabled \in handle.regions
      BY <1>1, <3>1 DEF OverlayInv, SurfaceInv, Reckons, InLoop
    <3>3. committed.region = InputRegion(overlay.enabled) /\ \E c \in handle.cursors : Shows(c)
      BY <1>1, <3>1 DEF OverlayInv, SurfaceInv, Surface
    <3> QED
      BY <3>2, <3>3 DEF ShowsWhatWasAsked, Shows
  <2>2. TouchIsExplained /\ NothingIsLeftOver
    BY <1>1 DEF OverlayInv, SurfaceInv, Surface, TouchInv, NothingIsLeftOver
  <2> QED
    BY <2>1, <2>2
<1>2. OverlayInv /\ [OverlayNext]_overlayVars => [ArrowAlternates]_overlayVars
  BY Alternates
<1> QED
  BY <1>1, <1>2, OverlayInvariant, PTL DEF OverlaySpec, OverlayIsTrue
=============================================================================
