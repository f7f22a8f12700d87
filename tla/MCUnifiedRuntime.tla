-------------------------- MODULE MCUnifiedRuntime --------------------------
(* Control plans for the run of UnifiedRuntime. *)
EXTENDS UnifiedRuntime, Sequences

CONSTANTS keyA, keyD, keyW, keyF, keyL, shift, left, right

Control(kind, keys, layer, modifier, toggle, gap) ==
  [kind |-> kind, keys |-> keys, layer |-> layer, modifier |-> modifier,
   toggle |-> toggle, gap |-> gap]

Press(x) == [r \in {"press"} |-> x]
\* a joystick may have a key in two of its directions
Cluster == [r \in Directions |-> CASE r = "up" -> keyW [] r = "left" -> keyA [] OTHER -> keyD]
NoKeys == [r \in {} |-> NoKey]

Plan(controls, layer_list) ==
  [size |-> Len(controls), controls |-> controls, layers |-> layer_list]

\* Walking with a layer that takes two of the keys for holds, and a hold with a
\* sibling behind Shift.
Layered ==
  Plan(<<Control("hold", Press(keyD), 1, NoKey, NoKey, FALSE),
         Control("stick", Cluster, 0, NoKey, NoKey, FALSE),
         Control("hold", Press(keyF), 0, NoKey, NoKey, FALSE),
         Control("hold", Press(keyF), 0, shift, NoKey, FALSE)>>,
       <<[key |-> keyL, mode |-> "hold"]>>)

\* Two layers over the same key, one of them toggled, with a joystick that two keys
\* push along a diagonal, and a tap behind Shift.
Diagonal == [r \in Directions |-> IF r \in {"up", "left"} THEN keyA ELSE keyD]

Stacked ==
  Plan(<<Control("toggle_stick", Diagonal, 1, NoKey, NoKey, FALSE),
         Control("hold", Press(keyA), 2, NoKey, NoKey, FALSE),
         Control("tap", Press(keyA), 0, NoKey, NoKey, FALSE),
         Control("tap", Press(keyD), 2, shift, NoKey, FALSE)>>,
       <<[key |-> keyL, mode |-> "toggle"], [key |-> keyF, mode |-> "hold"]>>)

\* Games with an aim that is toggled, one that is always on and swaps with a gap, and
\* both at once, next to controls on the mouse's buttons.
Shooter ==
  Plan(<<Control("aim", NoKeys, 0, NoKey, keyF, FALSE),
         Control("hold", Press(left), 0, NoKey, NoKey, FALSE),
         Control("tap", Press(right), 0, NoKey, NoKey, FALSE)>>, <<>>)

Sniper ==
  Plan(<<Control("aim", NoKeys, 0, NoKey, NoKey, TRUE),
         Control("hold", Press(right), 0, NoKey, NoKey, FALSE),
         Control("hold", Press(right), 0, shift, NoKey, FALSE)>>, <<>>)

TwoAims ==
  Plan(<<Control("aim", NoKeys, 0, NoKey, keyF, TRUE),
         Control("aim", NoKeys, 0, NoKey, keyF, FALSE)>>, <<>>)

AllPlans == {Layered, Stacked, Shooter, Sniper, TwoAims}
SomeDeltas == {-1, 3}
=============================================================================
