--------------------------- MODULE MCBridgeSession ---------------------------
(* Two sessions: the second starts after the first, or after the daemon of the
   first has died while its worker and helper are still around. *)
EXTENDS BridgeSession, TLC

CONSTANTS g1, g2

MCSessions == {g1, g2}
MCSymmetry == Permutations(MCSessions)

=============================================================================
