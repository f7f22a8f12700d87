------------------------- MODULE MCLaunchTransaction -------------------------
(* Two launches, together or one after the other with the identifier of the
   first. *)
EXTENDS LaunchTransaction, TLC

CONSTANTS p1, p2

MCPids == {p1, p2}
MCIdentities == {<<p1, p1>>, <<p1, p2>>}
=============================================================================
