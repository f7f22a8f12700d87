-------------------------- MODULE MCDaemonSessions --------------------------
(* Two clients and two session ids: one client can give up while the other's
   request is behind it in the backlog, and a second launch meets the first. *)
EXTENDS DaemonSessions, TLC

CONSTANTS k1, k2, s1, s2

MCClients == {k1, k2}
MCSessionIds == {s1, s2}
MCSymmetry == Permutations(MCClients) \cup Permutations(MCSessionIds)

=============================================================================
