--------------------------- MODULE MCInputSession ---------------------------
(* Profiles and options for the runs of InputSession. *)
EXTENDS InputSession

CONSTANTS c, always, toggle

\* sessions with an overlay: a protected one, and one started with --no-grab; one
\* that grabs without a relay is as the first after its relay has gone
OverlayOptions ==
  {[grab |-> TRUE,  relay |-> TRUE,  overlay |-> TRUE],
   [grab |-> FALSE, relay |-> FALSE, overlay |-> TRUE]}

OneToggle       == [a \in {toggle} |-> c]
=============================================================================
