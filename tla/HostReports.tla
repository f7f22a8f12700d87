---------------------------- MODULE HostReports ----------------------------
(***************************************************************************)
(* What Wroid reports of a host, and what it refuses to launch on one:     *)
(* graphics.rs, compatibility.rs and the preflight of handle_action in     *)
(* hub.rs.  A host is one of Worlds.                                       *)
(***************************************************************************)
EXTENDS Naturals

\* renderer: what glxinfo says; soft: Android uses a software renderer; overlay: the Magisk
\* overlay; gapps: the image has Google Play; installed: the package of the selected game
\* is; listing: the package list; session: of a game; keyboard: the selected one is there
Worlds ==
  [renderer : {"unknown", "software", "hardware"}, direct : {"yes", "no", "unknown"},
   soft : BOOLEAN, x86 : BOOLEAN, abis : {"arm", "x86", "unknown"},
   translator : {"on", "off", "unknown"}, overlay : {"present", "absent", "unknown"},
   gapps : BOOLEAN, installed : BOOLEAN, running : BOOLEAN, listing : {"none", "early", "whole"},
   helper : {"missing", "installing", "ready"},
   session : {"none", "asked", "launching", "playing"}, keyboard : BOOLEAN]

\* one of the known families, and the edition the family is named after
Games == [family : BOOLEAN, canonical : BOOLEAN]

Finding(severity, code) == [severity |-> severity, code |-> code]

When(condition, findings) == IF condition THEN findings ELSE {}

Optional(known, value) == IF ~known THEN "unknown" ELSE IF value THEN "yes" ELSE "no"

-----------------------------------------------------------------------------
(* graphics.rs *)

\* parse_renderer_output
RendererKind(w) ==
  CASE w.renderer = "software" -> "software"
    [] w.renderer = "hardware" /\ w.direct # "no" -> "hardware"
    [] OTHER -> "unknown"

\* classify_findings; the findings of the display and of the pacing never block
GraphicsFindings(w) ==
  {CASE RendererKind(w) = "software" -> Finding("blocking", "software-renderer")
     [] RendererKind(w) = "hardware" -> Finding("info", "hardware-renderer")
     [] OTHER -> Finding("warning", "renderer-unknown"),
   CASE ~w.running -> Finding("warning", "android-graphics-unknown")
     [] w.running /\ w.soft -> Finding("blocking", "android-software-renderer")
     [] OTHER -> Finding("info", "android-graphics-ready")}
  \cup When(w.direct = "no", {Finding("blocking", "graphics-not-accelerated")})

Blockers(findings) == {f \in findings : f.severity = "blocking"}

\* ensure_launch_ready
GraphicsReady(w) == Blockers(GraphicsFindings(w)) = {}

-----------------------------------------------------------------------------
(* compatibility.rs *)

\* arm_support_status
ArmSupport(w) ==
  IF ~w.x86 THEN "yes"
  ELSE Optional(w.abis # "unknown" \/ w.translator # "unknown",
                w.abis = "arm" \/ w.translator = "on")

\* the list the Hub takes as it comes (build_state), and the one a preflight waits for
\* (probe_ready_package_list): a list without the Play Store of its image is not ready
ListNow(w) == IF w.running THEN w.listing ELSE "none"
ReadyList(w) == IF ListNow(w) = "whole" THEN "whole" ELSE "none"

Installed(w, list) == Optional(list # "none", list = "whole" /\ w.installed)
PlayStore(w, list) == Optional(list # "none", list = "whole" /\ w.gapps)

\* classify_root_access
RootAccess(w, list) ==
  IF w.overlay = "present" THEN "detected"
  ELSE IF w.overlay = "unknown" \/ list = "none" THEN "unknown" ELSE "not_detected"

\* game_compatibility
GameState(w, list) ==
  IF Installed(w, list) = "yes" THEN "installed"
  ELSE IF ~w.running THEN "unknown"
  ELSE IF list = "none" THEN "runtime_not_ready"
  ELSE IF PlayStore(w, list) = "no" THEN "store_missing"
  ELSE CASE ArmSupport(w) = "no" -> "arm_translation_needed"
         [] ArmSupport(w) = "unknown" -> "compatibility_unknown"
         [] ArmSupport(w) = "yes" -> "ready_to_install"

\* from_probe
CompatibilityFindings(w, list) ==
  When(~w.running, {Finding("warning", "waydroid-offline")})
  \cup When(PlayStore(w, list) = "no" /\ w.running, {Finding("action", "play-store-missing")})
  \cup When(PlayStore(w, list) = "yes", {Finding("info", "play-store-ready")})
  \cup When(w.running /\ list = "none", {Finding("warning", "android-package-list-unknown")})
  \cup When(RootAccess(w, list) = "detected", {Finding("action", "android-root-detected")})
  \cup When(RootAccess(w, list) = "unknown", {Finding("warning", "android-root-unknown")})
  \cup When(ArmSupport(w) = "no" /\ w.x86, {Finding("action", "arm-translation-missing")})
  \cup When(ArmSupport(w) = "yes", {Finding("info", "arm-translation-ready")})
  \cup When(ArmSupport(w) = "unknown" /\ w.x86, {Finding("warning", "arm-translation-unknown")})

\* ensure_known_game_launch_ready
GameReady(w, game) ==
  game.family => /\ RootAccess(w, ReadyList(w)) # "detected"
                 /\ Installed(w, ReadyList(w)) # "no"

-----------------------------------------------------------------------------
(* hub.rs *)

\* input_bridge_json: who has the session, and whether Stop can reach it
Owned(w) == w.session \in {"launching", "playing"}
CanStop(w) == w.session = "playing"

\* the launch of handle_action, up to the request to the daemon, which refuses a second
\* game; the keyboard is the one the page has sent, if any
LaunchPasses(w, game, keyboard) ==
  /\ ~Owned(w) /\ w.helper = "ready"
  /\ GraphicsReady(w) /\ GameReady(w, game)
  /\ keyboard => w.keyboard
  /\ w.session = "none"
=============================================================================
