------------------------------ MODULE HubPage ------------------------------
(***************************************************************************)
(* The page of the Hub (assets/hub/app.js) over the state the Hub reports   *)
(* (hub.rs): what the primary button offers, the action it asks for, and    *)
(* the resolution it launches with.  The page knows the host only by the    *)
(* last state it has loaded.                                                *)
(***************************************************************************)
EXTENDS HostReports, Sequences

CONSTANTS
  Hosts,       \* where it starts: a host, as HostReports says, and the selected game
  Presets,     \* resolutions
  FirstPreset,
  NoReport,    \* the page has not loaded a state
  MaxChoices,  \* times the user changes the resolution
  MaxEvents    \* changes of the host that no action of the page asked for

ASSUME PageBounds == MaxChoices \in Nat /\ MaxEvents \in Nat /\ FirstPreset \in Presets
ASSUME HostsAreWorlds == Hosts \subseteq [world : Worlds, game : Games]

VARIABLES
  world,     \* the host
  game,
  saved,     \* the resolution in the preferences
  seen,      \* hubState: the host as reported, NoReport at first
  loading,   \* the request of the state
  asked,     \* the action the page waits for, and the keyboard it has sent
  preset,    \* resolution
  writes,    \* the PUTs of the preferences on the way
  choice,    \* history: what the user chose last
  overtaken, \* history: a state was asked for before the choice was saved
  choices, events

hostVars == <<world, saved, events>>
resolutionVars == <<preset, writes, choice, overtaken, choices>>
pageVars == <<hostVars, game, seen, loading, asked, resolutionVars>>

Idle == [at |-> "idle", action |-> "none", keyboard |-> FALSE]
NotLoading == [at |-> "idle", world |-> NoReport, preset |-> FirstPreset]

-----------------------------------------------------------------------------
(* What the page shows *)

Known == seen # NoReport

SeenList == ListNow(seen)

\* compatibilityFor: the reports are by the edition that names the family
SeenState == IF game.canonical THEN GameState(seen, SeenList) ELSE "none"

\* activeRootFinding
RootSeen == \E f \in CompatibilityFindings(seen, SeenList) : f.code = "android-root-detected"

PrimaryAction ==
  LET installed == Installed(seen, SeenList) IN
  IF installed = "yes" /\ RootSeen THEN "root"
  ELSE IF installed # "yes" /\ (ArmSupport(seen) = "no" \/ PlayStore(seen, SeenList) = "no")
       THEN "compatibility"
  ELSE IF ~seen.running /\ installed = "no" THEN "runtime"
  ELSE IF installed = "no"
       THEN IF SeenState \in {"arm_translation_needed", "store_missing", "compatibility_unknown"}
            THEN "compatibility" ELSE "store"
  ELSE IF installed = "yes" /\ seen.helper # "ready" THEN "helper"
  ELSE "launch"

\* mutant: a launch is offered whatever the renderer is
ButtonNoGraphics ==
  IF Owned(seen) THEN IF CanStop(seen) THEN "stop" ELSE "active"
  ELSE IF PrimaryAction = "root" THEN "blocked" ELSE PrimaryAction

\* renderHero
Button ==
  IF Owned(seen) THEN IF CanStop(seen) THEN "stop" ELSE "active"
  ELSE IF PrimaryAction = "root" THEN "blocked"
  ELSE IF PrimaryAction = "launch" /\ Blockers(GraphicsFindings(seen)) # {} THEN "blocked"
  ELSE PrimaryAction

-----------------------------------------------------------------------------
(* GET /api/state *)

LoadStarts ==
  /\ loading.at = "idle"
  /\ loading' = [NotLoading EXCEPT !.at = "asked"]
  /\ overtaken' = (overtaken \/ writes # <<>>)
  /\ UNCHANGED <<hostVars, game, seen, asked, preset, writes, choice, choices>>

\* build_state, with the preferences of the moment
StateIsBuilt ==
  /\ loading.at = "asked"
  /\ loading' = [at |-> "answered", world |-> world, preset |-> saved]
  /\ UNCHANGED <<hostVars, game, seen, asked, resolutionVars>>

\* loadStateNow
StateArrives ==
  /\ loading.at = "answered"
  /\ seen' = loading.world /\ preset' = loading.preset
  /\ loading' = NotLoading
  /\ UNCHANGED <<hostVars, game, asked, writes, choice, overtaken, choices>>

StateFails ==
  /\ loading.at # "idle"
  /\ loading' = NotLoading
  /\ UNCHANGED <<hostVars, game, seen, asked, resolutionVars>>

-----------------------------------------------------------------------------
(* Actions *)

\* launchSelected and performAction: one at a time; "compatibility" scrolls the page
Click ==
  /\ Known /\ asked.at = "idle"
  /\ Button \in {"stop", "runtime", "store", "helper", "launch"}
  /\ asked' = [at |-> "sent", action |-> Button, keyboard |-> seen.keyboard]
  /\ UNCHANGED <<hostVars, game, seen, loading, resolutionVars>>

Replied(good) == asked' = [asked EXCEPT !.at = IF good THEN "accepted" ELSE "refused"]

\* open_game_background: the daemon has the request, the worker has no lease yet
ServeLaunch ==
  /\ asked.at = "sent" /\ asked.action = "launch"
  /\ Replied(LaunchPasses(world, game, asked.keyboard))
  /\ world' = IF LaunchPasses(world, game, asked.keyboard)
              THEN [world EXCEPT !.session = "asked"] ELSE world
  /\ UNCHANGED <<game, saved, seen, loading, resolutionVars, events>>

\* stop_game_background asks the daemon, or the process the record names; the worker
\* ends in its own time
ServeStop ==
  /\ asked.at = "sent" /\ asked.action = "stop"
  /\ Replied(world.session # "none")
  /\ UNCHANGED <<hostVars, game, seen, loading, resolutionVars>>

\* open_store and open_desktop_waydroid: nobody may own the session; they wait for the
\* package manager, which may not list everything yet
ServeDesktop ==
  /\ asked.at = "sent" /\ asked.action \in {"store", "runtime"}
  /\ \/ ~Owned(world) /\ Replied(TRUE)
        /\ \E list \in {"early", "whole"} :
             world' = [world EXCEPT !.running = TRUE,
                         !.listing = IF world.running /\ @ = "whole" THEN @ ELSE list]
     \/ Replied(FALSE) /\ UNCHANGED world
  /\ UNCHANGED <<game, saved, seen, loading, resolutionVars, events>>

\* open_system_helper_setup: start_graphical_install
ServeHelper ==
  /\ asked.at = "sent" /\ asked.action = "helper"
  /\ Replied(world.helper = "missing")
  /\ world' = [world EXCEPT !.helper = IF @ = "missing" THEN "installing" ELSE @]
  /\ UNCHANGED <<game, saved, seen, loading, resolutionVars, events>>

\* the rest of performAction; the state is loaded afterwards, unless it is being loaded
ActionReturns ==
  /\ asked.at \in {"accepted", "refused"}
  /\ asked' = Idle
  /\ UNCHANGED <<hostVars, game, seen, loading, resolutionVars>>

-----------------------------------------------------------------------------
(* The resolution *)

ChoosePreset(p) ==
  /\ choices < MaxChoices /\ p # preset
  /\ preset' = p /\ choice' = p /\ choices' = choices + 1
  /\ writes' = Append(writes, p)
  /\ overtaken' = (loading.at # "idle" \/ (writes # <<>> /\ overtaken))
  /\ UNCHANGED <<hostVars, game, seen, loading, asked>>

\* savePreferences: one after the other
PresetIsSaved ==
  /\ writes # <<>>
  /\ saved' = Head(writes) /\ writes' = Tail(writes)
  /\ UNCHANGED <<world, events, game, seen, loading, asked, preset, choice, overtaken, choices>>

-----------------------------------------------------------------------------
(* The host *)

HostKept == UNCHANGED <<game, saved, seen, loading, asked, resolutionVars>>

\* the worker of the game: its lease, its record, and its end at any time; Waydroid is
\* started again for the game, and given back
SessionGoesOn ==
  /\ world.session # "none"
  /\ \/ world' = [world EXCEPT !.session = IF @ = "asked" THEN "launching" ELSE "playing"]
     \/ world' = [world EXCEPT !.session = "none"]
  /\ UNCHANGED events /\ HostKept

HelperInstallEnds ==
  /\ world.helper = "installing"
  /\ \E h \in {"ready", "missing"} : world' = [world EXCEPT !.helper = h]
  /\ UNCHANGED events /\ HostKept

\* Android starts, stops or becomes ready; a keyboard is unplugged; another client
\* launches a game
HostChanges ==
  /\ events < MaxEvents /\ events' = events + 1
  /\ \/ world' = [world EXCEPT !.running = ~@, !.listing = "none"]
     \/ \E list \in {"early", "whole"} :
          world.running /\ world' = [world EXCEPT !.listing = list]
     \/ world' = [world EXCEPT !.keyboard = ~@]
     \/ world.session = "none" /\ world' = [world EXCEPT !.session = "asked"]
  /\ HostKept

-----------------------------------------------------------------------------

PageInit ==
  /\ \E host \in Hosts : world = host.world /\ game = host.game
  /\ saved = FirstPreset /\ preset = FirstPreset /\ choice = FirstPreset
  /\ seen = NoReport /\ loading = NotLoading /\ asked = Idle
  /\ writes = <<>> /\ overtaken = FALSE /\ choices = 0 /\ events = 0

PageNext ==
  \/ LoadStarts \/ StateIsBuilt \/ StateArrives \/ StateFails
  \/ Click \/ ServeLaunch \/ ServeStop \/ ServeDesktop \/ ServeHelper \/ ActionReturns
  \/ PresetIsSaved \/ (\E p \in Presets : ChoosePreset(p))
  \/ SessionGoesOn \/ HelperInstallEnds \/ HostChanges

PageSpec == PageInit /\ [][PageNext]_pageVars

-----------------------------------------------------------------------------

\* What the primary button offers is what the Hub would do, on a host that is still as
\* the page has seen it.  A launch it offers passes the preflight, unless the package is
\* unknown (the page then looks at neither the helper nor the root) or the worker of
\* another launch has no lease yet; what it blocks would be refused, but for the root of a
\* game of no known family
\* (primaryActionFor and renderHero against handle_action).
ButtonMatchesPreflight ==
  Known /\ seen = world =>
    LET passes == LaunchPasses(world, game, seen.keyboard) IN
    /\ Button = "launch" =>
         passes \/ world.session = "asked"
                \/ (Installed(seen, SeenList) = "unknown" /\ (world.helper # "ready" \/ RootSeen))
    /\ Button = "blocked" => ~passes \/ (RootSeen /\ ~game.family)
    /\ Button = "store" => Installed(world, ListNow(world)) = "no"

\* The resolution that is saved, and that the page shows, is the one chosen last, once the
\* page has nothing on the way; unless a state was asked for between the choice and its
\* save, whose reply shows the older one (loadStateNow).
ChosenPresetIsUsed ==
  writes = <<>> =>
    /\ saved = choice
    /\ loading.at = "idle" /\ ~overtaken => preset = choice

\* The page tells its user what the Hub would do, and does what its user chose.
PageTellsTheTruth == ButtonMatchesPreflight /\ ChosenPresetIsUsed

=============================================================================
