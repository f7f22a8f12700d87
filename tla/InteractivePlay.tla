--------------------------- MODULE InteractivePlay ---------------------------
(***************************************************************************)
(* `wroid play` and `wroid run` (commands/run.rs, interactive.rs): a       *)
(* first-generation profile is loaded and scaled to the screen, the game   *)
(* is launched, and the keys of the terminal become taps and swipes that   *)
(* a shell command carries out while the loop waits.  Keys are named as    *)
(* normalize_key leaves them; what is left of a stick's tick stands for    *)
(* its time.                                                               *)
(***************************************************************************)
EXTENDS ProfileRegistry

CONSTANTS
  Plays,           \* what is played: [content, env, backend, launch, scale]
  PlayKeys, EscKey,
  NoTick,
  IdlePoll,            \* IDLE_EVENT_POLL
  MaxLate,         \* how late a poll that waits may end
  MaxTyped         \* key events and changes of the focus

VARIABLES
  player,      \* the process: [at, play, backend, profile, launched, due]; what is due: the
               \* targets of swipes, by the number of their stick
  terminal,    \* [raw, flags, able, focus]: able to report releases
  sticks,      \* JoystickRuntime: [keys, tick] for each joystick binding, by its number
  typed,       \* key events of the terminal, not read yet
  keysDown,    \* what the user's fingers hold
  shownKeys,   \* what the terminal has told of that
  typedCount

playVars == <<player, terminal, sticks, typed, keysDown, shownKeys, typedCount>>

\* What is played is a profile of the format, or no profile.
ASSUME PlayConstants ==
  /\ NoTick \notin Int
  /\ \A play \in Plays : IsProfile(play.content) => play.content \in Profiles1

-----------------------------------------------------------------------------
(* Joysticks: the keys of a cluster are those of up, left, down and right  *)

\* which of the bindings
SticksIn(profile) ==
  {n \in DOMAIN profile.bindings :
     LET b == profile.bindings[n]
     IN  b.input = "key_cluster" /\ b.action.kind = "virtual_joystick"}

\* the stick, its keys as they are compared
Cluster1(n) == NormalizedInput(player.profile.bindings[n])

Toward(keys, direction, against) ==
  (IF direction \in keys THEN 1 ELSE 0) - (IF against \in keys THEN 1 ELSE 0)

OffsetAxis(value, offset) ==
  CASE value + offset <= 0 -> 0 [] value + offset > MaxU32 -> MaxU32 [] OTHER -> value + offset

\* radius divided by the square root of two, rounded
DiagonalReach(radius) ==
  CHOOSE m \in 0 .. radius :
    /\ m = 0 \/ (2 * m - 1) * (2 * m - 1) <= 2 * radius * radius
    /\ 2 * radius * radius < (2 * m + 1) * (2 * m + 1)

\* joystick_target_point: opposed keys cancel, a diagonal is as long as the others
StickTarget(b, keys) ==
  LET dx == Toward(keys, 4, 2)
      dy == Toward(keys, 3, 1)
      radius == b.action.radii[1]
      reach == IF dx # 0 /\ dy # 0 THEN DiagonalReach(radius) ELSE radius
      center == b.action.points[1]
  IN  IF dx = 0 /\ dy = 0 THEN {}
      ELSE {<<OffsetAxis(center[1], dx * reach), OffsetAxis(center[2], dy * reach)>>}

\* mutant: a stick that rests goes on
KeySetOnly(b, stick, direction, on) ==
  LET keys == IF on THEN stick.keys \cup {direction} ELSE stick.keys \ {direction}
  IN  [keys |-> keys, tick |-> IF stick.tick = NoTick THEN 0 ELSE stick.tick]

\* one key of a cluster: a stick that starts is due at once, one that rests is not
KeySet(b, stick, direction, on) ==
  LET keys == IF on THEN stick.keys \cup {direction} ELSE stick.keys \ {direction}
  IN  [keys |-> keys,
       tick |-> CASE StickTarget(b, keys) = {} -> NoTick
                  [] StickTarget(b, keys) # {} /\ stick.tick = NoTick -> 0
                  [] OTHER -> stick.tick]

\* handle_key_event: a key may stand for several directions, which follow one another
StickAfter(b, stick, key, on) ==
  LET Then(s, d) == IF b.keys[d] = key THEN KeySet(b, s, d, on) ELSE s
  IN  Then(Then(Then(Then(stick, 1), 2), 3), 4)

InKeyMap(key) == \E n \in DOMAIN sticks : \E d \in 1 .. 4 : Cluster1(n).keys[d] = key

-----------------------------------------------------------------------------
(* The loop *)

PlayerAt(place) == player' = [player EXCEPT !.at = place]

\* what has passed of every tick
Elapsed(time, s) ==
  [n \in DOMAIN s |-> [s[n] EXCEPT !.tick =
     CASE @ = NoTick -> NoTick [] @ # NoTick /\ @ > time -> @ - time [] OTHER -> 0]]

PollTimeout ==
  LET ticks == {sticks[n].tick : n \in DOMAIN sticks} \ {NoTick}
  IN  IF \E x \in ticks : x < IdlePoll THEN CHOOSE x \in ticks : \A y \in ticks : x <= y ELSE IdlePoll

\* RawModeGuard goes, whatever ended the loop
Restores(failed) ==
  /\ player' = [player EXCEPT !.at = IF failed THEN "failed" ELSE "ended", !.due = <<>>]
  /\ terminal' = [terminal EXCEPT !.raw = FALSE, !.flags = FALSE]
  /\ typed' = <<>>

\* resolve_key_binding: the first that has the key, a cluster too, but no mouse button
Resolved(key) ==
  LET has(b) == b.input # "mouse_button" /\ \E d \in DOMAIN b.keys : NormalKey[b.keys[d]] = key
      B == player.profile.bindings
  IN  {B[n] : n \in {n \in DOMAIN B : has(B[n]) /\ \A m \in 1 .. n - 1 : ~has(B[m])}}

\* execute_interactive_binding: how long it takes; a stick's and what is not supported nothing
Takes(b) ==
  CASE b.action.kind = "tap" -> 1
    [] b.action.kind = "swipe" -> b.action.times[1]
    [] OTHER -> 0

\* how long a poll may wait
Waits == 0 .. PollTimeout + MaxLate

\* poll finds nothing, or nothing that is a key
PollInVain ==
  /\ player.at = "poll" /\ typed = <<>>
  /\ \E time \in Waits : sticks' = Elapsed(time, sticks)
  /\ PlayerAt("due") /\ UNCHANGED <<terminal, typed, keysDown, shownKeys, typedCount>>

\* one event in each turn; what came while poll was waiting is read when that time has passed
ReadEvent ==
  /\ player.at = "poll" /\ typed # <<>>
  /\ \E time \in Waits :
       LET e == Head(typed)
           then == Elapsed(time, sticks)
           Turns == PlayerAt("due") /\ typed' = Tail(typed) /\ UNCHANGED terminal
       IN  \/ e.key = EscKey /\ Restores(FALSE) /\ sticks' = then
           \/ /\ e.key # EscKey /\ InKeyMap(e.key) /\ Turns
              /\ sticks' = [n \in DOMAIN sticks |-> StickAfter(Cluster1(n), then[n], e.key, e.down)]
           \/ /\ e.key # EscKey /\ ~InKeyMap(e.key) /\ (~e.down \/ Resolved(e.key) = {})
              /\ Turns /\ sticks' = then
           \* a binding is carried out meanwhile
           \/ /\ e.key # EscKey /\ ~InKeyMap(e.key) /\ e.down
              /\ \E b \in Resolved(e.key) :
                   \/ Turns /\ sticks' = Elapsed(Takes(b), then)
                   \/ Restores(TRUE) /\ sticks' = then
  /\ UNCHANGED <<keysDown, shownKeys, typedCount>>

PollFails ==
  /\ player.at = "poll" /\ Restores(TRUE)
  /\ UNCHANGED <<sticks, keysDown, shownKeys, typedCount>>

\* due_swipes: all that are due, before the first of them is carried out
DueSwipes ==
  /\ player.at = "due"
  /\ LET due(n) == sticks[n].tick = 0
         goes(n) == due(n) /\ StickTarget(Cluster1(n), sticks[n].keys) # {}
         going == {n \in DOMAIN sticks : goes(n)}
     IN  /\ sticks' = [n \in DOMAIN sticks |->
                         [sticks[n] EXCEPT !.tick = CASE goes(n) -> Cluster1(n).action.times[1]
                                                      [] due(n) /\ ~goes(n) -> NoTick
                                                      [] OTHER -> @]]
         /\ player' = [player EXCEPT !.at = IF going = {} THEN "poll" ELSE "swiping",
                         !.due = [n \in going |-> StickTarget(Cluster1(n), sticks[n].keys)]]
  /\ UNCHANGED <<terminal, typed, keysDown, shownKeys, typedCount>>

\* one after the other
ExecuteSwipe ==
  /\ player.at = "swiping"
  /\ \E n \in DOMAIN player.due :
       /\ \A m \in DOMAIN player.due : n <= m
       /\ \/ /\ sticks' = Elapsed(Cluster1(n).action.times[2], sticks)
             /\ player' = [player EXCEPT !.due = Restrict(@, DOMAIN @ \ {n}),
                                         !.at = IF DOMAIN player.due = {n} THEN "poll" ELSE @]
             /\ UNCHANGED <<terminal, typed>>
          \/ Restores(TRUE) /\ UNCHANGED sticks
  /\ UNCHANGED <<keysDown, shownKeys, typedCount>>

\* a signal ends the process where it is
Killed ==
  /\ player.at \in {"poll", "due", "swiping"} /\ PlayerAt("killed")
  /\ UNCHANGED <<terminal, sticks, typed, keysDown, shownKeys, typedCount>>

-----------------------------------------------------------------------------
(* Before the loop *)

Prepares(place) ==
  /\ PlayerAt(place)
  /\ UNCHANGED <<terminal, sticks, typed, keysDown, shownKeys, typedCount>>

\* load_play_profile: actions that it cannot carry out are tolerated
LoadPlay ==
  /\ player.at = "load"
  /\ LET content == player.play.content
     IN  IF IsProfile(content) /\ Errors1(content) \subseteq {"unsupported"}
         THEN /\ player' = [player EXCEPT !.at = "select", !.profile = content]
              /\ UNCHANGED <<terminal, sticks, typed, keysDown, shownKeys, typedCount>>
         ELSE Prepares("failed")

\* select_input_backend: as it was asked for, or ADB when it has a device, or Waydroid's shell
SelectBackend ==
  /\ player.at = "select"
  /\ \E chosen \in {"adb", "waydroid"} :
       /\ player.play.backend \in {"auto", chosen}
       /\ player' = [player EXCEPT !.at = "scale", !.backend = chosen]
  /\ UNCHANGED <<terminal, sticks, typed, keysDown, shownKeys, typedCount>>

\* profile_for_execution
ScaleToCurrent ==
  /\ player.at = "scale"
  /\ \/ ~player.play.scale /\ Prepares("launch")
     \/ /\ player.play.scale
        /\ \E output \in WmSizes :
             LET size == ParseSize(output)
             IN  /\ 0 \notin {size[1], size[2]}
                 /\ player' = [player EXCEPT !.at = "launch", !.profile =
                                 IF @.size = size THEN @ ELSE ScaleProfile(@, size)]
        /\ UNCHANGED <<terminal, sticks, typed, keysDown, shownKeys, typedCount>>
     \/ player.play.scale /\ Prepares("failed")

\* original_sudo_user_for_launch with sudo_user_session_env: whose session it is
LaunchUser(env) ==
  IF env.uid = Root /\ env.sudo_user \notin {NoWhere, Root} /\ env.sudo_uid # NoWhere
  THEN env.sudo_user ELSE env.uid

\* launch_run_package and the delay after it; play launches nothing
LaunchPackage ==
  /\ player.at = "launch"
  /\ \/ ~player.play.launch /\ Prepares("raw")
     \/ /\ player.play.launch
        /\ player' = [player EXCEPT !.at = "raw", !.launched =
                        IF player.backend = "waydroid" THEN LaunchUser(player.play.env) ELSE NoWhere]
        /\ UNCHANGED <<terminal, sticks, typed, keysDown, shownKeys, typedCount>>
     \/ player.play.launch /\ Prepares("failed")

\* RawModeGuard::enable and JoystickRuntime::from_bindings
EnableRawMode ==
  /\ player.at = "raw"
  /\ \/ /\ \E pushed \in BOOLEAN : terminal' = [terminal EXCEPT !.raw = TRUE, !.flags = pushed]
        /\ sticks' = [n \in SticksIn(player.profile) |-> [keys |-> {}, tick |-> NoTick]]
        /\ PlayerAt("poll") /\ UNCHANGED <<typed, keysDown, shownKeys, typedCount>>
     \/ Prepares("failed")

-----------------------------------------------------------------------------
(* The user and the terminal *)

Types == typedCount < MaxTyped /\ typedCount' = typedCount + 1 /\ UNCHANGED <<player, sticks>>
Watched == player.at \in {"poll", "due", "swiping"}

Tells(key, down) ==
  IF terminal.focus /\ (down \/ (terminal.able /\ terminal.flags))
  THEN /\ typed' = Append(typed, [key |-> key, down |-> down])
       /\ shownKeys' = IF down THEN shownKeys \cup {key} ELSE shownKeys \ {key}
  ELSE UNCHANGED <<typed, shownKeys>>

\* a key goes down, or repeats
PressKey(key) ==
  Watched /\ Types /\ keysDown' = keysDown \cup {key} /\ Tells(key, TRUE) /\ UNCHANGED terminal

ReleaseKey(key) ==
  /\ Watched /\ key \in keysDown /\ Types
  /\ keysDown' = keysDown \ {key} /\ Tells(key, FALSE) /\ UNCHANGED terminal

SwitchFocus ==
  /\ Watched /\ Types /\ terminal' = [terminal EXCEPT !.focus = ~@]
  /\ UNCHANGED <<typed, keysDown, shownKeys>>

-----------------------------------------------------------------------------

PlayInit ==
  /\ \E play \in Plays :
       player = [at |-> "load", play |-> play, backend |-> "none", profile |-> NoEntry,
                 launched |-> NoWhere, due |-> <<>>]
  /\ \E able \in BOOLEAN : terminal = [raw |-> FALSE, flags |-> FALSE, able |-> able, focus |-> TRUE]
  /\ sticks = <<>> /\ typed = <<>> /\ keysDown = {} /\ shownKeys = {} /\ typedCount = 0

PlayNext ==
  \/ LoadPlay \/ SelectBackend \/ ScaleToCurrent \/ LaunchPackage \/ EnableRawMode
  \/ PollInVain \/ ReadEvent \/ PollFails \/ DueSwipes \/ ExecuteSwipe \/ Killed
  \/ \E key \in PlayKeys : PressKey(key) \/ ReleaseKey(key)
  \/ SwitchFocus

PlaySpec == PlayInit /\ [][PlayNext]_playVars

-----------------------------------------------------------------------------
(* What a player may rely on *)

\* the key as it will be known when the events that wait are read
WillBeDown(key, now) ==
  LET about == {n \in DOMAIN typed : typed[n].key = key}
  IN  IF about = {} THEN now
      ELSE \E n \in about : typed[n].down /\ \A m \in about : m <= n

\* A stick's direction is pushed while its key is held, as far as the terminal has told.
SticksFollowKeys ==
  Watched /\ (\A n \in DOMAIN typed : typed[n].key # EscKey) =>
    \A n \in DOMAIN sticks : \A d \in 1 .. 4 :
      LET key == Cluster1(n).keys[d]
      IN  WillBeDown(key, d \in sticks[n].keys) <=> key \in shownKeys

\* A stick that points somewhere will swipe, one that rests will not, and a swipe that is
\* about to be made goes where the keys point now.
SwipesFollowSticks ==
  /\ \A n \in DOMAIN sticks :
       Watched => (sticks[n].tick # NoTick <=> StickTarget(Cluster1(n), sticks[n].keys) # {})
  /\ \A n \in DOMAIN player.due :
       player.due[n] = StickTarget(Cluster1(n), sticks[n].keys)

\* However the loop ends, short of a signal, the terminal is as it was.
TerminalIsGivenBack == player.at \in {"ended", "failed"} => ~terminal.raw /\ ~terminal.flags

\* The game is launched in the session of the user whose registry is used.
LaunchedForItsUser ==
  LET user == SudoUser(player.play.env)
  IN  player.launched # NoWhere /\ user # NoWhere => player.launched = user

\* Terminal play pushes and rests its joysticks as the keys say, through a terminal that
\* lags behind its swipes, and gives the terminal back (interactive.rs, run.rs).
PlayIsTrue == SticksFollowKeys /\ SwipesFollowSticks /\ TerminalIsGivenBack /\ LaunchedForItsUser
=============================================================================
