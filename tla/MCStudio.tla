------------------------------ MODULE MCStudio ------------------------------
(* Instances for the run of Controls Studio's components, of the commands  *)
(* on first-generation profiles and of terminal play.  They share no       *)
(* state, so one run checks them side by side: the first step of a         *)
(* behaviour has chosen which of them acts in it.                          *)
EXTENDS MCUnifiedRuntime, StudioPreview, ProfileStore, StudioEditing, Preferences,
        StudioBackground, InteractivePlay, TLC

CONSTANTS e1, e2, H1, H2, x1, x2

VARIABLE part

studioVars ==
  <<previewVars, storeVars, editVars, prefVars, backgroundVars, registryVars, playVars>>

-----------------------------------------------------------------------------
(* Preview: a layer's key behind a modifier that is the key of another     *)
(* layer, and inside that layer.                                           *)

Chords ==
  Plan(<<Control("tap", Press(keyL), 0, keyF, NoKey, FALSE),
         Control("tap", Press(keyF), 1, NoKey, NoKey, FALSE),
         Control("hold", Press(keyL), 1, keyF, NoKey, FALSE),
         Control("tap", Press(left), 2, NoKey, NoKey, FALSE),
         Control("hold", Press(left), 2, shift, NoKey, FALSE)>>,
       <<[key |-> shift, mode |-> "hold"], [key |-> keyL, mode |-> "toggle"]>>)

Nothing == Plan(<<>>, <<>>)

StudioPlans == AllPlans \cup {Chords, Nothing}

-----------------------------------------------------------------------------
(* Storage: an editor with a Hub, two editors, two Hubs                    *)

NoCast == [procs |-> {}, edits |-> 0, errors |-> 0]

SomeCasts == {NoCast,
              [procs |-> {e1, H1}, edits |-> 2, errors |-> 1],
              [procs |-> {e1, e2}, edits |-> 1, errors |-> 0],
              [procs |-> {H1, H2}, edits |-> 0, errors |-> 1]}

EditsAreAlike == Permutations(Edits) \cup Permutations(Processes)

-----------------------------------------------------------------------------
(* Editing *)

Names == {"", "base", "layer", " layer", "layer_2", "layer_3", "jump", "jump ", "copy",
          "copy_2", "tap", "hold", "stick", "aim"}
Trimmed == [n \in Names |-> CASE n = " layer" -> "layer" [] n = "jump " -> "jump" [] OTHER -> n]

Spelled == {"f", "F", "g", "G", "v", "w", "a", "ctrl", "esc", "c", "left", "right"}
Canonicals == [k \in Spelled |-> CASE k = "F" -> "f" [] k = "G" -> "g" [] OTHER -> k]

Source(kind, on) == [kind |-> kind, on |-> on]
Action(kind, n, toggle, steps) == [kind |-> kind, n |-> n, toggle |-> toggle, steps |-> steps]
TapAt(x) == Action("tap", [point |-> x], None, <<>>)
HoldAt(x) == Action("hold", [point |-> x], None, <<>>)
StickAt(c, r, z) ==
  Action("virtual_joystick", [center |-> c, radius |-> r, dead_zone |-> z, reaffirm_ms |-> 50],
         None, <<>>)
AimIn(x, width, toggle) ==
  Action("mouse_aim", [x |-> x, w |-> width, sensitivity |-> 10000, threshold |-> 700,
                       ads |-> 600, reaffirm_ms |-> 50], toggle, <<>>)
MacroOf(steps) == Action("macro", [k \in {} |-> 0], None, steps)

Bind(name, layer, modifier, input, action) ==
  [name |-> name, layer |-> layer, modifier |-> modifier, input |-> input, action |-> action]
LayerOn(name, key) == [name |-> name, mode |-> "hold", key |-> key]

NewInput == [k \in {"key", "mouse_button"} |->
               IF k = "key" THEN Source("key", <<"f">>) ELSE Source("mouse_button", <<"left">>)]

NewControl ==
  [k \in {"tap", "hold", "virtual_joystick", "mouse_aim"} |->
     CASE k = "tap" -> Bind("tap", None, None, NewInput["key"], TapAt(500))
       [] k = "hold" -> Bind("hold", None, None, NewInput["mouse_button"], HoldAt(500))
       [] k = "virtual_joystick" ->
            Bind("stick", None, None, Source("key_cluster", <<"w", "a">>), StickAt(200, 100, 20))
       [] OTHER -> Bind("aim", None, None, Source("mouse_move", <<>>), AimIn(350, 580, "v"))]

\* names with space around them, keys in capitals, a stick behind a modifier
Padded ==
  [named |-> TRUE, layers |-> <<LayerOn(" layer", "G"), LayerOn("layer_3", "esc")>>,
   bindings |-> <<Bind("jump ", None, None, Source("key", <<"F">>), TapAt(332)),
                  Bind("copy", " layer", "ctrl", Source("key_cluster", <<"w", "a">>),
                       StickAt(0, 100, 60))>>]

\* two layers, an aim with a layer that is ignored, a chord of a button
Routed ==
  [named |-> TRUE, layers |-> <<LayerOn("layer_2", "v"), LayerOn("layer_3", "c")>>,
   bindings |-> <<Bind("aim", "layer_2", None, Source("mouse_move", <<>>), AimIn(332, 332, None)),
                  Bind("hold", "layer_2", "c", Source("mouse_button", <<"left">>), HoldAt(1000)),
                  Bind("tap", "layer_3", None, Source("key", <<"f">>), TapAt(1))>>]

\* a macro, and a key with its modifier
WithMacro ==
  [named |-> TRUE, layers |-> <<>>,
   bindings |-> <<Bind("copy", None, None, Source("key_cluster", <<"w", "g">>),
                       MacroOf(<<TapAt(0), AimIn(0, 1000, "g")>>)),
                  Bind("hold", None, "f", Source("key", <<"c">>), HoldAt(5))>>]

Fresh == [named |-> TRUE, layers |-> <<>>, bindings |-> <<>>]

OpenedProfiles == {Fresh, Padded, Routed, WithMacro}
LayerNamesInOrder == <<"layer", "layer_2", "layer_3", "tap">>
KeysInOrder == <<"g", "v">>
CopyNames == <<"copy", "copy_2", "layer", "layer_2">>

-----------------------------------------------------------------------------

(* Commands on profiles: a user's, the same user's under sudo, one without *)
(* a home; a registry with one profile, and one with a profile that does   *)
(* not validate                                                            *)

TapOn(name, key, x, y) ==
  [name |-> name, input |-> "key", keys |-> <<key>>,
   action |-> [kind |-> "tap", points |-> <<<<x, y>>>>, radii |-> <<>>, times |-> <<>>]]
StickOn(name, keys, radius, times) ==
  [name |-> name, input |-> "key_cluster", keys |-> keys,
   action |-> [kind |-> "virtual_joystick", points |-> <<<<2, 0>>>>, radii |-> <<radius>>,
               times |-> times]]
Of(kind, b) == [b EXCEPT !.action.kind = kind]
ByMouse(b) == [b EXCEPT !.input = "mouse_button", !.keys = <<"left">>]

Profile1(bindings) == [named |-> TRUE, package |-> "h", size |-> <<3, 2>>, bindings |-> bindings]

Wasd == <<"w", "a", "s", "d">>
Walking == Profile1(<<TapOn("tap", "f", 2, 1), StickOn("stick", Wasd, 1, <<2, 1>>)>>)
Aiming == Profile1(<<Of("mouse_aim", StickOn("aim", Wasd, 0, <<>>))>>)
Wide == Profile1(<<StickOn("stick", Wasd, MaxU32, <<2, 1>>), ByMouse(TapOn("tap", "f", 0, 0))>>)

AllPaths == {<<"home", "g">>, <<"home", "h">>, <<"root", "g">>, <<"root", "h">>, <<"cwd", "f">>}
Disk1(where, content) ==
  [names |-> [t \in AllPaths |-> IF t \in DOMAIN where THEN where[t] ELSE 0], files |-> content]

SomeDisks ==
  {Disk1([t \in {<<"home", "g">>} |-> 1], <<Walking>>),
   Disk1([t \in {<<"home", "g">>, <<"cwd", "f">>} |-> IF t[1] = "home" THEN 1 ELSE 2],
         <<Aiming, Wide>>)}

User == [xdg |-> NoWhere, home |-> "home", sudo_user |-> NoWhere, sudo_uid |-> NoWhere,
         uid |-> "user"]
Sudo == [xdg |-> NoWhere, home |-> "root", sudo_user |-> "user", sudo_uid |-> "user",
         uid |-> Root]
Lost == [User EXCEPT !.home = NoWhere]
Set == [Sudo EXCEPT !.xdg = "root"]
HomesOf == [u \in {"user"} |-> "home"]

G == <<"id", "g">>
H == <<"id", "h">>
F == <<"path", <<"cwd", "f">>>>
InHome == <<"path", <<"home", "g">>>>
ByPackage == <<"package">>
Registry == <<"registry">>

Job(op, source, target, force) ==
  [op |-> op, source |-> source, target |-> target, force |-> force, env |-> User,
   registry |-> "home", named |-> TRUE, package |-> "g", size |-> <<2, 1>>, binding |-> TapOn("", "f", 0, 0)]
With(op, place, binding) == [Job(op, place, place, FALSE) EXCEPT !.binding = binding]

SomeJobs ==
  {Job("import", F, ByPackage, FALSE), Job("import", F, G, TRUE),
   Job("import", F, <<"id", "../g">>, TRUE),
   [Job("import", F, H, FALSE) EXCEPT !.env = Sudo],
   [Job("register", G, G, FALSE) EXCEPT !.env = Lost], Job("register", H, H, FALSE),
   [Job("register", H, H, FALSE) EXCEPT !.env = Set, !.registry = "root"],
   Job("create", F, F, FALSE), [Job("create", F, F, TRUE) EXCEPT !.named = FALSE],
   [Job("create", F, F, TRUE) EXCEPT !.package = ""], Job("create_here", F, F, TRUE),
   Job("export", G, F, FALSE), Job("export", G, InHome, TRUE),
   Job("remove", G, G, FALSE), Job("rename", G, H, FALSE),
   [Job("duplicate", G, H, FALSE) EXCEPT !.env = Sudo],
   With("add", InHome, TapOn("jump", "G", 2, 1)),
   With("add", InHome, StickOn("stick ", Wasd, 1, <<2, 1>>)),
   With("add", F, StickOn("walk", <<"w", " ", "s", "d">>, 1, <<2, 1>>)),
   With("unbind", InHome, TapOn("tap", "f", 0, 0)),
   Job("scale", InHome, F, FALSE),
   [Job("scale", F, F, TRUE) EXCEPT !.size = <<1, 7>>],
   [Job("scale", F, F, TRUE) EXCEPT !.size = <<0, 7>>],
   Job("scale_here", InHome, InHome, TRUE),
   Job("example", F, F, FALSE), Job("show", G, G, FALSE), Job("list", Registry, Registry, FALSE)}

WmOutputs ==
  {[override |-> <<0, 0>>, physical |-> <<5, 3>>], [override |-> <<1, 1>>, physical |-> <<5, 3>>],
   [override |-> <<0, 0>>, physical |-> <<0, 0>>]}

Names1 == {"", "tap", "stick", "stick ", "aim", "jump", "walk", "fire", "reload", "look_right"}
Spelling1 == [n \in Names1 |-> IF n = "stick " THEN "stick" ELSE n]
Keys1 == {"w", "a", "s", "d", "f", "r", "x", "y", "g", "G", "W", "", " ", "left"}
KeySpelling == [k \in Keys1 |-> CASE k = "G" -> "g" [] k = "W" -> "w" [] k = " " -> "" [] OTHER -> k]

-----------------------------------------------------------------------------
(* Terminal play: two sticks with a key in two directions and a key of     *)
(* both, and taps that they hide; actions that it does not carry out       *)

TwoSticks ==
  Profile1(<<TapOn("walk", "w", 0, 0), StickOn("stick", <<"w", "a", "W", "d">>, 2, <<2, 1>>),
             TapOn("tap", "a", 1, 1), StickOn("jump", <<"w", "x", "a", "y">>, 1, <<1, 2>>)>>)

Placeholders == Profile1(<<ByMouse(TapOn("fire", "a", 0, 0)), TapOn("tap", "a", 1, 1), Of("macro", TapOn("walk", "w", 0, 0))>>)

Playing(content, env, backend, launches, scales) ==
  [content |-> content, env |-> env, backend |-> backend, launch |-> launches, scale |-> scales]

SomePlays ==
  {Playing(TwoSticks, User, "adb", FALSE, FALSE),
   Playing(Placeholders, Sudo, "auto", TRUE, TRUE), Playing(Empty, User, "auto", TRUE, TRUE)}

-----------------------------------------------------------------------------

Parts == {"preview", "store", "editing", "preferences", "background", "registry", "playing"}

StudioInit ==
  /\ part \in Parts
  /\ PreviewInit /\ (part # "preview" => plan = Nothing)
  /\ StoreInit
  /\ (part # "store" => file[Profile] = NoFile /\ budget = [edits |-> 0, errors |-> 0])
  /\ EditInit /\ (part # "editing" => doc = Fresh)
  /\ PrefInit
  /\ BackgroundInit /\ (part # "background" => background = NoImage)
  /\ RegistryInit /\ (part # "registry" => Len(files) = 1)
  /\ PlayInit /\ (part # "playing" => player.play.content = Empty /\ terminal.able)

StudioNext ==
  /\ UNCHANGED part
  /\ \/ /\ part = "preview" /\ PreviewNext
        /\ UNCHANGED <<storeVars, editVars, prefVars, backgroundVars, registryVars, playVars>>
     \/ /\ part = "store" /\ StoreNext
        /\ UNCHANGED <<previewVars, editVars, prefVars, backgroundVars, registryVars, playVars>>
     \/ /\ part = "editing" /\ EditNext
        /\ UNCHANGED <<previewVars, storeVars, prefVars, backgroundVars, registryVars, playVars>>
     \/ /\ part = "preferences" /\ PrefNext
        /\ UNCHANGED <<previewVars, storeVars, editVars, backgroundVars, registryVars, playVars>>
     \/ /\ part = "background" /\ BackgroundNext
        /\ UNCHANGED <<previewVars, storeVars, editVars, prefVars, registryVars, playVars>>
     \/ /\ part = "registry" /\ RegistryNext
        /\ UNCHANGED <<previewVars, storeVars, editVars, prefVars, backgroundVars, playVars>>
     \/ /\ part = "playing" /\ PlayNext
        /\ UNCHANGED <<previewVars, storeVars, editVars, prefVars, backgroundVars, registryVars>>

StudioSpec == StudioInit /\ [][StudioNext]_<<studioVars, part>>

=============================================================================
