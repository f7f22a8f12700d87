-------------------------- MODULE ProfileRegistry --------------------------
(***************************************************************************)
(* The commands on first-generation profiles: `wroid profile ...` and      *)
(* `wroid scale ...` (commands/profile.rs, registry.rs, scaling.rs), over  *)
(* the schema of wroid-core.  A command is a short program of system       *)
(* calls; nothing locks a file, so the programs of two processes           *)
(* interleave call by call.  A name in a directory leads to a file, and a  *)
(* file that is open keeps being written when its name has gone.           *)
(***************************************************************************)
EXTENDS Integers, SequencesExt

CONSTANTS
  Processes,
  Jobs,        \* what is typed, and in which environment
  Disks,       \* the files at the start: [names, files]
  WmSizes,     \* what `wm size` prints: [override, physical], each a size, or (0, 0)
  Trimmed1,    \* a binding's name without the space around it
  NormalKey,   \* normalize_key: a key without that space, in small letters
  NoName,      \* a name, a key or an id with nothing in it
  MaxU32,      \* the largest u32
  Homes,       \* users with their home directories
  Root,
  NoWhere,     \* no directory, no user
  NoEntry,     \* nothing behind a path
  Empty, Scrap \* a file without its text, and one with mixed text

VARIABLES
  names,      \* where each path leads, 0: nowhere
  files,      \* what the files hold
  command     \* each process

registryVars == <<names, files, command>>

Paths == DOMAIN names

\* what a reader of a path finds
Found(ns, fs, path) == IF ns[path] = 0 THEN NoEntry ELSE fs[ns[path]]
View == [t \in Paths |-> Found(names, files, t)]
Exists(path) == names[path] # 0

-----------------------------------------------------------------------------
(* ControlProfile *)

Points1 == Nat \X Nat

\* BindingAction: an aim and a macro are only refused
Actions1 ==
  [kind : {"tap"}, points : [1 .. 1 -> Points1], radii : {<<>>}, times : {<<>>}]
    \cup [kind : {"swipe"}, points : [1 .. 2 -> Points1], radii : {<<>>}, times : [1 .. 1 -> Nat]]
    \cup [kind : {"virtual_joystick"}, points : [1 .. 1 -> Points1], radii : [1 .. 1 -> Nat],
          times : [1 .. 2 -> Nat]]
    \cup [kind : {"mouse_aim", "macro"}, points : Seq(Points1), radii : Seq(Nat), times : Seq(Nat)]

Bindings1 ==
  [name : STRING, input : {"key", "key_cluster", "mouse_button"}, keys : Seq(STRING),
   action : Actions1]

Profiles1 == [named : BOOLEAN, package : STRING, size : Points1, bindings : Seq(Bindings1)]

OnScreen1(point, size) == point[1] < size[1] /\ point[2] < size[2]

\* validate_input: the key, the four of a cluster, or the button
InputIsGiven(keys) == \A n \in DOMAIN keys : NormalKey[keys[n]] # NoName

\* validate_action
ActionErrors(a, size) ==
  IF a.kind \in {"mouse_aim", "macro"} THEN {"unsupported"}
  ELSE (IF \A n \in DOMAIN a.points : OnScreen1(a.points[n], size) THEN {} ELSE {"point"})
       \cup (IF \E n \in DOMAIN a.radii : a.radii[n] = 0 THEN {"radius"} ELSE {})
       \cup (IF \E n \in DOMAIN a.times : a.times[n] = 0 THEN {"time"} ELSE {})

\* ControlProfile::validate
Errors1(p) ==
  LET B == DOMAIN p.bindings
      name(n) == Trimmed1[p.bindings[n].name]
  IN  {e \in {"name", "package", "resolution", "binding_name", "duplicate", "input"} :
         CASE e = "name" -> ~p.named
           [] e = "package" -> p.package = NoName
           [] e = "resolution" -> 0 \in {p.size[1], p.size[2]}
           [] e = "binding_name" -> \E n \in B : name(n) = NoName
           [] e = "duplicate" -> \E m, n \in B : m # n /\ name(m) = name(n) /\ name(n) # NoName
           [] OTHER -> \E n \in B : ~InputIsGiven(p.bindings[n].keys)}
      \cup UNION {ActionErrors(p.bindings[n].action, p.size) : n \in B}

IsProfile(content) == content \notin {NoEntry, Empty, Scrap}
Valid1(content) == IsProfile(content) /\ Errors1(content) = {}

\* mutant: rounding up to the edge is left as it is
ScaleAxisUnclamped(value, from, to) ==
  IF 0 \in {from, to} THEN 0 ELSE (value * to + from \div 2) \div from

ScaleAxis(value, from, to) ==
  IF 0 \in {from, to} THEN 0
  ELSE LET scaled == (value * to + from \div 2) \div from
       IN  IF scaled > to - 1 THEN to - 1 ELSE scaled

\* the mean of the two factors, and never nothing
ScaleRadius(radius, from, to) ==
  IF 0 \in {radius, from[1], from[2], to[1], to[2]} THEN 0
  ELSE LET below == 2 * from[1] * from[2]
           scaled == (radius * (to[1] * from[2] + to[2] * from[1]) + below \div 2) \div below
       IN  CASE scaled < 1 -> 1 [] scaled > MaxU32 -> MaxU32 [] OTHER -> scaled

ScaleAction(a, from, to) ==
  IF a.kind \in {"mouse_aim", "macro"} THEN a
  ELSE [a EXCEPT !.points = [n \in DOMAIN @ |-> <<ScaleAxis(@[n][1], from[1], to[1]),
                                                  ScaleAxis(@[n][2], from[2], to[2])>>],
                 !.radii = [n \in DOMAIN @ |-> ScaleRadius(@[n], from, to)]]

ScaleProfile(p, to) ==
  LET Scaled(b) == [b EXCEPT !.action = ScaleAction(@, p.size, to)]
  IN  [p EXCEPT !.size = to, !.bindings = [n \in DOMAIN @ |-> Scaled(@[n])]]

\* ControlProfile::example
Example ==
  LET On(name, key, kind, points, times) ==
        [name |-> name, input |-> "key", keys |-> <<key>>,
         action |-> [kind |-> kind, points |-> points, radii |-> <<>>, times |-> times]]
  IN  [named |-> TRUE, package |-> "com.example.shooter", size |-> <<1920, 1080>>,
       bindings |->
         <<On("fire", "f", "tap", <<<<1640, 540>>>>, <<>>),
           On("reload", "r", "tap", <<<<1760, 900>>>>, <<>>),
           On("look_right", "d", "swipe", <<<<960, 540>>, <<1260, 540>>>>, <<180>>)>>]

-----------------------------------------------------------------------------
(* Where the registry is *)

\* original_sudo_user_for_registry: the user who became root
SudoUser(env) ==
  IF env.uid = Root /\ env.sudo_uid \notin {NoWhere, Root} /\ env.sudo_user \notin {NoWhere, Root}
  THEN env.sudo_user ELSE NoWhere

\* profile_registry_dir_from_env
RegistryDir(env) ==
  CASE env.xdg # NoWhere -> env.xdg
    [] env.xdg = NoWhere /\ SudoUser(env) # NoWhere -> Homes[SudoUser(env)]
    [] OTHER -> env.home

\* registry_profile_file_path; a path that was typed stays.  Only ids that are valid have a path.
PathOf(job, place) == IF place[1] = "id" THEN <<RegistryDir(job.env), place[2]>> ELSE place[2]

\* a registry at all, and validate_profile_id; an import may take the id from the profile
PlaceIsGood(job, place) ==
  /\ place[1] \in {"id", "package", "registry"} => RegistryDir(job.env) # NoWhere
  /\ place[1] = "id" => PathOf(job, place) \in Paths

-----------------------------------------------------------------------------
(* The programs *)

import_profile_to_registry == <<"load", "absent", "open", "write">>
create_current_profile_in_registry == <<"absent", "screen", "make", "open", "write">>
create_profile == <<"absent", "make", "open", "write">>
create_profile_from_current_screen == <<"absent", "screen">> \o create_profile
export_profile_from_registry == <<"present", "absent", "open_copy", "copy">>
duplicate_profile_in_registry == <<"present", "absent", "open_copy", "copy">>
remove_profile_from_registry == <<"present", "unlink">>
rename_profile_in_registry == <<"present", "absent", "move">>
add_binding == <<"load", "edit", "open", "write">>
remove_binding == <<"load", "edit", "open", "write">>
scale_profile_file == <<"size", "absent", "load", "fit", "open", "write">>
scale_profile_file_to_current_screen == <<"screen">> \o scale_profile_file
write_example_profile == <<"make", "open", "write">>
show_profile == <<"load">>
list_profiles == <<"entries", "look">>

Program(op) ==
  CASE op = "import" -> import_profile_to_registry
    [] op = "register" -> create_current_profile_in_registry
    [] op = "create" -> create_profile
    [] op = "create_here" -> create_profile_from_current_screen
    [] op = "export" -> export_profile_from_registry
    [] op = "duplicate" -> duplicate_profile_in_registry
    [] op = "remove" -> remove_profile_from_registry
    [] op = "rename" -> rename_profile_in_registry
    [] op = "add" -> add_binding
    [] op = "unbind" -> remove_binding
    [] op = "scale" -> scale_profile_file
    [] op = "scale_here" -> scale_profile_file_to_current_screen
    [] op = "example" -> write_example_profile
    [] op = "list" -> list_profiles
    [] OTHER -> show_profile

Ops == {"import", "register", "create", "create_here", "export", "duplicate", "remove", "rename",
        "add", "unbind", "scale", "scale_here", "example", "list", "show"}

\* What is typed is of these forms, and the registry that the code finds is the user's.
JobIsFormed(job) ==
  /\ job \in [op : Ops, source : {job.source}, target : {job.target}, force : BOOLEAN,
              env : {job.env}, registry : {job.registry}, named : BOOLEAN, package : STRING,
              size : Points1, binding : Bindings1]
  /\ job.source[1] \in (IF job.op = "list" THEN {"registry"} ELSE {"id", "path"})
  /\ job.target[1] \in (CASE job.op = "list" -> {"registry"}
                          [] job.op = "import" -> {"id", "path", "package"}
                          [] OTHER -> {"id", "path"})
  /\ job.op \in {"duplicate", "rename"} => ~job.force
  /\ \A n \in DOMAIN job.binding.keys : job.binding.keys[n] \in DOMAIN NormalKey
  /\ RegistryDir(job.env) # NoWhere => job.registry = RegistryDir(job.env)

\* A disk: no file has two names, the paths that are typed are known, and what is a profile
\* is one of the format.
DiskIsFormed(disk) ==
  /\ disk.files \in Seq({disk.files[n] : n \in DOMAIN disk.files})
  /\ disk.names \in [DOMAIN disk.names -> 0 .. Len(disk.files)]
  /\ \A t, u \in DOMAIN disk.names : t # u /\ disk.names[t] # 0 => disk.names[t] # disk.names[u]
  /\ \A n \in DOMAIN disk.files : IsProfile(disk.files[n]) => disk.files[n] \in Profiles1
  /\ \A job \in Jobs : \A place \in {job.source, job.target} :
       place[1] = "path" => place[2] \in DOMAIN disk.names

ASSUME RegistryConstants ==
  /\ \A job \in Jobs : JobIsFormed(job)
  /\ \A disk \in Disks : DiskIsFormed(disk)
  /\ \A output \in WmSizes : output.override \in Points1 /\ output.physical \in Points1
  /\ NoEntry \notin Jobs /\ MaxU32 \in Nat \ {0}
  /\ \A k \in DOMAIN NormalKey : NormalKey[k] \in STRING
  /\ {"fire", "f", "reload", "r", "look_right", "d", "com.example.shooter"} \subseteq STRING

Calls(p) == Program(command[p].job.op)
Call(p) == IF command[p].at = 0 THEN "none" ELSE Calls(p)[command[p].at]
SourceOf(p) == PathOf(command[p].job, command[p].job.source)
TargetOf(p) ==
  LET c == command[p]
  IN  PathOf(c.job, IF c.job.target[1] = "package" THEN <<"id", c.held.package>> ELSE c.job.target)

-----------------------------------------------------------------------------
(* Steps *)

\* the next call, with what the others may now find changed: a path's file, or its content
Moves(p, changes) ==
  LET moved == {t \in Paths : \/ names'[t] # names[t]
                              \/ Found(names, files, t) # Found(names', files', t)}
  IN  command' = [q \in Processes |->
        CASE q = p -> changes
          [] q # p /\ command[q].job = NoEntry -> command[q]
          [] OTHER -> [command[q] EXCEPT !.disturbed = @ \cup moved]]

Next1(p) == [command[p] EXCEPT !.at = IF @ = Len(Calls(p)) THEN 0 ELSE @ + 1,
                               !.done = command[p].at = Len(Calls(p))]
Failed(p) == [command[p] EXCEPT !.at = 0]
OnDisk == UNCHANGED <<names, files>>

Goes(p) == OnDisk /\ Moves(p, Next1(p))
Stops(p) == OnDisk /\ Moves(p, Failed(p))

\* a process that was started: its places are looked up first
StartCommand(p) ==
  /\ command[p].job = NoEntry
  /\ \E job \in Jobs :
       LET good == PlaceIsGood(job, job.source) /\ PlaceIsGood(job, job.target)
       IN  command' = [command EXCEPT ![p] =
             [@ EXCEPT !.job = job, !.size = job.size, !.at = IF good THEN 1 ELSE 0,
                       !.before = View]]
  /\ OnDisk

\* any call may fail, and the process may be killed before any of them, or while it writes
Breaks1(p) ==
  /\ command[p].at # 0
  /\ \/ Stops(p)
     \/ /\ Call(p) \in {"write", "copy"}
        /\ files' = [files EXCEPT ![command[p].file] = Scrap]
        /\ UNCHANGED names /\ Moves(p, Failed(p))

\* load_validated_profile
LoadFile(p) ==
  /\ Call(p) = "load"
  /\ LET content == Found(names, files, SourceOf(p))
     IN  IF Valid1(content)
         THEN OnDisk /\ Moves(p, [Next1(p) EXCEPT !.held = content])
         ELSE Stops(p)

\* a size that was typed
SizeGiven(p) ==
  /\ Call(p) = "size"
  /\ IF 0 \in {command[p].size[1], command[p].size[2]} THEN Stops(p) ELSE Goes(p)

Absent(p) ==
  /\ Call(p) = "absent"
  /\ IF TargetOf(p) \in Paths /\ (Exists(TargetOf(p)) => command[p].job.force)
     THEN Goes(p) ELSE Stops(p)

\* ensure_registry_profile_exists
Present(p) ==
  /\ Call(p) = "present"
  /\ IF Exists(SourceOf(p)) THEN Goes(p) ELSE Stops(p)

\* parse_wm_size_output: a size that was set by hand goes first, unless it is nothing
ParseSize(output) ==
  IF 0 \notin {output.override[1], output.override[2]} THEN output.override ELSE output.physical

\* detect_device_screen; a size of nothing is no size
Screen(p) ==
  /\ Call(p) = "screen"
  /\ \E output \in WmSizes :
       LET size == ParseSize(output)
       IN  IF 0 \in {size[1], size[2]} THEN Stops(p)
           ELSE OnDisk /\ Moves(p, [Next1(p) EXCEPT !.size = size])

NewProfile(job, size) ==
  [named |-> job.named, package |-> job.package, size |-> size, bindings |-> <<>>]

\* new_empty_control_profile, or the example
Make(p) ==
  /\ Call(p) = "make"
  /\ LET made == IF command[p].job.op = "example" THEN Example
                 ELSE NewProfile(command[p].job, command[p].size)
     IN  IF Errors1(made) = {} THEN OnDisk /\ Moves(p, [Next1(p) EXCEPT !.held = made])
         ELSE Stops(p)

NormalizedInput(b) == [b EXCEPT !.keys = [n \in DOMAIN @ |-> NormalKey[@[n]]]]

\* add_*_binding: the name is compared as it is spelled, and what was typed is looked at
\* before the profile is; only a cluster's keys are
AddTo(profile, b) ==
  IF \/ \E n \in DOMAIN profile.bindings : profile.bindings[n].name = b.name
     \/ b.input = "key_cluster" /\ ~InputIsGiven(b.keys)
     \/ ActionErrors(b.action, profile.size) # {}
  THEN {} ELSE {[profile EXCEPT !.bindings = Append(@, NormalizedInput(b))]}

\* the first that has the name, if one has it
RemoveFrom(profile, name) ==
  LET has == {n \in DOMAIN profile.bindings : profile.bindings[n].name = name}
  IN  {[profile EXCEPT !.bindings = RemoveAt(@, n)] : n \in {m \in has : \A k \in has : m <= k}}

Edited(profile, job) ==
  IF job.op = "add" THEN AddTo(profile, job.binding) ELSE RemoveFrom(profile, job.binding.name)

Edit(p) ==
  /\ Call(p) = "edit"
  /\ LET edited == {e \in Edited(command[p].held, command[p].job) : Errors1(e) = {}}
     IN  IF edited = {} THEN Stops(p)
         ELSE \E e \in edited : OnDisk /\ Moves(p, [Next1(p) EXCEPT !.held = e])

\* write_scaled_profile_file, after the profile was loaded
Fit(p) ==
  /\ Call(p) = "fit"
  /\ LET scaled == ScaleProfile(command[p].held, command[p].size)
     IN  IF Errors1(scaled) = {} THEN OnDisk /\ Moves(p, [Next1(p) EXCEPT !.held = scaled])
         ELSE OnDisk /\ Moves(p, [Failed(p) EXCEPT !.unfit = TRUE])

\* File::create: the file is there, and empty
Truncates(path) ==
  IF Exists(path)
  THEN files' = [files EXCEPT ![names[path]] = Empty] /\ UNCHANGED names
  ELSE files' = Append(files, Empty) /\ names' = [names EXCEPT ![path] = Len(files) + 1]

OpenedFile(path) == IF Exists(path) THEN names[path] ELSE Len(files) + 1

\* save_profile, up to the empty file
Open(p) ==
  /\ Call(p) = "open"
  /\ Truncates(TargetOf(p))
  /\ Moves(p, [Next1(p) EXCEPT !.file = OpenedFile(TargetOf(p))])

\* the text; over another one that was written since, something of both may be left
Writes(p, content) ==
  /\ \E left \in IF files[command[p].file] = Empty THEN {content} ELSE {content, Scrap} :
       files' = [files EXCEPT ![command[p].file] = left]
  /\ UNCHANGED names /\ Moves(p, Next1(p))

Write(p) == Call(p) = "write" /\ Writes(p, command[p].held)

\* copy_profile_json: the source is opened first, and read last
OpenCopy(p) ==
  /\ Call(p) = "open_copy"
  /\ IF Exists(SourceOf(p))
     THEN /\ Truncates(TargetOf(p))
          /\ Moves(p, [Next1(p) EXCEPT !.file = OpenedFile(TargetOf(p)), !.from = names[SourceOf(p)]])
     ELSE Stops(p)

Copy(p) == Call(p) = "copy" /\ Writes(p, files[command[p].from])

Unlink(p) ==
  /\ Call(p) = "unlink"
  /\ IF Exists(SourceOf(p))
     THEN names' = [names EXCEPT ![SourceOf(p)] = 0] /\ UNCHANGED files /\ Moves(p, Next1(p))
     ELSE Stops(p)

\* fs::rename replaces what is there, and does nothing to a name that is given its own
Move(p) ==
  /\ Call(p) = "move"
  /\ IF Exists(SourceOf(p))
     THEN /\ names' = [names EXCEPT ![SourceOf(p)] = 0, ![TargetOf(p)] = names[SourceOf(p)]]
          /\ UNCHANGED files /\ Moves(p, Next1(p))
     ELSE Stops(p)

\* profile_registry_listing: the names in the registry first, then a file at a time, in an
\* order on which nothing depends; what does not load is passed over
Entries(p) ==
  /\ Call(p) = "entries" /\ OnDisk
  /\ Moves(p, [Next1(p) EXCEPT !.entries =
       {t \in Paths : t[1] = RegistryDir(command[p].job.env) /\ Exists(t)}])

Look(p) ==
  /\ Call(p) = "look" /\ OnDisk
  /\ \/ command[p].entries = {} /\ Moves(p, Next1(p))
     \/ \E t \in command[p].entries :
          Moves(p, [command[p] EXCEPT !.entries = @ \ {t}, !.listed =
            IF Valid1(Found(names, files, t)) THEN @ \cup {t} ELSE @])

-----------------------------------------------------------------------------

NotStarted ==
  [job |-> NoEntry, at |-> 0, done |-> FALSE, held |-> NoEntry, size |-> <<0, 0>>,
   file |-> 0, from |-> 0, entries |-> {}, listed |-> {}, unfit |-> FALSE,
   before |-> NoEntry, disturbed |-> {}]

RegistryInit ==
  /\ \E disk \in Disks : names = disk.names /\ files = disk.files
  /\ command = [p \in Processes |-> NotStarted]

RegistryNext ==
  \E p \in Processes :
    \/ StartCommand(p) \/ Breaks1(p) \/ LoadFile(p) \/ SizeGiven(p) \/ Absent(p) \/ Present(p)
    \/ Screen(p) \/ Make(p) \/ Edit(p) \/ Fit(p) \/ Open(p) \/ Write(p) \/ OpenCopy(p) \/ Copy(p) \/ Unlink(p) \/ Move(p)
    \/ Entries(p) \/ Look(p)

RegistrySpec == RegistryInit /\ [][RegistryNext]_registryVars

-----------------------------------------------------------------------------
(* What a command is relied on for *)

\* the path that the user means: an id is in the user's own registry, under sudo too
Meant(job, place) == IF place[1] = "id" THEN <<job.registry, place[2]>> ELSE place[2]

\* a profile that is imported without an id is known by its package
MeantTarget(c) ==
  LET s == Meant(c.job, c.job.source)
  IN  CASE c.job.target[1] # "package" -> Meant(c.job, c.job.target)
        [] c.job.target[1] = "package" /\ IsProfile(c.before[s]) -> <<c.job.registry, c.before[s].package>>
        [] OTHER -> s

\* the bindings but for the one of that name, in their order
Without(bindings, name) ==
  LET gone == CHOOSE n \in DOMAIN bindings : bindings[n].name = name
  IN  [n \in 1 .. Len(bindings) - 1 |-> bindings[IF n < gone THEN n ELSE n + 1]]

\* what a command that is alone makes of the disk
Promised(c) ==
  LET s == Meant(c.job, c.job.source)
      t == MeantTarget(c)
      new(content) == [c.before EXCEPT ![t] = content]
  IN  CASE c.job.op = "import" -> new(c.before[s])
        [] c.job.op \in {"register", "create", "create_here"} ->
             new(NewProfile(c.job, c.size))
        \* an export onto the profile itself empties it
        [] c.job.op \in {"export", "duplicate"} -> new(IF s = t THEN Empty ELSE c.before[s])
        [] c.job.op = "remove" -> [c.before EXCEPT ![s] = NoEntry]
        [] c.job.op = "rename" -> [c.before EXCEPT ![s] = NoEntry, ![t] = c.before[s]]
        [] c.job.op = "add" -> new([c.before[s] EXCEPT !.bindings = @ \o <<NormalizedInput(c.job.binding)>>])
        [] c.job.op = "unbind" -> new([c.before[s] EXCEPT !.bindings = Without(@, c.job.binding.name)])
        [] c.job.op \in {"scale", "scale_here"} -> new(ScaleProfile(c.before[s], c.size))
        [] c.job.op = "example" -> new(Example)
        [] OTHER -> c.before

\* What was reported as done is on the disk, and a command that failed or was killed has
\* changed nothing but the file it was writing: unless others changed its files meanwhile.
CommandsKeepTheirWord ==
  \A p \in Processes :
    LET c == command[p]
        ours == {Meant(c.job, c.job.source), MeantTarget(c)}
    IN  c.job # NoEntry /\ c.job.op # "list" /\ c.at = 0 /\ ours \cap c.disturbed = {} =>
          \A t \in Paths \ c.disturbed :
            IF c.done THEN View[t] = Promised(c)[t]
            ELSE View[t] = c.before[t] \/ (c.file # 0 /\ t \in ours)

\* A listing shows the valid profiles of the user's registry, however the others come and go.
ListingIsComplete ==
  \A p \in Processes :
    LET c == command[p]
    IN  c.done /\ c.job.op = "list" =>
          \A t \in Paths \ c.disturbed :
            t \in c.listed <=> t[1] = c.job.registry /\ Valid1(c.before[t])

\* A profile that does not validate was there before any command.
NothingInvalidIsMade ==
  \A n \in DOMAIN files :
    IsProfile(files[n]) /\ Errors1(files[n]) # {} =>
      \E disk \in Disks : \E m \in DOMAIN disk.files : disk.files[m] = files[n]

\* A valid profile stays valid at every size of the screen: "scaled profile is invalid" is
\* never said.
ScaledProfilesFit == \A p \in Processes : ~command[p].unfit

\* Without --force a command replaces only what another one made after it had looked.
NothingIsReplaced ==
  \A p \in Processes : \A t \in Paths :
    /\ command'[p].at # command[p].at /\ command[p].job # NoEntry /\ ~command[p].job.force
    /\ command[p].job.op \notin {"add", "unbind", "example", "remove"}
    /\ View[t] # NoEntry /\ View'[t] # View[t]
    => \/ t \in command[p].disturbed \/ names[t] = command[p].file
       \/ command[p].job.op = "rename" /\ t = Meant(command[p].job, command[p].job.source)

\* The commands on profiles keep their word, alone or beside each other, at whatever call
\* they end, make no profile invalid and replace none unasked (registry.rs, profile.rs).
RegistryIsTrue ==
  /\ [](/\ CommandsKeepTheirWord /\ ListingIsComplete
        /\ NothingInvalidIsMade /\ ScaledProfilesFit)
  /\ [][NothingIsReplaced]_registryVars
=============================================================================
