---------------------------- MODULE ProfileStore ----------------------------
(***************************************************************************)
(* The profile library and Controls Studio.  The files of one game: its    *)
(* profile, the profile's previous version, and the profile of a regional  *)
(* variant.  They are written by the request threads of the editors (each  *)
(* a process with a page of its own) and of the Hubs.  A document is       *)
(* staged in a temporary file that is named after the process and the      *)
(* target, and then renamed over the target.  A thread keeps writing to    *)
(* the file it has opened, whatever that file is called by then.           *)
(***************************************************************************)
EXTENDS Naturals, Sequences, FiniteSets

CONSTANTS
  Editors,     \* wroid profile edit-v2 processes
  Hubs,        \* Hub processes
  Slots,       \* request threads of a process
  Old,         \* the starter of an earlier release
  Current,     \* the starter of this release
  Derived,     \* the variant's profile as the Hub derives it
  Imported,    \* the variant's profile as a user imports it
  Edits,       \* what a user makes of a profile
  Torn,        \* the content of a file that is not whole
  NoFile,
  Disk,        \* the owner of the names that are not temporary
  Casts        \* the processes that run, with the edits and I/O errors that may happen

ASSUME StoreConstants ==
  Casts \subseteq [procs : SUBSET (Editors \cup Hubs), edits : Nat, errors : Nat]
ASSUME StoreProcesses == Editors \cap Hubs = {} /\ Disk \notin Editors \cup Hubs
ASSUME StoreContents ==
  /\ {Torn, NoFile} \cap ({Old, Current, Derived, Imported} \cup Edits) = {}
  /\ Torn # NoFile

VARIABLES
  file,     \* the content of every file
  studio,   \* the pages of the editors
  hub,      \* the Hubs
  request,  \* the request threads
  made,     \* history: the edits made so far
  acked,    \* history: what a page has loaded or was told is saved
  late,     \* history: pages edited while a save was under way, and not saved since
  budget    \* the edits and I/O errors still to come

storeVars == <<file, studio, hub, request, made, acked, late, budget>>

Procs == Editors \cup Hubs
Requests == Procs \X Slots
Docs == {Old, Current, Derived, Imported} \cup Edits

Profile == <<Disk, "profile">>
Backup == <<Disk, "backup">>
Variant == <<Disk, "variant">>
Temporary(p, target) == <<p, target>>

Targets == {"profile", "backup", "variant"}
Files == ({Disk} \cup Procs) \X Targets

Whole(f) == file[f] \in Docs

-----------------------------------------------------------------------------
(* Threads *)

Idle == [kind |-> "none", at |-> "idle", target |-> "profile", doc |-> NoFile,
         save |-> NoFile, fd |-> <<Disk, "none">>, close |-> FALSE]

Closed == <<Disk, "none">>

Start(h, kind, save, close) ==
  /\ request[h] = Idle
  /\ request' = [request EXCEPT ![h] =
       [Idle EXCEPT !.kind = kind, !.at = "begin", !.save = save, !.close = close]]

Go(h, at) == request' = [request EXCEPT ![h].at = at]

StageFor(h, target, doc) ==
  request' = [request EXCEPT ![h].at = "open", ![h].target = target, ![h].doc = doc]

Spend(what) ==
  /\ budget[what] > 0
  /\ budget' = [budget EXCEPT ![what] = @ - 1]

IoError == Spend("errors")

NoIoError == UNCHANGED budget
NoPage == UNCHANGED <<studio, hub, made, acked, late>>

-----------------------------------------------------------------------------
(* ProfileV2::save_to_path *)

TempOf(h) == Temporary(h[1], request[h].target)

\* fs::write opens the temporary file, and empties it if it is there
OpenTemporary(h) ==
  /\ request[h].at = "open"
  /\ \/ /\ file' = [file EXCEPT ![TempOf(h)] = Torn]
        /\ request' = [request EXCEPT ![h].at = "write", ![h].fd = TempOf(h)]
        /\ NoIoError
     \/ IoError /\ Go(h, "failed") /\ UNCHANGED file
  /\ NoPage

\* ... and writes, to the file it has opened.  What somebody else has written since then
\* may stick out behind a shorter document.
WriteTemporary(h) ==
  LET f == request[h].fd IN
  /\ request[h].at = "write"
  /\ \/ /\ \/ f = Closed /\ UNCHANGED file
           \/ f # Closed /\ file' = [file EXCEPT ![f] = request[h].doc]
           \/ f # Closed /\ file[f] # Torn /\ file' = [file EXCEPT ![f] = Torn]
        /\ request' = [request EXCEPT ![h].at = "rename", ![h].fd = Closed]
        /\ NoIoError
     \/ /\ IoError /\ UNCHANGED file
        /\ request' = [request EXCEPT ![h].at = "failed", ![h].fd = Closed]
  /\ NoPage

\* the threads that write to f when f is renamed to g
Follow(f, g) ==
  [k \in Requests |-> IF request[k].fd = f THEN [request[k] EXCEPT !.fd = g]
                      ELSE IF request[k].fd = g THEN [request[k] EXCEPT !.fd = Closed]
                      ELSE request[k]]

AfterRename(h) ==
  IF request[h].kind = "put" /\ request[h].target = "backup" THEN "backed up" ELSE "done"

RenameTemporary(h) ==
  LET f == TempOf(h)
      g == <<Disk, request[h].target>> IN
  /\ request[h].at = "rename"
  /\ \/ /\ file[f] # NoFile
        /\ file' = [file EXCEPT ![g] = file[f], ![f] = NoFile]
        /\ request' = [Follow(f, g) EXCEPT ![h].at = AfterRename(h)]
        /\ NoIoError
     \/ /\ (file[f] = NoFile /\ NoIoError) \/ IoError
        /\ file' = [file EXCEPT ![f] = NoFile]
        /\ request' = [Follow(f, Closed) EXCEPT ![h].at = "failed"]
  /\ NoPage

-----------------------------------------------------------------------------
(* PUT /api/profile: save_profile_with_backup *)

LoadCurrent(h) ==
  /\ request[h].kind = "put" /\ request[h].at = "begin"
  /\ CASE ~Whole(Profile) -> Go(h, "failed")
       [] file[Profile] = request[h].save -> Go(h, "done")
       [] OTHER -> StageFor(h, "backup", file[Profile])
  /\ UNCHANGED file /\ NoIoError /\ NoPage

SaveNext(h) ==
  /\ request[h].at = "backed up"
  /\ StageFor(h, "profile", request[h].save)
  /\ UNCHANGED file /\ NoIoError /\ NoPage

-----------------------------------------------------------------------------
(* The Hub: bootstrap_library, handle_profile_import, reconcile_installed_game_variants *)

HubOpens(h) ==
  /\ hub[h[1]] = "off"
  /\ hub' = [hub EXCEPT ![h[1]] = "starting"]
  /\ Start(h, "starter", Current, FALSE)
  /\ UNCHANGED <<file, studio, made, acked, late, budget>>

\* a starter that is absent is installed, an untouched predecessor replaced
InstallStarter(h) ==
  /\ request[h].kind = "starter" /\ request[h].at = "begin"
  /\ IF file[Profile] \in {NoFile, Old} THEN StageFor(h, "profile", Current) ELSE Go(h, "done")
  /\ UNCHANGED file /\ NoIoError /\ NoPage

Import(h) ==
  /\ hub[h[1]] = "up"
  /\ Start(h, "import", Imported, FALSE)
  /\ UNCHANGED file /\ NoIoError /\ NoPage

CheckImport(h) ==
  /\ request[h].kind = "import" /\ request[h].at = "begin"
  /\ IF file[Variant] # NoFile THEN Go(h, "failed") ELSE StageFor(h, "variant", Imported)
  /\ UNCHANGED file /\ NoIoError /\ NoPage

Sync(h) ==
  /\ hub[h[1]] = "up"
  /\ Start(h, "sync", Derived, FALSE)
  /\ UNCHANGED file /\ NoIoError /\ NoPage

\* the library has the canonical profile and none of the variant; the derived one is
\* staged under a random name
StageVariant(h) ==
  /\ request[h].kind = "sync" /\ request[h].at = "begin"
  /\ Go(h, IF Whole(Profile) /\ ~Whole(Variant) THEN "link" ELSE "done")
  /\ UNCHANGED file /\ NoIoError /\ NoPage

\* publish_profile_no_replace: a hard link does not replace
LinkVariant(h) ==
  /\ request[h].at = "link"
  /\ \/ /\ file' = [file EXCEPT ![Variant] = IF @ = NoFile THEN Derived ELSE @]
        /\ NoIoError
     \/ IoError /\ UNCHANGED file
  /\ Go(h, "done") /\ NoPage

\* the reply of a Hub, or the end of its start
HubReplies(h) ==
  /\ h[1] \in Hubs /\ request[h].at \in {"done", "failed"}
  /\ request' = [request EXCEPT ![h] = Idle]
  /\ hub' = [hub EXCEPT ![h[1]] = IF request[h].kind # "starter" THEN @
                                  ELSE IF request[h].at = "done" THEN "up" ELSE "dead"]
  /\ UNCHANGED <<file, studio, made, acked, late, budget>>

HubEnds(p) ==
  /\ p \in Hubs /\ hub[p] \in {"starting", "up"}
  /\ hub' = [hub EXCEPT ![p] = "dead"]
  /\ request' = [h \in Requests |-> IF h[1] = p THEN Idle ELSE request[h]]
  /\ UNCHANGED <<file, studio, made, acked, late, budget>>

-----------------------------------------------------------------------------
(* The page of an editor (assets/editor/app.js) *)

NoPageYet == [shown |-> FALSE, over |-> FALSE, doc |-> NoFile, dirty |-> FALSE,
              saving |-> FALSE, backup |-> FALSE]

\* start_editor and boot
Boot(e) ==
  /\ studio[e] = NoPageYet /\ Whole(Profile)
  /\ studio' = [studio EXCEPT ![e] = [@ EXCEPT !.shown = TRUE, !.doc = file[Profile],
                                           !.backup = Whole(Backup)]]
  /\ acked' = [acked EXCEPT ![e] = file[Profile]]
  /\ UNCHANGED <<file, hub, request, made, late, budget>>

Revise(e, doc) ==
  /\ studio' = [studio EXCEPT ![e].doc = doc, ![e].dirty = TRUE]
  /\ late' = IF studio[e].saving THEN late \cup {e} ELSE late
  /\ UNCHANGED <<file, hub, request, acked>>

\* mutate and moveDrag: a control, layer, key or number is changed
Mutate(e) ==
  /\ studio[e].shown
  /\ \E d \in Edits \ made : Revise(e, d) /\ made' = made \cup {d} /\ Spend("edits")

\* undo and redo: back to what the page has shown before.  Which document that is does
\* not matter here, and the two lists are not kept.
UndoRedo(e) ==
  /\ studio[e].shown /\ studio[e].dirty
  /\ \E d \in made \cup {acked[e]} : d # studio[e].doc /\ Revise(e, d)
  /\ UNCHANGED <<made, budget>>

\* loadPreviousSave: a revision that is not saved yet
LoadPrevious(e) ==
  /\ studio[e].shown /\ studio[e].backup /\ ~studio[e].saving /\ Whole(Backup)
  /\ Revise(e, file[Backup]) /\ UNCHANGED <<made, budget>>

\* saveProfile: the button is disabled during a save, Ctrl+S is not
Save(h, close) ==
  LET e == h[1] IN
  /\ e \in Editors /\ studio[e].shown
  /\ Start(h, "put", studio[e].doc, close)
  /\ studio' = [studio EXCEPT ![e].saving = TRUE]
  /\ UNCHANGED <<file, hub, made, acked, late, budget>>

\* mutant: the page is clean whatever the answer was
SavedAnyway(h) ==
  LET e == h[1] IN
  /\ e \in Editors /\ request[h].at \in {"done", "failed"}
  /\ studio' = [studio EXCEPT ![e].saving = FALSE, ![e].dirty = FALSE]
  /\ request' = [request EXCEPT ![h] = Idle]
  /\ UNCHANGED <<file, hub, made, acked, late, budget>>

\* the answer; "Save & Close" then ends the editor, and its other threads with it
Saved(h) ==
  LET e == h[1]
      good == request[h].at = "done" IN
  /\ e \in Editors /\ request[h].at \in {"done", "failed"}
  /\ studio' = [studio EXCEPT ![e] =
       IF ~good THEN [@ EXCEPT !.saving = FALSE]
       ELSE [@ EXCEPT !.saving = FALSE, !.dirty = FALSE, !.backup = file[Backup] # NoFile,
                      !.shown = ~request[h].close, !.over = request[h].close]]
  /\ request' = IF good /\ request[h].close
                THEN [k \in Requests |-> IF k[1] = e THEN Idle ELSE request[k]]
                ELSE [request EXCEPT ![h] = Idle]
  /\ acked' = IF good THEN [acked EXCEPT ![e] = request[h].save] ELSE acked
  /\ late' = IF good /\ studio[e].doc = request[h].save THEN late \ {e} ELSE late
  /\ UNCHANGED <<file, hub, made, budget>>

EditorDies(e) ==
  /\ studio[e].shown
  /\ studio' = [studio EXCEPT ![e] = [NoPageYet EXCEPT !.over = TRUE]]
  /\ request' = [h \in Requests |-> IF h[1] = e THEN Idle ELSE request[h]]
  /\ UNCHANGED <<file, hub, made, acked, late, budget>>

-----------------------------------------------------------------------------

StoreInit ==
  /\ \E d \in {NoFile, Old, Current} :
       file = [f \in Files |-> IF f = Profile THEN d ELSE NoFile]
  /\ \E cast \in Casts :
       /\ studio = [e \in Editors |-> [NoPageYet EXCEPT !.over = e \notin cast.procs]]
       /\ hub = [p \in Hubs |-> IF p \in cast.procs THEN "off" ELSE "dead"]
       /\ budget = [edits |-> cast.edits, errors |-> cast.errors]
  /\ request = [h \in Requests |-> Idle]
  /\ made = {} /\ late = {}
  /\ acked = [e \in Editors |-> NoFile]

FileStep(h) == OpenTemporary(h) \/ WriteTemporary(h) \/ RenameTemporary(h)

StoreNext ==
  \/ \E h \in Requests :
       \/ FileStep(h) \/ LoadCurrent(h) \/ SaveNext(h)
       \/ Saved(h) \/ Save(h, TRUE) \/ Save(h, FALSE)
  \/ \E h \in Hubs \X Slots :
       \/ HubOpens(h) \/ InstallStarter(h) \/ Import(h) \/ CheckImport(h)
       \/ Sync(h) \/ StageVariant(h) \/ LinkVariant(h) \/ HubReplies(h)
  \/ \E e \in Editors :
       Boot(e) \/ Mutate(e) \/ UndoRedo(e) \/ LoadPrevious(e) \/ EditorDies(e)
  \/ \E p \in Hubs : HubEnds(p)

StoreSpec == StoreInit /\ [][StoreNext]_storeVars

-----------------------------------------------------------------------------

\* Whoever reads a profile, its previous version or a variant's profile finds a whole
\* document, whatever other processes write at the time or leave behind
\* (save_to_path, load_from_path).
ProfilesAreWhole == \A f \in {Profile, Backup, Variant} : file[f] # Torn

\* The Hub's synchronisation of variants never replaces a profile (publish_profile_no_replace).
ExistingProfilesWin ==
  [][\A h \in Hubs \X Slots :
       request[h].at = "link" /\ request'[h].at = "done" /\ file[Variant] # NoFile =>
         file'[Variant] = file[Variant]]_storeVars

\* A page that calls itself synced shows what it has loaded or was told is saved, if
\* nothing was edited while a save was under way (saveProfile, mutate, moveDrag).
SyncedIsSaved ==
  \A e \in Editors :
    studio[e].shown /\ ~studio[e].dirty /\ ~studio[e].saving /\ e \notin late =>
      studio[e].doc = acked[e]

\* What is on the disk is a document that nobody's synchronisation has replaced, and what
\* the page says of it is true.
StoreIsTruthful == [](ProfilesAreWhole /\ SyncedIsSaved) /\ ExistingProfilesWin

=============================================================================
