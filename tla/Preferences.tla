---------------------------- MODULE Preferences ----------------------------
(***************************************************************************)
(* The preferences file, which the pages of the Hub and of Controls Studio *)
(* change one setting at a time.  A page sends its changes one after the   *)
(* other; each is a read-modify-write of the whole file by the process     *)
(* that serves the page, under a lock on a file beside it.                 *)
(***************************************************************************)
EXTENDS Naturals, Sequences

CONSTANTS
  PrefPages,    \* pages, each served by a process of its own
  PrefFields, PrefValues,
  PrefDefault,  \* the value of every field of a file that does not exist
  MaxChanges    \* changes a user makes on a page

VARIABLES
  stored,    \* the preferences in the file
  queue,     \* preferenceWrite of a page: the changes it has yet to send
  serving,   \* the request of a page, as its process works on it
  latest,    \* history: the value of each field that was written last
  changes    \* how many changes each page has made

prefVars == <<stored, queue, serving, latest, changes>>

Waiting(patch) == [at |-> "waiting", patch |-> patch, base |-> <<>>]
NoRequest == [at |-> "idle", patch |-> <<>>, base |-> <<>>]
Ended == [at |-> "ended", patch |-> <<>>, base |-> <<>>]

PrefInit ==
  /\ stored = [f \in PrefFields |-> PrefDefault] /\ latest = stored
  /\ queue = [p \in PrefPages |-> <<>>]
  /\ serving = [p \in PrefPages |-> NoRequest]
  /\ changes = [p \in PrefPages |-> 0]

\* savePreferences
Change(p, patch) ==
  /\ serving[p] # Ended /\ changes[p] < MaxChanges
  /\ changes' = [changes EXCEPT ![p] = @ + 1]
  /\ queue' = [queue EXCEPT ![p] = Append(@, patch)]
  /\ UNCHANGED <<stored, serving, latest>>

Send(p) ==
  /\ serving[p] = NoRequest /\ queue[p] # <<>>
  /\ serving' = [serving EXCEPT ![p] = Waiting(Head(queue[p]))]
  /\ queue' = [queue EXCEPT ![p] = Tail(@)]
  /\ UNCHANGED <<stored, latest, changes>>

\* mutant: nobody waits for the lock
Unlocked == TRUE

LockIsFree == \A p \in PrefPages : serving[p].at \notin {"locked", "loaded"}

\* update_at_path
Lock(p) ==
  /\ serving[p].at = "waiting" /\ LockIsFree
  /\ serving' = [serving EXCEPT ![p].at = "locked"]
  /\ UNCHANGED <<stored, queue, latest, changes>>

Load(p) ==
  /\ serving[p].at = "locked"
  /\ serving' = [serving EXCEPT ![p].at = "loaded", ![p].base = stored]
  /\ UNCHANGED <<stored, queue, latest, changes>>

Merged(base, patch) == [f \in PrefFields |-> IF f \in DOMAIN patch THEN patch[f] ELSE base[f]]

\* the rename; the page is told of an error as well when the directory is not synced
StorePatch(p) ==
  /\ serving[p].at = "loaded"
  /\ stored' = Merged(serving[p].base, serving[p].patch)
  /\ latest' = Merged(latest, serving[p].patch)
  /\ serving' = [serving EXCEPT ![p] = NoRequest]
  /\ UNCHANGED <<queue, changes>>

\* an invalid value, or an error of the file system: the file is as it was
SaveFails(p) ==
  /\ serving[p].at \in {"waiting", "locked", "loaded"}
  /\ serving' = [serving EXCEPT ![p] = NoRequest]
  /\ UNCHANGED <<stored, queue, latest, changes>>

\* the process ends: the lock is gone with it, the page has nobody to send to
ServerEnds(p) ==
  /\ serving[p] # Ended
  /\ serving' = [serving EXCEPT ![p] = Ended]
  /\ UNCHANGED <<stored, queue, latest, changes>>

PrefNext ==
  \E p \in PrefPages :
    \/ \E f \in PrefFields, v \in PrefValues : Change(p, [g \in {f} |-> v])
    \/ Send(p) \/ Lock(p) \/ Load(p) \/ StorePatch(p) \/ SaveFails(p) \/ ServerEnds(p)

PrefSpec == PrefInit /\ [][PrefNext]_prefVars

\* A change of one setting on one page never undoes a change of another setting, or an
\* earlier one of the same setting, on another page (preferences.rs:93): each field has
\* the value that was saved for it last.
PreferencesMerge == stored = latest

=============================================================================
