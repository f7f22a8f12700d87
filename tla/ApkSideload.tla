---------------------------- MODULE ApkSideload ----------------------------
(***************************************************************************)
(* The Hub's package intake: an APK is uploaded into a private directory,  *)
(* inspected, and installed into Waydroid by a detached worker, or         *)
(* discarded.  A ticket names four files: the upload, the artifact, the    *)
(* status and the lock.  The request threads of the Hub (hub.rs), the      *)
(* workers and the page (assets/hub/app.js) meet only in these files; a    *)
(* Hub that starts removes the old ones.                                   *)
(***************************************************************************)
EXTENDS Naturals, FiniteSets

CONSTANTS
  Tickets,    \* random names of uploads
  Threads,    \* request threads that install or discard
  Workers,    \* install worker processes
  None,       \* no ticket, no thread
  MaxFaults,  \* crashes, failing operations and lost replies
  MaxStarts   \* Hubs that start while another one runs, or after it

ASSUME SideloadBounds ==
  /\ MaxFaults \in Nat /\ MaxStarts \in Nat
  /\ None \notin Tickets \cup Threads \cup Workers

VARIABLES
  files,    \* the files of every ticket that exist
  old,      \* those last written more than SIDELOAD_RETENTION ago
  status,   \* the state in the status file of every ticket
  upload,   \* where the upload of every ticket is
  thread,   \* the request threads
  worker,   \* the workers
  intake,   \* packageIntake of the page
  cleaner,  \* the Hub that starts: the files it has listed
  installs, \* history: how often the installer has run for every ticket
  told,     \* history: tickets the page was told are discarded
  swept,    \* history: tickets that lost a file to a starting Hub
  lost,     \* history: tickets some step of which has failed or crashed
  faults,
  starts

diskVars == <<files, old, status>>
historyVars == <<installs, told, swept>>
boundVars == <<lost, faults, starts>>
sideloadVars == <<diskVars, upload, thread, worker, intake, cleaner, historyVars, boundVars>>

Names == {"upload", "apk", "status", "lock"}

States == {"inspected", "queued", "installing", "installed", "failed"}

Has(t, name) == name \in files[t]

Create(t, name) ==
  /\ files' = [files EXCEPT ![t] = @ \cup {name}]
  /\ old' = [old EXCEPT ![t] = @ \ {name}]

Unlink(t, names) ==
  /\ files' = [files EXCEPT ![t] = @ \ names]
  /\ old' = [old EXCEPT ![t] = @ \ names]

\* write_apk_install_status: a temporary file renamed into place
WriteStatus(t, state) ==
  /\ Create(t, "status")
  /\ status' = [status EXCEPT ![t] = state]

Fault(t) ==
  /\ faults < MaxFaults
  /\ faults' = faults + 1 /\ lost' = [lost EXCEPT ![t] = TRUE]
  /\ UNCHANGED starts

NoFault == UNCHANGED boundVars

-----------------------------------------------------------------------------
(* POST /api/apk/upload *)

UploadTo(t, at) == upload' = [upload EXCEPT ![t] = at]

NoUpload == UNCHANGED <<thread, worker, cleaner, historyVars>>

\* uploadApk: the ticket is drawn by the Hub, and the page learns it with the reply
UploadStarts(t) ==
  /\ intake.state \in {"none", "failed", "installed"} /\ intake.awaits = None
  /\ upload[t] = "none"
  /\ Create(t, "upload") /\ UNCHANGED status
  /\ UploadTo(t, "receiving")
  /\ intake' = [state |-> "uploading", ticket |-> None, awaits |-> t]
  /\ NoFault /\ NoUpload

\* stage_apk_upload removes what it could not publish.  The page may have cancelled.
UploadFails(t) ==
  /\ upload[t] \in {"receiving", "published"}
  /\ Fault(t) \/ (intake.awaits # t /\ upload[t] = "receiving" /\ NoFault)
  /\ Unlink(t, {"upload"}) /\ UNCHANGED status
  /\ UploadTo(t, "refused")
  /\ UNCHANGED intake /\ NoUpload

\* the artifact is a second name of the upload, which goes then
Publish(t) ==
  /\ upload[t] = "receiving"
  /\ Create(t, "apk") /\ UNCHANGED status
  /\ UploadTo(t, "published")
  /\ UNCHANGED intake /\ NoFault /\ NoUpload

DropUpload(t) ==
  /\ upload[t] = "published"
  /\ Unlink(t, {"upload"}) /\ UNCHANGED status
  /\ UploadTo(t, "staged")
  /\ UNCHANGED intake /\ NoFault /\ NoUpload

\* package_preflight and validate_install_preflight
Inspect(t) ==
  /\ upload[t] = "staged"
  /\ \/ WriteStatus(t, "inspected") /\ UploadTo(t, "accepted") /\ NoFault
     \/ Unlink(t, {"apk"}) /\ UNCHANGED status /\ UploadTo(t, "refused") /\ (NoFault \/ Fault(t))
  /\ UNCHANGED intake /\ NoUpload

\* the load event of the request; the page ignores it when it has let the request go
UploadReply(t) ==
  /\ upload[t] \in {"accepted", "refused"}
  /\ intake' = CASE intake.awaits # t -> intake
               [] upload[t] = "accepted" -> [state |-> "inspected", ticket |-> t, awaits |-> None]
               [] OTHER -> [state |-> "failed", ticket |-> None, awaits |-> None]
  /\ UploadTo(t, "over")
  /\ UNCHANGED diskVars /\ NoFault /\ NoUpload

\* discardPackageIntake while uploading: the request is aborted, and a thread that has
\* the whole package goes on
UploadAborted ==
  /\ intake.state = "uploading"
  /\ intake' = [state |-> "none", ticket |-> None, awaits |-> None]
  /\ UNCHANGED <<diskVars, upload>> /\ NoFault /\ NoUpload

-----------------------------------------------------------------------------
(* POST /api/apk/install and /api/apk/discard *)

NoThread == [kind |-> "none", ticket |-> None, at |-> "idle"]

ThreadAt(h, at) == thread' = [thread EXCEPT ![h].at = at]

\* mutant: the lock is taken whoever has it
ClaimAnyway(h) ==
  /\ thread[h].at = "claim"
  /\ ThreadAt(h, "check") /\ Create(thread[h].ticket, "lock")
  /\ UNCHANGED <<status, upload, worker, intake, cleaner, historyVars>> /\ NoFault

ThreadOnly == UNCHANGED <<upload, worker, intake, cleaner, historyVars>>

\* the page asks for one thing at a time, and waits for the reply
Ask(h, kind) ==
  /\ intake.state = "inspected" /\ intake.awaits = None /\ intake.ticket # None
  /\ thread[h] = NoThread
  /\ thread' = [thread EXCEPT ![h] = [kind |-> kind, ticket |-> intake.ticket, at |-> "claim"]]
  /\ intake' = [intake EXCEPT !.awaits = h, !.state = IF kind = "install" THEN "queued" ELSE @]
  /\ UNCHANGED <<diskVars, upload, worker, cleaner, historyVars>> /\ NoFault

\* create_new of the lock file
Claim(h) ==
  /\ thread[h].at = "claim"
  /\ IF Has(thread[h].ticket, "lock")
     THEN ThreadAt(h, "failed") /\ UNCHANGED <<files, old>>
     ELSE ThreadAt(h, "check") /\ Create(thread[h].ticket, "lock")
  /\ UNCHANGED status /\ ThreadOnly /\ NoFault

Unlock(h) ==
  /\ thread[h].at = "unlock"
  /\ Unlink(thread[h].ticket, {"lock"}) /\ ThreadAt(h, "failed")
  /\ UNCHANGED status /\ ThreadOnly /\ NoFault

Ready(t) == Has(t, "status") /\ status[t] = "inspected"

\* claim_apk_install and handle_apk_discard look for an inspected package
Check(h) ==
  LET t == thread[h].ticket IN
  /\ thread[h].at = "check"
  /\ ThreadAt(h, IF Has(t, "apk") /\ Ready(t) THEN thread[h].kind ELSE "unlock")
  /\ UNCHANGED diskVars /\ ThreadOnly /\ NoFault

Queue(h) ==
  LET t == thread[h].ticket IN
  /\ thread[h].at = "install"
  /\ \/ WriteStatus(t, "queued") /\ ThreadAt(h, "spawn") /\ NoFault
     \/ Fault(t) /\ ThreadAt(h, "unlock") /\ UNCHANGED diskVars
  /\ ThreadOnly

\* queue_apk_install_with: a worker that could not start gives the ticket back, the
\* lock first
Spawn(h) ==
  LET t == thread[h].ticket IN
  /\ thread[h].at = "spawn"
  /\ \/ /\ \E w \in Workers :
             /\ worker[w].at = "none"
             /\ worker' = [worker EXCEPT ![w] = [at |-> "start", ticket |-> t]]
        /\ ThreadAt(h, "done") /\ UNCHANGED diskVars /\ NoFault
     \/ /\ Fault(t)
        /\ Unlink(t, {"lock"}) /\ ThreadAt(h, "reset")
        /\ UNCHANGED <<status, worker>>
  /\ UNCHANGED <<upload, intake, cleaner, historyVars>>

Reset(h) ==
  /\ thread[h].at = "reset"
  /\ WriteStatus(thread[h].ticket, "inspected") /\ ThreadAt(h, "failed")
  /\ ThreadOnly /\ NoFault

\* handle_apk_discard under the lock: the artifact, then the status
DiscardArtifact(h) ==
  LET t == thread[h].ticket IN
  /\ thread[h].at = "discard"
  /\ IF Has(t, "apk")
     THEN Unlink(t, {"apk"}) /\ ThreadAt(h, "forget")
     ELSE ThreadAt(h, "unlock") /\ UNCHANGED <<files, old>>
  /\ UNCHANGED status /\ ThreadOnly /\ NoFault

Forget(h) ==
  LET t == thread[h].ticket IN
  /\ thread[h].at = "forget"
  /\ IF Has(t, "status")
     THEN Unlink(t, {"status"}) /\ ThreadAt(h, "release")
     ELSE ThreadAt(h, "unlock") /\ UNCHANGED <<files, old>>
  /\ UNCHANGED status /\ ThreadOnly /\ NoFault

Release(h) ==
  LET t == thread[h].ticket IN
  /\ thread[h].at = "release"
  /\ Unlink(t, {"lock"})
  /\ ThreadAt(h, IF Has(t, "lock") THEN "done" ELSE "failed")
  /\ UNCHANGED status /\ ThreadOnly /\ NoFault

\* The reply; lost, it is an error for the page as well.
Reply(h) ==
  LET t == thread[h].ticket
      good == thread[h].at = "done" IN
  /\ thread[h].at \in {"done", "failed"}
  /\ thread' = [thread EXCEPT ![h] = NoThread]
  /\ intake' = CASE intake.awaits # h -> intake
               [] good /\ thread[h].kind = "discard" -> [state |-> "none", ticket |-> None, awaits |-> None]
               [] good /\ thread[h].kind = "install" -> [intake EXCEPT !.awaits = None]
               [] OTHER -> [intake EXCEPT !.awaits = None, !.state = "inspected"]
  /\ told' = IF good /\ intake.awaits = h /\ thread[h].kind = "discard" THEN told \cup {t} ELSE told
  /\ UNCHANGED <<diskVars, upload, worker, cleaner, installs, swept>> /\ NoFault

LoseReply ==
  /\ intake.awaits \in Threads /\ intake.ticket # None
  /\ Fault(intake.ticket)
  /\ intake' = [intake EXCEPT !.awaits = None, !.state = "inspected"]
  /\ UNCHANGED <<diskVars, upload, thread, worker, cleaner, historyVars>>

\* pollApkStatus; a ticket without status is asked for again
Poll ==
  /\ intake.state \in {"queued", "installing"} /\ intake.awaits = None
  /\ Has(intake.ticket, "status")
  /\ intake' = [intake EXCEPT !.state = status[intake.ticket]]
  /\ UNCHANGED <<diskVars, upload, thread, worker, cleaner, historyVars>> /\ NoFault

-----------------------------------------------------------------------------
(* wroid install-apk-worker: run_apk_install_worker_with *)

WorkerAt(w, at) == worker' = [worker EXCEPT ![w].at = at]

WorkerOnly == UNCHANGED <<upload, thread, intake, cleaner, told, swept>>

NoWorker == [at |-> "none", ticket |-> None]

\* a worker without an artifact leaves the status and the lock as they are
WorkerStarts(w) ==
  LET t == worker[w].ticket IN
  /\ worker[w].at = "start"
  /\ \/ Has(t, "apk") /\ WriteStatus(t, "installing") /\ WorkerAt(w, "install") /\ NoFault
     \/ /\ (~Has(t, "apk") /\ NoFault) \/ Fault(t)
        /\ worker' = [worker EXCEPT ![w] = NoWorker] /\ UNCHANGED diskVars
  /\ UNCHANGED installs /\ WorkerOnly

\* preflight again, the guard of desktop actions, Waydroid and waydroid app install
Install(w) ==
  LET t == worker[w].ticket IN
  /\ worker[w].at = "install"
  /\ \/ /\ Has(t, "apk") /\ WorkerAt(w, "installed")
        /\ installs' = [installs EXCEPT ![t] = IF @ < 2 THEN @ + 1 ELSE @]
     \/ WorkerAt(w, "failed") /\ UNCHANGED installs
  /\ UNCHANGED diskVars /\ WorkerOnly /\ NoFault

DropArtifact(w, outcome) ==
  /\ worker[w].at = outcome
  /\ Unlink(worker[w].ticket, {"apk"})
  /\ WorkerAt(w, IF outcome = "installed" THEN "unlock good" ELSE "unlock bad")
  /\ UNCHANGED <<status, installs>> /\ WorkerOnly /\ NoFault

DropLock(w) ==
  /\ worker[w].at \in {"unlock good", "unlock bad"}
  /\ Unlink(worker[w].ticket, {"lock"})
  /\ WorkerAt(w, IF worker[w].at = "unlock good" THEN "report good" ELSE "report bad")
  /\ UNCHANGED <<status, installs>> /\ WorkerOnly /\ NoFault

Report(w) ==
  LET t == worker[w].ticket IN
  /\ worker[w].at \in {"report good", "report bad"}
  /\ \/ /\ WriteStatus(t, IF worker[w].at = "report good" THEN "installed" ELSE "failed")
        /\ NoFault
     \/ Fault(t) /\ UNCHANGED diskVars
  /\ worker' = [worker EXCEPT ![w] = NoWorker]
  /\ UNCHANGED installs /\ WorkerOnly

WorkerDies(w) ==
  /\ worker[w].at # "none" /\ Fault(worker[w].ticket)
  /\ worker' = [worker EXCEPT ![w] = NoWorker]
  /\ UNCHANGED <<diskVars, installs>> /\ WorkerOnly

-----------------------------------------------------------------------------
(* The Hub process: it ends with its threads, and cleanup_stale_sideload *)

HubDies ==
  /\ faults < MaxFaults /\ faults' = faults + 1
  /\ lost' = [t \in Tickets |-> lost[t] \/ upload[t] \notin {"none", "over"}
                                        \/ \E h \in Threads : thread[h].ticket = t]
  /\ upload' = [t \in Tickets |-> IF upload[t] = "none" THEN "none" ELSE "over"]
  /\ thread' = [h \in Threads |-> NoThread]
  /\ intake' = [state |-> "none", ticket |-> None, awaits |-> None]
  /\ UNCHANGED <<diskVars, worker, cleaner, historyVars, starts>>

\* a day passes over the files of a ticket that nobody is working on
Age(t) ==
  /\ starts < MaxStarts /\ files[t] # {} /\ old[t] # files[t]
  /\ upload[t] \in {"none", "over"}
  /\ \A h \in Threads : thread[h].ticket # t
  /\ \A w \in Workers : worker[w].ticket # t
  /\ old' = [old EXCEPT ![t] = files[t]]
  /\ UNCHANGED <<files, status, upload, thread, worker, intake, cleaner, historyVars>> /\ NoFault

Listed == UNION {{<<t, name>> : name \in files[t]} : t \in Tickets}

\* a Hub lists the directory; nothing keeps a second Hub from doing so beside the first
HubStarts ==
  /\ cleaner = {} /\ starts < MaxStarts /\ starts' = starts + 1
  /\ cleaner' = Listed
  /\ UNCHANGED <<diskVars, upload, thread, worker, intake, historyVars, lost, faults>>

\* one entry; one that has gone since ends the start of the Hub with an error
Clean ==
  \E e \in cleaner :
    LET t == e[1]
        name == e[2] IN
    /\ IF Has(t, name)
       THEN /\ cleaner' = cleaner \ {e}
            /\ IF name \in old[t]
               THEN Unlink(t, {name}) /\ swept' = swept \cup {t}
               ELSE UNCHANGED <<files, old, swept>>
       ELSE cleaner' = {} /\ UNCHANGED <<files, old, swept>>
    /\ UNCHANGED <<status, upload, thread, worker, intake, installs, told>> /\ NoFault

-----------------------------------------------------------------------------

SideloadInit ==
  /\ files = [t \in Tickets |-> {}] /\ old = [t \in Tickets |-> {}]
  /\ status = [t \in Tickets |-> "inspected"]
  /\ upload = [t \in Tickets |-> "none"]
  /\ thread = [h \in Threads |-> NoThread]
  /\ worker = [w \in Workers |-> NoWorker]
  /\ intake = [state |-> "none", ticket |-> None, awaits |-> None]
  /\ cleaner = {}
  /\ installs = [t \in Tickets |-> 0]
  /\ told = {} /\ swept = {}
  /\ lost = [t \in Tickets |-> FALSE]
  /\ faults = 0 /\ starts = 0

UploadStep(t) == \/ UploadFails(t) \/ Publish(t) \/ DropUpload(t) \/ Inspect(t) \/ UploadReply(t)

ThreadStep(h) == \/ Claim(h) \/ Unlock(h) \/ Check(h) \/ Queue(h) \/ Spawn(h) \/ Reset(h)
                 \/ DiscardArtifact(h) \/ Forget(h) \/ Release(h) \/ Reply(h)

WorkerStep(w) == \/ WorkerStarts(w) \/ Install(w) \/ DropLock(w) \/ Report(w)
                 \/ DropArtifact(w, "installed") \/ DropArtifact(w, "failed")

SideloadNext ==
  \/ \E t \in Tickets : UploadStarts(t) \/ UploadStep(t) \/ Age(t)
  \/ \E h \in Threads : ThreadStep(h) \/ Ask(h, "install") \/ Ask(h, "discard")
  \/ \E w \in Workers : WorkerStep(w) \/ WorkerDies(w)
  \/ UploadAborted \/ LoseReply \/ Poll \/ HubDies \/ HubStarts \/ Clean

SideloadSpec == SideloadInit /\ [][SideloadNext]_sideloadVars

-----------------------------------------------------------------------------

Busy(w) == worker[w].at # "none"

\* Two workers never have the same ticket, and a package is installed at most once,
\* whatever replies were lost and requests repeated (claim_apk_install).
InstalledOnce ==
  /\ \A v, w \in Workers : Busy(v) /\ Busy(w) /\ worker[v].ticket = worker[w].ticket => v = w
  /\ \A t \in Tickets : installs[t] <= 1

\* When the page has been told that a package is discarded it has not been and will not
\* be installed (handle_apk_discard).
DiscardIsFinal ==
  \A t \in told : /\ installs[t] = 0 /\ ~Has(t, "apk")
                  /\ \A w \in Workers : worker[w].ticket # t

Busied(t) == \E w \in Workers : worker[w].ticket = t

\* What the status says, of a ticket no step of which has failed and no file of which
\* was taken by a Hub that started: an inspected package is there, or is about to be
\* discarded; one under way has the lock, or has been installed already, and a thread or a
\* worker; an installed one was installed.
StatusIsTrue ==
  \A t \in Tickets : Has(t, "status") /\ ~lost[t] /\ t \notin swept =>
    CASE status[t] = "inspected" ->
           Has(t, "apk") \/ \E h \in Threads : thread[h].ticket = t /\ thread[h].at = "forget"
      [] status[t] \in {"queued", "installing"} ->
           \/ \E h \in Threads : thread[h].ticket = t /\ thread[h].at = "spawn"
           \/ Busied(t) /\ (Has(t, "apk") => Has(t, "lock"))
      [] status[t] = "installed" -> installs[t] = 1
      [] OTHER -> ~Has(t, "apk")

\* A package is decided once, by one of the threads and workers that race for it: it is
\* installed at most once or discarded for good, and its status tells which.
DecidedOnce == InstalledOnce /\ DiscardIsFinal /\ StatusIsTrue

=============================================================================
