---------------------------- MODULE StudioProofs ----------------------------
(***************************************************************************)
(* Proofs about what the Hub and Controls Studio keep on the disk: the     *)
(* settings, the background of the calibration and the profiles, with      *)
(* their editing. Each part is a component of its own; none mentions       *)
(* another.                                                                *)
(***************************************************************************)
EXTENDS Preferences, StudioBackground, ProfileStore, StudioEditing, SequenceTheorems, TLAPS

-----------------------------------------------------------------------------
(***************************************************************************)
(* Preferences: however many pages change settings at once, and whatever   *)
(* request fails or process ends, each field of the file has the value     *)
(* that was saved for it last.                                             *)
(***************************************************************************)

RequestStages == {"idle", "waiting", "locked", "loaded", "ended"}

\* a request is a record with a stage
RequestShape(r) == r \in [at : RequestStages, patch : {r.patch}, base : {r.base}]

ServingShape ==
  /\ DOMAIN serving = PrefPages
  /\ \A p \in PrefPages : RequestShape(serving[p])

InUpdate(p) == serving[p].at \in {"locked", "loaded"}

\* the lock of update_at_path
OneUpdate == \A p, q \in PrefPages : InUpdate(p) /\ InUpdate(q) => p = q

\* nobody writes the file between the read and the write of an update
BaseIsStored == \A p \in PrefPages : serving[p].at = "loaded" => serving[p].base = stored

PrefInv == ServingShape /\ OneUpdate /\ BaseIsStored /\ PreferencesMerge

-----------------------------------------------------------------------------

\* No page has asked for anything yet.
LEMMA PrefInitHolds == PrefInit => PrefInv
  BY DEF PrefInit, PrefInv, ServingShape, RequestShape, RequestStages, OneUpdate, InUpdate,
         BaseIsStored, PreferencesMerge, NoRequest

\* A request that starts, or that ends without writing, leaves the file and the lock as
\* they were or frees the lock.
LEMMA RequestKeeps ==
  ASSUME PrefInv, NEW p \in PrefPages, NEW r, RequestShape(r), r.at \notin {"locked", "loaded"},
         serving' = [serving EXCEPT ![p] = r], UNCHANGED <<stored, latest>>
  PROVE  PrefInv'
  BY DEF PrefInv, ServingShape, OneUpdate, InUpdate, BaseIsStored, PreferencesMerge, RequestShape

\* The three stages of update_at_path.
LEMMA UpdateKeeps ==
  ASSUME PrefInv, NEW p \in PrefPages, Lock(p) \/ Load(p) \/ StorePatch(p)
  PROVE  PrefInv'
<1> USE DEF PrefInv, PreferencesMerge
<1>1. CASE Lock(p)
  <2> DEFINE r == [serving[p] EXCEPT !.at = "locked"]
  <2>1. RequestShape(r) /\ r.at = "locked" /\ serving' = [serving EXCEPT ![p] = r]
    BY <1>1 DEF Lock, ServingShape, RequestShape, RequestStages
  <2> HIDE DEF r
  <2> QED
    BY <1>1, <2>1 DEF Lock, LockIsFree, ServingShape, OneUpdate, InUpdate, BaseIsStored
<1>2. CASE Load(p)
  <2> DEFINE r == [serving[p] EXCEPT !.at = "loaded", !.base = stored]
  <2>1. RequestShape(r) /\ r.at = "loaded" /\ r.base = stored /\ serving' = [serving EXCEPT ![p] = r]
    BY <1>2 DEF Load, ServingShape, RequestShape, RequestStages
  <2> HIDE DEF r
  <2> QED
    <3>1. /\ stored' = stored /\ latest' = latest /\ serving[p].at = "locked"
          /\ serving'[p] = r /\ \A q \in PrefPages \ {p} : serving'[q] = serving[q]
          /\ DOMAIN serving' = PrefPages
      BY <1>2, <2>1 DEF Load, ServingShape
    <3>2. ServingShape'
      BY <2>1, <3>1 DEF ServingShape
    <3>3. OneUpdate'
      BY <2>1, <3>1 DEF OneUpdate, InUpdate
    <3>4. BaseIsStored'
      BY <2>1, <3>1 DEF BaseIsStored
    <3> QED
      BY <3>1, <3>2, <3>3, <3>4
<1>3. CASE StorePatch(p)
  <2>1. stored' = latest'
    BY <1>3 DEF StorePatch, BaseIsStored
  <2>2. RequestShape(NoRequest) /\ NoRequest.at = "idle"
    BY DEF RequestShape, RequestStages, NoRequest
  <2>3. serving' = [serving EXCEPT ![p] = NoRequest]
    BY <1>3 DEF StorePatch
  <2>4. \A q \in PrefPages : ~InUpdate(q)'
    BY <1>3, <2>2, <2>3 DEF StorePatch, ServingShape, OneUpdate, InUpdate
  <2> QED
    BY <2>1, <2>2, <2>3, <2>4 DEF ServingShape, OneUpdate, InUpdate, BaseIsStored
<1> QED
  BY <1>1, <1>2, <1>3

\* Every step of a page or of its process keeps the invariant.
LEMMA PrefStepKeeps == PrefInv /\ [PrefNext]_prefVars => PrefInv'
<1> SUFFICES ASSUME PrefInv, [PrefNext]_prefVars PROVE PrefInv'
  OBVIOUS
<1>1. ASSUME UNCHANGED <<stored, serving, latest>> PROVE PrefInv'
  BY <1>1 DEF PrefInv, ServingShape, OneUpdate, InUpdate, BaseIsStored, PreferencesMerge
<1>2. \A patch : RequestShape(Waiting(patch)) /\ Waiting(patch).at = "waiting"
  BY DEF RequestShape, RequestStages, Waiting
<1>3. /\ RequestShape(NoRequest) /\ NoRequest.at = "idle"
      /\ RequestShape(Ended) /\ Ended.at = "ended"
  BY DEF RequestShape, RequestStages, NoRequest, Ended
<1>4. ASSUME NEW p \in PrefPages, NEW f \in PrefFields, NEW v \in PrefValues,
             Change(p, [g \in {f} |-> v])
      PROVE  PrefInv'
  BY <1>1, <1>4 DEF Change
<1>5. ASSUME NEW p \in PrefPages, Send(p) \/ SaveFails(p) \/ ServerEnds(p)
      PROVE  PrefInv'
  BY <1>2, <1>3, <1>5, RequestKeeps DEF Send, SaveFails, ServerEnds
<1> QED
  BY <1>1, <1>4, <1>5, UpdateKeeps DEF PrefNext, prefVars

\* A change of one setting never undoes another change (update_at_path, preferences.rs).
THEOREM PreferencesAlwaysMerge == PrefSpec => []PreferencesMerge
<1>1. PrefInv => PreferencesMerge
  BY DEF PrefInv
<1> QED
  BY PrefInitHolds, PrefStepKeeps, <1>1, PTL DEF PrefSpec

-----------------------------------------------------------------------------
(***************************************************************************)
(* StudioBackground: while no two requests overlap, the page and the file  *)
(* of the calibration background agree, or the one request under way will  *)
(* make them.                                                              *)
(***************************************************************************)

MaybeImages == Images \cup {NoImage}

Views == [shown : MaybeImages, saved : BOOLEAN, saving : BOOLEAN, live : BOOLEAN, clearable : BOOLEAN,
          encoding : MaybeImages]

CallKinds == {"put", "delete"}

BackgroundTyped == view \in Views /\ \A c \in calls : c.kind \in CallKinds

\* The page and the file agree.
Agreed == /\ view.saved => background = view.shown
          /\ view.shown = NoImage => background = NoImage

\* The only request under way: the page shows what it uploads, and does not call it saved;
\* before a removal is served the page and the file still agree.
Alone(c) ==
  /\ view.shown # NoImage
  /\ c.kind = "put" => c.image = view.shown /\ ~view.saved /\ (c.at = "ok" => background = c.image)
  /\ c.kind = "delete" => /\ c.image = NoImage
                          /\ IF c.at = "ok" THEN background = NoImage
                             ELSE view.saved => background = view.shown

OneAtATime ==
  ~overlapped => \/ calls = {} /\ Agreed
                 \/ \E c \in calls : calls = {c} /\ Alone(c)

BackgroundInv == BackgroundTyped /\ OneAtATime

-----------------------------------------------------------------------------

\* Steps that only change what the page says of captures and frames.
LEMMA CaptureKeeps ==
  ASSUME BackgroundInv, UNCHANGED <<background, calls, overlapped>>,
         view' \in Views, view'.shown = view.shown, view'.saved = view.saved
  PROVE  BackgroundInv'
BY DEF BackgroundInv, BackgroundTyped, OneAtATime, Agreed, Alone

\* Live and NotLive are about captures.
LEMMA LiveKeeps ==
  ASSUME NEW v \in Views
  PROVE  /\ Live(v) \in Views /\ Live(v).shown = v.shown /\ Live(v).saved = v.saved
         /\ NotLive(v) \in Views /\ NotLive(v).shown = v.shown /\ NotLive(v).saved = v.saved
BY DEF Views, Live, NotLive

\* An upload: the page shows the image and waits.
LEMMA UploadKeeps ==
  ASSUME BackgroundInv, NEW image \in Images, NEW frame \in BOOLEAN, Upload(image, frame),
         background' = background
  PROVE  BackgroundInv'
<1> PICK c : c = [id |-> issued, kind |-> "put", image |-> image, frame |-> frame, at |-> "sent"]
  OBVIOUS
<1>1. /\ calls' = calls \cup {c} /\ (~overlapped' => calls = {})
      /\ view' = [Show(image, FALSE) EXCEPT !.saving = TRUE, !.encoding = NoImage]
  BY DEF Upload, Issue, Quiet
<1>2. view \in Views
  BY DEF BackgroundInv, BackgroundTyped
<1>3. view' \in Views /\ view'.shown = image /\ view'.saved = FALSE
  BY <1>1, <1>2 DEF Views, Show, MaybeImages
<1>4. c.kind = "put" /\ c.image = image /\ c.at = "sent"
  OBVIOUS
<1>5. BackgroundTyped'
  BY <1>1, <1>3, <1>4 DEF BackgroundInv, BackgroundTyped, CallKinds
<1>6. Alone(c)'
  BY <1>3, <1>4, NoImageIsNone DEF Alone
<1>7. ~overlapped' => calls' = {c}
  BY <1>1
<1> QED
  BY <1>1, <1>5, <1>6, <1>7 DEF BackgroundInv, OneAtATime

\* A removal: the page shows the image until it is told.
LEMMA ClearKeeps ==
  ASSUME BackgroundInv, ClearImage
  PROVE  BackgroundInv'
<1> PICK c : c = [id |-> issued, kind |-> "delete", image |-> NoImage, frame |-> FALSE, at |-> "sent"]
  OBVIOUS
<1>1. /\ calls' = calls \cup {c} /\ (~overlapped' => calls = {} /\ ~overlapped)
      /\ view' = view /\ background' = background /\ view.shown # NoImage
  BY DEF ClearImage, Issue, Quiet
<1>2. c.kind = "delete" /\ c.image = NoImage /\ c.at = "sent"
  OBVIOUS
<1>3. BackgroundTyped'
  BY <1>1, <1>2 DEF BackgroundInv, BackgroundTyped, CallKinds
<1>4. ASSUME ~overlapped'
      PROVE  calls' = {c} /\ Alone(c)'
  <2>1. calls = {} /\ ~overlapped
    BY <1>1, <1>4
  <2>2. Agreed
    BY <2>1 DEF BackgroundInv, OneAtATime
  <2> QED
    BY <1>1, <1>2, <2>1, <2>2 DEF Alone, Agreed
<1> QED
  BY <1>1, <1>3, <1>4 DEF BackgroundInv, OneAtATime

\* The server writes or removes the file, or says that it could not.
LEMMA ServeKeeps ==
  ASSUME BackgroundInv, NEW c \in calls, NEW ok \in BOOLEAN, Serve(c, ok)
  PROVE  BackgroundInv'
<1> DEFINE served == [c EXCEPT !.at = IF ok THEN "ok" ELSE "failed"]
<1>1. /\ c.at = "sent" /\ calls' = (calls \ {c}) \cup {served}
      /\ background' = (IF ok THEN c.image ELSE background)
      /\ UNCHANGED <<view, overlapped>>
  BY DEF Serve
<1>2. /\ served.kind = c.kind /\ served.image = c.image
      /\ c.at = "sent" => served.at = IF ok THEN "ok" ELSE "failed"
  OBVIOUS
<1> HIDE DEF served
<1>3. BackgroundTyped'
  BY <1>1, <1>2 DEF BackgroundInv, BackgroundTyped
<1>4. ASSUME ~overlapped
      PROVE  calls' = {served} /\ Alone(served)'
  <2>1. calls = {c} /\ Alone(c)
    BY <1>4 DEF BackgroundInv, OneAtATime
  <2>2. c.kind \in CallKinds
    BY DEF BackgroundInv, BackgroundTyped
  <2> QED
    BY <1>1, <1>2, <2>1, <2>2 DEF Alone, CallKinds
<1> QED
  BY <1>1, <1>3, <1>4 DEF BackgroundInv, OneAtATime

\* The page learns what became of its request.
LEMMA AnswerKeeps ==
  ASSUME BackgroundInv, NEW c \in calls, Answer(c)
  PROVE  BackgroundInv'
<1>1. /\ c.at \in {"ok", "failed"} /\ calls' = calls \ {c} /\ UNCHANGED <<background, overlapped>>
      /\ c.kind \in CallKinds /\ view \in Views
  BY DEF Answer, BackgroundInv, BackgroundTyped
<1>2. Settled(c) \in Views /\ Settled(c).shown = view.shown /\ Settled(c).saved = (c.at = "ok")
  BY <1>1 DEF Views, Settled
<1>3. Show(NoImage, FALSE) \in Views /\ Show(NoImage, FALSE).shown = NoImage /\ Show(NoImage, FALSE).saved = FALSE
  BY <1>1 DEF Views, Show, MaybeImages
<1>4. CASE c.kind = "put"
  <2>1. view' = IF c.frame THEN Live(Settled(c)) ELSE Settled(c)
    BY <1>4 DEF Answer
  <2>2. view' \in Views /\ view'.shown = view.shown /\ view'.saved = (c.at = "ok")
    BY <1>2, <2>1, LiveKeeps
  <2>3. ~overlapped => calls = {c} /\ Alone(c)
    BY DEF BackgroundInv, OneAtATime
  <2>4. ~overlapped => calls' = {} /\ Agreed'
    BY <1>1, <1>4, <2>2, <2>3 DEF Alone, Agreed
  <2> QED
    BY <1>1, <2>2, <2>4 DEF BackgroundInv, BackgroundTyped, OneAtATime
<1>5. CASE c.kind = "delete" /\ c.at = "ok"
  <2>1. view' = Show(NoImage, FALSE)
    BY <1>5 DEF Answer
  <2>2. ~overlapped => calls' = {} /\ Agreed'
    BY <1>1, <1>3, <1>5, <2>1 DEF BackgroundInv, OneAtATime, Alone, Agreed
  <2> QED
    BY <1>1, <1>3, <2>1, <2>2 DEF BackgroundInv, BackgroundTyped, OneAtATime
<1>6. CASE c.kind = "delete" /\ c.at # "ok"
  <2>1. view' = view
    BY <1>6 DEF Answer
  <2>2. ~overlapped => calls' = {} /\ Agreed'
    BY <1>1, <1>6, <2>1 DEF BackgroundInv, OneAtATime, Alone, Agreed
  <2> QED
    BY <1>1, <2>1, <2>2 DEF BackgroundInv, BackgroundTyped, OneAtATime
<1> QED
  BY <1>1, <1>4, <1>5, <1>6 DEF CallKinds

\* Captures start and end.
LEMMA CaptureStepKeeps ==
  ASSUME BackgroundInv,
         \/ EndCapture \/ OpenPicker \/ CancelPicker
         \/ \E s \in Streams : PickWindow(s) \/ VideoPlays(s) \/ VideoFails(s) \/ SharingEnds(s)
  PROVE  BackgroundInv'
<1>1. /\ UNCHANGED <<background, calls, overlapped>> /\ view' \in {view, Live(view), NotLive(view)}
  BY DEF EndCapture, StopCapture, OpenPicker, CancelPicker, PickWindow, VideoPlays, VideoFails, SharingEnds,
         uploads
<1>2. view \in Views
  BY DEF BackgroundInv, BackgroundTyped
<1>3. view' \in Views /\ view'.shown = view.shown /\ view'.saved = view.saved
  BY <1>1, <1>2, LiveKeeps
<1> QED
  BY <1>1, <1>3, CaptureKeeps

\* Frames are taken, and encoded or not.
LEMMA FrameKeeps ==
  ASSUME BackgroundInv,
         (\E image \in Images : TakeFrame(image)) \/ (\E ok \in BOOLEAN : FrameEncoded(ok))
  PROVE  BackgroundInv'
<1>0. view \in Views
  BY DEF BackgroundInv, BackgroundTyped
<1>1. ASSUME NEW image \in MaybeImages, view' = [view EXCEPT !.encoding = image],
             UNCHANGED <<background, uploads>>
      PROVE  BackgroundInv'
  <2>1. view' \in Views /\ view'.shown = view.shown /\ view'.saved = view.saved
    BY <1>0, <1>1 DEF Views
  <2> QED
    BY <1>1, <2>1, CaptureKeeps DEF uploads
<1>2. ASSUME NEW image \in Images, TakeFrame(image)
      PROVE  BackgroundInv'
  BY <1>1, <1>2 DEF TakeFrame, MaybeImages
<1>3. ASSUME NEW ok \in BOOLEAN, FrameEncoded(ok)
      PROVE  BackgroundInv'
  <2>1. CASE ok /\ Upload(view.encoding, TRUE)
    <3>1. view.encoding \in Images
      BY <1>0, <1>3 DEF FrameEncoded, Views, MaybeImages
    <3> QED
      BY <1>3, <2>1, <3>1, UploadKeeps DEF FrameEncoded
  <2>2. CASE view' = [view EXCEPT !.encoding = NoImage] /\ UNCHANGED uploads
    BY <1>1, <1>3, <2>2 DEF FrameEncoded, MaybeImages
  <2> QED
    BY <1>3, <2>1, <2>2 DEF FrameEncoded
<1> QED
  BY <1>2, <1>3

\* Requests of Controls Studio that do not overlap leave the page and the file in
\* agreement (persistBackground, clearBackground and save_background): "saved" means that
\* the file is the image on the page, and an image that was removed is gone, for any images
\* and captures and however many requests fail.
THEOREM SavedIsOnDisk == BackgroundSpec => []BackgroundIsOnDisk
<1>1. BackgroundInit => BackgroundInv
  <2> SUFFICES ASSUME BackgroundInit PROVE BackgroundInv
    OBVIOUS
  <2>1. view \in Views /\ view.shown = background /\ view.saved = (background # NoImage)
    BY DEF BackgroundInit, Loaded, Views, MaybeImages
  <2> QED
    BY <2>1 DEF BackgroundInit, BackgroundInv, BackgroundTyped, OneAtATime, Agreed
<1>2. BackgroundInv /\ [BackgroundNext]_backgroundVars => BackgroundInv'
  <2> SUFFICES ASSUME BackgroundInv, [BackgroundNext]_backgroundVars PROVE BackgroundInv'
    OBVIOUS
  <2>1. CASE UNCHANGED backgroundVars
    <3>1. UNCHANGED <<background, view, calls, overlapped>>
      BY <2>1 DEF backgroundVars, uploads
    <3> QED
      BY <3>1, CaptureKeeps DEF BackgroundInv, BackgroundTyped
  <2>2. ASSUME NEW image \in Images, NEW b \in BOOLEAN, ChooseImage(image, b)
        PROVE  BackgroundInv'
    BY <2>2, UploadKeeps DEF ChooseImage
  <2>3. CASE BackgroundNext
    BY <2>2, <2>3, ClearKeeps, ServeKeeps, AnswerKeeps, CaptureStepKeeps, FrameKeeps DEF BackgroundNext
  <2> QED
    BY <2>1, <2>3
<1>3. BackgroundInv => BackgroundIsOnDisk
  BY DEF BackgroundInv, OneAtATime, BackgroundIsOnDisk, Quiet, Agreed
<1> QED
  BY <1>1, <1>2, <1>3, PTL DEF BackgroundSpec

-----------------------------------------------------------------------------
(***************************************************************************)
(* ProfileStore: profiles are whole, synced pages are saved, and no        *)
(* synchronisation replaces a profile, for any editors, Hubs and edits,    *)
(* while every process serves one request at a time.                       *)
(***************************************************************************)

OneThreadEach == \A i, j \in Slots : i = j

Contents == Docs \cup {Torn, NoFile}

StoreRequests ==
  [kind : {"none", "put", "starter", "import", "sync"},
   at : {"idle", "begin", "open", "write", "rename", "backed up", "link", "done", "failed"},
   target : Targets, doc : Docs \cup {NoFile}, save : Docs \cup {NoFile},
   fd : Files \cup {Closed}, close : BOOLEAN]

EditorPages ==
  [shown : BOOLEAN, over : BOOLEAN, doc : Docs \cup {NoFile}, dirty : BOOLEAN, saving : BOOLEAN,
   backup : BOOLEAN]

StoreTyped ==
  /\ file \in [Files -> Contents] /\ request \in [Requests -> StoreRequests]
  /\ studio \in [Editors -> EditorPages] /\ made \subseteq Edits /\ late \subseteq Editors
  /\ acked \in [Editors -> Docs \cup {NoFile}]

\* What a thread r of process p knows of its temporary file, in a file system fs.
TempFits(fs, p, r) ==
  /\ r.at \in {"open", "write", "rename"} => r.doc \in Docs
  /\ r.fd = IF r.at = "write" THEN <<p, r.target>> ELSE Closed
  /\ r.at = "write" => fs[<<p, r.target>>] = Torn
  /\ r.at = "rename" => fs[<<p, r.target>>] = r.doc
  /\ r.kind = "put" => r.save \in Docs
  /\ r.at = "backed up" => r.kind = "put"

\* What a page knows of its thread r.
ThreadFits(pg, r, isLate) ==
  r.at # "idle" =>
    /\ r.kind = "put" /\ r.save \in Docs /\ pg.shown /\ pg.saving
    /\ ~isLate => pg.doc = r.save

TempsFit == \A h \in Requests : TempFits(file, h[1], request[h])

Published == \A t \in Targets : file[<<Disk, t>>] # Torn

PagesFit ==
  \A e \in Editors :
    /\ studio[e].shown => studio[e].doc \in Docs /\ acked[e] \in Docs
    /\ studio[e].shown /\ ~studio[e].dirty /\ e \notin late => studio[e].doc = acked[e]

ThreadsFit ==
  \A h \in Requests : h[1] \in Editors => ThreadFits(studio[h[1]], request[h], h[1] \in late)

StoreInv == StoreTyped /\ TempsFit /\ Published /\ PagesFit /\ ThreadsFit

-----------------------------------------------------------------------------

\* Names of files and threads.
LEMMA StoreNames ==
  /\ \A p \in Procs : \A t \in Targets : <<p, t>> \in Files /\ <<Disk, t>> \in Files
  /\ \A p, q \in Procs : \A t, u \in Targets : <<p, t>> # <<Disk, u>> /\ <<p, t>> # Closed
                                             /\ (p # q => <<p, t>> # <<q, u>>)
  /\ \A t \in Targets : <<Disk, t>> # Closed
  /\ Profile \in Files /\ Backup \in Files /\ Variant \in Files
  /\ \A h \in Requests : h[1] \in Procs /\ h = <<h[1], h[2]>> /\ h[2] \in Slots
  /\ "profile" \in Targets /\ "backup" \in Targets /\ "variant" \in Targets
BY StoreProcesses DEF Files, Procs, Targets, Closed, Requests, Profile, Backup, Variant

\* A temporary file is not a published one, nor that of another process.
LEMMA FileNames ==
  ASSUME NEW p \in Procs, NEW t \in Targets, NEW u \in Targets
  PROVE  /\ <<p, t>> \in Files /\ <<Disk, t>> \in Files /\ <<p, t>> # <<Disk, u>>
         /\ \A q \in Procs \ {p} : <<q, t>> # <<p, u>>
BY StoreProcesses DEF Files, Procs

\* Threads of different names are threads of different processes.
LEMMA OneThread ==
  ASSUME OneThreadEach, NEW h \in Requests, NEW k \in Requests, h # k
  PROVE  h[1] # k[1]
<1>1. h = <<h[1], h[2]>> /\ k = <<k[1], k[2]>> /\ h[2] = k[2]
  BY StoreNames DEF OneThreadEach
<1> QED
  BY <1>1

\* A thread's step that leaves the pages alone.
LEMMA ThreadKeeps ==
  ASSUME StoreInv, OneThreadEach, NEW h \in Requests, NEW r \in StoreRequests,
         request' = [request EXCEPT ![h] = r], UNCHANGED <<studio, made, acked, late>>,
         file' \in [Files -> Contents], Published',
         \A p \in Procs \ {h[1]} : \A t \in Targets : file'[<<p, t>>] = file[<<p, t>>],
         TempFits(file', h[1], r),
         h[1] \in Editors /\ r.at # "idle" =>
           request[h].at # "idle" /\ r.kind = request[h].kind /\ r.save = request[h].save
  PROVE  StoreInv'
<1>1. StoreTyped'
  BY DEF StoreInv, StoreTyped
<1>2. request'[h] = r /\ \A k \in Requests \ {h} : request'[k] = request[k]
  BY DEF StoreInv, StoreTyped
<1>3. TempsFit'
  <2>1. ASSUME NEW k \in Requests, k # h PROVE TempFits(file', k[1], request'[k])
    <3>1. TempFits(file, k[1], request[k]) /\ request'[k] = request[k]
      BY <1>2, <2>1 DEF StoreInv, TempsFit
    <3>2. k[1] \in Procs \ {h[1]} /\ request[k].target \in Targets
      BY <2>1, OneThread, StoreNames DEF StoreInv, StoreTyped, StoreRequests
    <3>3. file'[<<k[1], request[k].target>>] = file[<<k[1], request[k].target>>]
      BY <3>2
    <3> QED
      BY <3>1, <3>3 DEF TempFits
  <2> QED
    BY <1>2, <2>1 DEF TempsFit
<1>4. PagesFit'
  BY DEF StoreInv, PagesFit
<1>5. ThreadsFit'
  BY <1>2 DEF StoreInv, ThreadsFit, ThreadFits
<1> QED
  BY <1>1, <1>3, <1>4, <1>5 DEF StoreInv

\* What is published is not torn, and a step that does not touch it leaves it so.
LEMMA StaysPublished ==
  ASSUME StoreInv, NEW p \in Procs, NEW t \in Targets, NEW c, file' = [file EXCEPT ![<<p, t>>] = c]
  PROVE  /\ Published' /\ file'[<<p, t>>] = c
         /\ \A q \in Procs \ {p} : \A u \in Targets : file'[<<q, u>>] = file[<<q, u>>]
<1>1. file \in [Files -> Contents] /\ <<p, t>> \in Files
  BY StoreNames DEF StoreInv, StoreTyped
<1>2. \A f \in Files : f # <<p, t>> => file'[f] = file[f]
  BY <1>1
<1>3. \A u \in Targets : <<Disk, u>> \in Files /\ <<Disk, u>> # <<p, t>>
  BY StoreNames
<1>4. \A q \in Procs \ {p} : \A u \in Targets : <<q, u>> \in Files /\ <<q, u>> # <<p, t>>
  BY StoreNames
<1>5. Published'
  BY <1>2, <1>3 DEF StoreInv, Published
<1> QED
  BY <1>1, <1>2, <1>4, <1>5

\* A thread's record, field by field.
LEMMA RequestFields ==
  ASSUME StoreInv, NEW h \in Requests
  PROVE  /\ request[h] \in StoreRequests /\ request[h].doc \in Docs \cup {NoFile}
         /\ request[h].target \in Targets /\ request[h].save \in Docs \cup {NoFile}
         /\ TempFits(file, h[1], request[h]) /\ h[1] \in Procs
         /\ file \in [Files -> Contents] /\ request \in [Requests -> StoreRequests]
BY StoreNames DEF StoreInv, StoreTyped, StoreRequests, TempsFit

\* The temporary file is emptied or made.
LEMMA OpenTemporaryKeeps ==
  ASSUME StoreInv, OneThreadEach, NEW h \in Requests, OpenTemporary(h)
  PROVE  StoreInv'
<1>1. PICK t : t = request[h]
  OBVIOUS
<1>2. /\ t \in StoreRequests /\ t.at = "open" /\ t.target \in Targets /\ t.doc \in Docs
      /\ h[1] \in Procs /\ t.fd = Closed /\ file \in [Files -> Contents]
      /\ (t.kind = "put" => t.save \in Docs)
  BY <1>1, RequestFields DEF OpenTemporary, TempFits
<1>3. PICK f : f = <<h[1], t.target>> /\ f \in Files /\ f = TempOf(h)
  BY <1>1, <1>2, StoreNames DEF TempOf, Temporary
<1>4. UNCHANGED <<studio, made, acked, late>>
  BY DEF OpenTemporary, NoPage
<1>5. CASE /\ file' = [file EXCEPT ![TempOf(h)] = Torn]
           /\ request' = [request EXCEPT ![h].at = "write", ![h].fd = TempOf(h)]
  <2>1. PICK r : r = [t EXCEPT !.at = "write", !.fd = f]
    OBVIOUS
  <2>2. r \in StoreRequests /\ r.at = "write" /\ r.fd = f /\ r.target = t.target /\ r.doc = t.doc
          /\ r.kind = t.kind /\ r.save = t.save
    BY <1>2, <1>3, <2>1 DEF StoreRequests
  <2>3. request' = [request EXCEPT ![h] = r]
    BY <1>1, <1>3, <1>5, <2>1
  <2>4. file' = [file EXCEPT ![<<h[1], t.target>>] = Torn] /\ file' \in [Files -> Contents]
    BY <1>2, <1>3, <1>5 DEF Contents
  <2>5. Published' /\ file'[<<h[1], t.target>>] = Torn
          /\ \A q \in Procs \ {h[1]} : \A u \in Targets : file'[<<q, u>>] = file[<<q, u>>]
    BY <1>2, <2>4, StaysPublished
  <2>6. TempFits(file', h[1], r)
    BY <1>2, <1>3, <2>2, <2>5 DEF TempFits
  <2> QED
    BY <1>1, <1>2, <1>4, <2>2, <2>3, <2>4, <2>5, <2>6, ThreadKeeps
<1>6. CASE Go(h, "failed") /\ UNCHANGED file
  <2>1. PICK r : r = [t EXCEPT !.at = "failed"]
    OBVIOUS
  <2>2. r \in StoreRequests /\ r.at = "failed" /\ r.fd = t.fd /\ r.kind = t.kind /\ r.save = t.save
    BY <1>2, <2>1 DEF StoreRequests
  <2>3. request' = [request EXCEPT ![h] = r]
    BY <1>1, <1>6, <2>1 DEF Go
  <2>4. TempFits(file', h[1], r)
    BY <1>2, <2>2 DEF TempFits
  <2> QED
    BY <1>1, <1>2, <1>4, <1>6, <2>2, <2>3, <2>4, ThreadKeeps DEF StoreInv, Published
<1> QED
  BY <1>5, <1>6 DEF OpenTemporary

\* The document is written to it, as the file is the thread's own.
LEMMA WriteTemporaryKeeps ==
  ASSUME StoreInv, OneThreadEach, NEW h \in Requests, WriteTemporary(h)
  PROVE  StoreInv'
<1>1. PICK t : t = request[h]
  OBVIOUS
<1>2. /\ t \in StoreRequests /\ t.at = "write" /\ t.target \in Targets /\ t.doc \in Docs
      /\ h[1] \in Procs /\ t.fd = <<h[1], t.target>> /\ file \in [Files -> Contents]
      /\ file[<<h[1], t.target>>] = Torn /\ (t.kind = "put" => t.save \in Docs)
  BY <1>1, RequestFields DEF WriteTemporary, TempFits
<1>3. t.fd # Closed /\ Closed \in Files \cup {Closed}
  BY <1>2, StoreNames
<1>4. UNCHANGED <<studio, made, acked, late>>
  BY DEF WriteTemporary, NoPage
<1>5. CASE /\ file' = [file EXCEPT ![t.fd] = t.doc]
           /\ request' = [request EXCEPT ![h].at = "rename", ![h].fd = Closed]
  <2>1. PICK r : r = [t EXCEPT !.at = "rename", !.fd = Closed]
    OBVIOUS
  <2>2. r \in StoreRequests /\ r.at = "rename" /\ r.fd = Closed /\ r.target = t.target
          /\ r.doc = t.doc /\ r.kind = t.kind /\ r.save = t.save
    BY <1>2, <1>3, <2>1 DEF StoreRequests
  <2>3. request' = [request EXCEPT ![h] = r]
    BY <1>1, <1>5, <2>1
  <2>4. file' = [file EXCEPT ![<<h[1], t.target>>] = t.doc] /\ file' \in [Files -> Contents]
    BY <1>2, <1>5 DEF Contents
  <2>5. Published' /\ file'[<<h[1], t.target>>] = t.doc
          /\ \A q \in Procs \ {h[1]} : \A u \in Targets : file'[<<q, u>>] = file[<<q, u>>]
    BY <1>2, <2>4, StaysPublished
  <2>6. TempFits(file', h[1], r)
    BY <1>2, <2>2, <2>5 DEF TempFits
  <2> QED
    BY <1>1, <1>2, <1>4, <2>2, <2>3, <2>4, <2>5, <2>6, ThreadKeeps
<1>6. CASE /\ UNCHANGED file
           /\ request' = [request EXCEPT ![h].at = "failed", ![h].fd = Closed]
  <2>1. PICK r : r = [t EXCEPT !.at = "failed", !.fd = Closed]
    OBVIOUS
  <2>2. r \in StoreRequests /\ r.at = "failed" /\ r.fd = Closed /\ r.kind = t.kind /\ r.save = t.save
    BY <1>2, <1>3, <2>1 DEF StoreRequests
  <2>3. request' = [request EXCEPT ![h] = r]
    BY <1>1, <1>6, <2>1
  <2>4. TempFits(file', h[1], r)
    BY <1>2, <2>2 DEF TempFits
  <2> QED
    <3>1. /\ file' \in [Files -> Contents] /\ Published'
          /\ \A q \in Procs \ {h[1]} : \A u \in Targets : file'[<<q, u>>] = file[<<q, u>>]
      BY <1>2, <1>6 DEF StoreInv, Published
    <3>2. request[h].at # "idle" /\ r.kind = request[h].kind /\ r.save = request[h].save
      BY <1>1, <1>2, <2>2
    <3> QED
      BY <1>4, <2>2, <2>3, <2>4, <3>1, <3>2, ThreadKeeps
<1> QED
  BY <1>1, <1>2, <1>3, <1>5, <1>6 DEF WriteTemporary

\* No thread writes to a file that is renamed.
LEMMA NobodyFollows ==
  ASSUME StoreInv, OneThreadEach, NEW h \in Requests, request[h].at = "rename", NEW g,
         g \in {<<Disk, request[h].target>>, Closed}
  PROVE  Follow(TempOf(h), g) = request
<1>1. ASSUME NEW k \in Requests
      PROVE  request[k].fd # TempOf(h) /\ (request[k].fd = g => g = Closed)
  <2>1. /\ request[h].target \in Targets /\ request[h].fd = Closed /\ h[1] \in Procs
    BY RequestFields DEF TempFits
  <2>2. /\ request[k].target \in Targets /\ k[1] \in Procs
        /\ request[k].fd = IF request[k].at = "write" THEN <<k[1], request[k].target>> ELSE Closed
    BY RequestFields DEF TempFits
  <2>3. TempOf(h) = <<h[1], request[h].target>> /\ TempOf(h) # Closed
    BY <2>1, StoreNames DEF TempOf, Temporary
  <2>4. CASE k = h
    BY <2>1, <2>3, <2>4, StoreNames
  <2>5. CASE k # h
    <3>1. k[1] # h[1]
      BY <2>5, OneThread
    <3>2. <<k[1], request[k].target>> # <<h[1], request[h].target>>
            /\ <<k[1], request[k].target>> # Closed
            /\ <<k[1], request[k].target>> # <<Disk, request[h].target>>
      BY <2>1, <2>2, <3>1, StoreNames
    <3>3. <<Disk, request[h].target>> # Closed
      BY <2>1, StoreNames
    <3> QED
      BY <2>2, <2>3, <3>2, <3>3
  <2> QED
    BY <2>4, <2>5
<1>2. ASSUME NEW k \in Requests
      PROVE  Follow(TempOf(h), g)[k] = request[k]
  <2>1. CASE request[k].fd = g
    <3>1. g = Closed /\ [request[k] EXCEPT !.fd = Closed] = request[k]
      BY <1>1, <2>1, RequestFields DEF StoreRequests
    <3> QED
      BY <1>1, <2>1, <3>1 DEF Follow
  <2>2. CASE request[k].fd # g
    BY <1>1, <2>2 DEF Follow
  <2> QED
    BY <2>1, <2>2
<1>3. request = [k \in Requests |-> request[k]]
  BY DEF StoreInv, StoreTyped
<1>4. Follow(TempOf(h), g) = [k \in Requests |-> Follow(TempOf(h), g)[k]]
  BY DEF Follow
<1> QED
  BY <1>2, <1>3, <1>4

\* The temporary file is renamed over its target, or removed.
LEMMA RenameTemporaryKeeps ==
  ASSUME StoreInv, OneThreadEach, NEW h \in Requests, RenameTemporary(h)
  PROVE  StoreInv'
<1>1. PICK t : t = request[h]
  OBVIOUS
<1>2. /\ t \in StoreRequests /\ t.at = "rename" /\ t.target \in Targets /\ t.doc \in Docs
      /\ h[1] \in Procs /\ t.fd = Closed /\ file \in [Files -> Contents]
      /\ file[<<h[1], t.target>>] = t.doc /\ TempFits(file, h[1], t)
  BY <1>1, RequestFields DEF RenameTemporary, TempFits
<1>3. PICK f : f = <<h[1], t.target>> /\ f \in Files /\ f = TempOf(h)
  BY <1>1, <1>2, StoreNames DEF TempOf, Temporary
<1>4. PICK g : g = <<Disk, t.target>> /\ g \in Files /\ g # f
  <2>1. <<Disk, t.target>> \in Files /\ <<Disk, t.target>> # f
    BY <1>2, <1>3, FileNames
  <2> QED
    BY <2>1
<1>5. Follow(TempOf(h), g) = request /\ Follow(TempOf(h), Closed) = request
  BY <1>1, <1>2, <1>4, NobodyFollows
<1>6. UNCHANGED <<studio, made, acked, late>>
  BY DEF RenameTemporary, NoPage
<1>7. Torn \notin Docs /\ NoFile # Torn
  BY StoreContents DEF Docs
<1>8. \A q \in Procs \ {h[1]} : \A u \in Targets :
        <<q, u>> \in Files /\ <<q, u>> # f /\ <<q, u>> # g
  BY <1>2, <1>3, <1>4, FileNames
<1>9. \A u \in Targets : <<Disk, u>> \in Files /\ <<Disk, u>> # f
  BY <1>2, <1>3, FileNames
<1>10. CASE /\ file' = [file EXCEPT ![g] = file[f], ![f] = NoFile]
            /\ request' = [Follow(TempOf(h), g) EXCEPT ![h].at = AfterRename(h)]
  <2>1. PICK r : r = [t EXCEPT !.at = AfterRename(h)]
    OBVIOUS
  <2>2. AfterRename(h) \in {"backed up", "done"}
          /\ (AfterRename(h) = "backed up" => t.kind = "put")
    BY <1>1 DEF AfterRename
  <2>3. r \in StoreRequests /\ r.at = AfterRename(h) /\ r.fd = t.fd /\ r.kind = t.kind
          /\ r.save = t.save
    BY <1>2, <2>1, <2>2 DEF StoreRequests
  <2>4. request' = [request EXCEPT ![h] = r]
    BY <1>1, <1>5, <1>10, <2>1
  <2>5. file' \in [Files -> Contents] /\ file'[g] = t.doc
          /\ \A x \in Files \ {f, g} : file'[x] = file[x]
    BY <1>2, <1>3, <1>4, <1>10 DEF Contents
  <2>6. Published'
    BY <1>2, <1>7, <1>9, <2>5 DEF StoreInv, Published
  <2>7. \A q \in Procs \ {h[1]} : \A u \in Targets : file'[<<q, u>>] = file[<<q, u>>]
    BY <1>8, <2>5
  <2>8. TempFits(file', h[1], r)
    BY <1>2, <2>2, <2>3 DEF TempFits
  <2> QED
    BY <1>1, <1>2, <1>6, <2>3, <2>4, <2>5, <2>6, <2>7, <2>8, ThreadKeeps
<1>11. CASE /\ file' = [file EXCEPT ![f] = NoFile]
            /\ request' = [Follow(TempOf(h), Closed) EXCEPT ![h].at = "failed"]
  <2>1. PICK r : r = [t EXCEPT !.at = "failed"]
    OBVIOUS
  <2>2. r \in StoreRequests /\ r.at = "failed" /\ r.fd = t.fd /\ r.kind = t.kind
          /\ r.save = t.save
    BY <1>2, <2>1 DEF StoreRequests
  <2>3. request' = [request EXCEPT ![h] = r]
    BY <1>1, <1>5, <1>11, <2>1
  <2>4. file' = [file EXCEPT ![<<h[1], t.target>>] = NoFile] /\ file' \in [Files -> Contents]
    BY <1>2, <1>3, <1>11 DEF Contents
  <2>5. Published' /\ \A q \in Procs \ {h[1]} : \A u \in Targets : file'[<<q, u>>] = file[<<q, u>>]
    BY <1>2, <2>4, StaysPublished
  <2>6. TempFits(file', h[1], r)
    BY <1>2, <2>2 DEF TempFits
  <2> QED
    BY <1>1, <1>2, <1>6, <2>2, <2>3, <2>4, <2>5, <2>6, ThreadKeeps
<1> QED
  BY <1>1, <1>3, <1>4, <1>10, <1>11 DEF RenameTemporary

\* A thread moves on, and its temporary file stays as it is.
LEMMA GoKeepsStore ==
  ASSUME StoreInv, OneThreadEach, NEW h \in Requests, request[h].at \in {"begin", "link"},
         NEW at \in {"done", "failed", "link"}, Go(h, at), UNCHANGED <<studio, made, acked, late>>,
         file' \in [Files -> Contents], Published',
         \A p \in Procs : \A t \in Targets : file'[<<p, t>>] = file[<<p, t>>]
  PROVE  StoreInv'
<1>1. PICK t : t = request[h]
  OBVIOUS
<1>2. /\ t \in StoreRequests /\ t.at \in {"begin", "link"} /\ h[1] \in Procs
      /\ TempFits(file, h[1], t)
  BY <1>1, RequestFields
<1>3. PICK r : r = [t EXCEPT !.at = at]
  OBVIOUS
<1>4. r \in StoreRequests /\ r.at = at /\ r.fd = t.fd /\ r.kind = t.kind /\ r.save = t.save
  BY <1>2, <1>3 DEF StoreRequests
<1>5. request' = [request EXCEPT ![h] = r]
  BY <1>1, <1>3 DEF Go
<1>6. TempFits(file', h[1], r)
  BY <1>2, <1>4 DEF TempFits
<1> QED
  BY <1>1, <1>2, <1>4, <1>5, <1>6, ThreadKeeps

\* A thread has a document to write.
LEMMA StageForKeeps ==
  ASSUME StoreInv, OneThreadEach, NEW h \in Requests, request[h].at \in {"begin", "backed up"},
         NEW target \in Targets, NEW text \in Docs, StageFor(h, target, text),
         UNCHANGED <<file, studio, made, acked, late>>
  PROVE  StoreInv'
<1>1. PICK t : t = request[h]
  OBVIOUS
<1>2. /\ t \in StoreRequests /\ t.at \in {"begin", "backed up"} /\ h[1] \in Procs
      /\ TempFits(file, h[1], t) /\ file \in [Files -> Contents]
  BY <1>1, RequestFields
<1>3. PICK r : r = [t EXCEPT !.at = "open", !.target = target, !.doc = text]
  OBVIOUS
<1>4. /\ r \in StoreRequests /\ r.at = "open" /\ r.fd = t.fd /\ r.kind = t.kind
      /\ r.save = t.save /\ r.doc = text
  BY <1>2, <1>3 DEF StoreRequests
<1>5. request' = [request EXCEPT ![h] = r]
  BY <1>1, <1>3 DEF StageFor
<1>6. TempFits(file', h[1], r)
  BY <1>2, <1>4 DEF TempFits
<1> QED
  BY <1>1, <1>2, <1>4, <1>5, <1>6, ThreadKeeps DEF StoreInv, Published

\* A thread that is idle, and one that begins.
LEMMA IdleFits ==
  /\ Idle \in StoreRequests
  /\ \A fs : \A p : TempFits(fs, p, Idle)
  /\ \A pg : \A l : ThreadFits(pg, Idle, l)
BY DEF Idle, StoreRequests, Targets, TempFits, Closed, ThreadFits

\* A thread that begins.
LEMMA BegunFits ==
  ASSUME StoreInv, NEW h \in Requests, NEW kind \in {"put", "starter", "import", "sync"},
         NEW save \in Docs, NEW close \in BOOLEAN, Start(h, kind, save, close)
  PROVE  \E r \in StoreRequests :
           /\ request' = [request EXCEPT ![h] = r] /\ r.at = "begin" /\ r.kind = kind
           /\ r.save = save /\ request[h].at = "idle"
           /\ \A fs : \A p : TempFits(fs, p, r)
<1>1. PICK r : r = [kind |-> kind, at |-> "begin", target |-> "profile", doc |-> NoFile,
                    save |-> save, fd |-> <<Disk, "none">>, close |-> close]
  OBVIOUS
<1>2. r = [Idle EXCEPT !.kind = kind, !.at = "begin", !.save = save, !.close = close]
  <2>1. PICK a : a = [Idle EXCEPT !.kind = kind]
    OBVIOUS
  <2>2. a = [kind |-> kind, at |-> "idle", target |-> "profile", doc |-> NoFile,
             save |-> NoFile, fd |-> <<Disk, "none">>, close |-> FALSE]
    BY <2>1 DEF Idle
  <2>3. PICK b : b = [a EXCEPT !.at = "begin"]
    OBVIOUS
  <2>4. b = [kind |-> kind, at |-> "begin", target |-> "profile", doc |-> NoFile,
             save |-> NoFile, fd |-> <<Disk, "none">>, close |-> FALSE]
    BY <2>2, <2>3
  <2>5. PICK c : c = [b EXCEPT !.save = save]
    OBVIOUS
  <2>6. c = [kind |-> kind, at |-> "begin", target |-> "profile", doc |-> NoFile,
             save |-> save, fd |-> <<Disk, "none">>, close |-> FALSE]
    BY <2>4, <2>5
  <2>7. r = [c EXCEPT !.close = close]
    BY <1>1, <2>6
  <2> QED
    BY <2>1, <2>3, <2>5, <2>7
<1>3. request' = [request EXCEPT ![h] = r] /\ request[h].at = "idle"
  BY <1>2 DEF Start, Idle
<1>4. r \in StoreRequests
  BY <1>1 DEF StoreRequests, Targets, Closed
<1>5. \A fs : \A p : TempFits(fs, p, r)
  BY <1>1 DEF TempFits, Closed
<1>6. r.at = "begin" /\ r.kind = kind /\ r.save = save
  BY <1>1
<1> QED
  BY <1>3, <1>4, <1>5, <1>6

\* A Hub's thread begins.
LEMMA HubStarts ==
  ASSUME StoreInv, OneThreadEach, NEW h \in Hubs \X Slots,
         NEW kind \in {"starter", "import", "sync"}, NEW save \in Docs,
         Start(h, kind, save, FALSE), UNCHANGED <<file, studio, made, acked, late>>
  PROVE  StoreInv'
<1>1. h \in Requests /\ h[1] \notin Editors /\ h[1] \in Procs
  BY StoreProcesses DEF Requests, Procs
<1>2. PICK r \in StoreRequests :
        /\ request' = [request EXCEPT ![h] = r] /\ \A fs : \A p : TempFits(fs, p, r)
  <2>1. kind \in {"put", "starter", "import", "sync"}
    OBVIOUS
  <2>2. PICK c : c = FALSE
    OBVIOUS
  <2>3. c \in BOOLEAN /\ Start(h, kind, save, c)
    BY <2>2, Zenon
  <2> QED
    BY <1>1, <2>1, <2>3, BegunFits
<1>3. TempFits(file', h[1], r)
  BY <1>2
<1> QED
  BY <1>1, <1>2, <1>3, ThreadKeeps DEF StoreInv, StoreTyped, Published

\* Threads end, without having said anything to a page.
LEMMA ThreadsEnd ==
  ASSUME StoreInv, NEW gone \in SUBSET Requests,
         request' = [k \in Requests |-> IF k \in gone THEN Idle ELSE request[k]], UNCHANGED file
  PROVE  /\ request' \in [Requests -> StoreRequests] /\ TempsFit'
         /\ \A k \in Requests : request'[k] = IF k \in gone THEN Idle ELSE request[k]
BY IdleFits DEF StoreInv, StoreTyped, TempsFit

\* A Hub's threads end with it, or answer.
LEMMA HubThreadsEnd ==
  ASSUME StoreInv, NEW gone \in SUBSET Requests,
         request' = [k \in Requests |-> IF k \in gone THEN Idle ELSE request[k]],
         UNCHANGED <<file, studio, made, acked, late>>
  PROVE  StoreInv'
<1>1. /\ request' \in [Requests -> StoreRequests] /\ TempsFit'
      /\ \A k \in Requests : request'[k] = Idle \/ request'[k] = request[k]
  BY ThreadsEnd
<1>2. StoreTyped' /\ Published' /\ PagesFit'
  BY <1>1 DEF StoreInv, StoreTyped, Published, PagesFit
<1>3. ThreadsFit'
  BY <1>1, IdleFits DEF StoreInv, ThreadsFit, ThreadFits
<1> QED
  BY <1>1, <1>2, <1>3 DEF StoreInv

\* What concerns the threads of the Hubs only.
LEMMA HubStepKeeps ==
  ASSUME StoreInv, OneThreadEach, NEW h \in Hubs \X Slots,
         HubOpens(h) \/ InstallStarter(h) \/ Import(h) \/ CheckImport(h) \/ Sync(h)
         \/ StageVariant(h) \/ LinkVariant(h) \/ HubReplies(h)
  PROVE  StoreInv'
<1>1. h \in Requests /\ h[1] \notin Editors /\ h[1] \in Procs
  BY StoreProcesses DEF Requests, Procs
<1>2. {Current, Imported, Derived} \subseteq Docs /\ {"profile", "variant"} \subseteq Targets
  BY DEF Docs, Targets
<1>3. CASE HubOpens(h)
  BY <1>2, <1>3, HubStarts DEF HubOpens
<1>4. CASE Import(h)
  BY <1>2, <1>4, HubStarts DEF Import, NoPage
<1>5. CASE Sync(h)
  BY <1>2, <1>5, HubStarts DEF Sync, NoPage
<1>6. /\ file \in [Files -> Contents] /\ Published
      /\ (UNCHANGED file => file' \in [Files -> Contents] /\ Published')
  BY DEF StoreInv, StoreTyped, Published
<1>7. CASE InstallStarter(h)
  <2>1. UNCHANGED <<file, studio, made, acked, late>> /\ request[h].at = "begin"
    BY <1>7 DEF InstallStarter, NoPage
  <2>2. StageFor(h, "profile", Current) \/ Go(h, "done")
    BY <1>7 DEF InstallStarter
  <2> QED
    BY <1>1, <1>2, <1>6, <2>1, <2>2, StageForKeeps, GoKeepsStore
<1>8. CASE CheckImport(h)
  <2>1. UNCHANGED <<file, studio, made, acked, late>> /\ request[h].at = "begin"
    BY <1>8 DEF CheckImport, NoPage
  <2>2. StageFor(h, "variant", Imported) \/ Go(h, "failed")
    BY <1>8 DEF CheckImport
  <2> QED
    BY <1>1, <1>2, <1>6, <2>1, <2>2, StageForKeeps, GoKeepsStore
<1>9. CASE StageVariant(h)
  <2>1. UNCHANGED <<file, studio, made, acked, late>> /\ request[h].at = "begin"
    BY <1>9 DEF StageVariant, NoPage
  <2>2. Go(h, "link") \/ Go(h, "done")
    BY <1>9 DEF StageVariant
  <2> QED
    BY <1>1, <1>6, <2>1, <2>2, GoKeepsStore
<1>10. CASE LinkVariant(h)
  <2>1. UNCHANGED <<studio, made, acked, late>> /\ request[h].at = "link" /\ Go(h, "done")
    BY <1>10 DEF LinkVariant, NoPage
  <2>2. Variant \in Files /\ file[Variant] # Torn /\ Variant = <<Disk, "variant">>
    BY <1>6, StoreNames DEF Published, Variant
  <2>3. Derived \in Contents /\ Derived # Torn
    BY StoreContents DEF Contents, Docs
  <2>4. PICK c \in Contents : c # Torn /\ file' = [file EXCEPT ![Variant] = c]
    <3>1. UNCHANGED file \/ file' = [file EXCEPT ![Variant] = IF file[Variant] = NoFile THEN Derived ELSE file[Variant]]
      BY <1>10 DEF LinkVariant
    <3>2. UNCHANGED file => file' = [file EXCEPT ![Variant] = file[Variant]]
      BY <1>6
    <3>3. file[Variant] \in Contents
      BY <1>6, <2>2
    <3> QED
      BY <2>2, <2>3, <3>1, <3>2, <3>3
  <2>5. file' \in [Files -> Contents]
    BY <1>6, <2>4
  <2>6. Published'
    <3>1. ASSUME NEW t \in Targets PROVE file'[<<Disk, t>>] # Torn
      BY <1>1, <1>6, <2>2, <2>4, <3>1, FileNames DEF Published
    <3> QED
      BY <3>1 DEF Published
  <2>7. \A p \in Procs : \A t \in Targets : file'[<<p, t>>] = file[<<p, t>>]
    <3>1. ASSUME NEW p \in Procs, NEW t \in Targets PROVE file'[<<p, t>>] = file[<<p, t>>]
      <4>1. <<p, t>> \in Files /\ <<p, t>> # Variant
        BY <1>2, <2>2, FileNames
      <4> QED
        BY <1>6, <2>4, <4>1
    <3> QED
      BY <3>1
  <2> QED
    BY <1>1, <2>1, <2>5, <2>6, <2>7, GoKeepsStore
<1>11. CASE HubReplies(h)
  <2>1. request' = [k \in Requests |-> IF k \in {h} THEN Idle ELSE request[k]]
    BY <1>1, <1>11 DEF HubReplies, StoreInv, StoreTyped
  <2> QED
    BY <1>1, <1>11, <2>1, HubThreadsEnd DEF HubReplies
<1> QED
  BY <1>3, <1>4, <1>5, <1>7, <1>8, <1>9, <1>10, <1>11

\* A Hub ends.
LEMMA HubEndsKeeps ==
  ASSUME StoreInv, NEW p \in Hubs, HubEnds(p)
  PROVE  StoreInv'
<1>1. request' = [k \in Requests |-> IF k \in {h \in Requests : h[1] = p} THEN Idle ELSE request[k]]
  BY DEF HubEnds
<1> QED
  BY <1>1, HubThreadsEnd DEF HubEnds

\* A save that finds the profile as it is, or makes a backup of it first.
LEMMA LoadCurrentKeeps ==
  ASSUME StoreInv, OneThreadEach, NEW h \in Requests, LoadCurrent(h)
  PROVE  StoreInv'
<1>1. UNCHANGED <<file, studio, made, acked, late>> /\ request[h].at = "begin"
  BY DEF LoadCurrent, NoPage
<1>2. \/ Go(h, "failed") \/ Go(h, "done")
      \/ Whole(Profile) /\ StageFor(h, "backup", file[Profile])
  BY DEF LoadCurrent
<1>3. "backup" \in Targets
  BY DEF Targets
<1>4. file' \in [Files -> Contents] /\ Published'
        /\ \A p \in Procs : \A t \in Targets : file'[<<p, t>>] = file[<<p, t>>]
  BY <1>1 DEF StoreInv, StoreTyped, Published
<1> QED
  BY <1>1, <1>2, <1>3, <1>4, GoKeepsStore, StageForKeeps DEF Whole

\* ... and then writes the document it has been sent.
LEMMA SaveNextKeeps ==
  ASSUME StoreInv, OneThreadEach, NEW h \in Requests, SaveNext(h)
  PROVE  StoreInv'
<1>1. UNCHANGED <<file, studio, made, acked, late>> /\ request[h].at = "backed up"
        /\ StageFor(h, "profile", request[h].save)
  BY DEF SaveNext, NoPage
<1>2. request[h].save \in Docs /\ "profile" \in Targets
  BY <1>1, RequestFields DEF TempFits, Targets
<1> QED
  BY <1>1, <1>2, StageForKeeps

-----------------------------------------------------------------------------

\* A page changes, as its thread allows.
LEMMA PageKeeps ==
  ASSUME StoreInv, NEW e \in Editors, NEW pg \in EditorPages, studio' = [studio EXCEPT ![e] = pg],
         UNCHANGED file, request' \in [Requests -> StoreRequests], TempsFit',
         made' \subseteq Edits, late' \subseteq Editors, acked' \in [Editors -> Docs \cup {NoFile}],
         \A x \in Editors \ {e} : acked'[x] = acked[x] /\ (x \in late' <=> x \in late),
         \A h \in Requests : h[1] # e => request'[h] = request[h],
         pg.shown => pg.doc \in Docs /\ acked'[e] \in Docs,
         pg.shown /\ ~pg.dirty /\ e \notin late' => pg.doc = acked'[e],
         \A h \in Requests : h[1] = e => ThreadFits(pg, request'[h], e \in late')
  PROVE  StoreInv'
<1>1. studio \in [Editors -> EditorPages] /\ studio' \in [Editors -> EditorPages]
        /\ studio'[e] = pg /\ \A x \in Editors \ {e} : studio'[x] = studio[x]
  BY DEF StoreInv, StoreTyped
<1>2. StoreTyped' /\ Published'
  BY <1>1 DEF StoreInv, StoreTyped, Published
<1>3. PagesFit'
  <2>1. ASSUME NEW x \in Editors
        PROVE  /\ studio'[x].shown => studio'[x].doc \in Docs /\ acked'[x] \in Docs
               /\ studio'[x].shown /\ ~studio'[x].dirty /\ x \notin late' => studio'[x].doc = acked'[x]
    BY <1>1 DEF StoreInv, PagesFit
  <2> QED
    BY <2>1 DEF PagesFit
<1>4. ThreadsFit'
  <2>1. ASSUME NEW h \in Requests, h[1] \in Editors
        PROVE  ThreadFits(studio'[h[1]], request'[h], h[1] \in late')
    <3>1. CASE h[1] = e
      BY <1>1, <3>1
    <3>2. CASE h[1] # e
      BY <1>1, <2>1, <3>2 DEF StoreInv, ThreadsFit, ThreadFits
    <3> QED
      BY <3>1, <3>2
  <2> QED
    BY <2>1 DEF ThreadsFit
<1> QED
  BY <1>2, <1>3, <1>4 DEF StoreInv

\* A page, field by field.
LEMMA EditorPageFields ==
  ASSUME StoreInv, NEW e \in Editors
  PROVE  /\ studio[e] \in EditorPages /\ studio[e].shown \in BOOLEAN /\ studio[e].over \in BOOLEAN
         /\ studio[e].doc \in Docs \cup {NoFile} /\ studio[e].dirty \in BOOLEAN
         /\ studio[e].saving \in BOOLEAN /\ studio[e].backup \in BOOLEAN
         /\ studio[e] = [shown |-> studio[e].shown, over |-> studio[e].over, doc |-> studio[e].doc,
                         dirty |-> studio[e].dirty, saving |-> studio[e].saving,
                         backup |-> studio[e].backup]
         /\ (studio[e].shown => studio[e].doc \in Docs /\ acked[e] \in Docs)
         /\ (studio[e].shown /\ ~studio[e].dirty /\ e \notin late => studio[e].doc = acked[e])
         /\ acked \in [Editors -> Docs \cup {NoFile}] /\ made \subseteq Edits /\ late \subseteq Editors
         /\ \A h \in Requests : h[1] = e => ThreadFits(studio[e], request[h], e \in late)
         /\ request \in [Requests -> StoreRequests] /\ TempsFit
BY DEF StoreInv, StoreTyped, EditorPages, PagesFit, ThreadsFit

\* A page is opened; it has no thread.
LEMMA BootKeeps ==
  ASSUME StoreInv, NEW e \in Editors, Boot(e)
  PROVE  StoreInv'
<1>1. PICK d \in Docs : d = file[Profile]
  BY DEF Boot, Whole
<1>2. PICK b \in BOOLEAN : b = Whole(Backup)
  <2>1. Whole(Backup) \in BOOLEAN
    BY DEF Whole
  <2> QED
    BY <2>1, Zenon
<1>3. PICK p1 : p1 = [studio[e] EXCEPT !.shown = TRUE]
  OBVIOUS
<1>31. p1 \in EditorPages /\ p1.shown
  BY <1>3, EditorPageFields DEF EditorPages
<1>32. PICK p2 : p2 = [p1 EXCEPT !.doc = d]
  OBVIOUS
<1>33. p2 \in EditorPages /\ p2.shown /\ p2.doc = d
  BY <1>31, <1>32 DEF EditorPages
<1>34. PICK pg : pg = [p2 EXCEPT !.backup = b]
  OBVIOUS
<1>4. pg \in EditorPages /\ pg.shown /\ pg.doc = d
  BY <1>33, <1>34 DEF EditorPages
<1>5. studio' = [studio EXCEPT ![e] = pg]
  BY <1>1, <1>2, <1>3, <1>32, <1>34 DEF Boot
<1>6. /\ acked' = [acked EXCEPT ![e] = d] /\ UNCHANGED <<file, request, made, late>>
      /\ ~studio[e].saving
  BY <1>1 DEF Boot, NoPageYet
<1>7. \A h \in Requests : h[1] = e => request[h].at = "idle"
  BY <1>6, EditorPageFields DEF ThreadFits
<1>8. \A h \in Requests : h[1] = e => ThreadFits(pg, request'[h], e \in late')
  BY <1>6, <1>7 DEF ThreadFits
<1>9. acked' \in [Editors -> Docs \cup {NoFile}] /\ acked'[e] = d
        /\ \A x \in Editors \ {e} : acked'[x] = acked[x]
  BY <1>6, EditorPageFields
<1>10. TempsFit' /\ late' \subseteq Editors /\ made' \subseteq Edits
         /\ request' \in [Requests -> StoreRequests]
  BY <1>6, EditorPageFields DEF TempsFit
<1>11. /\ pg.shown => pg.doc \in Docs /\ acked'[e] \in Docs
       /\ pg.shown /\ ~pg.dirty /\ e \notin late' => pg.doc = acked'[e]
  BY <1>4, <1>9
<1>12. /\ \A x \in Editors \ {e} : acked'[x] = acked[x] /\ (x \in late' <=> x \in late)
       /\ \A h \in Requests : h[1] # e => request'[h] = request[h]
  BY <1>6, <1>9
<1> QED
  BY <1>4, <1>5, <1>6, <1>8, <1>9, <1>10, <1>11, <1>12, PageKeeps

\* A page is revised.
LEMMA ReviseKeeps ==
  ASSUME StoreInv, NEW e \in Editors, studio[e].shown, NEW text \in Docs, Revise(e, text),
         made' \subseteq Edits
  PROVE  StoreInv'
<1>1. PICK t : t = studio[e]
  OBVIOUS
<1>2. PICK p1 : p1 = [t EXCEPT !.doc = text]
  OBVIOUS
<1>21. p1 \in EditorPages /\ p1.doc = text /\ p1.shown /\ (p1.saving <=> t.saving)
  BY <1>1, <1>2, EditorPageFields DEF EditorPages
<1>22. PICK pg : pg = [p1 EXCEPT !.dirty = TRUE]
  OBVIOUS
<1>3. pg \in EditorPages /\ pg.doc = text /\ pg.dirty /\ pg.shown /\ (pg.saving <=> t.saving)
  BY <1>21, <1>22 DEF EditorPages
<1>4. studio' = [studio EXCEPT ![e] = pg]
  BY <1>1, <1>2, <1>22 DEF Revise
<1>5. UNCHANGED <<file, request, acked>> /\ late' = IF t.saving THEN late \cup {e} ELSE late
  BY <1>1 DEF Revise
<1>6. late' \subseteq Editors /\ (\A x \in Editors \ {e} : x \in late' <=> x \in late)
        /\ (t.saving => e \in late')
  BY <1>5, EditorPageFields
<1>7. ASSUME NEW h \in Requests, h[1] = e PROVE ThreadFits(pg, request'[h], e \in late')
  <2>1. ThreadFits(t, request[h], e \in late)
    BY <1>1, <1>7, EditorPageFields
  <2> QED
    BY <1>3, <1>5, <1>6, <2>1 DEF ThreadFits
<1>8. TempsFit'
  BY <1>5, EditorPageFields DEF TempsFit
<1> QED
  BY <1>3, <1>4, <1>5, <1>6, <1>7, <1>8, EditorPageFields, PageKeeps

\* The user's edits, undo and redo, and the previous version.
LEMMA RevisionsKeep ==
  ASSUME StoreInv, NEW e \in Editors, Mutate(e) \/ UndoRedo(e) \/ LoadPrevious(e)
  PROVE  StoreInv'
<1>1. made \subseteq Edits /\ Edits \subseteq Docs
  BY EditorPageFields DEF Docs
<1>2. CASE Mutate(e)
  <2>1. PICK d \in Edits \ made : Revise(e, d) /\ made' = made \cup {d}
    BY <1>2 DEF Mutate
  <2> QED
    BY <1>1, <1>2, <2>1, ReviseKeeps DEF Mutate
<1>3. CASE UndoRedo(e)
  <2>1. PICK d \in made \cup {acked[e]} : Revise(e, d)
    BY <1>3 DEF UndoRedo
  <2>2. acked[e] \in Docs /\ UNCHANGED made /\ studio[e].shown
    BY <1>3, EditorPageFields DEF UndoRedo
  <2> QED
    BY <1>1, <2>1, <2>2, ReviseKeeps
<1>4. CASE LoadPrevious(e)
  BY <1>1, <1>4, ReviseKeeps DEF LoadPrevious, Whole
<1> QED
  BY <1>2, <1>3, <1>4

\* A save begins; the page had none under way.
LEMMA SaveKeeps ==
  ASSUME StoreInv, OneThreadEach, NEW h \in Requests, NEW close \in BOOLEAN, Save(h, close)
  PROVE  StoreInv'
<1>1. PICK e \in Editors : e = h[1]
  BY DEF Save
<1>2. studio[e].shown /\ studio[e].doc \in Docs /\ Start(h, "put", studio[e].doc, close)
  BY <1>1, EditorPageFields DEF Save
<1>3. PICK r \in StoreRequests :
        /\ request' = [request EXCEPT ![h] = r] /\ r.kind = "put"
        /\ r.save = studio[e].doc /\ \A fs : \A p : TempFits(fs, p, r)
  <2>1. "put" \in {"put", "starter", "import", "sync"}
    OBVIOUS
  <2> QED
    BY <1>2, <2>1, BegunFits
<1>4. PICK pg : pg = [studio[e] EXCEPT !.saving = TRUE]
  OBVIOUS
<1>5. /\ pg \in EditorPages /\ (pg.shown <=> studio[e].shown) /\ pg.doc = studio[e].doc
      /\ (pg.dirty <=> studio[e].dirty) /\ pg.saving
  BY <1>4, EditorPageFields DEF EditorPages
<1>6. studio' = [studio EXCEPT ![e] = pg] /\ UNCHANGED <<file, made, acked, late>>
  BY <1>1, <1>4 DEF Save
<1>7. /\ request' \in [Requests -> StoreRequests] /\ request'[h] = r
      /\ \A k \in Requests : k # h => request'[k] = request[k]
  BY <1>3, EditorPageFields
<1>8. \A k \in Requests : k[1] = e <=> k = h
  BY <1>1, OneThread
<1>9. TempsFit'
  <2>1. ASSUME NEW k \in Requests PROVE TempFits(file', k[1], request'[k])
    BY <1>3, <1>6, <1>7, EditorPageFields DEF TempsFit
  <2> QED
    BY <2>1 DEF TempsFit
<1>10. \A k \in Requests : k[1] = e => ThreadFits(pg, request'[k], e \in late')
  BY <1>2, <1>3, <1>5, <1>7, <1>8 DEF ThreadFits
<1>11. \A k \in Requests : k[1] # e => request'[k] = request[k]
  BY <1>7, <1>8
<1>12. /\ pg.shown => pg.doc \in Docs /\ acked'[e] \in Docs
       /\ pg.shown /\ ~pg.dirty /\ e \notin late' => pg.doc = acked'[e]
  BY <1>5, <1>6, EditorPageFields
<1>13. /\ made' \subseteq Edits /\ late' \subseteq Editors
       /\ acked' \in [Editors -> Docs \cup {NoFile}]
       /\ \A x \in Editors \ {e} : acked'[x] = acked[x] /\ (x \in late' <=> x \in late)
  BY <1>6, EditorPageFields
<1> QED
  BY <1>5, <1>6, <1>7, <1>9, <1>10, <1>11, <1>12, <1>13, PageKeeps

\* An editor's page changes, and its threads are idle.
LEMMA PageWithoutThreads ==
  ASSUME StoreInv, NEW e \in Editors, NEW pg \in EditorPages, studio' = [studio EXCEPT ![e] = pg],
         UNCHANGED <<file, made>>,
         request' = [k \in Requests |-> IF k \in {h \in Requests : h[1] = e} THEN Idle ELSE request[k]],
         late' \subseteq Editors, acked' \in [Editors -> Docs \cup {NoFile}],
         \A x \in Editors \ {e} : acked'[x] = acked[x] /\ (x \in late' <=> x \in late),
         pg.shown => pg.doc \in Docs /\ acked'[e] \in Docs,
         pg.shown /\ ~pg.dirty /\ e \notin late' => pg.doc = acked'[e]
  PROVE  StoreInv'
<1>1. {h \in Requests : h[1] = e} \in SUBSET Requests
  OBVIOUS
<1>2. /\ request' \in [Requests -> StoreRequests] /\ TempsFit'
      /\ \A k \in Requests :
           request'[k] = IF k \in {h \in Requests : h[1] = e} THEN Idle ELSE request[k]
  BY <1>1, ThreadsEnd
<1>3. \A h \in Requests : h[1] # e => request'[h] = request[h]
  BY <1>2
<1>4. \A h \in Requests : h[1] = e => ThreadFits(pg, request'[h], e \in late')
  BY <1>2, IdleFits DEF ThreadFits
<1>5. made' \subseteq Edits
  BY EditorPageFields
<1> QED
  BY <1>2, <1>3, <1>4, <1>5, PageKeeps

\* An editor dies.
LEMMA EditorDiesKeeps ==
  ASSUME StoreInv, NEW e \in Editors, EditorDies(e)
  PROVE  StoreInv'
<1>1. PICK pg : pg = [NoPageYet EXCEPT !.over = TRUE]
  OBVIOUS
<1>2. pg \in EditorPages /\ ~pg.shown
  BY <1>1 DEF NoPageYet, EditorPages
<1>3. studio' = [studio EXCEPT ![e] = pg] /\ UNCHANGED <<file, made, acked, late>>
  BY <1>1 DEF EditorDies
<1>4. request' = [k \in Requests |-> IF k \in {h \in Requests : h[1] = e} THEN Idle ELSE request[k]]
  BY DEF EditorDies
<1> QED
  BY <1>2, <1>3, <1>4, EditorPageFields, PageWithoutThreads

\* A save is answered; what the page shows then is what was sent, or it was edited since.
LEMMA SavedKeeps ==
  ASSUME StoreInv, OneThreadEach, NEW h \in Requests, Saved(h)
  PROVE  StoreInv'
<1>1. PICK e \in Editors : e = h[1]
  BY DEF Saved
<1>2. PICK t : t = studio[e]
  OBVIOUS
<1>3. /\ t \in EditorPages /\ t.shown /\ t.doc \in Docs /\ acked[e] \in Docs
      /\ request[h].save \in Docs /\ (e \notin late => t.doc = request[h].save)
      /\ (~t.dirty /\ e \notin late => t.doc = acked[e])
  <2>1. /\ t \in EditorPages
        /\ (t.shown => t.doc \in Docs /\ acked[e] \in Docs)
        /\ (t.shown /\ ~t.dirty /\ e \notin late => t.doc = acked[e])
        /\ ThreadFits(t, request[h], e \in late)
    BY <1>1, <1>2, EditorPageFields
  <2>. QED
    BY <1>1, <1>2, <2>1 DEF Saved, ThreadFits
<1>4. \A k \in Requests : k[1] = e <=> k = h
  BY <1>1, OneThread
<1>5. request \in [Requests -> StoreRequests]
  BY EditorPageFields
<1>6. request' = [k \in Requests |-> IF k \in {x \in Requests : x[1] = e} THEN Idle ELSE request[k]]
  BY <1>1, <1>4, <1>5 DEF Saved
<1>7. UNCHANGED <<file, made>>
  BY DEF Saved
<1>8. CASE request[h].at # "done"
  <2>1. PICK pg : pg = [t EXCEPT !.saving = FALSE]
    OBVIOUS
  <2>2. pg \in EditorPages /\ pg.shown /\ pg.doc = t.doc /\ (pg.dirty <=> t.dirty)
    BY <1>3, <2>1 DEF EditorPages
  <2>3. studio' = [studio EXCEPT ![e] = pg] /\ UNCHANGED <<acked, late>>
    BY <1>1, <1>2, <1>8, <2>1 DEF Saved
  <2>4. /\ late' \subseteq Editors /\ acked' \in [Editors -> Docs \cup {NoFile}]
        /\ \A x \in Editors \ {e} : acked'[x] = acked[x] /\ (x \in late' <=> x \in late)
    BY <2>3, EditorPageFields
  <2>5. /\ pg.shown => pg.doc \in Docs /\ acked'[e] \in Docs
        /\ pg.shown /\ ~pg.dirty /\ e \notin late' => pg.doc = acked'[e]
    BY <1>3, <2>2, <2>3
  <2> QED
    BY <1>6, <1>7, <2>2, <2>3, <2>4, <2>5, PageWithoutThreads
<1>9. CASE request[h].at = "done"
  <2>1. PICK b \in BOOLEAN : b = (file[Backup] # NoFile)
    <3>1. (file[Backup] # NoFile) \in BOOLEAN
      OBVIOUS
    <3> QED
      BY <3>1, Zenon
  <2>2. PICK p1 : p1 = [t EXCEPT !.saving = FALSE]
    OBVIOUS
  <2>3. p1 \in EditorPages /\ p1.doc = t.doc
    BY <1>3, <2>2 DEF EditorPages
  <2>4. PICK p2 : p2 = [p1 EXCEPT !.dirty = FALSE]
    OBVIOUS
  <2>5. p2 \in EditorPages /\ p2.doc = t.doc
    BY <2>3, <2>4 DEF EditorPages
  <2>6. PICK p3 : p3 = [p2 EXCEPT !.backup = b]
    OBVIOUS
  <2>7. p3 \in EditorPages /\ p3.doc = t.doc
    BY <2>5, <2>6 DEF EditorPages
  <2>8. request[h].close \in BOOLEAN
    BY <1>5 DEF StoreRequests
  <2>9. PICK p4 : p4 = [p3 EXCEPT !.shown = ~request[h].close]
    OBVIOUS
  <2>10. p4 \in EditorPages /\ p4.doc = t.doc
    BY <2>7, <2>9 DEF EditorPages
  <2>11. PICK pg : pg = [p4 EXCEPT !.over = request[h].close]
    OBVIOUS
  <2>12. pg \in EditorPages /\ pg.doc = t.doc
    BY <2>8, <2>10, <2>11 DEF EditorPages
  <2>13. studio' = [studio EXCEPT ![e] = pg]
    BY <1>1, <1>2, <1>9, <2>1, <2>2, <2>4, <2>6, <2>9, <2>11 DEF Saved
  <2>14. /\ acked' = [acked EXCEPT ![e] = request[h].save]
         /\ late' = IF t.doc = request[h].save THEN late \ {e} ELSE late
    BY <1>1, <1>2, <1>9 DEF Saved
  <2>15. /\ late' \subseteq Editors /\ acked' \in [Editors -> Docs \cup {NoFile}]
         /\ acked'[e] = request[h].save
         /\ \A x \in Editors \ {e} : acked'[x] = acked[x] /\ (x \in late' <=> x \in late)
    BY <1>3, <2>14, EditorPageFields
  <2>16. /\ pg.shown => pg.doc \in Docs /\ acked'[e] \in Docs
         /\ pg.shown /\ ~pg.dirty /\ e \notin late' => pg.doc = acked'[e]
    BY <1>3, <2>12, <2>14, <2>15
  <2> QED
    BY <1>6, <1>7, <2>12, <2>13, <2>15, <2>16, PageWithoutThreads
<1> QED
  BY <1>8, <1>9

-----------------------------------------------------------------------------

\* The initial states.
LEMMA StoreInvInit == StoreInit => StoreInv
<1> SUFFICES ASSUME StoreInit PROVE StoreInv
  OBVIOUS
<1>1. file \in [Files -> Contents] /\ Published
  <2>1. PICK d \in {NoFile, Old, Current} : file = [f \in Files |-> IF f = Profile THEN d ELSE NoFile]
    BY DEF StoreInit
  <2>2. d \in Contents /\ d # Torn /\ NoFile \in Contents /\ NoFile # Torn
    BY StoreContents DEF Contents, Docs
  <2>3. \A t \in Targets : <<Disk, t>> \in Files
    BY DEF Files
  <2> QED
    BY <2>1, <2>2, <2>3 DEF Published
<1>2. request = [h \in Requests |-> Idle] /\ made = {} /\ late = {}
        /\ acked = [e \in Editors |-> NoFile]
  BY DEF StoreInit
<1>3. studio \in [Editors -> EditorPages] /\ \A e \in Editors : ~studio[e].shown
  <2>1. PICK cast \in Casts : studio = [e \in Editors |-> [NoPageYet EXCEPT !.over = e \notin cast.procs]]
    BY DEF StoreInit
  <2>2. ASSUME NEW e \in Editors PROVE studio[e] \in EditorPages /\ ~studio[e].shown
    <3>1. studio[e] = [NoPageYet EXCEPT !.over = e \notin cast.procs]
      BY <2>1
    <3>2. (e \notin cast.procs) \in BOOLEAN
      OBVIOUS
    <3>3. PICK b : b = (e \notin cast.procs)
      OBVIOUS
    <3>4. b \in BOOLEAN
      BY <3>2, <3>3, Zenon
    <3>5. studio[e] = [NoPageYet EXCEPT !.over = b]
      BY <3>1, <3>3
    <3> QED
      BY <3>4, <3>5 DEF NoPageYet, EditorPages
  <2> QED
    BY <2>1, <2>2
<1>4. StoreTyped
  BY <1>1, <1>2, <1>3, IdleFits DEF StoreTyped
<1>5. TempsFit /\ PagesFit /\ ThreadsFit
  BY <1>2, <1>3, IdleFits DEF TempsFit, PagesFit, ThreadsFit
<1> QED
  BY <1>1, <1>4, <1>5 DEF StoreInv

\* Every step.
LEMMA StoreInvNext ==
  ASSUME StoreInv, OneThreadEach, [StoreNext]_storeVars
  PROVE  StoreInv'
<1>1. CASE UNCHANGED storeVars
  BY <1>1 DEF storeVars, StoreInv, StoreTyped, TempsFit, TempFits, Published, PagesFit, ThreadsFit,
              ThreadFits
<1>2. ASSUME NEW h \in Requests,
             FileStep(h) \/ LoadCurrent(h) \/ SaveNext(h) \/ Saved(h) \/ Save(h, TRUE) \/ Save(h, FALSE)
      PROVE  StoreInv'
  <2>1. CASE FileStep(h)
    BY <2>1, OpenTemporaryKeeps, WriteTemporaryKeeps, RenameTemporaryKeeps DEF FileStep
  <2>2. CASE LoadCurrent(h) \/ SaveNext(h) \/ Saved(h)
    BY <2>2, LoadCurrentKeeps, SaveNextKeeps, SavedKeeps
  <2>3. CASE Save(h, TRUE) \/ Save(h, FALSE)
    <3>1. PICK c \in BOOLEAN : Save(h, c)
      BY <2>3, Zenon
    <3> QED
      BY <3>1, SaveKeeps
  <2> QED
    BY <1>2, <2>1, <2>2, <2>3
<1>3. ASSUME NEW h \in Hubs \X Slots,
             HubOpens(h) \/ InstallStarter(h) \/ Import(h) \/ CheckImport(h) \/ Sync(h)
             \/ StageVariant(h) \/ LinkVariant(h) \/ HubReplies(h)
      PROVE  StoreInv'
  BY <1>3, HubStepKeeps
<1>4. ASSUME NEW e \in Editors,
             Boot(e) \/ Mutate(e) \/ UndoRedo(e) \/ LoadPrevious(e) \/ EditorDies(e)
      PROVE  StoreInv'
  BY <1>4, BootKeeps, RevisionsKeep, EditorDiesKeeps
<1>5. ASSUME NEW p \in Hubs, HubEnds(p) PROVE StoreInv'
  BY <1>5, HubEndsKeeps
<1>6. CASE StoreNext
  BY <1>2, <1>3, <1>4, <1>5, <1>6 DEF StoreNext
<1> QED
  BY <1>1, <1>6

\* What the invariant says of the files and the pages.
LEMMA StoreInvIsTruthful == StoreInv => ProfilesAreWhole /\ SyncedIsSaved
<1> SUFFICES ASSUME StoreInv PROVE ProfilesAreWhole /\ SyncedIsSaved
  OBVIOUS
<1>1. ProfilesAreWhole
  BY StoreNames DEF StoreInv, Published, ProfilesAreWhole, Profile, Backup, Variant
<1>2. SyncedIsSaved
  BY DEF StoreInv, PagesFit, SyncedIsSaved
<1> QED
  BY <1>1, <1>2

\* Every thread and every file there is, and no other: all that the links rest on.
StoreShapes ==
  /\ request = [h \in Requests |-> request[h]]
  /\ file = [f \in Files |-> file[f]]

\* A thread that writes a file is not one that links.
LEMMA WritersDoNotLink ==
  ASSUME StoreShapes, NEW k \in Requests, FileStep(k), NEW h \in Requests, request[h].at = "link"
  PROVE  request'[h].at = "link"
<1>1. /\ request[k].at \in {"open", "write", "rename"} /\ h # k
      /\ DOMAIN request = Requests /\ request = [x \in Requests |-> request[x]]
  BY DEF FileStep, OpenTemporary, WriteTemporary, RenameTemporary, StoreShapes
<1>2. CASE OpenTemporary(k)
  BY <1>1, <1>2 DEF OpenTemporary, Go
<1>3. CASE WriteTemporary(k)
  BY <1>1, <1>3 DEF WriteTemporary
<1>4. CASE RenameTemporary(k)
  <2>1. PICK f : f = TempOf(k)
    OBVIOUS
  <2>2. PICK g, at : request' = [Follow(f, g) EXCEPT ![k].at = at]
    BY <1>4, <2>1 DEF RenameTemporary
  <2>3. request'[h] = Follow(f, g)[h]
    BY <1>1, <2>2 DEF Follow
  <2>4. Follow(f, g)[h] = IF request[h].fd = f THEN [request[h] EXCEPT !.fd = g]
                          ELSE IF request[h].fd = g THEN [request[h] EXCEPT !.fd = Closed]
                          ELSE request[h]
    BY DEF Follow
  <2>5. [request[h] EXCEPT !.fd = g].at = request[h].at
          /\ [request[h] EXCEPT !.fd = Closed].at = request[h].at
    OBVIOUS
  <2> QED
    BY <2>3, <2>4, <2>5
<1> QED
  BY <1>2, <1>3, <1>4 DEF FileStep

\* Threads and files stay the ones they are.
LEMMA ShapesStay ==
  ASSUME StoreShapes, [StoreNext]_storeVars
  PROVE  StoreShapes'
<1>1. DOMAIN request = Requests /\ DOMAIN file = Files
  BY DEF StoreShapes
<1>2. CASE UNCHANGED storeVars
  BY <1>2 DEF storeVars, StoreShapes
<1>3. ASSUME NEW k \in Requests,
             FileStep(k) \/ LoadCurrent(k) \/ SaveNext(k) \/ Saved(k) \/ Save(k, TRUE) \/ Save(k, FALSE)
      PROVE  StoreShapes'
  <2>1. CASE OpenTemporary(k)
    BY <2>1 DEF OpenTemporary, Go, StoreShapes
  <2>2. CASE WriteTemporary(k)
    BY <2>2 DEF WriteTemporary, StoreShapes
  <2>3. CASE RenameTemporary(k)
    BY <2>3 DEF RenameTemporary, Follow, StoreShapes
  <2>4. CASE LoadCurrent(k) \/ SaveNext(k)
    BY <2>4 DEF LoadCurrent, SaveNext, StageFor, Go, StoreShapes
  <2>5. CASE Saved(k)
    BY <2>5 DEF Saved, StoreShapes
  <2>6. CASE Save(k, TRUE) \/ Save(k, FALSE)
    BY <2>6 DEF Save, Start, StoreShapes
  <2> QED
    BY <1>3, <2>1, <2>2, <2>3, <2>4, <2>5, <2>6 DEF FileStep
<1>4. ASSUME NEW k \in Hubs \X Slots,
             HubOpens(k) \/ InstallStarter(k) \/ Import(k) \/ CheckImport(k) \/ Sync(k)
             \/ StageVariant(k) \/ LinkVariant(k) \/ HubReplies(k)
      PROVE  StoreShapes'
  <2>1. CASE HubOpens(k) \/ Import(k) \/ Sync(k)
    BY <2>1 DEF HubOpens, Import, Sync, Start, StoreShapes
  <2>2. CASE InstallStarter(k) \/ CheckImport(k) \/ StageVariant(k)
    BY <2>2 DEF InstallStarter, CheckImport, StageVariant, StageFor, Go, StoreShapes
  <2>3. CASE LinkVariant(k)
    BY <2>3 DEF LinkVariant, Go, StoreShapes
  <2>4. CASE HubReplies(k)
    BY <2>4 DEF HubReplies, StoreShapes
  <2> QED
    BY <1>4, <2>1, <2>2, <2>3, <2>4
<1>5. ASSUME NEW e \in Editors,
             Boot(e) \/ Mutate(e) \/ UndoRedo(e) \/ LoadPrevious(e) \/ EditorDies(e)
      PROVE  StoreShapes'
  BY <1>5 DEF Boot, Mutate, UndoRedo, LoadPrevious, EditorDies, Revise, StoreShapes
<1>6. ASSUME NEW p \in Hubs, HubEnds(p) PROVE StoreShapes'
  BY <1>6 DEF HubEnds, StoreShapes
<1> QED
  BY <1>2, <1>3, <1>4, <1>5, <1>6 DEF StoreNext

\* The synchronisation replaces no profile: a hard link does not.
LEMMA LinksDoNotReplace ==
  ASSUME StoreShapes, StoreNext, NEW h \in Hubs \X Slots,
         request[h].at = "link", request'[h].at = "done", file[Variant] # NoFile
  PROVE  file'[Variant] = file[Variant]
<1>1. h \in Requests
  BY DEF Requests, Procs
<1>2. ASSUME NEW k \in Requests,
             FileStep(k) \/ LoadCurrent(k) \/ SaveNext(k) \/ Saved(k) \/ Save(k, TRUE) \/ Save(k, FALSE)
      PROVE  file'[Variant] = file[Variant]
  <2>1. CASE FileStep(k)
    BY <1>1, <2>1, WritersDoNotLink
  <2>2. CASE LoadCurrent(k) \/ SaveNext(k)
    BY <2>2 DEF LoadCurrent, SaveNext
  <2>3. CASE Saved(k)
    BY <2>3 DEF Saved
  <2>4. CASE Save(k, TRUE) \/ Save(k, FALSE)
    BY <2>4 DEF Save
  <2> QED
    BY <1>2, <2>1, <2>2, <2>3, <2>4
<1>3. ASSUME NEW k \in Hubs \X Slots,
             HubOpens(k) \/ InstallStarter(k) \/ Import(k) \/ CheckImport(k) \/ Sync(k)
             \/ StageVariant(k) \/ LinkVariant(k) \/ HubReplies(k)
      PROVE  file'[Variant] = file[Variant]
  <2>1. CASE LinkVariant(k)
    <3>1. DOMAIN file = Files /\ Variant \in Files
      BY DEF StoreShapes, Files, Variant, Targets
    <3> QED
      BY <2>1, <3>1 DEF LinkVariant
  <2>2. CASE ~LinkVariant(k)
    BY <1>3, <2>2 DEF HubOpens, InstallStarter, Import, CheckImport, Sync, StageVariant, HubReplies
  <2> QED
    BY <2>1, <2>2
<1>4. ASSUME NEW e \in Editors,
             Boot(e) \/ Mutate(e) \/ UndoRedo(e) \/ LoadPrevious(e) \/ EditorDies(e)
      PROVE  file'[Variant] = file[Variant]
  BY <1>4 DEF Boot, Mutate, UndoRedo, LoadPrevious, EditorDies, Revise
<1>5. ASSUME NEW p \in Hubs, HubEnds(p) PROVE file'[Variant] = file[Variant]
  BY <1>5 DEF HubEnds
<1> QED
  BY <1>2, <1>3, <1>4, <1>5 DEF StoreNext

\* The Hub's synchronisation of variants never replaces a profile, however many threads serve
\* requests at the time (publish_profile_no_replace).
THEOREM LinksNeverReplace == StoreSpec => ExistingProfilesWin
<1>1. StoreInit => StoreShapes
  BY DEF StoreInit, StoreShapes
<1>2. StoreShapes /\ [StoreNext]_storeVars => StoreShapes'
  BY ShapesStay
<1>3. StoreShapes /\ [StoreNext]_storeVars =>
        [\A h \in Hubs \X Slots :
           request[h].at = "link" /\ request'[h].at = "done" /\ file[Variant] # NoFile =>
             file'[Variant] = file[Variant]]_storeVars
  BY LinksDoNotReplace
<1> QED
  BY <1>1, <1>2, <1>3, PTL DEF StoreSpec, ExistingProfilesWin

\* While every process serves one request at a time, readers find whole documents, a page
\* that calls itself synced shows what is saved, and no synchronisation replaces a profile
\* (save_to_path, publish_profile_no_replace, saveProfile).
THEOREM StoreIsAlwaysTruthful ==
  ASSUME OneThreadEach
  PROVE  StoreSpec => StoreIsTruthful
<1>1. StoreInit => StoreInv
  BY StoreInvInit
<1>2. StoreInv /\ [StoreNext]_storeVars => StoreInv'
  BY StoreInvNext
<1>3. StoreInv => ProfilesAreWhole /\ SyncedIsSaved
  BY StoreInvIsTruthful
<1>4. StoreSpec => ExistingProfilesWin
  BY LinksNeverReplace
<1> QED
  BY <1>1, <1>2, <1>3, <1>4, PTL DEF StoreSpec, StoreIsTruthful

-----------------------------------------------------------------------------
(***************************************************************************)
(* Editing: the validators agree on every profile, a plan is built of      *)
(* every valid one, and every profile that editing leads to is one.        *)
(***************************************************************************)



\* The page and the server agree on one layer, the layers before it given.
LEMMA LayerErrors ==
  ASSUME NEW d, NEW l \in DOMAIN d.layers
  PROVE  JsLayer(d, l) = {} <=>
           /\ TrimName[d.layers[l].name] \notin {Blank, BaseName}
           /\ \A m \in 1 .. l - 1 : TrimName[d.layers[m].name] # TrimName[d.layers[l].name]
           /\ Canonical[d.layers[l].key] \in KeyNames
           /\ \A m \in 1 .. l - 1 : Canonical[d.layers[m].key] # Canonical[d.layers[l].key]
  BY DEF JsLayer, Report

\* A sequence differs from what is before each of its members exactly when it is injective.
LEMMA EarlierDiffer ==
  ASSUME NEW n \in Nat, NEW f, DOMAIN f = 1 .. n
  PROVE  IsInjective(f) <=> \A i \in 1 .. n : \A j \in 1 .. i - 1 : f[j] # f[i]
  BY DEF IsInjective

\* The page and the server agree on the layers of a profile.
LEMMA LayersAgree ==
  ASSUME NEW d \in Documents
  PROVE  JsLayerErrors(d) = {} /\ JsCountErrors(d) = {} <=> RustLayers(d)
<1> DEFINE n == Len(d.layers)
           titles == [l \in DOMAIN d.layers |-> TrimName[d.layers[l].name]]
           keys == [l \in DOMAIN d.layers |-> Canonical[d.layers[l].key]]
<1>1. n \in Nat /\ DOMAIN d.layers = 1 .. n
  BY DEF Documents
<1>2. JsLayerErrors(d) = {} <=> \A l \in DOMAIN d.layers : JsLayer(d, l) = {}
  BY DEF JsLayerErrors
<1>3. IsInjective(titles) <=>
        \A i \in 1 .. n : \A j \in 1 .. i - 1 : TrimName[d.layers[j].name] # TrimName[d.layers[i].name]
  <2>1. DOMAIN titles = 1 .. n
    BY <1>1
  <2>2. \A i \in 1 .. n : titles[i] = TrimName[d.layers[i].name]
    BY <1>1
  <2>3. \A i \in 1 .. n : \A j \in 1 .. i - 1 : j \in 1 .. n
    BY <1>1
  <2>4. IsInjective(titles) <=> \A i \in 1 .. n : \A j \in 1 .. i - 1 : titles[j] # titles[i]
    <3>. HIDE DEF titles, n
    <3>. QED
      BY <2>1, <1>1, EarlierDiffer
  <2>. QED
    BY <2>2, <2>3, <2>4
<1>4. IsInjective(keys) <=>
        \A i \in 1 .. n : \A j \in 1 .. i - 1 : Canonical[d.layers[j].key] # Canonical[d.layers[i].key]
  <2>1. DOMAIN keys = 1 .. n
    BY <1>1
  <2>2. \A i \in 1 .. n : keys[i] = Canonical[d.layers[i].key]
    BY <1>1
  <2>3. \A i \in 1 .. n : \A j \in 1 .. i - 1 : j \in 1 .. n
    BY <1>1
  <2>4. IsInjective(keys) <=> \A i \in 1 .. n : \A j \in 1 .. i - 1 : keys[j] # keys[i]
    <3>. HIDE DEF keys, n
    <3>. QED
      BY <2>1, <1>1, EarlierDiffer
  <2>. QED
    BY <2>2, <2>3, <2>4
<1>5. (\A l \in DOMAIN d.layers : JsLayer(d, l) = {}) <=>
        /\ \A l \in 1 .. n : TrimName[d.layers[l].name] \notin {Blank, BaseName}
        /\ IsInjective(titles)
        /\ \A l \in 1 .. n : Canonical[d.layers[l].key] \in KeyNames
        /\ IsInjective(keys)
  <2>. HIDE DEF titles, keys, n
  <2>. QED
    BY <1>1, <1>3, <1>4, LayerErrors
<1>6. JsCountErrors(d) = {} <=> n <= MaxLayers
  <2>1. JsCountErrors(d) = {} <=> ~(n > MaxLayers)
    BY DEF JsCountErrors
  <2>2. MaxLayers \in Nat
    BY RuleConstants
  <2>. HIDE DEF n
  <2>. QED
    BY <1>1, <2>1, <2>2
<1>7. RustLayers(d) <=>
        /\ \A l \in 1 .. n : TrimName[d.layers[l].name] \notin {Blank, BaseName}
        /\ IsInjective(titles)
        /\ n <= MaxLayers
        /\ \A l \in 1 .. n : Canonical[d.layers[l].key] \in KeyNames
        /\ IsInjective(keys)
  BY <1>1 DEF RustLayers
<1>. QED
  BY <1>2, <1>5, <1>6, <1>7

\* The page and the server agree on an input.
LEMMA InputsAgree ==
  ASSUME NEW b
  PROVE  JsInputErrors(b.input) = {} <=> RustInput(b)
  BY DEF JsInputErrors, RustInput, InputSet, Report

\* The page and the server agree on a joystick.
LEMMA SticksAgree ==
  ASSUME NEW n \in Sticks
  PROVE  JsStickErrors(n) = {} <=> RustStick(n)
<1>1. n.center \in Int /\ n.radius \in Int /\ n.dead_zone \in Int
  BY DEF Sticks
<1>2. JsStickErrors(n) = {} <=>
        /\ FiniteWithin(n.center, 0, One)
        /\ ~(n.radius <= 0 \/ n.radius > One)
        /\ ~(n.dead_zone \notin 0 .. One - 1 \/ n.dead_zone >= n.radius)
        /\ n.reaffirm_ms # 0
  BY DEF JsStickErrors, Report
<1>. QED
  BY <1>1, <1>2, RuleConstants DEF RustStick, FiniteWithin, Normalized

\* The page and the server agree on an aim.
LEMMA AimsAgree ==
  ASSUME NEW n \in Aims, NEW toggle
  PROVE  JsAimErrors(n, toggle) = {} <=> RustAim(n, toggle)
<1>1. /\ n.x \in Int /\ n.w \in Int /\ n.sensitivity \in Int /\ n.threshold \in Int
      /\ n.ads = None \/ n.ads \in Int
  BY DEF Aims
<1>2. JsAimErrors(n, toggle) = {} <=>
        /\ FiniteWithin(n.x, 0, One) /\ ~(n.w <= 0) /\ ~(n.x + n.w > One)
        /\ ~(n.sensitivity <= 0)
        /\ ~(toggle # None /\ Canonical[toggle] \notin KeyNames)
        /\ FiniteWithin(10 * n.threshold, One, 10 * One)
        /\ ~(n.ads # None /\ ~FiniteWithin(10 * n.ads, One, 10 * One))
        /\ n.reaffirm_ms # 0
  BY DEF JsAimErrors, Report
<1>. QED
  BY <1>1, <1>2, RuleConstants DEF RustAim, FiniteWithin, Normalized

\* The page and the server agree on an action that is not a macro.
LEMMA LeavesAgree ==
  ASSUME NEW a \in LeafActions
  PROVE  JsLeafErrors(a) = {} <=> RustLeaf(a)
<1>1. CASE a.kind \in {"tap", "hold"}
  <2>1. a.n.point \in Int
    BY <1>1 DEF LeafActions
  <2>. QED
    BY <1>1, <2>1, RuleConstants DEF JsLeafErrors, RustLeaf, Report, FiniteWithin, Normalized
<1>2. CASE a.kind = "virtual_joystick"
  <2>1. a.n \in Sticks
    BY <1>2 DEF LeafActions
  <2>. QED
    BY <1>2, <2>1, SticksAgree DEF JsLeafErrors, RustLeaf
<1>3. CASE a.kind = "mouse_aim"
  <2>1. a.n \in Aims
    BY <1>3 DEF LeafActions
  <2>. QED
    BY <1>3, <2>1, AimsAgree DEF JsLeafErrors, RustLeaf
<1>. QED
  BY <1>1, <1>2, <1>3 DEF LeafActions

\* The page and the server agree on an action.
LEMMA ActionsAgree ==
  ASSUME NEW a \in LeafActions \cup Macros
  PROVE  JsActionErrors(a) = {} <=> RustAction(a)
<1>1. CASE a.kind = "macro"
  <2>1. a.steps \in Seq(LeafActions)
    BY <1>1 DEF LeafActions, Macros
  <2>2. \A s \in DOMAIN a.steps : a.steps[s] \in LeafActions
    BY <2>1
  <2>3. JsActionErrors(a) = {} <=>
          a.steps # <<>> /\ \A s \in DOMAIN a.steps : JsLeafErrors(a.steps[s]) = {}
    BY <1>1 DEF JsActionErrors, Report
  <2>. QED
    BY <1>1, <2>2, <2>3, LeavesAgree DEF RustAction
<1>2. CASE a.kind # "macro"
  <2>1. a \in LeafActions
    BY <1>2 DEF Macros
  <2>. QED
    BY <1>2, <2>1, LeavesAgree DEF JsActionErrors, RustAction
<1>. QED
  BY <1>1, <1>2

\* The page and the server agree on the pairing of an input and an action.
LEMMA PairingsAgree ==
  ASSUME NEW b \in Bindings
  PROVE  JsCompatibilityErrors(b) = {} <=> RustCompatible(b)
<1>1. b.action.kind \in {"tap", "hold", "virtual_joystick", "mouse_aim", "macro"}
  BY DEF Bindings, LeafActions, Macros
<1>. QED
  BY <1>1 DEF JsCompatibilityErrors, RustCompatible, Report

\* The page and the server agree on a modifier.
LEMMA ModifiersAgree ==
  ASSUME NEW b \in Bindings
  PROVE  JsModifierErrors(b) = {} <=> RustModifier(b)
<1>1. b.input.kind \in {"key", "key_cluster", "mouse_button", "mouse_move"}
  BY DEF Bindings, Triggers
<1>. DEFINE m == Canonical[b.modifier]
<1>2. CASE b.modifier = None
  BY <1>2 DEF JsModifierErrors, RustModifier
<1>3. CASE b.modifier # None
  <2>1. JsModifierErrors(b) = {} <=>
          /\ m \in KeyNames
          /\ ~(/\ b.input.kind \in {"key", "key_cluster"}
               /\ \E k \in DOMAIN b.input.on : Canonical[b.input.on[k]] = m)
          /\ b.input.kind # "mouse_move"
          /\ ~(m = Ctrl /\ \E key \in InputKeys(b) : key = Esc \/ key = C)
    BY <1>3 DEF JsModifierErrors, Report
  <2>2. b.input.kind # "mouse_move" =>
          (m \in InputKeys(b) <=>
             /\ b.input.kind \in {"key", "key_cluster"}
             /\ \E k \in DOMAIN b.input.on : Canonical[b.input.on[k]] = m)
    BY <1>1 DEF InputKeys, InputSet
  <2>3. InputKeys(b) \cap {Esc, C} = {} <=> ~\E key \in InputKeys(b) : key = Esc \/ key = C
    OBVIOUS
  <2>. QED
    BY <1>3, <2>1, <2>2, <2>3 DEF RustModifier
<1>. QED
  BY <1>2, <1>3

\* The page and the server agree on the scopes of two bindings.
LEMMA ScopesAgree ==
  ASSUME NEW b, NEW c
  PROVE  JsScopeKeys(b) \cap JsScopeKeys(c) = {}
           <=> (RustScope(b) = RustScope(c) => InputSet(b) \cap InputSet(c) = {})
<1>. DEFINE m(x) == IF x.modifier = None THEN None ELSE Canonical[x.modifier]
<1>1. PICK mb : mb = m(b)
  OBVIOUS
<1>2. PICK mc : mc = m(c)
  OBVIOUS
<1>3. PICK pb : pb = (b.input.kind = "mouse_button")
  OBVIOUS
<1>4. PICK pc : pc = (c.input.kind = "mouse_button")
  OBVIOUS
<1>5. JsScopeKeys(b) = {<<b.layer, mb, pb, x>> : x \in InputSet(b)}
  BY <1>1, <1>3 DEF JsScopeKeys
<1>6. JsScopeKeys(c) = {<<c.layer, mc, pc, x>> : x \in InputSet(c)}
  BY <1>2, <1>4 DEF JsScopeKeys
<1>7. RustScope(b) = RustScope(c) <=> b.layer = c.layer /\ mb = mc /\ pb = pc
  <2>1. RustScope(b) = <<b.layer, mb, pb>>
    BY <1>1, <1>3, Zenon DEF RustScope
  <2>2. RustScope(c) = <<c.layer, mc, pc>>
    BY <1>2, <1>4, Zenon DEF RustScope
  <2>. QED
    BY <2>1, <2>2
<1>8. \A x, y : <<b.layer, mb, pb, x>> = <<c.layer, mc, pc, y>>
                <=> b.layer = c.layer /\ mb = mc /\ pb = pc /\ x = y
  BY Zenon
<1>9. JsScopeKeys(b) \cap JsScopeKeys(c) = {} <=>
        \A x \in InputSet(b), y \in InputSet(c) : <<b.layer, mb, pb, x>> # <<c.layer, mc, pc, y>>
  BY <1>5, <1>6, Zenon
<1>10. InputSet(b) \cap InputSet(c) = {} <=> \A x \in InputSet(b), y \in InputSet(c) : x # y
  OBVIOUS
<1>. QED
  BY <1>7, <1>8, <1>9, <1>10, Zenon

\* What the server asks of the binding at a place, compared with the bindings before it.
RustBinding(d, i) ==
  LET b == d.bindings[i] IN
  /\ RustInput(b) /\ RustAction(b.action) /\ RustCompatible(b) /\ RustModifier(b)
  /\ TrimName[b.name] # Blank
  /\ \A j \in 1 .. i - 1 : TrimName[d.bindings[j].name] # TrimName[b.name]
  /\ b.layer \in {None} \cup LayerNames(d)
  /\ b.layer = None /\ b.modifier = None => InputKeys(b) \cap RustActivationKeys(d) = {}
  /\ \A l \in DOMAIN d.layers :
       d.layers[l].name = b.layer => Canonical[d.layers[l].key] \notin InputKeys(b)
  /\ \A j \in 1 .. i - 1 :
       RustScope(d.bindings[j]) = RustScope(b) => InputSet(d.bindings[j]) \cap InputSet(b) = {}

\* The page and the server agree on a binding, the bindings before it given.
LEMMA BindingsAgree ==
  ASSUME NEW d \in Documents, NEW i \in DOMAIN d.bindings
  PROVE  JsBindingErrors(d, i) = {} <=> RustBinding(d, i)
<1>. DEFINE b == d.bindings[i]
            own == {l \in DOMAIN d.layers : d.layers[l].name = b.layer}
<1>1. b \in Bindings
  BY DEF Documents
<1>2. JsBindingErrors(d, i) = {} <=>
        /\ JsInputErrors(b.input) = {} /\ JsActionErrors(b.action) = {}
        /\ JsCompatibilityErrors(b) = {} /\ JsModifierErrors(b) = {}
        /\ ~(\/ TrimName[b.name] = Blank
             \/ \E j \in 1 .. i - 1 : TrimName[d.bindings[j].name] = TrimName[b.name])
        /\ ~(b.layer # None /\ b.layer \notin LayerNames(d))
        /\ ~(/\ b.layer = None /\ b.modifier = None
             /\ JsActivating(d, DOMAIN d.layers) \cap InputKeys(b) # {})
        /\ ~(b.layer # None /\ JsActivating(d, own) \cap InputKeys(b) # {})
        /\ ~(\E j \in 1 .. i - 1 : JsScopeKeys(d.bindings[j]) \cap JsScopeKeys(b) # {})
  BY DEF JsBindingErrors, Report
<1>3. JsActivating(d, DOMAIN d.layers) = RustActivationKeys(d)
  BY DEF JsActivating, RustActivationKeys
<1>4. JsActivating(d, own) \cap InputKeys(b) = {} <=>
        \A l \in DOMAIN d.layers :
          d.layers[l].name = b.layer => Canonical[d.layers[l].key] \notin InputKeys(b)
  BY DEF JsActivating
<1>5. b.layer = None => \A l \in DOMAIN d.layers : d.layers[l].name # b.layer
  <2>1. d.layers \in Seq(Layers)
    BY DEF Documents
  <2>2. \A l \in DOMAIN d.layers : d.layers[l] \in Layers
    BY <2>1
  <2>3. \A l \in DOMAIN d.layers : d.layers[l].name \in Words
    BY <2>2 DEF Layers
  <2>. QED
    BY <2>3, RuleConstants DEF Words
<1>6. \A j \in 1 .. i - 1 :
        JsScopeKeys(d.bindings[j]) \cap JsScopeKeys(b) = {} <=>
          (RustScope(d.bindings[j]) = RustScope(b) => InputSet(d.bindings[j]) \cap InputSet(b) = {})
  BY ScopesAgree
<1>7. /\ JsInputErrors(b.input) = {} <=> RustInput(b)
      /\ JsActionErrors(b.action) = {} <=> RustAction(b.action)
      /\ JsCompatibilityErrors(b) = {} <=> RustCompatible(b)
      /\ JsModifierErrors(b) = {} <=> RustModifier(b)
  <2>1. b.action \in LeafActions \cup Macros
    BY <1>1 DEF Bindings
  <2>. QED
    BY <1>1, <2>1, InputsAgree, ActionsAgree, PairingsAgree, ModifiersAgree
<1>. HIDE DEF b, own
<1>8. b = d.bindings[i]
  BY DEF b
<1>. QED
  BY <1>2, <1>3, <1>4, <1>5, <1>6, <1>7, <1>8 DEF RustBinding

\* What the server asks of every pair of bindings it asks of a binding and those before it.
LEMMA BindingsInOrder ==
  ASSUME NEW d \in Documents
  PROVE  RustAccepts(d) <=>
           d.named /\ RustLayers(d) /\ \A i \in DOMAIN d.bindings : RustBinding(d, i)
<1>. DEFINE n == Len(d.bindings)
            b(i) == d.bindings[i]
            titles == [i \in DOMAIN d.bindings |-> TrimName[d.bindings[i].name]]
            Apart(i, j) == RustScope(b(i)) = RustScope(b(j)) => InputSet(b(i)) \cap InputSet(b(j)) = {}
            AsksAlone(i) ==
              /\ TrimName[b(i).name] # Blank
              /\ RustInput(b(i)) /\ RustAction(b(i).action) /\ RustCompatible(b(i))
              /\ RustModifier(b(i))
              /\ b(i).layer \in {None} \cup LayerNames(d)
              /\ b(i).layer = None /\ b(i).modifier = None =>
                   InputKeys(b(i)) \cap RustActivationKeys(d) = {}
              /\ \A l \in DOMAIN d.layers :
                   d.layers[l].name = b(i).layer => Canonical[d.layers[l].key] \notin InputKeys(b(i))
<1>1. n \in Nat /\ DOMAIN d.bindings = 1 .. n
  BY DEF Documents
<1>2. \A i \in 1 .. n : \A j \in 1 .. i - 1 : j \in 1 .. n /\ i # j
  BY <1>1
<1>3. \A i, j \in 1 .. n : i # j => i \in 1 .. j - 1 \/ j \in 1 .. i - 1
  BY <1>1
<1>4. IsInjective(titles) <=>
        \A i \in 1 .. n : \A j \in 1 .. i - 1 : TrimName[b(j).name] # TrimName[b(i).name]
  <2>1. DOMAIN titles = 1 .. n /\ \A i \in 1 .. n : titles[i] = TrimName[b(i).name]
    BY <1>1
  <2>2. IsInjective(titles) <=> \A i \in 1 .. n : \A j \in 1 .. i - 1 : titles[j] # titles[i]
    <3>. HIDE DEF titles, n
    <3>. QED
      BY <2>1, <1>1, EarlierDiffer
  <2>. QED
    BY <2>1, <2>2, <1>2
<1>5. (\A i, j \in 1 .. n : i # j => Apart(i, j)) <=> \A i \in 1 .. n : \A j \in 1 .. i - 1 : Apart(j, i)
  <2>1. \A i, j : Apart(i, j) <=> Apart(j, i)
    OBVIOUS
  <2>. HIDE DEF Apart, n, b
  <2>. QED
    BY <2>1, <1>2, <1>3
<1>6. RustAccepts(d) <=>
        /\ d.named /\ RustLayers(d) /\ IsInjective(titles)
        /\ \A i \in 1 .. n : AsksAlone(i)
        /\ \A i, j \in 1 .. n : i # j => Apart(i, j)
  BY <1>1 DEF RustAccepts, AllBindings
<1>7. \A i : RustBinding(d, i) <=>
        /\ AsksAlone(i)
        /\ \A j \in 1 .. i - 1 : TrimName[b(j).name] # TrimName[b(i).name]
        /\ \A j \in 1 .. i - 1 : Apart(j, i)
  BY DEF RustBinding
<1>. HIDE DEF AsksAlone, Apart, n, b, titles
<1>. QED
  BY <1>1, <1>4, <1>5, <1>6, <1>7

\* The page shows a profile as valid exactly when the server takes it, whatever the
\* profile (profile-model.js:238, profile_v2.rs:52).
THEOREM TheValidatorsAgree ==
  ASSUME NEW d \in Documents
  PROVE  JsAccepts(d) <=> RustAccepts(d)
<1>1. JsAccepts(d) <=>
        /\ d.named /\ JsLayerErrors(d) = {} /\ JsCountErrors(d) = {}
        /\ JsControlErrors(d) = {}
  BY DEF JsAccepts, JsErrors, Report
<1>2. JsControlErrors(d) = {} <=> \A i \in DOMAIN d.bindings : JsBindingErrors(d, i) = {}
  BY DEF JsControlErrors
<1>. QED
  BY <1>1, <1>2, LayersAgree, BindingsAgree, BindingsInOrder

-----------------------------------------------------------------------------
(* Every valid profile that a plan can represent is built *)

\* Division does not change the order.
LEMMA DivisionIsMonotone ==
  ASSUME NEW a \in Int, NEW b \in Int, NEW k \in Nat \ {0}, a <= b
  PROVE  a \div k \in Int /\ b \div k \in Int /\ a \div k <= b \div k
<1>1. PICK q : q = a \div k
  OBVIOUS
<1>2. PICK r : r = b \div k
  OBVIOUS
<1>3. q \in Int /\ k * q <= a /\ a < k * q + k
  BY <1>1
<1>4. r \in Int /\ k * r <= b /\ b < k * r + k
  BY <1>2
<1>5. ASSUME r + 1 <= q PROVE FALSE
  <2>1. k * (r + 1) <= k * q
    BY <1>3, <1>4, <1>5
  <2>2. k * (r + 1) = k * r + k
    BY <1>4
  <2>. QED
    BY <1>3, <1>4, <2>1, <2>2
<1>. QED
  BY <1>1, <1>2, <1>3, <1>4, <1>5

\* A quotient is between the multiples of the divisor.
LEMMA Quotient ==
  ASSUME NEW a \in Int, NEW q \in Int, NEW k \in Nat \ {0}, k * q <= a, a < k * q + k
  PROVE  a \div k = q
<1>1. PICK r : r = a \div k
  OBVIOUS
<1>2. r \in Int /\ k * r <= a /\ a < k * r + k
  BY <1>1
<1>3. ASSUME r + 1 <= q PROVE FALSE
  <2>1. k * (r + 1) <= k * q
    BY <1>2, <1>3
  <2>2. k * (r + 1) = k * r + k
    BY <1>2
  <2>. QED
    BY <1>2, <2>1, <2>2
<1>4. ASSUME q + 1 <= r PROVE FALSE
  <2>1. k * (q + 1) <= k * r
    BY <1>2, <1>4
  <2>2. k * (q + 1) = k * q + k
    OBVIOUS
  <2>. QED
    BY <1>2, <2>1, <2>2
<1>. QED
  BY <1>1, <1>2, <1>3, <1>4

\* Rounding gives an integer and does not change the order.
LEMMA RoundingIsMonotone ==
  ASSUME NEW a \in Int, NEW b \in Int, NEW den \in Nat \ {0}, a <= b
  PROVE  /\ Rounded(a, den) \in Int /\ Rounded(b, den) \in Int
         /\ Rounded(a, den) <= Rounded(b, den)
  BY DivisionIsMonotone DEF Rounded

\* A coordinate materializes on the screen, in the order of the coordinates.
LEMMA AxisIsMonotone ==
  ASSUME NEW x \in Int, NEW y \in Int, x <= y, NEW side \in Nat \ {0}
  PROVE  /\ Axis(x, side) \in Int /\ Axis(y, side) \in Int
         /\ Axis(x, side) <= Axis(y, side)
         /\ Axis(x, side) < side /\ Axis(y, side) < side
<1>. DEFINE cx == Smaller(Larger(x, 0), One)
            cy == Smaller(Larger(y, 0), One)
<1>1. One \in Nat \ {0}
  BY RuleConstants
<1>2. cx \in Int /\ cy \in Int /\ cx <= cy
  BY <1>1 DEF Smaller, Larger
<1>3. cx * (side - 1) \in Int /\ cy * (side - 1) \in Int /\ cx * (side - 1) <= cy * (side - 1)
  <2>. HIDE DEF cx, cy
  <2>1. PICK k \in Nat : k = side - 1
    OBVIOUS
  <2>2. cx * k <= cy * k
    BY <1>2, <2>1
  <2>. QED
    BY <1>2, <2>1, <2>2
<1>4. /\ Rounded(cx * (side - 1), One) \in Int /\ Rounded(cy * (side - 1), One) \in Int
      /\ Rounded(cx * (side - 1), One) <= Rounded(cy * (side - 1), One)
  BY <1>1, <1>3, RoundingIsMonotone
<1>. HIDE DEF cx, cy
<1>5. /\ Axis(x, side) = Smaller(Rounded(cx * (side - 1), One), side - 1)
      /\ Axis(y, side) = Smaller(Rounded(cy * (side - 1), One), side - 1)
  BY DEF Axis, cx, cy
<1>. QED
  BY <1>4, <1>5 DEF Smaller

\* A joystick that the server takes fits on a screen.
LEMMA SticksFit ==
  ASSUME NEW n \in Sticks, RustStick(n), NEW side \in Nat \ {0}
  PROVE  StickFits(n, side)
<1>1. n.center \in Int /\ n.radius \in Int /\ n.dead_zone \in Int
  BY DEF Sticks
<1>2. Axis(n.center, side) < side
  BY <1>1, AxisIsMonotone
<1>3. PICK r : r = Radius(n.radius, side)
  OBVIOUS
<1>4. One \in Nat \ {0}
  BY RuleConstants
<1>5. \A num \in Int : Rounded(num, One) \in Int
  BY <1>4, RoundingIsMonotone
<1>6. r \in Int /\ r >= 1
  <2>1. PICK s \in Int : s = Smaller(n.radius, One)
    BY <1>1, <1>4 DEF Smaller
  <2>2. s * side \in Int
    BY <2>1
  <2>3. Rounded(s * side, One) \in Int
    BY <1>5, <2>2
  <2>. QED
    BY <1>3, <2>1, <2>3 DEF Radius, Larger
<1>7. DeadZone(n.dead_zone, r, side) < r
  <2>1. n.dead_zone * side \in Int
    BY <1>1
  <2>2. Rounded(n.dead_zone * side, One) \in Int
    BY <1>5, <2>1
  <2>. QED
    BY <1>6, <2>2 DEF DeadZone, Smaller
<1>. QED
  BY <1>2, <1>3, <1>7 DEF StickFits

\* An aim that the server takes, with a sensitivity that a plan can represent, fits.
LEMMA AimsFitScreens ==
  ASSUME NEW n \in Aims, NEW toggle, RustAim(n, toggle), SensitivityFits(n.sensitivity, 10),
         NEW side \in Nat \ {0}
  PROVE  AimFits(n, side)
<1>1. n.x \in Int /\ n.w \in Int /\ (n.ads = None \/ n.ads \in Int)
  BY DEF Aims
<1>2. One \in Nat \ {0} /\ MaxMilli \in Nat /\ 1000 <= MaxMilli
  BY RuleConstants
<1>3. n.x + n.w \in Int /\ n.x <= n.x + n.w
  BY <1>1 DEF RustAim
<1>4. PICK first : first = Axis(n.x, side)
  OBVIOUS
<1>5. PICK last : last = Axis(n.x + n.w, side)
  OBVIOUS
<1>6. first \in Int /\ last \in Int /\ first <= last /\ last < side
  BY <1>1, <1>3, <1>4, <1>5, AxisIsMonotone
<1>7. first <= first + ((last - first) \div 2) /\ first + ((last - first) \div 2) <= last
  BY <1>6
<1>8. n.ads # None => SensitivityFits(1000 * n.ads, One)
  <2>. SUFFICES ASSUME n.ads # None
                PROVE  SensitivityFits(1000 * n.ads, One)
    OBVIOUS
  <2>1. n.ads \in Int /\ One <= 10 * n.ads /\ n.ads <= One
    BY <1>1, <1>2 DEF RustAim
  <2>2. One <= 1000 * n.ads /\ 1000 * n.ads <= 1000 * One
    BY <1>2, <2>1
  <2>3. Rounded(One, One) = 1 /\ Rounded(1000 * One, One) = 1000
    <3>. PICK k \in Nat \ {0} : k = 2 * One
      BY <1>2
    <3>1. 2 * One + One \in Int /\ k * 1 <= 2 * One + One /\ 2 * One + One < k * 1 + k
      BY <1>2
    <3>2. /\ 2 * (1000 * One) + One \in Int
          /\ k * 1000 <= 2 * (1000 * One) + One /\ 2 * (1000 * One) + One < k * 1000 + k
      BY <1>2
    <3>. QED
      BY <3>1, <3>2, Quotient DEF Rounded
  <2>4. /\ Rounded(One, One) <= Rounded(1000 * n.ads, One)
        /\ Rounded(1000 * n.ads, One) <= Rounded(1000 * One, One)
        /\ Rounded(1000 * n.ads, One) \in Int
    <3>1. PICK c \in Int : c = 1000 * n.ads
      BY <2>1
    <3>2. PICK top \in Int : top = 1000 * One
      BY <1>2
    <3>3. One \in Int /\ One <= c /\ c <= top
      BY <1>2, <2>2, <3>1, <3>2
    <3>4. /\ Rounded(One, One) <= Rounded(c, One) /\ Rounded(c, One) \in Int
          /\ Rounded(c, One) <= Rounded(top, One)
      BY <1>2, <3>3, RoundingIsMonotone
    <3>. QED
      BY <3>1, <3>2, <3>4
  <2>. QED
    BY <1>2, <2>3, <2>4 DEF SensitivityFits
<1>. QED
  BY <1>4, <1>5, <1>6, <1>7, <1>8 DEF AimFits

\* A session can be started with every profile that the server takes, whatever the
\* screen, unless it has a macro or an aim whose sensitivity no plan can represent
\* (profile_controls.rs:147).
THEOREM ValidProfilesBuild ==
  ASSUME NEW d \in Documents, RustAccepts(d),
         \A b \in AllBindings(d) : Representable(b) /\ b.action.kind # "macro",
         NEW side \in Sides
  PROVE  PlanBuilds(d, side)
<1>1. side \in Nat \ {0}
  BY RuleConstants
<1>2. \A l \in DOMAIN d.layers : Canonical[d.layers[l].key] \in KeyNames
  BY DEF RustAccepts, RustLayers
<1>3. ASSUME NEW b \in AllBindings(d)
      PROVE  /\ b.layer \in {None} \cup LayerNames(d)
             /\ b.modifier # None => Canonical[b.modifier] \in KeyNames
             /\ Fits(b.action, side)
  <2>1. b \in Bindings
    <3>1. d.bindings \in Seq(Bindings)
      BY DEF Documents
    <3>. QED
      BY <1>3, <3>1 DEF AllBindings
  <2>2. /\ b.layer \in {None} \cup LayerNames(d) /\ RustModifier(b) /\ RustAction(b.action)
    BY <1>3 DEF RustAccepts
  <2>3. b.action \in LeafActions /\ RustLeaf(b.action)
    <3>1. b.action.kind # "macro" /\ b.action \in LeafActions \cup Macros
      BY <1>3, <2>1 DEF Bindings
    <3>. QED
      BY <3>1, <2>2 DEF RustAction, Macros
  <2>4. CASE b.action.kind \in {"tap", "hold"}
    <3>1. b.action.n.point \in Int
      BY <2>3, <2>4 DEF LeafActions
    <3>. QED
      BY <1>1, <2>2, <2>4, <3>1, AxisIsMonotone DEF Fits, RustModifier
  <2>5. CASE b.action.kind = "virtual_joystick"
    <3>1. b.action.n \in Sticks
      BY <2>3, <2>5 DEF LeafActions
    <3>2. RustStick(b.action.n)
      BY <2>3, <2>5 DEF RustLeaf
    <3>. QED
      BY <1>1, <2>2, <2>5, <3>1, <3>2, SticksFit DEF Fits, RustModifier
  <2>6. CASE b.action.kind = "mouse_aim"
    <3>1. b.action.n \in Aims
      BY <2>3, <2>6 DEF LeafActions
    <3>2. RustAim(b.action.n, b.action.toggle)
      BY <2>3, <2>6 DEF RustLeaf
    <3>3. SensitivityFits(b.action.n.sensitivity, 10)
      BY <1>3, <2>6 DEF Representable
    <3>. QED
      BY <1>1, <2>2, <2>6, <3>1, <3>2, <3>3, AimsFitScreens DEF Fits, RustModifier
  <2>. QED
    BY <2>3, <2>4, <2>5, <2>6 DEF LeafActions
<1>. QED
  BY <1>2, <1>3 DEF PlanBuilds

-----------------------------------------------------------------------------
(* The documents that editing leads to *)

EditTypeOK ==
  /\ doc \in Documents
  /\ drag \in [on : Nat, resize : BOOLEAN]
  /\ edits \in 0 .. MaxEdits

\* what is dragged is a control, and what is resized has a size
DragIsOnControl ==
  drag # NoDrag =>
    /\ drag.on \in Selectable
    /\ drag.resize => Binding(drag.on).action.kind \in {"virtual_joystick", "mouse_aim"}
    /\ edits < MaxEdits

AimsFit(d) == \A i \in DOMAIN d.bindings : Representable(d.bindings[i])

EditIInv == EditTypeOK /\ DragIsOnControl /\ AimsFit(doc)

\* A document is made of three fields.
LEMMA DocumentFields ==
  ASSUME NEW d \in Documents
  PROVE  /\ d.named \in BOOLEAN /\ d.layers \in Seq(Layers) /\ d.bindings \in Seq(Bindings)
         /\ d = [named |-> d.named, layers |-> d.layers, bindings |-> d.bindings]
         /\ DOMAIN d.layers = 1 .. Len(d.layers) /\ Len(d.layers) \in Nat
         /\ DOMAIN d.bindings = 1 .. Len(d.bindings) /\ Len(d.bindings) \in Nat
         /\ \A l \in DOMAIN d.layers : d.layers[l] \in Layers
         /\ \A i \in DOMAIN d.bindings : d.bindings[i] \in Bindings
<1>1. /\ d.named \in BOOLEAN /\ d.layers \in Seq(Layers) /\ d.bindings \in Seq(Bindings)
      /\ d = [named |-> d.named, layers |-> d.layers, bindings |-> d.bindings]
  BY DEF Documents
<1>. QED
  BY <1>1

\* Removing a member of a sequence keeps the others in their order.
LEMMA RemovedFromSeq ==
  ASSUME NEW S, NEW s \in Seq(S), NEW i \in 1 .. Len(s)
  PROVE  /\ RemoveAt(s, i) \in Seq(S)
         /\ Len(RemoveAt(s, i)) = Len(s) - 1
         /\ \A j \in 1 .. Len(s) - 1 : RemoveAt(s, i)[j] = s[IF j < i THEN j ELSE j + 1]
<1>. DEFINE a == SubSeq(s, 1, i - 1)
            b == SubSeq(s, i + 1, Len(s))
<1>1. Len(s) \in Nat /\ i \in Int /\ 1 <= i /\ i <= Len(s)
  OBVIOUS
<1>2. \A j \in 1 .. Len(s) : s[j] \in S
  OBVIOUS
<1>3. a \in Seq(S) /\ Len(a) = i - 1 /\ \A j \in 1 .. i - 1 : a[j] = s[j]
  <2>1. \A j \in 1 .. i - 1 : s[j] \in S
    BY <1>1, <1>2
  <2>. QED
    BY <1>1, <2>1, SubSeqProperties
<1>4. b \in Seq(S) /\ Len(b) = Len(s) - i /\ \A j \in 1 .. Len(s) - i : b[j] = s[i + j]
  <2>1. \A j \in i + 1 .. Len(s) : s[j] \in S
    BY <1>1, <1>2
  <2>. QED
    BY <1>1, <2>1, SubSeqProperties
<1>. HIDE DEF a, b
<1>5. /\ a \o b \in Seq(S) /\ Len(a \o b) = Len(s) - 1
      /\ \A j \in 1 .. Len(s) - 1 : (a \o b)[j] = IF j <= i - 1 THEN a[j] ELSE b[j - (i - 1)]
  <2>1. /\ a \o b \in Seq(S) /\ Len(a \o b) = Len(a) + Len(b)
        /\ \A j \in 1 .. Len(a) + Len(b) : (a \o b)[j] = IF j <= Len(a) THEN a[j] ELSE b[j - Len(a)]
    BY <1>3, <1>4, ConcatProperties
  <2>2. Len(a) = i - 1 /\ Len(a) + Len(b) = Len(s) - 1
    BY <1>1, <1>3, <1>4
  <2>. QED
    BY <2>1, <2>2
<1>6. ASSUME NEW j \in 1 .. Len(s) - 1
      PROVE  (a \o b)[j] = s[IF j < i THEN j ELSE j + 1]
  <2>1. CASE j < i
    BY <1>1, <1>3, <1>5, <2>1
  <2>2. CASE ~(j < i)
    <3>1. j - (i - 1) \in 1 .. Len(s) - i /\ i + (j - (i - 1)) = j + 1
      BY <1>1, <2>2
    <3>. QED
      BY <1>1, <1>4, <1>5, <2>2, <3>1
  <2>. QED
    BY <2>1, <2>2
<1>. QED
  BY <1>5, <1>6 DEF RemoveAt, a, b

\* Inserting a member into a sequence keeps the others.
LEMMA InsertedIntoSeq ==
  ASSUME NEW S, NEW s \in Seq(S), NEW i \in 1 .. Len(s) + 1, NEW e \in S
  PROVE  /\ InsertAt(s, i, e) \in Seq(S)
         /\ \A j \in DOMAIN InsertAt(s, i, e) :
              InsertAt(s, i, e)[j] = e \/ \E k \in DOMAIN s : InsertAt(s, i, e)[j] = s[k]
<1>. DEFINE a == SubSeq(s, 1, i - 1)
            b == SubSeq(s, i, Len(s))
            T == {s[k] : k \in DOMAIN s} \cup {e}
<1>1. Len(s) \in Nat /\ i \in Int /\ 1 <= i /\ i <= Len(s) + 1 /\ DOMAIN s = 1 .. Len(s)
  OBVIOUS
<1>2. \A j \in 1 .. Len(s) : s[j] \in T /\ s[j] \in S
  OBVIOUS
<1>3. a \in Seq(T)
  <2>1. \A j \in 1 .. i - 1 : s[j] \in T
    BY <1>1, <1>2
  <2>. HIDE DEF T
  <2>. QED
    BY <1>1, <2>1, SubSeqProperties
<1>4. b \in Seq(T)
  <2>1. \A j \in i .. Len(s) : s[j] \in T
    BY <1>1, <1>2
  <2>. HIDE DEF T
  <2>. QED
    BY <1>1, <2>1, SubSeqProperties
<1>5. <<e>> \in Seq(T)
  <2>1. e \in T
    OBVIOUS
  <2>. HIDE DEF T
  <2>. QED
    BY <2>1
<1>6. T \subseteq S
  BY <1>1, <1>2
<1>7. InsertAt(s, i, e) \in Seq(T)
  <2>. HIDE DEF a, b, T
  <2>1. a \o <<e>> \in Seq(T)
    BY <1>3, <1>5, ConcatProperties
  <2>2. (a \o <<e>>) \o b \in Seq(T)
    BY <1>4, <2>1, ConcatProperties
  <2>. QED
    BY <2>2 DEF InsertAt, a, b
<1>8. \A j \in DOMAIN InsertAt(s, i, e) : InsertAt(s, i, e)[j] \in T
  <2>. HIDE DEF T
  <2>. QED
    BY <1>7
<1>9. InsertAt(s, i, e) \in Seq(S)
  <2>. HIDE DEF T
  <2>. QED
    BY <1>6, <1>7, SeqMonotonic
<1>. QED
  BY <1>8, <1>9

\* What a user types for a number stays between the limits, which are in order.
LEMMA WithinLimits ==
  ASSUME NEW v \in Int, NEW low \in Int, NEW high \in Int
  PROVE  /\ Within(v, low, high) \in Int
         /\ Within(v, low, high) <= high
         /\ low <= high => low <= Within(v, low, high)
  BY DEF Within, Smaller, Larger

\* A number of a joystick that is typed leaves a joystick, valid if it was.
LEMMA TypedStick ==
  ASSUME NEW n \in Sticks, NEW field \in DOMAIN n, NEW v \in Int
  PROVE  /\ TypedNumber(n, field, v) \in Sticks
         /\ RustStick(n) => RustStick(TypedNumber(n, field, v))
<1>1. /\ n.center \in Int /\ n.radius \in Int /\ n.dead_zone \in Int /\ n.reaffirm_ms \in Int
      /\ n = [center |-> n.center, radius |-> n.radius, dead_zone |-> n.dead_zone,
              reaffirm_ms |-> n.reaffirm_ms]
  BY DEF Sticks
<1>2. One \in Nat \ {0}
  BY RuleConstants
<1>3. field \in {"center", "radius", "dead_zone", "reaffirm_ms"}
  BY <1>1
<1>4. CASE field = "center"
  <2>1. PICK x : x = Within(v, 0, One)
    OBVIOUS
  <2>2. x \in Int /\ 0 <= x /\ x <= One
    BY <1>2, <2>1, WithinLimits
  <2>3. TypedNumber(n, "center", v) = [n EXCEPT !["center"] = x]
    BY <2>1 DEF TypedNumber
  <2>4. TypedNumber(n, "center", v) =
          [center |-> x, radius |-> n.radius, dead_zone |-> n.dead_zone, reaffirm_ms |-> n.reaffirm_ms]
    BY <1>1, <2>3
  <2>. QED
    BY <1>1, <1>2, <1>4, <2>2, <2>4 DEF Sticks, RustStick, Normalized
<1>5. CASE field = "radius"
  <2>1. PICK r : r = Within(v, 1, One)
    OBVIOUS
  <2>2. r \in Int /\ 1 <= r /\ r <= One
    BY <1>2, <2>1, WithinLimits
  <2>3. PICK z : z = Smaller(n.dead_zone, r - 1)
    OBVIOUS
  <2>4. z \in Int /\ z <= r - 1 /\ (n.dead_zone >= 0 => z >= 0)
    BY <1>1, <2>2, <2>3 DEF Smaller
  <2>5. TypedNumber(n, "radius", v) = [n EXCEPT !.radius = r, !.dead_zone = z]
    BY <1>1, <2>1, <2>3 DEF TypedNumber
  <2>6. TypedNumber(n, "radius", v) =
          [center |-> n.center, radius |-> r, dead_zone |-> z, reaffirm_ms |-> n.reaffirm_ms]
    BY <1>1, <2>5
  <2>. QED
    BY <1>1, <1>2, <1>5, <2>2, <2>4, <2>6 DEF Sticks, RustStick, Normalized
<1>6. CASE field = "dead_zone"
  <2>1. PICK z : z = Within(v, 0, Larger(0, n.radius - 1))
    OBVIOUS
  <2>2. PICK top \in Int : top = Larger(0, n.radius - 1) /\ 0 <= top /\ (n.radius > 0 => top < n.radius)
    BY <1>1 DEF Larger
  <2>3. z \in Int /\ 0 <= z /\ z <= top
    BY <2>1, <2>2, WithinLimits
  <2>4. TypedNumber(n, "dead_zone", v) = [n EXCEPT !.dead_zone = z]
    BY <2>1 DEF TypedNumber
  <2>5. TypedNumber(n, "dead_zone", v) =
          [center |-> n.center, radius |-> n.radius, dead_zone |-> z, reaffirm_ms |-> n.reaffirm_ms]
    BY <1>1, <2>4
  <2>. QED
    BY <1>1, <1>2, <1>6, <2>2, <2>3, <2>5 DEF Sticks, RustStick, Normalized
<1>7. CASE field = "reaffirm_ms"
  <2>1. PICK t : t = Larger(1, v)
    OBVIOUS
  <2>2. t \in Int /\ t # 0
    BY <2>1 DEF Larger
  <2>3. TypedNumber(n, "reaffirm_ms", v) = [n EXCEPT !.reaffirm_ms = t]
    BY <2>1 DEF TypedNumber
  <2>4. TypedNumber(n, "reaffirm_ms", v) =
          [center |-> n.center, radius |-> n.radius, dead_zone |-> n.dead_zone, reaffirm_ms |-> t]
    BY <1>1, <2>3
  <2>. QED
    BY <1>1, <1>7, <2>2, <2>4 DEF Sticks, RustStick, Normalized
<1>. QED
  BY <1>3, <1>4, <1>5, <1>6, <1>7

\* A number of an aim that is typed leaves an aim, valid and representable if it was.
LEMMA TypedAim ==
  ASSUME NEW n \in Aims, NEW field \in DOMAIN n, NEW v \in Typed, NEW toggle
  PROVE  /\ TypedNumber(n, field, v) \in Aims
         /\ RustAim(n, toggle) => RustAim(TypedNumber(n, field, v), toggle)
         /\ SensitivityFits(n.sensitivity, 10) =>
              SensitivityFits(TypedNumber(n, field, v).sensitivity, 10)
<1>. DEFINE With(x, w, s, t, ads, ms) ==
              [x |-> x, w |-> w, sensitivity |-> s, threshold |-> t, ads |-> ads, reaffirm_ms |-> ms]
<1>1. /\ n.x \in Int /\ n.w \in Int /\ n.sensitivity \in Int /\ n.threshold \in Int
      /\ n.ads \in Int \cup {None} /\ n.reaffirm_ms \in Int
      /\ n = With(n.x, n.w, n.sensitivity, n.threshold, n.ads, n.reaffirm_ms)
  BY DEF Aims
<1>2. One \in Nat \ {0} /\ One % 10 = 0 /\ MaxMilli \in Nat /\ 1000 <= MaxMilli
  BY RuleConstants
<1>3. v \in Int /\ Rounded(v, 10) <= MaxMilli
  BY EditingConstants
<1>4. field \in {"x", "w", "sensitivity", "threshold", "ads", "reaffirm_ms"}
  BY <1>1
<1>5. PICK tenth \in Int : tenth = One \div 10 /\ 10 * tenth = One
  BY <1>2
<1>6. CASE field = "x"
  <2>1. PICK y : y = Within(v, 0, One - n.w)
    OBVIOUS
  <2>2. y \in Int /\ y <= One - n.w /\ (n.w <= One => 0 <= y)
    BY <1>1, <1>2, <1>3, <2>1, WithinLimits
  <2>3. TypedNumber(n, "x", v) = [n EXCEPT !.x = y]
    BY <2>1 DEF TypedNumber
  <2>4. TypedNumber(n, "x", v) = With(y, n.w, n.sensitivity, n.threshold, n.ads, n.reaffirm_ms)
    BY <1>1, <2>3
  <2>. QED
    BY <1>1, <1>2, <1>6, <2>2, <2>4 DEF Aims, RustAim, Normalized
<1>7. CASE field = "w"
  <2>1. PICK y : y = Within(v, 1, One - n.x)
    OBVIOUS
  <2>2. y \in Int /\ y <= One - n.x /\ (n.x < One => 1 <= y)
    BY <1>1, <1>2, <1>3, <2>1, WithinLimits
  <2>3. TypedNumber(n, "w", v) = [n EXCEPT !.w = y]
    BY <2>1 DEF TypedNumber
  <2>4. TypedNumber(n, "w", v) = With(n.x, y, n.sensitivity, n.threshold, n.ads, n.reaffirm_ms)
    BY <1>1, <2>3
  <2>. QED
    BY <1>1, <1>2, <1>7, <2>2, <2>4 DEF Aims, RustAim, Normalized
<1>8. CASE field = "sensitivity"
  <2>1. PICK s : s = Larger(100, v)
    OBVIOUS
  <2>2. s \in Int /\ s > 0
    BY <1>3, <2>1 DEF Larger
  <2>3. SensitivityFits(s, 10)
    <3>1. s = 100 \/ s = v
      BY <2>1 DEF Larger
    <3>2. Rounded(100, 10) = 10
      BY DEF Rounded
    <3>3. Rounded(s, 10) \in Int /\ 10 <= Rounded(s, 10)
      <4>1. s \in Int /\ 100 <= s /\ 100 \in Int /\ 10 \in Nat \ {0}
        BY <1>3, <2>1 DEF Larger
      <4>. QED
        BY <3>2, <4>1, RoundingIsMonotone, SMTT(30)
    <3>. QED
      BY <1>2, <1>3, <3>1, <3>2, <3>3 DEF SensitivityFits
  <2>4. TypedNumber(n, "sensitivity", v) = [n EXCEPT !.sensitivity = s]
    BY <2>1 DEF TypedNumber
  <2>5. TypedNumber(n, "sensitivity", v) = With(n.x, n.w, s, n.threshold, n.ads, n.reaffirm_ms)
    BY <1>1, <2>4
  <2>. QED
    BY <1>1, <1>8, <2>2, <2>3, <2>5 DEF Aims, RustAim, Normalized
<1>9. PICK limited : limited = Within(v, One \div 10, One)
  OBVIOUS
<1>10. limited \in Int /\ One <= 10 * limited /\ limited <= One
  <2>1. limited = Within(v, tenth, One) /\ tenth <= One
    BY <1>2, <1>5, <1>9
  <2>2. One \in Int
    BY <1>2
  <2>3. limited \in Int /\ limited <= One /\ tenth <= limited
    BY <1>3, <1>5, <2>1, <2>2, WithinLimits
  <2>. QED
    BY <1>2, <1>5, <2>3
<1>11. CASE field = "threshold"
  <2>1. TypedNumber(n, "threshold", v) = [n EXCEPT !["threshold"] = limited]
    BY <1>9 DEF TypedNumber
  <2>2. TypedNumber(n, "threshold", v) =
          With(n.x, n.w, n.sensitivity, limited, n.ads, n.reaffirm_ms)
    BY <1>1, <2>1
  <2>. QED
    BY <1>1, <1>2, <1>10, <1>11, <2>2 DEF Aims, RustAim, Normalized
<1>12. CASE field = "ads"
  <2>1. TypedNumber(n, "ads", v) = [n EXCEPT !["ads"] = limited]
    BY <1>9 DEF TypedNumber
  <2>2. TypedNumber(n, "ads", v) =
          With(n.x, n.w, n.sensitivity, n.threshold, limited, n.reaffirm_ms)
    BY <1>1, <2>1
  <2>. QED
    BY <1>1, <1>2, <1>10, <1>12, <2>2 DEF Aims, RustAim, Normalized
<1>13. CASE field = "reaffirm_ms"
  <2>1. PICK t : t = Larger(1, v)
    OBVIOUS
  <2>2. t \in Int /\ t # 0
    BY <1>3, <2>1 DEF Larger
  <2>3. TypedNumber(n, "reaffirm_ms", v) = [n EXCEPT !.reaffirm_ms = t]
    BY <2>1 DEF TypedNumber
  <2>4. TypedNumber(n, "reaffirm_ms", v) =
          With(n.x, n.w, n.sensitivity, n.threshold, n.ads, t)
    BY <1>1, <2>3
  <2>. QED
    BY <1>1, <1>13, <2>2, <2>4 DEF Aims, RustAim, Normalized
<1>. QED
  BY <1>4, <1>6, <1>7, <1>8, <1>11, <1>12, <1>13

\* A snapped coordinate is a number.
LEMMA SnappedIsNumber ==
  ASSUME NEW v \in Int
  PROVE  Snapped(v) \in Int
<1>1. Grid \in Nat \ {0} /\ One \in Nat \ {0}
  BY EditingConstants, RuleConstants
<1>2. PICK k \in Nat \ {0} : k = 2 * Grid
  BY <1>1
<1>3. PICK q \in Int : q = (2 * v + Grid) \div (2 * Grid)
  BY <1>1, <1>2, DivisionIsMonotone
<1>4. q * Grid \in Int
  BY <1>1
<1>. QED
  BY <1>1, <1>3, <1>4, WithinLimits DEF Snapped

\* Dragging changes numbers of a control and nothing else.
LEMMA DraggedStick ==
  ASSUME NEW n \in Sticks, NEW resize \in BOOLEAN, NEW v \in Int
  PROVE  Dragged(n, resize, v) \in Sticks
<1>1. /\ n.center \in Int /\ n.radius \in Int /\ n.dead_zone \in Int /\ n.reaffirm_ms \in Int
      /\ n = [center |-> n.center, radius |-> n.radius, dead_zone |-> n.dead_zone,
              reaffirm_ms |-> n.reaffirm_ms]
      /\ DOMAIN n = {"center", "radius", "dead_zone", "reaffirm_ms"}
  BY DEF Sticks
<1>2. PICK x : x = Snapped(v)
  OBVIOUS
<1>3. x \in Int
  BY <1>2, SnappedIsNumber
<1>4. PICK r : r = Within(v, One \div 100, (45 * One) \div 100)
  OBVIOUS
<1>5. r \in Int
  <2>1. One \div 100 \in Int /\ (45 * One) \div 100 \in Int
    BY RuleConstants
  <2>. QED
    BY <1>4, <2>1, WithinLimits
<1>6. PICK z : z = Smaller(n.dead_zone, r - 1)
  OBVIOUS
<1>7. z \in Int
  BY <1>1, <1>5, <1>6 DEF Smaller
<1>8. CASE ~resize
  <2>1. Dragged(n, resize, v) = [n EXCEPT !.center = x]
    BY <1>1, <1>2, <1>8 DEF Dragged
  <2>2. Dragged(n, resize, v) =
          [center |-> x, radius |-> n.radius, dead_zone |-> n.dead_zone, reaffirm_ms |-> n.reaffirm_ms]
    BY <1>1, <2>1
  <2>. QED
    BY <1>1, <1>3, <2>2 DEF Sticks
<1>9. CASE resize
  <2>1. Dragged(n, resize, v) = [n EXCEPT !.radius = r, !.dead_zone = z]
    BY <1>1, <1>4, <1>6, <1>9 DEF Dragged
  <2>2. Dragged(n, resize, v) =
          [center |-> n.center, radius |-> r, dead_zone |-> z, reaffirm_ms |-> n.reaffirm_ms]
    BY <1>1, <2>1
  <2>. QED
    BY <1>1, <1>5, <1>7, <2>2 DEF Sticks
<1>. QED
  BY <1>8, <1>9

\* Dragging an aim changes where it is or its size, never its sensitivity.
LEMMA DraggedAim ==
  ASSUME NEW n \in Aims, NEW resize \in BOOLEAN, NEW v \in Int
  PROVE  /\ Dragged(n, resize, v) \in Aims
         /\ Dragged(n, resize, v).sensitivity = n.sensitivity
<1>. DEFINE With(x, w) ==
              [x |-> x, w |-> w, sensitivity |-> n.sensitivity, threshold |-> n.threshold,
               ads |-> n.ads, reaffirm_ms |-> n.reaffirm_ms]
<1>1. /\ n.x \in Int /\ n.w \in Int /\ n.sensitivity \in Int /\ n.threshold \in Int
      /\ n.ads \in Int \cup {None} /\ n.reaffirm_ms \in Int
      /\ n = With(n.x, n.w)
      /\ DOMAIN n = {"x", "w", "sensitivity", "threshold", "ads", "reaffirm_ms"}
  BY DEF Aims
<1>2. One \in Int /\ One \div 20 \in Int
  BY RuleConstants
<1>3. PICK x : x = Snapped(Within(v, 0, One - n.w))
  OBVIOUS
<1>4. x \in Int
  <2>1. Within(v, 0, One - n.w) \in Int
    BY <1>1, <1>2, WithinLimits
  <2>. QED
    BY <1>3, <2>1, SnappedIsNumber
<1>5. PICK w : w = Snapped(Within(v - n.x, One \div 20, One - n.x))
  OBVIOUS
<1>6. w \in Int
  <2>1. Within(v - n.x, One \div 20, One - n.x) \in Int
    <3>1. v - n.x \in Int /\ One - n.x \in Int
      BY <1>1, <1>2
    <3>. QED
      BY <1>2, <3>1, WithinLimits
  <2>. QED
    BY <1>5, <2>1, SnappedIsNumber
<1>7. CASE ~resize
  <2>1. Dragged(n, resize, v) = [n EXCEPT !.x = x]
    BY <1>1, <1>3, <1>7 DEF Dragged
  <2>2. Dragged(n, resize, v) = With(x, n.w)
    BY <1>1, <2>1
  <2>. QED
    BY <1>1, <1>4, <2>2 DEF Aims
<1>8. CASE resize
  <2>1. Dragged(n, resize, v) = [n EXCEPT !.w = w]
    BY <1>1, <1>5, <1>8 DEF Dragged
  <2>2. Dragged(n, resize, v) = With(n.x, w)
    BY <1>1, <2>1
  <2>. QED
    BY <1>1, <1>6, <2>2 DEF Aims
<1>. QED
  BY <1>7, <1>8

\* A copy is put beside its original: only its place differs.
LEMMA BesideStick ==
  ASSUME NEW n \in Sticks
  PROVE  Beside(n) \in Sticks
<1>1. /\ n.center \in Int /\ n.radius \in Int /\ n.dead_zone \in Int /\ n.reaffirm_ms \in Int
      /\ n = [center |-> n.center, radius |-> n.radius, dead_zone |-> n.dead_zone,
              reaffirm_ms |-> n.reaffirm_ms]
      /\ DOMAIN n = {"center", "radius", "dead_zone", "reaffirm_ms"}
  BY DEF Sticks
<1>2. PICK x : x = Within(n.center + One \div 40, 0, One)
  OBVIOUS
<1>3. x \in Int
  <2>1. n.center + One \div 40 \in Int /\ One \in Int
    BY <1>1, RuleConstants
  <2>. QED
    BY <1>2, <2>1, WithinLimits
<1>4. Beside(n) = [n EXCEPT !.center = x]
  BY <1>1, <1>2 DEF Beside
<1>5. Beside(n) =
        [center |-> x, radius |-> n.radius, dead_zone |-> n.dead_zone, reaffirm_ms |-> n.reaffirm_ms]
  BY <1>1, <1>4
<1>. QED
  BY <1>1, <1>3, <1>5 DEF Sticks

\* A copy of an aim is an aim with the same sensitivity.
LEMMA BesideAim ==
  ASSUME NEW n \in Aims
  PROVE  Beside(n) \in Aims /\ Beside(n).sensitivity = n.sensitivity
<1>. DEFINE With(x) ==
              [x |-> x, w |-> n.w, sensitivity |-> n.sensitivity, threshold |-> n.threshold,
               ads |-> n.ads, reaffirm_ms |-> n.reaffirm_ms]
<1>1. /\ n.x \in Int /\ n.w \in Int /\ n.sensitivity \in Int /\ n.threshold \in Int
      /\ n.ads \in Int \cup {None} /\ n.reaffirm_ms \in Int
      /\ n = With(n.x)
      /\ DOMAIN n = {"x", "w", "sensitivity", "threshold", "ads", "reaffirm_ms"}
  BY DEF Aims
<1>2. PICK x : x = Within(n.x + One \div 50, 0, One - n.w)
  OBVIOUS
<1>3. x \in Int
  <2>1. PICK c \in Int : c = n.x + One \div 50
    BY <1>1, RuleConstants
  <2>2. PICK top \in Int : top = One - n.w
    BY <1>1, RuleConstants
  <2>3. x = Within(c, 0, top)
    BY <1>2, <2>1, <2>2
  <2>. QED
    BY <2>3, WithinLimits
<1>4. Beside(n) = [n EXCEPT !.x = x]
  BY <1>1, <1>2 DEF Beside
<1>5. Beside(n) = With(x)
  BY <1>1, <1>4
<1>. QED
  BY <1>1, <1>3, <1>5 DEF Aims


\* What changing the numbers of an action makes of it.
LEMMA NumbersOfAction ==
  ASSUME NEW a \in LeafActions, NEW m,
         a.kind \in {"tap", "hold"} => m \in [point : Int],
         a.kind = "virtual_joystick" => m \in Sticks,
         a.kind = "mouse_aim" => m \in Aims
  PROVE  /\ [a EXCEPT !.n = m] \in LeafActions
         /\ [a EXCEPT !.n = m] = [kind |-> a.kind, n |-> m, toggle |-> a.toggle, steps |-> a.steps]
<1>1. /\ a = [kind |-> a.kind, n |-> a.n, toggle |-> a.toggle, steps |-> a.steps]
      /\ a.kind \in {"tap", "hold", "virtual_joystick", "mouse_aim"}
      /\ a.toggle \in Toggles /\ a.steps = <<>>
  BY DEF LeafActions
<1>2. [a EXCEPT !.n = m] = [kind |-> a.kind, n |-> m, toggle |-> a.toggle, steps |-> a.steps]
  BY <1>1
<1>3. CASE a.kind \in {"tap", "hold"}
  BY <1>1, <1>2, <1>3 DEF LeafActions
<1>4. CASE a.kind = "virtual_joystick"
  BY <1>1, <1>2, <1>4 DEF LeafActions
<1>5. CASE a.kind = "mouse_aim"
  BY <1>1, <1>2, <1>5 DEF LeafActions
<1>. QED
  BY <1>1, <1>2, <1>3, <1>4, <1>5

\* A binding is made of five fields.
LEMMA BindingFields ==
  ASSUME NEW b \in Bindings
  PROVE  /\ b.name \in Words /\ b.layer \in Words \cup {None}
         /\ b.modifier \in Spellings \cup {None}
         /\ b.input \in Triggers /\ b.action \in LeafActions \cup Macros
         /\ b = [name |-> b.name, layer |-> b.layer, modifier |-> b.modifier,
                 input |-> b.input, action |-> b.action]
  BY DEF Bindings

\* The numbers of a control, changed in the profile.
LEMMA NumbersOfBinding ==
  ASSUME NEW b \in Bindings, NEW m
  PROVE  [b EXCEPT !.action.n = m] =
           [name |-> b.name, layer |-> b.layer, modifier |-> b.modifier, input |-> b.input,
            action |-> [b.action EXCEPT !.n = m]]
<1>1. b = [name |-> b.name, layer |-> b.layer, modifier |-> b.modifier,
           input |-> b.input, action |-> b.action]
  BY BindingFields
<1>. QED
  BY <1>1

\* The controls that the inspector shows are those that are not macros.
LEMMA SelectableIsLeaf ==
  ASSUME doc \in Documents, NEW i \in Selectable
  PROVE  /\ i \in DOMAIN doc.bindings /\ Binding(i) \in Bindings
         /\ Binding(i).action \in LeafActions
<1>1. i \in DOMAIN doc.bindings /\ Binding(i) \in Bindings /\ Binding(i).action.kind # "macro"
  BY DocumentFields DEF Selectable, Binding
<1>2. Binding(i).action \in LeafActions \cup Macros
  BY <1>1, BindingFields
<1>. QED
  BY <1>1, <1>2 DEF Macros

\* A profile whose controls are replaced.
LEMMA WithBindings ==
  ASSUME NEW d \in Documents, NEW s \in Seq(Bindings), \A i \in DOMAIN s : Representable(s[i])
  PROVE  /\ [d EXCEPT !.bindings = s] = [named |-> d.named, layers |-> d.layers, bindings |-> s]
         /\ [d EXCEPT !.bindings = s] \in Documents
         /\ AimsFit([d EXCEPT !.bindings = s])
<1>1. [d EXCEPT !.bindings = s] = [named |-> d.named, layers |-> d.layers, bindings |-> s]
  BY DocumentFields
<1>. QED
  BY <1>1, DocumentFields DEF Documents, AimsFit

\* A profile whose layers are replaced.
LEMMA WithLayers ==
  ASSUME NEW d \in Documents, NEW s \in Seq(Layers)
  PROVE  /\ [d EXCEPT !.layers = s] = [named |-> d.named, layers |-> s, bindings |-> d.bindings]
         /\ [d EXCEPT !.layers = s] \in Documents
         /\ AimsFit(d) => AimsFit([d EXCEPT !.layers = s])
<1>1. [d EXCEPT !.layers = s] = [named |-> d.named, layers |-> s, bindings |-> d.bindings]
  BY DocumentFields
<1>. QED
  BY <1>1, DocumentFields DEF Documents, AimsFit

\* A profile of which one control is replaced.
LEMMA WithBinding ==
  ASSUME NEW d \in Documents, AimsFit(d), NEW i \in DOMAIN d.bindings,
         NEW b \in Bindings, Representable(b)
  PROVE  /\ [d EXCEPT !.bindings[i] = b] =
              [named |-> d.named, layers |-> d.layers, bindings |-> [d.bindings EXCEPT ![i] = b]]
         /\ [d EXCEPT !.bindings[i] = b] \in Documents
         /\ AimsFit([d EXCEPT !.bindings[i] = b])
<1>1. PICK s : s = [d.bindings EXCEPT ![i] = b]
  OBVIOUS
<1>2. d.bindings \in Seq(Bindings) /\ i \in 1 .. Len(d.bindings)
  BY DocumentFields
<1>3. s \in Seq(Bindings)
  BY <1>1, <1>2, ExceptSeq
<1>4. \A j \in DOMAIN s : Representable(s[j])
  BY <1>1, <1>2 DEF AimsFit
<1>5. [d EXCEPT !.bindings[i] = b] = [d EXCEPT !.bindings = s]
  BY <1>1, DocumentFields
<1>. QED
  BY <1>1, <1>3, <1>4, <1>5, WithBindings

\* A profile of which one layer is replaced.
LEMMA WithLayer ==
  ASSUME NEW d \in Documents, NEW l \in DOMAIN d.layers, NEW layer \in Layers
  PROVE  /\ [d.layers EXCEPT ![l] = layer] \in Seq(Layers)
         /\ Len([d.layers EXCEPT ![l] = layer]) = Len(d.layers)
         /\ DOMAIN [d.layers EXCEPT ![l] = layer] = DOMAIN d.layers
         /\ \A k \in DOMAIN d.layers :
              [d.layers EXCEPT ![l] = layer][k] = IF k = l THEN layer ELSE d.layers[k]
<1>1. d.layers \in Seq(Layers) /\ l \in 1 .. Len(d.layers) /\ DOMAIN d.layers = 1 .. Len(d.layers)
  BY DocumentFields
<1>. QED
  BY <1>1, ExceptSeq

\* A layer with another name.
LEMMA LayerOtherName ==
  ASSUME NEW d \in Documents, NEW l \in DOMAIN d.layers, NEW x
  PROVE  [d EXCEPT !.layers[l].name = x] =
           [d EXCEPT !.layers = [d.layers EXCEPT ![l] =
              [name |-> x, mode |-> d.layers[l].mode, key |-> d.layers[l].key]]]
<1>1. PICK layer \in Layers : layer = d.layers[l]
  BY DocumentFields
<1>2. [layer EXCEPT !.name = x] = [name |-> x, mode |-> layer.mode, key |-> layer.key]
  BY DEF Layers
<1>3. [d EXCEPT !.layers[l].name = x] =
        [d EXCEPT !.layers = [d.layers EXCEPT ![l] = [layer EXCEPT !.name = x]]]
  BY <1>1
<1>. QED
  BY <1>1, <1>2, <1>3, Zenon

\* A layer with another mode.
LEMMA LayerOtherMode ==
  ASSUME NEW d \in Documents, NEW l \in DOMAIN d.layers, NEW x
  PROVE  [d EXCEPT !.layers[l].mode = x] =
           [d EXCEPT !.layers = [d.layers EXCEPT ![l] =
              [name |-> d.layers[l].name, mode |-> x, key |-> d.layers[l].key]]]
<1>1. PICK layer \in Layers : layer = d.layers[l]
  BY DocumentFields
<1>2. [layer EXCEPT !.mode = x] = [name |-> layer.name, mode |-> x, key |-> layer.key]
  BY DEF Layers
<1>3. [d EXCEPT !.layers[l].mode = x] =
        [d EXCEPT !.layers = [d.layers EXCEPT ![l] = [layer EXCEPT !.mode = x]]]
  BY <1>1
<1>. QED
  BY <1>1, <1>2, <1>3, Zenon

\* A layer with another key.
LEMMA LayerOtherKey ==
  ASSUME NEW d \in Documents, NEW l \in DOMAIN d.layers, NEW x
  PROVE  [d EXCEPT !.layers[l].key = x] =
           [d EXCEPT !.layers = [d.layers EXCEPT ![l] =
              [name |-> d.layers[l].name, mode |-> d.layers[l].mode, key |-> x]]]
<1>1. PICK layer \in Layers : layer = d.layers[l]
  BY DocumentFields
<1>2. [layer EXCEPT !.key = x] = [name |-> layer.name, mode |-> layer.mode, key |-> x]
  BY DEF Layers
<1>3. [d EXCEPT !.layers[l].key = x] =
        [d EXCEPT !.layers = [d.layers EXCEPT ![l] = [layer EXCEPT !.key = x]]]
  BY <1>1
<1>. QED
  BY <1>1, <1>2, <1>3, Zenon

\* A control, moved from a layer to another if it is there.
Rerouted(b, from, to) ==
  [name |-> b.name, layer |-> IF b.layer = from THEN to ELSE b.layer, modifier |-> b.modifier,
   input |-> b.input, action |-> b.action]

\* What moving makes of the fields of a control.
LEMMA ReroutedFields ==
  ASSUME NEW b, NEW from, NEW to, NEW c, c = Rerouted(b, from, to)
  PROVE  /\ c.name = b.name /\ c.modifier = b.modifier /\ c.input = b.input /\ c.action = b.action
         /\ b.layer = from => c.layer = to
         /\ b.layer # from => c.layer = b.layer
  BY DEF Rerouted

\* Controls with the same trigger have the same inputs.
LEMMA SameInputs ==
  ASSUME NEW b, NEW c, b.input = c.input
  PROVE  InputSet(b) = InputSet(c) /\ InputKeys(b) = InputKeys(c)
<1>1. \A x : x \in InputSet(b) <=> x \in InputSet(c)
  BY DEF InputSet
<1>2. InputSet(b) = InputSet(c)
  BY <1>1
<1>. QED
  BY <1>2 DEF InputKeys

\* A document with other controls.
LEMMA OtherBindings ==
  ASSUME NEW d \in Documents, NEW s
  PROVE  [d EXCEPT !.bindings = s] = [named |-> d.named, layers |-> d.layers, bindings |-> s]
  BY DocumentFields

\* Moving the controls of a layer to another changes nothing else of them.
LEMMA MovedBindings ==
  ASSUME NEW d \in Documents, NEW from, NEW to \in Words \cup {None}
  PROVE  \E s \in Seq(Bindings) :
           /\ Moved(d, from, to) = [d EXCEPT !.bindings = s]
           /\ DOMAIN s = DOMAIN d.bindings
           /\ \A i \in DOMAIN s : s[i] = Rerouted(d.bindings[i], from, to)
<1>. DEFINE n == Len(d.bindings)
            b(i) == d.bindings[i]
            New(i) == Rerouted(b(i), from, to)
<1>1. PICK s : s = [i \in DOMAIN d.bindings |->
                      IF b(i).layer = from THEN [b(i) EXCEPT !.layer = to] ELSE b(i)]
  OBVIOUS
<1>2. n \in Nat /\ DOMAIN d.bindings = 1 .. n /\ \A i \in 1 .. n : b(i) \in Bindings
  BY DocumentFields
<1>3. ASSUME NEW i \in 1 .. n
      PROVE  s[i] = New(i) /\ New(i) \in Bindings
  <2>1. PICK c \in Bindings : c = b(i)
    BY <1>2
  <2>2. /\ c = [name |-> c.name, layer |-> c.layer, modifier |-> c.modifier,
                input |-> c.input, action |-> c.action]
        /\ c.name \in Words /\ c.layer \in Words \cup {None}
        /\ c.modifier \in Spellings \cup {None}
        /\ c.input \in Triggers /\ c.action \in LeafActions \cup Macros
    BY BindingFields
  <2>3. [c EXCEPT !.layer = to] = [name |-> c.name, layer |-> to, modifier |-> c.modifier,
                                   input |-> c.input, action |-> c.action]
    BY <2>2
  <2>4. s[i] = IF c.layer = from THEN [c EXCEPT !.layer = to] ELSE c
    BY <1>1, <1>2, <2>1
  <2>5. s[i] = New(i)
    BY <2>1, <2>2, <2>3, <2>4 DEF Rerouted
  <2>6. New(i) \in Bindings
    BY <2>1, <2>2 DEF Bindings, Rerouted
  <2>. QED
    BY <2>5, <2>6
<1>4. s \in Seq(Bindings)
  <2>1. s = [i \in 1 .. n |-> s[i]] /\ \A i \in 1 .. n : s[i] \in Bindings
    BY <1>1, <1>2, <1>3
  <2>. HIDE DEF n
  <2>. QED
    BY <1>2, <2>1
<1>5. Moved(d, from, to) = [d EXCEPT !.bindings = s]
  BY <1>1 DEF Moved
<1>. QED
  BY <1>1, <1>2, <1>3, <1>4, <1>5

-----------------------------------------------------------------------------
(* Every edit keeps the document of its type and its aims representable *)

\* A commit of a document of the right type keeps the invariant: nothing is dragged.
LEMMA CommitKeeps ==
  ASSUME EditIInv, NEW d \in Documents, AimsFit(d), Commit(d)
  PROVE  EditIInv'
<1>1. doc' = d /\ drag = NoDrag /\ drag' = drag /\ edits' = edits + 1 /\ edits < MaxEdits
  BY DEF Commit
<1>2. EditTypeOK'
  BY <1>1, EditingConstants DEF EditIInv, EditTypeOK
<1>3. DragIsOnControl'
  BY <1>1 DEF DragIsOnControl
<1>4. AimsFit(doc)'
  BY <1>1 DEF AimsFit
<1>. QED
  BY <1>2, <1>3, <1>4 DEF EditIInv

\* An edit that replaces a control by a control keeps the invariant.
LEMMA EditBindingKeeps ==
  ASSUME EditIInv, NEW i \in DOMAIN doc.bindings, NEW b \in Bindings, Representable(b),
         EditBinding(i, b)
  PROVE  EditIInv'
<1>1. doc \in Documents /\ AimsFit(doc)
  BY DEF EditIInv, EditTypeOK
<1>2. /\ [doc EXCEPT !.bindings[i] = b] \in Documents
      /\ AimsFit([doc EXCEPT !.bindings[i] = b])
  BY <1>1, WithBinding
<1>. QED
  BY <1>2, CommitKeeps DEF EditBinding

\* What the edits of the inspector make of a control.
LEMMA BindingEdits ==
  ASSUME NEW b \in Bindings, NEW x, NEW k
  PROVE  /\ [b EXCEPT !.name = x] =
              [name |-> x, layer |-> b.layer, modifier |-> b.modifier, input |-> b.input,
               action |-> b.action]
         /\ [b EXCEPT !.layer = x] =
              [name |-> b.name, layer |-> x, modifier |-> b.modifier, input |-> b.input,
               action |-> b.action]
         /\ [b EXCEPT !.modifier = x] =
              [name |-> b.name, layer |-> b.layer, modifier |-> x, input |-> b.input,
               action |-> b.action]
         /\ [b EXCEPT !.layer = None, !.modifier = None] =
              [name |-> b.name, layer |-> None, modifier |-> None, input |-> b.input,
               action |-> b.action]
         /\ [b EXCEPT !.input = x] =
              [name |-> b.name, layer |-> b.layer, modifier |-> b.modifier, input |-> x,
               action |-> b.action]
         /\ [b EXCEPT !.input.on[k] = x] =
              [name |-> b.name, layer |-> b.layer, modifier |-> b.modifier,
               input |-> [b.input EXCEPT !.on[k] = x], action |-> b.action]
         /\ [b EXCEPT !.action.toggle = x] =
              [name |-> b.name, layer |-> b.layer, modifier |-> b.modifier, input |-> b.input,
               action |-> [b.action EXCEPT !.toggle = x]]
<1>1. b = [name |-> b.name, layer |-> b.layer, modifier |-> b.modifier, input |-> b.input,
           action |-> b.action]
  BY BindingFields
<1>2. /\ [b EXCEPT !.name = x] =
           [name |-> x, layer |-> b.layer, modifier |-> b.modifier, input |-> b.input,
            action |-> b.action]
      /\ [b EXCEPT !.layer = x] =
           [name |-> b.name, layer |-> x, modifier |-> b.modifier, input |-> b.input,
            action |-> b.action]
  BY <1>1
<1>3. [b EXCEPT !.modifier = x] =
        [name |-> b.name, layer |-> b.layer, modifier |-> x, input |-> b.input,
         action |-> b.action]
  BY <1>1
<1>4. /\ [b EXCEPT !.input = x] =
           [name |-> b.name, layer |-> b.layer, modifier |-> b.modifier, input |-> x,
            action |-> b.action]
      /\ [b EXCEPT !.input.on[k] = x] =
           [name |-> b.name, layer |-> b.layer, modifier |-> b.modifier,
            input |-> [b.input EXCEPT !.on[k] = x], action |-> b.action]
  BY <1>1
<1>5. [b EXCEPT !.action.toggle = x] =
        [name |-> b.name, layer |-> b.layer, modifier |-> b.modifier, input |-> b.input,
         action |-> [b.action EXCEPT !.toggle = x]]
  BY <1>1
<1>6. [b EXCEPT !.layer = None, !.modifier = None] =
        [name |-> b.name, layer |-> None, modifier |-> None, input |-> b.input,
         action |-> b.action]
  <2>1. PICK name, input, action : name = b.name /\ input = b.input /\ action = b.action
    OBVIOUS
  <2>2. PICK layer, modifier : layer = b.layer /\ modifier = b.modifier
    OBVIOUS
  <2>3. b = [name |-> name, layer |-> layer, modifier |-> modifier, input |-> input,
             action |-> action]
    BY <1>1, <2>1, <2>2
  <2>4. PICK c : c = [b EXCEPT !.layer = None]
    OBVIOUS
  <2>5. c = [name |-> name, layer |-> None, modifier |-> modifier, input |-> input, action |-> action]
    BY <2>3, <2>4
  <2>6. [b EXCEPT !.layer = None, !.modifier = None] = [c EXCEPT !.modifier = None]
    BY <2>3, <2>4, <2>5
  <2>7. [c EXCEPT !.modifier = None] =
          [name |-> name, layer |-> None, modifier |-> None, input |-> input, action |-> action]
    BY <2>5
  <2>. QED
    BY <2>1, <2>6, <2>7
<1>. QED
  BY <1>2, <1>3, <1>4, <1>5, <1>6, Zenon

\* A key that is recorded for an input leaves an input of its kind.
LEMMA RecordedKey ==
  ASSUME NEW input \in Triggers, input.kind # "mouse_move", NEW k, NEW key \in Spellings
  PROVE  /\ [input EXCEPT !.on[k] = key] \in Triggers
         /\ [input EXCEPT !.on[k] = key].kind = input.kind
<1>1. /\ input.kind \in {"key", "key_cluster", "mouse_button"} /\ input.on \in Seq(Spellings)
      /\ input = [kind |-> input.kind, on |-> input.on]
  BY DEF Triggers
<1>2. PICK on : on = [input.on EXCEPT ![k] = key]
  OBVIOUS
<1>3. [input EXCEPT !.on[k] = key] = [kind |-> input.kind, on |-> on]
  <2>1. PICK kind : kind = input.kind
    OBVIOUS
  <2>2. PICK keys : keys = input.on
    OBVIOUS
  <2>3. input = [kind |-> kind, on |-> keys]
    BY <1>1, <2>1, <2>2
  <2>4. [input EXCEPT !.on[k] = key] = [kind |-> kind, on |-> [keys EXCEPT ![k] = key]]
    BY <2>3
  <2>. QED
    BY <1>2, <2>1, <2>2, <2>4
<1>4. on \in Seq(Spellings)
  <2>1. CASE k \in DOMAIN input.on
    BY <1>1, <1>2, <2>1, ExceptSeq
  <2>2. CASE k \notin DOMAIN input.on
    <3>1. on = input.on
      <4>1. input.on = [j \in DOMAIN input.on |-> input.on[j]]
        BY <1>1
      <4>2. on = [j \in DOMAIN input.on |-> IF j = k THEN key ELSE input.on[j]]
        BY <1>2, Zenon
      <4>. QED
        BY <2>2, <4>1, <4>2
    <3>. QED
      BY <1>1, <3>1
  <2>. QED
    BY <2>1, <2>2
<1>. QED
  BY <1>1, <1>3, <1>4 DEF Triggers

\* The names of layers are words.
LEMMA LayerNamesAreWords ==
  ASSUME NEW d \in Documents
  PROVE  LayerNames(d) \subseteq Words
<1>1. \A l \in DOMAIN d.layers : d.layers[l] \in Layers
  BY DocumentFields
<1>. QED
  BY <1>1 DEF LayerNames, Layers

\* Keys and buttons are spellings of themselves.
LEMMA KeysAreSpellings ==
  TypedKeys \subseteq Spellings /\ ButtonNames \subseteq Spellings
  BY RuleConstants, EditingConstants DEF Spellings

\* A control with other fields and the same action is a control, as representable as it was.
LEMMA OtherFields ==
  ASSUME NEW b \in Bindings, Representable(b), NEW name \in Words, NEW layer \in Words \cup {None},
         NEW modifier \in Spellings \cup {None}, NEW input \in Triggers
  PROVE  /\ [name |-> name, layer |-> layer, modifier |-> modifier, input |-> input,
             action |-> b.action] \in Bindings
         /\ Representable([name |-> name, layer |-> layer, modifier |-> modifier,
                           input |-> input, action |-> b.action])
<1>1. b.action \in LeafActions \cup Macros
  BY BindingFields
<1>. QED
  BY <1>1 DEF Bindings, Representable

\* What the inspector shows is a control of the document.
LEMMA InspectedBinding ==
  ASSUME EditIInv, NEW i \in Selectable
  PROVE  /\ doc \in Documents /\ i \in DOMAIN doc.bindings
         /\ Binding(i) \in Bindings /\ Binding(i).action \in LeafActions
         /\ Representable(Binding(i))
<1>1. doc \in Documents /\ AimsFit(doc)
  BY DEF EditIInv, EditTypeOK
<1>2. i \in DOMAIN doc.bindings /\ Binding(i) \in Bindings /\ Binding(i).action \in LeafActions
  BY <1>1, SelectableIsLeaf
<1>. QED
  BY <1>1, <1>2 DEF AimsFit, Binding

\* Renaming and routing a control keep the invariant.
LEMMA RoutingKeeps ==
  ASSUME EditIInv, NEW i \in Selectable
  PROVE  /\ \A name \in TypedNames : RenameBinding(i, name) => EditIInv'
         /\ \A layer \in LayerNames(doc) \cup {None} : BindingLayer(i, layer) => EditIInv'
         /\ \A key \in TypedKeys \cup {None} : BindingModifier(i, key) => EditIInv'
         /\ ClearRouting(i) => EditIInv'
<1>1. PICK b \in Bindings : b = Binding(i)
  BY InspectedBinding
<1>2. Representable(b) /\ i \in DOMAIN doc.bindings /\ doc \in Documents
  BY <1>1, InspectedBinding
<1>3. /\ b.name \in Words /\ b.layer \in Words \cup {None}
      /\ b.modifier \in Spellings \cup {None} /\ b.input \in Triggers
  BY BindingFields
<1>4. ASSUME NEW name \in TypedNames, RenameBinding(i, name)
      PROVE  EditIInv'
  <2>1. PICK c : c = [b EXCEPT !.name = name]
    OBVIOUS
  <2>2. c = [name |-> name, layer |-> b.layer, modifier |-> b.modifier, input |-> b.input,
             action |-> b.action]
    BY <2>1, BindingEdits
  <2>3. name \in Words
    BY EditingConstants
  <2>4. c \in Bindings /\ Representable(c)
    BY <1>2, <1>3, <2>2, <2>3, OtherFields
  <2>5. EditBinding(i, c)
    BY <1>1, <1>4, <2>1 DEF RenameBinding
  <2>. QED
    BY <1>2, <2>4, <2>5, EditBindingKeeps
<1>5. ASSUME NEW layer \in LayerNames(doc) \cup {None}, BindingLayer(i, layer)
      PROVE  EditIInv'
  <2>1. PICK c : c = [b EXCEPT !.layer = layer]
    OBVIOUS
  <2>2. c = [name |-> b.name, layer |-> layer, modifier |-> b.modifier, input |-> b.input,
             action |-> b.action]
    BY <2>1, BindingEdits
  <2>3. layer \in Words \cup {None}
    BY <1>2, LayerNamesAreWords
  <2>4. c \in Bindings /\ Representable(c)
    BY <1>2, <1>3, <2>2, <2>3, OtherFields
  <2>5. EditBinding(i, c)
    BY <1>1, <1>5, <2>1 DEF BindingLayer
  <2>. QED
    BY <1>2, <2>4, <2>5, EditBindingKeeps
<1>6. ASSUME NEW key \in TypedKeys \cup {None}, BindingModifier(i, key)
      PROVE  EditIInv'
  <2>1. PICK c : c = [b EXCEPT !.modifier = key]
    OBVIOUS
  <2>2. c = [name |-> b.name, layer |-> b.layer, modifier |-> key, input |-> b.input,
             action |-> b.action]
    BY <2>1, BindingEdits
  <2>3. key \in Spellings \cup {None}
    BY KeysAreSpellings
  <2>4. c \in Bindings /\ Representable(c)
    BY <1>2, <1>3, <2>2, <2>3, OtherFields
  <2>5. EditBinding(i, c)
    BY <1>1, <1>6, <2>1 DEF BindingModifier
  <2>. QED
    BY <1>2, <2>4, <2>5, EditBindingKeeps
<1>7. ASSUME ClearRouting(i)
      PROVE  EditIInv'
  <2>1. PICK c : c = [b EXCEPT !.layer = None, !.modifier = None]
    OBVIOUS
  <2>2. c = [name |-> b.name, layer |-> None, modifier |-> None, input |-> b.input,
             action |-> b.action]
    BY <2>1, BindingEdits
  <2>3. c \in Bindings /\ Representable(c)
    BY <1>2, <1>3, <2>2, OtherFields
  <2>4. EditBinding(i, c)
    BY <1>1, <1>7, <2>1 DEF ClearRouting
  <2>. QED
    BY <1>2, <2>3, <2>4, EditBindingKeeps
<1>. QED
  BY <1>4, <1>5, <1>6, <1>7

\* Choosing the input of a control keeps the invariant.
LEMMA InputsKeep ==
  ASSUME EditIInv, NEW i \in Selectable
  PROVE  /\ \A kind \in {"key", "mouse_button"} : InputKind(i, kind) => EditIInv'
         /\ \A k \in DOMAIN Binding(i).input.on, key \in TypedKeys :
              InputKey(i, k, key) => EditIInv'
         /\ \A button \in ButtonNames : MouseButton(i, button) => EditIInv'
<1>1. PICK b \in Bindings : b = Binding(i)
  BY InspectedBinding
<1>2. Representable(b) /\ i \in DOMAIN doc.bindings
  BY <1>1, InspectedBinding
<1>3. /\ b.name \in Words /\ b.layer \in Words \cup {None}
      /\ b.modifier \in Spellings \cup {None} /\ b.input \in Triggers
  BY BindingFields
<1>4. ASSUME NEW kind \in {"key", "mouse_button"}, InputKind(i, kind)
      PROVE  EditIInv'
  <2>1. PICK c : c = [b EXCEPT !.input = DefaultInput[kind]]
    OBVIOUS
  <2>2. c = [name |-> b.name, layer |-> b.layer, modifier |-> b.modifier,
             input |-> DefaultInput[kind], action |-> b.action]
    BY <2>1, BindingEdits
  <2>3. DefaultInput[kind] \in Triggers
    BY EditingConstants
  <2>4. c \in Bindings /\ Representable(c)
    BY <1>2, <1>3, <2>2, <2>3, OtherFields
  <2>5. EditBinding(i, c)
    BY <1>1, <1>4, <2>1 DEF InputKind
  <2>. QED
    BY <1>2, <2>4, <2>5, EditBindingKeeps
<1>5. ASSUME NEW k, NEW key \in Spellings, b.input.kind # "mouse_move",
             EditBinding(i, [b EXCEPT !.input.on[k] = key])
      PROVE  EditIInv'
  <2>1. PICK c : c = [b EXCEPT !.input.on[k] = key]
    OBVIOUS
  <2>2. c = [name |-> b.name, layer |-> b.layer, modifier |-> b.modifier,
             input |-> [b.input EXCEPT !.on[k] = key], action |-> b.action]
    BY <2>1, BindingEdits
  <2>3. [b.input EXCEPT !.on[k] = key] \in Triggers
    BY <1>3, <1>5, RecordedKey
  <2>4. c \in Bindings /\ Representable(c)
    BY <1>2, <1>3, <2>2, <2>3, OtherFields
  <2>. QED
    BY <1>2, <1>5, <2>1, <2>4, EditBindingKeeps
<1>6. ASSUME NEW k \in DOMAIN Binding(i).input.on, NEW key \in TypedKeys, InputKey(i, k, key)
      PROVE  EditIInv'
  <2>1. key \in Spellings /\ b.input.kind # "mouse_move"
    BY <1>1, <1>6, KeysAreSpellings DEF InputKey
  <2>2. EditBinding(i, [b EXCEPT !.input.on[k] = key])
    BY <1>1, <1>6 DEF InputKey
  <2>. QED
    BY <1>5, <2>1, <2>2
<1>7. ASSUME NEW button \in ButtonNames, MouseButton(i, button)
      PROVE  EditIInv'
  <2>1. button \in Spellings /\ b.input.kind # "mouse_move"
    BY <1>1, <1>7, KeysAreSpellings DEF MouseButton
  <2>2. EditBinding(i, [b EXCEPT !.input.on[1] = button])
    BY <1>1, <1>7 DEF MouseButton
  <2>. QED
    BY <1>5, <2>1, <2>2
<1>. QED
  BY <1>4, <1>6, <1>7

\* A control with another action is a control.
LEMMA OtherAction ==
  ASSUME NEW b \in Bindings, NEW a \in LeafActions
  PROVE  [name |-> b.name, layer |-> b.layer, modifier |-> b.modifier, input |-> b.input,
          action |-> a] \in Bindings
  BY BindingFields DEF Bindings

\* What another toggle key makes of an action.
LEMMA ToggleOfAction ==
  ASSUME NEW a \in LeafActions, NEW key \in Toggles
  PROVE  /\ [a EXCEPT !.toggle = key] \in LeafActions
         /\ [a EXCEPT !.toggle = key] =
              [kind |-> a.kind, n |-> a.n, toggle |-> key, steps |-> a.steps]
<1>1. /\ a = [kind |-> a.kind, n |-> a.n, toggle |-> a.toggle, steps |-> a.steps]
      /\ a.kind \in {"tap", "hold", "virtual_joystick", "mouse_aim"} /\ a.steps = <<>>
      /\ a.kind \in {"tap", "hold"} => a.n \in [point : Int]
      /\ a.kind = "virtual_joystick" => a.n \in Sticks
      /\ a.kind = "mouse_aim" => a.n \in Aims
  BY DEF LeafActions
<1>2. [a EXCEPT !.toggle = key] = [kind |-> a.kind, n |-> a.n, toggle |-> key, steps |-> a.steps]
  BY <1>1
<1>3. CASE a.kind \in {"tap", "hold"}
  BY <1>1, <1>2, <1>3 DEF LeafActions
<1>4. CASE a.kind = "virtual_joystick"
  BY <1>1, <1>2, <1>4 DEF LeafActions
<1>5. CASE a.kind = "mouse_aim"
  BY <1>1, <1>2, <1>5 DEF LeafActions
<1>. QED
  BY <1>1, <1>2, <1>3, <1>4, <1>5

\* A number of a tap or a hold that is typed is a coordinate.
LEMMA TypedPoint ==
  ASSUME NEW n \in [point : Int], NEW field \in DOMAIN n, NEW v \in Int
  PROVE  /\ TypedNumber(n, field, v) \in [point : Int]
         /\ Normalized(TypedNumber(n, field, v).point)
<1>1. field = "point" /\ n = [point |-> n.point]
  OBVIOUS
<1>2. One \in Nat
  BY RuleConstants
<1>3. PICK x : x = Within(v, 0, One)
  OBVIOUS
<1>4. x \in Int /\ 0 <= x /\ x <= One
  BY <1>2, <1>3, WithinLimits
<1>5. TypedNumber(n, "point", v) = [n EXCEPT !["point"] = x]
  BY <1>3 DEF TypedNumber
<1>6. TypedNumber(n, "point", v) = [point |-> x]
  BY <1>1, <1>5
<1>. QED
  BY <1>1, <1>2, <1>4, <1>6 DEF Normalized

\* A number that is typed leaves an action, valid and representable if it was.
LEMMA TypedAction ==
  ASSUME NEW a \in LeafActions, NEW field \in DOMAIN a.n, NEW v \in Typed
  PROVE  \E c \in LeafActions :
           /\ c = [a EXCEPT !.n = TypedNumber(a.n, field, v)] /\ c.kind = a.kind
           /\ RustLeaf(a) => RustLeaf(c)
           /\ c.kind = "mouse_aim" /\ SensitivityFits(a.n.sensitivity, 10) =>
                SensitivityFits(c.n.sensitivity, 10)
<1>. DEFINE c == [a EXCEPT !.n = TypedNumber(a.n, field, v)]
<1>0. SUFFICES /\ c \in LeafActions /\ c.kind = a.kind
               /\ RustLeaf(a) => RustLeaf(c)
               /\ c.kind = "mouse_aim" /\ SensitivityFits(a.n.sensitivity, 10) =>
                    SensitivityFits(c.n.sensitivity, 10)
  OBVIOUS
<1>1. PICK m : m = TypedNumber(a.n, field, v)
  OBVIOUS
<1>2. v \in Int
  BY EditingConstants
<1>3. CASE a.kind \in {"tap", "hold"}
  <2>1. a.n \in [point : Int]
    BY <1>3 DEF LeafActions
  <2>2. m \in [point : Int] /\ Normalized(m.point)
    BY <1>1, <1>2, <2>1, TypedPoint
  <2>3. c \in LeafActions /\ c = [kind |-> a.kind, n |-> m, toggle |-> a.toggle, steps |-> a.steps]
    BY <1>1, <1>3, <2>2, NumbersOfAction
  <2>. QED
    BY <1>3, <2>2, <2>3 DEF RustLeaf
<1>4. CASE a.kind = "virtual_joystick"
  <2>1. a.n \in Sticks
    BY <1>4 DEF LeafActions
  <2>2. m \in Sticks /\ (RustStick(a.n) => RustStick(m))
    BY <1>1, <1>2, <2>1, TypedStick
  <2>3. c \in LeafActions /\ c = [kind |-> a.kind, n |-> m, toggle |-> a.toggle, steps |-> a.steps]
    BY <1>1, <1>4, <2>2, NumbersOfAction
  <2>. QED
    BY <1>4, <2>2, <2>3 DEF RustLeaf
<1>5. CASE a.kind = "mouse_aim"
  <2>1. a.n \in Aims
    BY <1>5 DEF LeafActions
  <2>2. /\ m \in Aims /\ (RustAim(a.n, a.toggle) => RustAim(m, a.toggle))
        /\ SensitivityFits(a.n.sensitivity, 10) => SensitivityFits(m.sensitivity, 10)
    BY <1>1, <2>1, TypedAim
  <2>3. c \in LeafActions /\ c = [kind |-> a.kind, n |-> m, toggle |-> a.toggle, steps |-> a.steps]
    BY <1>1, <1>5, <2>2, NumbersOfAction
  <2>. QED
    BY <1>5, <2>2, <2>3 DEF RustLeaf
<1>. QED
  BY <1>3, <1>4, <1>5 DEF LeafActions

\* A typed number and a toggle key keep the invariant.
LEMMA NumbersKeep ==
  ASSUME EditIInv, NEW i \in Selectable
  PROVE  /\ \A key \in TypedKeys \cup {None} : AimToggle(i, key) => EditIInv'
         /\ \A field : \A v \in Typed : TypeNumber(i, field, v) => EditIInv'
<1>1. PICK b \in Bindings : b = Binding(i)
  BY InspectedBinding
<1>2. Representable(b) /\ i \in DOMAIN doc.bindings /\ b.action \in LeafActions
  BY <1>1, InspectedBinding
<1>3. ASSUME NEW key \in TypedKeys \cup {None}, AimToggle(i, key)
      PROVE  EditIInv'
  <2>1. PICK c : c = [b EXCEPT !.action.toggle = key]
    OBVIOUS
  <2>2. PICK a : a = [b.action EXCEPT !.toggle = key]
    OBVIOUS
  <2>3. key \in Toggles
    BY KeysAreSpellings DEF Toggles
  <2>4. /\ a \in LeafActions
        /\ a = [kind |-> b.action.kind, n |-> b.action.n, toggle |-> key, steps |-> b.action.steps]
    BY <1>2, <2>2, <2>3, ToggleOfAction
  <2>5. c = [name |-> b.name, layer |-> b.layer, modifier |-> b.modifier, input |-> b.input,
             action |-> a]
    BY <2>1, <2>2, BindingEdits
  <2>6. c \in Bindings
    BY <2>4, <2>5, OtherAction
  <2>7. Representable(c)
    BY <1>2, <2>4, <2>5 DEF Representable
  <2>8. EditBinding(i, c)
    BY <1>1, <1>3, <2>1 DEF AimToggle
  <2>. QED
    BY <1>2, <2>6, <2>7, <2>8, EditBindingKeeps
<1>4. ASSUME NEW field, NEW v \in Typed, TypeNumber(i, field, v)
      PROVE  EditIInv'
  <2>1. PICK c : c = [b EXCEPT !.action.n = TypedNumber(b.action.n, field, v)]
    OBVIOUS
  <2>2. PICK a : a = [b.action EXCEPT !.n = TypedNumber(b.action.n, field, v)]
    OBVIOUS
  <2>3. field \in DOMAIN b.action.n
    BY <1>1, <1>4 DEF TypeNumber
  <2>4. /\ a \in LeafActions /\ a.kind = b.action.kind
        /\ a.kind = "mouse_aim" /\ SensitivityFits(b.action.n.sensitivity, 10) =>
             SensitivityFits(a.n.sensitivity, 10)
    <3>1. PICK a0 \in LeafActions : a0 = b.action
      BY <1>2
    <3>2. field \in DOMAIN a0.n
      BY <2>3, <3>1
    <3>3. PICK a1 \in LeafActions :
            /\ a1 = [a0 EXCEPT !.n = TypedNumber(a0.n, field, v)] /\ a1.kind = a0.kind
            /\ RustLeaf(a0) => RustLeaf(a1)
            /\ a1.kind = "mouse_aim" /\ SensitivityFits(a0.n.sensitivity, 10) =>
                 SensitivityFits(a1.n.sensitivity, 10)
      BY <3>2, TypedAction, Zenon
    <3>4. a = a1
      BY <2>2, <3>1, <3>3
    <3>. QED
      BY <3>1, <3>3, <3>4
  <2>5. c = [name |-> b.name, layer |-> b.layer, modifier |-> b.modifier, input |-> b.input,
             action |-> a]
    BY <2>1, <2>2, NumbersOfBinding
  <2>6. c \in Bindings
    BY <2>4, <2>5, OtherAction
  <2>7. Representable(c)
    BY <1>2, <2>4, <2>5 DEF Representable
  <2>8. EditBinding(i, c)
    BY <1>1, <1>4, <2>1 DEF TypeNumber
  <2>. QED
    BY <1>2, <2>6, <2>7, <2>8, EditBindingKeeps
<1>. QED
  BY <1>3, <1>4

\* Moving the controls of a layer keeps the type of the document and what its aims hold.
LEMMA MovedKeeps ==
  ASSUME NEW d \in Documents, AimsFit(d), NEW from, NEW to \in Words \cup {None}
  PROVE  Moved(d, from, to) \in Documents /\ AimsFit(Moved(d, from, to))
<1>1. PICK s \in Seq(Bindings) :
        /\ Moved(d, from, to) = [d EXCEPT !.bindings = s]
        /\ DOMAIN s = DOMAIN d.bindings
        /\ \A i \in DOMAIN s : s[i] = Rerouted(d.bindings[i], from, to)
  BY MovedBindings
<1>2. ASSUME NEW i \in DOMAIN s
      PROVE  Representable(s[i])
  <2>1. Representable(d.bindings[i]) /\ s[i] = Rerouted(d.bindings[i], from, to)
    BY <1>1 DEF AimsFit
  <2>2. s[i].action = d.bindings[i].action
    BY <2>1 DEF Rerouted
  <2>. QED
    BY <2>1, <2>2 DEF Representable
<1>3. /\ [d EXCEPT !.bindings = s] \in Documents
      /\ AimsFit([d EXCEPT !.bindings = s])
  BY <1>2, WithBindings
<1>. QED
  BY <1>1, <1>3

\* The document of a type, its aims representable.
LEMMA EditedDocument ==
  ASSUME EditIInv
  PROVE  doc \in Documents /\ AimsFit(doc)
  BY DEF EditIInv, EditTypeOK

\* Changing a field of a layer keeps the type of the document.
LEMMA LayerFieldKeeps ==
  ASSUME NEW d \in Documents, AimsFit(d), NEW l \in DOMAIN d.layers
  PROVE  /\ \A x \in Words : /\ [d EXCEPT !.layers[l].name = x] \in Documents
                             /\ AimsFit([d EXCEPT !.layers[l].name = x])
         /\ \A x \in {"hold", "toggle"} : /\ [d EXCEPT !.layers[l].mode = x] \in Documents
                                          /\ AimsFit([d EXCEPT !.layers[l].mode = x])
         /\ \A x \in Spellings : /\ [d EXCEPT !.layers[l].key = x] \in Documents
                                 /\ AimsFit([d EXCEPT !.layers[l].key = x])
<1>1. /\ d.layers[l].name \in Words /\ d.layers[l].key \in Spellings
      /\ d.layers[l].mode \in {"hold", "toggle"}
  <2>1. d.layers[l] \in Layers
    BY DocumentFields
  <2>. QED
    BY <2>1 DEF Layers
<1>2. ASSUME NEW layer \in Layers
      PROVE  /\ [d EXCEPT !.layers = [d.layers EXCEPT ![l] = layer]] \in Documents
             /\ AimsFit([d EXCEPT !.layers = [d.layers EXCEPT ![l] = layer]])
  <2>1. PICK s : s = [d.layers EXCEPT ![l] = layer]
    OBVIOUS
  <2>2. s \in Seq(Layers)
    BY <2>1, WithLayer
  <2>. QED
    BY <2>1, <2>2, WithLayers
<1>3. ASSUME NEW x \in Words
      PROVE  /\ [d EXCEPT !.layers[l].name = x] \in Documents
             /\ AimsFit([d EXCEPT !.layers[l].name = x])
  <2>1. PICK layer : layer = [name |-> x, mode |-> d.layers[l].mode, key |-> d.layers[l].key]
    OBVIOUS
  <2>2. layer \in Layers
    BY <1>1, <2>1 DEF Layers
  <2>3. [d EXCEPT !.layers[l].name = x] =
          [d EXCEPT !.layers = [d.layers EXCEPT ![l] =
             [name |-> x, mode |-> d.layers[l].mode, key |-> d.layers[l].key]]]
    BY LayerOtherName, SMT
  <2>. QED
    BY <1>2, <2>1, <2>2, <2>3
<1>4. ASSUME NEW x \in {"hold", "toggle"}
      PROVE  /\ [d EXCEPT !.layers[l].mode = x] \in Documents
             /\ AimsFit([d EXCEPT !.layers[l].mode = x])
  <2>1. PICK layer : layer = [name |-> d.layers[l].name, mode |-> x, key |-> d.layers[l].key]
    OBVIOUS
  <2>2. layer \in Layers
    BY <1>1, <2>1 DEF Layers
  <2>3. [d EXCEPT !.layers[l].mode = x] =
          [d EXCEPT !.layers = [d.layers EXCEPT ![l] =
             [name |-> d.layers[l].name, mode |-> x, key |-> d.layers[l].key]]]
    BY LayerOtherMode, SMT
  <2>. QED
    BY <1>2, <2>1, <2>2, <2>3
<1>5. ASSUME NEW x \in Spellings
      PROVE  /\ [d EXCEPT !.layers[l].key = x] \in Documents
             /\ AimsFit([d EXCEPT !.layers[l].key = x])
  <2>1. PICK layer : layer = [name |-> d.layers[l].name, mode |-> d.layers[l].mode, key |-> x]
    OBVIOUS
  <2>2. layer \in Layers
    BY <1>1, <2>1 DEF Layers
  <2>3. [d EXCEPT !.layers[l].key = x] =
          [d EXCEPT !.layers = [d.layers EXCEPT ![l] =
             [name |-> d.layers[l].name, mode |-> d.layers[l].mode, key |-> x]]]
    BY LayerOtherKey, SMT
  <2>. QED
    BY <1>2, <2>1, <2>2, <2>3
<1>. QED
  BY <1>3, <1>4, <1>5

\* The keys suggested for a new layer are supported keys, and the names words.
LEMMA SuggestionsAreKnown ==
  ASSUME NEW d, NEW taken
  PROVE  /\ SuggestedKeys(d) \subseteq KeyNames
         /\ FirstFree(DefaultLayers, taken) \subseteq Words \ {Blank, BaseName}
         /\ FirstFree(Copies, taken) \subseteq Words
<1>1. ActivationKeys \in Seq(KeyNames) /\ ActivationKeys # <<>>
  BY EditingConstants
<1>2. FreeKeys(d) \subseteq KeyNames
  BY <1>1 DEF FreeKeys, FirstFree
<1>3. ActivationKeys[1] \in KeyNames
  BY <1>1
<1>4. DefaultLayers \in Seq(Words \ {Blank, BaseName}) /\ Copies \in Seq(Words)
  BY EditingConstants
<1>5. FirstFree(DefaultLayers, taken) \subseteq Words \ {Blank, BaseName}
  BY <1>4 DEF FirstFree
<1>6. FirstFree(Copies, taken) \subseteq Words
  BY <1>4 DEF FirstFree
<1>. QED
  BY <1>2, <1>3, <1>5, <1>6 DEF SuggestedKeys

\* Editing layers keeps the invariant.
LEMMA LayersKeep ==
  ASSUME EditIInv
  PROVE  /\ \A l \in DOMAIN doc.layers, next \in TypedNames : RenameLayer(l, next) => EditIInv'
         /\ \A l \in DOMAIN doc.layers, mode \in {"hold", "toggle"} : LayerMode(l, mode) => EditIInv'
         /\ \A l \in DOMAIN doc.layers, key \in TypedKeys : LayerKey(l, key) => EditIInv'
         /\ \A l \in DOMAIN doc.layers : DeleteLayer(l) => EditIInv'
         /\ AddLayer => EditIInv'
<1>1. PICK d \in Documents : d = doc /\ AimsFit(d)
  BY EditedDocument
<1>2. ASSUME NEW l \in DOMAIN doc.layers, NEW next \in TypedNames, RenameLayer(l, next)
      PROVE  EditIInv'
  <2>1. next \in Words
    BY EditingConstants
  <2>2. PICK e : e = [d EXCEPT !.layers[l].name = next]
    OBVIOUS
  <2>3. e \in Documents /\ AimsFit(e)
    BY <1>1, <2>1, <2>2, LayerFieldKeeps
  <2>4. Commit(Moved(e, d.layers[l].name, next))
    BY <1>1, <1>2, <2>2 DEF RenameLayer
  <2>5. /\ Moved(e, d.layers[l].name, next) \in Documents
        /\ AimsFit(Moved(e, d.layers[l].name, next))
    BY <2>1, <2>3, MovedKeeps
  <2>. QED
    BY <2>4, <2>5, CommitKeeps
<1>3. ASSUME NEW l \in DOMAIN doc.layers, NEW mode \in {"hold", "toggle"}, LayerMode(l, mode)
      PROVE  EditIInv'
  <2>1. /\ [d EXCEPT !.layers[l].mode = mode] \in Documents
        /\ AimsFit([d EXCEPT !.layers[l].mode = mode])
    BY <1>1, LayerFieldKeeps
  <2>2. Commit([d EXCEPT !.layers[l].mode = mode])
    BY <1>1, <1>3 DEF LayerMode
  <2>. QED
    BY <2>1, <2>2, CommitKeeps
<1>4. ASSUME NEW l \in DOMAIN doc.layers, NEW key \in TypedKeys, LayerKey(l, key)
      PROVE  EditIInv'
  <2>1. key \in Spellings
    BY KeysAreSpellings
  <2>2. /\ [d EXCEPT !.layers[l].key = key] \in Documents
        /\ AimsFit([d EXCEPT !.layers[l].key = key])
    BY <1>1, <2>1, LayerFieldKeeps
  <2>3. Commit([d EXCEPT !.layers[l].key = key])
    BY <1>1, <1>4 DEF LayerKey
  <2>. QED
    BY <2>2, <2>3, CommitKeeps
<1>5. ASSUME NEW l \in DOMAIN doc.layers, DeleteLayer(l)
      PROVE  EditIInv'
  <2>1. PICK s : s = RemoveAt(d.layers, l)
    OBVIOUS
  <2>2. s \in Seq(Layers)
    <3>1. d.layers \in Seq(Layers) /\ l \in 1 .. Len(d.layers)
      BY <1>1, DocumentFields
    <3>. QED
      BY <2>1, <3>1, RemovedFromSeq
  <2>3. PICK e : e = [d EXCEPT !.layers = s]
    OBVIOUS
  <2>4. e \in Documents /\ AimsFit(e)
    BY <1>1, <2>2, <2>3, WithLayers
  <2>5. Commit(Moved(e, d.layers[l].name, None))
    BY <1>1, <1>5, <2>1, <2>3 DEF DeleteLayer
  <2>6. /\ Moved(e, d.layers[l].name, None) \in Documents
        /\ AimsFit(Moved(e, d.layers[l].name, None))
    BY <2>4, MovedKeeps
  <2>. QED
    BY <2>5, <2>6, CommitKeeps
<1>6. ASSUME AddLayer
      PROVE  EditIInv'
  <2>1. PICK name \in FirstFree(DefaultLayers, LayerNames(d)), key \in SuggestedKeys(d) :
          Commit([d EXCEPT !.layers =
                    Append(d.layers, [name |-> name, mode |-> "hold", key |-> key])])
    BY <1>1, <1>6 DEF AddLayer
  <2>2. name \in Words /\ key \in Spellings
    BY SuggestionsAreKnown, RuleConstants DEF Spellings
  <2>3. PICK layer \in Layers : layer = [name |-> name, mode |-> "hold", key |-> key]
    BY <2>2 DEF Layers
  <2>4. PICK s : s = Append(d.layers, layer)
    OBVIOUS
  <2>5. s \in Seq(Layers)
    BY <2>4, DocumentFields
  <2>6. [d EXCEPT !.layers = s] \in Documents /\ AimsFit([d EXCEPT !.layers = s])
    BY <1>1, <2>5, WithLayers
  <2>. QED
    BY <2>1, <2>3, <2>4, <2>6, CommitKeeps
<1>. QED
  BY <1>2, <1>3, <1>4, <1>5, <1>6

\* Dragging a control leaves it one, with the sensitivity it had.
LEMMA DraggedAction ==
  ASSUME NEW a \in LeafActions, NEW resize \in BOOLEAN, NEW v \in Int
  PROVE  \E c \in LeafActions :
           /\ c = [a EXCEPT !.n = Dragged(a.n, resize, v)] /\ c.kind = a.kind
           /\ c.kind = "mouse_aim" => c.n.sensitivity = a.n.sensitivity
<1>. DEFINE c == [a EXCEPT !.n = Dragged(a.n, resize, v)]
<1>0. SUFFICES /\ c \in LeafActions /\ c.kind = a.kind
               /\ c.kind = "mouse_aim" => c.n.sensitivity = a.n.sensitivity
  OBVIOUS
<1>1. PICK m : m = Dragged(a.n, resize, v)
  OBVIOUS
<1>2. CASE a.kind \in {"tap", "hold"}
  <2>1. a.n \in [point : Int]
    BY <1>2 DEF LeafActions
  <2>2. PICK x : x = Snapped(v)
    OBVIOUS
  <2>3. x \in Int
    BY <2>2, SnappedIsNumber
  <2>4. a.n = [point |-> a.n.point] /\ "point" \in DOMAIN a.n
    BY <2>1
  <2>5. m = [a.n EXCEPT !.point = x]
    BY <1>1, <2>2, <2>4 DEF Dragged
  <2>6. m \in [point : Int]
    BY <2>1, <2>3, <2>5
  <2>7. c \in LeafActions /\ c = [kind |-> a.kind, n |-> m, toggle |-> a.toggle, steps |-> a.steps]
    BY <1>1, <1>2, <2>6, NumbersOfAction
  <2>. QED
    BY <1>2, <2>7
<1>3. CASE a.kind = "virtual_joystick"
  <2>1. a.n \in Sticks
    BY <1>3 DEF LeafActions
  <2>2. m \in Sticks
    BY <1>1, <2>1, DraggedStick
  <2>3. c \in LeafActions /\ c = [kind |-> a.kind, n |-> m, toggle |-> a.toggle, steps |-> a.steps]
    BY <1>1, <1>3, <2>2, NumbersOfAction
  <2>. QED
    BY <1>3, <2>3
<1>4. CASE a.kind = "mouse_aim"
  <2>1. a.n \in Aims
    BY <1>4 DEF LeafActions
  <2>2. m \in Aims /\ m.sensitivity = a.n.sensitivity
    BY <1>1, <2>1, DraggedAim
  <2>3. c \in LeafActions /\ c = [kind |-> a.kind, n |-> m, toggle |-> a.toggle, steps |-> a.steps]
    BY <1>1, <1>4, <2>2, NumbersOfAction
  <2>. QED
    BY <1>4, <2>2, <2>3
<1>. QED
  BY <1>2, <1>3, <1>4 DEF LeafActions

\* A copy of a control is a control, with the sensitivity of the original.
LEMMA BesideAction ==
  ASSUME NEW a \in LeafActions
  PROVE  \E c \in LeafActions :
           /\ c = [a EXCEPT !.n = Beside(a.n)] /\ c.kind = a.kind
           /\ c.kind = "mouse_aim" => c.n.sensitivity = a.n.sensitivity
<1>. DEFINE c == [a EXCEPT !.n = Beside(a.n)]
<1>0. SUFFICES /\ c \in LeafActions /\ c.kind = a.kind
               /\ c.kind = "mouse_aim" => c.n.sensitivity = a.n.sensitivity
  OBVIOUS
<1>1. PICK m : m = Beside(a.n)
  OBVIOUS
<1>2. CASE a.kind \in {"tap", "hold"}
  <2>1. a.n \in [point : Int]
    BY <1>2 DEF LeafActions
  <2>2. PICK x : x = Within(a.n.point + One \div 40, 0, One)
    OBVIOUS
  <2>3. x \in Int
    <3>1. a.n.point + One \div 40 \in Int /\ One \in Int
      BY <2>1, RuleConstants
    <3>. QED
      BY <2>2, <3>1, WithinLimits
  <2>4. a.n = [point |-> a.n.point] /\ "point" \in DOMAIN a.n
    BY <2>1
  <2>5. m = [a.n EXCEPT !.point = x]
    BY <1>1, <2>2, <2>4 DEF Beside
  <2>6. m \in [point : Int]
    BY <2>1, <2>3, <2>5
  <2>7. c \in LeafActions /\ c = [kind |-> a.kind, n |-> m, toggle |-> a.toggle, steps |-> a.steps]
    BY <1>1, <1>2, <2>6, NumbersOfAction
  <2>. QED
    BY <1>2, <2>7
<1>3. CASE a.kind = "virtual_joystick"
  <2>1. a.n \in Sticks
    BY <1>3 DEF LeafActions
  <2>2. m \in Sticks
    BY <1>1, <2>1, BesideStick
  <2>3. c \in LeafActions /\ c = [kind |-> a.kind, n |-> m, toggle |-> a.toggle, steps |-> a.steps]
    BY <1>1, <1>3, <2>2, NumbersOfAction
  <2>. QED
    BY <1>3, <2>3
<1>4. CASE a.kind = "mouse_aim"
  <2>1. a.n \in Aims
    BY <1>4 DEF LeafActions
  <2>2. m \in Aims /\ m.sensitivity = a.n.sensitivity
    BY <1>1, <2>1, BesideAim
  <2>3. c \in LeafActions /\ c = [kind |-> a.kind, n |-> m, toggle |-> a.toggle, steps |-> a.steps]
    BY <1>1, <1>4, <2>2, NumbersOfAction
  <2>. QED
    BY <1>4, <2>2, <2>3
<1>. QED
  BY <1>2, <1>3, <1>4 DEF LeafActions

\* A copy of a control or a macro, under a name of its own.
LEMMA CopyOfBinding ==
  ASSUME NEW b \in Bindings, Representable(b), NEW name \in Words
  PROVE  /\ [b EXCEPT !.name = name, !.action.n = Beside(b.action.n)] \in Bindings
         /\ Representable([b EXCEPT !.name = name, !.action.n = Beside(b.action.n)])
<1>1. PICK c : c = [b EXCEPT !.name = name, !.action.n = Beside(b.action.n)]
  OBVIOUS
<1>2. PICK a : a = [b.action EXCEPT !.n = Beside(b.action.n)]
  OBVIOUS
<1>3. PICK a0 \in LeafActions \cup Macros : a0 = b.action
  BY BindingFields
<1>4. c = [name |-> name, layer |-> b.layer, modifier |-> b.modifier, input |-> b.input,
           action |-> a]
  <2>1. PICK m : m = Beside(b.action.n)
    OBVIOUS
  <2>2. PICK layer, modifier : layer = b.layer /\ modifier = b.modifier
    OBVIOUS
  <2>3. PICK old, input, action : old = b.name /\ input = b.input /\ action = b.action
    OBVIOUS
  <2>4. b = [name |-> old, layer |-> layer, modifier |-> modifier, input |-> input,
             action |-> action]
    BY <2>2, <2>3, BindingFields
  <2>5. PICK e : e = [b EXCEPT !.name = name]
    OBVIOUS
  <2>6. e = [name |-> name, layer |-> layer, modifier |-> modifier, input |-> input,
             action |-> action]
    BY <2>4, <2>5
  <2>7. c = [e EXCEPT !.action.n = m]
    BY <1>1, <2>1, <2>4, <2>5, <2>6
  <2>8. [e EXCEPT !.action.n = m] =
          [name |-> name, layer |-> layer, modifier |-> modifier, input |-> input,
           action |-> [action EXCEPT !.n = m]]
    BY <2>6
  <2>. QED
    BY <1>2, <2>1, <2>2, <2>3, <2>7, <2>8
<1>5. CASE a0 \in LeafActions
  <2>1. PICK a1 \in LeafActions :
          /\ a1 = [a0 EXCEPT !.n = Beside(a0.n)] /\ a1.kind = a0.kind
          /\ a1.kind = "mouse_aim" => a1.n.sensitivity = a0.n.sensitivity
    BY <1>5, BesideAction
  <2>2. a = a1
    BY <1>2, <1>3, <2>1
  <2>3. c.action = a1 /\ b.action = a0
    BY <1>3, <1>4, <2>2
  <2>4. c \in Bindings
    BY <1>4, <2>2, BindingFields DEF Bindings
  <2>5. Representable(c)
    BY <2>1, <2>3 DEF Representable
  <2>. QED
    BY <1>1, <2>4, <2>5
<1>6. CASE a0 \in Macros
  <2>1. /\ a0 = [kind |-> "macro", n |-> <<>>, toggle |-> a0.toggle, steps |-> a0.steps]
        /\ a0.n = <<>> /\ a0.kind = "macro"
    BY <1>6 DEF Macros
  <2>2. Beside(<<>>) = <<>>
    BY DEF Beside
  <2>3. a = a0
    BY <1>2, <1>3, <2>1, <2>2
  <2>4. c \in Bindings
    BY <1>4, <1>6, <2>3, BindingFields DEF Bindings
  <2>5. Representable(c)
    BY <1>4, <2>1, <2>3 DEF Representable
  <2>. QED
    BY <1>1, <2>4, <2>5
<1>. QED
  BY <1>5, <1>6

\* Adding, deleting and copying controls keep the invariant.
LEMMA ControlsKeep ==
  ASSUME EditIInv
  PROVE  /\ \A kind \in DOMAIN Default, layer \in LayerNames(doc) \cup {None} :
              AddControl(kind, layer) => EditIInv'
         /\ \A i \in DOMAIN doc.bindings : DeleteSelected(i) => EditIInv'
         /\ \A i \in DOMAIN doc.bindings : DuplicateSelected(i) => EditIInv'
<1>1. PICK d \in Documents : d = doc /\ AimsFit(d)
  BY EditedDocument
<1>2. d.bindings \in Seq(Bindings) /\ DOMAIN d.bindings = 1 .. Len(d.bindings)
  BY DocumentFields
<1>3. \A j \in DOMAIN d.bindings : Representable(d.bindings[j]) /\ d.bindings[j] \in Bindings
  BY <1>1, DocumentFields DEF AimsFit
<1>4. ASSUME NEW s \in Seq(Bindings), \A j \in DOMAIN s : Representable(s[j]),
             Commit([d EXCEPT !.bindings = s])
      PROVE  EditIInv'
  BY <1>4, WithBindings, CommitKeeps
<1>5. ASSUME NEW kind \in DOMAIN Default, NEW layer \in LayerNames(doc) \cup {None},
             AddControl(kind, layer)
      PROVE  EditIInv'
  <2>1. PICK b \in Bindings : b = Default[kind] /\ Representable(b)
    BY EditingConstants
  <2>2. PICK to \in Words \cup {None} : to = IF kind = "mouse_aim" THEN None ELSE layer
    BY <1>1, LayerNamesAreWords
  <2>3. PICK name \in FirstFree(<<b.name>> \o Copies, BindingNames(d)) :
          Commit([d EXCEPT !.bindings =
                    Append(d.bindings, [b EXCEPT !.name = name, !.layer = to])])
    BY <1>1, <1>5, <2>1, <2>2 DEF AddControl
  <2>4. name \in Words
    <3>1. <<b.name>> \in Seq(Words) /\ Copies \in Seq(Words)
      BY BindingFields, EditingConstants
    <3>2. <<b.name>> \o Copies \in Seq(Words)
      BY <3>1, ConcatProperties
    <3>. QED
      BY <2>3, <3>2 DEF FirstFree
  <2>5. PICK c \in Bindings : c = [b EXCEPT !.name = name, !.layer = to] /\ Representable(c)
    <3>1. PICK e : e = [b EXCEPT !.name = name]
      OBVIOUS
    <3>2. e = [name |-> name, layer |-> b.layer, modifier |-> b.modifier, input |-> b.input,
               action |-> b.action]
      BY <3>1, BindingEdits
    <3>3. e \in Bindings /\ Representable(e)
      BY <2>1, <2>4, <3>2, OtherFields, BindingFields
    <3>4. [e EXCEPT !.layer = to] =
            [name |-> e.name, layer |-> to, modifier |-> e.modifier, input |-> e.input,
             action |-> e.action]
      BY <3>3, BindingEdits
    <3>5. [e EXCEPT !.layer = to] \in Bindings /\ Representable([e EXCEPT !.layer = to])
      BY <3>3, <3>4, OtherFields, BindingFields
    <3>6. [b EXCEPT !.name = name, !.layer = to] = [e EXCEPT !.layer = to]
      BY <3>1, <3>2, BindingFields
    <3>. QED
      BY <3>5, <3>6
  <2>6. PICK s : s = Append(d.bindings, c)
    OBVIOUS
  <2>7. s \in Seq(Bindings) /\ \A j \in DOMAIN s : Representable(s[j])
    BY <1>2, <1>3, <2>5, <2>6
  <2>. QED
    BY <1>4, <2>3, <2>5, <2>6, <2>7
<1>6. ASSUME NEW i \in DOMAIN doc.bindings, DeleteSelected(i)
      PROVE  EditIInv'
  <2>1. PICK s : s = RemoveAt(d.bindings, i)
    OBVIOUS
  <2>2. i \in 1 .. Len(d.bindings)
    BY <1>1, <1>2
  <2>3. /\ s \in Seq(Bindings) /\ Len(s) = Len(d.bindings) - 1
        /\ \A j \in 1 .. Len(d.bindings) - 1 : s[j] = d.bindings[IF j < i THEN j ELSE j + 1]
    BY <1>2, <2>1, <2>2, RemovedFromSeq
  <2>4. ASSUME NEW j \in DOMAIN s
        PROVE  Representable(s[j])
    <3>1. j \in 1 .. Len(d.bindings) - 1
      BY <1>2, <2>2, <2>3
    <3>2. PICK k : k = IF j < i THEN j ELSE j + 1
      OBVIOUS
    <3>3. k \in DOMAIN d.bindings
      BY <1>2, <2>2, <3>1, <3>2
    <3>. QED
      BY <1>3, <2>3, <3>1, <3>2, <3>3
  <2>5. Commit([d EXCEPT !.bindings = s])
    BY <1>1, <1>6, <2>1 DEF DeleteSelected
  <2>. QED
    BY <1>4, <2>3, <2>4, <2>5
<1>7. ASSUME NEW i \in DOMAIN doc.bindings, DuplicateSelected(i)
      PROVE  EditIInv'
  <2>1. PICK b \in Bindings : b = d.bindings[i] /\ Representable(b)
    BY <1>1, <1>3
  <2>2. PICK name \in FirstFree(Copies, BindingNames(d)) :
          Commit([d EXCEPT !.bindings =
            InsertAt(d.bindings, i + 1,
                     [b EXCEPT !.name = name, !.action.n = Beside(b.action.n)])])
    BY <1>1, <1>7, <2>1 DEF DuplicateSelected, Binding
  <2>3. name \in Words
    BY SuggestionsAreKnown
  <2>4. PICK c \in Bindings :
          c = [b EXCEPT !.name = name, !.action.n = Beside(b.action.n)] /\ Representable(c)
    BY <2>1, <2>3, CopyOfBinding
  <2>5. PICK at : at = i + 1
    OBVIOUS
  <2>6. at \in 1 .. Len(d.bindings) + 1
    BY <1>1, <1>2, <2>5
  <2>9. PICK s : s = InsertAt(d.bindings, at, c)
    OBVIOUS
  <2>7. /\ s \in Seq(Bindings)
        /\ \A j \in DOMAIN s : s[j] = c \/ \E k \in DOMAIN d.bindings : s[j] = d.bindings[k]
    <3>1. PICK s0 \in Seq(Bindings) : s0 = d.bindings /\ at \in 1 .. Len(s0) + 1
      BY <1>2, <2>6
    <3>2. s = InsertAt(s0, at, c)
      BY <2>9, <3>1
    <3>3. /\ InsertAt(s0, at, c) \in Seq(Bindings)
          /\ \A j \in DOMAIN InsertAt(s0, at, c) :
               InsertAt(s0, at, c)[j] = c
                 \/ \E k \in DOMAIN s0 : InsertAt(s0, at, c)[j] = s0[k]
      BY <3>1, InsertedIntoSeq
    <3>. QED
      BY <3>1, <3>2, <3>3
  <2>8. \A j \in DOMAIN s : Representable(s[j])
    BY <1>3, <2>4, <2>7
  <2>. QED
    BY <1>4, <2>2, <2>4, <2>5, <2>9, <2>7, <2>8
<1>. QED
  BY <1>5, <1>6, <1>7

\* Dragging keeps the invariant: the control that is dragged stays what it is.
LEMMA DraggingKeeps ==
  ASSUME EditIInv, Dragging
  PROVE  EditIInv'
<1>1. /\ doc \in Documents /\ AimsFit(doc) /\ DragIsOnControl
      /\ drag \in [on : Nat, resize : BOOLEAN] /\ edits \in 0 .. MaxEdits
  BY DEF EditIInv, EditTypeOK
<1>2. ASSUME NEW i \in Selectable, NEW resize \in BOOLEAN, BeginDrag(i, resize)
      PROVE  EditIInv'
  <2>1. /\ drag' = [on |-> i, resize |-> resize] /\ doc' = doc /\ edits' = edits
        /\ resize => Binding(i).action.kind \in {"virtual_joystick", "mouse_aim"}
        /\ edits < MaxEdits
    BY <1>2 DEF BeginDrag
  <2>2. i \in Nat
    BY <1>1, DocumentFields DEF Selectable
  <2>3. DragIsOnControl'
    <3>1. drag'.on = i /\ drag'.resize = resize
      BY <2>1
    <3>2. Selectable' = Selectable /\ Binding(i)' = Binding(i)
      BY <2>1 DEF Selectable, Binding
    <3>. QED
      BY <2>1, <3>1, <3>2 DEF DragIsOnControl, Binding
  <2>. QED
    BY <1>1, <2>1, <2>2, <2>3 DEF EditIInv, EditTypeOK, AimsFit
<1>3. ASSUME NEW v \in MouseSpots, MoveDrag(v)
      PROVE  EditIInv'
  <2>1. PICK i : i = drag.on
    OBVIOUS
  <2>2. PICK resize : resize = drag.resize
    OBVIOUS
  <2>3. drag # NoDrag /\ i \in Selectable /\ resize \in BOOLEAN /\ drag' = drag /\ edits' = edits
    BY <1>1, <1>3, <2>1, <2>2 DEF MoveDrag, DragIsOnControl
  <2>4. PICK b \in Bindings : b = doc.bindings[i]
    BY <1>1, <2>3, SelectableIsLeaf DEF Binding
  <2>5. b.action \in LeafActions /\ i \in DOMAIN doc.bindings /\ Representable(b)
    BY <1>1, <2>3, <2>4, SelectableIsLeaf DEF Binding, AimsFit
  <2>6. PICK a0 \in LeafActions : a0 = b.action
    BY <2>5
  <2>7. v \in Int
    BY EditingConstants
  <2>8. PICK a \in LeafActions :
          /\ a = [a0 EXCEPT !.n = Dragged(a0.n, resize, v)] /\ a.kind = a0.kind
          /\ a.kind = "mouse_aim" => a.n.sensitivity = a0.n.sensitivity
    BY <2>3, <2>7, DraggedAction
  <2>9. PICK c : c = [b EXCEPT !.action.n = Dragged(b.action.n, resize, v)]
    OBVIOUS
  <2>10. c = [name |-> b.name, layer |-> b.layer, modifier |-> b.modifier, input |-> b.input,
              action |-> a]
    <3>1. [b EXCEPT !.action.n = Dragged(b.action.n, resize, v)] =
            [name |-> b.name, layer |-> b.layer, modifier |-> b.modifier, input |-> b.input,
             action |-> [b.action EXCEPT !.n = Dragged(b.action.n, resize, v)]]
      BY NumbersOfBinding
    <3>. QED
      BY <2>6, <2>8, <2>9, <3>1
  <2>11. c \in Bindings /\ c.action = a
    BY <2>10, OtherAction
  <2>12. Representable(c)
    BY <2>5, <2>6, <2>8, <2>11 DEF Representable
  <2>13. doc' = [doc EXCEPT !.bindings[i] = c]
    BY <1>3, <2>1, <2>2, <2>4, <2>9 DEF MoveDrag
  <2>14. /\ doc' \in Documents /\ AimsFit(doc')
         /\ doc' = [named |-> doc.named, layers |-> doc.layers,
                    bindings |-> [doc.bindings EXCEPT ![i] = c]]
    BY <1>1, <2>5, <2>11, <2>12, <2>13, WithBinding
  <2>15. /\ DOMAIN doc'.bindings = DOMAIN doc.bindings
         /\ doc'.bindings[i] = c
    BY <2>5, <2>14
  <2>16. c.action.kind = Binding(i).action.kind
    BY <2>4, <2>6, <2>8, <2>11 DEF Binding
  <2>17. Binding(i).action.kind # "macro"
    BY <2>3 DEF Selectable, Binding
  <2>18. DragIsOnControl'
    BY <1>1, <2>1, <2>3, <2>5, <2>15, <2>16, <2>17 DEF DragIsOnControl, Selectable, Binding
  <2>19. EditTypeOK'
    BY <1>1, <2>3, <2>14 DEF EditTypeOK
  <2>20. AimsFit(doc)'
    BY <2>14 DEF AimsFit
  <2>. QED
    BY <2>18, <2>19, <2>20 DEF EditIInv
<1>4. ASSUME EndDrag
      PROVE  EditIInv'
  <2>1. drag' = NoDrag /\ edits' = edits + 1 /\ doc' = doc
    BY <1>4 DEF EndDrag
  <2>2. drag # NoDrag /\ edits' \in 0 .. MaxEdits
    BY <1>1, <1>4, <2>1, EditingConstants DEF EndDrag, DragIsOnControl
  <2>3. EditTypeOK'
    BY <1>1, <2>1, <2>2 DEF EditTypeOK, NoDrag
  <2>4. DragIsOnControl' /\ AimsFit(doc)'
    BY <1>1, <2>1 DEF DragIsOnControl, AimsFit
  <2>. QED
    BY <2>3, <2>4 DEF EditIInv
<1>. QED
  BY <1>2, <1>3, <1>4 DEF Dragging

\* The invariant holds of every document that editing leads to.
LEMMA EditingKeepsTheInvariant == EditSpec => []EditIInv
<1>1. EditInit => EditIInv
  <2>. SUFFICES ASSUME NEW d \in Starts, Opened(d)
                PROVE  EditIInv
    BY DEF EditInit
  <2>1. doc = d /\ drag = NoDrag /\ edits = 0
    BY DEF Opened
  <2>2. doc \in Documents /\ \A b \in AllBindings(doc) : Representable(b)
    BY <2>1, EditingConstants
  <2>3. EditTypeOK
    BY <2>1, <2>2, EditingConstants DEF EditTypeOK, NoDrag
  <2>4. DragIsOnControl /\ AimsFit(doc)
    BY <2>1, <2>2 DEF DragIsOnControl, AimsFit, AllBindings
  <2>. QED
    BY <2>3, <2>4 DEF EditIInv
<1>2. EditIInv /\ [EditNext]_editVars => EditIInv'
  <2>. SUFFICES ASSUME EditIInv, [EditNext]_editVars
                PROVE  EditIInv'
    OBVIOUS
  <2>1. CASE Routine
    <3>1. CASE \E l \in DOMAIN doc.layers :
                 \/ \E next \in TypedNames : RenameLayer(l, next)
                 \/ \E mode \in {"hold", "toggle"} : LayerMode(l, mode)
      BY <3>1, LayersKeep
    <3>2. CASE \E i \in Selectable :
                 \/ ClearRouting(i)
                 \/ \E key \in TypedKeys \cup {None} : AimToggle(i, key)
                 \/ \E field : \E v \in Typed : TypeNumber(i, field, v)
      BY <3>2, RoutingKeeps, NumbersKeep
    <3>3. CASE \E i \in DOMAIN doc.bindings : DeleteSelected(i)
      BY <3>3, ControlsKeep
    <3>4. CASE AddLayer
      BY <3>4, LayersKeep
    <3>. QED
      BY <2>1, <3>1, <3>2, <3>3, <3>4 DEF Routine
  <2>2. CASE Rebinding
    <3>1. ASSUME NEW named \in BOOLEAN, RenameProfile(named)
          PROVE  EditIInv'
      <4>1. PICK d \in Documents : d = doc /\ AimsFit(d)
        BY EditedDocument
      <4>2. PICK e : e = [d EXCEPT !.named = named]
        OBVIOUS
      <4>3. e = [named |-> named, layers |-> d.layers, bindings |-> d.bindings]
        BY <4>2, DocumentFields
      <4>4. e \in Documents
        BY <4>3, DocumentFields DEF Documents
      <4>5. AimsFit(e)
        BY <4>1, <4>3 DEF AimsFit
      <4>6. Commit(e)
        BY <3>1, <4>1, <4>2 DEF RenameProfile
      <4>. QED
        BY <4>4, <4>5, <4>6, CommitKeeps
    <3>. QED
      BY <2>2, <3>1, LayersKeep, RoutingKeeps, InputsKeep, ControlsKeep DEF Rebinding
  <2>3. CASE Dragging
    BY <2>3, DraggingKeeps
  <2>4. CASE UNCHANGED editVars
    BY <2>4 DEF editVars, EditIInv, EditTypeOK, DragIsOnControl, AimsFit, Selectable, Binding
  <2>. QED
    BY <2>1, <2>2, <2>3, <2>4 DEF EditNext
<1>. QED
  BY <1>1, <1>2, PTL DEF EditSpec

\* Every document that editing leads to is a profile of the types that the page and the
\* server exchange, whatever was opened, typed, added or dragged (app.js, mutate).
THEOREM EditedProfilesAreDocuments == EditSpec => []EditTypeOK
<1>1. EditIInv => EditTypeOK
  BY DEF EditIInv
<1>. QED
  BY <1>1, EditingKeepsTheInvariant, PTL

\* What the page shows as valid can be saved, and a session starts with what is saved,
\* whatever edits led to it (profile-model.js:238, profile_v2.rs:52,
\* profile_controls.rs:147).
THEOREM EditedProfilesPlay == EditSpec => []ValidProfilesPlay
<1>1. EditIInv => ValidProfilesPlay
  <2>. SUFFICES ASSUME EditIInv
                PROVE  ValidProfilesPlay
    OBVIOUS
  <2>1. doc \in Documents /\ AimsFit(doc)
    BY EditedDocument
  <2>2. ValidatorsAgree
    BY <2>1, TheValidatorsAgree DEF ValidatorsAgree
  <2>3. ASSUME RustAccepts(doc), Selectable = DOMAIN doc.bindings, NEW side \in Sides
        PROVE  PlanBuilds(doc, side)
    <3>1. \A b \in AllBindings(doc) : Representable(b) /\ b.action.kind # "macro"
      BY <2>1, <2>3 DEF AllBindings, AimsFit, Selectable
    <3>. QED
      BY <2>1, <2>3, <3>1, ValidProfilesBuild
  <2>. QED
    BY <2>2, <2>3 DEF ValidProfilesPlay, SavedProfilesRun
<1>. QED
  BY <1>1, EditingKeepsTheInvariant, PTL

-----------------------------------------------------------------------------
(* Routine edits keep a profile valid *)

\* What the server asks of a binding alone, the layers given.
ValidBinding(d, b) ==
  /\ TrimName[b.name] # Blank
  /\ RustInput(b) /\ RustAction(b.action) /\ RustCompatible(b) /\ RustModifier(b)
  /\ b.layer \in {None} \cup LayerNames(d)
  /\ b.layer = None /\ b.modifier = None => InputKeys(b) \cap RustActivationKeys(d) = {}
  /\ \A l \in DOMAIN d.layers :
       d.layers[l].name = b.layer => Canonical[d.layers[l].key] \notin InputKeys(b)

\* What the server asks of two bindings: in one scope they share no input.
Separate(b, c) == RustScope(b) = RustScope(c) => InputSet(b) \cap InputSet(c) = {}

\* What the server asks of layers, by their places.
LEMMA LayersByParts ==
  ASSUME NEW d \in Documents
  PROVE  RustLayers(d) <=>
           /\ \A l \in DOMAIN d.layers : TrimName[d.layers[l].name] \notin {Blank, BaseName}
           /\ \A l, m \in DOMAIN d.layers :
                l # m => TrimName[d.layers[l].name] # TrimName[d.layers[m].name]
           /\ Len(d.layers) <= MaxLayers
           /\ \A l \in DOMAIN d.layers : Canonical[d.layers[l].key] \in KeyNames
           /\ \A l, m \in DOMAIN d.layers :
                l # m => Canonical[d.layers[l].key] # Canonical[d.layers[m].key]
  BY DEF RustLayers, IsInjective

\* What the server asks of a profile, by its parts.
LEMMA AcceptedByParts ==
  ASSUME NEW d
  PROVE  RustAccepts(d) <=>
           /\ d.named /\ RustLayers(d)
           /\ \A i, j \in DOMAIN d.bindings :
                i # j => TrimName[d.bindings[i].name] # TrimName[d.bindings[j].name]
           /\ \A i \in DOMAIN d.bindings : ValidBinding(d, d.bindings[i])
           /\ \A i, j \in DOMAIN d.bindings : i # j => Separate(d.bindings[i], d.bindings[j])
<1>. DEFINE titles == [i \in DOMAIN d.bindings |-> TrimName[d.bindings[i].name]]
<1>1. IsInjective(titles) <=>
        \A i, j \in DOMAIN d.bindings :
          i # j => TrimName[d.bindings[i].name] # TrimName[d.bindings[j].name]
  BY DEF IsInjective
<1>2. RustAccepts(d) <=>
        /\ d.named /\ RustLayers(d) /\ IsInjective(titles)
        /\ \A b \in AllBindings(d) : ValidBinding(d, b)
        /\ \A i, j \in DOMAIN d.bindings : i # j => Separate(d.bindings[i], d.bindings[j])
  BY DEF RustAccepts, ValidBinding, Separate
<1>3. (\A b \in AllBindings(d) : ValidBinding(d, b)) <=>
        \A i \in DOMAIN d.bindings : ValidBinding(d, d.bindings[i])
  BY DEF AllBindings
<1>. HIDE DEF titles
<1>. QED
  BY <1>1, <1>2, <1>3

\* A profile stays valid when its controls keep their names and each valid one its scope
\* and inputs, or has no inputs.
LEMMA OtherBindingsValid ==
  ASSUME NEW d \in Documents, RustAccepts(d), NEW s, DOMAIN s = DOMAIN d.bindings,
         \A j \in DOMAIN s :
           /\ s[j].name = d.bindings[j].name /\ ValidBinding(d, s[j])
           /\ \/ InputSet(s[j]) = {}
              \/ /\ RustScope(s[j]) = RustScope(d.bindings[j])
                 /\ InputSet(s[j]) = InputSet(d.bindings[j]),
         NEW e, e = [named |-> d.named, layers |-> d.layers, bindings |-> s]
  PROVE  RustAccepts(e)
<1>1. e.named = d.named /\ e.layers = d.layers /\ e.bindings = s
  OBVIOUS
<1>2. RustLayers(e)
  BY <1>1 DEF RustAccepts, RustLayers
<1>3. \A i, j \in DOMAIN s : i # j => TrimName[s[i].name] # TrimName[s[j].name]
  BY AcceptedByParts
<1>4. ASSUME NEW j \in DOMAIN s
      PROVE  ValidBinding(e, s[j])
  <2>1. PICK b : b = s[j]
    OBVIOUS
  <2>2. ValidBinding(d, b)
    BY <2>1
  <2>3. LayerNames(e) = LayerNames(d) /\ RustActivationKeys(e) = RustActivationKeys(d)
    BY <1>1 DEF LayerNames, RustActivationKeys
  <2>4. ValidBinding(e, b)
    BY <1>1, <2>2, <2>3 DEF ValidBinding
  <2>. QED
    BY <2>1, <2>4
<1>5. ASSUME NEW i \in DOMAIN s, NEW j \in DOMAIN s, i # j
      PROVE  Separate(s[i], s[j])
  <2>1. Separate(d.bindings[i], d.bindings[j])
    BY <1>5, AcceptedByParts
  <2>. QED
    BY <1>5, <2>1 DEF Separate
<1>6. d.named
  BY AcceptedByParts
<1>7. /\ e.named
      /\ \A i, j \in DOMAIN e.bindings :
           i # j => TrimName[e.bindings[i].name] # TrimName[e.bindings[j].name]
      /\ \A i \in DOMAIN e.bindings : ValidBinding(e, e.bindings[i])
      /\ \A i, j \in DOMAIN e.bindings : i # j => Separate(e.bindings[i], e.bindings[j])
  BY <1>1, <1>3, <1>4, <1>5, <1>6
<1>. QED
  BY <1>2, <1>7, AcceptedByParts

\* A profile stays valid when its layers keep their names and keys.
LEMMA OtherModesValid ==
  ASSUME NEW d \in Documents, RustAccepts(d), NEW e \in Documents,
         e.named = d.named, e.bindings = d.bindings, Len(e.layers) = Len(d.layers),
         \A l \in DOMAIN d.layers :
           e.layers[l].name = d.layers[l].name /\ e.layers[l].key = d.layers[l].key
  PROVE  RustAccepts(e)
<1>1. DOMAIN e.layers = DOMAIN d.layers
  BY DocumentFields
<1>2. RustLayers(e)
  <2>1. RustLayers(d)
    BY AcceptedByParts
  <2>. QED
    BY <1>1, <2>1, LayersByParts
<1>3. LayerNames(e) = LayerNames(d) /\ RustActivationKeys(e) = RustActivationKeys(d)
  BY <1>1 DEF LayerNames, RustActivationKeys
<1>4. ASSUME NEW j \in DOMAIN e.bindings
      PROVE  ValidBinding(e, e.bindings[j])
  <2>1. ValidBinding(d, d.bindings[j])
    BY AcceptedByParts
  <2>. QED
    BY <1>1, <1>3, <2>1 DEF ValidBinding
<1>. QED
  BY <1>2, <1>4, AcceptedByParts

\* A profile stays valid when one of its controls is removed.
LEMMA FewerBindingsValid ==
  ASSUME NEW d \in Documents, RustAccepts(d), NEW i \in DOMAIN d.bindings,
         NEW e, e = [d EXCEPT !.bindings = RemoveAt(d.bindings, i)]
  PROVE  RustAccepts(e)
<1>1. d.bindings \in Seq(Bindings) /\ DOMAIN d.bindings = 1 .. Len(d.bindings)
      /\ Len(d.bindings) \in Nat /\ i \in 1 .. Len(d.bindings)
  BY DocumentFields
<1>2. PICK s : s = RemoveAt(d.bindings, i)
  OBVIOUS
<1>3. /\ s \in Seq(Bindings) /\ Len(s) = Len(d.bindings) - 1
      /\ \A j \in 1 .. Len(d.bindings) - 1 : s[j] = d.bindings[IF j < i THEN j ELSE j + 1]
  BY <1>1, <1>2, RemovedFromSeq
<1>4. /\ e.named = d.named /\ e.layers = d.layers /\ e.bindings = s
  <2>1. e = [named |-> d.named, layers |-> d.layers, bindings |-> s]
    BY <1>2, DocumentFields
  <2>. QED
    BY <2>1
<1>. DEFINE k(j) == IF j < i THEN j ELSE j + 1
<1>5. ASSUME NEW j \in DOMAIN s
      PROVE  k(j) \in DOMAIN d.bindings /\ s[j] = d.bindings[k(j)]
  <2>1. j \in 1 .. Len(d.bindings) - 1
    BY <1>1, <1>3
  <2>. QED
    BY <1>1, <1>3, <2>1
<1>6. ASSUME NEW j \in DOMAIN s, NEW m \in DOMAIN s, j # m
      PROVE  k(j) # k(m)
  <2>1. j \in Int /\ m \in Int
    BY <1>3
  <2>. QED
    BY <1>1, <1>6, <2>1
<1>. HIDE DEF k
<1>7. RustLayers(e)
  BY <1>4 DEF RustAccepts, RustLayers
<1>8. ASSUME NEW j \in DOMAIN s
      PROVE  ValidBinding(e, s[j])
  <2>1. ValidBinding(d, s[j])
    BY <1>5, AcceptedByParts
  <2>. QED
    BY <1>4, <2>1 DEF ValidBinding, LayerNames, RustActivationKeys
<1>9. ASSUME NEW j \in DOMAIN s, NEW m \in DOMAIN s, j # m
      PROVE  Separate(s[j], s[m]) /\ TrimName[s[j].name] # TrimName[s[m].name]
  <2>1. k(j) # k(m) /\ k(j) \in DOMAIN d.bindings /\ k(m) \in DOMAIN d.bindings
    BY <1>5, <1>6, <1>9
  <2>2. /\ Separate(d.bindings[k(j)], d.bindings[k(m)])
        /\ TrimName[d.bindings[k(j)].name] # TrimName[d.bindings[k(m)].name]
    BY <2>1, AcceptedByParts
  <2>. QED
    BY <1>5, <2>2
<1>10. e.named
  BY <1>4, AcceptedByParts
<1>11. /\ \A j, m \in DOMAIN e.bindings :
             j # m => TrimName[e.bindings[j].name] # TrimName[e.bindings[m].name]
       /\ \A j \in DOMAIN e.bindings : ValidBinding(e, e.bindings[j])
       /\ \A j, m \in DOMAIN e.bindings : j # m => Separate(e.bindings[j], e.bindings[m])
  BY <1>4, <1>8, <1>9
<1>. QED
  BY <1>7, <1>10, <1>11, AcceptedByParts

\* A profile stays valid when a layer is renamed to a trimmed name that no other layer
\* has, and its controls go with it.
LEMMA RenamedLayerValid ==
  ASSUME NEW d \in Documents, RustAccepts(d), NEW l \in DOMAIN d.layers, NEW next \in Words,
         TrimName[next] = next, RenameAllowed(d, d.layers[l].name, next),
         NEW e, e = Moved([d EXCEPT !.layers[l].name = next], d.layers[l].name, next)
  PROVE  RustAccepts(e)
<1>20. PICK previous : previous = d.layers[l].name
  OBVIOUS
<1>1. /\ \A m \in DOMAIN d.layers : d.layers[m] \in Layers
      /\ previous \in Words /\ None \notin Words
  <2>1. \A m \in DOMAIN d.layers : d.layers[m] \in Layers
    BY DocumentFields
  <2>2. previous \in Words
    BY <1>20, <2>1 DEF Layers
  <2>. QED
    BY <2>1, <2>2, RuleConstants DEF Words
<1>2. PICK layer : layer = [name |-> next, mode |-> d.layers[l].mode, key |-> d.layers[l].key]
  OBVIOUS
<1>3. layer \in Layers
  BY <1>1, <1>2 DEF Layers
<1>4. PICK s : s = [d.layers EXCEPT ![l] = layer]
  OBVIOUS
<1>5. /\ s \in Seq(Layers) /\ Len(s) = Len(d.layers) /\ DOMAIN s = DOMAIN d.layers
      /\ \A m \in DOMAIN d.layers : s[m] = IF m = l THEN layer ELSE d.layers[m]
  BY <1>3, <1>4, WithLayer
<1>6. /\ s[l].name = next
      /\ \A m \in DOMAIN d.layers : m # l => s[m].name = d.layers[m].name
      /\ \A m \in DOMAIN d.layers : s[m].key = d.layers[m].key
  BY <1>2, <1>5, SMTT(30)
<1>7. PICK d1 \in Documents :
        d1 = [d EXCEPT !.layers = s]
        /\ d1.named = d.named /\ d1.layers = s /\ d1.bindings = d.bindings
  <2>1. [d EXCEPT !.layers = s] = [named |-> d.named, layers |-> s, bindings |-> d.bindings]
        /\ [d EXCEPT !.layers = s] \in Documents
    BY <1>5, WithLayers
  <2>. QED
    BY <2>1
<1>8. e = Moved(d1, previous, next)
  <2>1. [d EXCEPT !.layers[l].name = next] = [d EXCEPT !.layers = [d.layers EXCEPT ![l] =
              [name |-> next, mode |-> d.layers[l].mode, key |-> d.layers[l].key]]]
    BY LayerOtherName, SMT
  <2>2. [d EXCEPT !.layers[l].name = next] = d1
    BY <1>2, <1>4, <1>7, <2>1
  <2>. QED
    BY <1>20, <2>2
<1>9. PICK t \in Seq(Bindings) :
        /\ Moved(d1, previous, next) = [d1 EXCEPT !.bindings = t]
        /\ DOMAIN t = DOMAIN d1.bindings
        /\ \A i \in DOMAIN t : t[i] = Rerouted(d1.bindings[i], previous, next)
  BY MovedBindings
<1>10. /\ e.named = d.named /\ e.layers = s /\ e.bindings = t
       /\ DOMAIN t = DOMAIN d.bindings
       /\ \A i \in DOMAIN t : t[i] = Rerouted(d.bindings[i], previous, next)
  <2>1. [d1 EXCEPT !.bindings = t] = [named |-> d1.named, layers |-> d1.layers, bindings |-> t]
    BY OtherBindings
  <2>. QED
    BY <1>7, <1>8, <1>9, <2>1
<1>11. e \in Documents
  BY <1>1, <1>10, <1>5, <1>7, <1>8, <1>9, DocumentFields DEF Documents
<1>12. \A m \in DOMAIN d.layers : m # l => TrimName[d.layers[m].name] # next
  <2>1. ASSUME NEW m \in DOMAIN d.layers, m # l
        PROVE  d.layers[m].name # previous
    <3>1. RustLayers(d)
      BY AcceptedByParts
    <3>2. TrimName[d.layers[m].name] # TrimName[d.layers[l].name]
      BY <2>1, <3>1, LayersByParts
    <3>. QED
      BY <1>20, <3>2
  <2>. QED
    BY <1>20, <2>1 DEF RenameAllowed
<1>13. next \notin {Blank, BaseName}
  BY DEF RenameAllowed
<1>14. RustLayers(e)
  <2>1. RustLayers(d)
    BY AcceptedByParts
  <2>2. \A m \in DOMAIN s : TrimName[s[m].name] = IF m = l THEN next ELSE TrimName[d.layers[m].name]
    BY <1>5, <1>6
  <2>3. \A m \in DOMAIN s : TrimName[s[m].name] \notin {Blank, BaseName}
    BY <1>5, <1>13, <2>1, <2>2, LayersByParts
  <2>4. ASSUME NEW m \in DOMAIN s, NEW k \in DOMAIN s, m # k
        PROVE  TrimName[s[m].name] # TrimName[s[k].name]
    <3>1. TrimName[d.layers[m].name] # TrimName[d.layers[k].name]
      BY <1>5, <2>1, <2>4, LayersByParts
    <3>. QED
      BY <1>5, <1>12, <2>2, <2>4, <3>1
  <2>5. \A m \in DOMAIN s : Canonical[s[m].key] \in KeyNames
    BY <1>5, <1>6, <2>1, LayersByParts
  <2>6. \A m, k \in DOMAIN s : m # k => Canonical[s[m].key] # Canonical[s[k].key]
    BY <1>5, <1>6, <2>1, LayersByParts
  <2>7. Len(s) <= MaxLayers
    BY <1>5, <2>1, LayersByParts
  <2>. QED
    BY <1>10, <1>11, <2>3, <2>4, <2>5, <2>6, <2>7, LayersByParts
\* a control that is in a layer of the new name was in the renamed layer
<1>15. ASSUME NEW i \in DOMAIN t
       PROVE  /\ t[i].layer = (IF d.bindings[i].layer = previous THEN next ELSE d.bindings[i].layer)
              /\ t[i].name = d.bindings[i].name /\ t[i].modifier = d.bindings[i].modifier
              /\ t[i].input = d.bindings[i].input /\ t[i].action = d.bindings[i].action
  <2>1. t[i] = Rerouted(d.bindings[i], previous, next)
    BY <1>10
  <2>. QED
    BY <2>1, ReroutedFields
<1>16. ASSUME NEW i \in DOMAIN t, t[i].layer = next
       PROVE  d.bindings[i].layer = previous
  <2>. SUFFICES ASSUME d.bindings[i].layer = next
                PROVE  next = previous
    BY <1>15, <1>16
  <2>1. ValidBinding(d, d.bindings[i])
    BY <1>10, AcceptedByParts
  <2>2. PICK m \in DOMAIN d.layers : d.layers[m].name = next
    BY <1>1, <2>1 DEF ValidBinding, LayerNames
  <2>3. m = l
    BY <1>12, <2>2
  <2>. QED
    BY <1>20, <2>2, <2>3
<1>17. ASSUME NEW i \in DOMAIN t
       PROVE  ValidBinding(e, t[i])
  <2>0. PICK b : b = d.bindings[i]
    OBVIOUS
  <2>8. /\ t[i].layer = (IF b.layer = previous THEN next ELSE b.layer)
        /\ t[i].name = b.name /\ t[i].modifier = b.modifier
        /\ t[i].input = b.input /\ t[i].action = b.action
    BY <1>15, <2>0
  <2>1. ValidBinding(d, b)
    BY <1>10, <2>0, AcceptedByParts
  <2>2. InputKeys(t[i]) = InputKeys(b)
    BY <2>8, SameInputs
  <2>3. RustActivationKeys(e) = RustActivationKeys(d)
    BY <1>5, <1>6, <1>10, SMTT(30) DEF RustActivationKeys
  <2>4. t[i].layer \in {None} \cup LayerNames(e)
    <3>1. CASE b.layer = previous
      BY <1>5, <1>6, <1>10, <2>8, <3>1 DEF LayerNames
    <3>2. CASE b.layer # previous /\ b.layer # None
      <4>1. PICK m \in DOMAIN d.layers : d.layers[m].name = b.layer
        BY <2>1, <3>2 DEF ValidBinding, LayerNames
      <4>2. m # l
        BY <1>20, <3>2, <4>1
      <4>3. s[m].name = b.layer /\ m \in DOMAIN s /\ t[i].layer = b.layer
        BY <1>5, <1>6, <2>8, <3>2, <4>1, <4>2
      <4>. QED
        BY <1>10, <4>3 DEF LayerNames
    <3>3. CASE b.layer # previous /\ b.layer = None
      BY <2>8, <3>3
    <3>. QED
      BY <3>1, <3>2, <3>3
  <2>5. t[i].layer = None /\ t[i].modifier = None => InputKeys(t[i]) \cap RustActivationKeys(e) = {}
    <3>1. t[i].layer = None => b.layer = None
      BY <1>1, <2>8
    <3>. QED
      BY <2>8, <2>1, <2>2, <2>3, <3>1 DEF ValidBinding
  <2>6. ASSUME NEW m \in DOMAIN s, s[m].name = t[i].layer
        PROVE  Canonical[s[m].key] \notin InputKeys(t[i])
    <3>1. d.layers[m].name = b.layer
      <4>1. CASE m = l
        BY <1>6, <1>16, <1>20, <2>0, <2>6, <4>1
      <4>2. CASE m # l
        <5>1. s[m].name = d.layers[m].name /\ d.layers[m].name # next
          BY <1>5, <1>6, <1>12, <4>2
        <5>. QED
          BY <2>8, <2>6, <5>1
      <4>. QED
        BY <4>1, <4>2
    <3>. QED
      BY <1>5, <1>6, <2>1, <2>2, <3>1 DEF ValidBinding
  <2>7. /\ TrimName[t[i].name] # Blank /\ RustInput(t[i]) /\ RustAction(t[i].action)
        /\ RustCompatible(t[i]) /\ RustModifier(t[i])
    <3>1. /\ TrimName[b.name] # Blank /\ RustInput(b) /\ RustAction(b.action)
          /\ RustCompatible(b) /\ RustModifier(b)
      BY <2>1 DEF ValidBinding
    <3>2. RustInput(t[i]) /\ RustCompatible(t[i])
      BY <2>8, <3>1, SameInputs DEF RustInput, RustCompatible
    <3>3. RustModifier(t[i])
      BY <2>8, <2>2, <3>1 DEF RustModifier
    <3>. QED
      BY <2>8, <3>1, <3>2, <3>3
  <2>. QED
    BY <1>10, <2>4, <2>5, <2>6, <2>7 DEF ValidBinding
<1>18. ASSUME NEW i \in DOMAIN t, NEW j \in DOMAIN t, i # j
       PROVE  Separate(t[i], t[j]) /\ TrimName[t[i].name] # TrimName[t[j].name]
  <2>1. /\ Separate(d.bindings[i], d.bindings[j])
        /\ TrimName[d.bindings[i].name] # TrimName[d.bindings[j].name]
    BY <1>10, <1>18, AcceptedByParts
  <2>2. t[i].layer = t[j].layer => d.bindings[i].layer = d.bindings[j].layer
    BY <1>15, <1>16
  <2>3. RustScope(t[i]) = RustScope(t[j]) => RustScope(d.bindings[i]) = RustScope(d.bindings[j])
    <3>1. PICK mi, mj : /\ mi = IF t[i].modifier = None THEN None ELSE Canonical[t[i].modifier]
                        /\ mj = IF t[j].modifier = None THEN None ELSE Canonical[t[j].modifier]
      OBVIOUS
    <3>2. PICK pi, pj : /\ pi = (t[i].input.kind = "mouse_button")
                        /\ pj = (t[j].input.kind = "mouse_button")
      OBVIOUS
    <3>3. /\ RustScope(t[i]) = <<t[i].layer, mi, pi>>
          /\ RustScope(t[j]) = <<t[j].layer, mj, pj>>
      BY <3>1, <3>2, Zenon DEF RustScope
    <3>4. /\ RustScope(d.bindings[i]) = <<d.bindings[i].layer, mi, pi>>
          /\ RustScope(d.bindings[j]) = <<d.bindings[j].layer, mj, pj>>
      BY <1>15, <3>1, <3>2, Zenon DEF RustScope
    <3>5. <<t[i].layer, mi, pi>> = <<t[j].layer, mj, pj>> =>
            t[i].layer = t[j].layer /\ mi = mj /\ pi = pj
      BY Zenon
    <3>. QED
      BY <2>2, <3>3, <3>4, <3>5, Zenon
  <2>4. InputSet(t[i]) = InputSet(d.bindings[i]) /\ InputSet(t[j]) = InputSet(d.bindings[j])
    BY <1>15, SameInputs
  <2>. QED
    BY <1>15, <2>1, <2>3, <2>4 DEF Separate
<1>19. e.named
  BY <1>10, AcceptedByParts
<1>. QED
  BY <1>10, <1>14, <1>17, <1>18, <1>19, AcceptedByParts

\* A profile stays valid when a control is replaced by a valid one of its name that is in
\* its scope with its inputs, or has none.
LEMMA OtherBindingValid ==
  ASSUME NEW d \in Documents, RustAccepts(d), NEW i \in DOMAIN d.bindings, NEW c,
         c.name = d.bindings[i].name, ValidBinding(d, c),
         \/ InputSet(c) = {}
         \/ RustScope(c) = RustScope(d.bindings[i]) /\ InputSet(c) = InputSet(d.bindings[i])
  PROVE  RustAccepts([d EXCEPT !.bindings[i] = c])
<1>1. PICK s : s = [d.bindings EXCEPT ![i] = c]
  OBVIOUS
<1>2. d.bindings \in Seq(Bindings) /\ DOMAIN d.bindings = 1 .. Len(d.bindings)
  BY DocumentFields
<1>3. /\ DOMAIN s = DOMAIN d.bindings /\ s[i] = c
      /\ \A j \in DOMAIN s : j # i => s[j] = d.bindings[j]
  BY <1>1, <1>2
<1>4. [d EXCEPT !.bindings[i] = c] = [named |-> d.named, layers |-> d.layers, bindings |-> s]
  <2>1. [d EXCEPT !.bindings[i] = c] = [d EXCEPT !.bindings = s]
    BY <1>1, DocumentFields
  <2>. QED
    BY <2>1, OtherBindings
<1>5. ASSUME NEW j \in DOMAIN s
      PROVE  /\ s[j].name = d.bindings[j].name /\ ValidBinding(d, s[j])
             /\ \/ InputSet(s[j]) = {}
                \/ /\ RustScope(s[j]) = RustScope(d.bindings[j])
                   /\ InputSet(s[j]) = InputSet(d.bindings[j])
  <2>1. CASE j = i
    BY <1>3, <2>1
  <2>2. CASE j # i
    <3>1. s[j] = d.bindings[j] /\ ValidBinding(d, d.bindings[j])
      BY <1>3, <2>2, AcceptedByParts
    <3>. QED
      BY <3>1
  <2>. QED
    BY <2>1, <2>2
<1>. QED
  BY <1>3, <1>4, <1>5, OtherBindingsValid

\* A profile stays valid when the action of a control is replaced by a valid one of its kind.
LEMMA OtherActionValid ==
  ASSUME NEW d \in Documents, RustAccepts(d), NEW i \in DOMAIN d.bindings,
         NEW a \in LeafActions, a.kind = d.bindings[i].action.kind, RustLeaf(a),
         NEW c, c = [name |-> d.bindings[i].name, layer |-> d.bindings[i].layer,
                     modifier |-> d.bindings[i].modifier, input |-> d.bindings[i].input,
                     action |-> a]
  PROVE  RustAccepts([d EXCEPT !.bindings[i] = c])
<1>1. PICK b : b = d.bindings[i]
  OBVIOUS
<1>2. /\ c.name = b.name /\ c.layer = b.layer /\ c.modifier = b.modifier
      /\ c.input = b.input /\ c.action = a
  BY <1>1
<1>3. ValidBinding(d, b)
  BY <1>1, AcceptedByParts
<1>4. InputSet(c) = InputSet(b) /\ InputKeys(c) = InputKeys(b)
  BY <1>2, SameInputs
<1>5. RustAction(a) /\ a.kind = b.action.kind
  <2>1. a.kind # "macro"
    BY DEF LeafActions
  <2>. QED
    BY <1>1, <2>1 DEF RustAction
<1>6. ValidBinding(d, c)
  <2>1. TrimName[c.name] # Blank /\ RustInput(c) /\ RustAction(c.action)
    BY <1>2, <1>3, <1>4, <1>5 DEF ValidBinding, RustInput
  <2>2. RustCompatible(c)
    BY <1>2, <1>3, <1>5 DEF ValidBinding, RustCompatible
  <2>3. RustModifier(c)
    BY <1>2, <1>3, <1>4 DEF ValidBinding, RustModifier
  <2>. QED
    BY <1>2, <1>3, <1>4, <2>1, <2>2, <2>3 DEF ValidBinding
<1>7. RustScope(c) = RustScope(b)
  BY <1>2, Zenon DEF RustScope
<1>. QED
  BY <1>1, <1>2, <1>4, <1>6, <1>7, OtherBindingValid

\* A profile stays valid when the layer and the modifier of mouse movement are cleared.
LEMMA ClearedRoutingValid ==
  ASSUME NEW d \in Documents, RustAccepts(d), NEW i \in DOMAIN d.bindings,
         d.bindings[i].input.kind = "mouse_move",
         NEW c, c = [name |-> d.bindings[i].name, layer |-> None, modifier |-> None,
                     input |-> d.bindings[i].input, action |-> d.bindings[i].action]
  PROVE  RustAccepts([d EXCEPT !.bindings[i] = c])
<1>1. PICK b \in Bindings : b = d.bindings[i]
  BY DocumentFields
<1>2. /\ c.name = b.name /\ c.layer = None /\ c.modifier = None
      /\ c.input = b.input /\ c.action = b.action
  BY <1>1
<1>3. ValidBinding(d, b)
  BY <1>1, AcceptedByParts
<1>4. InputSet(c) = {} /\ InputKeys(c) = {}
  <2>1. b.input \in Triggers /\ b.input.kind = "mouse_move"
    BY <1>1, BindingFields
  <2>2. b.input.on = <<>>
    BY <2>1 DEF Triggers
  <2>3. c.input.on = <<>>
    BY <1>2, <2>2
  <2>4. InputSet(c) = {}
    BY <2>3 DEF InputSet
  <2>. QED
    BY <2>4 DEF InputKeys
<1>5. ValidBinding(d, c)
  <2>1. RustInput(c) /\ RustCompatible(c) /\ RustModifier(c)
    BY <1>2, <1>3, <1>4 DEF ValidBinding, RustInput, RustCompatible, RustModifier
  <2>. QED
    BY <1>2, <1>3, <1>4, <2>1 DEF ValidBinding
<1>. QED
  BY <1>1, <1>2, <1>4, <1>5, OtherBindingValid

\* A profile whose layers have no space around their names stays valid when a layer is
\* added with a name and a key that are free.
LEMMA AddedLayerValid ==
  ASSUME NEW d \in Documents, RustAccepts(d), Len(d.layers) < MaxLayers,
         \A l \in DOMAIN d.layers : TrimName[d.layers[l].name] = d.layers[l].name,
         NEW name \in FirstFree(DefaultLayers, LayerNames(d)), NEW key \in FreeKeys(d)
  PROVE  RustAccepts([d EXCEPT !.layers =
                        Append(d.layers, [name |-> name, mode |-> "hold", key |-> key])])
<1>15. PICK e : e = [d EXCEPT !.layers =
                       Append(d.layers, [name |-> name, mode |-> "hold", key |-> key])]
  OBVIOUS
<1>1. /\ name \in Words \ {Blank, BaseName} /\ TrimName[name] = name
      /\ name \notin LayerNames(d) /\ name # None
  <2>1. name \in Words \ {Blank, BaseName}
    BY SuggestionsAreKnown
  <2>2. TrimName[name] = name /\ name \notin LayerNames(d)
    BY EditingConstants DEF FirstFree
  <2>. QED
    BY <2>1, <2>2, RuleConstants DEF Words
<1>2. /\ key \in KeyNames /\ Canonical[key] = key /\ key \notin UsedKeys(d)
      /\ key \in Spellings
  <2>1. /\ ActivationKeys \in Seq(KeyNames)
        /\ \A i \in DOMAIN ActivationKeys : Canonical[ActivationKeys[i]] = ActivationKeys[i]
    BY EditingConstants
  <2>2. key \in KeyNames /\ Canonical[key] = key /\ key \notin UsedKeys(d)
    BY <2>1 DEF FreeKeys, FirstFree
  <2>. QED
    BY <2>2, RuleConstants DEF Spellings
<1>3. PICK layer \in Layers : layer = [name |-> name, mode |-> "hold", key |-> key]
  BY <1>1, <1>2 DEF Layers
<1>4. PICK n \in Nat : n = Len(d.layers) /\ DOMAIN d.layers = 1 .. n /\ d.layers \in Seq(Layers)
  BY DocumentFields
<1>5. PICK s : s = Append(d.layers, layer)
  OBVIOUS
<1>6. /\ s \in Seq(Layers) /\ Len(s) = n + 1 /\ DOMAIN s = 1 .. n + 1
      /\ s[n + 1] = layer /\ \A l \in 1 .. n : s[l] = d.layers[l]
  BY <1>4, <1>5
<1>7. e.named = d.named /\ e.layers = s /\ e.bindings = d.bindings /\ e \in Documents
  <2>1. e = [d EXCEPT !.layers = s]
    BY <1>3, <1>5, <1>15
  <2>2. e \in Documents /\ e = [named |-> d.named, layers |-> s, bindings |-> d.bindings]
    <3>1. /\ [d EXCEPT !.layers = s] = [named |-> d.named, layers |-> s, bindings |-> d.bindings]
          /\ [d EXCEPT !.layers = s] \in Documents
      BY <1>6, WithLayers
    <3>. QED
      BY <2>1, <3>1
  <2>. QED
    BY <2>2
<1>8. RustLayers(d)
  BY AcceptedByParts
<1>9. \A l \in DOMAIN s : l \in 1 .. n \/ l = n + 1
  BY <1>6
<1>10. ASSUME NEW l \in 1 .. n
       PROVE  TrimName[d.layers[l].name] # name /\ Canonical[d.layers[l].key] # key
  <2>1. d.layers[l].name # name
    BY <1>1, <1>4 DEF LayerNames
  <2>2. Canonical[d.layers[l].key] \in UsedKeys(d)
    BY <1>4 DEF UsedKeys
  <2>. QED
    BY <1>2, <1>4, <2>1, <2>2
<1>11. RustLayers(e)
  <2>1. layer.name = name /\ layer.key = key
    BY <1>3
  <2>2. \A l \in DOMAIN s : TrimName[s[l].name] \notin {Blank, BaseName}
    BY <1>1, <1>4, <1>6, <1>8, <1>9, <2>1, LayersByParts
  <2>3. ASSUME NEW l \in DOMAIN s, NEW m \in DOMAIN s, l # m
        PROVE  TrimName[s[l].name] # TrimName[s[m].name] /\ Canonical[s[l].key] # Canonical[s[m].key]
    <3>1. CASE l \in 1 .. n /\ m \in 1 .. n
      <4>1. /\ TrimName[d.layers[l].name] # TrimName[d.layers[m].name]
            /\ Canonical[d.layers[l].key] # Canonical[d.layers[m].key]
        BY <1>4, <1>8, <2>3, <3>1, LayersByParts
      <4>. QED
        BY <1>6, <3>1, <4>1
    <3>2. CASE l \in 1 .. n /\ m = n + 1
      BY <1>1, <1>2, <1>6, <1>10, <2>1, <3>2
    <3>3. CASE l = n + 1 /\ m \in 1 .. n
      BY <1>1, <1>2, <1>6, <1>10, <2>1, <3>3
    <3>. QED
      BY <1>9, <2>3, <3>1, <3>2, <3>3
  <2>4. \A l \in DOMAIN s : Canonical[s[l].key] \in KeyNames
    BY <1>2, <1>4, <1>6, <1>8, <1>9, <2>1, LayersByParts
  <2>5. Len(s) <= MaxLayers
    BY <1>4, <1>6, RuleConstants
  <2>6. /\ \A l, m \in DOMAIN s : l # m => TrimName[s[l].name] # TrimName[s[m].name]
        /\ \A l, m \in DOMAIN s : l # m => Canonical[s[l].key] # Canonical[s[m].key]
    BY <2>3
  <2>. QED
    BY <1>7, <2>2, <2>4, <2>5, <2>6, LayersByParts
<1>12. /\ LayerNames(d) \subseteq LayerNames(e)
       /\ \A x \in RustActivationKeys(e) : x = key \/ x \in RustActivationKeys(d)
  <2>1. LayerNames(d) \subseteq LayerNames(e)
    BY <1>4, <1>6, <1>7 DEF LayerNames
  <2>2. ASSUME NEW x \in RustActivationKeys(e)
        PROVE  x = key \/ x \in RustActivationKeys(d)
    <3>1. PICK l \in DOMAIN s : x = Canonical[s[l].key]
      BY <1>7 DEF RustActivationKeys
    <3>2. CASE l \in 1 .. n
      BY <1>4, <1>6, <3>1, <3>2 DEF RustActivationKeys
    <3>3. CASE l = n + 1
      BY <1>2, <1>3, <1>6, <3>1, <3>3
    <3>. QED
      BY <1>9, <3>2, <3>3
  <2>. QED
    BY <2>1, <2>2
<1>13. ASSUME NEW i \in DOMAIN d.bindings
       PROVE  ValidBinding(e, d.bindings[i])
  <2>1. PICK b : b = d.bindings[i]
    OBVIOUS
  <2>2. ValidBinding(d, b) /\ b \in AllBindings(d)
    BY <2>1, AcceptedByParts DEF AllBindings
  <2>3. b.layer \in {None} \cup LayerNames(e)
    BY <1>12, <2>2 DEF ValidBinding
  <2>4. ASSUME b.layer = None, b.modifier = None
        PROVE  InputKeys(b) \cap RustActivationKeys(e) = {}
    <3>1. InputKeys(b) \subseteq UsedKeys(d)
      BY <2>2, <2>4 DEF UsedKeys
    <3>2. key \notin InputKeys(b)
      BY <1>2, <3>1
    <3>3. InputKeys(b) \cap RustActivationKeys(d) = {}
      BY <2>2, <2>4 DEF ValidBinding
    <3>. QED
      BY <1>12, <3>2, <3>3
  <2>5. ASSUME NEW l \in DOMAIN s, s[l].name = b.layer
        PROVE  Canonical[s[l].key] \notin InputKeys(b)
    <3>1. CASE l \in 1 .. n
      BY <1>4, <1>6, <2>2, <2>5, <3>1 DEF ValidBinding
    <3>2. CASE l = n + 1
      <4>1. b.layer = name
        BY <1>3, <1>6, <2>5, <3>2
      <4>. QED
        BY <1>1, <2>2, <4>1 DEF ValidBinding
    <3>. QED
      BY <1>9, <3>1, <3>2
  <2>6. ValidBinding(e, b)
    BY <1>7, <2>2, <2>3, <2>4, <2>5 DEF ValidBinding
  <2>. QED
    BY <2>1, <2>6
<1>14. /\ e.named
       /\ \A i, j \in DOMAIN e.bindings :
            i # j => TrimName[e.bindings[i].name] # TrimName[e.bindings[j].name]
       /\ \A i \in DOMAIN e.bindings : ValidBinding(e, e.bindings[i])
       /\ \A i, j \in DOMAIN e.bindings : i # j => Separate(e.bindings[i], e.bindings[j])
  <2>1. /\ d.named
        /\ \A i, j \in DOMAIN d.bindings :
             i # j => TrimName[d.bindings[i].name] # TrimName[d.bindings[j].name]
        /\ \A i, j \in DOMAIN d.bindings : i # j => Separate(d.bindings[i], d.bindings[j])
    BY AcceptedByParts
  <2>. QED
    BY <1>7, <1>13, <2>1
<1>. QED
  <2>1. RustAccepts(e)
    BY <1>11, <1>14, AcceptedByParts
  <2>. QED
    BY <1>15, <2>1

\* A routine edit keeps a profile valid that was.
LEMMA RoutineKeepsValid ==
  ASSUME EditIInv, Routine, RustAccepts(doc)
  PROVE  RustAccepts(doc')
<1>1. PICK d \in Documents : d = doc /\ RustAccepts(d) /\ AimsFit(d)
  BY EditedDocument
<1>2. ASSUME NEW l \in DOMAIN doc.layers, NEW next \in TypedNames, RenameLayer(l, next)
      PROVE  RustAccepts(doc')
  <2>1. next \in Words /\ TrimName[next] = next
    BY EditingConstants
  <2>2. /\ RenameAllowed(d, d.layers[l].name, next)
        /\ doc' = Moved([d EXCEPT !.layers[l].name = next], d.layers[l].name, next)
    BY <1>1, <1>2 DEF RenameLayer, Commit
  <2>. QED
    BY <1>1, <2>1, <2>2, RenamedLayerValid
<1>3. ASSUME NEW l \in DOMAIN doc.layers, NEW mode \in {"hold", "toggle"}, LayerMode(l, mode)
      PROVE  RustAccepts(doc')
  <2>1. PICK layer : layer = [name |-> d.layers[l].name, mode |-> mode, key |-> d.layers[l].key]
    OBVIOUS
  <2>2. layer \in Layers
    <3>1. d.layers[l] \in Layers
      BY <1>1, DocumentFields
    <3>. QED
      BY <2>1, <3>1 DEF Layers
  <2>3. PICK s : s = [d.layers EXCEPT ![l] = layer]
    OBVIOUS
  <2>4. /\ s \in Seq(Layers) /\ Len(s) = Len(d.layers) /\ DOMAIN s = DOMAIN d.layers
        /\ \A k \in DOMAIN d.layers : s[k] = IF k = l THEN layer ELSE d.layers[k]
    BY <1>1, <2>2, <2>3, WithLayer
  <2>5. doc' = [d EXCEPT !.layers = s]
    <3>1. [d EXCEPT !.layers[l].mode = mode] =
            [d EXCEPT !.layers = [d.layers EXCEPT ![l] =
               [name |-> d.layers[l].name, mode |-> mode, key |-> d.layers[l].key]]]
      BY <1>1, LayerOtherMode, SMT
    <3>2. doc' = [d EXCEPT !.layers[l].mode = mode]
      BY <1>1, <1>3 DEF LayerMode, Commit
    <3>. QED
      BY <2>1, <2>3, <3>1, <3>2
  <2>6. doc' \in Documents /\ doc'.named = d.named /\ doc'.bindings = d.bindings /\ doc'.layers = s
    <3>1. /\ [d EXCEPT !.layers = s] = [named |-> d.named, layers |-> s, bindings |-> d.bindings]
          /\ [d EXCEPT !.layers = s] \in Documents
      BY <2>4, WithLayers
    <3>. QED
      BY <2>5, <3>1
  <2>7. \A k \in DOMAIN d.layers : s[k].name = d.layers[k].name /\ s[k].key = d.layers[k].key
    BY <2>1, <2>4
  <2>. QED
    BY <1>1, <2>4, <2>6, <2>7, OtherModesValid
<1>4. ASSUME NEW i \in Selectable, ClearRouting(i)
      PROVE  RustAccepts(doc')
  <2>1. PICK b \in Bindings : b = d.bindings[i] /\ i \in DOMAIN d.bindings
    BY <1>1, InspectedBinding DEF Binding
  <2>2. PICK c : c = [b EXCEPT !.layer = None, !.modifier = None]
    OBVIOUS
  <2>3. c = [name |-> b.name, layer |-> None, modifier |-> None, input |-> b.input,
             action |-> b.action]
    BY <2>2, BindingEdits
  <2>4. b.input.kind = "mouse_move" /\ doc' = [d EXCEPT !.bindings[i] = c]
    BY <1>1, <1>4, <2>1, <2>2 DEF ClearRouting, EditBinding, Commit, Binding
  <2>. QED
    BY <1>1, <2>1, <2>3, <2>4, ClearedRoutingValid
<1>5. ASSUME NEW i \in Selectable, NEW key \in TypedKeys \cup {None}, AimToggle(i, key)
      PROVE  RustAccepts(doc')
  <2>1. PICK b \in Bindings : b = d.bindings[i] /\ i \in DOMAIN d.bindings
    BY <1>1, InspectedBinding DEF Binding
  <2>2. PICK a0 \in LeafActions : a0 = b.action
    BY <1>1, <2>1, InspectedBinding DEF Binding
  <2>3. PICK c : c = [b EXCEPT !.action.toggle = key]
    OBVIOUS
  <2>4. PICK a : a = [a0 EXCEPT !.toggle = key]
    OBVIOUS
  <2>5. a0.kind = "mouse_aim" /\ doc' = [d EXCEPT !.bindings[i] = c]
    BY <1>1, <1>5, <2>1, <2>2, <2>3 DEF AimToggle, EditBinding, Commit, Binding
  <2>6. /\ a \in LeafActions
        /\ a = [kind |-> a0.kind, n |-> a0.n, toggle |-> key, steps |-> a0.steps]
    <3>1. key \in Toggles
      BY KeysAreSpellings DEF Toggles
    <3>. QED
      BY <2>4, <3>1, ToggleOfAction
  <2>7. RustLeaf(a)
    <3>1. RustLeaf(a0)
      <4>1. ValidBinding(d, b)
        BY <1>1, <2>1, AcceptedByParts
      <4>. QED
        BY <2>2, <2>5, <4>1 DEF ValidBinding, RustAction
    <3>2. RustAim(a0.n, a0.toggle)
      BY <2>5, <3>1 DEF RustLeaf
    <3>3. key # None => Canonical[key] \in KeyNames
      BY EditingConstants
    <3>4. RustAim(a0.n, key)
      BY <3>2, <3>3 DEF RustAim
    <3>. QED
      BY <2>5, <2>6, <3>4 DEF RustLeaf
  <2>8. c = [name |-> b.name, layer |-> b.layer, modifier |-> b.modifier, input |-> b.input,
             action |-> a]
    <3>1. [b EXCEPT !.action.toggle = key] =
            [name |-> b.name, layer |-> b.layer, modifier |-> b.modifier, input |-> b.input,
             action |-> [b.action EXCEPT !.toggle = key]]
      BY BindingEdits
    <3>. QED
      BY <2>2, <2>3, <2>4, <3>1
  <2>9. a.kind = b.action.kind
    BY <2>2, <2>6
  <2>. QED
    BY <1>1, <2>1, <2>5, <2>6, <2>7, <2>8, <2>9, OtherActionValid
<1>6. ASSUME NEW i \in Selectable, NEW field, NEW v \in Typed, TypeNumber(i, field, v)
      PROVE  RustAccepts(doc')
  <2>1. PICK b \in Bindings : b = d.bindings[i] /\ i \in DOMAIN d.bindings
    BY <1>1, InspectedBinding DEF Binding
  <2>2. PICK a0 \in LeafActions : a0 = b.action
    BY <1>1, <2>1, InspectedBinding DEF Binding
  <2>3. PICK c : c = [b EXCEPT !.action.n = TypedNumber(b.action.n, field, v)]
    OBVIOUS
  <2>4. field \in DOMAIN a0.n /\ doc' = [d EXCEPT !.bindings[i] = c]
    BY <1>1, <1>6, <2>1, <2>2, <2>3 DEF TypeNumber, EditBinding, Commit, Binding
  <2>5. PICK a \in LeafActions :
          /\ a = [a0 EXCEPT !.n = TypedNumber(a0.n, field, v)] /\ a.kind = a0.kind
          /\ RustLeaf(a0) => RustLeaf(a)
          /\ a.kind = "mouse_aim" /\ SensitivityFits(a0.n.sensitivity, 10) =>
               SensitivityFits(a.n.sensitivity, 10)
    BY <2>4, TypedAction, Zenon
  <2>6. RustLeaf(a0)
    <3>1. ValidBinding(d, b) /\ a0.kind # "macro"
      BY <1>1, <2>1, AcceptedByParts DEF LeafActions
    <3>. QED
      BY <2>2, <3>1 DEF ValidBinding, RustAction
  <2>7. c = [name |-> b.name, layer |-> b.layer, modifier |-> b.modifier, input |-> b.input,
             action |-> a]
    <3>1. [b EXCEPT !.action.n = TypedNumber(b.action.n, field, v)] =
            [name |-> b.name, layer |-> b.layer, modifier |-> b.modifier, input |-> b.input,
             action |-> [b.action EXCEPT !.n = TypedNumber(b.action.n, field, v)]]
      BY NumbersOfBinding
    <3>. QED
      BY <2>2, <2>3, <2>5, <3>1
  <2>8. a.kind = b.action.kind /\ RustLeaf(a)
    BY <2>2, <2>5, <2>6
  <2>. QED
    BY <1>1, <2>1, <2>4, <2>7, <2>8, OtherActionValid
<1>7. ASSUME NEW i \in DOMAIN doc.bindings, DeleteSelected(i)
      PROVE  RustAccepts(doc')
  <2>1. doc' = [d EXCEPT !.bindings = RemoveAt(d.bindings, i)]
    BY <1>1, <1>7 DEF DeleteSelected, Commit
  <2>. QED
    BY <1>1, <2>1, FewerBindingsValid
<1>8. ASSUME FreeKeys(doc) # {}, AddLayer,
             \A l \in DOMAIN doc.layers : TrimName[doc.layers[l].name] = doc.layers[l].name
      PROVE  RustAccepts(doc')
  <2>1. PICK name \in FirstFree(DefaultLayers, LayerNames(d)), key \in SuggestedKeys(d) :
          /\ Len(d.layers) < MaxLayers
          /\ doc' = [d EXCEPT !.layers =
                       Append(d.layers, [name |-> name, mode |-> "hold", key |-> key])]
    BY <1>1, <1>8 DEF AddLayer, Commit
  <2>2. key \in FreeKeys(d)
    BY <1>1, <1>8 DEF SuggestedKeys
  <2>. QED
    BY <1>1, <1>8, <2>1, <2>2, AddedLayerValid
<1>9. CASE \E l \in DOMAIN doc.layers :
             \/ \E next \in TypedNames : RenameLayer(l, next)
             \/ \E mode \in {"hold", "toggle"} : LayerMode(l, mode)
  BY <1>2, <1>3, <1>9
<1>10. CASE \E i \in Selectable :
             \/ ClearRouting(i)
             \/ \E key \in TypedKeys \cup {None} : AimToggle(i, key)
             \/ \E field : \E v \in Typed : TypeNumber(i, field, v)
  BY <1>4, <1>5, <1>6, <1>10
<1>11. CASE \E i \in DOMAIN doc.bindings : DeleteSelected(i)
  BY <1>7, <1>11
<1>. QED
  BY <1>8, <1>9, <1>10, <1>11 DEF Routine

\* Renaming or re-moding a layer, typing a number, clearing a routing, deleting a control
\* and adding a layer with a free key never turn a profile that can be saved into one that
\* cannot, whatever the profile and whatever is typed (app.js, layerRenameError and the
\* setters of wireInspector).
THEOREM EditingKeepsProfilesValid == EditSpec => RoutineEditsKeepValid
<1>1. EditIInv /\ [EditNext]_editVars =>
        [Routine /\ RustAccepts(doc) => RustAccepts(doc')]_editVars
  BY RoutineKeepsValid
<1>. QED
  BY <1>1, EditingKeepsTheInvariant, PTL DEF EditSpec, RoutineEditsKeepValid

=============================================================================
