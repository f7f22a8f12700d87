-------------------------- MODULE StudioBackground --------------------------
(***************************************************************************)
(* The calibration background of Controls Studio: an image of the game     *)
(* that is chosen, dropped, or taken from a captured window, and uploaded  *)
(* to a file beside the profile.  Captures and uploads are asynchronous,   *)
(* and few of the page's buttons are disabled while they run.              *)
(***************************************************************************)
EXTENDS Naturals, FiniteSets

CONSTANTS
  Images,       \* images a user chooses, and frames of the captured window
  Streams,      \* captures of a window that the browser grants
  NoImage, NoStream,
  MaxRequests   \* uploads and removals in all

ASSUME NoImageIsNone == NoImage \notin Images

VARIABLES
  background,  \* the file
  view,        \* the page: [shown, saved, saving, live, clearing, encoding]
  calibration, \* state.calibration: the stream of the live alignment
  prompts,     \* window pickers that are open
  opening,     \* granted streams whose video is not playing yet
  sharing,     \* streams that the browser shows as being shared
  granted,     \* all the streams so far
  calls,       \* requests under way: [id, kind, image, frame, at]
  issued,      \* how many there were so far
  overlapped,  \* history: requests were under way at once, and no upload was alone since
  crowded      \* history: a window picker was opened while another capture was starting

uploads == <<calls, issued, overlapped>>

backgroundVars ==
  <<background, view, calibration, prompts, opening, sharing, granted, crowded, uploads>>

Show(image, saved) == [view EXCEPT !.shown = image, !.saved = saved]

Loaded(file) == [shown |-> file, saved |-> file # NoImage, saving |-> FALSE,
                 live |-> FALSE, clearable |-> TRUE, encoding |-> NoImage]

\* loadSavedBackground
BackgroundInit ==
  /\ background \in Images \cup {NoImage}
  /\ view = Loaded(background)
  /\ calibration = NoStream /\ prompts = 0 /\ opening = {} /\ sharing = {} /\ granted = {}
  /\ calls = {} /\ issued = 0 /\ overlapped = FALSE /\ crowded = FALSE

Quiet == calls = {}

Issue(kind, image, frame) ==
  /\ issued < MaxRequests /\ issued' = issued + 1
  /\ calls' = calls \cup
       {[id |-> issued, kind |-> kind, image |-> image, frame |-> frame, at |-> "sent"]}
  /\ overlapped' = (~Quiet \/ (overlapped /\ kind = "delete"))

CaptureUnchanged == UNCHANGED <<calibration, prompts, opening, sharing, granted, crowded>>

-----------------------------------------------------------------------------
(* Images *)

Upload(image, frame) ==
  /\ Issue("put", image, frame)
  /\ view' = [Show(image, FALSE) EXCEPT !.saving = TRUE, !.encoding = NoImage]

\* loadScreenshot, by the button or by dropping a file on the page
ChooseImage(image, dropped) ==
  /\ dropped \/ ~(view.saving \/ view.live)
  /\ Upload(image, FALSE)
  /\ CaptureUnchanged /\ UNCHANGED background

\* saveCalibrationFrame: the frame is encoded, then shown and uploaded
TakeFrame(image) ==
  /\ calibration # NoStream /\ ~view.saving /\ view.encoding = NoImage
  /\ ~\E c \in calls : c.frame
  /\ view' = [view EXCEPT !.encoding = image]
  /\ CaptureUnchanged /\ UNCHANGED <<background, uploads>>

FrameEncoded(ok) ==
  /\ view.encoding # NoImage
  /\ \/ ok /\ Upload(view.encoding, TRUE)
     \/ ~ok /\ view' = [view EXCEPT !.encoding = NoImage] /\ UNCHANGED uploads
  /\ CaptureUnchanged /\ UNCHANGED background

\* clearBackground; the button is there while an image is shown
ClearImage ==
  /\ view.shown # NoImage /\ view.clearable
  /\ Issue("delete", NoImage, FALSE)
  /\ CaptureUnchanged /\ UNCHANGED <<background, view>>

\* save_background, or the removal of the file; `ok` is what the page is told
Serve(c, ok) ==
  /\ c.at = "sent"
  /\ calls' = (calls \ {c}) \cup {[c EXCEPT !.at = IF ok THEN "ok" ELSE "failed"]}
  /\ background' = IF ok THEN c.image ELSE background
  /\ CaptureUnchanged /\ UNCHANGED <<view, issued, overlapped>>

Live(v) == [v EXCEPT !.live = TRUE, !.clearable = FALSE]
NotLive(v) == [v EXCEPT !.live = FALSE, !.clearable = TRUE]

\* mutant: the page calls an image saved whatever the server answered
SettledAnyway(c) == [view EXCEPT !.saved = TRUE, !.saving = FALSE]

\* the end of persistBackground
Settled(c) == [view EXCEPT !.saved = c.at = "ok", !.saving = FALSE]

Answer(c) ==
  /\ c.at \in {"ok", "failed"}
  /\ calls' = calls \ {c}
  /\ view' = CASE c.kind = "put" -> IF c.frame THEN Live(Settled(c)) ELSE Settled(c)
               [] c.kind = "delete" /\ c.at = "ok" -> Show(NoImage, FALSE)
               [] OTHER -> view
  /\ CaptureUnchanged /\ UNCHANGED <<background, issued, overlapped>>

-----------------------------------------------------------------------------
(* Capturing a window *)

\* stopLiveCalibration
StopCapture ==
  /\ calibration # NoStream
  /\ sharing' = sharing \ {calibration}
  /\ calibration' = NoStream /\ view' = NotLive(view)
  /\ UNCHANGED <<prompts, opening, granted, crowded>>

EndCapture == StopCapture /\ UNCHANGED <<background, uploads>>

\* captureWindow, by its button or by a step of the guide, which is never disabled
OpenPicker ==
  /\ calibration = NoStream /\ prompts < 2
  /\ prompts' = prompts + 1
  /\ crowded' = (crowded \/ prompts > 0 \/ opening # {})
  /\ UNCHANGED <<background, view, calibration, opening, sharing, granted, uploads>>

CancelPicker ==
  /\ prompts > 0 /\ prompts' = prompts - 1
  /\ UNCHANGED <<background, view, calibration, opening, sharing, granted, crowded, uploads>>

PickWindow(s) ==
  /\ prompts > 0 /\ s \notin granted
  /\ prompts' = prompts - 1 /\ granted' = granted \cup {s}
  /\ opening' = opening \cup {s} /\ sharing' = sharing \cup {s}
  /\ UNCHANGED <<background, view, calibration, crowded, uploads>>

VideoPlays(s) ==
  /\ s \in opening
  /\ opening' = opening \ {s} /\ calibration' = s /\ view' = Live(view)
  /\ UNCHANGED <<background, prompts, sharing, granted, crowded, uploads>>

\* the handler of errors stops the alignment that is on, or else its own stream
VideoFails(s) ==
  /\ s \in opening
  /\ opening' = opening \ {s}
  /\ sharing' = sharing \ {IF calibration # NoStream THEN calibration ELSE s}
  /\ calibration' = NoStream
  /\ view' = IF calibration # NoStream THEN NotLive(view) ELSE view
  /\ UNCHANGED <<background, prompts, granted, crowded, uploads>>

\* the user ends the sharing of a window in the browser, or closes the window; a stream
\* that is not yet on has no handler
SharingEnds(s) ==
  /\ s \in sharing \ opening
  /\ sharing' = sharing \ {s, calibration}
  /\ calibration' = NoStream
  /\ view' = IF calibration # NoStream THEN NotLive(view) ELSE view
  /\ UNCHANGED <<background, prompts, opening, granted, crowded, uploads>>

BackgroundNext ==
  \/ \E image \in Images, b \in BOOLEAN : ChooseImage(image, b)
  \/ \E image \in Images : TakeFrame(image)
  \/ \E ok \in BOOLEAN : FrameEncoded(ok)
  \/ ClearImage
  \/ \E c \in calls : (\E ok \in BOOLEAN : Serve(c, ok)) \/ Answer(c)
  \/ EndCapture \/ OpenPicker \/ CancelPicker
  \/ \E s \in Streams : PickWindow(s) \/ VideoPlays(s) \/ VideoFails(s) \/ SharingEnds(s)

BackgroundSpec == BackgroundInit /\ [][BackgroundNext]_backgroundVars

-----------------------------------------------------------------------------

\* Requests that do not overlap leave the page and the file in agreement
\* (app.js:1388): "saved" means that the file is the image on the page, and an image that
\* was removed is gone.
BackgroundIsOnDisk ==
  Quiet /\ ~overlapped => /\ view.saved => background = view.shown
                          /\ view.shown = NoImage => background = NoImage

=============================================================================
