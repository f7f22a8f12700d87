----------------------------- MODULE MCSession -----------------------------
(* Instances for the run of what a session is made of: the launch that     *)
(* becomes one, the runtime of a control plan, the cursor overlay and the  *)
(* focus relay.  They share no state that is modelled, so one run checks   *)
(* them side by side: the first step of a behaviour has chosen which of    *)
(* them acts in it.                                                        *)
EXTENDS MCUnifiedRuntime, CursorOverlay, FocusRelay, LaunchRequest, TLC

CONSTANTS q1, q2, kbd, pad, rat, elsewhere

VARIABLE part

sessionVars == <<vars, overlayVars, relayVars, requestVars>>

-----------------------------------------------------------------------------
(* Launches: with every option, at the ends of what is allowed, and         *)
(* outside; a keyboard that is a mouse too                                 *)

Asking(via, size, keyboard, mouse, given, exit) ==
  [via |-> via, root |-> via \in {"play", "diagnostic"}, size |-> size, keyboard |-> keyboard,
   mouse |-> mouse, switches |-> given, exit |-> exit, gameMode |-> via = "hub"]

SomeAsks ==
  {Asking("hub", 1600, kbd, pad, {}, NoLimit),
   Asking("terminal", 1, NoInput, rat, {"--no-launch", "--trace-input"}, 3600),
   Asking("terminal", 8192, NoInput, NoInput, {"--no-grab", "--no-ui"}, NoLimit),
   Asking("terminal", 0, elsewhere, NoInput, {"--no-grab"}, NoLimit),
   Asking("play", 1, NoInput, NoInput, {}, 0),
   Asking("diagnostic", 1, kbd, NoInput, {}, 1)}

SomeContents ==
  {[package |-> "shooter", mouse |-> TRUE, valid |-> TRUE],
   [package |-> "racer", mouse |-> FALSE, valid |-> TRUE],
   [package |-> "racer", mouse |-> FALSE, valid |-> FALSE]}

OpensAs ==
  [d \in {kbd, pad, rat, elsewhere} |->
     CASE d = pad -> {"keyboard", "mouse"} [] d = rat -> {"mouse"} [] OTHER -> {"keyboard"}]

InOrder == [d \in {kbd, pad, rat, elsewhere} |-> CASE d = pad -> 1 [] d = kbd -> 2 [] OTHER -> 3]

Generations == <<0, 1>>

\* launches are alike
RequestsAreAlike == Permutations(Requests)

-----------------------------------------------------------------------------

NoControls == Plan(<<>>, <<>>)
SessionPlans == AllPlans \cup {NoControls}

\* the first process, the worker, its child and its grandchild, and a stranger
Tree == <<1, 1, 2, 3, 1>>

\* what the theorem about the relay supposes of the processes
ASSUME InstanceClimb == ClimbIsExact

SessionInit ==
  /\ part \in {"runtime", "overlay", "relay", "request"}
  /\ Init /\ (part # "runtime" => plan = NoControls)
  /\ OverlayInit
  /\ RelayInit /\ (part # "relay" => window = Waydroid)
  /\ RequestInit /\ (part # "request" => profileFile.mouse)

SessionNext ==
  /\ UNCHANGED part
  /\ \/ part = "runtime" /\ Next /\ UNCHANGED <<overlayVars, relayVars, requestVars>>
     \/ part = "overlay" /\ OverlayNext /\ UNCHANGED <<vars, relayVars, requestVars>>
     \/ part = "relay" /\ RelayNext /\ UNCHANGED <<vars, overlayVars, requestVars>>
     \/ part = "request" /\ RequestNext /\ UNCHANGED <<vars, overlayVars, relayVars>>

SessionSpec == SessionInit /\ [][SessionNext]_<<sessionVars, part>>

\* the relay alone
RelayAlone == SessionInit /\ part = "relay" /\ [][SessionNext]_<<sessionVars, part>>
=============================================================================
