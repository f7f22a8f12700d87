------------------------ MODULE BridgeSessionProofs ------------------------
(***************************************************************************)
(* Proofs about BridgeSession, for any number of sessions: the lease makes *)
(* the configuration the property of one helper at a time, and the order   *)
(* of the helper's steps keeps it consistent at every one of them.         *)
(***************************************************************************)
EXTENDS BridgeSession, TLAPS

\* A helper that got the lease still has it.
LeaseHeld == \A s \in Sessions : helper[s] \in Leased => lease = s

\* Where a helper is tells what is in the configuration.
ConfigFollowsHelper ==
  \A s \in Sessions :
    /\ helper[s] \in Installed => include
    /\ helper[s] \in Installed \cup {"include"} => managed = s
    /\ helper[s] \in {"prune", "access", "managed", "include"} => ~include
    /\ helper[s] \in {"dropManaged", "dropAccess"} /\ s \notin failed => ~include
    /\ helper[s] = "dropAccess" /\ s \notin failed => managed = None

ConfigInv == LeaseHeld /\ ConfigFollowsHelper /\ IncludeResolves

\* Where a helper is tells whether its node is handed over; a session that has a
\* broker or a helper has been launched.
AccessInv ==
  \A s \in Sessions :
    /\ helper[s] \in Installed \cup {"managed", "include"} => (HasWorker(s) => s \in access)
    /\ broker[s] # "off" \/ helper[s] # "off" => worker[s] # "off"

BridgeInv == TypeOK /\ ConfigInv /\ AccessInv

-----------------------------------------------------------------------------
\* The initial states satisfy the invariant.
LEMMA InitInv == Init => BridgeInv
<1> SUFFICES ASSUME Init PROVE BridgeInv
  OBVIOUS
<1>1. NoCommand \in Pipes
  BY DEF NoCommand, Pipes
<1>2. Stopped \in [up : BOOLEAN, node : Sessions \cup {None}]
  BY DEF Stopped
<1>3. TypeOK
  BY <1>1, <1>2 DEF Init, TypeOK, WorkerStates, BrokerStates, HelperStates, Finishes
<1>4. ConfigInv
  BY DEF Init, ConfigInv, LeaseHeld, ConfigFollowsHelper, IncludeResolves, CanBoot, Leased,
         Installed
<1>5. AccessInv
  BY DEF Init, AccessInv, Installed
<1> QED
  BY <1>3, <1>4, <1>5 DEF BridgeInv

-----------------------------------------------------------------------------
(* Types *)

\* What the broker and the helper do to the helper's pipe keeps its type.
LEMMA PipeTypes ==
  ASSUME stdin \in [Sessions -> Pipes], NEW s \in Sessions
  PROVE  /\ Closed(s) \in [Sessions -> Pipes]
         /\ \A c \in {"none", "VERIFY"} : [stdin EXCEPT ![s].cmd = c] \in [Sessions -> Pipes]
         /\ \A c \in {"none", "CLEANUP"}, o \in BOOLEAN :
              At(stdin, s, [cmd |-> c, open |-> o]) \in [Sessions -> Pipes]
<1>1. stdin[s] \in Pipes
  OBVIOUS
<1>2. [stdin[s] EXCEPT !.open = FALSE] \in Pipes
  BY <1>1 DEF Pipes
<1>3. \A c \in {"none", "VERIFY"} : [stdin[s] EXCEPT !.cmd = c] \in Pipes
  BY <1>1 DEF Pipes
<1>4. \A c \in {"none", "CLEANUP"}, o \in BOOLEAN : [cmd |-> c, open |-> o] \in Pipes
  BY DEF Pipes
<1>5. Closed(s) \in [Sessions -> Pipes]
  BY <1>2 DEF Closed
<1>6. \A c \in {"none", "VERIFY"} : [stdin EXCEPT ![s].cmd = c] \in [Sessions -> Pipes]
  BY <1>3
<1>7. \A c \in {"none", "CLEANUP"}, o \in BOOLEAN :
        At(stdin, s, [cmd |-> c, open |-> o]) \in [Sessions -> Pipes]
  BY <1>4 DEF At
<1> QED
  BY <1>5, <1>6, <1>7

\* A step of a worker keeps the types.
LEMMA WorkerTypes ==
  ASSUME TypeOK, NEW s \in Sessions, WorkerStep(s)
  PROVE  TypeOK'
<1> USE DEF TypeOK, At, WorkerAt, WorkerStates, Finishes, HasWorker, workerVars, helperVars,
            hostVars
<1>1. CASE Launch(s)
  BY <1>1 DEF Launch, BrokerStates, BrokerEnded
<1>2. CASE WorkerPrepares(s)
  BY <1>2 DEF WorkerPrepares
<1>3. CASE WorkerOpens(s)
  BY <1>3 DEF WorkerOpens, Send
<1>4. CASE WorkerOpened(s)
  BY <1>4 DEF WorkerOpened, Receive
<1>5. CASE WorkerBoots(s)
  BY <1>5 DEF WorkerBoots, Boot, CanBoot
<1>6. CASE WorkerRestarts(s)
  BY <1>6 DEF WorkerRestarts, Stopped
<1>7. CASE WorkerVerifies(s)
  BY <1>7 DEF WorkerVerifies, Send
<1>8. CASE WorkerVerified(s)
  BY <1>8 DEF WorkerVerified, Receive
<1>9. CASE WorkerGivesUp(s)
  BY <1>9 DEF WorkerGivesUp
<1>10. CASE WorkerEnds(s)
  BY <1>10 DEF WorkerEnds
<1>11. CASE \E stopped \in BOOLEAN : WorkerStops(s, stopped)
  <2> PICK stopped \in BOOLEAN : WorkerStops(s, stopped)
    BY <1>11
  <2>1. container' \in [up : BOOLEAN, node : Sessions \cup {None}]
    BY DEF WorkerStops, Stopped
  <2>2. CASE worker[s] = "closing" /\ broker[s] \notin BrokerEnded
    BY <2>1, <2>2 DEF WorkerStops
  <2>3. CASE ~(worker[s] = "closing" /\ broker[s] \notin BrokerEnded)
    BY <2>1, <2>3 DEF WorkerStops
  <2> QED
    BY <2>2, <2>3
<1> QED
  BY <1>1, <1>2, <1>3, <1>4, <1>5, <1>6, <1>7, <1>8, <1>9, <1>10, <1>11 DEF WorkerStep

\* A step of a broker thread keeps the types.
LEMMA BrokerTypes ==
  ASSUME TypeOK, NEW s \in Sessions, BrokerStep(s) \/ BrokerTimesOut(s)
  PROVE  TypeOK'
<1>0. /\ Closed(s) \in [Sessions -> Pipes]
      /\ [stdin EXCEPT ![s].cmd = "VERIFY"] \in [Sessions -> Pipes]
      /\ At(stdin, s, [cmd |-> "none", open |-> TRUE]) \in [Sessions -> Pipes]
      /\ At(stdin, s, [cmd |-> "none", open |-> FALSE]) \in [Sessions -> Pipes]
      /\ At(stdin, s, [cmd |-> "CLEANUP", open |-> FALSE]) \in [Sessions -> Pipes]
  BY PipeTypes DEF TypeOK
<1>pipe. ASSUME BrokerStep(s) \/ BrokerTimesOut(s)
         PROVE  stdin' \in [Sessions -> Pipes]
  <2>1. CASE BrokerFinishes(s)
    <3>1. CASE request[s] = "FinishStopped"
      BY <2>1, <3>1, <1>0 DEF BrokerFinishes, BrokerFails, Dropped
    <3>2. CASE request[s] # "FinishStopped"
      BY <2>1, <3>2, <1>0 DEF BrokerFinishes, BrokerFails, Dropped
    <3> QED
      BY <3>1, <3>2
  <2> QED
    BY <2>1, <1>pipe, <1>0
    DEF BrokerStep, BrokerStartsHelper, BrokerOpens, BrokerVerifies, BrokerVerified,
        BrokerFinished, BrokerSeesEnd, BrokerDropped, BrokerTimesOut, BrokerAnswers, BrokerFails,
        Dropped, helperVars, TypeOK
<1> HIDE DEF Pipes
<1> USE <1>pipe DEF TypeOK, At, HasWorker, BrokerStates, BrokerFails, Dropped, workerVars,
            helperVars, hostVars, Finishes, BrokerStep
<1>1. CASE BrokerStartsHelper(s)
  BY <1>1 DEF BrokerStartsHelper, HelperStates
<1>2. CASE BrokerOpens(s)
  BY <1>2 DEF BrokerOpens, BrokerAnswers
<1>3. CASE BrokerVerifies(s)
  BY <1>3 DEF BrokerVerifies
<1>4. CASE BrokerVerified(s)
  BY <1>4 DEF BrokerVerified, BrokerAnswers
<1>5. CASE BrokerFinishes(s)
  BY <1>5 DEF BrokerFinishes
<1>6. CASE BrokerFinished(s)
  BY <1>6 DEF BrokerFinished
<1>7. CASE BrokerSeesEnd(s)
  BY <1>7 DEF BrokerSeesEnd
<1>8. CASE BrokerDropped(s)
  BY <1>8 DEF BrokerDropped
<1>9. CASE BrokerTimesOut(s)
  BY <1>9 DEF BrokerTimesOut
<1> QED
  BY <1>1, <1>2, <1>3, <1>4, <1>5, <1>6, <1>7, <1>8, <1>9 DEF BrokerStep

\* A step of a helper keeps the types.
LEMMA HelperTypes ==
  ASSUME TypeOK, NEW s \in Sessions, HelperStep(s) \/ HelperKilled(s)
  PROVE  TypeOK'
<1> USE DEF TypeOK, At, HasWorker, HelperAt, Exit, Refuse, HelperStates, HelperEnded, Leased,
            workerVars, hostVars
<1>1. CASE TakeLease(s)
  BY <1>1 DEF TakeLease
<1>2. CASE AwaitStopped(s)
  BY <1>2 DEF AwaitStopped
<1>3. CASE HandOver(s)
  BY <1>3 DEF HandOver
<1>4. CASE RecoverInclude(s)
  BY <1>4 DEF RecoverInclude
<1>5. CASE RecoverManaged(s)
  BY <1>5 DEF RecoverManaged
<1>6. CASE InstallManaged(s)
  BY <1>6 DEF InstallManaged
<1>7. CASE InstallInclude(s)
  BY <1>7 DEF InstallInclude
<1>8. CASE DropInclude(s)
  BY <1>8 DEF DropInclude
<1>9. CASE DropManaged(s)
  BY <1>9 DEF DropManaged
<1>10. CASE PrintReady(s)
  BY <1>10 DEF PrintReady
<1>11. CASE ReadCommand(s)
  <2>1. stdin' \in [Sessions -> Pipes]
    BY <1>11, PipeTypes DEF ReadCommand
  <2>2. /\ helper' \in [Sessions -> HelperStates]
        /\ UNCHANGED <<worker, request, response, broker, line, failed, lease, include, managed,
                       access, container>>
    BY <1>11 DEF ReadCommand
  <2> QED
    BY <2>1, <2>2
<1>12. CASE VerifyInput(s)
  BY <1>12 DEF VerifyInput
<1>13. CASE ForceStop(s)
  <2>0. Stopped \in [up : BOOLEAN, node : Sessions \cup {None}]
    BY DEF Stopped
  <2>1. container' \in [up : BOOLEAN, node : Sessions \cup {None}]
    BY <1>13, <2>0 DEF ForceStop
  <2> QED
    BY <1>13, <2>1 DEF ForceStop
<1>14. CASE DropAccess(s)
  BY <1>14 DEF DropAccess
<1>15. CASE HelperKilled(s)
  BY <1>15 DEF HelperKilled
<1> QED
  BY <1>1, <1>2, <1>3, <1>4, <1>5, <1>6, <1>7, <1>8, <1>9, <1>10, <1>11, <1>12, <1>13, <1>14,
     <1>15
  DEF HelperStep, ConfigStep

-----------------------------------------------------------------------------
(* The configuration *)

\* A step of a helper keeps the configuration in line with where the helpers are.
LEMMA HelperConfig ==
  ASSUME TypeOK, ConfigInv, NEW s \in Sessions, HelperStep(s) \/ HelperKilled(s)
  PROVE  ConfigInv'
<1> USE NoneAssumption
    DEF TypeOK, ConfigInv, LeaseHeld, ConfigFollowsHelper, IncludeResolves, CanBoot, At, HelperAt,
        Exit, Refuse, HelperStates, HelperEnded, Leased, Installed, hostVars
<1>1. CASE TakeLease(s)
  BY <1>1 DEF TakeLease
<1>2. CASE AwaitStopped(s)
  BY <1>2 DEF AwaitStopped
<1>3. CASE HandOver(s)
  BY <1>3 DEF HandOver
<1>4. CASE RecoverInclude(s)
  BY <1>4 DEF RecoverInclude
<1>5. CASE RecoverManaged(s)
  BY <1>5 DEF RecoverManaged
<1>6. CASE InstallManaged(s)
  BY <1>6 DEF InstallManaged
<1>7. CASE InstallInclude(s)
  BY <1>7 DEF InstallInclude
<1>8. CASE DropInclude(s)
  BY <1>8 DEF DropInclude
<1>9. CASE DropManaged(s)
  BY <1>9 DEF DropManaged
<1>10. CASE PrintReady(s)
  BY <1>10 DEF PrintReady
<1>11. CASE ReadCommand(s)
  BY <1>11 DEF ReadCommand
<1>12. CASE VerifyInput(s)
  BY <1>12 DEF VerifyInput
<1>13. CASE ForceStop(s)
  BY <1>13 DEF ForceStop
<1>14. CASE DropAccess(s)
  BY <1>14 DEF DropAccess
<1>15. CASE HelperKilled(s)
  BY <1>15 DEF HelperKilled
<1> QED
  BY <1>1, <1>2, <1>3, <1>4, <1>5, <1>6, <1>7, <1>8, <1>9, <1>10, <1>11, <1>12, <1>13, <1>14,
     <1>15
  DEF HelperStep, ConfigStep

\* Nobody else touches what the configuration invariant is about, except the
\* broker that starts a helper.
LEMMA OtherConfig ==
  ASSUME TypeOK, ConfigInv, NEW s \in Sessions,
         \/ WorkerStep(s) \/ BrokerStep(s) \/ BrokerTimesOut(s)
         \/ DaemonDies \/ OthersStart \/ OthersStop
  PROVE  ConfigInv'
<1>1. CASE UNCHANGED <<helper, failed, lease, include, managed>>
  BY <1>1 DEF ConfigInv, LeaseHeld, ConfigFollowsHelper, IncludeResolves, CanBoot
<1>2. CASE /\ helper' = At(helper, s, "lease")
           /\ UNCHANGED <<failed, lease, include, managed>>
  BY <1>2
  DEF TypeOK, ConfigInv, LeaseHeld, ConfigFollowsHelper, IncludeResolves, CanBoot, At, Leased,
      Installed
<1>3. CASE WorkerStep(s)
  BY <1>1, <1>3
  DEF WorkerStep, Launch, WorkerPrepares, WorkerOpens, WorkerOpened, WorkerBoots, WorkerRestarts,
      WorkerVerifies, WorkerVerified, WorkerGivesUp, WorkerEnds, WorkerStops, Send, Receive,
      helperVars, hostVars
<1>4. CASE BrokerStep(s) \/ BrokerTimesOut(s)
  BY <1>1, <1>2, <1>4
  DEF BrokerStep, BrokerStartsHelper, BrokerOpens, BrokerVerifies, BrokerVerified, BrokerFinishes,
      BrokerFinished, BrokerSeesEnd, BrokerDropped, BrokerTimesOut, helperVars, hostVars
<1>5. CASE DaemonDies \/ OthersStart \/ OthersStop
  BY <1>1, <1>5 DEF DaemonDies, OthersStart, OthersStop, helperVars, hostVars
<1> QED
  BY <1>3, <1>4, <1>5

-----------------------------------------------------------------------------
(* The node *)

\* Every step keeps the hand-over in line with where the helpers are.
LEMMA NextAccess ==
  ASSUME TypeOK, TypeOK', AccessInv, Next
  PROVE  AccessInv'
<1> USE DEF TypeOK, AccessInv, At, HasWorker, Installed
<1>1. ASSUME NEW s \in Sessions, WorkerStep(s)
      PROVE  AccessInv'
  <2> USE DEF WorkerAt, helperVars, hostVars
  <2>1. CASE Launch(s)
    BY <2>1 DEF Launch
  <2>2. CASE WorkerEnds(s)
    BY <2>2 DEF WorkerEnds
  <2>3. CASE \E stopped \in BOOLEAN : WorkerStops(s, stopped)
    BY <2>3 DEF WorkerStops
  <2>4. CASE WorkerBoots(s)
    BY <2>4 DEF WorkerBoots
  <2>5. CASE WorkerPrepares(s) \/ WorkerOpens(s) \/ WorkerOpened(s) \/ WorkerRestarts(s)
    BY <2>5 DEF WorkerPrepares, WorkerOpens, WorkerOpened, WorkerRestarts, Send, Receive
  <2>6. CASE WorkerVerifies(s) \/ WorkerVerified(s) \/ WorkerGivesUp(s)
    BY <2>6 DEF WorkerVerifies, WorkerVerified, WorkerGivesUp, Send, Receive
  <2> QED
    BY <1>1, <2>1, <2>2, <2>3, <2>4, <2>5, <2>6 DEF WorkerStep
<1>2. ASSUME NEW s \in Sessions, BrokerStep(s) \/ BrokerTimesOut(s)
      PROVE  AccessInv'
  <2>1. /\ broker[s] # "off"
        /\ \A t \in Sessions : t # s => broker'[t] = broker[t]
        /\ helper' = helper \/ helper' = At(helper, s, "lease")
        /\ UNCHANGED <<worker, access>>
    BY <1>2
    DEF BrokerStep, BrokerStartsHelper, BrokerOpens, BrokerVerifies, BrokerVerified,
        BrokerFinishes, BrokerFinished, BrokerSeesEnd, BrokerDropped, BrokerTimesOut,
        BrokerAnswers, BrokerFails, Dropped, workerVars, helperVars, hostVars
  <2> QED
    BY <2>1
<1>3. ASSUME NEW s \in Sessions, HelperStep(s) \/ HelperKilled(s)
      PROVE  AccessInv'
  <2>1. /\ helper[s] # "off"
        /\ \A t \in Sessions : t # s => helper'[t] = helper[t] /\ (t \in access => t \in access')
        /\ UNCHANGED <<worker, broker>>
    BY <1>3
    DEF HelperStep, ConfigStep, TakeLease, AwaitStopped, HandOver, RecoverInclude, RecoverManaged,
        InstallManaged, InstallInclude, DropInclude, DropManaged, PrintReady, ReadCommand,
        VerifyInput, ForceStop, DropAccess, HelperKilled, HelperAt, Exit, Refuse, Leased,
        workerVars, hostVars
  <2>2. \/ helper'[s] \notin Installed \cup {"managed", "include"}
        \/ HandOver(s) /\ s \in access'
        \/ helper[s] \in Installed \cup {"managed", "include"} /\ access' = access
    BY <1>3
    DEF HelperStep, ConfigStep, TakeLease, AwaitStopped, HandOver, RecoverInclude, RecoverManaged,
        InstallManaged, InstallInclude, DropInclude, DropManaged, PrintReady, ReadCommand,
        VerifyInput, ForceStop, DropAccess, HelperKilled, HelperAt, Exit, Refuse, Leased,
        workerVars, hostVars
  <2> QED
    BY <2>1, <2>2
<1>4. CASE DaemonDies
  BY <1>4 DEF DaemonDies, BrokerEnded, workerVars, hostVars
<1>5. CASE OthersStart \/ OthersStop
  BY <1>5 DEF OthersStart, OthersStop, workerVars, helperVars, hostVars
<1> QED
  BY <1>1, <1>2, <1>3, <1>4, <1>5 DEF Next

-----------------------------------------------------------------------------
(* The theorems *)

\* Every step keeps the whole invariant.
LEMMA NextInv == BridgeInv /\ [Next]_vars => BridgeInv'
<1> SUFFICES ASSUME BridgeInv, [Next]_vars
             PROVE  BridgeInv'
  OBVIOUS
<1> USE DEF BridgeInv
<1>1. CASE UNCHANGED vars
  BY <1>1
  DEF vars, workerVars, helperVars, hostVars, TypeOK, ConfigInv, LeaseHeld, ConfigFollowsHelper,
      IncludeResolves, CanBoot, AccessInv, HasWorker
<1>2. CASE Next
  <2>1. ASSUME NEW s \in Sessions, WorkerStep(s)
        PROVE  TypeOK' /\ ConfigInv'
    BY <2>1, WorkerTypes, OtherConfig
  <2>2. ASSUME NEW s \in Sessions, BrokerStep(s) \/ BrokerTimesOut(s)
        PROVE  TypeOK' /\ ConfigInv'
    BY <2>2, BrokerTypes, OtherConfig
  <2>3. ASSUME NEW s \in Sessions, HelperStep(s) \/ HelperKilled(s)
        PROVE  TypeOK' /\ ConfigInv'
    BY <2>3, HelperTypes, HelperConfig
  <2>4. ASSUME DaemonDies
        PROVE  TypeOK' /\ ConfigInv'
    <3>1. PICK s \in Sessions : TRUE
      BY <2>4 DEF DaemonDies
    <3>2. \A t \in Sessions : [stdin[t] EXCEPT !.open = FALSE] \in Pipes
      BY DEF TypeOK, Pipes
    <3>3. stdin' \in [Sessions -> Pipes]
      BY <2>4, <3>2 DEF DaemonDies
    <3>4. broker' \in [Sessions -> BrokerStates]
      BY <2>4 DEF DaemonDies, TypeOK, BrokerStates
    <3>5. TypeOK'
      BY <2>4, <3>3, <3>4 DEF DaemonDies, TypeOK, workerVars, hostVars, HasWorker
    <3> QED
      BY <2>4, <3>1, <3>5, OtherConfig
  <2>5. ASSUME OthersStart \/ OthersStop
        PROVE  TypeOK' /\ ConfigInv'
    <3>0. /\ Stopped \in [up : BOOLEAN, node : Sessions \cup {None}]
          /\ \A n \in Sessions \cup {None} :
               [up |-> TRUE, node |-> n] \in [up : BOOLEAN, node : Sessions \cup {None}]
      BY DEF Stopped
    <3>1. container' \in [up : BOOLEAN, node : Sessions \cup {None}]
      BY <2>5, <3>0 DEF OthersStart, OthersStop, Boot, TypeOK
    <3>2. TypeOK'
      BY <2>5, <3>1
      DEF OthersStart, OthersStop, TypeOK, workerVars, helperVars, hostVars, HasWorker
    <3>3. ConfigInv'
      BY <2>5
      DEF OthersStart, OthersStop, helperVars, hostVars, ConfigInv, LeaseHeld,
          ConfigFollowsHelper, IncludeResolves, CanBoot
    <3> QED
      BY <3>2, <3>3
  <2>6. TypeOK' /\ ConfigInv'
    BY <1>2, <2>1, <2>2, <2>3, <2>4, <2>5 DEF Next
  <2> QED
    BY <1>2, <2>6, NextAccess
<1> QED
  BY <1>1, <1>2

\* The invariant holds in every reachable state, for any set of sessions.
THEOREM BridgeInvariant == Spec => []BridgeInv
  BY InitInv, NextInv, PTL DEF Spec

\* Type correctness, with only existing touchscreen nodes handed to Android.
THEOREM BridgeTypes == Spec => []TypeOK
<1>1. BridgeInv => TypeOK
  BY DEF BridgeInv
<1> QED
  BY <1>1, BridgeInvariant, PTL

\* While run_privileged_bridge_helper serves a session, the LXC configuration and
\* the node are that session's.
THEOREM ServingBridgeIsIntact == Spec => []BridgeIntact
<1>1. BridgeInv => BridgeIntact
  BY DEF BridgeInv, ConfigInv, ConfigFollowsHelper, AccessInv, BridgeIntact
<1> QED
  BY <1>1, BridgeInvariant, PTL

\* The order in which install, restore and remove_bridge write the two files never
\* leaves an include of a missing file, unless an operation failed.
THEOREM IncludesResolve == Spec => []IncludeResolves
<1>1. BridgeInv => IncludeResolves
  BY DEF BridgeInv, ConfigInv
<1> QED
  BY <1>1, BridgeInvariant, PTL

\* A helper that exits with success has removed what it installed.
THEOREM SuccessfulHelpersRestore == Spec => SuccessRestores
<1>1. BridgeInv /\ [Next]_vars =>
        [\A s \in Sessions : helper[s] # "success" /\ helper'[s] = "success" =>
           ~include' /\ managed' = None /\ s \notin access']_vars
  <2> SUFFICES ASSUME BridgeInv, Next, NEW s \in Sessions,
                      helper[s] # "success", helper'[s] = "success"
               PROVE  ~include' /\ managed' = None /\ s \notin access'
    OBVIOUS
  <2> USE DEF BridgeInv, TypeOK, At
  <2>1. ASSUME NEW t \in Sessions, WorkerStep(t)
        PROVE  helper' = helper
    BY <2>1
    DEF WorkerStep, Launch, WorkerPrepares, WorkerOpens, WorkerOpened, WorkerBoots, WorkerRestarts,
        WorkerVerifies, WorkerVerified, WorkerGivesUp, WorkerEnds, WorkerStops, Send, Receive,
        helperVars
  <2>2. ASSUME NEW t \in Sessions, BrokerStep(t) \/ BrokerTimesOut(t)
        PROVE  helper' = helper \/ helper' = At(helper, t, "lease")
    BY <2>2
    DEF BrokerStep, BrokerStartsHelper, BrokerOpens, BrokerVerifies, BrokerVerified,
        BrokerFinishes, BrokerFinished, BrokerSeesEnd, BrokerDropped, BrokerTimesOut, helperVars
  <2>3. ASSUME NEW t \in Sessions, HelperStep(t) \/ HelperKilled(t)
        PROVE  t = s /\ DropAccess(s)
    BY <2>3
    DEF HelperStep, ConfigStep, TakeLease, AwaitStopped, HandOver, RecoverInclude, RecoverManaged,
        InstallManaged, InstallInclude, DropInclude, DropManaged, PrintReady, ReadCommand,
        VerifyInput, ForceStop, DropAccess, HelperKilled, HelperAt, Exit, Refuse
  <2>4. DaemonDies \/ OthersStart \/ OthersStop => helper' = helper
    BY DEF DaemonDies, OthersStart, OthersStop, helperVars
  <2>5. DropAccess(s)
    BY <2>1, <2>2, <2>3, <2>4 DEF Next
  <2>6. s \notin failed /\ access' = access \ {s}
    BY <2>5 DEF DropAccess, Exit, Refuse
  <2> QED
    BY <2>5, <2>6 DEF ConfigInv, ConfigFollowsHelper, DropAccess
<1> QED
  BY <1>1, BridgeInvariant, PTL DEF Spec, SuccessRestores

=============================================================================
