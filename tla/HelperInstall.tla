--------------------------- MODULE HelperInstall ---------------------------
(***************************************************************************)
(* The release a user installs (desktop.rs) and the bridge helper that an  *)
(* administrator installs from it (system_helper.rs): through pkexec, one  *)
(* at a time, from memory nobody can change, or through sudo, from the     *)
(* staged file.  The copy itself is install(1): it opens its source, makes *)
(* a new destination file, fills it, and sets owner and mode by name.      *)
(***************************************************************************)
EXTENDS Naturals

CONSTANTS
  Installers,   \* processes that install the helper
  Editions,     \* releases of Wroid
  OldEdition,   \* the one installed at first
  Missing, Unwritten,
  MaxDeploys,   \* runs of `wroid desktop install` and `uninstall`
  MaxKills      \* processes killed

ASSUME HelperBounds == OldEdition \in Editions /\ MaxDeploys \in Nat /\ MaxKills \in Nat
ASSUME MissingIsNobody == Missing \notin Installers

VARIABLES
  staged,     \* the files of the release: "binary", "helper", "daemon"
  deploying,  \* the one process that replaces or removes them
  target,     \* the installed helper: the file, its bytes, its owner and mode
  inst,       \* the installers
  helperLease,
  meddled,    \* history: installers during whose work another has changed the target
  deploys, kills

helperVars == <<staged, deploying, target, inst, helperLease, meddled, deploys, kills>>

NoInstall == [at |-> "idle", kind |-> "none", bytes |-> Missing, source |-> Missing, orphan |-> FALSE]

NotDeploying == [at |-> "idle", edition |-> Missing]

Instant(i, at) == inst' = [inst EXCEPT ![i].at = at]

\* the process ends, and its lease with it
Quit(i, at) ==
  /\ Instant(i, at)
  /\ helperLease' = IF helperLease = i THEN Missing ELSE helperLease

-----------------------------------------------------------------------------
(* wroid desktop install: each file is written beside its place and renamed *)

DeployStarts ==
  /\ deploying.at = "idle" /\ deploys < MaxDeploys /\ deploys' = deploys + 1
  /\ \/ \E e \in Editions : deploying' = [at |-> "binary", edition |-> e]
     \/ deploying' = [at |-> "helper", edition |-> Missing]
  /\ UNCHANGED <<staged, target, inst, helperLease, meddled, kills>>

\* install_from and uninstall_paths, in their order
AfterFile(at, edition) ==
  CASE at = "binary" -> IF edition = Missing THEN "idle" ELSE "helper"
    [] at = "helper" -> "daemon"
    [] at = "daemon" -> IF edition = Missing THEN "binary" ELSE "idle"

DeployFile ==
  /\ deploying.at # "idle"
  /\ staged' = [staged EXCEPT ![deploying.at] = deploying.edition]
  /\ deploying' = IF AfterFile(deploying.at, deploying.edition) = "idle" THEN NotDeploying
                  ELSE [deploying EXCEPT !.at = AfterFile(@, deploying.edition)]
  /\ UNCHANGED <<target, inst, helperLease, meddled, deploys, kills>>

\* an error of any step, or the end of the process
DeployFails ==
  /\ deploying.at # "idle" /\ kills < MaxKills /\ kills' = kills + 1
  /\ deploying' = NotDeploying
  /\ UNCHANGED <<staged, target, inst, helperLease, meddled, deploys>>

-----------------------------------------------------------------------------
(* wroid helper install, and the setup action of the Hub *)

\* start_graphical_install looks at the staged file and at the lease; a terminal does not
StartInstall(i, from) ==
  /\ inst[i].at = "idle"
  /\ from = "hub" => staged["helper"] # Missing /\ helperLease = Missing
  /\ inst' = [inst EXCEPT
       ![i].at = IF from = "sudo" THEN "reading" ELSE "opening",
       ![i].kind = IF from = "sudo" THEN "sudo" ELSE "graphical"]
  /\ UNCHANGED <<staged, deploying, target, helperLease, meddled, deploys, kills>>

TakeHelperLease(i) ==
  /\ inst[i].at = "opening"
  /\ IF helperLease = Missing
     THEN helperLease' = i /\ Instant(i, "reading")
     ELSE Instant(i, "failed") /\ UNCHANGED helperLease
  /\ UNCHANGED <<staged, deploying, target, meddled, deploys, kills>>

\* read_staged_helper, and sealed_helper_file on the graphical path
ReadStaged(i) ==
  /\ inst[i].at = "reading"
  /\ IF staged["helper"] = Missing THEN Quit(i, "failed")
     ELSE /\ inst' = [inst EXCEPT ![i].at = "authorizing", ![i].bytes = staged["helper"],
                        ![i].source = IF inst[i].kind = "sudo" THEN Missing ELSE staged["helper"]]
          /\ UNCHANGED helperLease
  /\ UNCHANGED <<staged, deploying, target, meddled, deploys, kills>>

\* the user refuses
Denied(i) ==
  /\ inst[i].at = "authorizing"
  /\ Quit(i, "failed")
  /\ UNCHANGED <<staged, deploying, target, meddled, deploys, kills>>

\* who is at work on the target when j changes it
Meddle(j) ==
  meddled' = meddled \cup {i \in Installers \ {j} :
    inst[i].at \in {"copying", "securing", "checking", "comparing", "done"}}

\* install(1) opens its source: the sealed memory, or the staged file of the moment
InstallCreates(i) ==
  LET source == IF inst[i].kind = "sudo" THEN staged["helper"] ELSE inst[i].source IN
  /\ inst[i].at = "authorizing"
  /\ IF source = Missing
     THEN Quit(i, "failed") /\ UNCHANGED <<target, meddled>>
     ELSE /\ inst' = [inst EXCEPT ![i].at = "copying", ![i].source = source]
          /\ target' = [file |-> i, bytes |-> Unwritten, safe |-> FALSE]
          /\ Meddle(i) /\ UNCHANGED helperLease
  /\ UNCHANGED <<staged, deploying, deploys, kills>>

InstallCopies(i) ==
  /\ inst[i].at = "copying"
  /\ Instant(i, "securing") /\ Meddle(i)
  /\ target' = IF target.file = i THEN [target EXCEPT !.bytes = inst[i].source] ELSE target
  /\ UNCHANGED <<staged, deploying, helperLease, deploys, kills>>

InstallSecures(i) ==
  /\ inst[i].at = "securing"
  /\ Instant(i, IF inst[i].orphan THEN "failed" ELSE "checking") /\ Meddle(i)
  /\ target' = [target EXCEPT !.safe = TRUE]
  /\ UNCHANGED <<staged, deploying, helperLease, deploys, kills>>

\* validate_installed_bridge_helper: owner and mode, and the helper answers the probe
CheckTarget(i) ==
  /\ inst[i].at = "checking"
  /\ IF target.safe /\ target.bytes # Unwritten
     THEN Instant(i, "comparing") /\ UNCHANGED helperLease
     ELSE Quit(i, "failed")
  /\ UNCHANGED <<staged, deploying, target, meddled, deploys, kills>>

\* mutant: the bytes are not compared
TrustTarget(i) ==
  /\ inst[i].at = "comparing"
  /\ Quit(i, "done")
  /\ UNCHANGED <<staged, deploying, target, meddled, deploys, kills>>

\* the rest of validate_installed_release
CompareTarget(i) ==
  /\ inst[i].at = "comparing"
  /\ Quit(i, IF target.bytes = inst[i].bytes THEN "done" ELSE "failed")
  /\ UNCHANGED <<staged, deploying, target, meddled, deploys, kills>>

InstallReturns(i) ==
  /\ inst[i].at \in {"done", "failed"}
  /\ inst' = [inst EXCEPT ![i] = NoInstall]
  /\ meddled' = meddled \ {i}
  /\ UNCHANGED <<staged, deploying, target, helperLease, deploys, kills>>

\* The installer ends; an install(1) that has its source goes on without it, or ends too.
KillInstaller(i) ==
  /\ inst[i].at \in {"opening", "reading", "authorizing", "copying", "securing", "checking", "comparing"}
  /\ ~inst[i].orphan
  /\ kills < MaxKills /\ kills' = kills + 1
  /\ helperLease' = IF helperLease = i THEN Missing ELSE helperLease
  /\ \/ inst' = [inst EXCEPT ![i].at = "failed"]
     \/ inst[i].at \in {"copying", "securing"} /\ inst' = [inst EXCEPT ![i].orphan = TRUE]
  /\ UNCHANGED <<staged, deploying, target, meddled, deploys>>

-----------------------------------------------------------------------------

HelperInit ==
  /\ staged = [f \in {"binary", "helper", "daemon"} |-> OldEdition]
  /\ deploying = NotDeploying
  /\ target = [file |-> Missing, bytes |-> Missing, safe |-> FALSE]
  /\ inst = [i \in Installers |-> NoInstall]
  /\ helperLease = Missing /\ meddled = {} /\ deploys = 0 /\ kills = 0

InstallerStep(i) ==
  \/ (\E from \in {"hub", "terminal", "sudo"} : StartInstall(i, from))
  \/ TakeHelperLease(i) \/ ReadStaged(i) \/ Denied(i)
  \/ InstallCreates(i) \/ InstallCopies(i) \/ InstallSecures(i)
  \/ CheckTarget(i) \/ CompareTarget(i) \/ InstallReturns(i) \/ KillInstaller(i)

HelperNext ==
  \/ DeployStarts \/ DeployFile \/ DeployFails
  \/ \E i \in Installers : InstallerStep(i)

HelperSpec == HelperInit /\ [][HelperNext]_helperVars

-----------------------------------------------------------------------------

\* What readiness says to the Hub and to a launch.
Readiness ==
  IF helperLease # Missing THEN "installing"
  ELSE IF target.file = Missing THEN "missing"
  ELSE IF ~target.safe \/ target.bytes = Unwritten THEN "unsafe"
  ELSE IF staged["helper"] \in {Missing, target.bytes} THEN "ready" ELSE "outdated"

\* "Production bridge helper is ready" is true: the helper has the bytes the installer
\* has read, and readiness agrees, whatever has become of the staged release meanwhile,
\* unless another installation has been at work on it during this one
\* (validate_installed_release against readiness).
InstalledIsWhatWasRead ==
  \A i \in Installers : inst[i].at = "done" =>
    \/ i \in meddled
    \/ /\ target.bytes = inst[i].bytes
       /\ Readiness \in {"installing", "ready"}
                       \cup {s \in {"outdated"} : staged["helper"] # inst[i].bytes}

=============================================================================
