------------------------------ MODULE GpuSetup ------------------------------
(***************************************************************************)
(* wroid performance --setup-gpu: Waydroid is moved to the GPU that renders *)
(* the desktop (graphics.rs).  A terminal stops desktop Waydroid, asks for  *)
(* authorization, edits waydroid.cfg as root, regenerates Waydroid's own    *)
(* configuration, and starts desktop Waydroid again.                        *)
(***************************************************************************)
EXTENDS Naturals, Sequences, SequencesExt

CONSTANTS
  Machines,   \* hosts: the GPUs in the order of their cards, and the vendor that renders
  Automatic,  \* waydroid.cfg names no drm_device
  NoNode,     \* no render node, no vendor, no driver, no backup
  Torn,       \* a file whose copy was interrupted
  Setups,     \* terminals with setup-waydroid-gpu
  MaxMishaps  \* steps that fail for want of a program, a disk or a session, and kills

ASSUME AutomaticIsSomething == Automatic # NoNode

VARIABLES
  machine,
  config,     \* drm_device of waydroid.cfg
  backup,     \* drm_device of waydroid.cfg.wroid-backup
  generated,  \* gralloc.gbm.device after the last waydroid upgrade -o
  desktop,    \* whether the desktop session runs
  setup,      \* the terminals
  disturbed,  \* history: setups with another one, or a start of Waydroid, beside them
  spoiled,    \* history: setups some step of which had a mishap
  mishaps

gpuVars == <<machine, config, backup, generated, desktop, setup, disturbed, spoiled, mishaps>>

NoSetup == [at |-> "none", device |-> NoNode, restore |-> FALSE, original |-> NoNode, good |-> FALSE]

Before(s) == setup[s].at \in {"none", "open"}
Over(s) == setup[s].at \in {"done", "failed", "killed"}
Active(s) == ~Before(s) /\ ~Over(s)

-----------------------------------------------------------------------------
(* The report *)

\* recommended_drm_device: the first card of the vendor that the NVIDIA driver does not
\* have; its render node may be missing
Recommended ==
  LET fits(g) == g.vendor = machine.host /\ g.driver # "nvidia"
      cards == SelectSeq(machine.gpus, fits)
  IN  IF machine.host = NoNode \/ cards = <<>> THEN NoNode ELSE Head(cards).node

\* android.drm_device is read from Android, which has to run
Current == IF desktop THEN generated ELSE NoNode

NeedsGpuSetup ==
  /\ Recommended # NoNode /\ Current \notin {NoNode, Recommended}
  /\ Len(machine.gpus) > 1

\* configure_waydroid_gpu wants a card with that node, and a driver it knows
Configurable(node) ==
  \E g \in ToSet(machine.gpus) :
    /\ g.node = node
    /\ \A h \in ToSet(machine.gpus) : h.node = node => h.driver \notin {"nvidia", NoNode}

-----------------------------------------------------------------------------

Go(s, at) == setup' = [setup EXCEPT ![s].at = at]

\* the result of sudo, after which the desktop session is restored
Ends(s, good) == setup' = [setup EXCEPT ![s].at = "restore", ![s].good = good]

Mishap(s) ==
  /\ mishaps < MaxMishaps
  /\ mishaps' = mishaps + 1 /\ spoiled' = spoiled \cup {s}

NoMishap == UNCHANGED <<spoiled, mishaps>>

FilesKept == UNCHANGED <<config, backup, generated>>

\* open_gpu_setup
OpenSetup(s) ==
  /\ setup[s].at = "none" /\ NeedsGpuSetup
  /\ setup' = [setup EXCEPT ![s].at = "open", ![s].device = Recommended]
  /\ FilesKept /\ UNCHANGED <<machine, desktop, disturbed>> /\ NoMishap

\* setup_gpu_interactive_inner
BeginSetup(s) ==
  /\ setup[s].at = "open" /\ Recommended = setup[s].device
  /\ setup' = [setup EXCEPT ![s].at = IF desktop THEN "stop" ELSE "sudo", ![s].restore = desktop]
  /\ disturbed' = disturbed \cup
       IF \E o \in Setups : Active(o) THEN {o \in Setups : Active(o)} \cup {s} ELSE {}
  /\ FilesKept /\ UNCHANGED <<machine, desktop>> /\ NoMishap

StopDesktop(s) ==
  /\ setup[s].at = "stop"
  /\ \/ Go(s, "sudo") /\ desktop' = FALSE /\ NoMishap
     \/ Go(s, "failed") /\ Mishap(s) /\ UNCHANGED desktop
  /\ FilesKept /\ UNCHANGED <<machine, disturbed>>

\* the user may cancel
Authorize(s) ==
  /\ setup[s].at = "sudo"
  /\ Go(s, "check") \/ Ends(s, FALSE)
  /\ FilesKept /\ UNCHANGED <<machine, desktop, disturbed>> /\ NoMishap

-----------------------------------------------------------------------------
(* configure_waydroid_gpu *)

CheckStopped(s) ==
  /\ setup[s].at = "check"
  /\ IF desktop \/ ~Configurable(setup[s].device)
     THEN Ends(s, FALSE)
     ELSE setup' = [setup EXCEPT ![s].original = config,
                                 ![s].at = IF backup = NoNode THEN "copy" ELSE "write"]
  /\ FilesKept /\ UNCHANGED <<machine, desktop, disturbed>> /\ NoMishap

\* fs::copy: the file is there before its content is
CopyBegins(s) ==
  /\ setup[s].at = "copy"
  /\ Go(s, "copying") /\ backup' = Torn
  /\ UNCHANGED <<machine, config, generated, desktop, disturbed>> /\ NoMishap

CopyEnds(s) ==
  /\ setup[s].at = "copying"
  /\ Go(s, "write") /\ backup' = config
  /\ UNCHANGED <<machine, config, generated, desktop, disturbed>> /\ NoMishap

\* set_ini_value and write_atomic
WriteConfig(s) ==
  /\ setup[s].at = "write"
  /\ \/ config' = setup[s].device /\ Go(s, "upgrade") /\ NoMishap
     \/ setup[s].original # setup[s].device /\ Mishap(s) /\ Ends(s, FALSE) /\ UNCHANGED config
  /\ UNCHANGED <<machine, backup, generated, desktop, disturbed>>

\* waydroid upgrade -o: done, failed, or not even started, which ends the call
Upgrade(s) ==
  /\ setup[s].at = "upgrade"
  /\ \/ generated' = config /\ Ends(s, TRUE) /\ NoMishap
     \/ Go(s, "undo") /\ UNCHANGED generated /\ NoMishap
     \/ Mishap(s) /\ Ends(s, FALSE) /\ UNCHANGED generated
  /\ UNCHANGED <<machine, config, backup, desktop, disturbed>>

\* mutant: the failed configuration stays
KeepConfig(s) ==
  /\ setup[s].at = "undo"
  /\ Go(s, "again") /\ UNCHANGED config /\ NoMishap
  /\ UNCHANGED <<machine, backup, generated, desktop, disturbed>>

RollBack(s) ==
  /\ setup[s].at = "undo"
  /\ \/ config' = setup[s].original /\ Go(s, "again") /\ NoMishap
     \/ setup[s].original # setup[s].device /\ Mishap(s) /\ Ends(s, FALSE) /\ UNCHANGED config
  /\ UNCHANGED <<machine, backup, generated, desktop, disturbed>>

\* the second upgrade, whatever becomes of it
UpgradeAgain(s) ==
  /\ setup[s].at = "again"
  /\ generated' = config \/ UNCHANGED generated
  /\ Ends(s, FALSE)
  /\ UNCHANGED <<machine, config, backup, desktop, disturbed>> /\ NoMishap

-----------------------------------------------------------------------------

\* start_desktop_waydroid_session, if it ran before
Restore(s) ==
  LET t == setup[s] IN
  /\ t.at = "restore"
  /\ \/ t.restore /\ desktop' = TRUE /\ NoMishap
        /\ Go(s, IF t.good THEN "verify" ELSE "failed")
     \/ t.restore /\ Mishap(s) /\ Go(s, "failed") /\ UNCHANGED desktop
     \/ ~t.restore /\ Go(s, IF t.good THEN "done" ELSE "failed") /\ UNCHANGED desktop /\ NoMishap
  /\ FilesKept /\ UNCHANGED <<machine, disturbed>>

\* wait_for_waydroid_gpu
VerifyGpu(s) ==
  /\ setup[s].at = "verify"
  /\ Go(s, IF Current = setup[s].device THEN "done" ELSE "failed")
  /\ FilesKept /\ UNCHANGED <<machine, desktop, disturbed>> /\ NoMishap

KillSetup(s) ==
  /\ Active(s) /\ Mishap(s)
  /\ Go(s, "killed")
  /\ FilesKept /\ UNCHANGED <<machine, desktop, disturbed>>

\* somebody starts or stops Waydroid: the Hub, a game, the user
OthersUseWaydroid ==
  /\ desktop' = ~desktop
  /\ disturbed' = disturbed \cup {s \in Setups : Active(s)}
  /\ FilesKept /\ UNCHANGED <<machine, setup>> /\ NoMishap

-----------------------------------------------------------------------------

GpuInit ==
  /\ machine \in Machines
  /\ config = Automatic /\ backup = NoNode
  /\ generated \in {g.node : g \in ToSet(machine.gpus)} \ {NoNode}
  /\ desktop = TRUE
  /\ setup = [s \in Setups |-> NoSetup]
  /\ disturbed = {} /\ spoiled = {} /\ mishaps = 0

GpuNext ==
  \/ \E s \in Setups :
       \/ OpenSetup(s) \/ BeginSetup(s) \/ StopDesktop(s) \/ Authorize(s) \/ CheckStopped(s)
       \/ CopyBegins(s) \/ CopyEnds(s) \/ WriteConfig(s) \/ Upgrade(s) \/ RollBack(s)
       \/ UpgradeAgain(s) \/ Restore(s) \/ VerifyGpu(s) \/ KillSetup(s)
  \/ OthersUseWaydroid

GpuSpec == GpuInit /\ [][GpuNext]_gpuVars

-----------------------------------------------------------------------------

\* What a setup that ends now has left behind.
EndsAsPromised(s) ==
  Over(s)' /\ ~Over(s) /\ s \notin disturbed' \cup spoiled' =>
    /\ setup'[s].at = "done" => config' = setup'[s].device /\ generated' = setup'[s].device
    /\ setup'[s].at = "failed" /\ setup'[s].original # NoNode => config' = setup'[s].original
    /\ setup'[s].restore => desktop'
    /\ disturbed' \cup spoiled' = {} => backup' \in {NoNode, Automatic}

\* A GPU setup that nothing disturbs is a transaction.  One that reports success leaves
\* the device in waydroid.cfg, in Waydroid's own configuration, and the desktop as it was;
\* one that was cancelled, refused or whose upgrade failed leaves waydroid.cfg and the
\* desktop as they were.  The backup is the configuration before Wroid's first change,
\* unless a mishap left another one (configure_waydroid_gpu, setup_gpu_interactive_inner).
SetupIsATransaction == [][\A s \in Setups : EndsAsPromised(s)]_gpuVars
=============================================================================
