------------------------------- MODULE MCHost -------------------------------
(* Instances for the run of what surrounds a game: the page of the Hub,    *)
(* APK sideloading, the upgrade of the daemon, the GPU setup, the          *)
(* installation of the helper, the live tools and the render size; and for *)
(* the touch pipeline, which all the tools and games share.  They share no *)
(* state that is modelled, so one run checks them side by side: the first  *)
(* step of a behaviour has chosen which of them acts in it.                *)
EXTENDS TouchPipeline, HubPage, ApkSideload, DaemonUpgrade, GpuSetup, HelperInstall, LiveTools, RenderSize

CONSTANTS n1, n2

VARIABLE part

-----------------------------------------------------------------------------
(* Hosts for the page *)

GoodHost ==
  [renderer |-> "hardware", direct |-> "yes", soft |-> FALSE, x86 |-> TRUE, abis |-> "arm",
   translator |-> "on", overlay |-> "absent", gapps |-> TRUE, installed |-> TRUE,
   running |-> TRUE, listing |-> "whole", helper |-> "ready", session |-> "none",
   keyboard |-> TRUE]

At(host, family, canonical) ==
  [world |-> host, game |-> [family |-> family, canonical |-> canonical]]

SomeHosts ==
  {At([GoodHost EXCEPT !.helper = "missing"], TRUE, TRUE),
   At([GoodHost EXCEPT !.overlay = "present"], FALSE, FALSE),
   At([GoodHost EXCEPT !.overlay = "present", !.running = FALSE], TRUE, FALSE),
   At([GoodHost EXCEPT !.renderer = "software", !.direct = "no"], TRUE, TRUE),
   At([GoodHost EXCEPT !.installed = FALSE, !.gapps = FALSE, !.abis = "x86",
                       !.translator = "off", !.running = FALSE], TRUE, TRUE),
   At([GoodHost EXCEPT !.installed = FALSE, !.abis = "unknown"], TRUE, FALSE)}

-----------------------------------------------------------------------------
(* Machines for the GPU setup: the host renders with the other GPU, with   *)
(* one that has no render node, and with one of three                      *)

Gpu(node, vendor, driver) == [node |-> node, vendor |-> vendor, driver |-> driver]

SomeMachines ==
  {[gpus |-> <<Gpu(n1, "amd", "amdgpu"), Gpu(n2, "intel", "i915")>>, host |-> "intel"],
   [gpus |-> <<Gpu(n1, "amd", NoNode), Gpu(n2, "intel", "i915")>>, host |-> "amd"],
   [gpus |-> <<Gpu(NoNode, "intel", "i915"), Gpu(n1, "nvidia", "nvidia"),
               Gpu(n2, "amd", "amdgpu")>>, host |-> "amd"]}

-----------------------------------------------------------------------------

aroundVars == <<pageVars, sideloadVars, upgradeVars, gpuVars, helperVars, liveVars, sizeVars, vars>>

AroundInit ==
  /\ part \in {"page", "sideload", "upgrade", "gpu", "helper", "live", "size", "touch"}
  /\ SideloadInit /\ HelperInit /\ LiveInit /\ Init
  /\ SizeInit /\ (part # "size" => props = [w |-> 1, h |-> 1])
  /\ PageInit /\ (part # "page" => world.overlay = "absent" /\ world.helper = "missing")
  /\ UpgradeInit
  /\ (part # "upgrade" => \A c \in Upgraders : client[c].release = FirstRelease)
  /\ GpuInit /\ (part # "gpu" => machine.host = "intel" /\ generated = n1)

AroundNext ==
  /\ UNCHANGED part
  /\ \/ /\ part = "page" /\ PageNext
        /\ UNCHANGED <<sideloadVars, upgradeVars, gpuVars, helperVars, liveVars, sizeVars, vars>>
     \/ /\ part = "sideload" /\ SideloadNext
        /\ UNCHANGED <<pageVars, upgradeVars, gpuVars, helperVars, liveVars, sizeVars, vars>>
     \/ /\ part = "upgrade" /\ UpgradeNext
        /\ UNCHANGED <<pageVars, sideloadVars, gpuVars, helperVars, liveVars, sizeVars, vars>>
     \/ /\ part = "gpu" /\ GpuNext
        /\ UNCHANGED <<pageVars, sideloadVars, upgradeVars, helperVars, liveVars, sizeVars, vars>>
     \/ /\ part = "helper" /\ HelperNext
        /\ UNCHANGED <<pageVars, sideloadVars, upgradeVars, gpuVars, liveVars, sizeVars, vars>>
     \/ /\ part = "live" /\ LiveNext
        /\ UNCHANGED <<pageVars, sideloadVars, upgradeVars, gpuVars, helperVars, sizeVars, vars>>
     \/ /\ part = "size" /\ SizeNext
        /\ UNCHANGED <<pageVars, sideloadVars, upgradeVars, gpuVars, helperVars, liveVars, vars>>
     \/ /\ part = "touch" /\ Next
        /\ UNCHANGED <<pageVars, sideloadVars, upgradeVars, gpuVars, helperVars, liveVars, sizeVars>>

\* the fairness of the parts, for the part that acts
AroundFairness ==
  /\ WF_upgradeVars(part = "upgrade" /\ WroiddStep)
  /\ \A c \in Upgraders : WF_upgradeVars(part = "upgrade" /\ UpgraderStep(c))
  /\ \A c \in Upgraders : WF_upgradeVars(part = "upgrade" /\ WatchdogResumes(c))
  /\ \A t \in Tools : WF_liveVars(part = "live" /\ ToolStep(t))

AroundSpec == AroundInit /\ [][AroundNext]_<<aroundVars, part>> /\ AroundFairness

=============================================================================
