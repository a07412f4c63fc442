------------------------------ MODULE GamingRig ------------------------------
(***************************************************************************)
(* The nightly maintenance of the gaming rig over SSH, steward/updates.py  *)
(* _p1_gamingrig_maintenance: probe, apt, herdr and omp updates, then a    *)
(* reboot into Linux when it is required and the next kernel has its GPU   *)
(* module.  The rig's user may switch it off, on, or to Windows at any     *)
(* time: every command then fails.                                         *)
(***************************************************************************)
EXTENDS Naturals, FiniteSets

CONSTANTS
    MaxBoots,       \* bound: boots of the rig
    MaxVisits       \* bound: nights

ASSUME RigAssumption == MaxBoots \in Nat \ {0} /\ MaxVisits \in Nat

VARIABLES
    os, boot,       \* what the rig runs, and which boot it is
    bootnext,       \* the firmware boots Linux next, once
    kernel,         \* the kernel that the next boot runs has a module of the driver's version
    gpu,            \* the running kernel drives the GPU
    flag,           \* /var/run/reboot-required
    omp2, omp2good, \* the rig's omp: its release, and whether it starts
    visit, mind,    \* the step of the steward, and what it has in memory
    subs,           \* substeps that failed
    said,           \* its packet
    meddled,        \* the rig's user booted it since the night began
    visits

rigVars == <<os, boot, bootnext, kernel, gpu, flag, omp2, omp2good, visit, mind, subs, said, meddled, visits>>

Visits == {"idle", "apt", "herdr", "omp", "omp_check", "required", "gpu", "boot_id", "arm",
           "reboot", "return", "post_health", "health", "end"}
NoMind == [boot |-> 0, requested |-> FALSE, observed |-> FALSE, passed |-> FALSE]
NoPacket == [status |-> "none", requested |-> FALSE, rebooted |-> FALSE, from |-> 0]

RigInit ==
    /\ os \in {"linux", "windows"} /\ boot = 1 /\ bootnext = FALSE
    /\ kernel = TRUE /\ gpu = TRUE /\ flag \in BOOLEAN /\ omp2 = 1 /\ omp2good = TRUE
    /\ visit = "idle" /\ mind = NoMind /\ subs = {} /\ said = NoPacket /\ meddled = FALSE /\ visits = 0

Machine == <<os, boot, bootnext, kernel, gpu, flag>>
Omp2 == <<omp2, omp2good>>
Reachable == os \in {"linux", "leaving"}     \* SSH answers until the shutdown ends it
Visit(v) == visit' = v
Failed(s) == subs' = subs \cup {s}

(* A boot comes up in Linux when the firmware was told so or it was chosen.  *)
Boots(system) ==
    /\ boot < MaxBoots
    /\ boot' = boot + 1 /\ bootnext' = FALSE /\ flag' = FALSE
    /\ os' = system
    /\ gpu' = IF system = "linux" THEN kernel ELSE gpu

(* _rig_platform_probe: only Linux is maintained.  Off, asleep, or a Windows *)
(* that llm-proxy corroborates is a skip; anything else has failed.  A shutdown *)
(* that was begun is over by the next night.                                  *)
Probe ==
    /\ visit = "idle" /\ visits < MaxVisits /\ os # "leaving"
    /\ visits' = visits + 1 /\ meddled' = FALSE /\ mind' = NoMind /\ subs' = {}
    /\ \/ Reachable /\ Visit("apt") /\ said' = NoPacket
       \/ Visit("idle") /\ \E s \in IF Reachable THEN {"failed"} ELSE {"skipped", "failed"} :
                             said' = [NoPacket EXCEPT !.status = s]
    /\ UNCHANGED <<Machine, Omp2>>

(* apt may install a kernel and ask for a reboot; the module package of that *)
(* kernel may be missing.                                                     *)
RigApt ==
    /\ visit = "apt"
    /\ \/ /\ Reachable /\ UNCHANGED subs
          /\ \/ UNCHANGED <<kernel, flag>>
             \/ kernel' \in BOOLEAN /\ flag' = TRUE
       \/ Failed("apt") /\ UNCHANGED <<kernel, flag>>
    /\ Visit("herdr")
    /\ UNCHANGED <<os, boot, bootnext, gpu, Omp2, mind, said, meddled, visits>>

RigHerdr ==
    /\ visit = "herdr"
    /\ \/ Reachable /\ UNCHANGED subs
       \/ Failed("herdr")
    /\ Visit("omp")
    /\ UNCHANGED <<Machine, Omp2, mind, said, meddled, visits>>

(* _rig_omp_update: update and smoke test, or reinstall the old release.     *)
RigOmp ==
    /\ visit = "omp"
    /\ \/ /\ Reachable /\ omp2good
          /\ Visit("omp_check") /\ mind' = [mind EXCEPT !.boot = omp2] /\ UNCHANGED subs
          /\ \/ UNCHANGED Omp2
             \/ omp2 < 3 /\ omp2' = omp2 + 1 /\ omp2good' \in BOOLEAN
       \/ Failed("omp") /\ Visit("required") /\ UNCHANGED <<Omp2, mind>>
    /\ UNCHANGED <<Machine, said, meddled, visits>>

RigOmpCheck ==
    /\ visit = "omp_check"
    /\ \/ Reachable /\ omp2good /\ UNCHANGED <<Omp2, subs>>
       \/ Reachable /\ omp2' = mind.boot /\ omp2good' = TRUE /\ UNCHANGED subs      \* `reverted'
       \/ Failed("omp") /\ \/ UNCHANGED Omp2
                           \/ Reachable /\ omp2' = mind.boot /\ omp2good' = TRUE
    /\ Visit("required") /\ mind' = NoMind
    /\ UNCHANGED <<Machine, said, meddled, visits>>

RebootRequired ==
    /\ visit = "required"
    /\ \/ Reachable /\ Visit(IF flag THEN "gpu" ELSE "health") /\ UNCHANGED subs
       \/ Failed("required") /\ Visit("health")
    /\ UNCHANGED <<Machine, Omp2, mind, said, meddled, visits>>

GpuReadyByFlag ==
    /\ visit = "gpu"
    /\ \/ Reachable /\ Visit("boot_id")
       \/ Visit("health")
    /\ UNCHANGED <<Machine, Omp2, mind, subs, said, meddled, visits>>

(* _rig_boot_gpu_ready: a deferral is a warning, and the running kernel goes *)
(* on.                                                                         *)
GpuReady ==
    /\ visit = "gpu"
    /\ \/ Reachable /\ kernel /\ Visit("boot_id")
       \/ Visit("health")
    /\ UNCHANGED <<Machine, Omp2, mind, subs, said, meddled, visits>>

BootId ==
    /\ visit = "boot_id"
    /\ \/ Reachable /\ Visit("arm") /\ mind' = [mind EXCEPT !.boot = boot] /\ UNCHANGED subs
       \/ Failed("boot_id") /\ Visit("health") /\ UNCHANGED mind
    /\ UNCHANGED <<Machine, Omp2, said, meddled, visits>>

(* _rig_arm_bootnext, and its verification: it may fail with the entry armed. *)
ArmBootNext ==
    /\ visit = "arm"
    /\ \/ Reachable /\ bootnext' = TRUE /\ Visit("reboot") /\ UNCHANGED subs
       \/ Failed("bootnext") /\ Visit("health") /\ bootnext' \in {bootnext, bootnext \/ Reachable}
    /\ UNCHANGED <<os, boot, kernel, gpu, flag, Omp2, mind, said, meddled, visits>>

(* `systemctl reboot' returns, or loses its connection, before the rig goes.  *)
(* Its answer may be lost, and the rig goes all the same; and a connection     *)
(* closed before the command ran is taken for the reboot.                      *)
RequestReboot ==
    /\ visit = "reboot"
    /\ os' \in {os} \cup (IF Reachable THEN {"leaving"} ELSE {})
    /\ \/ Visit("return") /\ mind' = [mind EXCEPT !.requested = TRUE] /\ UNCHANGED subs
       \/ Failed("reboot") /\ Visit("health") /\ UNCHANGED mind
    /\ UNCHANGED <<boot, bootnext, kernel, gpu, flag, Omp2, said, meddled, visits>>

(* The firmware goes where BootNext says, else to its own default.           *)
Reboots ==
    /\ os = "leaving"
    /\ Boots(IF bootnext THEN "linux" ELSE "windows")
    /\ UNCHANGED <<kernel, Omp2, visit, mind, subs, said, meddled, visits>>

WaitForSsh ==
    /\ visit = "return"
    /\ \/ Reachable /\ Visit("post_health") /\ mind' = [mind EXCEPT !.observed = TRUE] /\ UNCHANGED subs
       \/ Failed("return") /\ Visit("end") /\ UNCHANGED mind
    /\ UNCHANGED <<Machine, Omp2, said, meddled, visits>>

WaitForLinux ==
    /\ visit = "return"
    /\ \/ Reachable /\ boot # mind.boot /\ Visit("post_health") /\ mind' = [mind EXCEPT !.observed = TRUE] /\ UNCHANGED subs
       \/ Failed("return") /\ Visit("end") /\ UNCHANGED mind
    /\ UNCHANGED <<Machine, Omp2, said, meddled, visits>>

(* _rig_health_checks includes nvidia-smi.                                   *)
PostHealth ==
    /\ visit = "post_health"
    /\ \/ Reachable /\ gpu /\ mind' = [mind EXCEPT !.passed = TRUE] /\ UNCHANGED subs
       \/ Failed("post_health") /\ UNCHANGED mind
    /\ Visit("end")
    /\ UNCHANGED <<Machine, Omp2, said, meddled, visits>>

(* After a requested reboot its own gate is authoritative.                   *)
Health ==
    /\ visit = "health"
    /\ \/ Reachable /\ gpu /\ UNCHANGED subs
       \/ Failed("health")
    /\ Visit("end")
    /\ UNCHANGED <<Machine, Omp2, mind, said, meddled, visits>>

EndVisit ==
    /\ visit = "end"
    /\ said' = [status |-> IF subs = {} THEN "ok" ELSE "failed", requested |-> mind.requested,
                rebooted |-> mind.requested /\ mind.observed, from |-> mind.boot]
    /\ Visit("idle")
    /\ UNCHANGED <<Machine, Omp2, mind, subs, meddled, visits>>

(* The rig's user.                                                            *)
UserBoots(system) ==
    /\ Boots(IF bootnext THEN "linux" ELSE system)
    /\ meddled' = TRUE
    /\ UNCHANGED <<kernel, Omp2, visit, mind, subs, said, visits>>

UserSleeps ==
    /\ os # "down" /\ os' = "down" /\ meddled' = TRUE
    /\ UNCHANGED <<boot, bootnext, kernel, gpu, flag, Omp2, visit, mind, subs, said, visits>>

ModulePublished ==
    /\ Reachable /\ ~kernel /\ kernel' = TRUE
    /\ UNCHANGED <<os, boot, bootnext, gpu, flag, Omp2, visit, mind, subs, said, meddled, visits>>

RigNext ==
    \/ Probe \/ RigApt \/ RigHerdr \/ RigOmp \/ RigOmpCheck \/ RebootRequired \/ GpuReady \/ BootId
    \/ ArmBootNext \/ RequestReboot \/ Reboots \/ WaitForLinux \/ PostHealth \/ Health \/ EndVisit
    \/ UserSleeps \/ ModulePublished \/ \E s \in {"linux", "windows"} : UserBoots(s)

RigSpec == RigInit /\ [][RigNext]_rigVars

-----------------------------------------------------------------------------
(* The type invariant of the rig and its maintenance.                         *)
RigTypeOK ==
    /\ os \in {"linux", "windows", "down", "leaving"} /\ boot \in 1..MaxBoots /\ visit \in Visits /\ visits \in Nat
    /\ bootnext \in BOOLEAN /\ kernel \in BOOLEAN /\ gpu \in BOOLEAN /\ flag \in BOOLEAN
    /\ omp2 \in 1..3 /\ omp2good \in BOOLEAN /\ meddled \in BOOLEAN
    /\ mind \in [boot : Nat, requested : BOOLEAN, observed : BOOLEAN, passed : BOOLEAN]
    /\ subs \subseteq Visits \cup {"bootnext"}
    /\ said \in [status : {"none", "skipped", "failed", "ok"}, requested : BOOLEAN, rebooted : BOOLEAN, from : Nat]

(* A reboot is under way only past the gate for the GPU and with Linux armed, *)
(* whether or not its answer arrived, and the boot it began from is the one    *)
(* remembered.                                                                 *)
RebootGated ==
    /\ os = "leaving" => visit \in {"return", "post_health", "health", "end", "idle"}
    /\ visit \in {"boot_id", "arm", "reboot"} => kernel
    /\ visit = "reboot" /\ ~meddled => bootnext
    /\ os = "leaving" /\ ~meddled => bootnext /\ kernel
    /\ visit \in {"arm", "reboot", "return", "post_health"} => mind.boot \in 1..boot
    /\ visit \in {"return", "post_health"} => mind.requested

(* What the packet will say holds of what the steward has in memory.          *)
VisitSound ==
    /\ mind.requested => mind.boot \in 1..boot
    /\ mind.observed => mind.requested /\ mind.boot < boot
    /\ visit = "post_health" => mind.observed
    /\ visit = "omp_check" => mind.boot \in 1..3
    /\ mind.requested => visit \in {"return", "post_health", "end", "idle"}
    /\ visit \in {"required", "gpu", "boot_id", "arm", "reboot", "return", "post_health", "health", "end"} /\ subs = {}
          => omp2good
    /\ visit = "end" /\ mind.requested /\ subs = {} => mind.observed /\ mind.passed

(* "a kernel installed before its module package boots without the GPU, so the reboot waits"     *)
(* (updates.py:2657): the steward never takes the rig's GPU away, and its reboots stay in Linux, *)
(* unless the rig's user boots it meanwhile.                                                      *)
RigRebootsSafely ==
    [][(os = "leaving" /\ boot' # boot /\ ~meddled') => (os' = "linux" /\ gpu')]_rigVars

(* A packet that says `rebooted' saw a new boot, one that says `ok' after a requested reboot      *)
(* passed the health gate of that boot, and no packet is `ok' with an omp that does not start.    *)
RigReportTrue ==
    /\ said.rebooted => boot > said.from /\ said.from > 0
    /\ (visit = "idle" /\ said.status = "ok") => omp2good /\ (said.requested => said.rebooted /\ mind.passed)
=============================================================================
