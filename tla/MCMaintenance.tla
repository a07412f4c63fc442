---------------------------- MODULE MCMaintenance ----------------------------
(* The transactions of P1 side by side: they share no state here, and         *)
(* `machine' says which one moves.  The initial states differ only where the  *)
(* one that moves looks.                                                       *)
EXTENDS OpenWebUI, PinnedUpdates, AppDeploy, ApplyPhase, GamingRig, OmpDatabases, Toolchains

VARIABLES
    machine,
    cache       \* a build cache, and which of its records are stale

Machines == {"openwebui", "pins", "deploy", "apply", "rig", "omp databases", "toolchain", "cache"}
mcVars == <<machine, cache, owuiVars, pinVars, deployVars, applyVars, rigVars, ompVars, toolVars>>

Flat == [r \in Record |-> 0]

MaintenanceInit ==
    /\ machine \in Machines
    /\ OwuiInit /\ PinInit /\ DeployInit /\ ApplyInit /\ RigInit /\ OmpInit /\ ToolInit
    /\ machine # "deploy" => \A p \in PullRequest : bumps[p].pr = CHOOSE b \in Bumps : TRUE
    /\ machine # "apply" => images = {}
    /\ machine # "rig" => os = "linux" /\ ~flag
    /\ machine # "toolchain" => driver = "tree" /\ \A v \in ToolVersion : fitness[v] = "good"
    /\ cache \in IF machine = "cache" THEN [parent : Forest, stale : SUBSET Record]
                 ELSE {[parent |-> Flat, stale |-> {}]}

MaintenanceNext ==
    /\ UNCHANGED <<machine, cache>>
    /\ \/ machine = "openwebui" /\ OwuiNext
          /\ UNCHANGED <<pinVars, deployVars, applyVars, rigVars, ompVars, toolVars>>
       \/ machine = "pins" /\ PinNext
          /\ UNCHANGED <<owuiVars, deployVars, applyVars, rigVars, ompVars, toolVars>>
       \/ machine = "deploy" /\ DeployNext
          /\ UNCHANGED <<owuiVars, pinVars, applyVars, rigVars, ompVars, toolVars>>
       \/ machine = "apply" /\ ApplyNext
          /\ UNCHANGED <<owuiVars, pinVars, deployVars, rigVars, ompVars, toolVars>>
       \/ machine = "rig" /\ RigNext
          /\ UNCHANGED <<owuiVars, pinVars, deployVars, applyVars, ompVars, toolVars>>
       \/ machine = "omp databases" /\ OmpNext
          /\ UNCHANGED <<owuiVars, pinVars, deployVars, applyVars, rigVars, toolVars>>
       \/ machine = "toolchain" /\ ToolNext
          /\ UNCHANGED <<owuiVars, pinVars, deployVars, applyVars, rigVars, ompVars>>

MaintenanceSpec == MaintenanceInit /\ [][MaintenanceNext]_mcVars

-----------------------------------------------------------------------------
(* What each transaction of P1 keeps has its type, and between its steps its  *)
(* records agree with the host: the pins with the containers, the schemas and *)
(* what was saved, the shelves with the release that runs, the checkpoints    *)
(* with what was touched, the memory of a killed process with the disk.       *)
TypesOK ==
    /\ OwuiTypeOK /\ PinOfStep /\ SchemaOfImage /\ SavedBefore
    /\ PinTypeOK /\ PinSound /\ ShelfSound
    /\ DeployTypeOK /\ TargetSound
    /\ ApplyTypeOK /\ PhaseSound
    /\ RigTypeOK /\ RebootGated /\ VisitSound
    /\ OmpTypeOK /\ CopyStands
    /\ ToolTypeOK /\ MemorySound /\ DiskSound /\ WorkingKept /\ ReplacedKept

(* What an update leaves behind is one release that was fit to run: Open     *)
(* WebUI with every row that was written and on data of its own schema, pins *)
(* that are what runs, an omp that starts, apps whose commit had green checks *)
(* of its own, and toolchains that work, with the version they replaced at    *)
(* hand.                                                                       *)
UpdatesFinished ==
    /\ OwuiRowsKept /\ OwuiNotHalfApplied
    /\ PinIsRun /\ SoakRespected /\ OmpAtHand
    /\ OnlyGreenDeployed /\ NoMajorMerged
    /\ ToolsWork /\ UndoAtHand

(* The packets of P1 and its artifact say what became of the host.            *)
ReportsTrue ==
    /\ DeployReported
    /\ AppliedRecorded /\ VerdictTrue
    /\ RigReportTrue
    /\ RepairReported

(* The build cache is pruned by whole chains.                                  *)
CachePruned == PruneWholeChains(cache.parent, cache.stale)

(* What no step of a transaction may do: touch Open WebUI's data under a     *)
(* running container, move production off its line, remove an image in use,  *)
(* boot the rig without its GPU, or drop a row of omp's database.             *)
NoStepBreaks ==
    /\ OwuiDataStill
    /\ ProductionMovesForward
    /\ ImagesKept
    /\ RigRebootsSafely
    /\ RepairLossless
=============================================================================
