# Formal models of the homelab automation

TLA+ modules for the parts of this repository whose correctness depends on
order, concurrency and failure, the TLC configurations that check them on small
instances, and proofs for TLAPS of the results that hold for every instance.

## The system

The repository is a home server kept as files: scripts under `scripts/` that
systemd timers start, their units, and configuration. Three programs run on
timers and share libraries.

| Part | State it keeps | Operations | Interacts with |
|---|---|---|---|
| Deploy locks (`deploy_lock.py`) | one flock per key, `_HELD` in each process | `service_lock`, `surface_lock`, `host_lock`, `holders` | the steward's update and fix steps, security-watch playbooks: two programs, threads of each |
| Workflow state (`workflow_state.py`) | SQLite rows of a run and its phases, one artifact file per phase | begin, load/resume, complete, fail, invalidate, abort interrupted, finalize published | digests, steward, news publisher |
| Daily News (`daily_news/`, `digest_runner.py`) | a run directory per topic and day | nine phases, resume, signal handler | workflow state, models and searches, publisher |
| News publisher (`news_publish.py`) | durable publications, `releases/` and the `current` link, a mail marker per day | sync, build and switch, finalize runs, mail once | archive rows, SMTP |
| Security-watch (`security_watch/`) | SQLite store: findings, actions journal, breaker, notifications; `tick.lock` | a tick every 15 minutes: inventory, scan, reach, act, notify, report; `breaker-reset` | deploy locks, steward unit, GitHub, playbooks |
| Steward (`steward/`) | workflow state, `pending.md`, approval journal, queue | nightly phases P0 to P9, resume after a reboot, re-exec after code changes | deploy locks, workflow state, GitHub, sub-agents |
| Jev client (`jev.py`) | consecutive failures, budget | `ask` with retries, deadline and breaker | every program that asks it |
| Dotfiles (`dotfiles_commit.py`, `steward/dotfiles.py`, `steward/public_dotfiles.py`) | bare repository, pending record in the run's artifact | commit exact paths, push, publish filtered | steward, operator, sessions |
| Dependabot intake (`hyperliquid_dependabot_intake.py`, `run_hyperliquid_sdk.sh`) | intake records, one lock | accept an event, run one maintenance | steward, guard |
| Glue | none, or files in `/tmp` | `notify-failure.sh`, smoke tests, verify scripts, guards | systemd |

What makes them hard, and what makes them correct:

* **Deploy locks.** A registry that makes a key re-entrant for all threads of a
  process sits on top of kernel locks that belong to open descriptions. The
  flock is taken outside the guard and registered later; the entry is deleted
  inside the guard and the flock dropped later. Correct means: two processes
  are never in one key unless both share it, the last user and nobody sooner
  drops the flock, no descriptor leaks, waits never close a cycle, calls with a
  timeout return.
* **Workflow state.** A file and a row are replaced at two times, loaders read
  three things at three times, several processes may run the same digest, and a
  signal handler runs on top of whatever it interrupts. Correct means: a
  succeeded row vouches for the bytes on disk, each attempt is decided once and
  by its owner, no process builds an edition from phases that do not belong
  together, and the run row agrees with the phase rows.
* **Security-watch act.** Policy is decided from a journal that earlier ticks
  wrote, some of which died half way, and from a breaker that an operator
  resets at any time. Correct means: caps and cooldowns hold over every
  window, one action per component, an interrupted action is settled once, and
  a bad outcome stops further actions.
* **Security-watch around act.** A finding is closed by the absence of a flaw
  in a scan that may have seen half of the machine; verdicts are bought from a
  budget; mail is sent before it is recorded; a pull request lives over many
  ticks while its owner and GitHub act. Correct means: closed only when gone,
  found and mailed in the end, merged only what was vetted, and outcomes that
  say what production is.
* **Steward runs.** Artifacts written outside the database lock, two units in
  one run directory, reboots and re-execs between phases. Correct means: a row
  that succeeded vouches for an artifact of its own phase, and what P0 stopped
  is started again.
* **Steward's own code.** It merges, fast-forwards, verifies, restores and
  reverts the tree it runs from. Correct means: it runs only trees that passed
  or are the operator's, main stays one line of commits, a merge that was taken
  back is told.
* **Updates of P1.** Snapshot, switch, check and undo, killed anywhere and
  repeated the next night. Correct means: nothing that was written is lost,
  what is pinned is what runs, an undo is at hand, packets are true.
* **Resolver, dotfiles.** What was reviewed and what is acted on are two reads
  of files that others edit. Correct means: the acted-on bytes are the judged
  ones, caps hold over repeated attempts, and each action is on record.
* **News.** Candidates pass six filters with substitutions between them;
  publishers overlap; failures must not look like verdicts. Correct means: the
  site always shows a whole release of proven editions, a section holds what
  was approved and fetched, and each edition is mailed once.

`PROJECT.json` lists every component with what is and is not modelled, the
hazards with their lines, and for each definition the lines it models.

## Modules

| Module | Models | Kind |
|---|---|---|
| `DeployLockSpec` | what the locks promise: a readers/writer lock per key | abstract specification |
| `DeployLock` | `deploy_lock.py`, step by step | detailed specification |
| `DeployLockProofs` | theorems about `DeployLock` | proofs |
| `WorkflowState` | the rows and files of a run, one action per transition of `workflow_state.py` | component, used by `DigestRun` and `StewardRun` |
| `DigestRun` | digest processes and the publisher over `WorkflowState` | composition |
| `NewsCuration` | one topic from discovery to the curated section (`research.py`, `editorial.py`, `workflow.py`) | component |
| `Attention`, `FrontPage` | the attention snapshot, the Jev client with its workers; the choice of the front page | component; pure algorithm |
| `Folding` | loops over a sequence as recursive functions, for `NewsCuration`, `FrontPage` and their proofs | helpers |
| `NewsPublish` | `news_publish.py`: imports, releases, link, pruning, promotion, mail | component |
| `SecurityWatchAct` | `security_watch/act.py` with the journal and breaker of `store.py` | detailed specification |
| `SecurityWatchProofs` | theorems about `SecurityWatchAct`, the other four modules of security-watch below, and `MCWatch` as a whole | proofs |
| `SecurityWatchTick` | inventory, scan, reach and priority of a tick, with findings, signals and verdict cache | component |
| `SecurityWatchNotify` | urgent mail and stopgap rows | component |
| `RepoPr` | the plan of a Go release, and the life of a pull request | component |
| `OpsPlaybooks` | the playbooks that change this host | component |
| `StewardRun` | the phases of a nightly run and of its resumption over `WorkflowState` | composition |
| `StewardCode` | pickup, verification, restore and revert of the steward's source, and its pull requests | component |
| `Resolver` | P7c and the approvals | component |
| `DotfilesCommit` | P9b with the retry of a pending push | component |
| `ApplyPhase` | P1's steps, checkpoints, verdict and clean-up | component |
| `StewardProofs` | theorems about `Resolver`, and about `MCSteward` as a whole | proofs |
| `MaintenanceProofs` | theorems about the transactions of P1 and `ApplyPhase`, and about `MCMaintenance` as a whole | proofs |
| `PublishingProofs` | theorems about `NewsPublish`, `DotfilesCommit`, `Attention`, `NewsCuration` and `FrontPage`, and about `MCPublishing` as a whole | proofs |
| `DigestRunProofs`, `StewardRunProofs`, `StewardCodeProofs` | theorems about the module each is named after | proofs |
| `OpenWebUI`, `PinnedUpdates`, `AppDeploy`, `GamingRig`, `OmpDatabases`, `Toolchains` | the transactions of P1 | components |
| `MC*` | constants of the small instances; `MCSteward`, `MCMaintenance`, `MCWatch`, `MCPublishing` put several of the modules above side by side | model checking |

A definition whose name extends another's (`TakeFlockShared` for `TakeFlock`,
`WriteUnowned` for `WriteOwned`), or that a comment calls a mutant, is that
definition with a plausible mistake. No specification uses it. `PROJECT.json`
pairs one with each property that detects it, which shows that the properties
can fail; the others were tried in the same way and are kept for readers who
change the models: `EligibleUnsoaked`, `ShelveOne` and `OmpSmokeVersionOnly` of
`PinnedUpdates`, `VerdictOfFailed` of `ApplyPhase`,
`WaitForSsh` and `GpuReadyByFlag` of `GamingRig`, `LosslessAssumed` of
`OmpDatabases`, `PrWaitForEver` of `RepoPr`, `PullAndTrust` of `OpsPlaybooks`,
`RetainedOldest` and `SendMailAgain` of `NewsPublish`, `SelectNewest`, `DueAtOnce` and
`RemovableAny` of `Toolchains`, `HoldForgets` and `StagedPathsMatch` of
`DotfilesCommit`, `CheckNothing` and `ItemIdByPlace` of `Resolver`, and a few more.

### DeployLock

`held[p]` is the dictionary `_HELD` of process `p` (count, mode, descriptor);
`kern` is the kernel's table of open descriptions of lock files with the flock
each carries; `pc`, `call`, `depth` and `fd` are what a thread is doing.
One step is a critical section of `_GUARD`, a system call, or thread-local work
between two of those: `Reenter`/`RefuseMode`/`OpenFile` are the first section of
`service_lock` with the open of `_acquire_fd`, `TakeFlock`/`TimeOut` an attempt
of its loop, `Register`/`FindEntry` the second section, `ReleaseShare`/
`ReleaseLast`/`Unlock` the pieces of `_release`. A surface call is two nested
levels. `Die` is the death of a process at any step. A descriptor opened and
closed within one section is not shown, and neither is the JSON line in the
lock file, which nothing decides from.

`DeployLockSpec` has one variable, who holds which key how. `DeployLock`
implements it under the mapping `Using`, computed from `depth` and `call`.

### WorkflowState, DigestRun and StewardRun

`run`, `row` and `file` are the run row, the phase rows and the artifacts;
`lock` is the client inside the one transaction that is not a single step,
`_complete_owned_file`, which replaces the file (`WriteOwned`) and then commits
the row (`CommitOwned`). `RollBack` is what any exception or death in between
leaves: a new file under an old row. A hash is modelled by the content.

`DigestRun` adds the digest processes: `seen` is what a process holds in memory
of the phases behind it, `snap` the row its loader read, `token` its attempt.
`ReadRow`, `ReadFile`, `Resume`/`Reject` and `Invalidate` are the steps of
`_validated_artifact`, which holds no lock between them. `Signal` may interrupt
any step, the transaction included. `Publish` and `Finalize` are the
publisher's gate on the archive row and its later finalization. A content is
the attempt and the inputs it was made from.

`StewardRun` uses the same transitions with the steward's own habits: an
artifact is written by the phase itself before `complete_file`, progress is
written by `_owned_phase_progress` after a check without the lock, `Reload` is
the re-exec after P7b, `Reboot` leaves `pending`, which the resuming unit takes
up in a later boot, `StopPost` is the unit's `ExecStopPost`, and `Handoff`
and `Finish` end a run. An artifact is the kind of its writer and a value.
`overlap` is history: that two processes were in the directory at once. The
phases that are run are a constant, `Order`: any of `main`'s in their order, P0
among them.

### Security-watch

In `SecurityWatchAct`, `journal` is the table of active actions, `breaker` the
breaker row; the rest is the memory of the current tick. `_advance` is
`SettleStale`, `Leave`, `AdvancePlaybook`, `AdvanceRefused`, `AdvanceEnds` and
`RereadBreaker`; the gates of `act()` are the conjuncts of `Execute`; `_settle`
is `Settle` followed by `Trip`, the two commits that it makes. `Die` ends a
tick between any two steps, `ResetBreaker` is `breaker-reset`, which takes no
lock. `alarm` and `lost` are history. The statuses verified, unverified, failed
and rolled_back are one (`ended`), since no gate tells them apart; whether they
trip is part of the verdict.

`SecurityWatchTick` keeps the store's tables as functions (`inventory`,
`finding`, `judgements`, the scans due and complete) next to the machine
(`deployed`) and the sources (`published`, `phpLatest`), which move at any time.
A tick is `StartTick` and one step per phase; `TickDies` ends it between any
two, and the budget may run out in any phase. `act` is `SecurityWatchAct`, and
the mail at the end `SecurityWatchNotify`, whose two steps are the mail and its
record.

`RepoPr` has two parts. The plan (up to `StdlibPlanClears`) is a pure
algorithm over findings, an edit's specification and the repository's tags. The life is
`OpenPr`, then one `Look` and one `Advance...` per tick, with `prGit` moved by the owner,
the checks and GitHub's auto-merge. `prProd` is production's commit and, apart
from it, its health; a tick may die or raise in a stage (`BreaksOff`), and the
steward's own night may deploy the merge. `prGoes` is whether `act()` advances a
pending action at all: it does not in shadow mode, with the breaker open or
while the steward runs. A held pull request's row stays as it is (`HeldBack`),
since `act()` keeps a refused action pending. `OpsPlaybooks` is one playbook's
`apply` from the lock to the outcome, with an exception possible in every step.

### Steward

`StewardCode`: commits are positions in `commits`; `live`, `tree` and `edits` are
HEAD, the files and their uncommitted changes; `Startup` and the `StewardStep`s
follow `code_pickup.py` (merge, fetch, fast-forward, verify, restore, revert),
the operator commits, pushes and edits between any two of them. `Resolver`: an
attempt judges, checks, acts and journals item by item; `Approve...` is the
command; contents are numbers. `DotfilesCommit`: one step per git command of
P9b, with edits, staging, commits, checkouts and sessions in between.

`ApplyPhase` is the loop of `phase_1_apply` over its steps with a packet per
step chosen among those the step can report; each transaction module is one
such step from inside: `OpenWebUI` `_p1_openwebui`, `PinnedUpdates` FreshRSS,
SearXNG and omp, `AppDeploy` `_p1_dependabot_merge` and `_p1_app_deploy`,
`GamingRig` `_p1_gamingrig_maintenance`, `OmpDatabases` the repair of P1 and
the second backup, `Toolchains` the four drivers of `toolchains.py` as two
kinds (a pointer between installed versions, an exchanged tree). Each lets the
people and services it meets act between any two steps and has an action that
kills the run.

### News

`NewsCuration` follows one topic: `Research`, `Judge`, `Rank`,
`FetchPrimaries`, `SubstitutionWave`, `CheckDates`, `JudgeSummaries`, `Propose`,
`Review`, and `StubRetry`, the second pass when the section came out empty. An
article is a number, the lower the better; model answers and fetches are
chosen. The judge's answer may name a finding by its id, by a URL or beyond
recognition, and name it again: approve it twice, reject it as well. `Attention` is the shared snapshot with its retries, and the workers
that ask Jev with its breaker. `FrontPage` is an operator over the stories of a
day, told apart by their scores: when two are equal the code goes on to compare
dates and names. `NewsPublish` has one step for each commit to the world of a publisher.

## Runs

| Run | Instance | Shows |
|---|---|---|
| `MCDeployLock` | 2 processes, 3 threads, 5 descriptors, `host` and one surface | exclusion, no leak, no cycle of waits, the inductive invariant, refinement of `DeployLockSpec`, and that a call with a timeout returns |
| `MCDigestRun` | 2 clients, 2 phases (one with a validator), 2 code versions, 3 starts | rows, files, attempts and editions agree, and each process ends |
| `MCSecurityWatchAct` | 2 components, 3 groups, 4 ticks, windows of 2 ticks, cap 2 | caps, cooldowns, settlement, breaker |
| `MCWatch` | 1 component with 2 flaws of different feeds; 2 alerts, 1 mail a day; a wait limit of 3; the playbooks and every kind of plan; Go plans over 2 lines of 2 patches | findings close only when gone, are found and mailed; vetted merges, true outcomes; pull requests that are neither held nor kept back end |
| `MCSteward` | 2 paths, 3 commits, 2 nights, 3 startups; 3 phases, 2 launches, 1 reboot, 1 edit; 2 items, cap 1, 2 attempts | trusted trees, one merge a night, honest accounts; a run's rows vouch; the webhook comes back; judged actions |
| `MCMaintenance` | 3 rows and 3 nights of Open WebUI; 3 releases of the pins; 3 commits of a service; 6 steps of P1, 4 cache records; 4 boots of the rig; 2 rows and 3 repairs of OMP; 4 releases of a toolchain over 3 nights | no row is lost, pins run, only green commits are deployed, undo at hand, packets are true, the build cache is pruned by whole chains |
| `MCPublishing` | 2 publishers, 2 sections, 2 editions, 3 starts; a catalog of 13 articles in 6 searches, 1 slip of the judge, caps of 3, 2 and 1; 2 sources, 2 workers; every day of up to 4 stories in 2 sections; 2 dotfiles, 3 commits, 4 meddlings, 2 attempts | the site, the mail, the section, the front page, the commit |
| `MCDeployLockEverySurface` | as `MCDeployLock` | **violated**: `host_lock()` does not exclude `service_lock(key)` users |
| `MCDigestRunInterrupt` | as `MCDigestRun` | **violated**: a signal inside a transaction leaves the row running |
| `MCDigestRunFinalize` | as `MCDigestRun` | **violated**: finalization hides a failed phase |
| `MCSecurityWatchActBreaker` | as `MCSecurityWatchAct` | **violated**: an action advances right after the pass tripped the breaker |
| `MCSecurityWatchActCrash` | as `MCSecurityWatchAct` | **violated**: a tick that dies between two commits leaves the breaker closed |

In `MCWatch`, `MCSteward`, `MCMaintenance` and `MCPublishing` the machines share
no state in the code at the grain of the models (they meet in locks and rows,
which have runs of their own). `machine`, chosen in the initial state, says
which one moves, and the others stay in their initial states: the reachable
states are the union, not the product. Properties of one kind are joined there
under one name, so that a run reads as what it shows:

| Name | Joins |
|---|---|
| `TypesOK` | the type invariants, `CodeSound` and `HalfRestoreNoticed` of `StewardCode`, `Undisturbed` of `StewardRun`, `ResolverSound` of `Resolver`, `PinOfStep`, `SchemaOfImage` and `SavedBefore` of `OpenWebUI`, `PinSound` and `ShelfSound` of `PinnedUpdates`, `TargetSound` of `AppDeploy`, `PhaseSound` of `ApplyPhase`, `RebootGated` and `VisitSound` of `GamingRig`, `CopyStands` of `OmpDatabases`, `MemorySound`, `DiskSound`, `WorkingKept` and `ReplacedKept` of `Toolchains`, `OpenIsPublished` of `SecurityWatchTick`, `MailsCounted` of `SecurityWatchNotify`, `LookHolds` of `RepoPr`, `StepOfPlaybook` of `OpsPlaybooks` |
| `AttemptsSound` (`DigestRun`) | the type invariant and the parts of the inductive invariant on processes, snapshots, tokens and the lock, one owner per attempt, and that a process completes its own work |
| `RunVouched` (`StewardRun`) | `ArtifactsVouched` and `OneRun`: what a succeeded row says of its artifact, and that a finished run's rows belong together |
| `AccountsTrue` (`MCSteward`) | `UnpickedMergeReported`, and `ActionsCarried`, `ItemsAccounted`, `ExactlyAsJudged` of `Resolver` |
| `UpdatesFinished` (`MCMaintenance`) | `OwuiRowsKept`, `OwuiNotHalfApplied`; `PinIsRun`, `SoakRespected`, `OmpAtHand`; `OnlyGreenDeployed`, `NoMajorMerged`; `ToolsWork`, `UndoAtHand` |
| `ReportsTrue` | `DeployReported`, `AppliedRecorded`, `VerdictTrue`, `RigReportTrue`, `RepairReported` |
| `NoStepBreaks` (action properties) | `OwuiDataStill`, `ProductionMovesForward`, `ImagesKept`, `RigRebootsSafely`, `RepairLossless` |
| `WatchTellsTruth` (`MCWatch`) | `MailedOnce`, `MergeIsVetted`, `DoneIsDeployed`, `OutcomeTrue`, `UndoAtHand`, `StdlibPlanClears` |
| `WatchLiveness` | `FlawIsFound`, `UrgentIsMailed`, `PrEnds` |
| `PublishedTrue` (`MCPublishing`) | `SiteServed`, `MailIsTruth`, `NothingEmptyMailed`, `ReviewedBytes`, `CommitAccounted`, with the invariants they rest on (`PublishersSound`, `HygieneSound`) |
| `SelectionSound` | `SectionSound`, `ApprovedAccounted`, `FetchedOnce`, `NotEmptied`, `FrontPageSound` |
| `AttentionHonest` | `AttTypeOK`, `AsksAccounted`, `NeverGuessed`, `HandsInFlight`, `BreakerHolds` |

**Bounds.** Three threads in two processes are what the windows of the locks
need: two threads of one process race for the registry while the other process
waits for the flock; five descriptors are enough that an open never waits in
that instance (a surface call holds one while it opens the next), so that
the descriptor limit is not what excludes. Two clients and two phases let an
attempt be superseded between any two steps of its owner and a resume follow a
superseded upstream; three starts let a process run, be superseded and run again.
Four ticks with windows of two let an action enter, stay in and leave each
window, and a tick find a row of a dead tick both younger and older than the
budget. Two launches and one reboot of a steward's run are the nightly unit, the
resuming one and a stale process; three phases are one before the reboot, the
one that reboots and one after. No edit comes before the re-exec of P7b in
that instance: of that case only `RunIsVouched` speaks. Three startups over two nights repeat a
night. The transactions get as many nights as they need to be killed, repeated
and then succeed; three releases let one be skipped while it soaks and a
newer one be taken, four of a toolchain add the newer line. The searches of the
curation find, one at a time, what its filters meet: reports of one event that
share their alternates, so that items wait for each other and run out of them;
more events than `SECTION_CAP`, and two of one outlet; more fresh findings than
`FRESH_CAP`; paywalled articles with and without a replacement; two findings on
one URL, one that another topic took, one of the ledger, one that retells an
older story, a listing, and dates that are missing, old or ahead. Each of these
cases was found reachable in the run. `MaxSlips` is how many findings an answer
of the judge misnames or names again. The caps and limits of the other modules
are reached in their runs. Larger
instances of single modules were run while the models were written
(`Resolver` with three attempts, `Toolchains` with four nights,
`DotfilesCommit` with four commits and three attempts) with the same results.
Stories of a day score 1 to 4 and the floor of the front page is 3, so that
sections have leads below it and seconds on either side of it.
All the bounds are constants or definitions marked as bounds; because of them
every model but the locks' stops in the end, and their configurations switch
the deadlock check off. `OMP_DB_REPAIR_KEEP` is two instead of three.

Paths of the steward's tree and publishers are interchangeable and declared
symmetric, as are threads or clients in the runs of single safety properties;
no run of a liveness property uses symmetry.

**Fairness.** `DeployLock!FairSpec` is weakly fair to each thread: the kernel
schedules it, a transaction under a lock ends because its commands have
timeouts of their own, and a bounded attempt either gets the flock or gives up.
Nothing says that a lock is granted fairly, and no property needs it: a caller
without a timeout may starve. `DigestRun!FairSpec` is weakly fair to each live
process; starts, signals, kills and the publisher are never forced.
`WatchFairness` gives the machine that moves the fairness of its module.
A systemd timer starts a tick every fifteen minutes, a tick's steps have
timeouts, and hours and days pass: weak fairness of the tick's and the
notification's steps and of time. Of the pull request, weak
fairness of `OpenPr`, `Look` and the clock, and strong fairness of the three
`Advance` actions: a tick may die in a stage, but not each time for ever,
since it is started again and reaches the same row. That nobody holds the
pull request and that `act()` advances it is no fairness of the code but the
premise of `PrEnds`: from some time on the label is off where the stage looks at
it, and neither shadow mode, the breaker nor the steward keeps the action back.
Deaths, failures of
sources and refused mails are bounded by a constant; what the owner or GitHub
does is never forced: such a pull request ends because the stage's wait limit does.

## Disagreements found

With a run that shows it:

1. `deploy_lock.py:5-7` says that `host_lock()` excludes every surface at once.
   The steward runs toolchains and llama.cpp under `service_lock` alone
   (`steward/updates.py:3453`, `:3625`), which it does not exclude. For the
   surfaces taken with `surface_lock` it does (`HostExcludesSurfaceLocks`).
2. The digest's signal handler is there to leave no row running
   (`daily_news/workflow.py:260`). If the signal arrives inside a completion
   transaction, the handler waits for its own process's lock, gives up and ends
   the process with the row running.
3. `_refresh_run_status` keeps the run consistent with its phases
   (`workflow_state.py:381`); `finalize_published` writes `succeeded` over
   `running` without it. Failed phases survive only when the run already says
   `failed`, not when another phase was running at that time.
4. `act.py:6` has an open breaker refuse all. `_advance` reads it once and
   again only after a playbook ran: settling an interrupted action trips the
   breaker, and a pending action with a higher id is advanced right after.
   The one that was interrupted must be the older row and past the budget while
   the other is pending.
5. `_settle` journals an outcome and trips the breaker in two commits. A tick
   that dies in between leaves a failed action journaled, nothing that would
   look at it again, and the breaker closed.

Noticed while modelling. But for the first line on `RepoPr`, no text of the repository promises
otherwise; they are
history variables (`torn`, `crept`, `orphaned`, `unlogged`, `raced7`, `cut`,
`tainted`, `crossed`) or weaker statements in the models, and not runs:

* `StewardRun`: the reboot note is written before the reboot, and stays when the
  reboot is refused; it is read by the next boot's resuming unit.
* `SecurityWatchTick`: php.net lists the newest release of a line only; a PHP
  finding closes when that release is not a security release.
* `RepoPr`: of the wait limit, `playbooks_repo.py:43` says that "CI, merge and
  deploy each give up after this". A held pull request is refused before the
  limit is looked at, and `act()` keeps it pending; while shadow mode lasts or
  the breaker is open no stage is looked at at all. Such an action waits, and
  blocks its component, for as long as that lasts.
* `RepoPr`: a tick that dies in its deployment, or the steward's night, may leave
  a production at the merge that is broken. The next tick finds its commit
  current and says done without asking for its health (`DoneIsDeployed` says
  just that); the rescan that follows looks at versions only.
* `OmpDatabases`: a repair counts as ok, with no backup needed, also when systemd
  does not answer, a backup runs at the moment, or the last failure has no time
  or is too old. The packet's note tells, its status and reason do not.
* `GamingRig`: when the answer to the reboot is lost, the packet says that none
  was requested, and the visit goes on to the health checks of a rig that goes
  down.
* `NewsCuration`: a finding that the judge approves twice, or approves and
  rejects, is in both lists of the judged research.
* `RepoPr`: plans for pip and Go modules may choose a version that another finding
  is still about (the Go release plan does not, `StdlibPlanClears`). The check
  for a hold label comes before that for a merged pull request, and a label
  added after `--auto` stops nothing.
* `Toolchains`: a run killed between the exchange of two trees and the move of
  the old one leaves it in staging while the record says `replaced`: its
  undo command fails and the tree stays. After an unverified rollback later
  nights say `skipped` although the active version does not work. An
  operator's undo may shorten the retention of a Node or Ruby version.
* `FrontPage`: `_front_page_sections` guarantees one lead per section
  (`news_publish.py:1005`), and by the same docstring a section may be left
  without one: when better copies of all its stories stayed in others. Such a
  copy is not always shown either, since the floor or the cap may have cut it;
  `FrontPageSound` says just that much.
* `DotfilesCommit`: a write to the index between its comparison and the commit is
  committed, and pushed by the retry. On a detached HEAD the commit is made
  without a record. A run killed between the commit and the artifact leaves
  no record. A push publishes local commits below it that were not scanned.
  The record is of one run directory.
* `Resolver`: a kill between an action and its journal line loses it for cap and
  undo. A retry whose `git status` fails overwrites the artifact with no
  items. Names cut to 60 characters collide and are numbered by order, so that
  a retry may take one file for another. The check and the action are two reads
  of the file. Approving from an artifact that the journal has overtaken
  overwrites the saved copy. Whether the steward runs is checked once.

## Proofs

Each proof module shows `Spec => []IInv` from `Init => IInv` and
`IInv /\ [Next]_vars => IInv'`, with one lemma per action or group of actions,
and take the properties from `IInv`. TLC checks each invariant on the
instance too (`IInv` in two runs; the parts of the others in `TypesOK`,
`AttemptsSound`, `PublishedTrue` and `AttentionHonest`). `CurationInv`, which is
defined with its proof, held as an invariant of `MCPublishing` before it was
proved; the run has the five properties that follow from it.

**DeployLockProofs** assumes that the threads are finite, that `Host` is a key,
that a surface call names another key and that the null values differ from the
real ones; processes, keys, descriptors and calls are otherwise arbitrary.
`ProcessExclusion` is not inductive: who is inside a key says nothing about
the kernel. `IInv` adds that every entry is backed by a description that
carries its flock (`Backed`), that a descriptor in a thread's hand carries what
its `pc` says (`HandOK`) and is nobody else's (`HandsDistinct`), that flocks
exclude (`FlocksExclude`) and that counts are exact (`Counted`). Then a thread
inside a key is backed by a flock of its own process, and two processes'
flocks exclude.
Proved: `Invariance`, `Exclusion` (`ProcessExclusion`), `HostExclusion`
(`HostExcludesSurfaceLocks`), `LateRefusalDead` (`LateModeNeverDiffers`, so the
second `RuntimeError` is dead code), and `Refinement`: every step is a step of
`DeployLockSpec` or leaves `Using` as it was. `NothingLeaks` (`NoLeak`) and
`NoDeadlock` (`SomeoneMoves`) follow from the exact counts and from the order
in which the code takes keys: if every busy thread waited for a flock, a flock
that is taken would be `host`'s, held by a surface call that waits for its
surface (`WaitedFor`), and then nobody has that surface.

**DigestRunProofs** assumes that a digest runs some phases, each once, and that the null
values are none of the others. `ConsistentEdition` speaks of what a process
remembers when it publishes; the code decides it many steps before, in loaders
that read row, file and row again without a lock. `DigestIInv` therefore says,
for each stage of a loader, what the row it read still implies of the row that
is there now (`SnapshotsOK`), that a token is of an attempt that its
process began (`TokensOK`), that the client in the completion transaction owns
what it writes (`LockOK`), and that a succeeded row vouches for its file unless
that transaction is open on it. Proved: `DigestInvariance`, `RowsVouch`
(`RowMatchesFile`), `RunSummarised` (`RunRunsWithPhases`), `AttemptsAreSound`
(`AttemptsSound`), `OneEdition` (`ConsistentEdition`) and `DecidedOnce`
(`AttemptsDecidedOnce`), for any clients, phases, code versions and starts.

**StewardRunProofs** assumes that the phases are some of `main`'s in their order
with P0 among them, two units, and any edits, launches and boots. `OneRun` speaks
of all rows at the end of a run; to be inductive it needs `Undisturbed`: for a
process that has the directory to itself, its row is its own attempt's (`Owned`),
what it was given is still on disk (`Given`), each phase behind it was decided on
the artifacts that are there (`Behind`), all under one source or those up to P7b
under P0's (`OneSource`). A step writes at its own phase only, and no phase
behind it is given what that one writes (`GivenEarlier`, from `GivenTo`), so that
what is behind stays true (`BehindKept`, `Advanced`). Proved: `RunInvariance`,
`RunIsVouched` (`RunVouched`) and `WebhookReturns` (`WebhookBack`). The second has
no need of `Undisturbed`: only `StopPost` and `Boot` end a unit.

**StewardCodeProofs** assumes a finite set of paths and bounds that are natural
numbers. A run's tree is trusted because of what each stage of a startup has
already established of HEAD, the files and the verdict (`StageOK`, `TreeOK`),
and one merge a night because a startup counts on GitHub's own list of merges
before it merges (`MergesCounted`). A commit carries the commits below it
(`line`), and `HistoryOK` says that those are closed. Proved: `CodeInvariance`,
`TrustedTreeRuns` (`RunsTrustedTree`), `OneMerge` (`OneMergePerNight`),
`HalfRestoreKnown` (`HalfRestoreNoticed`), `MergeReported`
(`UnpickedMergeReported`) and `OneLineStays` (`StaysOneLine`).

**StewardProofs** assumes that files are numbers (their order is the one in which
the items are numbered) and that the cap and the bounds are natural numbers.
`ActionsCarried` is not inductive: that a repeated attempt starts from every
action of the night needs that the journal, the artifact and the attempt's
memory together hold all of them (`NightOK`), and that none is replaced there needs
that no file which is still to be judged has the id of a record (`AttemptOK`), which
rests on `IdsDiffer`: the number of an item grows with its file. A copy in
`07c-saved` is kept under the item's id and the file, and no later revert or
approval of this night has the id of a journaled action unless they raced
(`ActingOK`, `ApprovalOK`). The names may collide: only `ItemsAccounted`
excludes that. Proved: `ResolverInvariance`, `NightIsCarried` (`ActionsCarried`),
`ApprovalsExact` (`ExactlyAsJudged`); and, since in `MCSteward` each machine
behaves as its own specification says (`MachinesApart`), `StewardTyped`
(`TypesOK`) and `AccountsAreTrue` (`AccountsTrue`).

**SecurityWatchProofs**, of `SecurityWatchAct`, assumes that groups are of components and that the
windows are natural numbers. The properties of windows are not inductive by
themselves: that an executed row closes the window for the next needs the order
of the journal (`JournalOK`), what the tick knows of the row it is working on
(`CurOK`) and that whatever `_advance` has passed is settled or young
(`LookedAtOK`). Proved: `Invariance`, `Cap` (`DailyCap`, `OnePerTick`),
`CoolsDown` (`CooldownRespected`), `OneAction` (`OneActionPerComponent`),
`Settled` (`InterruptedSettled`), `BreakerStops` (`BadOutcomeTrips`,
`BadOutcomeStopsNew`).

**MaintenanceProofs** assumes that the numbers of rows, nights, releases, boots and
commits are natural, those that must be there positive, and that the steps of P1
are some of `AllSteps`. Each transaction has an inductive invariant that says what the
steward's memory, the disk and the host have to do with each other between any
two of its steps, because the run may be killed there and the next night starts
from the disk alone.

* Open WebUI: `OwuiRowsKept` is not inductive, since that the rows of the volume are
  saved when it is moved aside depends on the step. `OwuiIInv` adds which pin and
  image each step runs with (`PinOfStep`), that the image that serves is that of
  the data's schema (`SchemaOfImage`), and what was saved before which step while
  nothing serves (`SavedBefore`). `DataStill` follows from the last.
* Pins and omp (`PinInv`): what an update holds in memory was published, and soaked
  if SearXNG is to run it (`PinSound`). That a working omp is at hand rests on the
  shelf: ages and releases are distinct, a snapshot of the release that the update
  began from is on it, and until a second mishap either that one works or another
  does (`ShelfSound`). The shelf keeps two, so `Younger` and `Shelved` count it.
* Deployments (`DeployInv`): past the gate the target descends from what production
  runs, and what is about to be handed over is green (`TargetSound`). Lineage is a
  recursive function over the history; `AncestryHas` and its neighbours say what it
  returns, by a least counterexample, and that pushes only add to it.
* The apply phase (`ApplyInv`): while the process lives the artifact is what it has
  in memory, nothing after its position was touched, and a failure at the stop
  boundary is not passed (`PhaseSound`). `AfterIs` and `Positions` say how the steps
  follow each other; the boundary after the packages needs that the two packages
  are neighbours in `AllSteps`.
* The rig (`RigInv`): a reboot under way, its answer lost or not, was gated and armed
  and began from the boot that is remembered (`RebootGated`), and what the packet
  will say holds of what the visit has seen so far (`VisitSound`).
* OMP's databases (`OmpInv`): until corruption spreads, the rehearsed copy stands
  for the live file (`CopyStands`), and a repair that is called ok passes over no
  failure of the backup that it read (`RepairReported`).
* Toolchains (`ToolInv`): where a run is from and to (`MemorySound`), what it has on
  disk (`DiskSound`), which versions work (`WorkingKept`) and are kept
  (`ReplacedKept`). The last two hold unless a switch was torn or an undo was made:
  the exceptions that *Disagreements found* describes.

Proved: an invariance theorem for each (`OwuiInvariance`, `PinInvariance`,
`DeployInvariance`, `ApplyInvariance`, `RigInvariance`, `OmpInvariance`,
`ToolInvariance`), the action properties (`DataStill`, `ForwardOnly`,
`ImagesAreKept`, `RebootsAreSafe`, `RepairsAreLossless`), and, since in
`MCMaintenance` each transaction behaves as its own specification says
(`TransactionsApart`), `MaintenanceTyped` (`TypesOK`), `UpdatesFinish`
(`UpdatesFinished`), `ReportsHold` (`ReportsTrue`) and `NothingBreaks`
(`NoStepBreaks`).

What is pruned of the build cache is an algorithm over a forest of records,
`_build_cache_prunable`: each visit joins those of its children and appends the
record when all of them went and it is stale itself. `WholeChainsPruned` says of
any number of records, any forest and any stale ones that what goes is exactly
the records with nothing but stale ones below them, children before parents;
`CacheIsPruned` is the run's `CachePruned`. A visit is a recursive function on a
forest, and the library's theorems that such functions exist take operators,
which the provers cannot instantiate. `Recursion` proves it for functions that
depend on arguments of lower rank only, from the least number that fails
(`CountingUp`); a visit depends on records of higher number only.

Of `SecurityWatchTick`, **SecurityWatchProofs** assumes that flaws are finite, that each is about
a component and a version, and that budgets and bounds are natural. That a
finding closes only when a good inventory shows the fix needs that an open
finding of an advisory is of one that was published (`OpenIsPublished`), so that a
complete answer without it is due to the version. Proved: `TickInvariance` and
`OnlyGoneIsClosed` (`ClosedWhenGone`). Nothing is assumed of which sources
answer.

Its other parts have an invariant each. Of the mail: `MailedOnce` bounds the
repeats by the ticks with bad luck, which is inductive only when mails that nothing
records yet are counted too (`MailsCounted`); items are finite, and the
limits positive. Of the pull request: that security-watch merges vetted
commits needs that what it saw of a commit still holds, or the commit is
no longer the head (`LookHolds`), and that done is said of a deployment needs
that only the deploy stage of a merged request moves production
(`BeforeDeploy`). Of the playbooks: that outcomes are true needs
which playbook is in which step, and that only its last steps have moved
production (`StepOfPlaybook`). `StdlibPlan` says, for any number of findings and
any bound on the versions, that a plan for the Go release clears its findings: the
smallest fix of a line exists because versions are well-founded, and the newest
of those because they are bounded. `PartsMove` says that in `MCWatch` each part
behaves as its own specification says, whence `WatchTyped` (`TypesOK`) and
`ReportsAreTrue` (`WatchTellsTruth`) for every value of the constants.

**PublishingProofs** assumes at least one section, one commit and positive limits
of the Jev client. Of the publisher: that publishers which do not cross
leave a whole release behind the link and one mail that stays true needs
`PublishersSound`, that only one of them runs, that its release is there and
becomes current only when it is whole and the newest (so that pruning keeps it),
that what it shows are the durable editions, which it found frozen exactly if
the mail went out, and that the mail without a marker is its own; a gate that
was passed with something to read stays justified however many overlap
(`SomethingToRead`). Of the dotfiles (`HygieneSound`): past the comparison the index is what
was reviewed as long as nobody writes to it, and between its steps the commit
of this run is in memory, on record or on GitHub. Of attention: `BreakerHolds`
needs that all that workers still hold was in flight when the breaker opened
(`HandsInFlight`), and `NeverGuessed` that every ask is waiting, in hand,
answered or counted against its story (`AsksAccounted`).

Of the curated selection it assumes a catalog of articles with any URLs, events,
outlets and dates, and positive caps and limits. That a story of the section is
sound follows from no single filter: the ranking may replace an article by an
alternate, the fetch may replace it again, the date check looks at the
replacement, and proposal, critic and fallback each select from what is left.
`CurationInv` says what is known between them:

* `FindingSound`: one fresh finding stands for a URL and was approved, every
  approval is fresh or rejected (or both), the queue reports stories of fresh
  findings (`QueueTells`), and it and its alternates hold nothing told on the
  days before or taken by another topic today.
* `FetchSound`: what an item cites reports the story that was queued; each URL was
  opened once; an item that was given a substitute shares its story with
  none; an item that is kept was opened, and its page has the date that research
  did not have.
* `SectionSelected`: before the review there is no section, from then on it is a
  selection of different stories that may be chosen within the caps
  (`Selection`), and at the end it is
  empty only with a fallback's status or if nothing could be chosen.

Half of the proof is about loops: the swaps of paywalled items, the plan of a
substitution wave, the two passes of the validation, the duplicates of the front
page. `Folding` writes a loop as a recursive function of how many items it went
through, and `LoopRuns` and `LoopKeeps` say of any such loop that it has a state
after each item and keeps what each of its steps keeps. One lemma per loop then
needs only its step. `FrontPageIsSound` is about any finite set of stories of the
sections with scores of their own (`Scored`); the stories of the run's days are
such sets.

Proved: `SiteAndMail`, `SnapshotOnlyImproves` (`SnapshotImproves`),
`CurationInvariance`, `CurationPromises`, `FrontPageIsSound`, and of
`MCPublishing` `PublishedStays` (`PublishedTrue`), `AttentionStays`
(`AttentionHonest`) and `SelectionStays` (`SelectionSound`), for every value of
the constants.

**Only model-checked.** Liveness of every module (`BoundedCallsReturn`,
`ProcessesEnd`, `WatchLiveness`), which needs fairness and `ENABLED`. Every
invariant and action property of a passing run is proved.

## Not modelled, and why

* `holders()` and the fork hook of the locks; lock files' contents.
* What phases, models and sub-agents compute; prompts; wording tests of
  duplicates; parsers of pages, feeds and answers. They are chosen by the models among the
  outcomes that the code distinguishes.
* Rendering: reports, the archive page, the site's pages, mail bodies, report
  prose. They are functions of recorded state with tests of their own.
* Version ranges, inventories of packages and edits of files in security-watch;
  plans of ecosystems other than Go, whose choice of a version differs only in
  what was said above.
* Of a playbook of pull requests that raises, what production became: it is
  journaled as unknown, and `touched` stands for what is known.
* Shadow proposals and refusal alerts of `act()`, which no gate reads; the
  criteria of plan and two-source gates, which may refuse at any time.
* P3's sub-agents and the routing of findings; the audits and health probes;
  llama.cpp and herdr, each one external command in one step of P1.
* The publication of the dotfiles (a filter and a command of the operator's)
  and the intake of another program's Dependabot events.
* Units, timers, guards: the environment. The models let a process
  start, be killed and be signalled whenever the code cannot rule it out.

## Plan

What is left, in order of what matters most:

1. The life of a pull request as a refinement of a playbook of
   `SecurityWatchAct`, and its proof.
2. The Dependabot intake, and P3's menu of fixes with the queue.
