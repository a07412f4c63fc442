------------------------------- MODULE RepoPr -------------------------------
(***************************************************************************)
(* The repo-pr playbook of security-watch (security_watch/playbooks_repo): *)
(* a finding fixed in one of the owner's repositories becomes a pull       *)
(* request, which later ticks merge and deploy.  The first part is the     *)
(* plan: which edit a set of findings asks for and to which version.  The  *)
(* second part is the life of the pull request, whose other actors are the *)
(* owner and GitHub.  A version is [line, patch].                          *)
(***************************************************************************)
EXTENDS Integers, Sequences, FiniteSets, FiniteSetsExt

CONSTANTS
  WAIT_LIMIT,     \* how long a stage may wait, in ticks of the clock
  MaxPushes       \* bound: commits the owner pushes on the branch

ASSUME PrAssumption == WAIT_LIMIT \in Nat \ {0} /\ MaxPushes \in Nat

----------------------------------------------------------------------------
(* The plan.                                                               *)

Older(v, w) == v.line < w.line \/ (v.line = w.line /\ v.patch < w.patch)
Newest(V) == CHOOSE v \in V : \A w \in V : ~Older(v, w)
Oldest(V) == CHOOSE v \in V : \A w \in V : ~Older(w, v)

EditKind(finding, spec) ==
  IF finding.kind = "os"
    THEN IF spec.container THEN "base-refresh" ELSE "none"
  ELSE IF finding.kind = "go-stdlib"
    THEN IF spec.container \/ spec.dockerfile THEN "go-builder" ELSE "go-toolchain"
  ELSE IF finding.kind = "go" THEN "go-module"
  ELSE IF finding.kind = "pip" THEN "pip-pin" ELSE "none"

\* Which of the findings, the most urgent first, an allowed edit can fix now.
Candidates(findings, spec) ==
  {n \in DOMAIN findings : LET f == findings[n]
                           IN f.kind \notin spec.owned /\ EditKind(f, spec) \in spec.edits /\ f.fixed # {}}
EditGroup(findings, spec) ==
  LET able == Candidates(findings, spec)
  IN {findings[n] : n \in {m \in able : EditKind(findings[m], spec) = EditKind(findings[Min(able)], spec)}}

\* Mutant: the smallest fix of any line.
SameLineAny(finding, current) == finding.fixed
\* The Go release: the smallest fix on the line the repository builds with, for every finding.
SameLineFixed(finding, current) == {v \in finding.fixed : v.line = current.line}
\* A module or a pin: the smallest fix above what is installed, tagged releases only.
FixedAbove(finding) == {v \in finding.fixed : Older(finding.version, v)}
Tagged(v, tags) == {t \in tags : ~Older(t, v)}

FixFor(edit, finding, repo) ==
  LET fixed == IF edit \in {"go-builder", "go-toolchain"} THEN SameLineFixed(finding, repo.current)
               ELSE FixedAbove(finding)
      least == Oldest(fixed)
  IN IF fixed = {} THEN {}
     ELSE IF edit = "go-module" /\ least \notin repo.tags
       THEN (IF Tagged(least, repo.tags) = {} THEN {} ELSE {Oldest(Tagged(least, repo.tags))})
     ELSE {least}

\* The planned version as a singleton, or nothing when the plan is refused.
PlanVersion(findings, spec, repo) ==
  LET group == EditGroup(findings, spec)
      edit == EditKind(CHOOSE f \in group : TRUE, spec)
      fixes == UNION {FixFor(edit, f, repo) : f \in group}
      need == Newest(fixes)
  IN IF group = {} \/ edit = "base-refresh" \/ \E f \in group : FixFor(edit, f, repo) = {}
          \/ ~Older(repo.current, need)
       THEN {}
     ELSE {need}

\* A finding is gone at version v when v has the fix of its own line, or of a line at or below it
\* and no later line had to be fixed on its own.
Affected(finding, v) ==
  \A w \in finding.fixed : Older(v, w) \/ (w.line < v.line /\ \E u \in finding.fixed : u.line = v.line)

(* A plan for the Go release clears every finding of its group, stays on   *)
(* the line the repository builds with and only moves forward:             *)
(* _plan_go_builder and _plan_go_toolchain take, for each finding, the     *)
(* smallest fix of that line and of those the newest.                      *)
StdlibPlanClears(findings, spec, repo) ==
  \A v \in PlanVersion(findings, spec, repo) :
    /\ Older(repo.current, v)
    /\ (\A f \in EditGroup(findings, spec) : f.kind = "go-stdlib") =>
         /\ v.line = repo.current.line
         /\ \A f \in EditGroup(findings, spec) : ~Affected(f, v)

----------------------------------------------------------------------------
(* The pull request.                                                       *)

VARIABLES
  prGit,      \* the pull request on GitHub
  prProd,     \* what runs: whether main with the merge is deployed, and whether it is healthy
  prAction,   \* the action's row: stage or status, stage's age, known to have touched production, undo
  prGoes,     \* act() advances it: no shadow mode, the breaker closed, the steward not at work
  prWay,      \* the component: merged through --auto, deployed by a release script, has a health URL
  prLook      \* what the tick read of GitHub before it acts

prMoves == <<prGit, prProd, prAction, prLook>>
prVars == <<prMoves, prGoes, prWay>>

PrFinal == {"done", "failed", "rolled_back"}
Productions == [sha : {"old", "new"}, healthy : BOOLEAN]
NoLook == [said |-> "nothing"]
Closes == "close the pull request"
Reverts == "revert the merge"
Either == "close it before the merge, revert it after"   \* what the plan says

PrInit ==
  /\ prGit = [pr |-> "none", head |-> "opened", checks |-> "pending", held |-> FALSE, armed |-> FALSE,
              clean |-> TRUE, by |-> "none", vetted |-> FALSE, pushes |-> 0]
  /\ prProd = [sha |-> "old", healthy |-> TRUE]
  /\ prAction = [stage |-> "planned", age |-> 0, touched |-> FALSE, undo |-> Either]
  /\ prGoes = TRUE
  /\ prWay \in [auto : BOOLEAN, release : BOOLEAN, health : BOOLEAN]
  /\ prLook = NoLook

PrUndo(stage) == IF stage = "deploy" THEN Reverts ELSE Closes
PrGoto(stage) ==
  prAction' = [prAction EXCEPT !.stage = stage, !.age = 0, !.undo = PrUndo(stage)]
PrEndWith(status, touched, undo) ==
  prAction' = [prAction EXCEPT !.stage = status, !.touched = touched, !.undo = undo]
PrEnd(status) == PrEndWith(status, prAction.touched, PrUndo(prAction.stage))
\* The stage waits, and gives up once it has lasted WAIT_LIMIT.
PrWait == IF prAction.age >= WAIT_LIMIT THEN PrEnd("failed")
          ELSE prAction' = [prAction EXCEPT !.undo = PrUndo(prAction.stage)]

\* apply: fetch, edit in a worktree, commit, push, open.  When no number comes back the branch is
\* deleted, which closes what GitHub had opened all the same, if the deletion arrives.
OpenPr ==
  /\ prAction.stage = "planned" /\ prGoes
  /\ \/ prGit' = [prGit EXCEPT !.pr = "open"] /\ PrGoto("ci")
     \/ \E pr \in {"none", "closed", "open"} :
          prGit' = [prGit EXCEPT !.pr = pr] /\ PrEndWith("failed", FALSE, Either)
  /\ UNCHANGED <<prProd, prLook>>

\* gh pr view: a tick starts from what GitHub says now, or from nothing when the call fails.
Look ==
  /\ prAction.stage \in {"ci", "merging"} /\ prGoes /\ prLook = NoLook
  /\ prLook' \in {[said |-> "answer", git |-> prGit], [said |-> "error", git |-> prGit]}
  /\ UNCHANGED <<prGit, prProd, prAction>>

Mergeable(git) == git.checks = "green" /\ git.clean

\* Mutant: the merge does not name the commit.
MergesAnyHead(git) ==
  IF git.pr = "open"
    THEN {[git EXCEPT !.pr = "merged", !.by = "watch", !.vetted = git.checks = "green"]}
  ELSE {}
\* gh pr merge --match-head-commit: GitHub merges, or keeps the request (--auto), or refuses it.
Merges(git) ==
  IF git.pr = "open" /\ git.head = "opened"
    THEN {[git EXCEPT !.pr = "merged", !.by = "watch", !.vetted = git.checks = "green"]}
         \cup (IF prWay.auto THEN {[git EXCEPT !.armed = TRUE]} ELSE {})
  ELSE {}

\* The playbook refuses a held pull request, and act() keeps a refused action as it was.
HeldBack == UNCHANGED <<prGit, prAction>>

\* The merge call may be refused, or be done without its answer arriving.
AdvanceCi ==
  LET seen == prLook.git
  IN /\ prAction.stage = "ci" /\ prLook # NoLook
     /\ prLook' = NoLook
     /\ UNCHANGED prProd
     /\ IF prLook.said = "error" THEN PrWait /\ UNCHANGED prGit
        ELSE IF seen.held THEN HeldBack
        ELSE IF seen.pr = "merged" THEN PrGoto("deploy") /\ UNCHANGED prGit
        ELSE IF seen.pr = "closed" \/ seen.head # "opened" \/ seen.checks = "red"
          THEN PrEnd("failed") /\ UNCHANGED prGit
        ELSE IF seen.checks = "pending" THEN PrWait /\ UNCHANGED prGit
        ELSE IF ~seen.clean THEN PrEnd("failed") /\ UNCHANGED prGit
        ELSE \/ prGit' \in Merges(prGit) /\ PrGoto("merging")
             \/ prGit' \in Merges(prGit) \cup {prGit} /\ PrWait

AdvanceMerging ==
  LET seen == prLook.git
  IN /\ prAction.stage = "merging" /\ prLook # NoLook
     /\ prLook' = NoLook
     /\ UNCHANGED <<prGit, prProd>>
     /\ IF prLook.said = "error" THEN PrWait
        ELSE IF seen.pr = "merged" THEN PrGoto("deploy")
        ELSE IF seen.pr = "closed" THEN PrEndWith("failed", prAction.touched, prAction.undo)
        ELSE IF seen.held THEN HeldBack
        ELSE PrWait

\* The steward's app_deploy: "current" when production is at main's commit, whatever its health, or
\* not now, deployed and then asked for its health, back at the commit it ran, or neither.
DeployApp ==
  \/ prProd.sha = "new" /\ PrEnd("done") /\ UNCHANGED prProd
  \/ PrWait /\ UNCHANGED prProd
  \/ \E healthy \in BOOLEAN :
       /\ prProd' = [sha |-> "new", healthy |-> healthy]
       /\ PrEndWith(IF healthy \/ ~prWay.health THEN "done" ELSE "failed", TRUE, Reverts)
  \/ \E healthy \in BOOLEAN :
       prProd' = [prProd EXCEPT !.healthy = healthy] /\ PrEndWith("rolled_back", TRUE, Reverts)
  \/ \E sha \in {prProd.sha, "new"}, healthy \in BOOLEAN :
       prProd' = [sha |-> sha, healthy |-> healthy] /\ PrEndWith("failed", TRUE, Reverts)

\* Clean main with the merge in it, then the release script and the health check.
DeployRelease ==
  \/ PrWait /\ UNCHANGED prProd
  \/ \E exit \in {0, 1}, sha \in {prProd.sha, "new"}, healthy \in BOOLEAN :
       LET well == healthy \/ ~prWay.health
       IN /\ exit = 0 => sha = "new"
          /\ prProd' = [sha |-> sha, healthy |-> healthy]
          /\ PrEndWith(IF exit = 0 THEN IF well THEN "done" ELSE "failed"
                       ELSE IF well /\ prWay.health THEN "rolled_back" ELSE "failed",
                       TRUE, Reverts)

AdvanceDeploy ==
  /\ prAction.stage = "deploy" /\ prGoes
  /\ \/ PrWait /\ UNCHANGED prProd            \* the deploy lock is busy
     \/ PrEnd("failed") /\ UNCHANGED prProd   \* a way to deploy that nobody knows
     \/ ~prWay.release /\ DeployApp
     \/ prWay.release /\ DeployRelease
  /\ UNCHANGED <<prGit, prLook>>

\* The component left the registry: the action ends where it stands.
Unregistered ==
  /\ prAction.stage \in {"ci", "merging", "deploy"} /\ prGoes /\ prLook = NoLook
  /\ PrEndWith("failed", prAction.touched, prAction.undo)
  /\ UNCHANGED <<prGit, prProd, prLook>>

\* A stage breaks off in the middle: a release half way, a merge whose outcome is not written.
BreaksOff ==
  /\ prLook' = NoLook
  /\ \/ /\ prAction.stage = "deploy" /\ prGoes
        /\ \E sha \in {prProd.sha, "new"}, healthy \in BOOLEAN : prProd' = [sha |-> sha, healthy |-> healthy]
        /\ UNCHANGED prGit
     \/ /\ prAction.stage = "ci" /\ prLook # NoLook /\ prLook.said = "answer"
        /\ ~prLook.git.held /\ prLook.git.pr = "open" /\ prLook.git.head = "opened" /\ Mergeable(prLook.git)
        /\ prGit' \in Merges(prGit)
        /\ UNCHANGED prProd
     \/ prLook # NoLook /\ UNCHANGED <<prGit, prProd>>
\* The tick dies: its row keeps the stage it had.
TickDiesInStage == BreaksOff /\ UNCHANGED prAction
\* The playbook raises: act() ends the action with the undo of its row, and whether production was
\* touched is journaled as unknown.
AdvanceRaises == BreaksOff /\ PrEndWith("failed", prAction.touched, prAction.undo)

\* What the owner, CI, GitHub and the steward do meanwhile.
OwnerActs ==
  /\ prGit.pr = "open"
  /\ \/ prGit' = [prGit EXCEPT !.pr = "closed"]
     \/ prGit' = [prGit EXCEPT !.pr = "merged", !.by = "owner"]
     \/ /\ prGit.pushes < MaxPushes
        /\ prGit' = [prGit EXCEPT !.head = "other", !.checks = "pending", !.pushes = @ + 1]
  /\ UNCHANGED <<prProd, prAction, prLook>>
\* The label that holds a pull request is put on it or taken off, in whatever state it is.
OwnerHolds ==
  /\ prGit.pr # "none"
  /\ prGit' = [prGit EXCEPT !.held = ~@]
  /\ UNCHANGED <<prProd, prAction, prLook>>
ChecksEnd ==
  /\ prGit.pr = "open" /\ prGit.checks = "pending"
  /\ \E checks \in {"green", "red"} : prGit' = [prGit EXCEPT !.checks = checks]
  /\ UNCHANGED <<prProd, prAction, prLook>>
MainMoves ==
  /\ prGit.pr = "open" /\ prGit.clean
  /\ prGit' = [prGit EXCEPT !.clean = FALSE]
  /\ UNCHANGED <<prProd, prAction, prLook>>
GitHubMerges ==
  /\ prGit.pr = "open" /\ prGit.armed /\ Mergeable(prGit)
  /\ prGit' = [prGit EXCEPT !.pr = "merged", !.by = "github"]
  /\ UNCHANGED <<prProd, prAction, prLook>>
\* The steward's own night deploys what is on main; after the action ended it is not followed.
StewardDeploys ==
  /\ ~prGoes /\ ~prWay.release /\ prGit.pr = "merged" /\ prAction.stage \notin PrFinal
  /\ \E healthy \in BOOLEAN : prProd' = [sha |-> "new", healthy |-> healthy]
  /\ UNCHANGED <<prGit, prAction, prLook>>
PrClock ==
  /\ prAction.stage \in {"ci", "merging", "deploy"}
  /\ prAction.age < WAIT_LIMIT
  /\ prAction' = [prAction EXCEPT !.age = @ + 1]
  /\ UNCHANGED <<prGit, prProd, prLook>>
\* Shadow mode, the breaker or the steward's run sets in or ends.
GateMoves == prGoes' = ~prGoes /\ UNCHANGED prMoves

PrTick == OpenPr \/ Look \/ AdvanceCi \/ AdvanceMerging \/ AdvanceDeploy \/ Unregistered
Outside == OwnerActs \/ OwnerHolds \/ ChecksEnd \/ MainMoves \/ GitHubMerges \/ StewardDeploys \/ PrClock
PrNext ==
  /\ UNCHANGED prWay
  /\ \/ (PrTick \/ AdvanceRaises \/ TickDiesInStage \/ Outside) /\ UNCHANGED prGoes
     \/ GateMoves
\* The tick's timer and the clock go on, and a tick is not killed for ever in the same place.
PrFairness ==
  /\ WF_prMoves(OpenPr) /\ WF_prMoves(Look) /\ WF_prMoves(PrClock)
  /\ SF_prMoves(AdvanceCi) /\ SF_prMoves(AdvanceMerging) /\ SF_prMoves(AdvanceDeploy)
PrSpec == PrInit /\ [][PrNext]_prVars

----------------------------------------------------------------------------
PullRequestState ==
  [pr : {"none", "open", "merged", "closed"}, head : {"opened", "other"}, checks : {"pending", "green", "red"},
   held : BOOLEAN, armed : BOOLEAN, clean : BOOLEAN, by : {"none", "watch", "owner", "github"}, vetted : BOOLEAN,
   pushes : 0..MaxPushes]

(* The type invariant of the pull-request playbook.                         *)
PrTypeOK ==
  /\ prAction \in [stage : {"planned", "ci", "merging", "deploy"} \cup PrFinal, age : 0..WAIT_LIMIT,
                   touched : BOOLEAN, undo : {Either, Closes, Reverts}]
  /\ prGit \in PullRequestState
  /\ prProd \in Productions
  /\ prGoes \in BOOLEAN
  /\ prWay \in [auto : BOOLEAN, release : BOOLEAN, health : BOOLEAN]
  /\ prLook = NoLook \/ prLook \in [said : {"answer", "error"}, git : PullRequestState]

(* What a tick saw of a commit holds as long as nobody pushes another, and  *)
(* a merged pull request stays merged; nobody merges what is not open, and  *)
(* production is touched in the deploy stage only, which ends the action.   *)
LookHolds ==
  /\ prAction.stage = "planned" => prGit.pr = "none" /\ prLook = NoLook
  /\ prGit.by # "none" => prGit.pr = "merged"
  /\ prLook # NoLook =>
       /\ prLook.git.pr = "merged" => prGit.pr = "merged"
       /\ prGit.head = "opened" => prLook.git.checks \in {"pending", prGit.checks}
  /\ prAction.touched => prAction.stage \in {"done", "failed", "rolled_back"}

(* What security-watch itself merges is the commit it opened, with green   *)
(* checks, whatever the owner pushed between its look and its merge:       *)
(* _advance_ci gives gh pr merge the head it recorded.                     *)
MergeIsVetted == prGit.by = "watch" => prGit.head = "opened" /\ prGit.vetted

(* A deployment happens only for a merged pull request.  "done" is said    *)
(* only of a production at the merge: of one this action deployed and       *)
(* found healthy, or, on the steward's way alone, of one that was at the    *)
(* commit already, whose health nobody asked for (_deploy_app on "current"; *)
(* a tick that died in its deployment, or the steward, left it there).      *)
(* Once production is known to be touched the undo is the revert: closing   *)
(* a merged pull request would undo nothing.                                *)
DoneIsDeployed ==
  /\ prProd.sha = "new" \/ prAction.stage = "deploy" => prGit.pr = "merged"
  /\ prAction.stage = "done" =>
       /\ prProd.sha = "new"
       /\ IF prAction.touched THEN prWay.health => prProd.healthy ELSE ~prWay.release
  /\ prAction.touched => prAction.undo = Reverts

\* The label holds the action: before the merge is asked for in whatever state the request is.
PrHeld == /\ prGit.held
          /\ \/ prAction.stage = "ci"
             \/ prAction.stage = "merging" /\ prGit.pr = "open"

(* An action that from some time on is neither held by its label nor kept   *)
(* from going on by act() comes to an end: each stage gives up after        *)
(* WAIT_LIMIT, and a stage is never entered twice (_wait and the stages of  *)
(* advance).  While it is held, or act() does not advance it, nothing gives *)
(* up: it may then wait for ever.                                           *)
PrEnds == <>[](prGoes /\ ~PrHeld) => <>(prAction.stage \in PrFinal)
=============================================================================
