------------------------------ MODULE AppDeploy ------------------------------
(***************************************************************************)
(* How a night's run brings an own service to origin/main                  *)
(* (steward/updates.py _p1_dependabot_merge, _p1_app_deploy): Dependabot's *)
(* pull requests are queued for auto-merge, then the service is deployed   *)
(* to the newest commit whose checks are green.  GitHub merges, cancels    *)
(* and concludes checks at any time, people push and force-push, and the   *)
(* steward may be killed between any two steps.  The deploy script's own   *)
(* work is external: it moves production, or rolls back, or fails to.      *)
(***************************************************************************)
EXTENDS Naturals, FiniteSets, Sequences

CONSTANTS
    MaxHistory,     \* bound: commits of the service
    MaxDeploys,     \* bound: deploy steps begun
    Rechecks        \* CI_CHECK_RECHECKS, as the bound of one step's waiting

ASSUME AppDeployAssumption == MaxHistory \in Nat \ {0} /\ MaxDeploys \in Nat /\ Rechecks \in Nat

VARIABLES
    parent,     \* the commits of the service: commit c's parent
    ci,         \* their checks on GitHub
    upstream,   \* origin/main on GitHub
    canonical,  \* HEAD of the canonical checkout
    production, \* the deployed commit
    bumps,      \* Dependabot's pull requests, by the state of each
    phase,      \* where the steward is
    held,       \* what the step holds in memory
    result,     \* the packet of the last step
    handed,     \* commits ever handed to the deploy script
    deploys

deployVars == <<parent, ci, upstream, canonical, production, bumps, phase, held, result, handed, deploys>>

Verdicts == {"none", "pending", "cancelled", "green", "red"}
Bumps == [kind : {"owned", "draft", "unreadable", "major", "minor"}, checks : {"green", "bad"},
          mergeable : {"MERGEABLE", "CONFLICTING"}]
PullRequest == 1..1
DeployPhases == {"idle", "merging", "resolve", "gate", "wait", "supersede", "forward", "deploy"}
NothingHeld == [pre |-> 0, target |-> 0, over |-> {}, tries |-> 0, recent |-> FALSE]

Ancestry(c) == LET up[i \in 0..c] == IF i = 0 THEN {} ELSE {i} \cup up[parent[i]] IN up[c]
Descends(c, from) == from \in Ancestry(c)

DeployInit ==
    /\ parent = <<0>> /\ ci = <<"green">>
    /\ upstream = 1 /\ canonical = 1 /\ production = 1
    /\ bumps \in [PullRequest -> [state : {"open"}, pr : Bumps]]
    /\ phase = "idle" /\ held = NothingHeld
    /\ result = [status |-> "none", pre |-> 1, target |-> 1]
    /\ handed = {} /\ deploys = 0

GitHub == <<parent, ci, upstream>>
Says(s) == /\ result' = [status |-> s, pre |-> held.pre, target |-> held.target]
           /\ phase' = "idle" /\ held' = NothingHeld
Moves(p) == phase' = p /\ UNCHANGED <<held, result>>

-----------------------------------------------------------------------------
(* GitHub, and people                                                        *)

(* A push cancels checks that are under way on the commit it supersedes.    *)
PushedOn(base) ==
    /\ Len(parent) < MaxHistory
    /\ parent' = Append(parent, base)
    /\ ci' = Append([c \in DOMAIN ci |-> IF ci[c] \in {"none", "pending"} /\ c = upstream THEN "cancelled" ELSE ci[c]], "none")
    /\ upstream' = Len(parent')

PushCommit(base) ==
    /\ base \in Ancestry(upstream)      \* another base than the tip: a force-push
    /\ PushedOn(base)
    /\ UNCHANGED <<canonical, production, bumps, phase, held, result, handed, deploys>>

Checks(c, v) ==
    /\ \/ ci[c] = "none" /\ v = "pending"
       \/ ci[c] \in {"none", "pending"} /\ v \in {"green", "red"}
    /\ ci' = [ci EXCEPT ![c] = v]
    /\ UNCHANGED <<parent, upstream, canonical, production, bumps, phase, held, result, handed, deploys>>

AutoMerge(p) ==
    /\ bumps[p].state = "queued"
    /\ PushedOn(upstream)
    /\ bumps' = [bumps EXCEPT ![p].state = "merged"]
    /\ UNCHANGED <<canonical, production, phase, held, result, handed, deploys>>

-----------------------------------------------------------------------------
(* _p1_dependabot_merge                                                      *)

DispositionOfAll(pr) ==
    IF pr.kind \in {"owned", "draft", "unreadable"} \/ pr.checks # "green" \/ pr.mergeable # "MERGEABLE"
    THEN "skipped" ELSE "queue"

(* What becomes of one listed pull request.                                  *)
Disposition(pr) ==
    IF pr.kind = "major" THEN "needs_carter"
    ELSE IF pr.kind \in {"owned", "draft", "unreadable"} \/ pr.checks # "green" \/ pr.mergeable # "MERGEABLE"
    THEN "skipped" ELSE "queue"

StartRun ==
    /\ phase = "idle" /\ deploys < MaxDeploys
    /\ deploys' = deploys + 1
    /\ phase' = "merging" /\ result' = [result EXCEPT !.status = "none"]
    /\ UNCHANGED <<GitHub, canonical, production, bumps, held, handed>>

(* Each eligible one is queued; the repository may be ineligible, and the    *)
(* request may fail.                                                          *)
QueueBumps ==
    /\ phase = "merging"
    /\ \E S \in SUBSET {p \in PullRequest : bumps[p].state = "open" /\ Disposition(bumps[p].pr) = "queue"} :
         bumps' = [p \in PullRequest |-> IF p \in S THEN [bumps[p] EXCEPT !.state = "queued"] ELSE bumps[p]]
    /\ Moves("resolve")
    /\ UNCHANGED <<GitHub, canonical, production, handed, deploys>>

-----------------------------------------------------------------------------
(* _p1_app_deploy                                                            *)

(* The deployed commit and the fetched target; unreadable, unfetched,        *)
(* current, not on main, or dirty is a skip.                                 *)
Resolve ==
    /\ phase = "resolve"
    /\ \/ Says("skipped")
       \/ /\ production # upstream
          /\ held' = [NothingHeld EXCEPT !.pre = production, !.target = upstream, !.recent = TRUE]
          /\ phase' = "gate" /\ UNCHANGED result
       \/ /\ production # upstream
          /\ held' = [NothingHeld EXCEPT !.pre = production, !.target = upstream]
          /\ phase' = "gate" /\ UNCHANGED result
    /\ UNCHANGED <<GitHub, canonical, production, bumps, handed, deploys>>

AncestryGate(sha) == Descends(sha, canonical) /\ Descends(sha, held.pre)

CiGreenIfNone(sha, allowPending) ==
    IF ci[sha] \in {"green", "none"} THEN "green"
    ELSE IF allowPending /\ ci[sha] \in {"pending", "cancelled"} THEN "pending"
    ELSE "red"

(* _ci_green: a verdict, or none yet while that is allowed.                  *)
CiGreen(sha, allowPending) ==
    IF ci[sha] = "green" THEN "green"
    ELSE IF allowPending /\ ci[sha] \in {"none", "pending", "cancelled"} THEN "pending"
    ELSE "red"

FirstVerdict ==
    /\ phase = "gate"
    /\ IF ~AncestryGate(held.target) THEN Says("skipped")
       ELSE LET v == CiGreen(held.target, held.recent) IN
            CASE v = "green"   -> Moves("forward")
              [] v = "red"     -> Says("skipped")
              [] v = "pending" -> Moves("wait")
    /\ UNCHANGED <<GitHub, canonical, production, bumps, handed, deploys>>

(* A verdict on the target itself ends the wait; a lookup that fails is red. *)
ReadAgain ==
    /\ phase = "wait"
    /\ LET v == CiGreen(held.target, TRUE) IN
       \/ Says("skipped")
       \/ /\ held.tries < Rechecks /\ v = "green" /\ Moves("forward")
       \/ /\ held.tries < Rechecks /\ v = "pending"
          /\ phase' = "supersede" /\ held' = [held EXCEPT !.tries = @ + 1] /\ UNCHANGED result
    /\ UNCHANGED <<GitHub, canonical, production, bumps, handed, deploys>>

(* newer_descendant *)
Supersede ==
    /\ phase = "supersede"
    /\ LET newer == upstream IN
       \/ Moves("wait")        \* the fetch failed, or nothing newer
       \/ /\ newer # held.target /\ Descends(newer, held.target)
          /\ IF ~AncestryGate(newer) THEN Says("skipped")
             ELSE /\ held' = [held EXCEPT !.target = newer, !.over = @ \cup {held.target}]
                  /\ UNCHANGED result
                  /\ phase' = CASE CiGreen(newer, TRUE) = "green" -> "forward" [] OTHER -> "wait"
    /\ UNCHANGED <<GitHub, canonical, production, bumps, handed, deploys>>

(* The exact commit that was verified: origin/main may have moved since.     *)
FastForwardCanonical ==
    /\ phase = "forward"
    /\ \/ /\ Descends(held.target, canonical)
          /\ canonical' = held.target
          /\ handed' = handed \cup {held.target}
          /\ Moves("deploy")
       \/ Says("skipped") /\ UNCHANGED <<canonical, handed>>
    /\ UNCHANGED <<GitHub, production, bumps, deploys>>

(* deploy.sh exits 0 with the checkout deployed, or with an origin/main that *)
(* has moved on; or it fails, and rolls back, or does not.                    *)
Deploy ==
    /\ phase = "deploy"
    /\ \/ /\ production' = canonical \/ (Descends(upstream, held.pre) /\ production' = upstream)
          /\ \E readable \in BOOLEAN : Says(IF readable /\ production' = held.target THEN "ok" ELSE "failed")
       \/ production' = held.pre /\ \E readable \in BOOLEAN : Says(IF readable THEN "rolled_back" ELSE "failed")
       \/ production' = held.target /\ held.target # held.pre /\ Says("failed")
    /\ UNCHANGED <<GitHub, canonical, bumps, handed, deploys>>

DeployKilled ==
    /\ phase # "idle"
    /\ phase' = "idle" /\ held' = NothingHeld /\ result' = [result EXCEPT !.status = "none"]
    /\ production' \in {production} \cup IF phase = "deploy" THEN {held.target} ELSE {}
    /\ UNCHANGED <<GitHub, canonical, bumps, handed, deploys>>

DeployNext ==
    \/ \E c \in DOMAIN parent : PushCommit(c)
    \/ \E c \in DOMAIN parent, v \in Verdicts : Checks(c, v)
    \/ \E p \in PullRequest : AutoMerge(p)
    \/ StartRun \/ QueueBumps \/ Resolve \/ FirstVerdict \/ ReadAgain \/ Supersede
    \/ FastForwardCanonical \/ Deploy \/ DeployKilled

DeploySpec == DeployInit /\ [][DeployNext]_deployVars

-----------------------------------------------------------------------------
(* The type invariant of the deployments: a commit's parent is older than it. *)
DeployTypeOK ==
    /\ parent \in Seq(0..MaxHistory) /\ Len(parent) <= MaxHistory /\ \A c \in DOMAIN parent : parent[c] < c
    /\ ci \in Seq(Verdicts) /\ Len(ci) = Len(parent)
    /\ upstream \in DOMAIN parent /\ canonical \in DOMAIN parent /\ production \in DOMAIN parent
    /\ bumps \in [PullRequest -> [state : {"open", "queued", "merged"}, pr : Bumps]]
    /\ phase \in DeployPhases /\ handed \subseteq DOMAIN parent /\ deploys \in Nat
    /\ held \in [pre : {0} \cup DOMAIN parent, target : {0} \cup DOMAIN parent, over : SUBSET DOMAIN parent,
                 tries : Nat, recent : BOOLEAN]
    /\ result \in [status : {"none", "skipped", "ok", "rolled_back", "failed"}, pre : {0} \cup DOMAIN parent,
                   target : {0} \cup DOMAIN parent]

(* While a target is held production stays where it was read; past the gate  *)
(* the target is on that line, and what is about to be handed over is green.  *)
TargetSound ==
    /\ phase \in {"gate", "wait", "supersede", "forward", "deploy"} => held.pre = production /\ held.target # 0
    /\ phase \in {"wait", "supersede", "forward", "deploy"} => Descends(held.target, held.pre)
    /\ phase = "forward" => ci[held.target] = "green"

(* "the exact commit verified above": what is handed to a deploy script has  *)
(* green checks of its own, however the target was superseded while it        *)
(* waited, and production never leaves the line it was on.                    *)
OnlyGreenDeployed == \A c \in handed : ci[c] = "green"
ProductionMovesForward == [][result'.status = "ok" => Descends(production', production)]_deployVars

(* The packet tells where production is.                                     *)
DeployReported ==
    phase = "idle" => CASE result.status = "ok" -> production = result.target
                        [] result.status = "rolled_back" -> production = result.pre
                        [] OTHER -> TRUE

(* A major update is never merged without the operator.                      *)
NoMajorMerged == \A p \in PullRequest : bumps[p].pr.kind = "major" => bumps[p].state = "open"
=============================================================================
