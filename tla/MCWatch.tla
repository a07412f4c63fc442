------------------------------ MODULE MCWatch ------------------------------
(* What surrounds security-watch's act(): the tick that finds flaws, its mail, *)
(* the pull request of a repository and the playbooks that change this host.   *)
(* They share no state here: `machine' says which one moves, and only its      *)
(* fairness counts.  `asked' is an input of the pull request's plan.           *)
EXTENDS SecurityWatchTick, SecurityWatchNotify, RepoPr, OpsPlaybooks

VARIABLES machine, asked
mcVars == <<machine, asked, watchVars, notifyVars, prVars, opsVars>>
Machines == {"tick", "notify", "pr", "ops", "plan"}

MCAbout ==
    [gomod |-> [part |-> "app", fix |-> 2, feed |-> "osv", intel |-> FALSE, serious |-> TRUE, go |-> TRUE],
     php   |-> [part |-> "app", fix |-> 2, feed |-> "php", intel |-> TRUE, serious |-> FALSE, go |-> FALSE]]

PlanVersions == [line : 1..2, patch : 1..2]
Asked ==
    LET F == [kind : {"go-stdlib", "pip"}, fixed : SUBSET PlanVersions \ {{}},
              version : {[line |-> 1, patch |-> 1]}]
        S == [container : {TRUE, FALSE}, dockerfile : {FALSE}, owned : {{}, {"pip"}},
              edits : {{"go-builder", "go-toolchain", "pip-pin"}}]
        Repo == [current : PlanVersions, tags : {PlanVersions}]
    IN [findings : {<<f>> : f \in F} \cup (F \X F), spec : S, repo : Repo]
Unasked == [findings |-> <<>>, spec |-> CHOOSE s \in {a.spec : a \in Asked} : TRUE,
            repo |-> [current |-> [line |-> 1, patch |-> 1], tags |-> {}]]

WatchInit ==
    /\ machine \in Machines
    /\ TickInit /\ NotifyInit /\ PrInit /\ OpsInit
    /\ machine # "pr" => prWay = [auto |-> FALSE, release |-> FALSE, health |-> FALSE]
    /\ machine # "ops" => opsPlan = [playbook |-> "apt-security", fixes |-> FALSE, transactional |-> FALSE]
    /\ asked \in IF machine = "plan" THEN Asked ELSE {Unasked}

WatchNext ==
    /\ UNCHANGED <<machine, asked>>
    /\ \/ machine = "tick" /\ TickNext /\ UNCHANGED <<notifyVars, prVars, opsVars>>
       \/ machine = "notify" /\ NotifyNext /\ UNCHANGED <<watchVars, prVars, opsVars>>
       \/ machine = "pr" /\ PrNext /\ UNCHANGED <<watchVars, notifyVars, opsVars>>
       \/ machine = "ops" /\ OpsNext /\ UNCHANGED <<watchVars, notifyVars, prVars>>

(* TickFairness, NotifyFairness and PrFairness, each of the one that moves.   *)
WatchFairness ==
    /\ WF_watchVars(machine = "tick" /\ StartTick)
    /\ WF_watchVars(machine = "tick" /\ TickStep)
    /\ WF_watchVars(machine = "tick" /\ HourPasses)
    /\ WF_notifyVars(machine = "notify" /\ NotifyStep)
    /\ WF_notifyVars(machine = "notify" /\ MailDayPasses)
    /\ WF_prMoves(machine = "pr" /\ OpenPr)
    /\ WF_prMoves(machine = "pr" /\ Look)
    /\ WF_prMoves(machine = "pr" /\ PrClock)
    /\ SF_prMoves(machine = "pr" /\ AdvanceCi)
    /\ SF_prMoves(machine = "pr" /\ AdvanceMerging)
    /\ SF_prMoves(machine = "pr" /\ AdvanceDeploy)

WatchSpec == WatchInit /\ [][WatchNext]_mcVars /\ WatchFairness

-----------------------------------------------------------------------------
(* What each part of security-watch keeps has its type, and an open finding   *)
(* of an advisory is of one that was published; and with it what holds in     *)
(* between: mails are counted, looks hold, and steps are of their playbook.    *)
TypesOK ==
    /\ TickTypeOK /\ OpenIsPublished
    /\ NotifyTypeOK /\ MailsCounted
    /\ PrTypeOK /\ LookHolds
    /\ OpsTypeOK /\ StepOfPlaybook

(* What security-watch reports is so: a mail for what is recorded as mailed,  *)
(* a vetted commit behind its merge, a deployment behind `done', a fix or an  *)
(* undo behind every outcome, and a planned Go release that clears the        *)
(* findings it is planned for.                                                 *)
WatchTellsTruth ==
    /\ MailedOnce
    /\ MergeIsVetted /\ DoneIsDeployed
    /\ OutcomeTrue /\ UndoAtHand
    /\ StdlibPlanClears(asked.findings, asked.spec, asked.repo)

(* What is published of a deployed component is found, what is urgent is      *)
(* mailed, and a pull request that is neither held nor kept back comes to an   *)
(* end, whichever of them moves.                                               *)
WatchLiveness ==
    /\ machine = "tick" => FlawIsFound
    /\ machine = "notify" => UrgentIsMailed
    /\ machine = "pr" => PrEnds
=============================================================================
