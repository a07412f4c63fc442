------------------------- MODULE SecurityWatchTick -------------------------
(***************************************************************************)
(* What one security-watch tick after another knows of the machine         *)
(* (scripts/security_watch/runner.py, scan.py, reach.py): poll the sources, *)
(* inventory the components, scan them for known flaws, judge whether each *)
(* can be reached, rank the findings, remediate.  All that ticks share is  *)
(* in the store; the machine and the sources change at any time and a tick *)
(* can be killed between any two steps.  act() is SecurityWatchAct, the    *)
(* mail SecurityWatchNotify.                                               *)
(***************************************************************************)
EXTENDS Integers, FiniteSets

CONSTANTS
    Part,           \* component ids
    Flaw, About,    \* flaws; About[f] = [part, fix, feed, intel, serious, go]
    Stopgapped,     \* the flaws that the ledger's stopgaps cover
    TopVersion, AGENT_TICK, AGENT_DAY,
    MaxBad          \* bound: deaths, spent budgets, failed queries, bad inventories

ASSUME TickAssumption ==
    /\ {AGENT_TICK, AGENT_DAY, TopVersion, MaxBad} \subseteq Nat /\ Stopgapped \subseteq Flaw
    /\ IsFiniteSet(Flaw) /\ \A f \in Flaw : About[f].part \in Part /\ About[f].fix \in Nat

VARIABLES
    deployed,       \* the version that each component runs
    published,      \* flaws whose advisory the sources serve
    phpLatest,      \* the newest PHP release: php.net lists only that one
    inventory,      \* per component [status, version]; version 0: nothing known
    finding,        \* per flaw [state, version, verdict, urgent]
    judgements,     \* reach cache: <<flaw, version, verdict>>
    scanDue, lastComplete, agentCalls,
    phase, over,    \* where the tick is; its budget is spent
    changed, touched, \* what the tick carries from one phase to the next
    bad

worldVars == <<deployed, published, phpLatest>>
storeVars == <<inventory, finding, judgements, scanDue, lastComplete, agentCalls>>
watchVars == <<worldVars, storeVars, phase, over, changed, touched, bad>>

PartOf == [f \in Flaw |-> About[f].part]
Open == {f \in Flaw : finding[f].state = "open"}
Unseen == [state |-> "none", version |-> 0, verdict |-> "unknown", urgent |-> FALSE]

TickInit ==
    /\ deployed = [p \in Part |-> 1] /\ published = {} /\ phpLatest = 1
    /\ inventory = [p \in Part |-> [status |-> "none", version |-> 0]]
    /\ finding = [f \in Flaw |-> Unseen] /\ judgements = {}
    /\ scanDue = TRUE /\ lastComplete = {} /\ agentCalls = 0
    /\ phase = "idle" /\ over = FALSE /\ changed = FALSE /\ touched = {} /\ bad = 0

(* n more mishaps.                                                            *)
Mishap(happens) == bad' = (IF happens THEN bad + 1 ELSE bad) /\ bad' <= MaxBad

-----------------------------------------------------------------------------
(* Outside the tick.  The machine and the sources change at any time; each    *)
(* change is placed at the phases of a tick that read what it changes.        *)

Deploy(p, v) ==
    /\ phase \in {"inventory", "act"} /\ v # deployed[p]
    /\ deployed' = [deployed EXCEPT ![p] = v]
    /\ UNCHANGED <<published, phpLatest, storeVars, phase, over, changed, touched, bad>>

Publish(f) ==
    /\ phase \in {"scan", "act"} /\ About[f].feed = "osv" /\ f \notin published
    /\ published' = published \cup {f}
    /\ UNCHANGED <<deployed, phpLatest, storeVars, phase, over, changed, touched, bad>>

ReleasePhp ==
    /\ phase \in {"scan", "act"} /\ phpLatest < TopVersion /\ phpLatest' = phpLatest + 1
    /\ UNCHANGED <<deployed, published, storeVars, phase, over, changed, touched, bad>>

HourPasses ==
    /\ ~scanDue /\ scanDue' = TRUE
    /\ UNCHANGED <<worldVars, inventory, finding, judgements, lastComplete, agentCalls, phase, over,
                   changed, touched, bad>>

DayPasses ==
    /\ phase = "reach" /\ agentCalls > 0 /\ agentCalls' = 0
    /\ UNCHANGED <<worldVars, inventory, finding, judgements, scanDue, lastComplete, phase, over,
                   changed, touched, bad>>

-----------------------------------------------------------------------------
(* Sources and inventory                                                     *)

(* A new signal that names a flaw has every component collected; any signal   *)
(* has them scanned.  A source that fails half way hands over what it had.    *)
StartTick ==
    /\ phase = "idle" /\ phase' = "inventory" /\ changed' \in BOOLEAN
    /\ UNCHANGED <<worldVars, storeVars, over, touched, bad>>

Collected(p, status) == [status |-> status, version |-> IF status = "unknown" THEN 0 ELSE deployed[p]]

(* A component is collected when it is due, its fingerprint changed or its    *)
(* inventory was not good at the tick before, a quarter of an hour ago,       *)
(* unless the budget runs out before its turn.                                *)
CollectInventory ==
    /\ phase = "inventory" /\ phase' = "scan" /\ over' \in BOOLEAN
    /\ \E S \in SUBSET Part, status \in {"ok", "partial", "unknown"} :
         /\ \/ over'
            \/ {p \in Part : \/ inventory[p].version # deployed[p]
                             \/ inventory[p].status # "ok"} \subseteq S
         /\ inventory' = [p \in Part |-> IF p \in S THEN Collected(p, status) ELSE inventory[p]]
         /\ Mishap(over' \/ status # "ok")
    /\ changed' = (changed \/ inventory' # inventory)
    /\ UNCHANGED <<worldVars, finding, judgements, scanDue, lastComplete, agentCalls, touched>>

-----------------------------------------------------------------------------
(* Scan                                                                      *)

(* php.net lists the newest release of a branch, tagged or not as a security  *)
(* release; OSV lists every published flaw.                                   *)
Listed(f) ==
    IF About[f].feed = "php" THEN phpLatest = About[f].fix ELSE f \in published
Visible(inv) ==
    {f \in Flaw : /\ Listed(f) /\ inv[PartOf[f]].status \in {"ok", "partial"}
                  /\ inv[PartOf[f]].version < About[f].fix}

(* Mutant: the packages that were read are all there is.                      *)
CompleteIfRead(inv, failed) == {p \in Part : inv[p].status # "unknown" /\ p \notin failed}

(* A component is complete when its inventory is, and no query of it failed   *)
(* or waits for the next tick.                                                *)
Complete(inv, failed) == {p \in Part : inv[p].status = "ok" /\ p \notin failed}

(* upsert_finding keeps the verdict of a finding that was open.               *)
Recorded(f, inv) ==
    [state |-> "open", version |-> inv[PartOf[f]].version, urgent |-> finding[f].urgent,
     verdict |-> finding[f].verdict]
Stored(seen, complete, inv, only) ==
    [f \in Flaw |-> IF PartOf[f] \notin only THEN finding[f]
                    ELSE IF f \in seen THEN Recorded(f, inv)
                    ELSE IF f \in Open /\ PartOf[f] \in complete
                         THEN [Unseen EXCEPT !.state = "fixed"] ELSE finding[f]]

(* What a scan may come back with: all there is for a component whose         *)
(* inventory and queries are good, any part of it for another.                *)
Results(inv, only) ==
    {r \in [seen : SUBSET Visible(inv), failed : SUBSET only] :
       \A f \in Visible(inv) :
         (inv[PartOf[f]].status = "ok" /\ PartOf[f] \notin r.failed) => f \in r.seen}

(* Mutant: nothing is scanned unless something changed.                       *)
NeededIfChanged(change, due) == change
Needed(change, due) == change \/ due

Scan ==
    /\ phase = "scan" /\ phase' = "reach" /\ over' \in {over, TRUE}
    /\ IF Needed(changed, scanDue)
       THEN \E r \in Results(inventory, Part), pending \in BOOLEAN :
              /\ pending => r.failed # {}
              /\ finding' = Stored(r.seen, Complete(inventory, r.failed), inventory, Part)
              /\ touched' = {f \in r.seen : finding'[f] # finding[f]}
              /\ scanDue' = (scanDue /\ pending)
              /\ lastComplete' = Complete(inventory, r.failed)
              /\ Mishap(r.failed # {} \/ over' # over)
       ELSE UNCHANGED <<finding, touched, scanDue, lastComplete>> /\ Mishap(over' # over)
    /\ changed' = FALSE
    /\ UNCHANGED <<worldVars, inventory, judgements, agentCalls>>

-----------------------------------------------------------------------------
(* Reachability                                                              *)

Retried == {f \in Open : finding[f].verdict = "unknown"}
Cached(f) == {j[3] : j \in {i \in judgements : i[1] = f /\ i[2] = inventory[PartOf[f]].version}}
Worthy(f) == About[f].intel \/ About[f].serious

(* govulncheck over every binary of the component: a symbol is proof, a       *)
(* linked module without one is not reachable, a failure is never clean.      *)
GoVerdict(levels) ==
    IF "symbol" \in levels THEN "reachable"
    ELSE IF "failed" \in levels \/ "module" \notin levels THEN "unknown" ELSE "not_reachable"
GoVerdicts == {GoVerdict(l) : l \in SUBSET {"symbol", "module", "none", "failed"}}

(* The agent's answer counts with evidence that its tree holds and a model's  *)
(* judgement of it; every other ending is unknown.                            *)
AgentVerdicts == {"reachable", "not_reachable", "unknown"}

(* Agent calls go by priority: a call is not made while one before it waits.  *)
ByPriority(asked, queue) == \A f \in asked, g \in queue \ asked : About[g].intel => About[f].intel

(* Mutant: a crashed or second tick's calls are not counted for the day.      *)
AffordableThisTick(n) == n <= AGENT_TICK
Affordable(n) == n <= AGENT_TICK /\ agentCalls + n <= AGENT_DAY

Assessments(targets) ==
    LET go == {f \in targets : About[f].go}
        queue == {f \in targets \ go : Worthy(f) /\ Cached(f) = {}}
    IN {a \in [verdict : [targets -> AgentVerdicts], asked : SUBSET queue] :
          /\ Affordable(Cardinality(a.asked)) /\ ByPriority(a.asked, queue)
          /\ \A f \in targets :
               CASE (f \in go \/ Worthy(f)) /\ Cached(f) # {} -> a.verdict[f] \in Cached(f)
                 [] f \in go /\ Cached(f) = {} -> a.verdict[f] \in GoVerdicts
                 [] OTHER -> f \in a.asked \/ a.verdict[f] = "unknown"}

(* What is assessed: what the scan changed and what is still unknown.  A tick *)
(* that dies here has spent its calls; the findings are written at the end.   *)
Assess(targets) ==
    \E a \in Assessments(targets) :
      /\ judgements' = judgements \cup {<<f, inventory[PartOf[f]].version, a.verdict[f]>> :
                                          f \in {g \in targets : a.verdict[g] # "unknown"}}
      /\ agentCalls' = agentCalls + Cardinality(a.asked)
      /\ \/ /\ phase' = "prioritize" /\ bad' = bad
            /\ finding' = [f \in Flaw |-> IF f \in targets
                             THEN [finding[f] EXCEPT !.verdict = a.verdict[f]] ELSE finding[f]]
         \/ phase' = "idle" /\ finding' = finding /\ Mishap(TRUE)

Reach ==
    /\ phase = "reach" /\ touched' = {}
    /\ IF over THEN phase' = "prioritize" /\ UNCHANGED <<judgements, agentCalls, finding, bad>>
       ELSE Assess((touched \cup Retried) \cap Open)
    /\ over' = (over /\ phase' # "idle")
    /\ UNCHANGED <<worldVars, inventory, scanDue, lastComplete, changed>>

-----------------------------------------------------------------------------
(* Priorities and remediation                                                *)

(* A stopgap caps at normal; a judged-reachable flaw is urgent while recent.  *)
Urgent(f, recent) ==
    /\ f \notin Stopgapped
    /\ About[f].intel \/ (finding[f].verdict = "reachable" /\ About[f].serious /\ f \in recent)

Prioritize ==
    /\ phase = "prioritize" /\ phase' = "act"
    /\ \E recent \in SUBSET {f \in Open : About[f].serious} :
         finding' = [f \in Flaw |-> IF f \in Open THEN [finding[f] EXCEPT !.urgent = Urgent(f, recent)]
                                    ELSE finding[f]]
    /\ UNCHANGED <<worldVars, inventory, judgements, scanDue, lastComplete, agentCalls, over, changed,
                   touched, bad>>

(* A playbook that updated a component is verified by a scan of it alone.     *)
ActUpdates(p) ==
    /\ phase = "act" /\ ~over /\ \E f \in Open : PartOf[f] = p
    /\ \E v \in deployed[p]..TopVersion, status \in {"ok", "partial", "unknown"} :
         /\ deployed' = [deployed EXCEPT ![p] = v]
         /\ inventory' = [inventory EXCEPT ![p] =
                            [status |-> status, version |-> IF status = "unknown" THEN 0 ELSE v]]
         /\ \E r \in Results(inventory', {p}) :
              /\ finding' = Stored(r.seen, Complete(inventory', r.failed), inventory', {p})
              /\ lastComplete' = (lastComplete \ {p}) \cup (Complete(inventory', r.failed) \cap {p})
              /\ Mishap(status # "ok" \/ r.failed # {})
    /\ phase' = "idle" /\ over' = FALSE
    /\ UNCHANGED <<published, phpLatest, judgements, scanDue, agentCalls, changed, touched>>

TickEnds ==
    /\ phase = "act" /\ phase' = "idle" /\ over' = FALSE
    /\ UNCHANGED <<worldVars, storeVars, changed, touched, bad>>

TickDies ==
    /\ phase # "idle" /\ Mishap(TRUE)
    /\ phase' = "idle" /\ over' = FALSE /\ changed' = FALSE /\ touched' = {}
    /\ UNCHANGED <<worldVars, storeVars>>

TickStep ==
    \/ CollectInventory \/ Scan \/ Reach \/ Prioritize \/ TickEnds \/ \E p \in Part : ActUpdates(p)
TickNext ==
    \/ StartTick \/ TickStep \/ TickDies \/ HourPasses \/ DayPasses \/ ReleasePhp
    \/ \E p \in Part, v \in 1..TopVersion : Deploy(p, v)
    \/ \E f \in Flaw : Publish(f)

TickSpec == TickInit /\ [][TickNext]_watchVars

(* The timer starts ticks, a tick's phases go on and hours pass.              *)
TickFairness ==
    WF_watchVars(StartTick) /\ WF_watchVars(TickStep) /\ WF_watchVars(HourPasses)

-----------------------------------------------------------------------------
(* Properties                                                                *)

(* The type invariant of the tick and the findings.                           *)
TickTypeOK ==
    /\ phase \in {"idle", "inventory", "scan", "reach", "prioritize", "act"}
    /\ deployed \in [Part -> Nat]
    /\ inventory \in [Part -> [status : {"none", "ok", "partial", "unknown"}, version : Nat]]
    /\ finding \in [Flaw -> [state : {"none", "open", "fixed"}, version : Nat,
                             urgent : BOOLEAN, verdict : AgentVerdicts]]
    /\ lastComplete \subseteq Part /\ bad \in 0..MaxBad
    /\ agentCalls \in 0..AGENT_DAY

(* An open finding of an advisory is of one that was published, so that only  *)
(* its version can hide it.                                                    *)
OpenIsPublished ==
    \A f \in Flaw : About[f].feed = "osv" /\ finding[f].state = "open" => f \in published

(* An advisory's finding is closed only when a complete inventory shows a     *)
(* version with the fix: no failed query, partial inventory or cut-off scan   *)
(* closes one (store.py close_missing_findings, scan.py).                     *)
ClosedWhenGone ==
  [][\A f \in Flaw :
       About[f].feed = "osv" /\ finding[f].state = "open" /\ finding'[f].state = "fixed" =>
         /\ inventory'[PartOf[f]].status = "ok"
         /\ inventory'[PartOf[f]].version >= About[f].fix]_watchVars

(* A published flaw of what is deployed becomes a finding, although a tick    *)
(* can die after it stored the inventory and before the scan, so that no      *)
(* later tick sees a change (runner.py:250).                                  *)
FlawIsFound ==
    \A f \in Flaw :
      (About[f].feed = "osv" /\ f \in published /\ deployed[PartOf[f]] < About[f].fix)
        ~> (f \in Open \/ deployed[PartOf[f]] >= About[f].fix)
=============================================================================
