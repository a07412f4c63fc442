-------------------------- MODULE SecurityWatchAct --------------------------
(***************************************************************************)
(* The remediation gatekeeper of security-watch (security_watch/act.py)    *)
(* with the part of its store that it decides from: the journal of         *)
(* actions and the breaker (security_watch/store.py).                      *)
(*                                                                         *)
(* A tick holds tick.lock, so ticks do not overlap; what interleaves with  *)
(* it is its own death -- systemd's hard stop, a reboot -- between any two *)
(* commits, and an operator's `breaker-reset`, which takes no lock.        *)
(*                                                                         *)
(* All times a tick writes or compares are the time it started at.  The    *)
(* order in which groups are considered is their rank, here any order.     *)
(* What a refused or deferred group leaves behind -- a log entry, an alert *)
(* -- and what a proposal in shadow mode does -- a row of mode "shadow",   *)
(* which only keeps itself from being repeated -- no gate reads, so that   *)
(* neither is a step of the model.  The gates it does not have (registry,  *)
(* plan, two sources, the second look at the steward) may refuse any       *)
(* group at any time.                                                      *)
(***************************************************************************)
EXTENDS Naturals, Sequences, FiniteSets

CONSTANTS
  Component,
  Group,            \* <<component, playbook>>: what findings are grouped by
  MultiTick,        \* playbooks that have multi_tick
  Day,              \* 24 hours
  Cooldown,         \* component_cooldown_hours
  Budget,           \* tick_budget_seconds
  MaxPerDay,        \* max_actions_per_day
  MaxTime           \* bound: the last time a tick starts at

ASSUME GroupAssumption == \A g \in Group : g[1] \in Component
ASSUME TimesAssumption ==
  {Day, Cooldown, Budget, MaxPerDay, MaxTime} \subseteq Nat

VARIABLES
  now,         \* the start of the current or last tick
  mode,        \* policy.mode, as this tick loaded it
  steward,     \* steward_active(), as this tick read it
  pc,          \* where the tick is in act()
  work,        \* ids of active_actions() that _advance has yet to look at
  seenOpen,    \* _advance's copy of the breaker
  cur,         \* id of the action whose playbook or settlement is under way
  journal,     \* the active rows of the actions table, by id
  breaker,     \* whether the breaker is open
  alarm,       \* history: a bad outcome was journaled since the last reset
  lost         \* history: a tick died between such an outcome and the trip

tickVars == <<mode, steward, work, seenOpen>>
vars == <<now, tickVars, pc, cur, journal, breaker, alarm, lost>>

Statuses == {"running", "pending", "ended", "refused"}

Playbooks == {g[2] : g \in Group}

ActionRow == [component : Component, playbook : Playbooks,
              status : Statuses, started : Nat, updated : Nat]

Ids == 1..Len(journal)

Executions ==
  {i \in Ids : journal[i].status # "refused"}

ActiveActions ==
  {i \in Ids : journal[i].status \in {"running", "pending"}}

(* started_at >= since, without negative times.                            *)
Since(t, window) == t + window >= now

(* What journaling an outcome leads to: the status, and whether it trips.  *)
(* "ended" stands for verified, unverified, failed and rolled_back, which  *)
(* no gate tells apart; it trips for unverified -- the rescan, which comes *)
(* first, finds the finding still open, or fails -- and for failed or      *)
(* rolled_back with production touched or not known to be untouched.       *)
Verdicts == {[status |-> "ended", trip |-> FALSE], [status |-> "ended", trip |-> TRUE],
             [status |-> "pending", trip |-> FALSE]}

Interrupted == [status |-> "ended", trip |-> TRUE]

(* Where a tick is between journaling such an outcome and the trip, by     *)
(* where it goes on after that.                                            *)
TripThen == [advance |-> "trip, advance", advanced |-> "trip, advanced",
             gate |-> "trip, gate"]

Tripping == pc \in {"trip, advance", "trip, advanced", "trip, gate"}

Init ==
  /\ now = 0
  /\ mode = "shadow" /\ steward = FALSE
  /\ pc = "idle" /\ work = {} /\ seenOpen = FALSE /\ cur = 0
  /\ journal = <<>>
  /\ breaker = FALSE
  /\ alarm = FALSE /\ lost = FALSE

(* run_tick reaches the act phase; act() calls _advance first.  A longer   *)
(* pause between two ticks is a tick that dies at once.                    *)
StartAct ==
  /\ pc = "idle"
  /\ now < MaxTime
  /\ now' = now + 1
  /\ mode' \in {"active", "shadow"}
  /\ steward' \in BOOLEAN
  /\ work' = ActiveActions
  /\ seenOpen' = breaker
  /\ pc' = "advance"
  /\ UNCHANGED <<cur, journal, breaker, alarm, lost>>

-----------------------------------------------------------------------------
(* _settle: update_action commits the status, then trip_breaker commits    *)
(* the breaker.  resume says where the tick goes on after that.            *)
Journal(id, status) ==
  journal' = [journal EXCEPT ![id].status = status, ![id].updated = now]

SettleSilently(id, verdict, resume) ==
  /\ Journal(id, verdict.status)
  /\ pc' = resume
  /\ alarm' = (alarm \/ verdict.trip)
  /\ cur' = 0

Settle(id, verdict, resume) ==
  /\ Journal(id, verdict.status)
  /\ IF verdict.trip THEN pc' = TripThen[resume] ELSE pc' = resume
  /\ alarm' = (alarm \/ verdict.trip)
  /\ cur' = 0

Trip(resume) ==
  /\ pc = TripThen[resume]
  /\ breaker' = TRUE
  /\ pc' = resume
  /\ UNCHANGED <<now, tickVars, cur, journal, alarm, lost>>

-----------------------------------------------------------------------------
(* _advance looks at the active actions in the order of their ids.         *)
First(id) == id \in work /\ \A j \in work : id <= j

StaleIfPending(id) ==
  journal[id].status = "pending" /\ journal[id].playbook \notin MultiTick

(* A running row from an earlier tick: its apply was interrupted.  A       *)
(* younger one is left alone.  A pending row without a multi-tick playbook *)
(* is failed like an interrupted one.                                      *)
Stale(id) ==
  \/ journal[id].status = "running" /\ ~(journal[id].updated + Budget > now)
  \/ journal[id].status = "pending" /\ journal[id].playbook \notin MultiTick

SettleStale(id) ==
  /\ pc = "advance"
  /\ First(id)
  /\ Stale(id)
  /\ work' = work \ {id}
  /\ Settle(id, Interrupted, "advance")
  /\ UNCHANGED <<now, mode, steward, seenOpen, breaker, lost>>

MayAdvance(id) ==
  /\ journal[id].status = "pending"
  /\ journal[id].playbook \in MultiTick
  /\ mode = "active" /\ ~seenOpen /\ ~steward

Leave(id) ==
  /\ pc = "advance"
  /\ First(id)
  /\ ~Stale(id)
  /\ ~MayAdvance(id)
  /\ work' = work \ {id}
  /\ UNCHANGED <<now, mode, steward, pc, seenOpen, cur, journal, breaker,
                 alarm, lost>>

AdvancePlaybook(id) ==
  /\ pc = "advance"
  /\ First(id)
  /\ MayAdvance(id)
  /\ work' = work \ {id}
  /\ cur' = id
  /\ pc' = "advancing"
  /\ UNCHANGED <<now, mode, steward, seenOpen, journal, breaker, alarm, lost>>

(* The steward unit was active after all, or the playbook refused: the     *)
(* action stays pending for the next tick.                                 *)
AdvanceRefused ==
  /\ pc = "advancing"
  /\ pc' = "advance"
  /\ cur' = 0
  /\ UNCHANGED <<now, tickVars, journal, breaker, alarm, lost>>

AdvanceEnds ==
  /\ pc = "advancing"
  /\ \E v \in Verdicts : Settle(cur, v, "advanced")
  /\ UNCHANGED <<now, tickVars, breaker, lost>>

(* Only a settlement after playbook.advance reads the breaker again.       *)
RereadBreaker ==
  /\ pc = "advanced"
  /\ seenOpen' = breaker
  /\ pc' = "advance"
  /\ UNCHANGED <<now, mode, steward, work, cur, journal, breaker, alarm, lost>>

AdvanceDone ==
  /\ pc = "advance"
  /\ work = {}
  /\ pc' = "gate"
  /\ UNCHANGED <<now, tickVars, cur, journal, breaker, alarm, lost>>

-----------------------------------------------------------------------------
(* The gates of act() for a group of fixable findings, which it considers  *)
(* once in a tick.                                                         *)
Considered(g) ==
  /\ pc = "gate"
  /\ \A i \in Ids :
       journal[i].started = now => <<journal[i].component, journal[i].playbook>> # g

ExecutedSince == {i \in Executions : Since(journal[i].started, Day)}

Cooling(c) ==
  {i \in Executions : journal[i].component = c
                      /\ journal[i].updated + Cooldown > now}

InProgress(c) == {i \in ActiveActions : journal[i].component = c}

ThisTick == {i \in Executions : journal[i].started = now}

StartAction(g) ==
  /\ journal' = Append(journal, [component |-> g[1], playbook |-> g[2],
                                 status |-> "running", started |-> now, updated |-> now])
  /\ cur' = Len(journal) + 1
  /\ pc' = "applying"
  /\ UNCHANGED <<now, mode, steward, work, seenOpen, breaker, alarm, lost>>

ExecuteUncapped(g) ==
  /\ Considered(g)
  /\ ~breaker /\ ~steward /\ mode = "active"
  /\ Cooling(g[1]) = {}
  /\ InProgress(g[1]) = {}
  /\ ThisTick = {}
  /\ StartAction(g)

ExecuteTwice(g) ==
  /\ Considered(g)
  /\ ~breaker /\ ~steward /\ mode = "active"
  /\ Cardinality(ExecutedSince) < MaxPerDay
  /\ Cooling(g[1]) = {}
  /\ InProgress(g[1]) = {}
  /\ StartAction(g)

ExecuteWhileInProgress(g) ==
  /\ Considered(g)
  /\ ~breaker /\ ~steward /\ mode = "active"
  /\ Cardinality(ExecutedSince) < MaxPerDay
  /\ Cooling(g[1]) = {}
  /\ ThisTick = {}
  /\ StartAction(g)

ExecuteUncooled(g) ==
  /\ Considered(g)
  /\ ~breaker /\ ~steward /\ mode = "active"
  /\ Cardinality(ExecutedSince) < MaxPerDay
  /\ InProgress(g[1]) = {}
  /\ ThisTick = {}
  /\ StartAction(g)

ExecuteWhileOpen(g) ==
  /\ Considered(g)
  /\ ~steward /\ mode = "active"
  /\ Cardinality(ExecutedSince) < MaxPerDay
  /\ Cooling(g[1]) = {}
  /\ InProgress(g[1]) = {}
  /\ ThisTick = {}
  /\ StartAction(g)

(* All gates open: the row is journaled as running before apply() runs.    *)
Execute(g) ==
  /\ Considered(g)
  /\ ~breaker /\ ~steward /\ mode = "active"
  /\ Cardinality(ExecutedSince) < MaxPerDay
  /\ Cooling(g[1]) = {}
  /\ InProgress(g[1]) = {}
  /\ ThisTick = {}
  /\ StartAction(g)

ApplyRefused ==
  /\ pc = "applying"
  /\ Journal(cur, "refused")
  /\ cur' = 0
  /\ pc' = "gate"
  /\ UNCHANGED <<now, tickVars, breaker, alarm, lost>>

ApplyEnds ==
  /\ pc = "applying"
  /\ \E v \in Verdicts : Settle(cur, v, "gate")
  /\ UNCHANGED <<now, tickVars, breaker, lost>>

(* The tick's memory is gone.                                              *)
Forget ==
  /\ pc' = "idle"
  /\ mode' = "shadow" /\ steward' = FALSE
  /\ work' = {} /\ seenOpen' = FALSE /\ cur' = 0

ActReturns ==
  /\ pc = "gate"
  /\ Forget
  /\ UNCHANGED <<now, journal, breaker, alarm, lost>>

-----------------------------------------------------------------------------
(* The tick's process dies; every commit made so far stays.                *)
Die ==
  /\ pc # "idle"
  /\ Forget
  /\ lost' = (lost \/ Tripping)
  /\ UNCHANGED <<now, journal, breaker, alarm>>

(* breaker-reset, at any time.                                             *)
ResetBreaker ==
  /\ breaker' = FALSE
  /\ alarm' = FALSE /\ lost' = FALSE
  /\ UNCHANGED <<now, tickVars, pc, cur, journal>>

Next ==
  \/ StartAct
  \/ \E id \in Ids : SettleStale(id) \/ Leave(id) \/ AdvancePlaybook(id)
  \/ AdvanceRefused \/ AdvanceEnds \/ RereadBreaker \/ AdvanceDone
  \/ \E g \in Group : Execute(g)
  \/ ApplyRefused \/ ApplyEnds \/ ActReturns
  \/ Trip("advance") \/ Trip("advanced") \/ Trip("gate")
  \/ Die \/ ResetBreaker

Spec == Init /\ [][Next]_vars

-----------------------------------------------------------------------------
(* Properties *)

(* The type invariant of the journal, the breaker and the tick.               *)
TypeOK ==
  /\ now \in Nat
  /\ mode \in {"active", "shadow"} /\ steward \in BOOLEAN
  /\ pc \in {"idle", "advance", "advancing", "advanced", "gate", "applying",
             "trip, advance", "trip, advanced", "trip, gate"}
  /\ journal \in Seq(ActionRow)
  /\ work \subseteq Ids
  /\ cur \in Ids \cup {0}
  /\ seenOpen \in BOOLEAN /\ breaker \in BOOLEAN
  /\ alarm \in BOOLEAN /\ lost \in BOOLEAN

(* In any 24 hours at most MaxPerDay actions are executed, whatever ticks  *)
(* died and whatever became of their actions.                              *)
DailyCap ==
  \A i \in Executions :
    Cardinality({j \in Executions : /\ journal[j].started <= journal[i].started
                                    /\ journal[j].started + Day >= journal[i].started})
      <= MaxPerDay

(* A tick executes at most one new action.                                 *)
OnePerTick ==
  \A i, j \in Executions : journal[i].started = journal[j].started => i = j

(* A component is left alone for the cooldown after the last thing that    *)
(* happened to its previous action -- its end, or its settlement by a      *)
(* later tick.                                                             *)
CooldownRespected ==
  \A i, j \in Executions :
    /\ i < j
    /\ journal[i].component = journal[j].component
    => journal[i].updated + Cooldown <= journal[j].started

(* No component has two actions under way.                                 *)
OneActionPerComponent ==
  \A i, j \in ActiveActions :
    journal[i].component = journal[j].component => i = j

(* An interrupted action is settled before anything new is executed: after *)
(* _advance, a running row is the current one or younger than the budget.  *)
InterruptedSettled ==
  pc \in {"gate", "applying"} =>
    \A i \in Ids :
      (journal[i].status = "running" /\ i # cur) => journal[i].updated + Budget > now

(* After a bad outcome nothing new is executed until an operator resets    *)
(* the breaker -- unless the tick died before it had tripped it.           *)
BadOutcomeStopsNew == pc = "applying" => ~alarm \/ lost

(* A bad outcome opens the breaker, unless the tick died in between.       *)
BadOutcomeTrips == alarm /\ ~lost /\ ~Tripping => breaker

(* "breaker open -> refuse all": no playbook at all runs while it is open. *)
NoPlaybookWhileOpen == pc \in {"applying", "advancing"} => ~breaker

(* "apply -> journal -> verify -> breaker on failure": a bad outcome that  *)
(* is journaled opens the breaker.                                         *)
EveryBadOutcomeTrips == alarm /\ ~Tripping => breaker

(* The strengthening the proofs use: the journal is in the order of time,  *)
(* and a row that has a later execution on its component is settled.       *)
JournalOK ==
  /\ \A i \in Ids : journal[i].started <= journal[i].updated
                     /\ journal[i].updated <= now
  /\ \A i, j \in Ids : i < j => journal[i].started <= journal[j].started
  /\ \A i, j \in Executions :
       i < j /\ journal[i].component = journal[j].component =>
         i \notin ActiveActions

(* What each point of act() knows of the row under way and of the rows it  *)
(* has yet to look at.                                                     *)
CurOK ==
  /\ pc = "applying" => cur \in Ids /\ journal[cur].status = "running"
  /\ pc = "advancing" => cur \in Ids \ work /\ journal[cur].status = "pending"
  /\ pc \notin {"applying", "advancing"} => cur = 0
  /\ work \subseteq ActiveActions
  /\ pc \in {"gate", "trip, gate", "applying"} => work = {}

(* What _advance has looked at is settled or young.                        *)
LookedAtOK ==
  pc # "idle" =>
    \A i \in Ids :
      (journal[i].status = "running" /\ i \notin work /\ i # cur) =>
        journal[i].updated + Budget > now

IInv ==
  /\ TypeOK /\ JournalOK /\ CurOK /\ LookedAtOK
  /\ DailyCap /\ OnePerTick /\ CooldownRespected
  /\ BadOutcomeTrips /\ BadOutcomeStopsNew
=============================================================================
