-------------------------- MODULE SecurityWatchProofs --------------------------
(***************************************************************************)
(* Proofs about security-watch: act(), for every set of groups, every       *)
(* policy and every length of the history; the tick, which closes no        *)
(* advisory's finding that is not gone, for every set of components and     *)
(* flaws and every number of ticks; the pull request and its plan, the      *)
(* playbooks that change this host and the urgent mail, each alone; and     *)
(* what MCWatch checks of them together, which follows.                     *)
(***************************************************************************)
EXTENDS SecurityWatchAct, MCWatch, FiniteSetTheorems, WellFoundedInduction, TLAPS

-----------------------------------------------------------------------------
(* act() *)

(* What the invariant says of the journal alone.                           *)
HistoryOK == JournalOK /\ DailyCap /\ OnePerTick /\ CooldownRespected

(* The same rows, but that row id has a new status and was updated now.    *)
RowSettled(id, status) ==
  /\ journal' \in Seq(ActionRow)
  /\ Ids' = Ids
  /\ \A i \in Ids :
       /\ journal'[i].component = journal[i].component
       /\ journal'[i].playbook = journal[i].playbook
       /\ journal'[i].started = journal[i].started
       /\ journal'[i].status = IF i = id THEN status ELSE journal[i].status
       /\ journal'[i].updated = IF i = id THEN now ELSE journal[i].updated

(* What the types give the other proofs.                                   *)
LEMMA Types ==
  ASSUME TypeOK
  PROVE  /\ now \in Nat /\ journal \in Seq(ActionRow) /\ Len(journal) \in Nat
         /\ Ids \subseteq Nat /\ IsFiniteSet(Ids)
         /\ \A i \in Ids :
              /\ journal[i] \in ActionRow
              /\ journal[i].started \in Nat /\ journal[i].updated \in Nat
              /\ journal[i].status \in Statuses
<1>1. now \in Nat /\ journal \in Seq(ActionRow)
  BY DEF TypeOK
<1>2. Len(journal) \in Nat
  BY <1>1
<1>3. Ids \subseteq Nat /\ IsFiniteSet(Ids)
  BY <1>2, FS_Interval DEF Ids
<1>4. \A i \in Ids : journal[i] \in ActionRow
  BY <1>1 DEF Ids
<1>5. \A i \in Ids : /\ journal[i].started \in Nat /\ journal[i].updated \in Nat
                      /\ journal[i].status \in Statuses
  BY <1>4 DEF ActionRow
<1> QED BY <1>1, <1>2, <1>3, <1>4, <1>5

(* Journaling a status leaves every other row and the order of rows alone. *)
LEMMA JournalSettles ==
  ASSUME TypeOK, NEW id \in Ids, NEW status \in Statuses, Journal(id, status)
  PROVE  RowSettled(id, status)
<1> DEFINE r == [[journal[id] EXCEPT !.status = status] EXCEPT !.updated = now]
<1>0. journal \in Seq(ActionRow) /\ now \in Nat /\ Len(journal) \in Nat
  BY Types
<1>1. \A i \in Ids : journal[i] \in ActionRow
  BY Types
<1>2. journal[id] \in ActionRow
  BY <1>1
<1>3. r \in ActionRow
  BY <1>2, <1>0 DEF ActionRow
<1>4. journal' = [journal EXCEPT ![id] = r]
  BY <1>2 DEF Journal, ActionRow
<1>5. journal' \in Seq(ActionRow) /\ Len(journal') = Len(journal)
  BY <1>0, <1>3, <1>4 DEF Ids
<1>6. \A i \in Ids : journal'[i] = IF i = id THEN r ELSE journal[i]
  BY <1>0, <1>4 DEF Ids
<1>7. /\ r.component = journal[id].component /\ r.playbook = journal[id].playbook
      /\ r.started = journal[id].started /\ r.status = status /\ r.updated = now
  BY <1>2 DEF ActionRow
<1> QED BY <1>5, <1>6, <1>7 DEF RowSettled, Ids

(* An action that is under way may be settled, to any status, without      *)
(* disturbing what holds of the history.                                   *)
LEMMA SettledHistory ==
  ASSUME TypeOK, HistoryOK, NEW id \in ActiveActions, NEW status \in Statuses,
         RowSettled(id, status), now' = now
  PROVE  HistoryOK'
<1> DEFINE W(i) == {j \in Executions : /\ journal[j].started <= journal[i].started
                                       /\ journal[j].started + Day >= journal[i].started}
<1>0. /\ now \in Nat /\ id \in Ids /\ Ids \subseteq Nat /\ IsFiniteSet(Ids)
      /\ {Day, Cooldown, MaxPerDay} \subseteq Nat
  BY Types, TimesAssumption DEF ActiveActions
<1>1. \A i \in Ids : journal[i].started \in Nat /\ journal[i].updated \in Nat
                      /\ journal[i].status \in Statuses
  BY Types
<1>2. Executions' \subseteq Executions
  BY DEF Executions, RowSettled, ActiveActions
<1>3. ActiveActions' \subseteq ActiveActions
  BY DEF ActiveActions, RowSettled
<1>4. \A i \in Executions : i \in Ids
  BY DEF Executions
<1>5. JournalOK'
  <2>1. (\A i \in Ids : journal[i].started <= journal[i].updated
                         /\ journal[i].updated <= now)'
    BY <1>0, <1>1 DEF RowSettled, HistoryOK, JournalOK
  <2>2. (\A i, j \in Ids : i < j => journal[i].started <= journal[j].started)'
    BY DEF RowSettled, HistoryOK, JournalOK
  <2>3. (\A i, j \in Executions :
           i < j /\ journal[i].component = journal[j].component =>
             i \notin ActiveActions)'
    BY <1>2, <1>3, <1>4 DEF RowSettled, HistoryOK, JournalOK
  <2> QED BY <2>1, <2>2, <2>3 DEF JournalOK
<1>6. DailyCap'
  <2> SUFFICES ASSUME NEW i \in Executions'
               PROVE  Cardinality({j \in Executions' :
                          /\ journal'[j].started <= journal'[i].started
                          /\ journal'[j].started + Day >= journal'[i].started})
                        <= MaxPerDay
    BY DEF DailyCap
  <2> DEFINE V == {j \in Executions' : /\ journal'[j].started <= journal'[i].started
                                       /\ journal'[j].started + Day >= journal'[i].started}
  <2>1. V \subseteq W(i)
    BY <1>2, <1>4 DEF RowSettled
  <2>2. IsFiniteSet(W(i))
    BY <1>0, <1>4, FS_Subset
  <2>3. Cardinality(W(i)) <= MaxPerDay
    BY <1>2 DEF HistoryOK, DailyCap
  <2>4. IsFiniteSet(V) /\ Cardinality(V) <= Cardinality(W(i))
    BY <2>1, <2>2, FS_Subset
  <2>5. Cardinality(V) \in Nat /\ Cardinality(W(i)) \in Nat
    BY <2>2, <2>4, FS_CardinalityType
  <2> QED BY <2>3, <2>4, <2>5, <1>0
<1>7. OnePerTick'
  BY <1>2, <1>4 DEF OnePerTick, RowSettled, HistoryOK
<1>8. CooldownRespected'
  <2> SUFFICES ASSUME NEW i \in Executions', NEW j \in Executions', i < j,
                      journal'[i].component = journal'[j].component
               PROVE  journal'[i].updated + Cooldown <= journal'[j].started
    BY DEF CooldownRespected
  <2>1. i \in Executions /\ j \in Executions /\ i \in Ids /\ j \in Ids
        /\ journal[i].component = journal[j].component
    BY <1>2, <1>4 DEF RowSettled
  <2>2. i # id
    BY <2>1 DEF HistoryOK, JournalOK
  <2> QED BY <2>1, <2>2 DEF RowSettled, HistoryOK, CooldownRespected
<1> QED BY <1>5, <1>6, <1>7, <1>8 DEF HistoryOK

(* A new row at the end of the journal, running since now.                 *)
RowAppended(g, n) ==
  /\ journal' \in Seq(ActionRow)
  /\ n = Len(journal) + 1
  /\ Ids' = Ids \cup {n}
  /\ \A i \in Ids : i < n /\ journal'[i] = journal[i]
  /\ journal'[n].component = g[1] /\ journal'[n].playbook = g[2]
  /\ journal'[n].status = "running"
  /\ journal'[n].started = now /\ journal'[n].updated = now

LEMMA StartAppends ==
  ASSUME TypeOK, NEW g \in Group, StartAction(g)
  PROVE  RowAppended(g, Len(journal) + 1)
<1> DEFINE r == [component |-> g[1], playbook |-> g[2], status |-> "running",
                 started |-> now, updated |-> now]
           n == Len(journal) + 1
<1>0. now \in Nat /\ journal \in Seq(ActionRow) /\ Len(journal) \in Nat
  BY Types
<1>1. r \in ActionRow
  BY <1>0, GroupAssumption DEF ActionRow, Playbooks, Statuses
<1>2. journal' = Append(journal, r)
  BY DEF StartAction
<1>3. journal' \in Seq(ActionRow) /\ Len(journal') = n
  BY <1>0, <1>1, <1>2
<1>4. Ids' = Ids \cup {n} /\ \A i \in Ids : i < n
  BY <1>0, <1>3 DEF Ids
<1>5. \A i \in Ids : journal'[i] = journal[i]
  BY <1>0, <1>1, <1>2 DEF Ids
<1>6. journal'[n] = r
  BY <1>0, <1>1, <1>2
<1> QED BY <1>3, <1>4, <1>5, <1>6 DEF RowAppended

(* The gates of act() keep what holds of the history when they let a new   *)
(* action through.                                                         *)
LEMMA ExecutedHistory ==
  ASSUME TypeOK, HistoryOK, NEW g \in Group, Execute(g)
  PROVE  HistoryOK'
<1> DEFINE n == Len(journal) + 1
           W(i) == {j \in Executions : /\ journal[j].started <= journal[i].started
                                       /\ journal[j].started + Day >= journal[i].started}
<1>0. /\ now \in Nat /\ Ids \subseteq Nat /\ IsFiniteSet(Ids)
      /\ Day \in Nat /\ Cooldown \in Nat /\ MaxPerDay \in Nat
      /\ n \in Nat
  BY Types, TimesAssumption
<1>1. \A i \in Ids : journal[i].started \in Nat /\ journal[i].updated \in Nat
                      /\ journal[i].status \in Statuses
  BY Types
<1>2. RowAppended(g, n) /\ now' = now
  BY StartAppends DEF Execute, StartAction
<1>3. /\ Executions' = Executions \cup {n}
      /\ ActiveActions' = ActiveActions \cup {n}
  BY <1>2 DEF Executions, ActiveActions, RowAppended
<1>4. /\ \A i \in Executions : i \in Ids
      /\ \A i \in ActiveActions : i \in Ids
      /\ n \notin Ids
  BY <1>2, <1>0 DEF Executions, ActiveActions, RowAppended
<1>5. /\ \A i \in Executions : journal[i].started # now
      /\ \A i \in Executions : journal[i].component = g[1] =>
                                journal[i].updated + Cooldown <= now
      /\ \A i \in ActiveActions : journal[i].component # g[1]
      /\ Cardinality(ExecutedSince) < MaxPerDay
  <2>1. ThisTick = {} /\ Cooling(g[1]) = {} /\ InProgress(g[1]) = {}
        /\ Cardinality(ExecutedSince) < MaxPerDay
    BY DEF Execute
  <2>2. \A i \in Executions : journal[i].started # now
    BY <2>1 DEF ThisTick
  <2>3. \A i \in Executions : journal[i].component = g[1] =>
                                ~(journal[i].updated + Cooldown > now)
    BY <2>1 DEF Cooling
  <2>4. \A i \in ActiveActions : journal[i].component # g[1]
    BY <2>1 DEF InProgress
  <2>5. ASSUME NEW i \in Executions, journal[i].component = g[1]
        PROVE  journal[i].updated + Cooldown <= now
    <3>1. journal[i].updated \in Nat /\ ~(journal[i].updated + Cooldown > now)
      BY <2>3, <2>5, <1>1, <1>4
    <3> QED BY <3>1, <1>0
  <2> QED BY <2>1, <2>2, <2>4, <2>5
<1>6. ASSUME NEW i \in Ids
      PROVE  journal[i].started <= now /\ journal[i].updated <= now
  <2>1. journal[i].started <= journal[i].updated /\ journal[i].updated <= now
    BY DEF HistoryOK, JournalOK
  <2> QED BY <2>1, <1>0, <1>1
<1>6a. ASSUME NEW i \in Executions'
       PROVE  /\ i \in Nat /\ i <= n
              /\ i # n => i \in Executions /\ i \in Ids /\ journal'[i] = journal[i]
  <2>1. CASE i = n
    BY <2>1, <1>0
  <2>2. CASE i # n
    <3>1. i \in Executions /\ i \in Ids
      BY <2>2, <1>3, <1>4
    <3>2. i < n /\ journal'[i] = journal[i]
      BY <3>1, <1>2 DEF RowAppended
    <3> QED BY <3>1, <3>2, <1>0
  <2> QED BY <2>1, <2>2
<1>7. JournalOK'
  <2>1. (\A i \in Ids : journal[i].started <= journal[i].updated
                         /\ journal[i].updated <= now)'
    BY <1>0, <1>1, <1>2 DEF RowAppended, HistoryOK, JournalOK
  <2>2. (\A i, j \in Ids : i < j => journal[i].started <= journal[j].started)'
    BY <1>0, <1>1, <1>2, <1>4, <1>6 DEF RowAppended, HistoryOK, JournalOK
  <2>3. (\A i, j \in Executions :
           i < j /\ journal[i].component = journal[j].component =>
             i \notin ActiveActions)'
    <3> SUFFICES ASSUME NEW i \in Executions', NEW j \in Executions', i < j,
                        journal'[i].component = journal'[j].component
                 PROVE  i \notin ActiveActions'
      OBVIOUS
    <3>0. i # n
      BY <1>6a, <1>0
    <3>1. i \in Executions /\ i \in Ids /\ i # n /\ journal'[i] = journal[i]
      BY <3>0, <1>6a
    <3>2. CASE j = n
      BY <3>1, <3>2, <1>2, <1>3, <1>5 DEF RowAppended
    <3>3. CASE j # n
      <4>1. j \in Executions /\ journal'[j] = journal[j]
        BY <3>3, <1>2, <1>3, <1>4 DEF RowAppended
      <4> QED BY <3>1, <4>1, <1>3 DEF HistoryOK, JournalOK
    <3> QED BY <3>2, <3>3
  <2> QED BY <2>1, <2>2, <2>3 DEF JournalOK
<1>8. DailyCap'
  <2> SUFFICES ASSUME NEW i \in Executions'
               PROVE  Cardinality({j \in Executions' :
                          /\ journal'[j].started <= journal'[i].started
                          /\ journal'[j].started + Day >= journal'[i].started})
                        <= MaxPerDay
    BY DEF DailyCap
  <2> DEFINE V == {j \in Executions' : /\ journal'[j].started <= journal'[i].started
                                       /\ journal'[j].started + Day >= journal'[i].started}
  <2>1. CASE i = n
    <3>1. V \subseteq ExecutedSince \cup {n}
      BY <2>1, <1>2, <1>3, <1>4 DEF RowAppended, ExecutedSince, Since
    <3>2. IsFiniteSet(ExecutedSince)
      BY <1>0, <1>4, FS_Subset DEF ExecutedSince
    <3>3. /\ Cardinality(ExecutedSince) \in Nat
          /\ IsFiniteSet(ExecutedSince \cup {n})
          /\ Cardinality(ExecutedSince \cup {n}) <= Cardinality(ExecutedSince) + 1
      <4>1. Cardinality(ExecutedSince) \in Nat
        BY <3>2, FS_CardinalityType
      <4>2. /\ IsFiniteSet(ExecutedSince \cup {n})
            /\ Cardinality(ExecutedSince \cup {n}) =
                 IF n \in ExecutedSince THEN Cardinality(ExecutedSince)
                 ELSE Cardinality(ExecutedSince) + 1
        BY <3>2, FS_AddElement
      <4> QED BY <4>1, <4>2
    <3>4. IsFiniteSet(V) /\ Cardinality(V) <= Cardinality(ExecutedSince \cup {n})
      BY <3>1, <3>3, FS_Subset
    <3>5. Cardinality(V) \in Nat /\ Cardinality(ExecutedSince \cup {n}) \in Nat
      BY <3>3, <3>4, FS_CardinalityType
    <3> QED BY <3>3, <3>4, <3>5, <1>5, <1>0
  <2>2. CASE i # n
    <3>1. i \in Executions /\ i \in Ids /\ journal'[i] = journal[i]
      BY <2>2, <1>2, <1>3, <1>4 DEF RowAppended
    <3>2. journal[i].started < now
      BY <3>1, <1>0, <1>1, <1>5, <1>6
    <3>3. V = W(i)
      <4>1. ~(journal'[n].started <= journal'[i].started)
        BY <3>1, <3>2, <1>0, <1>1, <1>2 DEF RowAppended
      <4>2. \A j \in Executions : journal'[j] = journal[j]
        BY <1>2, <1>4 DEF RowAppended
      <4> QED BY <3>1, <4>1, <4>2, <1>3
    <3> QED BY <3>1, <3>3 DEF HistoryOK, DailyCap
  <2> QED BY <2>1, <2>2
<1>9. OnePerTick'
  BY <1>2, <1>3, <1>4, <1>5 DEF OnePerTick, RowAppended, HistoryOK
<1>10. CooldownRespected'
  <2> SUFFICES ASSUME NEW i \in Executions', NEW j \in Executions', i < j,
                      journal'[i].component = journal'[j].component
               PROVE  journal'[i].updated + Cooldown <= journal'[j].started
    BY DEF CooldownRespected
  <2>1. i \in Executions /\ i \in Ids /\ journal'[i] = journal[i]
    <3>1. i # n
      BY <1>6a, <1>0
    <3> QED BY <3>1, <1>6a
  <2>2. CASE j = n
    BY <2>1, <2>2, <1>2, <1>5 DEF RowAppended
  <2>3. CASE j # n
    BY <2>1, <2>3, <1>2, <1>3, <1>4 DEF RowAppended, HistoryOK, CooldownRespected
  <2> QED BY <2>2, <2>3
<1> QED BY <1>7, <1>8, <1>9, <1>10 DEF HistoryOK

(* Time passes between ticks.                                              *)
LEMMA LaterHistory ==
  ASSUME TypeOK, HistoryOK, journal' = journal, now' \in Nat, now <= now'
  PROVE  HistoryOK'
<1>1. now \in Nat /\ \A i \in Ids : journal[i].updated \in Nat
  BY Types
<1>2. Ids' = Ids /\ Executions' = Executions /\ ActiveActions' = ActiveActions
  BY DEF Ids, Executions, ActiveActions
<1>3. JournalOK'
  BY <1>1, <1>2 DEF HistoryOK, JournalOK
<1>4. DailyCap' /\ OnePerTick' /\ CooldownRespected'
  BY <1>2 DEF HistoryOK, DailyCap, OnePerTick, CooldownRespected
<1> QED BY <1>3, <1>4 DEF HistoryOK

-----------------------------------------------------------------------------
LEMMA TripPoints ==
  ASSUME NEW resume \in {"advance", "advanced", "gate"}
  PROVE  /\ TripThen[resume] \in {"trip, advance", "trip, advanced", "trip, gate"}
         /\ TripThen[resume] = "trip, gate" <=> resume = "gate"
<1>1. CASE resume = "advance"
  BY <1>1 DEF TripThen
<1>2. CASE resume = "advanced"
  BY <1>2 DEF TripThen
<1>3. CASE resume = "gate"
  BY <1>3 DEF TripThen
<1> QED BY <1>1, <1>2, <1>3

(* Settling the row id, at the end of a playbook or as interrupted: the    *)
(* invariant holds again, whichever way act() goes on.                     *)
LEMMA SettleKeeps ==
  ASSUME IInv, NEW id \in ActiveActions, NEW v \in Verdicts,
         NEW resume \in {"advance", "advanced", "gate"},
         Settle(id, v, resume),
         pc \in {"advance", "advancing", "applying"}, cur \in {0, id},
         work' = work \ {id}, resume = "gate" => work' = {},
         UNCHANGED <<now, mode, steward, seenOpen, breaker, lost>>
  PROVE  IInv'
<1>0. TypeOK /\ HistoryOK /\ CurOK /\ LookedAtOK /\ BadOutcomeTrips
  BY DEF IInv, HistoryOK
<1>1. /\ id \in Ids
      /\ v.status \in {"ended", "pending"} /\ v.status \in Statuses
  <2>1. id \in Ids
    BY DEF ActiveActions
  <2>2. v.status \in {"ended", "pending"}
    <3>1. \/ v = [status |-> "ended", trip |-> FALSE]
          \/ v = [status |-> "ended", trip |-> TRUE]
          \/ v = [status |-> "pending", trip |-> FALSE]
      BY DEF Verdicts
    <3> QED BY <3>1
  <2> QED BY <2>1, <2>2 DEF Statuses
<1>2. RowSettled(id, v.status)
  BY <1>0, <1>1, JournalSettles DEF Settle
<1>3. HistoryOK'
  BY <1>0, <1>1, <1>2, SettledHistory
<1>4. /\ pc' \in {"advance", "advanced", "gate",
                  "trip, advance", "trip, advanced", "trip, gate"}
      /\ pc' \in {"gate", "trip, gate"} => resume = "gate"
      /\ v.trip => Tripping'
      /\ cur' = 0
      /\ alarm' = (alarm \/ v.trip)
  <2>1. CASE v.trip
    BY <2>1, TripPoints DEF Settle, Tripping
  <2>2. CASE ~v.trip
    BY <2>2 DEF Settle
  <2> QED BY <2>1, <2>2, <1>1
<1>5. TypeOK'
  BY <1>0, <1>1, <1>2, <1>4 DEF TypeOK, RowSettled
<1>6. CurOK'
  <2>1. work' \subseteq ActiveActions'
    BY <1>0, <1>2 DEF CurOK, ActiveActions, RowSettled
  <2> QED BY <2>1, <1>4 DEF CurOK
<1>7. LookedAtOK'
  <2> SUFFICES ASSUME NEW i \in Ids', journal'[i].status = "running", i \notin work'
               PROVE  journal'[i].updated + Budget > now'
    BY DEF LookedAtOK
  <2>1. i \in Ids /\ i # id
    BY <1>1, <1>2 DEF RowSettled
  <2>2. /\ journal[i].status = "running" /\ journal'[i].updated = journal[i].updated
        /\ i \notin work /\ i # cur
    <3>1. i # 0
      BY <2>1, <1>0, Types DEF Ids
    <3> QED BY <2>1, <3>1, <1>2 DEF RowSettled
  <2> QED BY <2>1, <2>2, <1>0 DEF LookedAtOK
<1>8. BadOutcomeTrips'
  BY <1>0, <1>1, <1>4 DEF BadOutcomeTrips, Tripping
<1>9. BadOutcomeStopsNew'
  BY <1>4 DEF BadOutcomeStopsNew
<1> QED BY <1>3, <1>5, <1>6, <1>7, <1>8, <1>9 DEF IInv, HistoryOK

(* A step that leaves the journal and the clock alone.                     *)
LEMMA QuietHistory ==
  ASSUME TypeOK, HistoryOK, journal' = journal, now' = now
  PROVE  HistoryOK' /\ Ids' = Ids /\ ActiveActions' = ActiveActions
<1>1. HistoryOK'
  BY Types, LaterHistory
<1> QED BY <1>1 DEF Ids, ActiveActions

LEMMA InitHolds == Init => IInv
<1> SUFFICES ASSUME Init PROVE IInv
  OBVIOUS
<1>1. Ids = {} /\ Executions = {} /\ ActiveActions = {}
  BY DEF Init, Ids, Executions, ActiveActions
<1>2. journal \in Seq(ActionRow) /\ now \in Nat
  BY DEF Init
<1>3. TypeOK
  BY <1>1, <1>2 DEF Init, TypeOK
<1> QED BY <1>1, <1>3 DEF Init, IInv, JournalOK, CurOK, LookedAtOK, DailyCap,
                          OnePerTick, CooldownRespected, BadOutcomeTrips,
                          BadOutcomeStopsNew, Tripping

LEMMA StepHolds == IInv /\ [Next]_vars => IInv'
<1> SUFFICES ASSUME IInv, [Next]_vars PROVE IInv'
  OBVIOUS
<1>0. TypeOK /\ HistoryOK /\ CurOK /\ LookedAtOK /\ BadOutcomeTrips
      /\ BadOutcomeStopsNew
  BY DEF IInv, HistoryOK
<1> DEFINE KeepsJournal == journal' = journal /\ now' = now
<1>q. ASSUME KeepsJournal
      PROVE  HistoryOK' /\ Ids' = Ids /\ ActiveActions' = ActiveActions
  BY <1>0, <1>q, QuietHistory
<1> HIDE DEF KeepsJournal
<1>1. CASE StartAct
  <2>1. now \in Nat /\ now' \in Nat /\ now <= now' /\ journal' = journal
    BY <1>1, Types, <1>0 DEF StartAct
  <2>2. HistoryOK' /\ Ids' = Ids /\ ActiveActions' = ActiveActions
    BY <2>1, <1>0, LaterHistory DEF Ids, ActiveActions
  <2>3. TypeOK'
    BY <1>0, <1>1, <2>1, <2>2 DEF StartAct, TypeOK, ActiveActions
  <2>4. CurOK' /\ BadOutcomeTrips' /\ BadOutcomeStopsNew'
    BY <1>0, <1>1, <2>2 DEF StartAct, CurOK, BadOutcomeTrips, BadOutcomeStopsNew, Tripping
  <2>5. LookedAtOK'
    BY <1>1, <2>2 DEF StartAct, LookedAtOK, ActiveActions
  <2> QED BY <2>2, <2>3, <2>4, <2>5 DEF IInv, HistoryOK
<1>2. ASSUME NEW id \in Ids, SettleStale(id) PROVE IInv'
  <2>1. id \in ActiveActions /\ cur = 0 /\ pc = "advance"
    BY <1>0, <1>2 DEF SettleStale, First, CurOK
  <2>2. Interrupted \in Verdicts
    BY DEF Interrupted, Verdicts
  <2> QED BY <2>1, <2>2, <1>2, SettleKeeps DEF SettleStale
<1>3. ASSUME NEW id \in Ids, Leave(id) PROVE IInv'
  <2>0. KeepsJournal
    BY <1>3 DEF Leave, KeepsJournal
  <2>1. TypeOK' /\ CurOK' /\ BadOutcomeTrips' /\ BadOutcomeStopsNew'
    BY <1>0, <1>3, <1>q, <2>0 DEF Leave, TypeOK, CurOK, BadOutcomeTrips,
       BadOutcomeStopsNew, Tripping
  <2>2. LookedAtOK'
    <3>1. journal[id].status = "running" => journal[id].updated + Budget > now
      BY <1>3 DEF Leave, Stale
    <3> QED BY <3>1, <1>0, <1>3 DEF Leave, LookedAtOK, Ids
  <2> QED BY <1>q, <2>0, <2>1, <2>2 DEF IInv, HistoryOK
<1>4. ASSUME NEW id \in Ids, AdvancePlaybook(id) PROVE IInv'
  <2>0. KeepsJournal
    BY <1>4 DEF AdvancePlaybook, KeepsJournal
  <2>1. TypeOK' /\ CurOK' /\ BadOutcomeTrips' /\ BadOutcomeStopsNew'
    BY <1>0, <1>4, <1>q, <2>0 DEF AdvancePlaybook, MayAdvance, TypeOK, CurOK,
       BadOutcomeTrips, BadOutcomeStopsNew, Tripping
  <2>2. LookedAtOK'
    BY <1>0, <1>4 DEF AdvancePlaybook, MayAdvance, LookedAtOK, CurOK, Ids
  <2> QED BY <1>q, <2>0, <2>1, <2>2 DEF IInv, HistoryOK
<1>5. CASE AdvanceRefused
  <2>0. KeepsJournal
    BY <1>5 DEF AdvanceRefused, KeepsJournal
  <2>1. TypeOK' /\ CurOK' /\ BadOutcomeTrips' /\ BadOutcomeStopsNew'
    BY <1>0, <1>5, <1>q, <2>0 DEF AdvanceRefused, tickVars, TypeOK, CurOK,
       BadOutcomeTrips, BadOutcomeStopsNew, Tripping
  <2>2. LookedAtOK'
    BY <1>0, <1>5 DEF AdvanceRefused, tickVars, LookedAtOK, CurOK, Ids
  <2> QED BY <1>q, <2>0, <2>1, <2>2 DEF IInv, HistoryOK
<1>6. CASE AdvanceEnds
  <2>1. PICK v \in Verdicts : Settle(cur, v, "advanced")
    BY <1>6 DEF AdvanceEnds
  <2>2. cur \in ActiveActions /\ cur \notin work /\ pc = "advancing"
    BY <1>0, <1>6 DEF AdvanceEnds, CurOK, ActiveActions
  <2>3. UNCHANGED <<now, mode, steward, seenOpen, breaker, lost>>
        /\ work' = work \ {cur}
    BY <1>6, <2>2 DEF AdvanceEnds, tickVars
  <2> QED BY <2>1, <2>2, <2>3, SettleKeeps
<1>7. CASE RereadBreaker
  <2>0. KeepsJournal
    BY <1>7 DEF RereadBreaker, KeepsJournal
  <2>1. TypeOK' /\ CurOK' /\ BadOutcomeTrips' /\ BadOutcomeStopsNew'
    BY <1>0, <1>7, <1>q, <2>0 DEF RereadBreaker, TypeOK, CurOK,
       BadOutcomeTrips, BadOutcomeStopsNew, Tripping
  <2>2. LookedAtOK'
    BY <1>0, <1>7 DEF RereadBreaker, LookedAtOK, Ids
  <2> QED BY <1>q, <2>0, <2>1, <2>2 DEF IInv, HistoryOK
<1>8. CASE AdvanceDone
  <2>0. KeepsJournal
    BY <1>8 DEF AdvanceDone, KeepsJournal
  <2>1. TypeOK' /\ CurOK' /\ BadOutcomeTrips' /\ BadOutcomeStopsNew'
    BY <1>0, <1>8, <1>q, <2>0 DEF AdvanceDone, tickVars, TypeOK, CurOK,
       BadOutcomeTrips, BadOutcomeStopsNew, Tripping
  <2>2. LookedAtOK'
    BY <1>0, <1>8 DEF AdvanceDone, tickVars, LookedAtOK, Ids
  <2> QED BY <1>q, <2>0, <2>1, <2>2 DEF IInv, HistoryOK
<1>9. ASSUME NEW g \in Group, Execute(g) PROVE IInv'
  <2> DEFINE n == Len(journal) + 1
  <2>1. HistoryOK'
    BY <1>0, <1>9, ExecutedHistory
  <2>2. RowAppended(g, n) /\ pc = "gate" /\ pc' = "applying" /\ cur' = n
        /\ UNCHANGED <<now, mode, steward, work, seenOpen, breaker,
                       alarm, lost>>
    BY <1>0, <1>9, StartAppends DEF Execute, Considered, StartAction
  <2>3. TypeOK'
    BY <1>0, <2>2 DEF TypeOK, RowAppended
  <2>4. work = {}
    BY <1>0, <2>2 DEF CurOK
  <2>5. CurOK'
    BY <2>2, <2>4 DEF CurOK, RowAppended
  <2>6. LookedAtOK'
    BY <1>0, <2>2, <2>4 DEF LookedAtOK, CurOK, RowAppended, Ids
  <2>7. BadOutcomeTrips' /\ BadOutcomeStopsNew'
    BY <1>0, <1>9, <2>2 DEF BadOutcomeTrips, BadOutcomeStopsNew, Tripping, Execute
  <2> QED BY <2>1, <2>3, <2>5, <2>6, <2>7 DEF IInv, HistoryOK
<1>10. CASE ApplyRefused
  <2>1. cur \in ActiveActions /\ cur \in Ids /\ "refused" \in Statuses /\ work = {}
    BY <1>0, <1>10 DEF ApplyRefused, CurOK, ActiveActions, Statuses
  <2>2. RowSettled(cur, "refused") /\ now' = now
    BY <1>0, <1>10, <2>1, JournalSettles DEF ApplyRefused
  <2>3. HistoryOK'
    BY <1>0, <2>1, <2>2, SettledHistory
  <2>4. TypeOK'
    BY <1>0, <1>10, <2>2 DEF ApplyRefused, tickVars, TypeOK, RowSettled
  <2>5. CurOK' /\ BadOutcomeTrips' /\ BadOutcomeStopsNew'
    BY <1>0, <1>10, <2>1 DEF ApplyRefused, tickVars, CurOK, BadOutcomeTrips,
       BadOutcomeStopsNew, Tripping
  <2>6. LookedAtOK'
    BY <1>0, <1>10, <2>1, <2>2 DEF ApplyRefused, LookedAtOK, RowSettled
  <2> QED BY <2>3, <2>4, <2>5, <2>6 DEF IInv, HistoryOK
<1>11. CASE ApplyEnds
  <2>1. PICK v \in Verdicts : Settle(cur, v, "gate")
    BY <1>11 DEF ApplyEnds
  <2>2. cur \in ActiveActions /\ work = {} /\ pc = "applying"
    BY <1>0, <1>11 DEF ApplyEnds, CurOK, ActiveActions
  <2>3. UNCHANGED <<now, mode, steward, seenOpen, breaker, lost>>
        /\ work' = work \ {cur} /\ work' = {}
    BY <1>11, <2>2 DEF ApplyEnds, tickVars
  <2> QED BY <2>1, <2>2, <2>3, SettleKeeps
<1>12. CASE ActReturns
  <2>0. KeepsJournal
    BY <1>12 DEF ActReturns, KeepsJournal
  <2>1. TypeOK' /\ CurOK' /\ LookedAtOK' /\ BadOutcomeTrips' /\ BadOutcomeStopsNew'
    BY <1>0, <1>12, <1>q, <2>0 DEF ActReturns, Forget, TypeOK, CurOK, LookedAtOK,
       BadOutcomeTrips, BadOutcomeStopsNew, Tripping
  <2> QED BY <1>q, <2>0, <2>1 DEF IInv, HistoryOK
<1>13. ASSUME NEW resume \in {"advance", "advanced", "gate"}, Trip(resume) PROVE IInv'
  <2>0. KeepsJournal /\ pc' = resume /\ pc = TripThen[resume]
    BY <1>13 DEF Trip, KeepsJournal
  <2>1. pc # "idle" /\ (pc' = "gate" => pc = "trip, gate")
        /\ pc \notin {"applying", "advancing"}
    BY <2>0, TripPoints
  <2>2. TypeOK' /\ CurOK' /\ BadOutcomeTrips' /\ BadOutcomeStopsNew'
    BY <1>0, <1>13, <1>q, <2>0, <2>1 DEF Trip, tickVars, TypeOK, CurOK,
       BadOutcomeTrips, BadOutcomeStopsNew, Tripping
  <2>3. LookedAtOK'
    BY <1>0, <1>13, <2>1 DEF Trip, tickVars, LookedAtOK, Ids
  <2> QED BY <1>q, <2>0, <2>2, <2>3 DEF IInv, HistoryOK
<1>14. CASE Die
  <2>0. KeepsJournal
    BY <1>14 DEF Die, KeepsJournal
  <2>1. TypeOK' /\ CurOK' /\ LookedAtOK' /\ BadOutcomeTrips' /\ BadOutcomeStopsNew'
    BY <1>0, <1>14, <1>q, <2>0 DEF Die, Forget, TypeOK, CurOK, LookedAtOK,
       BadOutcomeTrips, BadOutcomeStopsNew, Tripping
  <2> QED BY <1>q, <2>0, <2>1 DEF IInv, HistoryOK
<1>15. CASE ResetBreaker
  <2>0. KeepsJournal
    BY <1>15 DEF ResetBreaker, KeepsJournal
  <2>1. TypeOK' /\ CurOK' /\ BadOutcomeTrips' /\ BadOutcomeStopsNew'
    BY <1>0, <1>15, <1>q, <2>0 DEF ResetBreaker, tickVars, TypeOK, CurOK,
       BadOutcomeTrips, BadOutcomeStopsNew
  <2>2. LookedAtOK'
    BY <1>0, <1>15 DEF ResetBreaker, tickVars, LookedAtOK, Ids
  <2> QED BY <1>q, <2>0, <2>1, <2>2 DEF IInv, HistoryOK
<1>16. CASE UNCHANGED vars
  <2>0. KeepsJournal
    BY <1>16 DEF vars, KeepsJournal
  <2>1. TypeOK' /\ CurOK' /\ BadOutcomeTrips' /\ BadOutcomeStopsNew'
    BY <1>0, <1>16, <1>q, <2>0 DEF vars, tickVars, TypeOK, CurOK, BadOutcomeTrips,
       BadOutcomeStopsNew, Tripping
  <2>2. LookedAtOK'
    BY <1>0, <1>16 DEF vars, tickVars, LookedAtOK, Ids
  <2> QED BY <1>q, <2>0, <2>1, <2>2 DEF IInv, HistoryOK
<1> QED BY <1>1, <1>2, <1>3, <1>4, <1>5, <1>6, <1>7, <1>8, <1>9, <1>10,
           <1>11, <1>12, <1>13, <1>14, <1>15, <1>16 DEF Next

-----------------------------------------------------------------------------
(* The invariant that the runs check holds of every execution.             *)
THEOREM Invariance == Spec => []IInv
<1> QED BY InitHolds, StepHolds, PTL DEF Spec

(* However ticks die and whatever an operator resets, no day sees more     *)
(* than MaxPerDay executions, and no tick more than one.                   *)
THEOREM Cap == Spec => [](DailyCap /\ OnePerTick)
<1>1. IInv => DailyCap /\ OnePerTick
  BY DEF IInv
<1> QED BY <1>1, Invariance, PTL

(* No component is touched again within the cooldown.                      *)
THEOREM CoolsDown == Spec => []CooldownRespected
<1>1. IInv => CooldownRespected
  BY DEF IInv
<1> QED BY <1>1, Invariance, PTL

(* Two actions are never under way on one component.                       *)
THEOREM OneAction == Spec => []OneActionPerComponent
<1>1. ASSUME IInv PROVE OneActionPerComponent
  <2> SUFFICES ASSUME NEW i \in ActiveActions, NEW j \in ActiveActions,
                      journal[i].component = journal[j].component
               PROVE  i = j
    BY DEF OneActionPerComponent
  <2>1. i \in Executions /\ j \in Executions
    BY DEF ActiveActions, Executions
  <2>2. i \in Nat /\ j \in Nat
    BY <1>1, Types DEF IInv, ActiveActions
  <2>3. ~(i < j) /\ ~(j < i)
    BY <1>1, <2>1 DEF IInv, JournalOK
  <2> QED BY <2>2, <2>3
<1> QED BY <1>1, Invariance, PTL

(* When act() comes to its gates no interrupted action is left unsettled.  *)
THEOREM Settled == Spec => []InterruptedSettled
<1>1. ASSUME IInv PROVE InterruptedSettled
  BY <1>1 DEF IInv, InterruptedSettled, LookedAtOK, CurOK
<1> QED BY <1>1, Invariance, PTL

(* A bad outcome that was followed by its trip stops new executions.       *)
THEOREM BreakerStops == Spec => [](BadOutcomeTrips /\ BadOutcomeStopsNew)
<1>1. IInv => BadOutcomeTrips /\ BadOutcomeStopsNew
  BY DEF IInv
<1> QED BY <1>1, Invariance, PTL

-----------------------------------------------------------------------------
(* The tick *)

Sound == TickTypeOK /\ OpenIsPublished

FindingRecord == [state : {"none", "open", "fixed"}, version : Nat, urgent : BOOLEAN,
                  verdict : AgentVerdicts]
InventoryRecord == [status : {"none", "ok", "partial", "unknown"}, version : Nat]

(* What one step may do to a finding. *)
ClosesFinding(f) == About[f].feed = "osv" /\ finding[f].state = "open" /\ finding'[f].state = "fixed"
HasFix(f) == inventory'[PartOf[f]].status = "ok" /\ inventory'[PartOf[f]].version >= About[f].fix

LEMMA SoundInitially == TickInit => Sound
<1> SUFFICES ASSUME TickInit PROVE Sound
    OBVIOUS
<1>1. Unseen \in FindingRecord
      BY DEF Unseen, FindingRecord, AgentVerdicts
<1>2. TickTypeOK
      BY <1>1, TickAssumption DEF TickInit, TickTypeOK, FindingRecord
<1>3. OpenIsPublished
      BY DEF TickInit, OpenIsPublished, Unseen
<1> QED BY <1>2, <1>3 DEF Sound

(* What a scan stores (store.py): a finding is opened by a listed flaw of a    *)
(* version before its fix, and closed only when its component is complete and   *)
(* its version has the fix.                                                     *)
LEMMA StoredSound ==
    ASSUME Sound, NEW inv \in [Part -> InventoryRecord], NEW only \in SUBSET Part,
           NEW r \in Results(inv, only)
    PROVE  LET next == Stored(r.seen, Complete(inv, r.failed), inv, only) IN
           /\ next \in [Flaw -> FindingRecord]
           /\ \A f \in Flaw : About[f].feed = "osv" =>
                /\ next[f].state = "open" => f \in published
                /\ finding[f].state = "open" /\ next[f].state = "fixed" =>
                     inv[PartOf[f]].status = "ok" /\ inv[PartOf[f]].version >= About[f].fix
<1> DEFINE next == Stored(r.seen, Complete(inv, r.failed), inv, only)
<1>1. /\ r.seen \subseteq Visible(inv) /\ r.failed \subseteq only
      /\ \A f \in Visible(inv) :
           (inv[PartOf[f]].status = "ok" /\ PartOf[f] \notin r.failed) => f \in r.seen
      BY DEF Results
<1>2. PartOf \in [Flaw -> Part]
      BY TickAssumption DEF PartOf
<1>3. next \in [Flaw -> FindingRecord]
  <2> SUFFICES ASSUME NEW f \in Flaw PROVE next[f] \in FindingRecord
      BY DEF Stored
  <2>1. finding[f] \in FindingRecord
        BY DEF Sound, TickTypeOK, FindingRecord
  <2>2. Recorded(f, inv) \in FindingRecord
        BY <1>2, <2>1 DEF Recorded, FindingRecord, InventoryRecord
  <2>3. [Unseen EXCEPT !.state = "fixed"] \in FindingRecord
        BY DEF Unseen, FindingRecord, AgentVerdicts
  <2> QED BY <2>1, <2>2, <2>3 DEF Stored
<1>4. ASSUME NEW f \in Flaw, About[f].feed = "osv", next[f].state = "open"
      PROVE  f \in published
  <2>1. CASE f \in r.seen
        BY <1>1, <1>4, <2>1 DEF Visible, Listed
  <2>2. CASE f \notin r.seen
    <3>1. next[f] = finding[f] \/ next[f] = [Unseen EXCEPT !.state = "fixed"]
          BY <2>2 DEF Stored
    <3>2. [Unseen EXCEPT !.state = "fixed"].state # "open"
          BY DEF Unseen
    <3> QED BY <1>4, <3>1, <3>2 DEF Sound, OpenIsPublished
  <2> QED BY <2>1, <2>2
<1>5. ASSUME NEW f \in Flaw, About[f].feed = "osv", finding[f].state = "open", next[f].state = "fixed"
      PROVE  inv[PartOf[f]].status = "ok" /\ inv[PartOf[f]].version >= About[f].fix
  <2>1. f \notin r.seen /\ PartOf[f] \in Complete(inv, r.failed)
        BY <1>5 DEF Stored, Recorded
  <2>2. inv[PartOf[f]].status = "ok" /\ PartOf[f] \notin r.failed
        BY <2>1 DEF Complete
  <2>3. f \notin Visible(inv)
        BY <1>1, <2>1, <2>2
  <2>4. f \in published
        BY <1>5 DEF Sound, OpenIsPublished
  <2>5. ~(inv[PartOf[f]].version < About[f].fix)
        BY <1>5, <2>2, <2>3, <2>4 DEF Visible, Listed
  <2>6. inv[PartOf[f]].version \in Nat /\ About[f].fix \in Nat
        BY <1>2, TickAssumption DEF InventoryRecord
  <2> QED BY <2>2, <2>5, <2>6
<1> QED BY <1>3, <1>4, <1>5

LEMMA PartsType == PartOf \in [Flaw -> Part]
BY TickAssumption DEF PartOf

(* A step that leaves the findings and what they are about alone.              *)
LEMMA FindingsKept ==
    ASSUME Sound, UNCHANGED <<finding, published>>, TickTypeOK'
    PROVE  Sound' /\ \A f \in Flaw : ~ClosesFinding(f)
<1>1. Sound'
      BY DEF Sound, OpenIsPublished
<1>2. \A f \in Flaw : ~ClosesFinding(f)
      BY DEF ClosesFinding
<1> QED BY <1>1, <1>2

(* A step that changes nothing but the other fields of findings.               *)
LEMMA StatesKept ==
    ASSUME Sound, TickTypeOK', published' = published,
           \A f \in Flaw : finding'[f].state = finding[f].state
    PROVE  Sound' /\ \A f \in Flaw : ~ClosesFinding(f)
<1>1. Sound'
      BY DEF Sound, OpenIsPublished
<1>2. \A f \in Flaw : ~ClosesFinding(f)
      BY DEF ClosesFinding
<1> QED BY <1>1, <1>2

LEMMA WorldStep ==
    ASSUME Sound, \/ HourPasses \/ DayPasses \/ ReleasePhp \/ StartTick \/ TickEnds \/ TickDies
                  \/ \E p \in Part, v \in 1..TopVersion : Deploy(p, v)
                  \/ \E f \in Flaw : Publish(f)
    PROVE  Sound' /\ \A f \in Flaw : ~ClosesFinding(f)
<1>1. finding' = finding /\ inventory' = inventory
      BY DEF HourPasses, DayPasses, ReleasePhp, StartTick, TickEnds, TickDies, Deploy, Publish, storeVars
<1>2. published \subseteq published'
      BY DEF HourPasses, DayPasses, ReleasePhp, StartTick, TickEnds, TickDies, Deploy, Publish, worldVars
<1>3. TickTypeOK'
  <2>1. deployed' \in [Part -> Nat]
    <3>1. CASE \E p \in Part, v \in 1..TopVersion : Deploy(p, v)
          BY <3>1, TickAssumption DEF Sound, TickTypeOK, Deploy
    <3>2. CASE deployed' = deployed
          BY <3>2 DEF Sound, TickTypeOK
    <3> QED BY <3>1, <3>2 DEF HourPasses, DayPasses, ReleasePhp, StartTick, TickEnds, TickDies,
               Publish, worldVars
  <2>2. bad' \in 0..MaxBad
    <3>1. CASE TickDies
          BY <3>1, TickAssumption DEF Sound, TickTypeOK, TickDies, Mishap
    <3>2. CASE bad' = bad
          BY <3>2 DEF Sound, TickTypeOK
    <3> QED BY <3>1, <3>2 DEF HourPasses, DayPasses, ReleasePhp, StartTick, TickEnds, Deploy, Publish
  <2>3. agentCalls' \in 0..AGENT_DAY
    <3>1. CASE DayPasses
          BY <3>1, TickAssumption DEF DayPasses
    <3>2. CASE agentCalls' = agentCalls
          BY <3>2 DEF Sound, TickTypeOK
    <3> QED BY <3>1, <3>2 DEF HourPasses, ReleasePhp, StartTick, TickEnds, TickDies, Deploy, Publish, storeVars
  <2>4. lastComplete' = lastComplete
        BY DEF HourPasses, DayPasses, ReleasePhp, StartTick, TickEnds, TickDies, Deploy, Publish, storeVars
  <2>5. phase' \in {"idle", "inventory", "scan", "reach", "prioritize", "act"}
        BY DEF Sound, TickTypeOK, HourPasses, DayPasses, ReleasePhp, StartTick, TickEnds, TickDies, Deploy, Publish
  <2> QED BY <1>1, <2>1, <2>2, <2>3, <2>4, <2>5 DEF Sound, TickTypeOK
<1>4. OpenIsPublished'
      BY <1>1, <1>2 DEF Sound, OpenIsPublished
<1>5. \A f \in Flaw : ~ClosesFinding(f)
      BY <1>1 DEF ClosesFinding
<1> QED BY <1>3, <1>4, <1>5 DEF Sound

LEMMA CollectStep ==
    ASSUME Sound, CollectInventory
    PROVE  Sound' /\ \A f \in Flaw : ~ClosesFinding(f)
<1>1. inventory' \in [Part -> InventoryRecord]
  <2>1. PICK S \in SUBSET Part, status \in {"ok", "partial", "unknown"} :
            inventory' = [p \in Part |-> IF p \in S THEN Collected(p, status) ELSE inventory[p]]
        BY DEF CollectInventory
  <2>2. \A p \in Part : Collected(p, status) \in InventoryRecord
        BY DEF Sound, TickTypeOK, Collected, InventoryRecord
  <2> QED BY <2>1, <2>2 DEF Sound, TickTypeOK, InventoryRecord
<1>2. bad' \in 0..MaxBad
      BY TickAssumption DEF Sound, TickTypeOK, CollectInventory, Mishap
<1>3. TickTypeOK'
      BY <1>1, <1>2 DEF Sound, TickTypeOK, CollectInventory, InventoryRecord, worldVars
<1> QED BY <1>3, FindingsKept DEF CollectInventory, worldVars

LEMMA ScanStep ==
    ASSUME Sound, Scan
    PROVE  Sound' /\ \A f \in Flaw : ClosesFinding(f) => HasFix(f)
<1>1. bad' \in 0..MaxBad
      BY TickAssumption DEF Sound, TickTypeOK, Scan, Mishap
<1>2. CASE Needed(changed, scanDue)
  <2>1. PICK r \in Results(inventory, Part) :
            /\ finding' = Stored(r.seen, Complete(inventory, r.failed), inventory, Part)
            /\ lastComplete' = Complete(inventory, r.failed)
        BY <1>2 DEF Scan
  <2>2. inventory \in [Part -> InventoryRecord] /\ Part \in SUBSET Part
        BY DEF Sound, TickTypeOK, InventoryRecord
  <2>3. /\ finding' \in [Flaw -> FindingRecord]
        /\ \A f \in Flaw : About[f].feed = "osv" =>
             /\ finding'[f].state = "open" => f \in published
             /\ finding[f].state = "open" /\ finding'[f].state = "fixed" =>
                  inventory[PartOf[f]].status = "ok" /\ inventory[PartOf[f]].version >= About[f].fix
        BY <2>1, <2>2, StoredSound
  <2>4. TickTypeOK'
        BY <1>1, <2>1, <2>3 DEF Sound, TickTypeOK, Scan, FindingRecord, worldVars, Complete
  <2> QED BY <2>3, <2>4 DEF Sound, OpenIsPublished, Scan, worldVars, ClosesFinding, HasFix
<1>3. CASE ~Needed(changed, scanDue)
  <2>1. TickTypeOK'
        BY <1>1, <1>3 DEF Sound, TickTypeOK, Scan, worldVars
  <2> QED BY <1>3, <2>1, FindingsKept DEF Scan, worldVars
<1> QED BY <1>2, <1>3

LEMMA ReachStep ==
    ASSUME Sound, Reach
    PROVE  Sound' /\ \A f \in Flaw : ~ClosesFinding(f)
<1> DEFINE targets == (touched \cup Retried) \cap Open
<1>1. CASE over
  <2>1. TickTypeOK'
        BY <1>1 DEF Sound, TickTypeOK, Reach, worldVars
  <2> QED BY <1>1, <2>1, FindingsKept DEF Reach, worldVars
<1>2. CASE ~over
  <2>1. PICK a \in Assessments(targets) :
            /\ agentCalls' = agentCalls + Cardinality(a.asked)
            /\ \/ /\ phase' = "prioritize" /\ bad' = bad
                  /\ finding' = [f \in Flaw |-> IF f \in targets
                                   THEN [finding[f] EXCEPT !.verdict = a.verdict[f]] ELSE finding[f]]
               \/ phase' = "idle" /\ finding' = finding /\ Mishap(TRUE)
        BY <1>2 DEF Reach, Assess
  <2>2. /\ a.verdict \in [targets -> AgentVerdicts] /\ a.asked \subseteq targets
        /\ Affordable(Cardinality(a.asked))
        BY DEF Assessments
  <2>3. agentCalls' \in 0..AGENT_DAY
    <3>1. targets \subseteq Flaw
          BY DEF Open
    <3>2. IsFiniteSet(a.asked)
          BY <2>2, <3>1, FS_Subset, TickAssumption
    <3>3. Cardinality(a.asked) \in Nat
          BY <3>2, FS_CardinalityType
    <3> QED BY <2>1, <2>2, <3>3, TickAssumption DEF Affordable, Sound, TickTypeOK
  <2>4. bad' \in 0..MaxBad
        BY <2>1, TickAssumption DEF Sound, TickTypeOK, Mishap
  <2>5. finding' \in [Flaw -> FindingRecord] /\ \A f \in Flaw : finding'[f].state = finding[f].state
    <3>1. finding \in [Flaw -> FindingRecord]
          BY DEF Sound, TickTypeOK, FindingRecord
    <3>2. \A f \in targets : [finding[f] EXCEPT !.verdict = a.verdict[f]] \in FindingRecord
          BY <2>2, <3>1 DEF FindingRecord, Open
    <3>3. \A f \in targets : [finding[f] EXCEPT !.verdict = a.verdict[f]].state = finding[f].state
          BY <3>1 DEF FindingRecord, Open
    <3> HIDE DEF targets
    <3> QED BY <2>1, <3>1, <3>2, <3>3
  <2>6. TickTypeOK'
        BY <2>1, <2>3, <2>4, <2>5 DEF Sound, TickTypeOK, Reach, FindingRecord, worldVars
  <2> QED BY <2>5, <2>6, StatesKept DEF Reach, worldVars
<1> QED BY <1>1, <1>2

LEMMA PrioritizeStep ==
    ASSUME Sound, Prioritize
    PROVE  Sound' /\ \A f \in Flaw : ~ClosesFinding(f)
<1>1. PICK recent \in SUBSET {f \in Open : About[f].serious} :
          finding' = [f \in Flaw |-> IF f \in Open THEN [finding[f] EXCEPT !.urgent = Urgent(f, recent)]
                                    ELSE finding[f]]
      BY DEF Prioritize
<1>2. finding \in [Flaw -> FindingRecord]
      BY DEF Sound, TickTypeOK, FindingRecord
<1>3. \A f \in Flaw : Urgent(f, recent) \in BOOLEAN
      BY DEF Urgent
<1>4. finding' \in [Flaw -> FindingRecord] /\ \A f \in Flaw : finding'[f].state = finding[f].state
      BY <1>1, <1>2, <1>3 DEF FindingRecord
<1>5. TickTypeOK'
      BY <1>4 DEF Sound, TickTypeOK, Prioritize, FindingRecord, worldVars
<1> QED BY <1>4, <1>5, StatesKept DEF Prioritize, worldVars

LEMMA ActUpdatesStep ==
    ASSUME Sound, NEW p \in Part, ActUpdates(p)
    PROVE  Sound' /\ \A f \in Flaw : ClosesFinding(f) => HasFix(f)
<1>1. PICK v \in deployed[p]..TopVersion, status \in {"ok", "partial", "unknown"} :
          /\ deployed' = [deployed EXCEPT ![p] = v]
          /\ inventory' = [inventory EXCEPT ![p] =
                             [status |-> status, version |-> IF status = "unknown" THEN 0 ELSE v]]
          /\ \E r \in Results(inventory', {p}) :
               /\ finding' = Stored(r.seen, Complete(inventory', r.failed), inventory', {p})
               /\ lastComplete' = (lastComplete \ {p}) \cup (Complete(inventory', r.failed) \cap {p})
               /\ Mishap(status # "ok" \/ r.failed # {})
      BY DEF ActUpdates
<1>2. v \in Nat
      BY TickAssumption DEF Sound, TickTypeOK
<1>3. deployed' \in [Part -> Nat]
      BY <1>1, <1>2 DEF Sound, TickTypeOK
<1>4. inventory' \in [Part -> InventoryRecord]
  <2>1. [status |-> status, version |-> IF status = "unknown" THEN 0 ELSE v] \in InventoryRecord
        BY <1>2 DEF InventoryRecord
  <2> QED BY <1>1, <2>1 DEF Sound, TickTypeOK, InventoryRecord
<1>5. PICK r \in Results(inventory', {p}) :
          /\ finding' = Stored(r.seen, Complete(inventory', r.failed), inventory', {p})
          /\ lastComplete' = (lastComplete \ {p}) \cup (Complete(inventory', r.failed) \cap {p})
          /\ Mishap(status # "ok" \/ r.failed # {})
      BY <1>1
<1>6. {p} \in SUBSET Part
      OBVIOUS
<1>7. /\ finding' \in [Flaw -> FindingRecord]
      /\ \A f \in Flaw : About[f].feed = "osv" =>
           /\ finding'[f].state = "open" => f \in published
           /\ finding[f].state = "open" /\ finding'[f].state = "fixed" =>
                inventory'[PartOf[f]].status = "ok" /\ inventory'[PartOf[f]].version >= About[f].fix
  <2> DEFINE inv == inventory'
  <2>1. /\ inv \in [Part -> InventoryRecord] /\ r \in Results(inv, {p})
        /\ finding' = Stored(r.seen, Complete(inv, r.failed), inv, {p})
        BY <1>4, <1>5
  <2>2. LET next == Stored(r.seen, Complete(inv, r.failed), inv, {p}) IN
           /\ next \in [Flaw -> FindingRecord]
           /\ \A f \in Flaw : About[f].feed = "osv" =>
                /\ next[f].state = "open" => f \in published
                /\ finding[f].state = "open" /\ next[f].state = "fixed" =>
                     inv[PartOf[f]].status = "ok" /\ inv[PartOf[f]].version >= About[f].fix
    <3> HIDE DEF inv
    <3> QED BY <1>6, <2>1, StoredSound
  <2> QED BY <2>1, <2>2
<1>8. bad' \in 0..MaxBad
      BY <1>5, TickAssumption DEF Sound, TickTypeOK, Mishap
<1>9. lastComplete' \subseteq Part
      BY <1>5 DEF Sound, TickTypeOK
<1>10. TickTypeOK'
      BY <1>3, <1>4, <1>7, <1>8, <1>9 DEF Sound, TickTypeOK, ActUpdates, FindingRecord, InventoryRecord
<1> QED BY <1>7, <1>10 DEF Sound, OpenIsPublished, ActUpdates, ClosesFinding, HasFix

(* A step of the machine, the sources or a tick closes only what has its fix.  *)
LEMMA TickSound ==
    ASSUME Sound, [TickNext]_watchVars
    PROVE  Sound' /\ \A f \in Flaw : ClosesFinding(f) => HasFix(f)
<1>1. CASE UNCHANGED watchVars
  <2>1. TickTypeOK'
        BY <1>1 DEF Sound, TickTypeOK, watchVars, worldVars, storeVars
  <2> QED BY <1>1, <2>1, FindingsKept DEF watchVars, worldVars, storeVars
<1>2. CASE TickNext
      BY <1>2, WorldStep, CollectStep, ScanStep, ReachStep, PrioritizeStep, ActUpdatesStep
      DEF TickNext, TickStep
<1> QED BY <1>1, <1>2

(* Types hold, and an open finding of an advisory is of a published one.       *)
THEOREM TickInvariance == TickSpec => [](TickTypeOK /\ OpenIsPublished)
<1>1. Sound /\ [TickNext]_watchVars => Sound'
      BY TickSound
<1>2. Sound => (TickTypeOK /\ OpenIsPublished)
      BY DEF Sound
<1>3. TickSpec => []Sound
      BY <1>1, SoundInitially, PTL DEF TickSpec
<1> QED BY <1>2, <1>3, PTL

(* A scan that saw half of the machine closes nothing: an advisory's finding   *)
(* is closed only by a good inventory whose version has the fix.               *)
THEOREM OnlyGoneIsClosed == TickSpec => ClosedWhenGone
<1> DEFINE Right == \A f \in Flaw :
         About[f].feed = "osv" /\ finding[f].state = "open" /\ finding'[f].state = "fixed" =>
           /\ inventory'[PartOf[f]].status = "ok"
           /\ inventory'[PartOf[f]].version >= About[f].fix
<1>1. Sound /\ [TickNext]_watchVars => Right
      BY TickSound DEF ClosesFinding, HasFix
<1>2. (TickTypeOK /\ OpenIsPublished) => Sound
      BY DEF Sound
<1>3. Sound /\ [TickNext]_watchVars => [Right]_watchVars
      BY <1>1
<1>4. TickSpec => [][Right]_watchVars
      BY <1>2, <1>3, TickInvariance, PTL DEF TickSpec
<1> QED BY <1>4 DEF ClosedWhenGone

-----------------------------------------------------------------------------
(* The plan *)

VersionsTo(N) == [line : 0..N, patch : 0..N]

LEMMA LeastNumber ==
  ASSUME NEW S \in SUBSET Nat, S # {}
  PROVE  \E n \in S : \A m \in S : n <= m
<1>1. PICK n \in S : \A m \in S : <<m, n>> \notin OpToRel(<, Nat)
  BY NatLessThanWellFounded, WFMin
<1>2. \A m \in S : ~(m < n)
  BY <1>1 DEF OpToRel
<1> QED  BY <1>2

(* Among versions there is an oldest, and as they are bounded a newest one. *)
LEMMA OldestOf ==
  ASSUME NEW N \in Nat, NEW V \in SUBSET VersionsTo(N), V # {}
  PROVE  Oldest(V) \in V
<1> DEFINE Lines == {v.line : v \in V}
<1>1. Lines \in SUBSET Nat /\ Lines # {}
  BY DEF VersionsTo
<1>2. PICK l \in Lines : \A m \in Lines : l <= m
  BY <1>1, LeastNumber
<1> DEFINE Patches == {v.patch : v \in {u \in V : u.line = l}}
<1>3. Patches \in SUBSET Nat /\ Patches # {}
  BY DEF VersionsTo
<1>4. PICK p \in Patches : \A m \in Patches : p <= m
  BY <1>3, LeastNumber
<1>5. PICK v \in V : v.line = l /\ v.patch = p
  OBVIOUS
<1>6. \A w \in V : ~Older(w, v)
  <2> SUFFICES ASSUME NEW w \in V, Older(w, v) PROVE FALSE
    OBVIOUS
  <2>1. w.line \in Nat /\ w.patch \in Nat /\ v.line \in Nat /\ v.patch \in Nat /\ v.line <= w.line
    BY <1>2, <1>5 DEF VersionsTo
  <2>2. w.line = l /\ w.patch < p
    BY <1>5, <2>1 DEF Older
  <2> QED  BY <1>4, <1>5, <2>1, <2>2
<1> QED  BY <1>6 DEF Oldest

LEMMA NewestOf ==
  ASSUME NEW N \in Nat, NEW V \in SUBSET VersionsTo(N), V # {}
  PROVE  Newest(V) \in V /\ \A w \in V : ~Older(Newest(V), w)
<1> DEFINE Lines == {N - v.line : v \in V}
<1>1. Lines \in SUBSET Nat /\ Lines # {}
  BY DEF VersionsTo
<1>2. PICK l \in Lines : \A m \in Lines : l <= m
  BY <1>1, LeastNumber
<1> DEFINE Patches == {N - v.patch : v \in {u \in V : N - u.line = l}}
<1>3. Patches \in SUBSET Nat /\ Patches # {}
  BY DEF VersionsTo
<1>4. PICK p \in Patches : \A m \in Patches : p <= m
  BY <1>3, LeastNumber
<1>5. PICK v \in V : N - v.line = l /\ N - v.patch = p
  OBVIOUS
<1>6. \A w \in V : ~Older(v, w)
  <2> SUFFICES ASSUME NEW w \in V, Older(v, w) PROVE FALSE
    OBVIOUS
  <2>1. /\ w.line \in 0..N /\ w.patch \in 0..N /\ v.line \in 0..N /\ v.patch \in 0..N
        /\ N - v.line <= N - w.line
    BY <1>2, <1>5 DEF VersionsTo
  <2>2. w.line = v.line /\ v.patch < w.patch
    BY <2>1 DEF Older
  <2>3. N - v.patch <= N - w.patch
    BY <1>4, <1>5, <2>2
  <2> QED  BY <2>1, <2>2, <2>3
<1> QED  BY <1>6 DEF Newest

(* A plan for the Go release clears what it is planned for, stays on the line and moves forward,  *)
(* for any number of findings whose fixes are known versions: the newest of the smallest fixes of *)
(* that line is at or above the fix of each.                                                       *)
THEOREM StdlibPlan ==
  ASSUME NEW N \in Nat, NEW findings, \A n \in DOMAIN findings : findings[n].fixed \subseteq VersionsTo(N),
         NEW spec, NEW repo
  PROVE  StdlibPlanClears(findings, spec, repo)
<1> DEFINE group == EditGroup(findings, spec)
           edit == EditKind(CHOOSE f \in group : TRUE, spec)
           fixes == UNION {FixFor(edit, f, repo) : f \in group}
<1> SUFFICES ASSUME NEW v \in PlanVersion(findings, spec, repo)
             PROVE  /\ Older(repo.current, v)
                    /\ (\A f \in group : f.kind = "go-stdlib") =>
                         /\ v.line = repo.current.line
                         /\ \A f \in group : ~Affected(f, v)
  BY DEF StdlibPlanClears
<1>1. /\ v = Newest(fixes) /\ Older(repo.current, v) /\ group # {}
      /\ \A f \in group : FixFor(edit, f, repo) # {}
  BY DEF PlanVersion
<1>2. ASSUME \A f \in group : f.kind = "go-stdlib"
      PROVE  v.line = repo.current.line /\ \A f \in group : ~Affected(f, v)
  <2>1. edit \in {"go-builder", "go-toolchain"}
    BY <1>1, <1>2 DEF EditKind
  <2>2. \A f \in group : f.fixed \subseteq VersionsTo(N)
    BY DEF EditGroup, Candidates
  <2>3. ASSUME NEW f \in group
        PROVE  /\ FixFor(edit, f, repo) = {Oldest(SameLineFixed(f, repo.current))}
               /\ Oldest(SameLineFixed(f, repo.current)) \in f.fixed
               /\ Oldest(SameLineFixed(f, repo.current)).line = repo.current.line
    <3>1. SameLineFixed(f, repo.current) # {} /\ FixFor(edit, f, repo) = {Oldest(SameLineFixed(f, repo.current))}
      BY <1>1, <2>1 DEF FixFor
    <3>2. SameLineFixed(f, repo.current) \in SUBSET VersionsTo(N)
      BY <2>2 DEF SameLineFixed
    <3>3. Oldest(SameLineFixed(f, repo.current)) \in SameLineFixed(f, repo.current)
      BY <3>1, <3>2, OldestOf
    <3> QED  BY <3>1, <3>3 DEF SameLineFixed
  <2>4. fixes \in SUBSET VersionsTo(N) /\ fixes # {} /\ \A w \in fixes : w.line = repo.current.line
    <3>1. \A w \in fixes : \E f \in group : w = Oldest(SameLineFixed(f, repo.current))
      BY <2>3
    <3>2. \A w \in fixes : w \in VersionsTo(N) /\ w.line = repo.current.line
      BY <2>2, <2>3, <3>1
    <3>3. fixes # {}
      BY <1>1
    <3> QED  BY <3>2, <3>3
  <2>5. v \in fixes /\ \A w \in fixes : ~Older(v, w)
    BY <1>1, <2>4, NewestOf
  <2>6. v.line = repo.current.line
    BY <2>4, <2>5
  <2>7. ASSUME NEW f \in group PROVE ~Affected(f, v)
    <3> DEFINE w == Oldest(SameLineFixed(f, repo.current))
    <3>1. w \in fixes /\ w \in f.fixed /\ w.line = repo.current.line
      BY <2>3
    <3>2. w \in VersionsTo(N) /\ v \in VersionsTo(N)
      BY <2>4, <2>5, <3>1
    <3>3. ~(w.line < v.line)
      BY <2>6, <3>1, <3>2 DEF VersionsTo
    <3> QED  BY <2>5, <3>1, <3>3 DEF Affected
  <2> QED  BY <2>6, <2>7
<1> QED  BY <1>1, <1>2

-----------------------------------------------------------------------------
(* The pull request *)

PrInv == PrTypeOK /\ LookHolds /\ MergeIsVetted /\ DoneIsDeployed

LEMMA PrBegins == PrInit => PrInv
<1> SUFFICES ASSUME PrInit PROVE PrInv
  OBVIOUS
<1>1. PrTypeOK
  BY PrAssumption DEF PrInit, PrTypeOK, PullRequestState, Productions
<1>2. LookHolds /\ MergeIsVetted
  BY DEF PrInit, LookHolds, MergeIsVetted
<1>3. DoneIsDeployed
  BY DEF PrInit, DoneIsDeployed
<1> QED  BY <1>1, <1>2, <1>3 DEF PrInv

(* GitHub's state moves forward as it may: what was merged stays so, by whom it was, and of a *)
(* commit that nobody replaced the checks do not change once they ended.                       *)
PrForward ==
  /\ prGit' \in PullRequestState
  /\ prGit.pr = "merged" => prGit'.pr = "merged" /\ prGit'.by = prGit.by
  /\ prGit'.by # "none" => prGit'.pr = "merged"
  /\ prGit'.head = "opened" => prGit.head = "opened" /\ prGit.checks \in {"pending", prGit'.checks}
  /\ prGit'.by = "watch" => prGit'.head = "opened" /\ prGit'.vetted

(* A step of the owner, of CI or of GitHub leaves the action and its look true. *)
LEMMA OthersKeep == ASSUME PrInv, PrForward, prAction.stage = "planned" => prGit'.pr = "none",
                           UNCHANGED <<prProd, prAction, prLook, prWay, prGoes>>
                    PROVE  PrInv'
<1>1. PrTypeOK'
  BY DEF PrInv, PrTypeOK, PrForward
<1>2. prLook # NoLook => prLook.git.checks \in {"pending", "green", "red"} /\ prLook.git \in PullRequestState
  BY DEF PrInv, PrTypeOK, PullRequestState
<1>3. LookHolds'
  BY <1>2 DEF PrInv, LookHolds, PrForward
<1>4. MergeIsVetted' /\ DoneIsDeployed'
  BY DEF PrInv, MergeIsVetted, DoneIsDeployed, PrForward
<1> QED  BY <1>1, <1>3, <1>4 DEF PrInv

LEMMA OutsideKeeps ==
  ASSUME PrInv, UNCHANGED <<prWay, prGoes>>, OwnerActs \/ ChecksEnd \/ MainMoves \/ GitHubMerges
  PROVE  PrInv'
<1>1. /\ prGit \in PullRequestState /\ prGit.pr = "open" /\ prGit.by = "none" /\ prAction.stage # "planned"
      /\ UNCHANGED <<prProd, prAction, prLook, prWay, prGoes>>
  BY DEF PrInv, PrTypeOK, LookHolds, PullRequestState, OwnerActs, ChecksEnd, MainMoves, GitHubMerges
<1>2. PrForward
  <2>1. CASE OwnerActs
    <3>2. CASE prGit' = [prGit EXCEPT !.pr = "closed"]
      BY <1>1, <3>2 DEF PrForward, PullRequestState
    <3>3. CASE prGit' = [prGit EXCEPT !.pr = "merged", !.by = "owner"]
      BY <1>1, <3>3 DEF PrForward, PullRequestState
    <3>4. CASE /\ prGit.pushes < MaxPushes
               /\ prGit' = [prGit EXCEPT !.head = "other", !.checks = "pending", !.pushes = prGit.pushes + 1]
      <4>1. prGit.pushes + 1 \in 0..MaxPushes
        BY <1>1, <3>4, PrAssumption DEF PullRequestState
      <4> QED  BY <1>1, <3>4, <4>1 DEF PrForward, PullRequestState
    <3> QED  BY <2>1, <3>2, <3>3, <3>4 DEF OwnerActs
  <2>2. CASE ChecksEnd
    BY <1>1, <2>2 DEF ChecksEnd, PrForward, PullRequestState
  <2>3. CASE MainMoves \/ GitHubMerges
    BY <1>1, <2>3 DEF MainMoves, GitHubMerges, PrForward, PullRequestState
  <2> QED  BY <2>1, <2>2, <2>3
<1> QED  BY <1>1, <1>2, OthersKeep

LEMMA HoldsKeeps == ASSUME PrInv, UNCHANGED <<prWay, prGoes>>, OwnerHolds PROVE PrInv'
<1>1. /\ prGit \in PullRequestState /\ prGit.pr # "none" /\ prGit' = [prGit EXCEPT !.held = ~prGit.held]
      /\ prAction.stage # "planned" /\ (prGit.by # "none" => prGit.pr = "merged")
      /\ (prGit.by = "watch" => prGit.head = "opened" /\ prGit.vetted)
      /\ UNCHANGED <<prProd, prAction, prLook, prWay, prGoes>>
  BY DEF PrInv, PrTypeOK, LookHolds, MergeIsVetted, OwnerHolds
<1>2. PrForward
  BY <1>1 DEF PrForward, PullRequestState
<1> QED  BY <1>1, <1>2, OthersKeep

LEMMA NightKeeps == ASSUME PrInv, UNCHANGED <<prWay, prGoes>>, StewardDeploys PROVE PrInv'
BY DEF StewardDeploys, PrInv, PrTypeOK, Productions, PrFinal, LookHolds, MergeIsVetted, DoneIsDeployed

LEMMA GateKeeps == ASSUME PrInv, UNCHANGED prWay, GateMoves PROVE PrInv'
BY DEF GateMoves, prMoves, PrInv, PrTypeOK, LookHolds, MergeIsVetted, DoneIsDeployed

(* What the merge call can do to a pull request whose commit was seen green. *)
LEMMA MergeForward ==
  ASSUME PrInv, prLook # NoLook, prLook.git.head = "opened", Mergeable(prLook.git), prGit' \in Merges(prGit)
  PROVE  PrForward /\ prGit.pr = "open"
<1>1. /\ prGit \in PullRequestState /\ prGit.pr = "open" /\ prGit.head = "opened"
      /\ \/ prGit' = [prGit EXCEPT !.pr = "merged", !.by = "watch", !.vetted = prGit.checks = "green"]
         \/ prGit' = [prGit EXCEPT !.armed = TRUE]
  BY DEF PrInv, PrTypeOK, Merges
<1>2. prGit.checks = "green"
  BY <1>1 DEF PrInv, LookHolds, Mergeable
<1>3. prGit.by = "none"
  BY <1>1 DEF PrInv, LookHolds
<1> QED  BY <1>1, <1>2, <1>3 DEF PrForward, PullRequestState

(* What a stage of the action may do to its row while it stays in the stage, moves on or ends. *)
PrRow == [stage : {"planned", "ci", "merging", "deploy"} \cup PrFinal, age : 0..WAIT_LIMIT,
          touched : BOOLEAN, undo : {Either, Closes, Reverts}]

LEMMA WaitRow ==
  ASSUME prAction \in PrRow, PrWait
  PROVE  /\ prAction' \in PrRow /\ prAction'.touched = prAction.touched
         /\ \/ prAction'.stage = prAction.stage
            \/ prAction'.stage = "failed"
BY DEF PrRow, PrWait, PrEnd, PrEndWith, PrUndo, PrFinal

LEMMA GotoRow ==
  ASSUME prAction \in PrRow, NEW stage \in {"ci", "merging", "deploy"}, PrGoto(stage)
  PROVE  prAction' \in PrRow /\ prAction'.touched = prAction.touched /\ prAction'.stage = stage
<1>1. 0 \in 0..WAIT_LIMIT
  BY PrAssumption
<1>2. PrUndo(stage) \in {Either, Closes, Reverts}
  BY DEF PrUndo
<1>3. prAction' = [prAction EXCEPT !.stage = stage, !.age = 0, !.undo = PrUndo(stage)]
  BY DEF PrGoto
<1> QED  BY <1>1, <1>2, <1>3 DEF PrRow

LEMMA EndRow ==
  ASSUME prAction \in PrRow, NEW status \in PrFinal, NEW moved \in BOOLEAN, NEW undo \in {Either, Closes, Reverts},
         PrEndWith(status, moved, undo)
  PROVE  prAction' \in PrRow /\ prAction'.touched = moved /\ prAction'.stage = status /\ prAction'.undo = undo
BY DEF PrRow, PrEndWith

(* A tick's step before the deployment: production is untouched, and the stage that deploys is *)
(* entered for a merged pull request only.                                                      *)
LEMMA BeforeDeploy ==
  ASSUME PrInv, prAction.stage \in {"planned", "ci", "merging"}, prAction' \in PrRow, ~prAction'.touched,
         prAction'.stage \in {"ci", "merging", "deploy", "failed"},
         prAction'.stage = "deploy" => prGit'.pr = "merged",
         PrForward, prLook' = NoLook, UNCHANGED <<prProd, prWay, prGoes>>
  PROVE  PrInv'
<1>1. PrTypeOK'
  BY DEF PrInv, PrTypeOK, PrForward, PrRow
<1>2. LookHolds'
  BY DEF PrInv, LookHolds, PrForward
<1>3. MergeIsVetted'
  BY DEF MergeIsVetted, PrForward
<1>4. DoneIsDeployed'
  <2>1. prProd.sha = "new" => prGit.pr = "merged"
    BY DEF PrInv, DoneIsDeployed
  <2> QED  BY <2>1 DEF DoneIsDeployed, PrForward
<1> QED  BY <1>1, <1>2, <1>3, <1>4 DEF PrInv

LEMMA StillForward == PrInv /\ UNCHANGED prGit => PrForward
BY DEF PrInv, PrTypeOK, LookHolds, MergeIsVetted, PrForward

LEMMA OpenKeeps == ASSUME PrInv, OpenPr, UNCHANGED <<prWay, prGoes>> PROVE PrInv'
<1>1. /\ prAction.stage = "planned" /\ prGit.pr = "none" /\ prLook = NoLook /\ prGit.by = "none" /\ prAction \in PrRow
      /\ ~prAction.touched /\ UNCHANGED <<prProd, prLook>> /\ prGit \in PullRequestState
  BY DEF OpenPr, PrInv, LookHolds, PrTypeOK, PrRow
<1>2. CASE prGit' = [prGit EXCEPT !.pr = "open"] /\ PrGoto("ci")
  <2>1. prAction' \in PrRow /\ ~prAction'.touched /\ prAction'.stage = "ci"
    BY <1>1, <1>2, GotoRow
  <2>2. PrForward
    BY <1>1, <1>2 DEF PrForward, PullRequestState
  <2> QED  BY <1>1, <2>1, <2>2, BeforeDeploy
<1>3. ASSUME NEW pr \in {"none", "closed", "open"}, prGit' = [prGit EXCEPT !.pr = pr], PrEndWith("failed", FALSE, Either)
      PROVE  PrInv'
  <2>1. prAction' \in PrRow /\ ~prAction'.touched /\ prAction'.stage = "failed"
    BY <1>1, <1>3, EndRow DEF PrFinal
  <2>2. PrForward
    BY <1>1, <1>3 DEF PrForward, PullRequestState
  <2> QED  BY <1>1, <2>1, <2>2, BeforeDeploy
<1> QED  BY <1>2, <1>3 DEF OpenPr

LEMMA LookKeeps == ASSUME PrInv, Look, UNCHANGED <<prWay, prGoes>> PROVE PrInv'
<1>1. /\ prLook' = [said |-> "answer", git |-> prGit] \/ prLook' = [said |-> "error", git |-> prGit]
      /\ UNCHANGED <<prGit, prProd, prAction>> /\ prGit \in PullRequestState /\ prAction.stage # "planned"
  BY DEF Look, PrInv, PrTypeOK
<1>2. prLook'.git = prGit
  BY <1>1
<1>3. PrTypeOK'
  BY <1>1 DEF PrInv, PrTypeOK
<1>4. LookHolds'
  BY <1>1, <1>2 DEF PrInv, LookHolds
<1>5. MergeIsVetted' /\ DoneIsDeployed'
  BY <1>1 DEF PrInv, MergeIsVetted, DoneIsDeployed
<1> QED  BY <1>3, <1>4, <1>5 DEF PrInv

LEMMA CiKeeps == ASSUME PrInv, AdvanceCi, UNCHANGED <<prWay, prGoes>> PROVE PrInv'
<1> DEFINE seen == prLook.git
<1>1. /\ prAction.stage = "ci" /\ prLook # NoLook /\ prLook' = NoLook /\ prProd' = prProd /\ prAction \in PrRow
      /\ ~prAction.touched /\ (seen.pr = "merged" => prGit.pr = "merged")
  BY DEF AdvanceCi, PrInv, LookHolds, PrTypeOK, PrRow
<1>2. \/ UNCHANGED prGit /\ PrWait
      \/ HeldBack
      \/ UNCHANGED prGit /\ PrEnd("failed")
      \/ UNCHANGED prGit /\ seen.pr = "merged" /\ PrGoto("deploy")
      \/ seen.head = "opened" /\ Mergeable(seen) /\ prGit' \in Merges(prGit) /\ (PrGoto("merging") \/ PrWait)
  <2>1. \/ prLook.said = "error"
        \/ seen.held
        \/ seen.pr = "merged"
        \/ seen.pr = "closed" \/ seen.head # "opened" \/ seen.checks = "red"
        \/ seen.checks = "pending"
        \/ ~seen.clean
        \/ seen.head = "opened" /\ Mergeable(seen)
    BY <1>1 DEF PrInv, PrTypeOK, PullRequestState, Mergeable
  <2> QED  BY <2>1 DEF AdvanceCi
<1>3. PrForward
  BY <1>1, <1>2, StillForward, MergeForward DEF HeldBack
<1>4. /\ prAction' \in PrRow /\ ~prAction'.touched
      /\ prAction'.stage \in {"ci", "merging", "deploy", "failed"}
      /\ prAction'.stage = "deploy" => seen.pr = "merged"
  <2>1. CASE PrWait
    BY <1>1, <2>1, WaitRow
  <2>2. CASE PrEnd("failed")
    BY <1>1, <2>2, EndRow DEF PrEnd, PrFinal, PrUndo, PrRow
  <2>3. CASE seen.pr = "merged" /\ PrGoto("deploy")
    BY <1>1, <2>3, GotoRow
  <2>4. CASE PrGoto("merging")
    BY <1>1, <2>4, GotoRow
  <2>5. CASE HeldBack
    BY <1>1, <2>5 DEF HeldBack
  <2> QED  BY <1>2, <2>1, <2>2, <2>3, <2>4, <2>5
<1> QED  BY <1>1, <1>3, <1>4, BeforeDeploy DEF PrForward

LEMMA MergingKeeps == ASSUME PrInv, AdvanceMerging, UNCHANGED <<prWay, prGoes>> PROVE PrInv'
<1> DEFINE seen == prLook.git
<1>1. /\ prAction.stage = "merging" /\ prLook # NoLook /\ prLook' = NoLook /\ UNCHANGED <<prGit, prProd>>
      /\ prAction \in PrRow /\ ~prAction.touched /\ (seen.pr = "merged" => prGit.pr = "merged")
  BY DEF AdvanceMerging, PrInv, LookHolds, PrTypeOK, PrRow
<1>2. \/ PrWait \/ HeldBack \/ PrEndWith("failed", prAction.touched, prAction.undo)
      \/ seen.pr = "merged" /\ PrGoto("deploy")
  BY DEF AdvanceMerging
<1>3. /\ prAction' \in PrRow /\ ~prAction'.touched
      /\ prAction'.stage \in {"ci", "merging", "deploy", "failed"}
      /\ prAction'.stage = "deploy" => seen.pr = "merged"
  <2>1. CASE PrWait
    BY <1>1, <2>1, WaitRow
  <2>2. CASE PrEndWith("failed", prAction.touched, prAction.undo)
    BY <1>1, <2>2, EndRow DEF PrFinal, PrRow
  <2>3. CASE seen.pr = "merged" /\ PrGoto("deploy")
    BY <1>1, <2>3, GotoRow
  <2>4. CASE HeldBack
    BY <1>1, <2>4 DEF HeldBack
  <2> QED  BY <1>2, <2>1, <2>2, <2>3, <2>4
<1> QED  BY <1>1, <1>3, StillForward, BeforeDeploy

(* A deployment moves production and says what became of it in one step. *)
LEMMA DeployKeeps == ASSUME PrInv, AdvanceDeploy, UNCHANGED <<prWay, prGoes>> PROVE PrInv'
<1>1. /\ prAction.stage = "deploy" /\ prGit.pr = "merged" /\ UNCHANGED <<prGit, prLook>> /\ prAction \in PrRow
      /\ ~prAction.touched /\ prProd \in Productions /\ prWay.health \in BOOLEAN
  BY DEF AdvanceDeploy, PrInv, LookHolds, DoneIsDeployed, PrTypeOK, PrRow
<1> DEFINE Told == /\ prProd' \in Productions /\ prAction' \in PrRow
                   /\ prAction'.stage \in {"deploy", "failed", "done", "rolled_back"}
                   /\ prAction'.touched => prAction'.undo = Reverts /\ prAction'.stage # "deploy"
                   /\ prAction'.stage = "done" =>
                        /\ prProd'.sha = "new"
                        /\ IF prAction'.touched THEN prWay.health => prProd'.healthy ELSE ~prWay.release
<1>2. Told
  <2>1. CASE PrWait /\ UNCHANGED prProd
    BY <1>1, <2>1, WaitRow
  <2>2. CASE PrEnd("failed") /\ UNCHANGED prProd
    BY <1>1, <2>2, EndRow DEF PrEnd, PrUndo, PrFinal, PrRow
  <2>3. CASE ~prWay.release /\ DeployApp
    <3>1. CASE prProd.sha = "new" /\ PrEnd("done") /\ UNCHANGED prProd
      BY <1>1, <2>3, <3>1, EndRow DEF PrEnd, PrUndo, PrFinal, PrRow
    <3>2. ASSUME NEW healthy \in BOOLEAN, prProd' = [sha |-> "new", healthy |-> healthy],
                 PrEndWith(IF healthy \/ ~prWay.health THEN "done" ELSE "failed", TRUE, Reverts)
          PROVE  Told
      <4>1. CASE healthy \/ ~prWay.health
        BY <1>1, <3>2, <4>1, EndRow DEF PrFinal, Productions
      <4>2. CASE ~(healthy \/ ~prWay.health)
        BY <1>1, <3>2, <4>2, EndRow DEF PrFinal, Productions
      <4> QED  BY <4>1, <4>2
    <3>3. ASSUME NEW healthy \in BOOLEAN, prProd' = [prProd EXCEPT !.healthy = healthy],
                 PrEndWith("rolled_back", TRUE, Reverts)
          PROVE  Told
      BY <1>1, <3>3, EndRow DEF PrFinal, Productions
    <3>4. ASSUME NEW sha \in {prProd.sha, "new"}, NEW healthy \in BOOLEAN,
                 prProd' = [sha |-> sha, healthy |-> healthy], PrEndWith("failed", TRUE, Reverts)
          PROVE  Told
      BY <1>1, <3>4, EndRow DEF PrFinal, Productions
    <3> QED  BY <2>1, <2>3, <3>1, <3>2, <3>3, <3>4 DEF DeployApp
  <2>4. CASE prWay.release /\ DeployRelease
    <3>1. ASSUME NEW exit \in {0, 1}, NEW sha \in {prProd.sha, "new"}, NEW healthy \in BOOLEAN,
                 exit = 0 => sha = "new", prProd' = [sha |-> sha, healthy |-> healthy],
                 PrEndWith(IF exit = 0 THEN IF healthy \/ ~prWay.health THEN "done" ELSE "failed"
                           ELSE IF (healthy \/ ~prWay.health) /\ prWay.health THEN "rolled_back" ELSE "failed",
                           TRUE, Reverts)
          PROVE  Told
      <4>1. CASE exit = 0 /\ (healthy \/ ~prWay.health)
        BY <1>1, <3>1, <4>1, EndRow DEF PrFinal, Productions
      <4>2. CASE exit = 0 /\ ~(healthy \/ ~prWay.health)
        BY <1>1, <3>1, <4>2, EndRow DEF PrFinal, Productions
      <4>3. CASE exit # 0 /\ (healthy \/ ~prWay.health) /\ prWay.health
        BY <1>1, <3>1, <4>3, EndRow DEF PrFinal, Productions
      <4>4. CASE exit # 0 /\ ~((healthy \/ ~prWay.health) /\ prWay.health)
        BY <1>1, <3>1, <4>4, EndRow DEF PrFinal, Productions
      <4> QED  BY <4>1, <4>2, <4>3, <4>4
    <3> QED  BY <2>1, <2>4, <3>1 DEF DeployRelease
  <2> QED  BY <2>1, <2>2, <2>3, <2>4 DEF AdvanceDeploy
<1>3. PrTypeOK' /\ LookHolds' /\ MergeIsVetted' /\ DoneIsDeployed'
  BY <1>1, <1>2 DEF PrInv, PrTypeOK, PrRow, LookHolds, MergeIsVetted, DoneIsDeployed
<1> QED  BY <1>3 DEF PrInv

LEMMA LeavesKeep == ASSUME PrInv, Unregistered, UNCHANGED <<prWay, prGoes>> PROVE PrInv'
<1>1. /\ prAction.stage # "planned" /\ UNCHANGED <<prGit, prProd, prLook>> /\ prAction \in PrRow /\ ~prAction.touched
  BY DEF Unregistered, PrInv, LookHolds, PrTypeOK, PrRow, PrFinal
<1>2. prAction' \in PrRow /\ ~prAction'.touched /\ prAction'.stage = "failed"
  BY <1>1, EndRow DEF Unregistered, PrFinal, PrRow
<1> QED  BY <1>1, <1>2 DEF PrInv, PrTypeOK, PrRow, LookHolds, MergeIsVetted, DoneIsDeployed

(* A stage that breaks off keeps the invariant, whether the row keeps its stage or ends. *)
LEMMA BreaksOffKeeps ==
  ASSUME PrInv, BreaksOff, prAction' \in PrRow, prAction'.stage \in {prAction.stage, "failed"},
         prAction'.touched = prAction.touched, prAction'.undo = prAction.undo, UNCHANGED <<prWay, prGoes>>
  PROVE  PrInv'
<1>1. prLook' = NoLook
  BY DEF BreaksOff
<1>2. CASE /\ prAction.stage = "deploy" /\ UNCHANGED prGit
           /\ \E sha \in {prProd.sha, "new"}, healthy \in BOOLEAN : prProd' = [sha |-> sha, healthy |-> healthy]
  <2>1. prProd' \in Productions
    BY <1>2 DEF PrInv, PrTypeOK, Productions
  <2> QED  BY <1>1, <1>2, <2>1 DEF PrInv, PrTypeOK, PrRow, LookHolds, MergeIsVetted, DoneIsDeployed
<1>3. CASE /\ prAction.stage = "ci" /\ prLook # NoLook /\ prLook.git.head = "opened" /\ Mergeable(prLook.git)
           /\ prGit' \in Merges(prGit) /\ UNCHANGED prProd
  <2>1. PrForward
    BY <1>3, MergeForward
  <2>2. ~prAction'.touched /\ prAction'.stage \in {"ci", "failed"}
    BY <1>3 DEF PrInv, LookHolds
  <2> QED  BY <1>1, <1>3, <2>1, <2>2, BeforeDeploy
<1>4. CASE prLook # NoLook /\ UNCHANGED <<prGit, prProd>>
  BY <1>1, <1>4 DEF PrInv, PrTypeOK, PrRow, LookHolds, MergeIsVetted, DoneIsDeployed
<1> QED  BY <1>2, <1>3, <1>4 DEF BreaksOff

LEMMA StageDiesKeeps == ASSUME PrInv, TickDiesInStage, UNCHANGED <<prWay, prGoes>> PROVE PrInv'
<1>1. prAction \in PrRow
  BY DEF PrInv, PrTypeOK, PrRow
<1> QED  BY <1>1, BreaksOffKeeps DEF TickDiesInStage

LEMMA RaisesKeeps == ASSUME PrInv, AdvanceRaises, UNCHANGED <<prWay, prGoes>> PROVE PrInv'
<1>1. prAction \in PrRow
  BY DEF PrInv, PrTypeOK, PrRow
<1>2. /\ prAction' \in PrRow /\ prAction'.stage = "failed"
      /\ prAction'.touched = prAction.touched /\ prAction'.undo = prAction.undo
  BY <1>1, EndRow DEF AdvanceRaises, PrFinal, PrRow
<1> QED  BY <1>2, BreaksOffKeeps DEF AdvanceRaises

LEMMA PrKeeps == PrInv /\ [PrNext]_prVars => PrInv'
<1>1. ASSUME PrInv, UNCHANGED prVars PROVE PrInv'
  BY <1>1 DEF prVars, prMoves, PrInv, PrTypeOK, LookHolds, MergeIsVetted, DoneIsDeployed
<1>2. ASSUME PrInv, PrClock, UNCHANGED <<prWay, prGoes>> PROVE PrInv'
  <2>1. /\ prAction' = [prAction EXCEPT !.age = prAction.age + 1] /\ prAction.age < WAIT_LIMIT
        /\ UNCHANGED <<prGit, prProd, prLook>> /\ prAction \in PrRow
    BY <1>2 DEF PrClock, PrInv, PrTypeOK, PrRow
  <2>2. /\ prAction' \in PrRow /\ prAction'.stage = prAction.stage /\ prAction'.touched = prAction.touched
        /\ prAction'.undo = prAction.undo
    BY <2>1, PrAssumption DEF PrRow
  <2> QED  BY <1>2, <2>1, <2>2 DEF PrInv, PrTypeOK, PrRow, LookHolds, MergeIsVetted, DoneIsDeployed
<1> QED  BY <1>1, <1>2, OpenKeeps, LookKeeps, CiKeeps, MergingKeeps, DeployKeeps, LeavesKeep, StageDiesKeeps, RaisesKeeps,
           OutsideKeeps, HoldsKeeps, NightKeeps, GateKeeps DEF PrNext, PrTick, Outside

(* _advance and the stages of a pull request: what is merged was vetted, what is said done is deployed, whatever  *)
(* the owner, CI, GitHub, the steward and the deaths of ticks do in between, held or not.                          *)
THEOREM PrInvariance == PrSpec => []PrInv
<1>1. PrInit => PrInv
  BY PrBegins
<1>2. PrInv /\ [PrNext]_prVars => PrInv'
  BY PrKeeps
<1> QED  BY <1>1, <1>2, PTL DEF PrSpec

-----------------------------------------------------------------------------
(* The playbooks that change this host *)

OpsInv == OpsTypeOK /\ StepOfPlaybook /\ OutcomeTrue /\ UndoAtHand
OpsKept == OpsTypeOK' /\ StepOfPlaybook' /\ OutcomeTrue' /\ UndoAtHand'

LEMMA OpsBegins == OpsInit => OpsInv
BY DEF OpsInit, OpsInv, OpsTypeOK, StepOfPlaybook, OutcomeTrue, UndoAtHand, NoRow, Before, RaisesIn

(* An outcome that leaves production as it was before the change. *)
LEMMA EndsBefore ==
  ASSUME OpsInv, NEW status \in {"failed", "refused"}, OpsEnd(status, FALSE), opsStep \notin {"up", "restore", "end"},
         UNCHANGED <<opsProd, opsSaved>>
  PROVE  OpsKept
BY DEF OpsInv, OpsKept, OpsTypeOK, StepOfPlaybook, OutcomeTrue, UndoAtHand, OpsEnd, Before, Is, RaisesIn

(* An outcome of a production that was, or may have been, changed. *)
LEMMA EndsTouched ==
  ASSUME OpsInv, NEW status \in {"done", "failed", "rolled_back"}, OpsEnd(status, TRUE), UNCHANGED opsSaved,
         opsProd' \in [pin : {"old", "new"}, runs : {"old", "new", "down"}, well : BOOLEAN],
         status = "done" => opsProd'.runs = "new" /\ opsProd'.well /\ (opsPlan.fixes \/ Is("release-rebuild")),
         status = "rolled_back" => opsProd' = Before,
         opsProd'.pin = "new" /\ (Is("compose-digest") \/ Is("release-rebuild")) => opsSaved = "old"
  PROVE  OpsKept
BY DEF OpsInv, OpsKept, OpsTypeOK, StepOfPlaybook, OutcomeTrue, UndoAtHand, OpsEnd, Is, Healthy

(* The next step of a playbook before it changed anything. *)
LEMMA GoesOn ==
  ASSUME OpsInv, NEW step \in {"verify", "snapshot", "update", "call", "rewrite", "install", "release"}, OpsGoto(step),
         UNCHANGED opsProd, opsStep \notin {"up", "restore", "end"}, opsSaved' \in {"old", "none"},
         step = "verify" => Is("compose-digest") \/ Is("steward-image"),
         step = "rewrite" => Is("compose-digest") /\ opsPlan.fixes,
         step \in {"snapshot", "release"} => Is("release-rebuild"),
         step \in {"update", "install"} => Is("apt-security"),
         step = "call" => (Is("steward-image") /\ opsPlan.fixes) \/ Is("steward-runtime"),
         step = "release" => opsSaved' = "old"
  PROVE  OpsKept
<1>1. /\ opsProd = Before /\ opsRow = NoRow /\ opsStep' = step /\ UNCHANGED <<opsPlan, opsRow, opsProd>>
  BY DEF OpsInv, StepOfPlaybook, OpsGoto
<1>2. OpsTypeOK'
  BY <1>1 DEF OpsInv, OpsTypeOK, RaisesIn
<1>3. StepOfPlaybook'
  BY <1>1 DEF StepOfPlaybook, Is
<1>4. OutcomeTrue' /\ UndoAtHand'
  BY <1>1 DEF OutcomeTrue, UndoAtHand, NoRow, Before
<1> QED  BY <1>2, <1>3, <1>4 DEF OpsKept

(* A change that went wrong goes on to put back what was saved. *)
LEMMA GoesBack ==
  ASSUME OpsInv, OpsGoto("restore"), opsStep \in {"up", "release"}, UNCHANGED opsSaved,
         opsProd' \in [pin : {"old", "new"}, runs : {"old", "new", "down"}, well : BOOLEAN]
  PROVE  OpsKept
<1>1. /\ opsSaved = "old" /\ opsRow = NoRow /\ opsStep' = "restore" /\ UNCHANGED <<opsPlan, opsRow, opsSaved>>
      /\ Is("compose-digest") \/ Is("release-rebuild")
  BY DEF OpsInv, StepOfPlaybook, OpsGoto
<1>2. OpsTypeOK'
  BY <1>1 DEF OpsInv, OpsTypeOK, RaisesIn
<1>3. StepOfPlaybook'
  BY <1>1 DEF StepOfPlaybook, Is
<1>4. OutcomeTrue' /\ UndoAtHand'
  BY <1>1 DEF OutcomeTrue, UndoAtHand, NoRow
<1> QED  BY <1>2, <1>3, <1>4 DEF OpsKept

(* What a command may leave of production. *)
LEMMA CommandLeaves ==
  ASSUME OpsInv, NEW which \in {"old", "new"}
  PROVE  /\ UpTo(which) \subseteq [pin : {"old", "new"}, runs : {"old", "new", "down"}, well : BOOLEAN]
         /\ UpFailed(which) \subseteq [pin : {"old", "new"}, runs : {"old", "new", "down"}, well : BOOLEAN]
         /\ \A prod \in UpTo(which) : prod.runs = which /\ prod.pin = which
         /\ \A prod \in UpTo("old") : prod.well => prod = Before
<1>1. opsProd \in [pin : {"old", "new"}, runs : {"old", "new", "down"}, well : BOOLEAN]
  BY DEF OpsInv, OpsTypeOK
<1>2. \A prod \in UpFailed(which) : prod \in [pin : {"old", "new"}, runs : {"old", "new", "down"}, well : BOOLEAN]
  BY <1>1 DEF UpFailed
<1>3. \A prod \in UpTo(which) : /\ prod \in [pin : {"old", "new"}, runs : {"old", "new", "down"}, well : BOOLEAN]
                               /\ prod.runs = which /\ prod.pin = which
  <2> SUFFICES ASSUME NEW prod \in UpTo(which)
               PROVE  /\ prod \in [pin : {"old", "new"}, runs : {"old", "new", "down"}, well : BOOLEAN]
                      /\ prod.runs = which /\ prod.pin = which
    OBVIOUS
  <2>1. prod = [pin |-> which, runs |-> which, well |-> TRUE] \/ prod = [pin |-> which, runs |-> which, well |-> FALSE]
    BY DEF UpTo
  <2>2. CASE prod = [pin |-> which, runs |-> which, well |-> TRUE]
    BY <2>2
  <2>3. CASE prod = [pin |-> which, runs |-> which, well |-> FALSE]
    BY <2>3
  <2> QED  BY <2>1, <2>2, <2>3
<1>4. \A prod \in UpTo("old") : prod.well => prod = Before
  BY DEF UpTo, Before
<1> QED  BY <1>2, <1>3, <1>4

LEMMA LockKept == OpsInv /\ TakeLock => OpsKept
<1> SUFFICES ASSUME OpsInv, TakeLock PROVE OpsKept
  OBVIOUS
<1>1. opsStep = "plan" /\ UNCHANGED <<opsProd, opsSaved>> /\ opsSaved \in {"old", "none"} /\ opsPlan.playbook \in OpsPlaybook
  BY DEF TakeLock, OpsInv, OpsTypeOK
<1>2. CASE OpsEnd("refused", FALSE)
  BY <1>1, <1>2, EndsBefore
<1>3. CASE ~OpsEnd("refused", FALSE)
  <2>1. \/ OpsGoto("verify") /\ (Is("compose-digest") \/ Is("steward-image"))
        \/ OpsGoto("snapshot") /\ Is("release-rebuild")
        \/ OpsGoto("update") /\ Is("apt-security")
        \/ OpsGoto("call") /\ Is("steward-runtime")
    BY <1>1, <1>3 DEF TakeLock, OpsPlaybook, Is
  <2> QED  BY <1>1, <2>1, GoesOn
<1> QED  BY <1>2, <1>3

LEMMA VerifyKept == OpsInv /\ PullAndVerify => OpsKept
<1> SUFFICES ASSUME OpsInv, PullAndVerify PROVE OpsKept
  OBVIOUS
<1>1. /\ opsStep = "verify" /\ UNCHANGED <<opsProd, opsSaved>> /\ opsSaved \in {"old", "none"}
      /\ Is("compose-digest") \/ Is("steward-image")
  BY DEF PullAndVerify, OpsInv, OpsTypeOK, StepOfPlaybook
<1>2. CASE OpsEnd("refused", FALSE)
  BY <1>1, <1>2, EndsBefore
<1>3. CASE opsPlan.fixes /\ OpsGoto(IF Is("compose-digest") THEN "rewrite" ELSE "call")
  BY <1>1, <1>3, GoesOn
<1> QED  BY <1>2, <1>3 DEF PullAndVerify

LEMMA RewriteKept == OpsInv /\ RewritePin => OpsKept
<1> SUFFICES ASSUME OpsInv, RewritePin PROVE OpsKept
  OBVIOUS
<1>1. opsStep = "rewrite" /\ opsProd = Before /\ opsRow = NoRow /\ Is("compose-digest") /\ opsPlan.fixes
  BY DEF RewritePin, OpsInv, StepOfPlaybook
<1>2. CASE OpsEnd("refused", FALSE) /\ UNCHANGED <<opsProd, opsSaved>>
  BY <1>1, <1>2, EndsBefore
<1>3. CASE opsSaved' = opsProd.pin /\ opsProd' = [opsProd EXCEPT !.pin = "new"] /\ OpsGoto("up")
  <2>1. /\ opsSaved' = "old" /\ opsProd' = [pin |-> "new", runs |-> "old", well |-> TRUE] /\ opsStep' = "up"
        /\ UNCHANGED <<opsPlan, opsRow>>
    BY <1>1, <1>3 DEF Before, OpsGoto
  <2>2. OpsTypeOK'
    BY <2>1 DEF OpsInv, OpsTypeOK, RaisesIn
  <2>3. StepOfPlaybook' /\ OutcomeTrue' /\ UndoAtHand'
    BY <1>1, <2>1 DEF StepOfPlaybook, OutcomeTrue, UndoAtHand, NoRow, Is
  <2> QED  BY <2>2, <2>3 DEF OpsKept
<1> QED  BY <1>2, <1>3 DEF RewritePin

LEMMA UpKept == OpsInv /\ ComposeUp => OpsKept
<1> SUFFICES ASSUME OpsInv, ComposeUp PROVE OpsKept
  OBVIOUS
<1>1. /\ opsStep = "up" /\ UNCHANGED opsSaved /\ opsSaved = "old" /\ Is("compose-digest") /\ opsPlan.fixes
      /\ opsProd' \in UpTo("new") \cup UpFailed("new")
  BY DEF ComposeUp, OpsInv, StepOfPlaybook
<1>2. CASE opsProd' \in UpTo("new") /\ opsProd'.well /\ OpsEnd("done", TRUE)
  BY <1>1, <1>2, CommandLeaves, EndsTouched
<1>3. CASE OpsGoto("restore")
  BY <1>1, <1>3, CommandLeaves, GoesBack
<1> QED  BY <1>2, <1>3 DEF ComposeUp

(* What is put back is the old release, whole or in part. *)
LEMMA RestoreKept ==
  ASSUME OpsInv, opsStep = "restore", UNCHANGED opsSaved,
         \/ /\ opsProd' \in UpTo(opsSaved)
            /\ OpsEnd(IF opsProd'.well THEN "rolled_back" ELSE "failed", TRUE)
         \/ opsProd' \in UpFailed(opsProd.pin) \cup UpFailed(opsSaved) /\ OpsEnd("failed", TRUE)
  PROVE  OpsKept
<1>1. opsSaved = "old" /\ opsProd.pin \in {"old", "new"}
  BY DEF OpsInv, StepOfPlaybook, OpsTypeOK
<1>2. CASE opsProd' \in UpTo("old") /\ OpsEnd(IF opsProd'.well THEN "rolled_back" ELSE "failed", TRUE)
  BY <1>1, <1>2, CommandLeaves, EndsTouched
<1>3. CASE opsProd' \in UpFailed(opsProd.pin) \cup UpFailed(opsSaved) /\ OpsEnd("failed", TRUE)
  BY <1>1, <1>3, CommandLeaves, EndsTouched
<1> QED  BY <1>1, <1>2, <1>3

LEMMA SnapshotKept == OpsInv /\ Snapshot => OpsKept
<1> SUFFICES ASSUME OpsInv, Snapshot PROVE OpsKept
  OBVIOUS
<1>1. opsStep = "snapshot" /\ UNCHANGED opsProd /\ opsProd = Before /\ Is("release-rebuild")
  BY DEF Snapshot, OpsInv, StepOfPlaybook
<1>2. CASE OpsEnd("refused", FALSE) /\ UNCHANGED opsSaved
  BY <1>1, <1>2, EndsBefore
<1>3. CASE opsSaved' = opsProd.pin /\ OpsGoto("release")
  BY <1>1, <1>3, GoesOn DEF Before
<1> QED  BY <1>2, <1>3 DEF Snapshot

LEMMA ReleaseKept == OpsInv /\ RunRelease => OpsKept
<1> SUFFICES ASSUME OpsInv, RunRelease PROVE OpsKept
  OBVIOUS
<1>1. /\ opsStep = "release" /\ UNCHANGED opsSaved /\ opsSaved = "old" /\ Is("release-rebuild")
      /\ opsProd \in [pin : {"old", "new"}, runs : {"old", "new", "down"}, well : BOOLEAN]
  BY DEF RunRelease, OpsInv, StepOfPlaybook, OpsTypeOK
<1>2. opsProd' \in UpTo("new") \cup UpFailed("new") \cup {opsProd} \cup UpTo("old")
  BY DEF RunRelease
<1>3. opsProd' \in [pin : {"old", "new"}, runs : {"old", "new", "down"}, well : BOOLEAN]
  BY <1>1, <1>2, CommandLeaves
<1>4. CASE opsProd' \in UpTo("new") /\ opsProd'.well /\ OpsEnd("done", TRUE)
  BY <1>1, <1>3, <1>4, CommandLeaves, EndsTouched
<1>5. CASE opsProd' \in UpTo("old") /\ opsProd'.well /\ OpsEnd("rolled_back", TRUE)
  BY <1>1, <1>3, <1>5, CommandLeaves, EndsTouched
<1>6. CASE OpsGoto("restore")
  BY <1>1, <1>3, <1>6, GoesBack
<1> QED  BY <1>4, <1>5, <1>6 DEF RunRelease

LEMMA AptKept == OpsInv /\ (AptUpdate \/ AptInstall) => OpsKept
<1> SUFFICES ASSUME OpsInv, AptUpdate \/ AptInstall PROVE OpsKept
  OBVIOUS
<1>1. Is("apt-security") /\ opsProd = Before /\ opsSaved \in {"old", "none"} /\ UNCHANGED opsSaved
      /\ ~Is("compose-digest") /\ ~Is("release-rebuild")
  BY DEF AptUpdate, AptInstall, OpsInv, StepOfPlaybook, OpsTypeOK, Is
<1>2. CASE AptUpdate
  <2>1. CASE OpsEnd("failed", FALSE)
    BY <1>2, <2>1, EndsBefore DEF AptUpdate
  <2>2. CASE OpsGoto("install")
    BY <1>1, <1>2, <2>2, GoesOn DEF AptUpdate
  <2> QED  BY <1>2, <2>1, <2>2 DEF AptUpdate
<1>3. CASE AptInstall
  <2>1. opsProd' \in UpTo("new") \cup UpFailed("new") \cup {opsProd}
    BY <1>3 DEF AptInstall
  <2>2. opsProd' \in [pin : {"old", "new"}, runs : {"old", "new", "down"}, well : BOOLEAN]
    <3>1. Before \in [pin : {"old", "new"}, runs : {"old", "new", "down"}, well : BOOLEAN]
      BY DEF Before
    <3> QED  BY <1>1, <2>1, <3>1, CommandLeaves
  <2>3. CASE OpsEnd("failed", TRUE)
    BY <1>1, <2>2, <2>3, EndsTouched
  <2>4. CASE ~OpsEnd("failed", TRUE)
    <3>1. /\ opsProd' \in UpTo("new") \cup {opsProd} /\ OpsEnd("done", TRUE)
          /\ opsProd'.pin = "new" /\ opsPlan.fixes /\ opsProd'.well
      BY <1>3, <2>4 DEF AptInstall
    <3>2. opsProd'.runs = "new"
      BY <1>1, <3>1, CommandLeaves DEF Before
    <3> QED  BY <1>1, <2>2, <3>1, <3>2, EndsTouched
  <2> QED  BY <2>3, <2>4
<1> QED  BY <1>2, <1>3

LEMMA CallKept == OpsInv /\ CallSteward => OpsKept
<1> SUFFICES ASSUME OpsInv, CallSteward PROVE OpsKept
  OBVIOUS
<1>1. /\ opsProd = Before
      /\ (Is("steward-image") /\ opsPlan.fixes) \/ Is("steward-runtime")
      /\ ~Is("compose-digest") /\ ~Is("release-rebuild") /\ UNCHANGED <<opsPlan, opsSaved>> /\ opsStep' = "end"
  BY DEF CallSteward, OpsInv, StepOfPlaybook, Is
<1>2. PICK status \in {"ok", "reverted", "failed", "skipped"}, marked \in BOOLEAN :
       /\ opsProd' \in
            CASE status = "ok" -> {[pin |-> "new", runs |-> "new", well |-> TRUE]}
              [] status = "skipped" \/ (status = "failed" /\ ~marked) -> {opsProd}
              [] status = "reverted" -> {Before}
              [] status = "failed" /\ marked -> UpFailed("old") \cup UpTo("old") \cup UpTo("new")
       /\ opsRow' = IF status = "ok" /\ Is("steward-runtime") /\ ~opsPlan.fixes
                      THEN [status |-> "failed", touched |-> TRUE]
                    ELSE PacketOutcome(status, marked)
  BY DEF CallSteward
<1>3. opsProd' \in [pin : {"old", "new"}, runs : {"old", "new", "down"}, well : BOOLEAN]
  <2>1. \/ opsProd' = Before
        \/ opsProd' = [pin |-> "new", runs |-> "new", well |-> TRUE]
        \/ opsProd' \in UpFailed("old") \cup UpTo("old") \cup UpTo("new")
    <3>1. CASE status = "ok"
      BY <1>2, <3>1
    <3>2. CASE status \in {"reverted", "skipped"}
      BY <1>1, <1>2, <3>2
    <3>3. CASE status = "failed" /\ marked
      BY <1>2, <3>3
    <3>4. CASE status = "failed" /\ ~marked
      BY <1>1, <1>2, <3>4
    <3>5. status = "ok" \/ status \in {"reverted", "skipped"} \/ status = "failed"
      OBVIOUS
    <3> QED  BY <3>1, <3>2, <3>3, <3>4, <3>5, Zenon
  <2>2. /\ Before \in [pin : {"old", "new"}, runs : {"old", "new", "down"}, well : BOOLEAN]
        /\ [pin |-> "new", runs |-> "new", well |-> TRUE]
             \in [pin : {"old", "new"}, runs : {"old", "new", "down"}, well : BOOLEAN]
    BY DEF Before
  <2> QED  BY <2>1, <2>2, CommandLeaves
<1>4. \/ /\ OpsEnd("done", TRUE) /\ opsPlan.fixes
         /\ opsProd' = [pin |-> "new", runs |-> "new", well |-> TRUE]
      \/ OpsEnd("failed", TRUE)
      \/ OpsEnd("rolled_back", TRUE) /\ opsProd' = Before
      \/ OpsEnd("refused", FALSE) /\ opsProd' = opsProd
      \/ OpsEnd("failed", FALSE) /\ opsProd' = opsProd
  <2>1. CASE status = "ok"
    BY <1>1, <1>2, <2>1 DEF PacketOutcome, OpsEnd, Is
  <2>2. CASE status = "reverted"
    BY <1>1, <1>2, <2>2 DEF PacketOutcome, OpsEnd
  <2>3. CASE status = "skipped"
    BY <1>1, <1>2, <2>3 DEF PacketOutcome, OpsEnd
  <2>4. CASE status = "failed" /\ marked
    BY <1>1, <1>2, <2>4 DEF PacketOutcome, OpsEnd
  <2>5. CASE status = "failed" /\ ~marked
    BY <1>1, <1>2, <2>5 DEF PacketOutcome, OpsEnd
  <2> QED  BY <2>1, <2>2, <2>3, <2>4, <2>5
<1>5. opsStep = "call"
  BY DEF CallSteward
<1>6. CASE (OpsEnd("refused", FALSE) \/ OpsEnd("failed", FALSE)) /\ opsProd' = opsProd
  BY <1>1, <1>5, <1>6, EndsBefore
<1>7. CASE OpsEnd("failed", TRUE)
  BY <1>1, <1>3, <1>7, EndsTouched
<1>8. CASE OpsEnd("rolled_back", TRUE) /\ opsProd' = Before
  BY <1>1, <1>3, <1>8, EndsTouched
<1>9. CASE OpsEnd("done", TRUE) /\ opsPlan.fixes /\ opsProd' = [pin |-> "new", runs |-> "new", well |-> TRUE]
  BY <1>1, <1>3, <1>9, EndsTouched
<1> QED  BY <1>4, <1>6, <1>7, <1>8, <1>9

LEMMA RaisesKept == OpsInv /\ Raises => OpsKept
<1> SUFFICES ASSUME OpsInv, Raises PROVE OpsKept
  OBVIOUS
<1>1. CASE OpsEnd("failed", FALSE) /\ opsStep \notin {"up", "restore", "end"}
  BY <1>1, EndsBefore DEF Raises
<1>2. CASE OpsEnd("failed", TRUE)
  BY <1>2, EndsTouched DEF Raises, OpsInv, OpsTypeOK, UndoAtHand
<1>3. opsStep \in StartedIn \/ opsStep \notin {"up", "restore", "end"}
  BY DEF Raises, RaisesIn, StartedIn
<1>4. opsStep \in StartedIn => OpsEnd("failed", TRUE)
  <2>1. ASSUME opsStep \in StartedIn PROVE (opsStep \in StartedIn) = TRUE
    BY <2>1
  <2> QED  BY <2>1 DEF Raises
<1>5. opsStep \notin StartedIn => OpsEnd("failed", FALSE)
  <2>1. ASSUME opsStep \notin StartedIn PROVE (opsStep \in StartedIn) = FALSE
    BY <2>1
  <2> QED  BY <2>1 DEF Raises
<1> QED  BY <1>1, <1>2, <1>3, <1>4, <1>5

(* What an outcome says holds after every step of every playbook: the two restores put back what *)
(* StepOfPlaybook says was saved, and no other step moves a production that is to be untouched.   *)
THEOREM OpsInvariance == OpsSpec => []OpsInv
<1>1. OpsInit => OpsInv
  BY OpsBegins
<1>2. OpsInv /\ [OpsNext]_opsVars => OpsInv'
  <2> SUFFICES ASSUME OpsInv, [OpsNext]_opsVars PROVE OpsInv'
    OBVIOUS
  <2>1. CASE UNCHANGED opsVars
    BY <2>1 DEF opsVars, OpsInv, OpsTypeOK, StepOfPlaybook, OutcomeTrue, UndoAtHand, Is, Healthy
  <2>2. CASE ComposeRestore \/ ReleaseRestore
    <3>1. opsStep = "restore" /\ opsSaved' = opsSaved
      BY <2>2 DEF ComposeRestore, ReleaseRestore
    <3> QED  BY <2>2, <3>1, RestoreKept DEF ComposeRestore, ReleaseRestore, OpsKept, OpsInv
  <2>3. CASE TakeLock \/ PullAndVerify \/ RewritePin \/ ComposeUp \/ Snapshot \/ RunRelease \/ AptUpdate \/ AptInstall
             \/ CallSteward \/ Raises
    BY <2>3, LockKept, VerifyKept, RewriteKept, UpKept, SnapshotKept, ReleaseKept, AptKept, CallKept, RaisesKept
    DEF OpsKept, OpsInv
  <2> QED  BY <2>1, <2>2, <2>3 DEF OpsNext
<1> QED  BY <1>1, <1>2, PTL DEF OpsSpec

-----------------------------------------------------------------------------
(* The urgent mail *)

NotifyInv == NotifyTypeOK /\ MailsCounted /\ MailedOnce

(* Everything a mail can render is finite, and sets of it are counted. *)
LEMMA ItemsFinite ==
  ASSUME NEW S, S \subseteq NotifyItem
  PROVE  IsFiniteSet(S) /\ Cardinality(S) \in Nat
<1>1. NotifyItem \subseteq ((Alert \cup Momentary \cup Failure) \cup {Breaker}) \cup {Stopgap}
  BY DEF NotifyItem
<1>2. IsFiniteSet(((Alert \cup Momentary \cup Failure) \cup {Breaker}) \cup {Stopgap})
  BY NotifyAssumption, FS_AddElement
<1>3. IsFiniteSet(NotifyItem)
  BY <1>1, <1>2, FS_Subset
<1> QED  BY <1>3, FS_Subset, FS_CardinalityType

LEMMA LimitsPositive == MAX_RENDERED \in Nat /\ MAX_RENDERED > 0 /\ URGENT_MAX \in Nat /\ URGENT_MAX > 0 /\ MaxUnlucky \in Nat
BY NotifyAssumption

LEMMA OneMore ==
  ASSUME NEW n \in Nat, NEW m \in Nat
  PROVE  (n + 1) * m = n * m + m /\ n * m \in Nat
OBVIOUS

LEMMA NotifyBegins == NotifyInit => NotifyInv
<1> SUFFICES ASSUME NotifyInit PROVE NotifyInv
  OBVIOUS
<1>1. NotifyTypeOK
  <2>1. 0 \in 0..URGENT_MAX /\ 0 \in 0..MaxUnlucky /\ 0 \in Nat
    BY LimitsPositive
  <2>2. {tripOpen, gone, confirmed} \subseteq BOOLEAN
    BY DEF NotifyInit
  <2> QED  BY <2>1, <2>2 DEF NotifyInit, NotifyTypeOK
<1>2. Unrecorded = {} /\ Cardinality({}) = 0 /\ 0 * MAX_RENDERED = 0
  BY LimitsPositive, FS_EmptySet DEF NotifyInit, Unrecorded
<1>3. MailsCounted /\ MailedOnce
  BY <1>2, LimitsPositive DEF NotifyInit, MailsCounted, MailedOnce
<1> QED  BY <1>1, <1>3 DEF NotifyInv

(* The arithmetic that every step keeps: a mail is counted against bad luck before or after it. *)
Counted(r, unnoted, u) == r + Cardinality(unnoted) <= u * MAX_RENDERED

LEMMA CountedMeans ==
  ASSUME NotifyTypeOK', Unrecorded' \subseteq NotifyItem, Counted(repeats', Unrecorded', unlucky'), notified' \subseteq mailed',
         mailStep' = "sent" => rendered' \subseteq mailed' /\ Cardinality(rendered') <= MAX_RENDERED /\ mailsToday' < URGENT_MAX
  PROVE  NotifyInv'
<1>1. Cardinality(Unrecorded') \in Nat /\ repeats' \in Nat /\ unlucky' \in Nat
  BY ItemsFinite, LimitsPositive DEF NotifyTypeOK
<1>2. unlucky' * MAX_RENDERED \in Nat
  BY <1>1, LimitsPositive, OneMore
<1>3. MailsCounted' /\ MailedOnce'
  BY <1>1, <1>2 DEF Counted, MailsCounted, MailedOnce
<1> QED  BY <1>3 DEF NotifyInv

(* A step without bad luck that mails nothing leaves what is counted. *)
LEMMA NothingLost ==
  ASSUME NotifyInv, NotifyTypeOK', Unrecorded' = Unrecorded, UNCHANGED <<repeats, unlucky>>, notified' \subseteq mailed',
         mailStep' = "sent" => rendered' \subseteq mailed' /\ Cardinality(rendered') <= MAX_RENDERED /\ mailsToday' < URGENT_MAX
  PROVE  NotifyInv'
<1>1. Unrecorded \subseteq NotifyItem
  BY DEF NotifyInv, NotifyTypeOK, Unrecorded
<1>2. Counted(repeats', Unrecorded', unlucky')
  BY DEF NotifyInv, MailsCounted, Counted
<1> QED  BY <1>1, <1>2, CountedMeans

(* Bad luck may lose the record of one mail, and pays for it. *)
LEMMA BadLuckPays ==
  ASSUME NotifyInv, NotifyTypeOK', unlucky' = unlucky + 1, repeats' = repeats, notified' \subseteq mailed',
         mailStep' # "sent", NEW unnoted, unnoted \subseteq NotifyItem, Cardinality(unnoted) <= MAX_RENDERED,
         Unrecorded' \subseteq Unrecorded \cup unnoted
  PROVE  NotifyInv'
<1>1. Unrecorded \subseteq NotifyItem /\ unlucky \in Nat /\ repeats \in Nat
  BY LimitsPositive DEF NotifyInv, NotifyTypeOK, Unrecorded
<1>2. Unrecorded' \subseteq NotifyItem
  BY <1>1
<1>3. /\ IsFiniteSet(Unrecorded \cup unnoted) /\ Cardinality(Unrecorded \cup unnoted) \in Nat
      /\ Cardinality(Unrecorded') \in Nat /\ Cardinality(Unrecorded) \in Nat /\ Cardinality(unnoted) \in Nat
      /\ IsFiniteSet(Unrecorded) /\ IsFiniteSet(unnoted) /\ Cardinality(Unrecorded \cap unnoted) \in Nat
  BY <1>1, <1>2, ItemsFinite
<1>4. Cardinality(Unrecorded') <= Cardinality(Unrecorded \cup unnoted)
  BY <1>3, FS_Subset
<1>5. Cardinality(Unrecorded \cup unnoted) = Cardinality(Unrecorded) + Cardinality(unnoted) - Cardinality(Unrecorded \cap unnoted)
  BY <1>3, FS_Union
<1>6. repeats + Cardinality(Unrecorded) <= unlucky * MAX_RENDERED
  BY DEF NotifyInv, MailsCounted
<1>7. (unlucky + 1) * MAX_RENDERED = unlucky * MAX_RENDERED + MAX_RENDERED /\ unlucky * MAX_RENDERED \in Nat
  BY <1>1, LimitsPositive, OneMore
<1>8. Counted(repeats', Unrecorded', unlucky')
  BY <1>1, <1>3, <1>4, <1>5, <1>6, <1>7, LimitsPositive DEF Counted
<1> QED  BY <1>2, <1>8, CountedMeans

LEMMA WorksKept == ASSUME NotifyInv, TickWorks PROVE NotifyInv'
<1>1. PICK u \in SUBSET Alert, e \in SUBSET (Momentary \cup Failure) :
         /\ urgent' = u /\ events' = e
         /\ gone' \in {gone, gone \/ urgent \ u # {}}
         /\ tripOpen' \in (IF e \cap Failure # {} THEN {TRUE} ELSE {tripOpen})
  BY DEF TickWorks
<1>2. gone' \in BOOLEAN /\ tripOpen' \in BOOLEAN /\ confirmed' \in BOOLEAN
  <2>1. gone \in BOOLEAN /\ tripOpen \in BOOLEAN /\ confirmed' \in BOOLEAN
    BY DEF NotifyInv, NotifyTypeOK, TickWorks
  <2>2. (gone \/ urgent \ u # {}) \in BOOLEAN
    OBVIOUS
  <2> QED  BY <1>1, <2>1, <2>2
<1>3. mailStep = "idle" /\ mailStep' = "notify" /\ UNCHANGED <<mailsToday, notified, rendered, mailed, repeats, unlucky>>
  BY DEF TickWorks
<1>4. NotifyTypeOK'
  BY <1>1, <1>2, <1>3 DEF NotifyInv, NotifyTypeOK
<1>5. Unrecorded' = Unrecorded /\ notified' \subseteq mailed'
  BY <1>3 DEF Unrecorded, NotifyInv, MailedOnce
<1> QED  BY <1>3, <1>4, <1>5, NothingLost

LEMMA SendKept == ASSUME NotifyInv, SendUrgent PROVE NotifyInv'
<1>1. PICK r \in SUBSET Fresh : /\ Chosen(r, Fresh) /\ rendered' = r
                                /\ mailed' = mailed \cup r /\ repeats' = repeats + Cardinality(r \cap mailed)
  BY DEF SendUrgent
<1>2. /\ mailStep = "notify" /\ mailStep' = "sent" /\ mailsToday < URGENT_MAX
      /\ UNCHANGED <<urgent, tripOpen, gone, confirmed, mailsToday, notified, events, unlucky>>
  BY DEF SendUrgent, ToSend, condition
<1>3. r \subseteq NotifyItem /\ r \cap notified = {}
  BY DEF Fresh, UrgentItems, NotifyInv, NotifyTypeOK, NotifyItem
<1>4. mailed \subseteq NotifyItem /\ notified \subseteq mailed /\ repeats \in Nat
  BY DEF NotifyInv, NotifyTypeOK, MailedOnce
<1>5. /\ IsFiniteSet(Unrecorded) /\ Cardinality(Unrecorded) \in Nat /\ Cardinality(r \cap mailed) \in Nat
      /\ Unrecorded' \subseteq NotifyItem /\ Cardinality(Unrecorded') \in Nat
  <2>1. Unrecorded \subseteq NotifyItem /\ Unrecorded' \subseteq NotifyItem /\ r \cap mailed \subseteq NotifyItem
    BY <1>1, <1>3, <1>4 DEF Unrecorded
  <2> QED  BY <2>1, ItemsFinite
<1>6. Unrecorded' = Unrecorded \ r /\ Unrecorded \cap r = r \cap mailed
  BY <1>1, <1>2, <1>3 DEF Unrecorded
<1>7. Cardinality(Unrecorded \ r) = Cardinality(Unrecorded) - Cardinality(Unrecorded \cap r)
  BY <1>5, FS_Difference
<1>8. Counted(repeats', Unrecorded', unlucky')
  <2>1. repeats' = repeats + Cardinality(r \cap mailed) /\ unlucky' = unlucky
    BY <1>1, <1>2
  <2>2. Cardinality(Unrecorded') = Cardinality(Unrecorded) - Cardinality(r \cap mailed)
    BY <1>6, <1>7
  <2>3. repeats + Cardinality(Unrecorded) <= unlucky * MAX_RENDERED
    BY DEF NotifyInv, MailsCounted
  <2>4. repeats' + Cardinality(Unrecorded') = repeats + Cardinality(Unrecorded)
    BY <1>4, <1>5, <2>1, <2>2
  <2> QED  BY <2>1, <2>3, <2>4 DEF Counted
<1>9. Cardinality(rendered') <= MAX_RENDERED
  <2>1. Cardinality(Fresh) \in Nat
    <3>1. Fresh \subseteq NotifyItem
      BY DEF Fresh, UrgentItems, NotifyInv, NotifyTypeOK, NotifyItem
    <3> QED  BY <3>1, ItemsFinite
  <2> QED  BY <1>1, <2>1, LimitsPositive DEF Chosen
<1>10. NotifyTypeOK'
  <2>1. repeats' \in Nat
    BY <1>1, <1>4, <1>5
  <2> QED  BY <1>1, <1>2, <1>3, <2>1 DEF NotifyInv, NotifyTypeOK
<1> QED  BY <1>1, <1>2, <1>4, <1>5, <1>8, <1>9, <1>10, CountedMeans

LEMMA RecordKept == ASSUME NotifyInv, Record PROVE NotifyInv'
<1>1. /\ mailStep = "sent" /\ mailStep' = "report" /\ mailsToday' = mailsToday + 1 /\ notified' = notified \cup rendered
      /\ UNCHANGED <<urgent, tripOpen, gone, confirmed, events, rendered, mailed, repeats, unlucky>>
      /\ rendered \subseteq mailed /\ mailsToday < URGENT_MAX
  BY DEF Record, Noted, condition, NotifyInv, MailsCounted
<1>2. NotifyTypeOK'
  <2>1. mailsToday + 1 \in 0..URGENT_MAX
    BY <1>1, LimitsPositive DEF NotifyInv, NotifyTypeOK
  <2> QED  BY <1>1, <2>1 DEF NotifyInv, NotifyTypeOK
<1>3. Unrecorded' = Unrecorded /\ notified' \subseteq mailed'
  BY <1>1 DEF Unrecorded, NotifyInv, MailedOnce
<1> QED  BY <1>1, <1>2, <1>3, NothingLost

LEMMA DiesKept == ASSUME NotifyInv, NotifyDies PROVE NotifyInv'
<1>1. /\ mailStep # "idle" /\ unlucky < MaxUnlucky /\ unlucky' = unlucky + 1 /\ mailStep' = "idle" /\ events' = {}
      /\ rendered' = {} /\ UNCHANGED <<urgent, tripOpen, gone, confirmed, mailsToday, notified, mailed, repeats>>
  BY DEF NotifyDies, condition
<1>2. NotifyTypeOK'
  BY <1>1, LimitsPositive DEF NotifyInv, NotifyTypeOK
<1> DEFINE unnoted == IF mailStep = "sent" THEN rendered ELSE {}
<1>3. Cardinality(unnoted) <= MAX_RENDERED /\ unnoted \subseteq NotifyItem
  BY LimitsPositive, FS_EmptySet DEF NotifyInv, MailsCounted, NotifyTypeOK
<1>4. Unrecorded' \subseteq Unrecorded \cup unnoted
  BY <1>1 DEF Unrecorded
<1>5. notified' \subseteq mailed'
  BY <1>1 DEF NotifyInv, MailedOnce
<1> HIDE DEF unnoted
<1> QED  BY <1>1, <1>2, <1>3, <1>4, <1>5, BadLuckPays

LEMMA LuckKept == ASSUME NotifyInv, SendFails \/ ResetTrip PROVE NotifyInv'
<1>1. /\ mailStep # "sent" /\ mailStep' # "sent" /\ mailStep' \in {"idle", "report"} /\ unlucky < MaxUnlucky
      /\ unlucky' = unlucky + 1 /\ UNCHANGED <<urgent, gone, confirmed, mailsToday, events, rendered, repeats>>
      /\ \/ UNCHANGED <<notified, mailed, tripOpen>>
         \/ notified' = notified \ {Breaker} /\ mailed' = mailed \ {Breaker} /\ tripOpen' = FALSE
  BY DEF SendFails, ResetTrip, ToSend, condition
<1>2. NotifyTypeOK'
  <2>1. unlucky + 1 \in 0..MaxUnlucky
    BY <1>1, LimitsPositive DEF NotifyInv, NotifyTypeOK
  <2>2. tripOpen' \in BOOLEAN /\ {gone, confirmed} \subseteq BOOLEAN
    BY <1>1 DEF NotifyInv, NotifyTypeOK
  <2>3. notified' \subseteq notified /\ mailed' \subseteq mailed
    BY <1>1
  <2> QED  BY <1>1, <2>1, <2>2, <2>3 DEF NotifyInv, NotifyTypeOK
<1>3. Unrecorded' \subseteq Unrecorded \cup {} /\ notified' \subseteq mailed'
  BY <1>1 DEF Unrecorded, NotifyInv, MailedOnce
<1>4. {} \subseteq NotifyItem /\ Cardinality({}) <= MAX_RENDERED
  BY FS_EmptySet, LimitsPositive
<1> QED  BY <1>1, <1>2, <1>3, <1>4, BadLuckPays

LEMMA QuietKept == ASSUME NotifyInv, Quiet \/ Report \/ MailDayPasses PROVE NotifyInv'
<1>1. /\ UNCHANGED <<urgent, tripOpen, gone, confirmed, notified, mailed, repeats, unlucky>>
      /\ mailStep' = "sent" <=> mailStep = "sent"
      /\ mailStep' = "sent" => rendered' = rendered
      /\ mailStep' \in {"idle", "notify", "sent", "report"} /\ mailsToday' \in {0, mailsToday}
      /\ events' \in {events, {}} /\ rendered' \in {rendered, {}}
  BY DEF Quiet, Report, MailDayPasses, condition, NotifyInv, NotifyTypeOK
<1>2. NotifyTypeOK'
  BY <1>1, LimitsPositive DEF NotifyInv, NotifyTypeOK
<1>3. Unrecorded' = Unrecorded /\ notified' \subseteq mailed'
  BY <1>1 DEF Unrecorded, NotifyInv, MailedOnce
<1>4. mailStep' = "sent" => rendered' \subseteq mailed' /\ Cardinality(rendered') <= MAX_RENDERED /\ mailsToday' < URGENT_MAX
  BY <1>1, LimitsPositive DEF NotifyInv, MailsCounted
<1> QED  BY <1>1, <1>2, <1>3, <1>4, NothingLost

(* No item is recorded that was not mailed, and mails repeat no more than bad luck explains. *)
THEOREM NotifyInvariance == NotifySpec => []NotifyInv
<1>1. NotifyInit => NotifyInv
  BY NotifyBegins
<1>2. NotifyInv /\ [NotifyNext]_notifyVars => NotifyInv'
  <2> SUFFICES ASSUME NotifyInv, [NotifyNext]_notifyVars PROVE NotifyInv'
    OBVIOUS
  <2>1. CASE UNCHANGED notifyVars
    BY <2>1 DEF notifyVars, NotifyInv, NotifyTypeOK, MailsCounted, MailedOnce, Unrecorded
  <2>2. CASE NotifyNext
    BY <2>2, WorksKept, SendKept, RecordKept, DiesKept, LuckKept, QuietKept DEF NotifyNext, NotifyStep
  <2> QED  BY <2>1, <2>2
<1> QED  BY <1>1, <1>2, PTL DEF NotifySpec

-----------------------------------------------------------------------------
(* All of them *)

(* Whichever machine moves, each part makes steps of its own specification or none. *)
LEMMA PartsStep ==
  ASSUME [WatchNext]_mcVars
  PROVE  /\ [TickNext]_watchVars /\ [NotifyNext]_notifyVars /\ [PrNext]_prVars /\ [OpsNext]_opsVars
         /\ UNCHANGED asked
BY DEF WatchNext, mcVars

LEMMA PartsMove == WatchSpec => TickSpec /\ NotifySpec /\ PrSpec /\ OpsSpec
<1>1. WatchInit => TickInit /\ NotifyInit /\ PrInit /\ OpsInit
  BY DEF WatchInit
<1>2. [WatchNext]_mcVars =>
         [TickNext]_watchVars /\ [NotifyNext]_notifyVars /\ [PrNext]_prVars /\ [OpsNext]_opsVars
  BY PartsStep
<1> QED  BY <1>1, <1>2, PTL DEF WatchSpec, TickSpec, NotifySpec, PrSpec, OpsSpec

(* What a tick may be asked to plan is within the reach of StdlibPlan. *)
LEMMA AskedPlanned == WatchInit => StdlibPlanClears(asked.findings, asked.spec, asked.repo)
<1> SUFFICES ASSUME WatchInit PROVE StdlibPlanClears(asked.findings, asked.spec, asked.repo)
  OBVIOUS
<1>1. PlanVersions \subseteq VersionsTo(2)
  BY DEF PlanVersions, VersionsTo
<1>2. CASE asked = Unasked
  <2>1. asked.findings = << >>
    BY <1>2 DEF Unasked
  <2> QED  BY <2>1, StdlibPlan
<1>3. CASE asked \in Asked
  <2> DEFINE F == [kind : {"go-stdlib", "pip"}, fixed : SUBSET PlanVersions \ {{}},
                   version : {[line |-> 1, patch |-> 1]}]
  <2>1. asked.findings \in {<<f>> : f \in F} \cup (F \X F)
    BY <1>3 DEF Asked
  <2>2. \A n \in DOMAIN asked.findings : asked.findings[n] \in F
    <3>1. CASE asked.findings \in {<<f>> : f \in F}
      BY <3>1
    <3>2. CASE asked.findings \in F \X F
      BY <3>2
    <3> QED  BY <2>1, <3>1, <3>2
  <2>3. \A n \in DOMAIN asked.findings : asked.findings[n].fixed \subseteq VersionsTo(2)
    BY <1>1, <2>2
  <2> QED  BY <2>3, StdlibPlan
<1> QED  BY <1>2, <1>3 DEF WatchInit

(* Types, and what holds between the steps of each part, hold whichever of them moves. *)
THEOREM WatchTyped == WatchSpec => []TypesOK
<1>1. NotifyInv => NotifyTypeOK /\ MailsCounted
  BY DEF NotifyInv
<1>2. PrInv => PrTypeOK /\ LookHolds
  BY DEF PrInv
<1>3. OpsInv => OpsTypeOK /\ StepOfPlaybook
  BY DEF OpsInv
<1> QED  BY <1>1, <1>2, <1>3, PartsMove, TickInvariance, NotifyInvariance, PrInvariance, OpsInvariance, PTL DEF TypesOK

(* What security-watch reports is so, however its parts take turns. *)
THEOREM ReportsAreTrue == WatchSpec => []WatchTellsTruth
<1> DEFINE Planned == StdlibPlanClears(asked.findings, asked.spec, asked.repo)
<1>1. WatchSpec => []Planned
  <2>1. Planned /\ [WatchNext]_mcVars => Planned'
    BY PartsStep
  <2>2. WatchInit => Planned
    BY AskedPlanned
  <2> QED  BY <2>1, <2>2, PTL DEF WatchSpec
<1>2. NotifyInv => MailedOnce
  BY DEF NotifyInv
<1>3. PrInv => MergeIsVetted /\ DoneIsDeployed
  BY DEF PrInv
<1>4. OpsInv => OutcomeTrue /\ UndoAtHand
  BY DEF OpsInv
<1> HIDE DEF Planned
<1>5. WatchTellsTruth <=> MailedOnce /\ MergeIsVetted /\ DoneIsDeployed /\ OutcomeTrue /\ UndoAtHand /\ Planned
  BY DEF WatchTellsTruth, Planned
<1> QED  BY <1>1, <1>2, <1>3, <1>4, <1>5, PartsMove, NotifyInvariance, PrInvariance, OpsInvariance, PTL
================================================================================
