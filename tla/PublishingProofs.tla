-------------------------- MODULE PublishingProofs --------------------------
(* What leaves the host, for all its parameters: the record of public          *)
(* attention, the published edition with its mail, the commits of the dotfiles  *)
(* and the curated selection, each from an inductive invariant of its own; and  *)
(* the front page, of any finite set of scored stories.                         *)
EXTENDS MCPublishing, FiniteSetTheorems, SequenceTheorems, WellFoundedInduction, TLAPS

SourceRow == [status : {"ok", "partial", "unavailable"}, attempts : 1..MAX_SOURCE_ATTEMPTS]
AskerState == [pc : {"idle", "sending"}, ask : Ask \cup {<<>>}, tries : Nat]
Answers == [Source -> {"ok", "partial", "unavailable"}]
Honest == AttTypeOK /\ HandsInFlight /\ BreakerHolds

(* What a step may do to the snapshot. *)
Improves == \A s \in DOMAIN snap : /\ StatusRank(snap'[s].status) >= StatusRank(snap[s].status)
                                   /\ snap'[s].attempts <= MAX_SOURCE_ATTEMPTS

(* The breaker is closed as long as nothing failed.                           *)
LEMMA BreakerPositive == Breaker \in Nat /\ ~(0 >= Breaker)
<1>1. Breaker \in Nat \ {0}
      BY AttentionAssumption, Zenon
<1> QED BY <1>1

LEMMA HonestInitially == AttInit => Honest
<1> SUFFICES ASSUME AttInit PROVE Honest
    OBVIOUS
<1>1. asker \in [Worker -> AskerState] /\ \A w \in Worker : asker[w].pc # "sending"
      BY DEF AttInit, Idle, AskerState
<1>2. visits \in 0..MaxVisits
  <2>1. MaxVisits \in Nat
        BY AttentionAssumption, Zenon
  <2>2. visits = 0
        BY DEF AttInit
  <2> QED BY <2>1, <2>2
<1>3. tripped \in BOOLEAN /\ (tripped <=> Open)
  <2>1. consecutive = 0 /\ tripped = FALSE
        BY Zenon DEF AttInit
  <2>2. ~Open
        BY <2>1, BreakerPositive DEF Open
  <2> QED BY <2>1, <2>2, Zenon
<1>4. AttTypeOK
  <2>1. snap = Nothing /\ attStep = "load" /\ todo = {} /\ failedAsk = {} /\ consecutive = 0
        BY DEF AttInit
  <2>2. todo \subseteq Ask /\ failedAsk \subseteq Story /\ consecutive \in Nat
        BY <2>1
  <2> QED BY <1>1, <1>2, <1>3, <2>1, <2>2, Zenon DEF AttTypeOK, AskerState
<1>5. HandsInFlight /\ BreakerHolds
      BY DEF AttInit, HandsInFlight, BreakerHolds
<1> QED BY <1>4, <1>5 DEF Honest

(* A collection, and its retry (_retry_incomplete), give rows within bounds.   *)
LEMMA CollectedType == ASSUME NEW c \in Answers PROVE Collected(c) \in [Source -> SourceRow]
BY AttentionAssumption DEF Answers, Collected, SourceRow

LEMMA RetriedImproves ==
    ASSUME NEW old \in [Source -> SourceRow], NEW c \in Answers
    PROVE  /\ Retried(old, c) \in [Source -> SourceRow]
           /\ \A s \in Source : StatusRank(Retried(old, c)[s].status) >= StatusRank(old[s].status)
<1> SUFFICES ASSUME NEW s \in Source
             PROVE  /\ Retried(old, c)[s] \in SourceRow
                    /\ StatusRank(Retried(old, c)[s].status) >= StatusRank(old[s].status)
    BY DEF Retried
<1>1. old[s] \in SourceRow /\ c[s] \in {"ok", "partial", "unavailable"}
      BY DEF Answers
<1>2. CASE s \notin PendingIn(old)
  <2>1. Retried(old, c)[s] = old[s]
        BY <1>2 DEF Retried
  <2>2. StatusRank(old[s].status) \in Nat
        BY <1>1 DEF StatusRank, SourceRow
  <2> QED BY <1>1, <2>1, <2>2
<1>3. CASE s \in PendingIn(old)
  <2>1. Retried(old, c)[s] =
          [status |-> IF StatusRank(c[s]) > StatusRank(old[s].status) THEN c[s] ELSE old[s].status,
           attempts |-> old[s].attempts + 1]
        BY <1>3 DEF Retried
  <2>2. old[s].attempts + 1 \in 1..MAX_SOURCE_ATTEMPTS
        BY <1>1, <1>3, AttentionAssumption DEF PendingIn, SourceRow
  <2>3. StatusRank(old[s].status) \in Nat /\ StatusRank(c[s]) \in Nat
        BY <1>1 DEF StatusRank, SourceRow
  <2> QED BY <1>1, <2>1, <2>2, <2>3 DEF SourceRow
<1> QED BY <1>2, <1>3

LEMMA LoadStep ==
    ASSUME Honest, NEW first \in Answers, NEW second \in Answers,
           NEW recent \in BOOLEAN, NEW writes \in BOOLEAN, LoadSnapshot(first, second, recent, writes)
    PROVE  Honest' /\ Improves
<1> DEFINE built == Retried(Collected(first), second)
           later == IF recent THEN Retried(snap, second) ELSE snap
           next == IF snap = Nothing THEN built ELSE later
<1>1. snap = Nothing \/ snap \in [Source -> SourceRow]
      BY DEF Honest, AttTypeOK, SourceRow
<1>2. built \in [Source -> SourceRow]
      BY CollectedType, RetriedImproves
<1>3. snap # Nothing => /\ later \in [Source -> SourceRow]
                        /\ \A s \in Source : StatusRank(later[s].status) >= StatusRank(snap[s].status)
  <2> SUFFICES ASSUME snap # Nothing
               PROVE  /\ later \in [Source -> SourceRow]
                      /\ \A s \in Source : StatusRank(later[s].status) >= StatusRank(snap[s].status)
      OBVIOUS
  <2>1. \A s \in Source : StatusRank(snap[s].status) \in Nat
        BY <1>1 DEF StatusRank, SourceRow
  <2>2. /\ Retried(snap, second) \in [Source -> SourceRow]
        /\ \A s \in Source : StatusRank(Retried(snap, second)[s].status) >= StatusRank(snap[s].status)
        BY <1>1, RetriedImproves
  <2> QED BY <1>1, <2>1, <2>2
<1>4. snap' = next \/ snap' = snap
      BY DEF LoadSnapshot
<1>5. snap' \in {Nothing} \cup [Source -> SourceRow]
  <2> HIDE DEF built, later
  <2> QED BY <1>1, <1>2, <1>3, <1>4
<1>6. Improves
  <2>1. CASE snap = Nothing
        BY <2>1 DEF Improves, Nothing
  <2>2. CASE snap # Nothing
    <3>1. DOMAIN snap = Source
          BY <1>1, <2>2
    <3>2. \A s \in Source : StatusRank(snap[s].status) \in Nat
          BY <1>1, <2>2 DEF StatusRank, SourceRow
    <3>3. \A s \in Source : snap'[s].attempts <= MAX_SOURCE_ATTEMPTS
      <4>1. snap' \in [Source -> SourceRow]
        <5> HIDE DEF later
        <5> QED BY <1>1, <1>3, <1>4, <2>2
      <4> QED BY <4>1, AttentionAssumption DEF SourceRow
    <3>4. snap' = later \/ snap' = snap
          BY <1>4, <2>2
    <3> HIDE DEF later
    <3> QED BY <1>3, <2>2, <3>1, <3>2, <3>3, <3>4 DEF Improves
  <2> QED BY <2>1, <2>2
<1>7. asker' \in [Worker -> AskerState]
      BY DEF LoadSnapshot, Idle, AskerState
<1>8. visits' \in 0..MaxVisits
  <2>1. MaxVisits \in Nat
        BY AttentionAssumption, Zenon
  <2>2. visits \in 0..MaxVisits /\ visits < MaxVisits /\ visits' = visits + 1
        BY Zenon DEF LoadSnapshot, Honest, AttTypeOK
  <2> QED BY <2>1, <2>2
<1>11. tripped' \in BOOLEAN /\ (tripped' <=> Open')
  <2>1. tripped' = FALSE /\ consecutive' = 0
        BY Zenon DEF LoadSnapshot
  <2>2. ~(consecutive' >= Breaker)
        BY <2>1, BreakerPositive
  <2>3. ~Open'
        BY <2>2, Zenon DEF Open
  <2> QED BY <2>1, <2>3, Zenon
<1>9. AttTypeOK'
  <2>1. /\ attStep' = "adjudicate" /\ todo' = Ask /\ failedAsk' = {} /\ consecutive' = 0
        /\ \A w \in Worker : asker'[w].pc # "sending"
        BY DEF LoadSnapshot, Idle
  <2>2. todo' \subseteq Ask /\ failedAsk' \subseteq Story /\ consecutive' \in Nat
        BY <2>1
  <2> QED BY <1>5, <1>7, <1>8, <1>11, <2>1, <2>2, Zenon DEF AttTypeOK, SourceRow, AskerState
<1>10. HandsInFlight' /\ BreakerHolds'
      BY DEF LoadSnapshot, HandsInFlight, BreakerHolds
<1> QED BY <1>6, <1>9, <1>10 DEF Honest

LEMMA TakeStep ==
    ASSUME Honest, NEW w \in Worker, NEW a \in Ask, TakeAsk(w, a)
    PROVE  Honest'
<1>1. CASE Open
  <2>1. AttTypeOK'
        BY <1>1 DEF Honest, AttTypeOK, TakeAsk, Open, Ask
  <2> QED BY <1>1, <2>1 DEF Honest, TakeAsk, HandsInFlight, BreakerHolds
<1>2. CASE ~Open
  <2>1. asker' \in [Worker -> AskerState]
        BY <1>2 DEF Honest, AttTypeOK, TakeAsk, AskerState
  <2>2. AttTypeOK'
        BY <1>2, <2>1 DEF Honest, AttTypeOK, TakeAsk, Open, AskerState
  <2>3. ~tripped'
        BY <1>2 DEF Honest, AttTypeOK, TakeAsk
  <2> QED BY <2>2, <2>3 DEF Honest, HandsInFlight, BreakerHolds
<1> QED BY <1>1, <1>2

LEMMA SendStep ==
    ASSUME Honest, NEW w \in Worker, NEW result \in {"answered", "transient", "refused"}, Send(w, result)
    PROVE  Honest'
<1> DEFINE count == asker[w].tries + 1
<1>1. asker \in [Worker -> AskerState] /\ asker[w].pc = "sending" /\ asker[w].ask \in Ask
      BY DEF Honest, AttTypeOK, Send, AskerState
<1>2. Idle \in AskerState
      BY DEF Idle, AskerState
<1>3. CASE result = "answered"
  <2>1. /\ consecutive' = 0 /\ tripped' = FALSE /\ asker' = [asker EXCEPT ![w] = Idle]
        /\ failedAsk' = failedAsk
        BY <1>3 DEF Send
  <2>2. asker' \in [Worker -> AskerState]
        BY <1>1, <1>2, <2>1
  <2>3. tripped' \in BOOLEAN /\ (tripped' <=> Open')
    <3>1. ~(consecutive' >= Breaker)
          BY <2>1, BreakerPositive
    <3>2. ~Open'
          BY <3>1, Zenon DEF Open
    <3> QED BY <2>1, <3>2, Zenon
  <2>4. AttTypeOK'
        BY <2>1, <2>2, <2>3 DEF Honest, AttTypeOK, Send, AskerState, Idle
  <2> QED BY <2>1, <2>4 DEF Honest, HandsInFlight, BreakerHolds
<1>4. CASE result = "transient" /\ count < MAX_ATTEMPTS
  <2>1. /\ asker' = [asker EXCEPT ![w].tries = count]
        /\ UNCHANGED <<consecutive, failedAsk, tripped, inFlight>>
        BY <1>4 DEF Send
  <2>2. /\ asker' \in [Worker -> AskerState]
        /\ \A v \in Worker : asker'[v].pc = asker[v].pc /\ asker'[v].ask = asker[v].ask
        BY <1>1, <2>1 DEF AskerState
  <2>3. AttTypeOK'
        BY <2>1, <2>2 DEF Honest, AttTypeOK, Send, Open, AskerState
  <2>4. sent' = IF tripped /\ result # "answered" THEN sent \cup {asker[w].ask} ELSE {}
        BY DEF Send
  <2>5. HandsInFlight'
        BY <2>1, <2>2 DEF Honest, HandsInFlight
  <2>6. BreakerHolds'
        BY <1>1, <2>1, <2>4 DEF Honest, HandsInFlight, BreakerHolds
  <2> QED BY <2>3, <2>5, <2>6 DEF Honest
<1>5. CASE result # "answered" /\ ~(result = "transient" /\ count < MAX_ATTEMPTS)
  <2>1. Fails(w)
        BY <1>5 DEF Send
  <2>2. asker' \in [Worker -> AskerState]
        BY <1>1, <1>2, <2>1 DEF Fails
  <2>3. consecutive' \in Nat /\ tripped' \in BOOLEAN /\ (tripped' <=> Open')
    <3>1. consecutive' = consecutive + 1 /\ tripped' = (consecutive' >= Breaker)
          BY <2>1 DEF Fails
    <3>2. consecutive' \in Nat
          BY <3>1 DEF Honest, AttTypeOK
    <3>3. (consecutive' >= Breaker) \in BOOLEAN
          BY <3>2, BreakerPositive
    <3> QED BY <3>1, <3>2, <3>3, Zenon DEF Open
  <2>4. failedAsk' \subseteq Story
    <3> QED BY <1>1, <2>1 DEF Honest, AttTypeOK, Fails, Ask
  <2>5. AttTypeOK'
        BY <2>2, <2>3, <2>4 DEF Honest, AttTypeOK, Send, AskerState, Fails, Idle
  <2>6. tripped => tripped'
        BY <2>1, <2>3, AttentionAssumption DEF Honest, AttTypeOK, Open, Fails
  <2>7. \A v \in Worker : asker'[v].pc # "idle" => v # w /\ asker'[v] = asker[v]
        BY <1>1, <2>1 DEF Fails, Idle
  <2>8. inFlight' = IF tripped' /\ ~tripped
                    THEN {asker[v].ask : v \in {v \in Worker \ {w} : asker[v].pc # "idle"}} ELSE inFlight
        BY <2>1 DEF Fails
  <2>9. HandsInFlight'
        BY <2>6, <2>7, <2>8 DEF Honest, HandsInFlight
  <2>10. sent' = IF tripped /\ result # "answered" THEN sent \cup {asker[w].ask} ELSE {}
        BY DEF Send
  <2>11. BreakerHolds'
        BY <1>1, <2>6, <2>8, <2>10 DEF Honest, HandsInFlight, BreakerHolds
  <2> QED BY <2>5, <2>9, <2>11 DEF Honest
<1> QED BY <1>3, <1>4, <1>5

(* Inductive invariant: rows are within bounds, a worker that sends has an    *)
(* ask in hand, and while the breaker is open that ask was in flight when it  *)
(* opened; without this last part BreakerHolds is not inductive, as a retry   *)
(* under an open breaker could send what no one had in hand.                  *)
LEMMA StepHonest == Honest /\ [AttNext]_attVars => Honest'
<1> SUFFICES ASSUME Honest, [AttNext]_attVars PROVE Honest'
    OBVIOUS
<1>1. ASSUME NEW first \in Answers, NEW second \in Answers, NEW recent \in BOOLEAN,
             NEW writes \in BOOLEAN, LoadSnapshot(first, second, recent, writes)
      PROVE  Honest'
      BY <1>1, LoadStep
<1>2. ASSUME NEW w \in Worker, NEW a \in todo, TakeAsk(w, a) PROVE Honest'
  <2>1. a \in Ask
        BY <1>2 DEF Honest, AttTypeOK
  <2> QED BY <1>2, <2>1, TakeStep
<1>3. ASSUME NEW w \in Worker, NEW result \in {"answered", "transient", "refused"}, Send(w, result)
      PROVE  Honest'
      BY <1>3, SendStep
<1>4. ASSUME NEW seen \in SUBSET Story, Score(seen) PROVE Honest'
  <2>1. UNCHANGED <<snap, visits, asker, todo, failedAsk, consecutive, tripped, inFlight, sent>>
        /\ attStep' = "load"
        BY <1>4, Zenon DEF Score, JevState
  <2> QED BY <2>1 DEF Honest, AttTypeOK, HandsInFlight, BreakerHolds, Open
<1>5. CASE UNCHANGED attVars
      BY <1>5 DEF attVars, Honest, AttTypeOK, HandsInFlight, BreakerHolds, Open
<1> QED BY <1>1, <1>2, <1>3, <1>4, <1>5 DEF AttNext, Answers

(* Every ask reaches an end: scoring finds each one answered, or counts it against its story. *)
AttInv == Honest /\ AsksAccounted /\ NeverGuessed

LEMMA LoadAccounts ==
    ASSUME NEW first, NEW second, NEW recent, NEW writes, LoadSnapshot(first, second, recent, writes)
    PROVE  AsksAccounted' /\ NeverGuessed'
<1>1. todo' = Ask /\ attOutcome' = ""
      BY Zenon DEF LoadSnapshot
<1> QED BY <1>1 DEF AsksAccounted, NeverGuessed

LEMMA TakeAccounts == ASSUME AttInv, NEW w \in Worker, NEW a \in Ask, TakeAsk(w, a) PROVE AsksAccounted' /\ NeverGuessed'
<1>1. /\ attStep = "adjudicate" /\ attStep' = attStep /\ attOutcome = "" /\ UNCHANGED <<attOutcome, answered, verdicts>>
      /\ asker[w].pc = "idle" /\ todo' = todo \ {a} /\ asker \in [Worker -> AskerState]
      BY Zenon DEF TakeAsk, AttInv, AsksAccounted, Honest, AttTypeOK, AskerState
<1>2. ASSUME NEW b \in Ask
      PROVE  \/ b \in todo' \cup answered' \/ b[1] \in failedAsk'
             \/ \E v \in Worker : asker'[v].pc = "sending" /\ asker'[v].ask = b
  <2>1. \/ b \in todo \cup answered \/ b[1] \in failedAsk
        \/ \E v \in Worker : asker[v].pc = "sending" /\ asker[v].ask = b
        BY <1>1 DEF AttInv, AsksAccounted
  <2>2. CASE Open
    <3>1. failedAsk' = failedAsk \cup {a[1]} /\ asker' = asker
          BY <2>2 DEF TakeAsk
    <3> QED BY <1>1, <2>1, <3>1
  <2>3. CASE ~Open
    <3>1. failedAsk' = failedAsk /\ asker' = [asker EXCEPT ![w] = [pc |-> "sending", ask |-> a, tries |-> 0]]
          BY <2>3 DEF TakeAsk
    <3>2. asker'[w].pc = "sending" /\ asker'[w].ask = a /\ \A v \in Worker : v # w => asker'[v] = asker[v]
          BY <1>1, <3>1
    <3>3. CASE b = a
          BY <3>2, <3>3
    <3>4. CASE b # a
          BY <1>1, <2>1, <3>1, <3>2, <3>4
    <3> QED BY <3>3, <3>4
  <2> QED BY <2>2, <2>3
<1> QED BY <1>1, <1>2 DEF AsksAccounted, NeverGuessed, AttInv

LEMMA SendAccounts ==
    ASSUME AttInv, NEW w \in Worker, NEW result \in {"answered", "transient", "refused"}, Send(w, result)
    PROVE  AsksAccounted' /\ NeverGuessed'
<1>1. /\ asker \in [Worker -> AskerState] /\ asker[w].pc = "sending" /\ asker[w].ask \in Ask
      /\ UNCHANGED <<attStep, todo, verdicts, attOutcome>>
      BY DEF Send, AttInv, Honest, AttTypeOK, AskerState
<1>2. answered \subseteq answered'
      BY DEF Send
<1>3. /\ failedAsk \subseteq failedAsk' /\ \A v \in Worker : v # w => asker'[v] = asker[v]
      /\ \/ asker[w].ask \in answered' \/ asker[w].ask[1] \in failedAsk'
         \/ asker'[w].pc = "sending" /\ asker'[w].ask = asker[w].ask
  <2>1. CASE result = "answered"
    <3>1. answered' = answered \cup {asker[w].ask} /\ asker' = [asker EXCEPT ![w] = Idle] /\ failedAsk' = failedAsk
          BY <2>1 DEF Send
    <3> QED BY <1>1, <3>1
  <2>2. CASE result = "transient" /\ asker[w].tries + 1 < MAX_ATTEMPTS
    <3>1. asker' = [asker EXCEPT ![w].tries = asker[w].tries + 1] /\ failedAsk' = failedAsk
          BY <2>2 DEF Send
    <3>2. asker[w] \in AskerState
          BY <1>1
    <3>3. asker'[w] = [asker[w] EXCEPT !.tries = asker[w].tries + 1] /\ \A v \in Worker : v # w => asker'[v] = asker[v]
          BY <1>1, <3>1
    <3>4. asker'[w].pc = "sending" /\ asker'[w].ask = asker[w].ask
          BY <1>1, <3>2, <3>3 DEF AskerState
    <3> QED BY <3>1, <3>3, <3>4
  <2>3. CASE result # "answered" /\ ~(result = "transient" /\ asker[w].tries + 1 < MAX_ATTEMPTS)
    <3>1. failedAsk' = failedAsk \cup {asker[w].ask[1]} /\ asker' = [asker EXCEPT ![w] = Idle]
          BY <2>3 DEF Send, Fails
    <3> QED BY <1>1, <3>1
  <2> QED BY <2>1, <2>2, <2>3
<1>4. AsksAccounted'
  <2> SUFFICES ASSUME attStep = "adjudicate", NEW b \in Ask
               PROVE  \/ b \in todo' \cup answered' \/ b[1] \in failedAsk'
                      \/ \E v \in Worker : asker'[v].pc = "sending" /\ asker'[v].ask = b
      BY <1>1 DEF AsksAccounted, AttInv
  <2>1. \/ b \in todo \cup answered \/ b[1] \in failedAsk
        \/ \E v \in Worker : asker[v].pc = "sending" /\ asker[v].ask = b
        BY DEF AttInv, AsksAccounted
  <2> QED BY <1>1, <1>2, <1>3, <2>1
<1> QED BY <1>1, <1>2, <1>4 DEF AttInv, NeverGuessed

LEMMA ScoreAccounts == ASSUME AttInv, NEW seen \in SUBSET Story, Score(seen) PROVE AsksAccounted' /\ NeverGuessed'
<1> DEFINE verdict(s) == IF s \in failedAsk \/ Measured = {} THEN "unavailable"
                         ELSE IF s \in seen THEN "ok" ELSE "no_matches"
<1>1. /\ attStep = "adjudicate" /\ attStep' = "load" /\ todo = {} /\ (\A w \in Worker : asker[w].pc = "idle")
      /\ verdicts' = [s \in Story |-> verdict(s)] /\ answered' = answered
      /\ attOutcome' = IF failedAsk # {} \/ (\E s \in Story : verdict(s) = "unavailable") THEN "degraded" ELSE "succeeded"
      BY DEF Score, JevState
<1>2. AsksAccounted'
      BY <1>1 DEF AsksAccounted
<1>3. ASSUME NEW s \in Story
      PROVE  IF verdicts'[s] = "unavailable" THEN attOutcome' = "degraded" ELSE {s} \X (1..Batches) \subseteq answered'
  <2>1. verdicts'[s] = verdict(s)
        BY <1>1
  <2>2. CASE verdict(s) = "unavailable"
    <3> HIDE DEF verdict
    <3> QED BY <1>1, <2>1, <2>2
  <2>3. CASE verdict(s) # "unavailable"
    <3>1. s \notin failedAsk
      <4>1. s \in failedAsk => verdict(s) = "unavailable"
            OBVIOUS
      <4> HIDE DEF verdict
      <4> QED BY <2>3, <4>1
    <3>2. ASSUME NEW n \in 1..Batches PROVE <<s, n>> \in answered
      <4>1. <<s, n>> \in Ask /\ <<s, n>>[1] = s
            BY DEF Ask
      <4> QED BY <1>1, <3>1, <4>1 DEF AttInv, AsksAccounted
    <3> HIDE DEF verdict
    <3> QED BY <1>1, <2>1, <2>3, <3>2
  <2> QED BY <2>2, <2>3
<1> QED BY <1>2, <1>3 DEF NeverGuessed

(* Inductive invariant of the adjudication: with the breaker's part, no ask is   *)
(* lost between the queue, the workers, the answers and the failed stories.      *)
THEOREM AttInvariance == ASSUME AttInv, [AttNext]_attVars PROVE AttInv'
<1>1. Honest'
      BY StepHonest DEF AttInv
<1>2. CASE AttNext
  <2>1. ASSUME NEW first \in Answers, NEW second \in Answers, NEW recent \in BOOLEAN,
               NEW writes \in BOOLEAN, LoadSnapshot(first, second, recent, writes)
        PROVE  AsksAccounted' /\ NeverGuessed'
        BY <2>1, LoadAccounts
  <2>2. ASSUME NEW w \in Worker, NEW a \in todo, TakeAsk(w, a) PROVE AsksAccounted' /\ NeverGuessed'
    <3>1. a \in Ask
          BY <2>2 DEF AttInv, Honest, AttTypeOK
    <3> QED BY <2>2, <3>1, TakeAccounts
  <2> QED BY <1>1, <1>2, <2>1, <2>2, SendAccounts, ScoreAccounts DEF AttNext, Answers, AttInv
<1>3. CASE UNCHANGED attVars
      BY <1>1, <1>3 DEF attVars, AttInv, AsksAccounted, NeverGuessed
<1> QED BY <1>2, <1>3

LEMMA AttInitially == AttInit => AttInv
<1>1. AttInit => AsksAccounted /\ NeverGuessed
      BY DEF AttInit, AsksAccounted, NeverGuessed
<1> QED BY <1>1, HonestInitially DEF AttInv

(* The stored snapshot: no topic of a date makes a source worse than an       *)
(* earlier one found it, nor asks for it more than MAX_SOURCE_ATTEMPTS times. *)
THEOREM SnapshotOnlyImproves == AttSpec => SnapshotImproves
<1>1. Honest /\ [AttNext]_attVars => [Improves]_attVars
  <2> SUFFICES ASSUME Honest, AttNext PROVE Improves
      OBVIOUS
  <2>1. ASSUME NEW first \in Answers, NEW second \in Answers, NEW recent \in BOOLEAN,
               NEW writes \in BOOLEAN, LoadSnapshot(first, second, recent, writes)
        PROVE  Improves
        BY <2>1, LoadStep
  <2>2. CASE UNCHANGED snap
    <3>1. \A s \in DOMAIN snap : /\ snap[s].attempts <= MAX_SOURCE_ATTEMPTS
                                 /\ StatusRank(snap[s].status) \in Nat
      <4>1. CASE snap = Nothing
            BY <4>1 DEF Nothing
      <4>2. CASE snap \in [Source -> SourceRow]
            BY <4>2, AttentionAssumption DEF SourceRow, StatusRank
      <4> QED BY <4>1, <4>2 DEF Honest, AttTypeOK, SourceRow
    <3> QED BY <2>2, <3>1 DEF Improves
  <2>3. ASSUME NEW w \in Worker, NEW a \in todo, TakeAsk(w, a) PROVE UNCHANGED snap
        BY <2>3 DEF TakeAsk
  <2>4. ASSUME NEW w \in Worker, NEW result \in {"answered", "transient", "refused"}, Send(w, result)
        PROVE  UNCHANGED snap
        BY <2>4, Zenon DEF Send
  <2>5. ASSUME NEW seen \in SUBSET Story, Score(seen) PROVE UNCHANGED snap
        BY <2>5, Zenon DEF Score
  <2> QED BY <2>1, <2>2, <2>3, <2>4, <2>5 DEF AttNext, Answers
<1>2. AttSpec => [][Improves]_attVars
      BY <1>1, HonestInitially, StepHonest, PTL DEF AttSpec
<1> QED BY <1>2 DEF SnapshotImproves, Improves

-----------------------------------------------------------------------------
(* The publisher.                                                            *)

Stages == {"off", "sync", "gate", "pages", "switch", "prune", "finalize", "mail", "mark"}
RunStates == [row : {"none", "running", "succeeded"}, proof : {"absent", "unproven", "proven"}, edition : 0..MaxEditions]
PublishInv == PublishTypeOK /\ PublishersSound /\ SiteServed /\ MailIsTruth /\ NothingEmptyMailed

LEMMA PublishBounds == Len(Sections) \in Nat /\ Len(Sections) # 0 /\ MaxEditions \in Nat
BY PublishAssumption

LEMMA PublishParts ==
    PublishTypeOK <=>
    /\ runs \in [Section -> RunStates]
    /\ durable \in Editions /\ pub \in [Publisher -> PublisherStates] /\ mails \in Seq(Editions)
    /\ releases \subseteq Release /\ \A r \in releases : r.id <= newsClock /\ r.mtime <= newsClock
    /\ newsClock \in Nat /\ current \in 0..newsClock /\ marker \in BOOLEAN /\ crossed \in BOOLEAN
    /\ editionsMade \in 0..MaxEditions /\ published \in Nat /\ losses \in Nat
    /\ \A p \in Publisher : /\ pub[p].pc = "sync" => pub[p].at \in 1..Len(Sections)
                            /\ pub[p].release <= newsClock
BY DEF PublishTypeOK, RunStates

LEMMA OffTyped == Off \in PublisherStates /\ NoEditions \in Editions
<1>1. NoEditions \in Editions
      BY PublishBounds DEF NoEditions, Editions
<1> QED BY <1>1, PublishBounds DEF Off, PublisherStates

(* One publisher moves, the others stay where they are. *)
LEMMA OneMoves ==
    ASSUME PublishTypeOK, NEW p \in Publisher, NEW f \in PublisherStates, Moves(p, f)
    PROVE  /\ pub' \in [Publisher -> PublisherStates] /\ pub'[p] = f
           /\ \A q \in Publisher : q # p => pub'[q] = pub[q]
BY DEF Moves, PublishTypeOK

LEMMA GoesTyped ==
    ASSUME PublishTypeOK, NEW p \in Publisher, NEW s \in Stages, Goes(p, s)
    PROVE  /\ pub' \in [Publisher -> PublisherStates] /\ pub'[p] = [pub[p] EXCEPT !.pc = s]
           /\ pub'[p].pc = s /\ pub'[p].at = pub[p].at /\ pub'[p].frozen = pub[p].frozen /\ pub'[p].release = pub[p].release
           /\ pub'[p].editions = pub[p].editions
           /\ \A q \in Publisher : q # p => pub'[q] = pub[q]
<1>1. pub[p] \in PublisherStates
      BY DEF PublishTypeOK
<1>2. [pub[p] EXCEPT !.pc = s] \in PublisherStates
      BY <1>1 DEF PublisherStates, Stages
<1>3. /\ pub' \in [Publisher -> PublisherStates] /\ pub'[p] = [pub[p] EXCEPT !.pc = s]
      /\ \A q \in Publisher : q # p => pub'[q] = pub[q]
      BY <1>2, OneMoves DEF Goes
<1> QED BY <1>1, <1>3 DEF PublisherStates

LEMMA EndsTyped ==
    ASSUME PublishTypeOK, NEW p \in Publisher, Ends(p)
    PROVE  /\ pub' \in [Publisher -> PublisherStates] /\ pub'[p] = Off /\ pub'[p].pc = "off" /\ pub'[p].release = 0
           /\ \A q \in Publisher : q # p => pub'[q] = pub[q]
<1>1. pub'[p] = Off /\ pub' \in [Publisher -> PublisherStates] /\ \A q \in Publisher : q # p => pub'[q] = pub[q]
      BY OffTyped, OneMoves DEF Ends
<1> QED BY <1>1 DEF Off

(* A publisher that is alone: every other is off, and stays off when it moves.  *)
LEMMA Alone ==
    ASSUME PublishInv, ~crossed, NEW p \in Publisher, pub[p].pc # "off",
           \A q \in Publisher : q # p => pub'[q] = pub[q]
    PROVE  /\ \A q \in Publisher : q # p => pub[q].pc = "off" /\ pub'[q].pc = "off"
           /\ OnePublisher'
           /\ (\E q \in Publisher : pub[q].pc = "mark") <=> pub[p].pc = "mark"
           /\ (\E q \in Publisher : pub'[q].pc = "mark") <=> pub'[p].pc = "mark"
<1>1. \A q \in Publisher : q # p => pub[q].pc = "off"
      BY DEF PublishInv, PublishersSound, OnePublisher
<1>2. \A q \in Publisher : q # p => pub'[q].pc = "off"
      BY <1>1
<1>3. OnePublisher'
      BY <1>2 DEF OnePublisher
<1> QED BY <1>1, <1>2, <1>3

(* What a step of one publisher must show to keep the invariant: the parts that *)
(* concern the others follow.                                                    *)
LEMMA OneKeeps ==
    ASSUME PublishInv, PublishTypeOK', crossed => crossed',
           NEW p \in Publisher, pub[p].pc # "off", \A q \in Publisher : q # p => pub'[q] = pub[q],
           SomethingToRead', NothingEmptyMailed',
           ~crossed' => OneMail' /\ ReleaseReady(p)' /\ EditionReady(p)' /\ SiteServed' /\ MailIsTruth'
    PROVE  PublishInv'
<1>1. SiteServed' /\ MailIsTruth'
      BY DEF SiteServed, MailIsTruth
<1>2. ASSUME ~crossed' PROVE OnePublisher' /\ OneMail' /\ \A q \in Publisher : ReleaseReady(q)' /\ EditionReady(q)'
  <2>1. OnePublisher' /\ \A q \in Publisher : q # p => pub'[q].pc = "off"
        BY <1>2, Alone
  <2>2. ASSUME NEW q \in Publisher, q # p PROVE ReleaseReady(q)' /\ EditionReady(q)'
        BY <2>1, <2>2 DEF ReleaseReady, EditionReady
  <2> QED BY <1>2, <2>1, <2>2
<1>3. PublishersSound'
      BY <1>2 DEF PublishersSound
<1> QED BY <1>1, <1>3 DEF PublishInv

LEMMA PublishInitially == PublishInit => PublishInv
<1> SUFFICES ASSUME PublishInit PROVE PublishInv
    OBVIOUS
<1>1. \A p \in Publisher : pub[p] = Off /\ pub[p].pc = "off" /\ pub[p].release = 0
      BY DEF PublishInit, Off
<1>2. PublishTypeOK
  <2>1. pub \in [Publisher -> PublisherStates] /\ durable \in Editions
        BY OffTyped DEF PublishInit
  <2>2. runs \in [Section -> RunStates] /\ editionsMade \in 0..MaxEditions
        BY PublishBounds DEF PublishInit, RunStates
  <2>3. mails = <<>> /\ releases = {} /\ newsClock = 0 /\ current = 0 /\ published = 0 /\ losses = 0
        /\ marker = FALSE /\ crossed = FALSE
        BY Zenon DEF PublishInit
  <2>4. \A p \in Publisher : /\ pub[p].pc = "sync" => pub[p].at \in 1..Len(Sections)
                             /\ pub[p].release <= newsClock
        BY <1>1, <2>3
  <2>5. /\ mails \in Seq(Editions) /\ releases \subseteq Release /\ (\A r \in releases : r.id <= newsClock /\ r.mtime <= newsClock)
        /\ newsClock \in Nat /\ current \in 0..newsClock /\ marker \in BOOLEAN /\ crossed \in BOOLEAN
        /\ published \in Nat /\ losses \in Nat
    <3>1. mails \in Seq(Editions) /\ releases \subseteq Release /\ \A r \in releases : r.id <= newsClock /\ r.mtime <= newsClock
          BY <2>3
    <3>2. newsClock \in Nat /\ current \in 0..newsClock /\ published \in Nat /\ losses \in Nat
          BY <2>3
    <3>3. marker \in BOOLEAN /\ crossed \in BOOLEAN
          BY <2>3
    <3> QED BY <3>1, <3>2, <3>3
  <2> QED BY <2>1, <2>2, <2>4, <2>5, PublishParts, Zenon
<1>3. mails = <<>> /\ Len(mails) = 0 /\ releases = {} /\ current = 0 /\ marker = FALSE
      BY DEF PublishInit
<1>4. PublishersSound
      BY <1>1, <1>3 DEF PublishersSound, SomethingToRead, OnePublisher, OneMail, ReleaseReady, EditionReady
<1>5. SiteServed /\ MailIsTruth /\ NothingEmptyMailed
      BY <1>3 DEF SiteServed, MailIsTruth, NothingEmptyMailed, Served
<1> QED BY <1>2, <1>4, <1>5 DEF PublishInv

(* The topics' runs move nothing of the publishers, the site and the mail. *)
LEMMA RunsKeep == ASSUME PublishInv, RunsMove PROVE PublishInv'
<1>1. UNCHANGED <<durable, Site, Mail, pub, published, crossed>>
      BY Zenon DEF RunsMove, Curate, Archived, RunCompletes, Loses, Count
<1>2. runs' \in [Section -> RunStates] /\ editionsMade' \in 0..MaxEditions /\ losses' \in Nat
  <2>0. /\ runs \in [Section -> RunStates] /\ editionsMade \in 0..MaxEditions /\ losses \in Nat /\ MaxEditions \in Nat
        BY PublishParts, PublishBounds DEF PublishInv
  <2> PICK s \in Section : Curate(s) \/ Archived(s) \/ RunCompletes(s) \/ Loses(s, "unproven") \/ Loses(s, "absent")
      BY DEF RunsMove
  <2>1. CASE Curate(s)
        BY <2>0, <2>1 DEF Curate, RunStates, Count
  <2>2. CASE Archived(s)
        BY <2>0, <2>2 DEF Archived, RunStates, Count
  <2>3. CASE RunCompletes(s)
        BY <2>0, <2>3 DEF RunCompletes, RunStates, Count
  <2>4. CASE Loses(s, "unproven") \/ Loses(s, "absent")
        BY <2>0, <2>4 DEF Loses, RunStates, Count
  <2> QED BY <2>1, <2>2, <2>3, <2>4
<1>3. PublishTypeOK'
      BY <1>1, <1>2, PublishParts DEF PublishInv, PublishTypeOK, RunStates, Site, Mail
<1>4. PublishersSound'
      BY <1>1 DEF PublishInv, PublishersSound, SomethingToRead, OnePublisher, OneMail, ReleaseReady, EditionReady, Site, Mail
<1>5. SiteServed' /\ MailIsTruth' /\ NothingEmptyMailed'
      BY <1>1 DEF PublishInv, SiteServed, MailIsTruth, NothingEmptyMailed, Served, Site, Mail
<1> QED BY <1>3, <1>4, <1>5 DEF PublishInv

(* A publisher begins, alone or across another. *)
LEMMA BeginKeeps == ASSUME PublishInv, NEW p \in Publisher, NEW m \in BOOLEAN, Begin(p, m) PROVE PublishInv'
<1> DEFINE start == [Off EXCEPT !.pc = "sync", !.at = 1, !.frozen = marker, !.mayMail = m]
<1>1. /\ Moves(p, start) /\ UNCHANGED <<runs, durable, Site, Mail, editionsMade, losses>> /\ published' = published + 1
      /\ pub[p].pc = "off" /\ crossed' = (crossed \/ \E q \in Publisher : pub[q].pc # "off")
      BY DEF Begin
<1>2. start \in PublisherStates /\ start.pc = "sync" /\ start.at = 1 /\ start.frozen = marker /\ start.release = 0
  <2>1. marker \in BOOLEAN
        BY DEF PublishInv, PublishTypeOK
  <2>2. Off \in PublisherStates /\ Off.release = 0
        BY OffTyped DEF Off
  <2> DEFINE f1 == [Off EXCEPT !.pc = "sync"]  f2 == [f1 EXCEPT !.at = 1]  f3 == [f2 EXCEPT !.frozen = marker]
  <2>3. f1 \in PublisherStates /\ f1.pc = "sync" /\ f1.release = 0
        BY <2>2 DEF PublisherStates
  <2> HIDE DEF f1
  <2>4. f2 \in PublisherStates /\ f2.pc = "sync" /\ f2.release = 0 /\ f2.at = 1
        BY <2>3, PublishBounds DEF PublisherStates
  <2> HIDE DEF f2
  <2>5. f3 \in PublisherStates /\ f3.pc = "sync" /\ f3.release = 0 /\ f3.at = 1 /\ f3.frozen = marker
        BY <2>1, <2>4 DEF PublisherStates
  <2> HIDE DEF f3
  <2>6. start = [f3 EXCEPT !.mayMail = m]
        BY DEF f1, f2, f3
  <2> HIDE DEF start
  <2> QED BY <2>5, <2>6 DEF PublisherStates
<1>3. /\ pub' \in [Publisher -> PublisherStates] /\ pub'[p] = start
      /\ \A q \in Publisher : q # p => pub'[q] = pub[q]
      BY <1>1, <1>2, OneMoves DEF PublishInv
<1>4. crossed' \in BOOLEAN /\ (crossed => crossed') /\ (~crossed' => \A q \in Publisher : pub[q].pc = "off")
      BY <1>1, Zenon DEF PublishInv, PublishTypeOK
<1> HIDE DEF start
<1>5. PublishTypeOK'
  <2>1. \A q \in Publisher : /\ pub'[q].pc = "sync" => pub'[q].at \in 1..Len(Sections)
                             /\ pub'[q].release <= newsClock
    <3>1. \A q \in Publisher : /\ pub[q].pc = "sync" => pub[q].at \in 1..Len(Sections)
                               /\ pub[q].release <= newsClock
          BY DEF PublishInv, PublishTypeOK
    <3>2. newsClock \in Nat
          BY DEF PublishInv, PublishTypeOK
    <3> QED BY <1>2, <1>3, <3>1, <3>2, PublishBounds
  <2> QED BY <1>1, <1>3, <1>4, <2>1, PublishParts DEF PublishInv, PublishTypeOK, RunStates, Site, Mail
<1>6. SomethingToRead'
  <2>1. \A q \in Publisher : pub'[q].pc \notin {"off", "sync", "gate"} => q # p /\ pub'[q] = pub[q]
        BY <1>2, <1>3
  <2> QED BY <1>1, <2>1 DEF PublishInv, PublishersSound, SomethingToRead, Site, Mail
<1>7. ASSUME ~crossed' PROVE OnePublisher' /\ OneMail' /\ \A q \in Publisher : ReleaseReady(q)' /\ EditionReady(q)'
  <2>1. \A q \in Publisher : q # p => pub'[q].pc = "off"
        BY <1>3, <1>4, <1>7
  <2>2. OnePublisher'
        BY <2>1 DEF OnePublisher
  <2>3. OneMail'
    <3>1. ~(\E q \in Publisher : pub[q].pc = "mark") /\ ~(\E q \in Publisher : pub'[q].pc = "mark")
          BY <1>2, <1>3, <1>4, <1>7, <2>1
    <3> QED BY <1>1, <1>4, <1>7, <3>1 DEF PublishInv, PublishersSound, OneMail, Mail
  <2>4. ReleaseReady(p)' /\ EditionReady(p)'
        BY <1>1, <1>2, <1>3 DEF ReleaseReady, EditionReady, Mail
  <2>5. ASSUME NEW q \in Publisher, q # p PROVE ReleaseReady(q)' /\ EditionReady(q)'
        BY <2>1, <2>5 DEF ReleaseReady, EditionReady
  <2> QED BY <2>2, <2>3, <2>4, <2>5
<1>8. SiteServed' /\ MailIsTruth' /\ NothingEmptyMailed'
      BY <1>1, <1>4 DEF PublishInv, SiteServed, MailIsTruth, NothingEmptyMailed, Served, Site, Mail
<1> QED BY <1>5, <1>6, <1>7, <1>8 DEF PublishInv, PublishersSound

(* sync_publications: a section taken over is the durable one from then on. *)
LEMMA ImportDoes ==
    ASSUME PublishInv, NEW p \in Publisher, Import(p)
    PROVE  LET s == Here(p)
               taken == IF ~Frozen(p) /\ runs[s].proof = "proven" THEN runs[s].edition ELSE durable[s]
               next == IF pub[p].at = Len(Sections) THEN "gate" ELSE "sync"
           IN  /\ s \in Section /\ taken \in 0..MaxEditions
               /\ durable' = [durable EXCEPT ![s] = taken] /\ durable' \in Editions
               /\ pub' \in [Publisher -> PublisherStates] /\ \A q \in Publisher : q # p => pub'[q] = pub[q]
               /\ pub[p].pc = "sync" /\ pub[p].at \in 1..Len(Sections)
               /\ pub'[p].pc = next /\ pub'[p].at = pub[p].at + 1 /\ pub'[p].frozen = pub[p].frozen
               /\ pub'[p].release = pub[p].release
               /\ pub'[p].editions = [pub[p].editions EXCEPT ![s] = taken]
               /\ UNCHANGED <<runs, Site, Mail, Count>>
<1> DEFINE s == Here(p)
           taken == IF ~Frozen(p) /\ runs[s].proof = "proven" THEN runs[s].edition ELSE durable[s]
           next == IF pub[p].at = Len(Sections) THEN "gate" ELSE "sync"
           behind == IF ~Frozen(p) /\ runs[s].proof = "unproven" THEN pub[p].degraded \cup {s} ELSE pub[p].degraded
           f1 == [pub[p] EXCEPT !.pc = next]
           f2 == [f1 EXCEPT !.at = pub[p].at + 1]
           f3 == [f2 EXCEPT !.editions = [pub[p].editions EXCEPT ![s] = taken]]
           f == [f3 EXCEPT !.degraded = behind]
<1>1. /\ pub[p].pc = "sync" /\ durable' = [durable EXCEPT ![s] = taken] /\ UNCHANGED <<runs, Site, Mail, Count>>
      BY DEF Import
<1>2. pub[p].at \in 1..Len(Sections) /\ pub[p] \in PublisherStates /\ durable \in Editions /\ runs \in [Section -> RunStates]
      BY <1>1 DEF PublishInv, PublishTypeOK, RunStates
<1>3. s \in Section
      BY <1>2 DEF Here, Section
<1>4. taken \in 0..MaxEditions
      BY <1>2, <1>3 DEF RunStates, Editions
<1>5. durable' \in Editions
      BY <1>1, <1>2, <1>3, <1>4 DEF Editions
<1>6. f1 \in PublisherStates /\ f1.pc = next /\ f1.at = pub[p].at /\ f1.frozen = pub[p].frozen /\ f1.release = pub[p].release
      /\ f1.editions = pub[p].editions /\ f1.degraded = pub[p].degraded
      BY <1>2 DEF PublisherStates
<1>a. Moves(p, f)
  <2>1. Moves(p, [pub[p] EXCEPT !.pc = next, !.at = @ + 1, !.editions[s] = taken,
                        !.degraded = IF ~Frozen(p) /\ runs[s].proof = "unproven"
                                     THEN @ \cup {s} ELSE @])
        BY DEF Import
  <2>2. f2.editions = pub[p].editions /\ f3.degraded = pub[p].degraded /\ f1.at = pub[p].at
        BY <1>2 DEF PublisherStates
  <2> QED BY <2>1, <2>2
<1> HIDE DEF next
<1> HIDE DEF taken, f1
<1>7. f2 \in PublisherStates /\ f2.pc = next /\ f2.at = pub[p].at + 1 /\ f2.frozen = pub[p].frozen /\ f2.release = pub[p].release
      /\ f2.editions = pub[p].editions /\ f2.degraded = pub[p].degraded
  <2>1. pub[p].at + 1 \in 0..Len(Sections) + 1
        BY <1>2, PublishBounds
  <2> QED BY <1>6, <2>1 DEF PublisherStates
<1> HIDE DEF f2
<1>8. [pub[p].editions EXCEPT ![s] = taken] \in Editions
      BY <1>2, <1>4 DEF PublisherStates, Editions
<1>9. f3 \in PublisherStates /\ f3.pc = next /\ f3.at = pub[p].at + 1 /\ f3.frozen = pub[p].frozen /\ f3.release = pub[p].release
      /\ f3.editions = [pub[p].editions EXCEPT ![s] = taken] /\ f3.degraded = pub[p].degraded
      BY <1>7, <1>8 DEF PublisherStates
<1> HIDE DEF f3
<1>10. behind \in SUBSET Section
      BY <1>2, <1>3 DEF PublisherStates
<1> HIDE DEF behind
<1>11. f \in PublisherStates /\ f.pc = next /\ f.at = pub[p].at + 1 /\ f.frozen = pub[p].frozen /\ f.release = pub[p].release
      /\ f.editions = [pub[p].editions EXCEPT ![s] = taken]
      BY <1>9, <1>10 DEF PublisherStates
<1> HIDE DEF f
<1>12. pub' \in [Publisher -> PublisherStates] /\ pub'[p] = f /\ \A q \in Publisher : q # p => pub'[q] = pub[q]
      BY <1>11, <1>a, OneMoves DEF PublishInv
<1> QED BY <1>1, <1>2, <1>3, <1>4, <1>5, <1>11, <1>12 DEF next, taken

(* A step of a publisher keeps the types if its own row, and what it writes, do. *)
LEMMA StepTyped ==
    ASSUME PublishInv, NEW p \in Publisher, pub' \in [Publisher -> PublisherStates],
           \A q \in Publisher : q # p => pub'[q] = pub[q],
           pub'[p].pc = "sync" => pub'[p].at \in 1..Len(Sections), pub'[p].release <= newsClock',
           runs' \in [Section -> RunStates], durable' \in Editions, mails' \in Seq(Editions),
           releases' \subseteq Release, \A r \in releases' : r.id <= newsClock' /\ r.mtime <= newsClock',
           newsClock' \in Nat, newsClock <= newsClock', current' \in 0..newsClock', marker' \in BOOLEAN, crossed' \in BOOLEAN,
           UNCHANGED <<editionsMade, published, losses>>
    PROVE  PublishTypeOK'
<1>1. \A q \in Publisher : /\ pub'[q].pc = "sync" => pub'[q].at \in 1..Len(Sections)
                           /\ pub'[q].release <= newsClock'
  <2> SUFFICES ASSUME NEW q \in Publisher
               PROVE  /\ pub'[q].pc = "sync" => pub'[q].at \in 1..Len(Sections)
                      /\ pub'[q].release <= newsClock'
      OBVIOUS
  <2>1. pub[q].release <= newsClock /\ pub[q].release \in Nat /\ newsClock \in Nat
        BY DEF PublishInv, PublishTypeOK, PublisherStates
  <2>2. pub[q].pc = "sync" => pub[q].at \in 1..Len(Sections)
        BY DEF PublishInv, PublishTypeOK
  <2> QED BY <2>1, <2>2
<1>2. editionsMade' \in 0..MaxEditions /\ published' \in Nat /\ losses' \in Nat
      BY DEF PublishInv, PublishTypeOK
<1> QED BY <1>1, <1>2 DEF PublishTypeOK, RunStates

LEMMA StateTyped ==
    PublishInv =>
      /\ runs \in [Section -> RunStates] /\ durable \in Editions /\ pub \in [Publisher -> PublisherStates] /\ mails \in Seq(Editions)
      /\ releases \subseteq Release /\ (\A r \in releases : r.id <= newsClock /\ r.mtime <= newsClock)
      /\ newsClock \in Nat /\ newsClock <= newsClock /\ current \in 0..newsClock /\ marker \in BOOLEAN /\ crossed \in BOOLEAN
      /\ \A p \in Publisher : /\ pub[p].pc = "sync" => pub[p].at \in 1..Len(Sections)
                              /\ pub[p].release <= newsClock
BY DEF PublishInv, PublishTypeOK, RunStates

LEMMA ImportKeeps == ASSUME PublishInv, NEW p \in Publisher, Import(p) PROVE PublishInv'
<1> DEFINE s == Here(p)
           taken == IF ~Frozen(p) /\ runs[s].proof = "proven" THEN runs[s].edition ELSE durable[s]
           next == IF pub[p].at = Len(Sections) THEN "gate" ELSE "sync"
<1>1. /\ s \in Section /\ taken \in 0..MaxEditions
      /\ durable' = [durable EXCEPT ![s] = taken] /\ durable' \in Editions
      /\ pub' \in [Publisher -> PublisherStates] /\ \A q \in Publisher : q # p => pub'[q] = pub[q]
      /\ pub[p].pc = "sync" /\ pub[p].at \in 1..Len(Sections)
      /\ pub'[p].pc = next /\ pub'[p].at = pub[p].at + 1 /\ pub'[p].frozen = pub[p].frozen
      /\ pub'[p].release = pub[p].release
      /\ pub'[p].editions = [pub[p].editions EXCEPT ![s] = taken]
      /\ UNCHANGED <<runs, Site, Mail, Count>>
      BY ImportDoes
<1>2. /\ UNCHANGED <<runs, releases, current, newsClock, mails, marker, editionsMade, published, losses, crossed>>
      /\ Len(Sections) \in Nat /\ pub[p].pc # "off"
      BY <1>1, PublishBounds DEF Site, Mail, Count
<1> HIDE DEF taken
<1>3. PublishTypeOK'
  <2>1. pub'[p].pc = "sync" => pub'[p].at \in 1..Len(Sections)
        BY <1>1, <1>2
  <2> QED BY <1>1, <1>2, <2>1, StateTyped, StepTyped
<1>4. SomethingToRead' /\ NothingEmptyMailed'
  <2>1. pub'[p].pc \in {"sync", "gate"}
        BY <1>1
  <2>2. SomethingToRead'
        BY <1>1, <1>2, <2>1 DEF PublishInv, PublishersSound, SomethingToRead, Readable
  <2>3. NothingEmptyMailed'
        BY <1>2 DEF PublishInv, NothingEmptyMailed, Served
  <2> QED BY <2>2, <2>3
<1>5. ASSUME ~crossed' PROVE OneMail' /\ ReleaseReady(p)' /\ EditionReady(p)' /\ SiteServed' /\ MailIsTruth'
  <2>1. ~crossed /\ OneMail /\ EditionReady(p) /\ MailIsTruth /\ SiteServed
        BY <1>2, <1>5 DEF PublishInv, PublishersSound
  <2>2. pub'[p].pc \in {"sync", "gate"} /\ pub'[p].pc # "mark" /\ pub[p].pc # "mark"
        BY <1>1
  <2>3. OneMail'
        BY <1>1, <1>2, <2>1, <2>2, Alone DEF OneMail
  <2>4. ReleaseReady(p)' /\ SiteServed'
        BY <1>2, <2>1, <2>2 DEF ReleaseReady, SiteServed, Served
  <2>5. MailIsTruth'
    <3>1. ASSUME marker, NEW t \in Section, mails[1][t] # 0 PROVE durable'[t] = mails[1][t]
      <4>1. durable[t] = mails[1][t]
            BY <1>2, <1>5, <2>1, <3>1 DEF MailIsTruth
      <4>2. pub[p].frozen
            BY <1>1, <2>1, <3>1, <1>2 DEF EditionReady
      <4>3. t = s => taken = durable[s]
            BY <3>1, <4>1, <4>2 DEF taken, Frozen
      <4> QED BY <1>1, <4>1, <4>3 DEF Editions
    <3>2. Len(mails) <= 1
          BY <1>2, <1>5, <2>1 DEF MailIsTruth
    <3> QED BY <1>2, <3>1, <3>2 DEF MailIsTruth
  <2>6. EditionReady(p)'
    <3>1. \A i \in 1..pub[p].at - 1 : pub[p].editions[Sections[i]] = durable[Sections[i]]
          BY <1>1, <2>1 DEF EditionReady
    <3>2. pub[p].editions \in Editions /\ durable \in Editions
          BY StateTyped DEF PublisherStates
    <3>3. \A i \in 1..pub[p].at : pub'[p].editions[Sections[i]] = durable'[Sections[i]]
      <4> SUFFICES ASSUME NEW i \in 1..pub[p].at PROVE pub'[p].editions[Sections[i]] = durable'[Sections[i]]
          OBVIOUS
      <4>1. Sections[i] \in Section
            BY <1>1, <1>2 DEF Section
      <4>2. CASE Sections[i] = s
            BY <1>1, <3>2, <4>1, <4>2 DEF Editions
      <4>3. CASE Sections[i] # s
        <5>1. i \in 1..pub[p].at - 1
              BY <1>1, <1>2, <4>3 DEF Here
        <5>2. pub'[p].editions[Sections[i]] = pub[p].editions[Sections[i]] /\ durable'[Sections[i]] = durable[Sections[i]]
              BY <1>1, <3>2, <4>1, <4>3 DEF Editions
        <5> QED BY <3>1, <5>1, <5>2
      <4> QED BY <4>2, <4>3
    <3>4. pub'[p].pc = "gate" => pub'[p].editions = durable'
      <4> SUFFICES ASSUME pub'[p].pc = "gate" PROVE pub'[p].editions = durable'
          OBVIOUS
      <4>1. pub[p].at = Len(Sections)
            BY <1>1
      <4>2. \A t \in Section : pub'[p].editions[t] = durable'[t]
            BY <3>3, <4>1 DEF Section
      <4>3. pub'[p].editions \in Editions
            BY <1>1 DEF PublisherStates
      <4> QED BY <1>1, <4>2, <4>3 DEF Editions
    <3>5. pub'[p].at - 1 = pub[p].at
          BY <1>1, <1>2
    <3>6. pub'[p].frozen = marker'
          BY <1>1, <1>2, <2>1 DEF EditionReady
    <3> QED BY <2>2, <3>3, <3>4, <3>5, <3>6 DEF EditionReady
  <2> QED BY <2>3, <2>4, <2>5, <2>6
<1> QED BY <1>1, <1>2, <1>3, <1>4, <1>5, OneKeeps

(* A publisher that stops leaves what it made.  In the middle of its mail that  *)
(* counts as crossed.                                                            *)
LEMMA StopKeeps ==
    ASSUME PublishInv, NEW p \in Publisher, pub[p].pc # "off", Ends(p),
           UNCHANGED <<durable, Site, Mail, editionsMade, published, losses>>, runs' \in [Section -> RunStates],
           crossed' = (crossed \/ pub[p].pc = "mark")
    PROVE  PublishInv'
<1>1. /\ pub' \in [Publisher -> PublisherStates] /\ pub'[p].pc = "off" /\ pub'[p].release = 0
      /\ \A q \in Publisher : q # p => pub'[q] = pub[q]
      BY EndsTyped DEF PublishInv
<1>2. /\ UNCHANGED <<durable, releases, current, newsClock, mails, marker, editionsMade, published, losses>>
      /\ crossed' \in BOOLEAN /\ (crossed => crossed') /\ (~crossed' => ~crossed /\ pub[p].pc # "mark")
  <2>1. UNCHANGED <<durable, releases, current, newsClock, mails, marker, editionsMade, published, losses>>
        BY DEF Site, Mail
  <2>2. crossed \in BOOLEAN
        BY StateTyped
  <2> QED BY <2>1, <2>2, Zenon
<1>3. PublishTypeOK'
      BY <1>1, <1>2, StateTyped, StepTyped
<1>4. SomethingToRead' /\ NothingEmptyMailed'
      BY <1>1, <1>2 DEF PublishInv, PublishersSound, SomethingToRead, Readable, NothingEmptyMailed, Served
<1>5. ASSUME ~crossed' PROVE OneMail' /\ ReleaseReady(p)' /\ EditionReady(p)' /\ SiteServed' /\ MailIsTruth'
  <2>1. ~crossed /\ OneMail /\ pub[p].pc # "mark" /\ SiteServed /\ MailIsTruth
        BY <1>2, <1>5 DEF PublishInv, PublishersSound
  <2>2. OneMail'
        BY <1>1, <1>2, <2>1, Alone DEF OneMail
  <2> QED BY <1>1, <1>2, <2>1, <2>2 DEF ReleaseReady, EditionReady, SiteServed, Served, MailIsTruth
<1> QED BY <1>1, <1>2, <1>3, <1>4, <1>5, OneKeeps

(* A publisher that goes on without a change of the site or the mail. *)
LEMMA GoOnKeeps ==
    ASSUME PublishInv, NEW p \in Publisher, pub[p].pc = "finalize", Goes(p, "mail"), runs' \in [Section -> RunStates],
           UNCHANGED <<durable, Site, Mail, Count>>
    PROVE  PublishInv'
<1>1. /\ pub' \in [Publisher -> PublisherStates] /\ pub'[p].pc = "mail" /\ pub'[p].release = pub[p].release
      /\ pub'[p].frozen = pub[p].frozen /\ pub'[p].editions = pub[p].editions
      /\ \A q \in Publisher : q # p => pub'[q] = pub[q]
      BY GoesTyped DEF PublishInv, Stages
<1>2. UNCHANGED <<durable, releases, current, newsClock, mails, marker, editionsMade, published, losses, crossed>>
      BY DEF Site, Mail, Count
<1>3. PublishTypeOK'
      BY <1>1, <1>2, StateTyped, StepTyped
<1>4. SomethingToRead' /\ NothingEmptyMailed'
      BY <1>1, <1>2 DEF PublishInv, PublishersSound, SomethingToRead, Readable, NothingEmptyMailed, Served
<1>5. ASSUME ~crossed' PROVE OneMail' /\ ReleaseReady(p)' /\ EditionReady(p)' /\ SiteServed' /\ MailIsTruth'
  <2>1. ~crossed /\ OneMail /\ EditionReady(p) /\ SiteServed /\ MailIsTruth
        BY <1>2, <1>5 DEF PublishInv, PublishersSound
  <2>2. OneMail'
        BY <1>1, <1>2, <2>1, Alone DEF OneMail
  <2> QED BY <1>1, <1>2, <2>1, <2>2 DEF ReleaseReady, EditionReady, SiteServed, Served, MailIsTruth
<1> QED BY <1>1, <1>2, <1>3, <1>4, <1>5, OneKeeps

LEMMA FinalizeKeeps == ASSUME PublishInv, NEW p \in Publisher, FinalizeRuns(p) PROVE PublishInv'
<1>1. runs' \in [Section -> RunStates]
  <2>1. runs \in [Section -> RunStates]
        BY StateTyped
  <2> QED BY <2>1 DEF FinalizeRuns, RunStates
<1>2. pub[p].pc = "finalize" /\ UNCHANGED <<durable, Site, Mail, Count>> /\ (Goes(p, "mail") \/ Ends(p))
      BY DEF FinalizeRuns
<1>3. CASE Goes(p, "mail")
      BY <1>1, <1>2, <1>3, GoOnKeeps
<1>4. CASE Ends(p)
  <2>1. UNCHANGED <<editionsMade, published, losses>> /\ crossed' = crossed /\ crossed \in BOOLEAN
        BY <1>2, StateTyped DEF Count
  <2>2. crossed' = (crossed \/ pub[p].pc = "mark")
        BY <1>2, <2>1
  <2> QED BY <1>1, <1>2, <1>4, <2>1, <2>2, StopKeeps
<1> QED BY <1>2, <1>3, <1>4

LEMMA DieKeeps == ASSUME PublishInv, NEW p \in Publisher, PublisherDies(p) PROVE PublishInv'
<1>1. /\ pub[p].pc # "off" /\ Ends(p) /\ crossed' = (crossed \/ pub[p].pc = "mark")
      /\ UNCHANGED <<runs, durable, Site, Mail, editionsMade, published, losses>>
      BY DEF PublisherDies
<1>2. runs' \in [Section -> RunStates]
      BY <1>1, StateTyped
<1> QED BY <1>1, <1>2, StopKeeps

(* Stopping anywhere but behind the mail. *)
LEMMA QuitKeeps ==
    ASSUME PublishInv, NEW p \in Publisher, pub[p].pc \notin {"off", "mark"}, Ends(p),
           UNCHANGED <<runs, durable, Site, Mail, Count>>
    PROVE  PublishInv'
<1>1. UNCHANGED <<editionsMade, published, losses>> /\ crossed' = crossed /\ crossed \in BOOLEAN
      BY StateTyped DEF Count
<1>2. crossed' = (crossed \/ pub[p].pc = "mark") /\ runs' \in [Section -> RunStates]
      BY <1>1, StateTyped
<1> QED BY <1>1, <1>2, StopKeeps

(* The gate: a release directory of a new name, and something to read for it. *)
LEMMA GateKeeps == ASSUME PublishInv, NEW p \in Publisher, BeginRelease(p) PROVE PublishInv'
<1>1. pub[p].pc = "gate" /\ UNCHANGED <<runs, durable, current, Mail, Count>>
      BY DEF BeginRelease
<1>2. CASE Ends(p) /\ UNCHANGED <<releases, newsClock>>
      BY <1>1, <1>2, QuitKeeps DEF Site
<1>3. CASE ~(Ends(p) /\ UNCHANGED <<releases, newsClock>>)
  <2> DEFINE made == [id |-> newsClock + 1, mtime |-> newsClock + 1, whole |-> FALSE, shows |-> NoEditions]
             g == [pub[p] EXCEPT !.pc = "pages"]
             f == [g EXCEPT !.release = newsClock + 1]
  <2>0. /\ ~Refuses(p) /\ newsClock' = newsClock + 1 /\ releases' = releases \cup {made}
        /\ Moves(p, [pub[p] EXCEPT !.pc = "pages", !.release = newsClock + 1])
        BY <1>3 DEF BeginRelease
  <2>1. Moves(p, f) /\ newsClock \in Nat
        BY <2>0, StateTyped
  <2>2. g \in PublisherStates /\ g.pc = "pages" /\ g.frozen = pub[p].frozen /\ g.editions = pub[p].editions
        BY StateTyped DEF PublisherStates
  <2> HIDE DEF g
  <2>3. f \in PublisherStates /\ f.pc = "pages" /\ f.frozen = pub[p].frozen /\ f.editions = pub[p].editions
        /\ f.release = newsClock + 1
        BY <2>1, <2>2 DEF PublisherStates
  <2> HIDE DEF f
  <2>4. /\ pub' \in [Publisher -> PublisherStates] /\ pub'[p] = f
        /\ \A q \in Publisher : q # p => pub'[q] = pub[q]
        BY <2>1, <2>3, OneMoves DEF PublishInv
  <2>5. UNCHANGED <<runs, durable, current, mails, marker, editionsMade, published, losses, crossed>>
        BY <1>1 DEF Mail, Count
  <2>6. made \in Release /\ made.id = newsClock + 1 /\ made.mtime = newsClock + 1 /\ made.whole = FALSE
        BY <2>1, OffTyped DEF Release
  <2> HIDE DEF made
  <2>7. /\ releases' \subseteq Release /\ (\A r \in releases' : r.id <= newsClock' /\ r.mtime <= newsClock')
        /\ newsClock' \in Nat /\ newsClock <= newsClock' /\ current' \in 0..newsClock' /\ newsClock + 1 # current
    <3>1. \A r \in releases : r.id \in Nat /\ r.mtime \in Nat /\ r.id <= newsClock /\ r.mtime <= newsClock
          BY StateTyped DEF Release
    <3>2. releases' \subseteq Release
          BY <2>0, <2>6, StateTyped
    <3>3. \A r \in releases' : r.id <= newsClock' /\ r.mtime <= newsClock'
          BY <2>0, <2>1, <2>6, <3>1
    <3> QED BY <2>0, <2>1, <2>5, <3>2, <3>3, StateTyped
  <2>8. PublishTypeOK'
    <3>1. pub'[p].pc # "sync" /\ pub'[p].release <= newsClock'
          BY <2>0, <2>1, <2>3, <2>4
    <3> QED BY <2>4, <2>5, <2>7, <3>1, StateTyped, StepTyped
  <2>9. SomethingToRead' /\ NothingEmptyMailed'
    <3>1. marker \/ Readable(pub[p].editions)
          BY <2>0 DEF Refuses, Readable
    <3>2. \A r \in releases' : r.whole => r \in releases
          BY <2>0, <2>6
    <3>3. SomethingToRead'
          BY <2>3, <2>4, <2>5, <3>1, <3>2 DEF PublishInv, PublishersSound, SomethingToRead, Readable
    <3>4. NothingEmptyMailed'
          BY <2>5, <3>2 DEF PublishInv, NothingEmptyMailed, Served
    <3> QED BY <3>3, <3>4
  <2>10. ASSUME ~crossed' PROVE OneMail' /\ ReleaseReady(p)' /\ EditionReady(p)' /\ SiteServed' /\ MailIsTruth'
    <3>1. ~crossed /\ OneMail /\ EditionReady(p) /\ SiteServed /\ MailIsTruth
          BY <2>5, <2>10 DEF PublishInv, PublishersSound
    <3>2. OneMail'
          BY <1>1, <2>3, <2>4, <2>5, <3>1, Alone DEF OneMail
    <3>3. ReleaseReady(p)'
          BY <2>0, <2>3, <2>4, <2>5, <2>6, <2>7 DEF ReleaseReady
    <3>4. EditionReady(p)'
          BY <1>1, <2>3, <2>4, <2>5, <3>1 DEF EditionReady
    <3>5. SiteServed' /\ MailIsTruth'
          BY <2>0, <2>5, <3>1 DEF SiteServed, Served, MailIsTruth
    <3> QED BY <3>2, <3>3, <3>4, <3>5
  <2> QED BY <1>1, <2>4, <2>5, <2>8, <2>9, <2>10, OneKeeps
<1> QED BY <1>2, <1>3

(* The pages make the release whole, and the newest. *)
LEMMA PagesKeep == ASSUME PublishInv, NEW p \in Publisher, WritePages(p) PROVE PublishInv'
<1> DEFINE mine == {r \in releases : r.id = pub[p].release}
           written == [id |-> pub[p].release, mtime |-> newsClock + 1, whole |-> mine # {}, shows |-> pub[p].editions]
<1>1. /\ pub[p].pc = "pages" /\ newsClock' = newsClock + 1 /\ releases' = (releases \ mine) \cup {written}
      /\ Goes(p, "switch") /\ UNCHANGED <<runs, durable, current, Mail, Count>>
      BY DEF WritePages
<1>2. /\ pub' \in [Publisher -> PublisherStates] /\ pub'[p].pc = "switch" /\ pub'[p].release = pub[p].release
      /\ pub'[p].frozen = pub[p].frozen /\ pub'[p].editions = pub[p].editions
      /\ \A q \in Publisher : q # p => pub'[q] = pub[q]
      BY <1>1, GoesTyped DEF PublishInv, Stages
<1>3. UNCHANGED <<runs, durable, current, mails, marker, editionsMade, published, losses, crossed>>
      BY <1>1 DEF Mail, Count
<1>4. /\ newsClock \in Nat /\ pub[p].release \in Nat /\ pub[p].release <= newsClock /\ pub[p].editions \in Editions
      BY StateTyped DEF PublisherStates
<1>5. /\ written \in Release /\ written.id = pub[p].release /\ written.mtime = newsClock + 1
      /\ written.whole = (mine # {}) /\ written.shows = pub[p].editions
      BY <1>4 DEF Release
<1> HIDE DEF written
<1>6. /\ releases' \subseteq Release /\ (\A r \in releases' : r.id <= newsClock' /\ r.mtime <= newsClock')
      /\ newsClock' \in Nat /\ newsClock <= newsClock' /\ current' \in 0..newsClock'
      /\ \A r \in releases' : r.mtime <= written.mtime
  <2>1. \A r \in releases : r.id \in Nat /\ r.mtime \in Nat /\ r.id <= newsClock /\ r.mtime <= newsClock
        BY StateTyped DEF Release
  <2>2. releases' \subseteq Release
        BY <1>1, <1>5, StateTyped
  <2>3. \A r \in releases' : r.id <= newsClock' /\ r.mtime <= newsClock' /\ r.mtime <= written.mtime
        BY <1>1, <1>4, <1>5, <2>1
  <2> QED BY <1>1, <1>3, <1>4, <2>2, <2>3, StateTyped
<1>7. PublishTypeOK'
  <2>1. pub'[p].pc # "sync" /\ pub'[p].release <= newsClock'
        BY <1>1, <1>2, <1>4
  <2> QED BY <1>2, <1>3, <1>6, <2>1, StateTyped, StepTyped
<1>8. SomethingToRead' /\ NothingEmptyMailed'
  <2>1. marker \/ Readable(pub[p].editions)
        BY <1>1 DEF PublishInv, PublishersSound, SomethingToRead
  <2>2. \A r \in releases' : r \in releases \/ r = written
        BY <1>1
  <2>3. SomethingToRead'
        BY <1>2, <1>3, <1>5, <2>1, <2>2 DEF PublishInv, PublishersSound, SomethingToRead, Readable
  <2>4. NothingEmptyMailed'
    <3>1. marker' \/ \A r \in releases' : r.whole => Readable(r.shows)
          BY <2>3 DEF SomethingToRead, Readable
    <3>2. \A r \in Served' : r \in releases'
          BY DEF Served
    <3> QED BY <1>3, <3>1, <3>2 DEF PublishInv, NothingEmptyMailed, Readable
  <2> QED BY <2>3, <2>4
<1>9. ASSUME ~crossed' PROVE OneMail' /\ ReleaseReady(p)' /\ EditionReady(p)' /\ SiteServed' /\ MailIsTruth'
  <2>1. ~crossed /\ OneMail /\ EditionReady(p) /\ ReleaseReady(p) /\ SiteServed /\ MailIsTruth
        BY <1>3, <1>9 DEF PublishInv, PublishersSound
  <2>2. OneMail'
        BY <1>1, <1>2, <1>3, <2>1, Alone DEF OneMail
  <2>3. mine # {} /\ pub[p].release # current
        BY <1>1, <2>1 DEF ReleaseReady
  <2>4. ReleaseReady(p)'
        BY <1>1, <1>2, <1>5, <1>6, <2>3 DEF ReleaseReady
  <2>5. EditionReady(p)'
        BY <1>1, <1>2, <1>3, <2>1 DEF EditionReady
  <2>6. SiteServed'
    <3>1. \A r \in Served : r \in releases' /\ r.id = current'
          BY <1>1, <1>3, <2>3 DEF Served
    <3> QED BY <1>3, <2>1, <3>1 DEF SiteServed, Served
  <2>7. MailIsTruth'
        BY <1>3, <2>1 DEF MailIsTruth
  <2> QED BY <2>2, <2>4, <2>5, <2>6, <2>7
<1> QED BY <1>1, <1>2, <1>3, <1>7, <1>8, <1>9, OneKeeps

(* The link goes to a whole release. *)
LEMMA SwitchKeeps == ASSUME PublishInv, NEW p \in Publisher, SwitchLink(p) PROVE PublishInv'
<1>1. /\ pub[p].pc = "switch" /\ current' = pub[p].release /\ Goes(p, "prune")
      /\ UNCHANGED <<runs, durable, releases, newsClock, Mail, Count>>
      BY DEF SwitchLink
<1>2. /\ pub' \in [Publisher -> PublisherStates] /\ pub'[p].pc = "prune" /\ pub'[p].release = pub[p].release
      /\ pub'[p].frozen = pub[p].frozen /\ pub'[p].editions = pub[p].editions
      /\ \A q \in Publisher : q # p => pub'[q] = pub[q]
      BY <1>1, GoesTyped DEF PublishInv, Stages
<1>3. UNCHANGED <<runs, durable, releases, newsClock, mails, marker, editionsMade, published, losses, crossed>>
      BY <1>1 DEF Mail, Count
<1>4. PublishTypeOK'
  <2>1. pub'[p].pc # "sync" /\ pub'[p].release <= newsClock' /\ current' \in 0..newsClock'
        BY <1>1, <1>2, <1>3, StateTyped DEF PublisherStates
  <2> QED BY <1>2, <1>3, <2>1, StateTyped, StepTyped
<1>5. SomethingToRead' /\ NothingEmptyMailed'
  <2>1. SomethingToRead'
        BY <1>1, <1>2, <1>3 DEF PublishInv, PublishersSound, SomethingToRead, Readable
  <2>2. marker' \/ \A r \in Served' : r.whole => Readable(r.shows)
        BY <2>1 DEF SomethingToRead, Readable, Served
  <2> QED BY <1>3, <2>1, <2>2 DEF PublishInv, NothingEmptyMailed, Readable
<1>6. ASSUME ~crossed' PROVE OneMail' /\ ReleaseReady(p)' /\ EditionReady(p)' /\ SiteServed' /\ MailIsTruth'
  <2>1. ~crossed /\ OneMail /\ EditionReady(p) /\ ReleaseReady(p) /\ MailIsTruth
        BY <1>3, <1>6 DEF PublishInv, PublishersSound
  <2>2. OneMail'
        BY <1>1, <1>2, <1>3, <2>1, Alone DEF OneMail
  <2>3. ReleaseReady(p)' /\ SiteServed'
        BY <1>1, <1>2, <1>3, <2>1 DEF ReleaseReady, SiteServed, Served
  <2>4. EditionReady(p)' /\ MailIsTruth'
        BY <1>1, <1>2, <1>3, <2>1 DEF EditionReady, MailIsTruth
  <2> QED BY <2>2, <2>3, <2>4
<1> QED BY <1>1, <1>2, <1>3, <1>4, <1>5, <1>6, OneKeeps

(* Pruning keeps the newest releases, and the current one is the newest. *)
LEMMA PruneKeeps == ASSUME PublishInv, NEW p \in Publisher, Prune(p) PROVE PublishInv'
<1>1. /\ pub[p].pc = "prune" /\ releases' = Retained /\ Goes(p, "finalize")
      /\ UNCHANGED <<runs, durable, current, newsClock, Mail, Count>>
      BY DEF Prune
<1>2. /\ pub' \in [Publisher -> PublisherStates] /\ pub'[p].pc = "finalize" /\ pub'[p].release = pub[p].release
      /\ pub'[p].frozen = pub[p].frozen /\ pub'[p].editions = pub[p].editions
      /\ \A q \in Publisher : q # p => pub'[q] = pub[q]
      BY <1>1, GoesTyped DEF PublishInv, Stages
<1>3. UNCHANGED <<runs, durable, current, newsClock, mails, marker, editionsMade, published, losses, crossed>>
      BY <1>1 DEF Mail, Count
<1>4. releases' \subseteq releases
      BY <1>1 DEF Retained
<1>5. PublishTypeOK'
  <2>1. pub'[p].pc # "sync" /\ pub'[p].release <= newsClock'
        BY <1>2, <1>3, StateTyped
  <2> QED BY <1>2, <1>3, <1>4, <2>1, StateTyped, StepTyped
<1>6. SomethingToRead' /\ NothingEmptyMailed'
  <2>1. SomethingToRead'
        BY <1>1, <1>2, <1>3, <1>4 DEF PublishInv, PublishersSound, SomethingToRead, Readable
  <2>2. NothingEmptyMailed'
        BY <1>3, <1>4 DEF PublishInv, NothingEmptyMailed, Served
  <2> QED BY <2>1, <2>2
<1>7. ASSUME ~crossed' PROVE OneMail' /\ ReleaseReady(p)' /\ EditionReady(p)' /\ SiteServed' /\ MailIsTruth'
  <2>1. ~crossed /\ OneMail /\ EditionReady(p) /\ ReleaseReady(p) /\ MailIsTruth
        BY <1>3, <1>7 DEF PublishInv, PublishersSound
  <2>2. OneMail'
        BY <1>1, <1>2, <1>3, <2>1, Alone DEF OneMail
  <2>3. EditionReady(p)' /\ MailIsTruth' /\ ReleaseReady(p)'
        BY <1>1, <1>2, <1>3, <2>1 DEF EditionReady, MailIsTruth, ReleaseReady
  <2>4. PICK r \in releases : r.id = current /\ r.whole /\ \A q \in releases : q.mtime <= r.mtime
        BY <1>1, <2>1 DEF ReleaseReady
  <2>5. Newer(r) = {}
    <3>1. \A q \in releases : q.mtime \in Nat
          BY StateTyped DEF Release
    <3>2. ASSUME NEW q \in releases PROVE ~(q.mtime > r.mtime)
          BY <2>4, <3>1, <3>2
    <3> QED BY <3>2 DEF Newer
  <2>6. r \in Retained
    <3>1. Cardinality({}) = 0
          BY FS_EmptySet
    <3> QED BY <2>5, <3>1 DEF Retained, RELEASES_KEPT
  <2>7. SiteServed'
        BY <1>1, <1>3, <2>4, <2>6 DEF SiteServed, Served
  <2> QED BY <2>2, <2>3, <2>7
<1> QED BY <1>1, <1>2, <1>3, <1>5, <1>6, <1>7, OneKeeps

(* The mail of the day, before its marker. *)
LEMMA MailKeeps == ASSUME PublishInv, NEW p \in Publisher, SendMail(p) PROVE PublishInv'
<1>1. pub[p].pc = "mail" /\ UNCHANGED <<runs, durable, Site, marker, Count>>
      BY DEF SendMail
<1>2. CASE Ends(p) /\ UNCHANGED mails
      BY <1>1, <1>2, QuitKeeps DEF Mail
<1>3. CASE ~marker /\ mails' = Append(mails, pub[p].editions) /\ Goes(p, "mark")
  <2>1. /\ pub' \in [Publisher -> PublisherStates] /\ pub'[p].pc = "mark" /\ pub'[p].release = pub[p].release
        /\ pub'[p].frozen = pub[p].frozen /\ pub'[p].editions = pub[p].editions
        /\ \A q \in Publisher : q # p => pub'[q] = pub[q]
        BY <1>3, GoesTyped DEF PublishInv, Stages
  <2>2. UNCHANGED <<runs, durable, releases, current, newsClock, marker, editionsMade, published, losses, crossed>>
        BY <1>1 DEF Site, Count
  <2>3. mails \in Seq(Editions) /\ pub[p].editions \in Editions
        BY StateTyped DEF PublisherStates
  <2>4. /\ mails' \in Seq(Editions) /\ Len(mails') = Len(mails) + 1 /\ mails'[Len(mails) + 1] = pub[p].editions
        /\ Len(mails) \in Nat /\ \A i \in 1..Len(mails) : mails'[i] = mails[i]
        BY <1>3, <2>3
  <2>5. PublishTypeOK'
    <3>1. pub'[p].pc # "sync" /\ pub'[p].release <= newsClock'
          BY <2>1, <2>2, StateTyped
    <3> QED BY <2>1, <2>2, <2>4, <3>1, StateTyped, StepTyped
  <2>6. SomethingToRead' /\ NothingEmptyMailed'
    <3>1. Readable(pub[p].editions)
          BY <1>1, <1>3 DEF PublishInv, PublishersSound, SomethingToRead
    <3>2. SomethingToRead'
          BY <1>1, <2>1, <2>2 DEF PublishInv, PublishersSound, SomethingToRead, Readable
    <3>3. \A i \in 1..Len(mails') : Readable(mails'[i])
      <4>1. \A i \in 1..Len(mails) : Readable(mails[i])
            BY DEF PublishInv, NothingEmptyMailed, Readable
      <4>2. \A i \in 1..Len(mails') : i \in 1..Len(mails) \/ i = Len(mails) + 1
            BY <2>4
      <4> QED BY <2>4, <3>1, <4>1, <4>2
    <3>4. marker' \/ \A r \in Served' : r.whole => Readable(r.shows)
          BY <2>2 DEF PublishInv, NothingEmptyMailed, Served, Readable
    <3> QED BY <3>2, <3>3, <3>4 DEF NothingEmptyMailed, Readable
  <2>7. ASSUME ~crossed' PROVE OneMail' /\ ReleaseReady(p)' /\ EditionReady(p)' /\ SiteServed' /\ MailIsTruth'
    <3>1. ~crossed /\ OneMail /\ EditionReady(p) /\ SiteServed
          BY <2>2, <2>7 DEF PublishInv, PublishersSound
    <3>2. ~(\E q \in Publisher : pub[q].pc = "mark")
          BY <1>1, <2>1, <3>1, Alone
    <3>3. Len(mails) = 0
          BY <1>3, <3>1, <3>2 DEF OneMail
    <3>4. OneMail' /\ Len(mails') = 1 /\ mails'[1] = pub[p].editions
          BY <2>1, <2>4, <3>3 DEF OneMail
    <3>5. ReleaseReady(p)' /\ SiteServed'
          BY <2>1, <2>2, <3>1 DEF ReleaseReady, SiteServed, Served
    <3>6. EditionReady(p)'
          BY <1>1, <1>3, <2>1, <2>2, <3>1, <3>4 DEF EditionReady
    <3>7. MailIsTruth'
          BY <1>3, <2>2, <3>4 DEF MailIsTruth
    <3> QED BY <3>4, <3>5, <3>6, <3>7
  <2> QED BY <1>1, <2>1, <2>2, <2>5, <2>6, <2>7, OneKeeps
<1> QED BY <1>2, <1>3 DEF SendMail

(* The marker: from here on the mailed editions are frozen. *)
LEMMA MarkKeeps == ASSUME PublishInv, NEW p \in Publisher, WriteMarker(p) PROVE PublishInv'
<1>1. pub[p].pc = "mark" /\ marker' = TRUE /\ Ends(p) /\ UNCHANGED <<runs, durable, Site, mails, Count>>
      BY DEF WriteMarker
<1>2. /\ pub' \in [Publisher -> PublisherStates] /\ pub'[p].pc = "off" /\ pub'[p].release = 0
      /\ \A q \in Publisher : q # p => pub'[q] = pub[q]
      BY <1>1, EndsTyped DEF PublishInv
<1>3. UNCHANGED <<runs, durable, releases, current, newsClock, mails, editionsMade, published, losses, crossed>>
      BY <1>1 DEF Site, Count
<1>4. PublishTypeOK'
      BY <1>1, <1>2, <1>3, StateTyped, StepTyped
<1>5. SomethingToRead' /\ NothingEmptyMailed'
      BY <1>1, <1>3 DEF PublishInv, SomethingToRead, NothingEmptyMailed
<1>6. ASSUME ~crossed' PROVE OneMail' /\ ReleaseReady(p)' /\ EditionReady(p)' /\ SiteServed' /\ MailIsTruth'
  <2>1. ~crossed /\ OneMail /\ EditionReady(p) /\ SiteServed
        BY <1>3, <1>6 DEF PublishInv, PublishersSound
  <2>2. Len(mails) = 1 /\ mails[1] = durable
        BY <1>1, <2>1 DEF OneMail, EditionReady
  <2> QED BY <1>1, <1>2, <1>3, <2>1, <2>2 DEF OneMail, ReleaseReady, EditionReady, SiteServed, Served, MailIsTruth
<1> QED BY <1>1, <1>2, <1>3, <1>4, <1>5, <1>6, OneKeeps

(* Inductive invariant of the publishers (PublishersSound), whatever overlaps.   *)
THEOREM PublishInvariance == ASSUME PublishInv, [PublishNext]_newsVars PROVE PublishInv'
<1>1. CASE PublishNext
      BY <1>1, RunsKeep, BeginKeeps, ImportKeeps, GateKeeps, PagesKeep, SwitchKeeps, PruneKeeps, FinalizeKeeps,
         MailKeeps, MarkKeeps, DieKeeps, Zenon DEF PublishNext, PublisherStep
<1>2. CASE UNCHANGED newsVars
      BY <1>2 DEF PublishInv, PublishTypeOK, PublishersSound, SomethingToRead, OnePublisher, OneMail, ReleaseReady,
                  EditionReady, SiteServed, MailIsTruth, NothingEmptyMailed, Served, newsVars
<1> QED BY <1>1, <1>2

(* The site serves a whole release, an edition that was mailed stays as it was  *)
(* and is mailed once, unless publishers crossed; nothing empty is shown or      *)
(* mailed: for any number of publishers and sections.                            *)
THEOREM SiteAndMail == PublishSpec => [](SiteServed /\ MailIsTruth /\ NothingEmptyMailed)
<1>1. PublishInv => SiteServed /\ MailIsTruth /\ NothingEmptyMailed
      BY DEF PublishInv
<1> QED BY <1>1, PublishInitially, PublishInvariance, PTL DEF PublishSpec

-----------------------------------------------------------------------------
(* The commits of the dotfiles.                                              *)

Commits == [tree : Trees, by : {"operator", "p9b"}, reviewed : SUBSET Diffs]
Memory(n) == [changed : SUBSET DotPath, seen : SUBSET DotPath, eligible : SUBSET DotPath, reviewed : SUBSET Diffs,
              oid : 0..n, branch : Branch \cup {"none"}, via : {"first", "retry"}]
DotInv == DotTypeOK /\ HygieneSound /\ ReviewedBytes

LEMMA TipIsATree == DotTypeOK => Tip \in Trees /\ \A f \in DotPath, t \in Trees : DiffOf(f, t) \in Diffs
<1> SUFFICES ASSUME DotTypeOK PROVE Tip \in Trees /\ \A f \in DotPath, t \in Trees : DiffOf(f, t) \in Diffs
    OBVIOUS
<1>1. log \in Seq(Commits) /\ Len(log) \in 1..MaxLog /\ MaxLog \in Nat
      BY DotAssumption DEF DotTypeOK, Commits
<1>2. log[Len(log)] \in Commits
      BY <1>1
<1>3. Tip \in Trees
      BY <1>2 DEF Commits, Tip
<1>4. ASSUME NEW f \in DotPath, NEW t \in Trees PROVE DiffOf(f, t) \in Diffs
      BY <1>3 DEF DiffOf, Diffs, Trees
<1> QED BY <1>3, <1>4

(* A step that commits nothing leaves what was committed as reviewed as it was. *)
LEMMA ReviewedStays == ASSUME ReviewedBytes, log' = log, crept => crept' PROVE ReviewedBytes'
BY DEF ReviewedBytes, Written

(* The next commit is reviewed if its own changes are.                          *)
LEMMA ReviewedGrows ==
    ASSUME DotTypeOK, ReviewedBytes, crept => crept', NEW c \in Commits, log' = Append(log, c),
           ~crept' /\ c.by = "p9b" => Written(Tip, c.tree) \subseteq c.reviewed
    PROVE  ReviewedBytes'
<1> SUFFICES ASSUME ~crept', NEW n \in 2..Len(log'), log'[n].by = "p9b"
             PROVE  Written(log'[n-1].tree, log'[n].tree) \subseteq log'[n].reviewed
    BY DEF ReviewedBytes, Written
<1>1. log \in Seq(Commits) /\ Len(log) \in Nat \ {0}
      BY DotAssumption DEF DotTypeOK, Commits
<1>2. Len(log') = Len(log) + 1 /\ log'[Len(log) + 1] = c /\ \A i \in 1..Len(log) : log'[i] = log[i]
      BY <1>1
<1>3. log'[n-1] = log[n-1]
      BY <1>1, <1>2
<1>4. CASE n <= Len(log)
  <2>1. log'[n] = log[n] /\ n \in 2..Len(log)
        BY <1>1, <1>2, <1>4
  <2> QED BY <1>3, <2>1 DEF ReviewedBytes
<1>5. CASE n = Len(log) + 1
  <2>1. log'[n] = c /\ log'[n-1].tree = Tip
        BY <1>1, <1>2, <1>3, <1>5 DEF Tip
  <2> QED BY <2>1
<1> QED BY <1>1, <1>2, <1>4, <1>5

LEMMA StagedIsWritten == ASSUME StagedExactly PROVE Written(Tip, index) \subseteq m9.reviewed
BY DEF StagedExactly, StagedFiles, Written, DiffOf

(* The types, piece by piece: what a step of the phase has to keep. *)
LEMMA TypedParts ==
    DotTypeOK <=>
      /\ worktree \in Trees /\ index \in Trees /\ log \in Seq(Commits)
      /\ Len(log) \in 1..MaxLog /\ origin \in [Branch -> 1..Len(log)] /\ head \in Branch \cup {"detached"}
      /\ p9 \in Stages9 /\ ours \in 0..Len(log) /\ m9 \in Memory(Len(log))
      /\ hygiene.oid \in 0..Len(log) /\ hygiene.branch \in Branch \cup {"none"} /\ hygiene.pending \in BOOLEAN
      /\ sessions \subseteq DotPath /\ foreign \in BOOLEAN /\ crept \in BOOLEAN /\ orphaned \in BOOLEAN
      /\ meddling \in Nat /\ attempts9 \in Nat
BY Zenon DEF DotTypeOK, Commits, Memory

LEMMA NothingReadTyped == ASSUME NEW n \in Nat PROVE NothingRead \in Memory(n)
BY DEF NothingRead, Memory, Branch

LEMMA PhaseTyped ==
    ASSUME DotTypeOK, UNCHANGED <<worktree, log, head, origin, foreign, sessions>>, meddling' \in Nat,
           index' \in Trees, p9' \in Stages9, m9' \in Memory(Len(log)), ours' \in 0..Len(log),
           hygiene'.oid \in 0..Len(log), hygiene'.branch \in Branch \cup {"none"}, hygiene'.pending \in BOOLEAN,
           crept' \in BOOLEAN, orphaned' \in BOOLEAN, attempts9' \in Nat
    PROVE  DotTypeOK'
BY DEF DotTypeOK, Commits, Memory

LEMMA EndTyped ==
    ASSUME DotTypeOK, NEW s, Ends9(s) \/ Holds(s)
    PROVE  /\ p9' \in Stages9 /\ m9' \in Memory(Len(log))
           /\ hygiene'.oid \in 0..Len(log) /\ hygiene'.branch \in Branch \cup {"none"} /\ hygiene'.pending \in BOOLEAN
<1>1. Len(log) \in Nat
      BY DotAssumption DEF DotTypeOK
<1>2. m9' = NothingRead /\ p9' = "idle" /\ hygiene'.oid = m9.oid /\ hygiene'.branch = m9.branch
      /\ hygiene'.pending \in BOOLEAN
  <2>1. CASE Ends9(s)
        BY <2>1 DEF Ends9, Step9
  <2>2. CASE Holds(s)
        BY <2>2 DEF Holds, Step9
  <2> QED BY <2>1, <2>2
<1>3. m9.oid \in 0..Len(log) /\ m9.branch \in Branch \cup {"none"}
      BY DEF DotTypeOK
<1>4. p9' \in Stages9
      BY <1>2 DEF Stages9
<1>5. m9' \in Memory(Len(log))
      BY <1>1, <1>2, NothingReadTyped, Zenon
<1> QED BY <1>2, <1>3, <1>4, <1>5, Zenon

(* A step of the phase that commits nothing ends it or goes on. *)
LEMMA PhaseGoesOn ==
    ASSUME DotTypeOK, UNCHANGED <<worktree, log, head, origin, foreign, sessions, meddling>>,
           index' \in Trees, ours' \in 0..Len(log), crept' \in BOOLEAN, orphaned' \in BOOLEAN, attempts9' \in Nat,
           \/ \E s : Ends9(s) \/ Holds(s)
           \/ p9' \in Stages9 /\ m9' \in Memory(Len(log)) /\ hygiene' = hygiene
    PROVE  DotTypeOK'
<1>1. meddling' \in Nat
      BY DEF DotTypeOK
<1>2. CASE \E s : Ends9(s) \/ Holds(s)
      BY <1>1, <1>2, EndTyped, PhaseTyped
<1>3. CASE p9' \in Stages9 /\ m9' \in Memory(Len(log)) /\ hygiene' = hygiene
  <2>1. hygiene'.oid \in 0..Len(log) /\ hygiene'.branch \in Branch \cup {"none"} /\ hygiene'.pending \in BOOLEAN
        BY <1>3 DEF DotTypeOK
  <2> QED BY <1>1, <1>3, <2>1, PhaseTyped
<1> QED BY <1>2, <1>3

LEMMA DotInitially == DotInit => DotInv
<1> SUFFICES ASSUME DotInit PROVE DotInv
    OBVIOUS
<1>1. worktree \in Trees /\ index \in Trees
      BY DotAssumption DEF DotInit, Trees, Content
<1>2. log \in Seq(Commits) /\ Len(log) = 1
      BY <1>1 DEF DotInit, Commits
<1>3. DotTypeOK
  <2>1. m9 \in Memory(Len(log)) /\ p9 \in Stages9
        BY <1>2, NothingReadTyped DEF DotInit, Stages9
  <2>2. hygiene.oid \in 0..Len(log) /\ hygiene.branch \in Branch \cup {"none"} /\ hygiene.pending \in BOOLEAN
        BY <1>2 DEF DotInit, NoHygiene
  <2>3. /\ Len(log) \in 1..MaxLog /\ origin \in [Branch -> 1..Len(log)] /\ head \in Branch \cup {"detached"}
        /\ ours \in 0..Len(log)
        BY <1>2, DotAssumption DEF DotInit, Branch
  <2>4. /\ sessions \subseteq DotPath /\ foreign \in BOOLEAN /\ crept \in BOOLEAN /\ orphaned \in BOOLEAN
        /\ meddling \in Nat /\ attempts9 \in Nat
        BY DEF DotInit
  <2> QED BY <1>1, <1>2, <2>1, <2>2, <2>3, <2>4, TypedParts, Zenon
<1>4. HygieneSound /\ ReviewedBytes
      BY <1>2, DotAssumption DEF DotInit, HygieneSound, NoHygiene, ReviewedBytes
<1> QED BY <1>3, <1>4 DEF DotInv

LEMMA LenKept == DotTypeOK => Len(log) \in Nat /\ 0 \in 0..Len(log)
BY DotAssumption DEF DotTypeOK

(* What the phase remembers, as it goes on. *)
LEMMA MemoryKept ==
    ASSUME DotTypeOK
    PROVE  /\ m9 \in Memory(Len(log)) /\ NothingRead \in Memory(Len(log))
           /\ hygiene.pending => [NothingRead EXCEPT !.oid = hygiene.oid, !.branch = hygiene.branch, !.via = "retry"] \in Memory(Len(log))
           /\ [m9 EXCEPT !.changed = Changed] \in Memory(Len(log))
           /\ \A b \in Branch : [m9 EXCEPT !.oid = Len(log), !.branch = b] \in Memory(Len(log))
           /\ \A S \in SUBSET DotPath :
                 [m9 EXCEPT !.seen = sessions, !.eligible = S, !.reviewed = {DiffOf(f, worktree) : f \in S}] \in Memory(Len(log))
<1>1. m9 \in Memory(Len(log)) /\ NothingRead \in Memory(Len(log)) /\ Len(log) \in Nat
      BY LenKept, TypedParts, NothingReadTyped
<1>2. hygiene.oid \in 0..Len(log) /\ hygiene.branch \in Branch \cup {"none"} /\ sessions \subseteq DotPath
      BY DEF DotTypeOK
<1>3. [NothingRead EXCEPT !.oid = hygiene.oid, !.branch = hygiene.branch, !.via = "retry"] \in Memory(Len(log))
      BY <1>1, <1>2 DEF Memory
<1>4. [m9 EXCEPT !.changed = Changed] \in Memory(Len(log))
      BY <1>1 DEF Memory, Changed
<1>5. ASSUME NEW b \in Branch PROVE [m9 EXCEPT !.oid = Len(log), !.branch = b] \in Memory(Len(log))
  <2>1. Len(log) \in 0..Len(log) /\ b \in Branch \cup {"none"}
        BY <1>1
  <2> QED BY <1>1, <2>1 DEF Memory
<1>6. ASSUME NEW S \in SUBSET DotPath
      PROVE  [m9 EXCEPT !.seen = sessions, !.eligible = S, !.reviewed = {DiffOf(f, worktree) : f \in S}] \in Memory(Len(log))
  <2>1. worktree \in Trees
        BY DEF DotTypeOK
  <2>2. {DiffOf(f, worktree) : f \in S} \in SUBSET Diffs
        BY <2>1, TipIsATree
  <2> QED BY <1>1, <1>2, <2>2 DEF Memory
<1> QED BY <1>1, <1>3, <1>4, <1>5, <1>6

(* The phase: what it reads and what it forgets when it ends. *)
LEMMA PhaseReads ==
    ASSUME DotInv,
           StartHygiene \/ Snapshot \/ ReviewChanges \/ RaceCheck \/ DiffCheck \/ BeforeStaging
    PROVE  DotInv'
<1> USE DotAssumption DEF DotInv
<1>0. log' = log /\ crept' = crept /\ ReviewedBytes'
  <2>1. log' = log /\ crept' = crept
        BY DEF StartHygiene, Snapshot, ReviewChanges, RaceCheck, DiffCheck, BeforeStaging, Host9, Tally
  <2> QED BY <2>1, ReviewedStays
<1>1. CASE StartHygiene
  <2>1. DotTypeOK'
    <3>1. \/ \E s : Ends9(s) \/ Holds(s)
          \/ p9' \in Stages9 /\ m9' \in Memory(Len(log)) /\ hygiene' = hygiene
          BY <1>1, MemoryKept DEF StartHygiene, Refuses9, Step9, Stages9
    <3>2. /\ UNCHANGED <<worktree, log, head, origin, foreign, sessions, meddling>> /\ index' \in Trees
          /\ ours' \in 0..Len(log) /\ crept' \in BOOLEAN /\ orphaned' \in BOOLEAN /\ attempts9' \in Nat
          BY <1>1, LenKept DEF StartHygiene, DotTypeOK, Host9, Tally
    <3> QED BY <3>1, <3>2, PhaseGoesOn
  <2>2. HygieneSound'
        BY <1>1 DEF StartHygiene, HygieneSound, DotTypeOK, Step9, NothingRead, Host9, OnGitHub
  <2> QED BY <1>0, <2>1, <2>2
<1>2. CASE Snapshot
  <2>1. DotTypeOK'
    <3>1. \/ \E s : Ends9(s) \/ Holds(s)
          \/ p9' \in Stages9 /\ m9' \in Memory(Len(log)) /\ hygiene' = hygiene
          BY <1>2, MemoryKept DEF Snapshot, Refuses9, Step9, Stages9
    <3>2. /\ UNCHANGED <<worktree, log, head, origin, foreign, sessions, meddling>> /\ index' \in Trees
          /\ ours' \in 0..Len(log) /\ crept' \in BOOLEAN /\ orphaned' \in BOOLEAN /\ attempts9' \in Nat
          BY <1>2, LenKept DEF Snapshot, DotTypeOK, Host9, Tally
    <3> QED BY <3>1, <3>2, PhaseGoesOn
  <2>2. HygieneSound'
        BY <1>2 DEF Snapshot, HygieneSound, DotTypeOK, Step9, Ends9, NothingRead, Host9, Tally, OnGitHub
  <2> QED BY <1>0, <2>1, <2>2
<1>3. CASE ReviewChanges
  <2>1. /\ p9 = "review" /\ UNCHANGED <<Host9, Tally>>
        /\ \/ Ends9("skipped")
           \/ p9' = "race" /\ hygiene' = hygiene /\ m9' \in Memory(Len(log))
    <3>1. m9.changed \subseteq DotPath
          BY DEF DotTypeOK
    <3> DEFINE plain == {f \in m9.changed : ~Classified(f) /\ worktree[f] # Tip[f] /\ ~Sensitive(DiffOf(f, worktree))}
    <3>2. SUBSET plain \subseteq SUBSET DotPath
          BY <3>1
    <3>3. ASSUME NEW S \in SUBSET plain \ {{}},
                 m9' = [m9 EXCEPT !.seen = sessions, !.eligible = S, !.reviewed = {DiffOf(f, worktree) : f \in S}]
          PROVE  m9' \in Memory(Len(log))
          BY <3>2, <3>3, MemoryKept, Zenon
    <3>4. p9 = "review" /\ UNCHANGED <<Host9, Tally>>
          BY <1>3 DEF ReviewChanges
    <3> QED BY <1>3, <3>3, <3>4, Zenon DEF ReviewChanges, Step9
  <2>2. DotTypeOK'
    <3>1. /\ UNCHANGED <<worktree, log, head, origin, foreign, sessions, meddling>> /\ index' \in Trees
          /\ ours' \in 0..Len(log) /\ crept' \in BOOLEAN /\ orphaned' \in BOOLEAN /\ attempts9' \in Nat
          BY <2>1 DEF DotTypeOK, Host9, Tally
    <3>2. p9' = "race" => p9' \in Stages9
          BY DEF Stages9
    <3> QED BY <2>1, <3>1, <3>2, PhaseGoesOn
  <2>3. HygieneSound'
        BY <2>1 DEF HygieneSound, DotTypeOK, Step9, Ends9, NothingRead, Host9, Tally, OnGitHub
  <2> QED BY <1>0, <2>2, <2>3
<1>4. CASE RaceCheck \/ DiffCheck \/ BeforeStaging
  <2>1. DotTypeOK'
    <3>1. \/ \E s : Ends9(s) \/ Holds(s)
          \/ p9' \in Stages9 /\ m9' \in Memory(Len(log)) /\ hygiene' = hygiene
          BY <1>4, MemoryKept DEF RaceCheck, DiffCheck, BeforeStaging, Refuses9, Step9, Stages9
    <3>2. /\ UNCHANGED <<worktree, log, head, origin, foreign, sessions, meddling>> /\ index' \in Trees
          /\ ours' \in 0..Len(log) /\ crept' \in BOOLEAN /\ orphaned' \in BOOLEAN /\ attempts9' \in Nat
          BY <1>4, LenKept DEF RaceCheck, DiffCheck, BeforeStaging, DotTypeOK, Host9, Tally
    <3> QED BY <3>1, <3>2, PhaseGoesOn
  <2>2. HygieneSound'
        BY <1>4 DEF RaceCheck, DiffCheck, BeforeStaging, HygieneSound, DotTypeOK, Step9, Ends9, NothingRead, Host9, Tally, OnGitHub
  <2> QED BY <1>0, <2>1, <2>2
<1> QED BY <1>1, <1>2, <1>3, <1>4

(* Staging and committing exactly what was reviewed. *)
LEMMA PhaseCommits ==
    ASSUME DotInv, AddExactPaths \/ CompareStaged \/ ScanStaged \/ Commit9 PROVE DotInv'
<1> USE DotAssumption DEF DotInv
<1>0. Tip \in Trees
      BY TipIsATree
<1>1. CASE AddExactPaths
  <2>1. index' \in Trees
        BY <1>1 DEF AddExactPaths, DotTypeOK, Trees
  <2>2. DotTypeOK'
    <3>1. \/ \E s : Ends9(s) \/ Holds(s)
          \/ p9' \in Stages9 /\ m9' \in Memory(Len(log)) /\ hygiene' = hygiene
          BY <1>1, MemoryKept DEF AddExactPaths, Refuses9, Step9, Stages9
    <3>2. /\ UNCHANGED <<worktree, log, head, origin, foreign, sessions, meddling>> /\ index' \in Trees
          /\ ours' \in 0..Len(log) /\ crept' \in BOOLEAN /\ orphaned' \in BOOLEAN /\ attempts9' \in Nat
          BY <1>1, <2>1, LenKept DEF AddExactPaths, DotTypeOK, Host9, Tally
    <3> QED BY <3>1, <3>2, PhaseGoesOn
  <2>3. HygieneSound'
        BY <1>1 DEF AddExactPaths, HygieneSound, DotTypeOK, Step9, Tally, OnGitHub
  <2> QED BY <1>1, <2>2, <2>3, ReviewedStays DEF AddExactPaths, Tally
<1>2. ASSUME Unstages PROVE index' \in Trees
      BY <1>0, <1>2 DEF Unstages, DotTypeOK, Trees
<1>3. CASE CompareStaged
  <2>1. index' \in Trees
        BY <1>2, <1>3 DEF CompareStaged, Refuses9, DotTypeOK
  <2>2. DotTypeOK'
    <3>1. \/ \E s : Ends9(s) \/ Holds(s)
          \/ p9' \in Stages9 /\ m9' \in Memory(Len(log)) /\ hygiene' = hygiene
          BY <1>3, MemoryKept DEF CompareStaged, Refuses9, Ends9, NothingRead, Refuses9, Step9, Stages9
    <3>2. /\ UNCHANGED <<worktree, log, head, origin, foreign, sessions, meddling>> /\ index' \in Trees
          /\ ours' \in 0..Len(log) /\ crept' \in BOOLEAN /\ orphaned' \in BOOLEAN /\ attempts9' \in Nat
          BY <1>3, <2>1, LenKept DEF CompareStaged, Refuses9, Ends9, NothingRead, DotTypeOK, Host9, Tally
    <3> QED BY <3>1, <3>2, PhaseGoesOn
  <2>3. (p9' \in {"scan", "commit"} => StagedExactly')
        BY <1>3 DEF CompareStaged, Refuses9, Ends9, Step9, StagedExactly, StagedFiles, DiffOf, Tip
  <2>4. HygieneSound'
        BY <1>3, <2>3 DEF CompareStaged, Refuses9, Ends9, HygieneSound, DotTypeOK, Step9, Tally, OnGitHub
  <2> QED BY <1>3, <2>2, <2>4, ReviewedStays DEF CompareStaged, Tally
<1>4. CASE ScanStaged
  <2>1. index' \in Trees
        BY <1>2, <1>4 DEF ScanStaged, Refuses9, DotTypeOK
  <2>2. DotTypeOK'
    <3>1. \/ \E s : Ends9(s) \/ Holds(s)
          \/ p9' \in Stages9 /\ m9' \in Memory(Len(log)) /\ hygiene' = hygiene
          BY <1>4, MemoryKept DEF ScanStaged, Refuses9, Ends9, NothingRead, Refuses9, Step9, Stages9
    <3>2. /\ UNCHANGED <<worktree, log, head, origin, foreign, sessions, meddling>> /\ index' \in Trees
          /\ ours' \in 0..Len(log) /\ crept' \in BOOLEAN /\ orphaned' \in BOOLEAN /\ attempts9' \in Nat
          BY <1>4, <2>1, LenKept DEF ScanStaged, Refuses9, Ends9, NothingRead, DotTypeOK, Host9, Tally
    <3> QED BY <3>1, <3>2, PhaseGoesOn
  <2>3. (p9' \in {"scan", "commit"} /\ ~crept => StagedExactly')
        BY <1>4 DEF ScanStaged, Refuses9, Ends9, Step9, StagedExactly, StagedFiles, DiffOf, Tip, HygieneSound
  <2>4. HygieneSound'
        BY <1>4, <2>3 DEF ScanStaged, Refuses9, Ends9, HygieneSound, DotTypeOK, Step9, Tally, OnGitHub
  <2> QED BY <1>4, <2>2, <2>4, ReviewedStays DEF ScanStaged, Tally
<1>5. CASE Commit9 /\ log' = log
  <2>0. Refuses9 /\ ours' = ours /\ p9 = "commit"
    <3>1. log \in Seq(Commits)
          BY DEF DotTypeOK, Commits
    <3>2. \A c : Append(log, c) # log
          BY <3>1
    <3> QED BY <1>5, <3>2 DEF Commit9
  <2>1. index' \in Trees
        BY <1>2, <2>0 DEF Refuses9
  <2>2. DotTypeOK'
    <3>1. \/ \E s : Ends9(s) \/ Holds(s)
          \/ p9' \in Stages9 /\ m9' \in Memory(Len(log)) /\ hygiene' = hygiene
          BY <1>5, <2>0, MemoryKept DEF Commit9, Refuses9, Ends9, NothingRead, Refuses9, Step9, Stages9
    <3>2. /\ UNCHANGED <<worktree, log, head, origin, foreign, sessions, meddling>> /\ index' \in Trees
          /\ ours' \in 0..Len(log) /\ crept' \in BOOLEAN /\ orphaned' \in BOOLEAN /\ attempts9' \in Nat
          BY <1>5, <2>0, <2>1, LenKept DEF Commit9, Refuses9, Ends9, NothingRead, DotTypeOK, Host9, Tally
    <3> QED BY <3>1, <3>2, PhaseGoesOn
  <2>4. HygieneSound'
        BY <1>5, <2>0 DEF Commit9, Refuses9, Ends9, HygieneSound, DotTypeOK, Step9, OnGitHub
  <2> QED BY <1>5, <2>2, <2>4, ReviewedStays DEF Commit9
<1>6. CASE Commit9 /\ log' # log
  <2> DEFINE c == [tree |-> index, by |-> "p9b", reviewed |-> m9.reviewed]
  <2>0. /\ log' = Append(log, c) /\ ours' = Len(log') /\ Len(log) < MaxLog /\ p9 = "commit"
        /\ Step9("identify") /\ UNCHANGED <<index, m9, hygiene>>
        BY <1>6 DEF Commit9
  <2>1. c \in Commits
        BY DEF DotTypeOK, Commits
  <2>2. log' \in Seq(Commits) /\ Len(log') = Len(log) + 1
        BY <2>0, <2>1 DEF DotTypeOK, Commits
  <2>3. DotTypeOK'
    <3>1. 0..Len(log) \subseteq 0..Len(log') /\ 1..Len(log) \subseteq 1..Len(log') /\ Len(log') \in 1..MaxLog
          BY <2>0, <2>2 DEF DotTypeOK
    <3>2. m9' \in Memory(Len(log'))
          BY <2>0, <3>1 DEF DotTypeOK, Memory
    <3>3. origin' \in [Branch -> 1..Len(log')]
          BY <1>6, <3>1 DEF Commit9, DotTypeOK
    <3>4. ours' \in 0..Len(log') /\ hygiene'.oid \in 0..Len(log')
          BY <2>0, <2>2, <3>1 DEF DotTypeOK
    <3> QED BY <1>6, <2>0, <2>2, <3>1, <3>2, <3>3, <3>4 DEF Commit9, DotTypeOK, Step9, Stages9, Commits, Memory
  <2>4. HygieneSound'
        BY <1>6, <2>0 DEF Commit9, HygieneSound, Step9
  <2>5. ~crept => Written(Tip, c.tree) \subseteq c.reviewed
        BY <2>0, StagedIsWritten DEF HygieneSound
  <2>6. crept' = crept
        BY <1>6 DEF Commit9
  <2>7. ReviewedBytes'
        BY <2>0, <2>1, <2>5, <2>6, ReviewedGrows
  <2> QED BY <2>3, <2>4, <2>7
<1> QED BY <1>1, <1>3, <1>4, <1>5, <1>6

(* Behind the commit: what is held, pushed, called committed or left.  *)
LEMMA PhaseDelivers ==
    ASSUME DotInv, Identify \/ HoldPush \/ VerifyRemote \/ RetryPending \/ RetryReached \/ HygieneKilled \/ NextRun
    PROVE  DotInv'
<1> USE DotAssumption DEF DotInv
<1>0. log' = log /\ crept' = crept /\ index' = index /\ worktree' = worktree /\ ReviewedBytes'
  <2>1. log' = log /\ crept' = crept /\ index' = index /\ worktree' = worktree
        BY DEF Identify, HoldPush, VerifyRemote, RetryPending, RetryReached, HygieneKilled, NextRun, Host9, Tally
  <2> QED BY <2>1, ReviewedStays
<1>1. CASE Identify
  <2>0. UNCHANGED <<Host9, ours, crept, meddling, attempts9>> /\ p9 = "identify" /\ ours \in 0..Len(log) /\ Len(log) \in Nat
        BY <1>1, LenKept DEF Identify, DotTypeOK
  <2>1. CASE head = "detached"
    <3>1. Ends9("ambiguous") /\ orphaned' = TRUE
          BY <1>1, <2>1 DEF Identify
    <3>2. DotTypeOK'
          BY <2>0, <3>1, PhaseGoesOn DEF DotTypeOK, Host9
    <3>3. HygieneSound'
          BY <3>1 DEF Ends9, Step9, HygieneSound
    <3> QED BY <1>0, <3>2, <3>3
  <2>2. CASE head # "detached"
    <3>1. head \in Branch
          BY <2>2 DEF DotTypeOK
    <3>2. /\ p9' = "hold" /\ m9' = [m9 EXCEPT !.oid = Len(log), !.branch = head] /\ UNCHANGED <<hygiene, orphaned>>
          BY <1>1, <2>2 DEF Identify, Step9
    <3>3. m9' \in Memory(Len(log)) /\ m9'.oid = Len(log) /\ m9'.branch = head
      <4>1. m9' \in Memory(Len(log))
            BY <3>1, <3>2, MemoryKept, Zenon
      <4>2. m9 \in Memory(Len(log))
            BY MemoryKept
      <4> QED BY <3>2, <4>1, <4>2 DEF Memory
    <3>4. p9' \in Stages9
          BY <3>2 DEF Stages9
    <3>5. DotTypeOK'
          BY <2>0, <3>2, <3>3, <3>4, PhaseGoesOn DEF DotTypeOK, Host9
    <3>6. HygieneSound'
          BY <2>0, <3>1, <3>2, <3>3 DEF HygieneSound, Host9
    <3> QED BY <1>0, <3>5, <3>6
  <2> QED BY <2>1, <2>2
<1>2. CASE HoldPush
  <2>1. DotTypeOK'
    <3>1. \/ \E s : Ends9(s) \/ Holds(s)
          \/ p9' \in Stages9 /\ m9' \in Memory(Len(log)) /\ hygiene' = hygiene
          BY <1>2, MemoryKept DEF HoldPush, Refuses9, Step9, Stages9
    <3>2. /\ UNCHANGED <<worktree, log, head, origin, foreign, sessions, meddling>> /\ index' \in Trees
          /\ ours' \in 0..Len(log) /\ crept' \in BOOLEAN /\ orphaned' \in BOOLEAN /\ attempts9' \in Nat
          BY <1>2, LenKept DEF HoldPush, DotTypeOK, Host9, Tally
    <3> QED BY <3>1, <3>2, PhaseGoesOn
  <2>2. HygieneSound'
        BY <1>2 DEF HoldPush, HygieneSound, DotTypeOK, Step9, Holds, Host9, Tally, OnGitHub
  <2> QED BY <1>0, <2>1, <2>2
<1>3. CASE VerifyRemote
  <2>1. DotTypeOK'
    <3>1. \/ \E s : Ends9(s) \/ Holds(s)
          \/ p9' \in Stages9 /\ m9' \in Memory(Len(log)) /\ hygiene' = hygiene
          BY <1>3, MemoryKept DEF VerifyRemote, Refuses9, Step9, Stages9
    <3>2. /\ UNCHANGED <<worktree, log, head, origin, foreign, sessions, meddling>> /\ index' \in Trees
          /\ ours' \in 0..Len(log) /\ crept' \in BOOLEAN /\ orphaned' \in BOOLEAN /\ attempts9' \in Nat
          BY <1>3, LenKept DEF VerifyRemote, DotTypeOK, Host9, Tally
    <3> QED BY <3>1, <3>2, PhaseGoesOn
  <2>2. HygieneSound'
        BY <1>3 DEF VerifyRemote, HygieneSound, DotTypeOK, Step9, Ends9, Holds, Host9, Tally, OnGitHub
  <2> QED BY <1>0, <2>1, <2>2
<1>4. CASE RetryPending
  <2>1. DotTypeOK'
    <3>1. \/ \E s : Ends9(s) \/ Holds(s)
          \/ p9' \in Stages9 /\ m9' \in Memory(Len(log)) /\ hygiene' = hygiene
          BY <1>4, MemoryKept DEF RetryPending, Refuses9, Step9, Stages9
    <3>2. /\ UNCHANGED <<worktree, log, head, origin, foreign, sessions, meddling>> /\ index' \in Trees
          /\ ours' \in 0..Len(log) /\ crept' \in BOOLEAN /\ orphaned' \in BOOLEAN /\ attempts9' \in Nat
          BY <1>4, LenKept DEF RetryPending, DotTypeOK, Host9, Tally
    <3> QED BY <3>1, <3>2, PhaseGoesOn
  <2>2. HygieneSound'
        BY <1>4 DEF RetryPending, HygieneSound, DotTypeOK, Step9, Holds, Host9, Tally, OnGitHub
  <2> QED BY <1>0, <2>1, <2>2
<1>5. CASE RetryReached
  <2>1. DotTypeOK'
    <3>1. \/ \E s : Ends9(s) \/ Holds(s)
          \/ p9' \in Stages9 /\ m9' \in Memory(Len(log)) /\ hygiene' = hygiene
          BY <1>5, MemoryKept DEF RetryReached, Refuses9, Step9, Stages9
    <3>2. /\ UNCHANGED <<worktree, log, head, origin, foreign, sessions, meddling>> /\ index' \in Trees
          /\ ours' \in 0..Len(log) /\ crept' \in BOOLEAN /\ orphaned' \in BOOLEAN /\ attempts9' \in Nat
          BY <1>5, LenKept DEF RetryReached, DotTypeOK, Host9, Tally
    <3> QED BY <3>1, <3>2, PhaseGoesOn
  <2>2. HygieneSound'
        BY <1>5 DEF RetryReached, HygieneSound, DotTypeOK, Step9, Ends9, Holds, Host9, Tally, OnGitHub
  <2> QED BY <1>0, <2>1, <2>2
<1>6. CASE HygieneKilled
  <2>1. DotTypeOK'
    <3>1. \/ \E s : Ends9(s) \/ Holds(s)
          \/ p9' \in Stages9 /\ m9' \in Memory(Len(log)) /\ hygiene' = hygiene
          BY <1>6, MemoryKept DEF HygieneKilled, Refuses9, Step9, Stages9
    <3>2. /\ UNCHANGED <<worktree, log, head, origin, foreign, sessions, meddling>> /\ index' \in Trees
          /\ ours' \in 0..Len(log) /\ crept' \in BOOLEAN /\ orphaned' \in BOOLEAN /\ attempts9' \in Nat
          BY <1>6, LenKept DEF HygieneKilled, DotTypeOK, Host9, Tally
    <3> QED BY <3>1, <3>2, PhaseGoesOn
  <2>2. HygieneSound'
        BY <1>6 DEF HygieneKilled, HygieneSound, DotTypeOK, Step9, Host9, Tally, OnGitHub, Stages9
  <2> QED BY <1>0, <2>1, <2>2
<1>7. CASE NextRun
  <2>1. DotTypeOK'
    <3>1. /\ UNCHANGED <<worktree, log, head, origin, foreign, sessions, meddling>> /\ index' \in Trees
          /\ ours' \in 0..Len(log) /\ crept' \in BOOLEAN /\ orphaned' \in BOOLEAN /\ attempts9' \in Nat
          BY <1>7, LenKept DEF NextRun, DotTypeOK, Host9
    <3>2. p9' \in Stages9 /\ m9' \in Memory(Len(log))
          BY <1>7, MemoryKept DEF NextRun, DotTypeOK
    <3>3. hygiene'.oid \in 0..Len(log) /\ hygiene'.branch \in Branch \cup {"none"} /\ hygiene'.pending \in BOOLEAN
          BY <1>7, LenKept DEF NextRun, NoHygiene
    <3>4. meddling' \in Nat
          BY <3>1 DEF DotTypeOK
    <3> QED BY <3>1, <3>2, <3>3, <3>4, PhaseTyped
  <2>2. HygieneSound'
        BY <1>7 DEF NextRun, HygieneSound, DotTypeOK, NoHygiene, Host9, Tally, OnGitHub
  <2> QED BY <1>0, <2>1, <2>2
<1> QED BY <1>1, <1>2, <1>3, <1>4, <1>5, <1>6, <1>7

(* A push moves the branch of GitHub forward to the commit that is held.        *)
LEMMA PhasePushes == ASSUME DotInv, PushExact PROVE DotInv'
<1> USE DotAssumption DEF DotInv
<1>0. m9.branch \in Branch /\ m9.oid \in 0..Len(log) /\ p9 = "push"
      BY DEF PushExact, HygieneSound, DotTypeOK
<1>1. origin' \in [Branch -> 1..Len(log)] /\ \A b \in Branch : origin'[b] >= origin[b]
  <2>1. CASE origin' = origin
        BY <2>1 DEF DotTypeOK
  <2>2. CASE origin[m9.branch] <= m9.oid /\ origin' = [origin EXCEPT ![m9.branch] = m9.oid]
    <3>1. origin \in [Branch -> 1..Len(log)]
          BY DEF DotTypeOK
    <3>2. m9.oid \in 1..Len(log)
          BY <1>0, <2>2, <3>1
    <3>3. origin' \in [Branch -> 1..Len(log)]
          BY <2>2, <3>1, <3>2
    <3>4. ASSUME NEW b \in Branch PROVE origin'[b] >= origin[b]
          BY <1>0, <2>2, <3>1, <3>4
    <3> QED BY <3>3, <3>4
  <2> QED BY <2>1, <2>2 DEF PushExact
<1>2. log' = log /\ crept' = crept
      BY DEF PushExact, Tally
<1>3. DotTypeOK'
  <2>1. UNCHANGED <<worktree, index, head, foreign, sessions, Tally>>
        BY DEF PushExact
  <2>2. /\ p9' \in Stages9 /\ m9' \in Memory(Len(log))
        /\ hygiene'.oid \in 0..Len(log) /\ hygiene'.branch \in Branch \cup {"none"} /\ hygiene'.pending \in BOOLEAN
    <3>1. CASE Step9("verify") /\ UNCHANGED <<m9, hygiene>>
          BY <3>1, TypedParts DEF Step9, Stages9
    <3>2. CASE Holds("push_failed")
          BY <3>2, EndTyped
    <3> QED BY <3>1, <3>2 DEF PushExact
  <2> QED BY <1>1, <1>2, <2>1, <2>2 DEF DotTypeOK, Memory, Tally
<1>4. \A n \in 0..Len(log) : OnGitHub(n) => OnGitHub(n)'
      BY <1>1 DEF OnGitHub, DotTypeOK
<1>5. HygieneSound'
  <2>1. hygiene.status = "committed" => hygiene.branch \in Branch /\ origin'[hygiene.branch] >= hygiene.oid
        BY <1>1 DEF HygieneSound, DotTypeOK
  <2>2. ours' = ours /\ orphaned' = orphaned /\ ours \in 0..Len(log)
        BY DEF PushExact, Tally, DotTypeOK
  <2>3. CASE Step9("verify") /\ UNCHANGED <<m9, hygiene>>
        BY <1>0, <1>4, <2>1, <2>2, <2>3 DEF Step9, HygieneSound
  <2>4. CASE Holds("push_failed")
        BY <1>0, <1>4, <2>2, <2>4 DEF Holds, Step9, HygieneSound
  <2> QED BY <2>3, <2>4 DEF PushExact
<1> QED BY <1>2, <1>3, <1>5, ReviewedStays

(* Whatever the operator and the sessions do. *)
LEMMA MeddlingKeeps ==
    ASSUME DotInv,
           \/ \E f \in DotPath : StageByHand(f) \/ \E c \in Content : EditFile(f, c)
           \/ OriginMoves
           \/ \E S \in SUBSET DotPath : SessionMoves(S)
           \/ \E b \in Branch \cup {"detached"} : CheckOut(b)
    PROVE  DotInv'
<1> USE DotAssumption DEF DotInv
<1>1. log' = log /\ (crept => crept')
  <2>1. log' = log
        BY Zenon DEF StageByHand, EditFile, OriginMoves, SessionMoves, CheckOut, Phase9
  <2>2. crept' = crept \/ crept' = (crept \/ Late)
        BY DEF StageByHand, EditFile, OriginMoves, SessionMoves, CheckOut
  <2>3. crept \in BOOLEAN /\ Late \in BOOLEAN
        BY DEF DotTypeOK, Late
  <2> QED BY <2>1, <2>2, <2>3
<1>2. UNCHANGED Phase9 /\ origin' = origin
      BY Zenon DEF StageByHand, EditFile, OriginMoves, SessionMoves, CheckOut
<1>3. worktree' \in Trees /\ index' \in Trees
      BY DEF StageByHand, EditFile, OriginMoves, SessionMoves, CheckOut, DotTypeOK, Trees
<1>4. sessions' \subseteq DotPath /\ foreign' \in BOOLEAN /\ crept' \in BOOLEAN /\ head' \in Branch \cup {"detached"}
      BY DEF StageByHand, EditFile, OriginMoves, SessionMoves, CheckOut, DotTypeOK, Late
<1>5. meddling' \in Nat
      BY DEF StageByHand, EditFile, OriginMoves, SessionMoves, CheckOut, DotTypeOK, Meddles
<1>6. DotTypeOK'
      BY <1>1, <1>2, <1>3, <1>4, <1>5 DEF DotTypeOK, Phase9
<1>7. p9 \in {"scan", "commit"} /\ ~crept' => index' = index
      BY DEF StageByHand, EditFile, OriginMoves, SessionMoves, CheckOut, Late
<1>8. p9 \in {"scan", "commit"} /\ ~crept' => StagedExactly'
      BY <1>1, <1>2, <1>7 DEF StagedExactly, StagedFiles, DiffOf, Tip, HygieneSound, Phase9
<1>9. HygieneSound'
      BY <1>2, <1>8 DEF HygieneSound, Phase9, OnGitHub
<1> QED BY <1>1, <1>6, <1>9, ReviewedStays

LEMMA HandCommitKeeps == ASSUME DotInv, CommitByHand PROVE DotInv'
<1> USE DotAssumption DEF DotInv
<1> DEFINE c == [tree |-> index, by |-> "operator", reviewed |-> {}]
<1>0. /\ log' = Append(log, c) /\ Len(log) < MaxLog /\ crept' = (crept \/ Late) /\ UNCHANGED Phase9
      /\ meddling' = meddling + 1
      BY DEF CommitByHand, Meddles
<1>1. c \in Commits
      BY DEF DotTypeOK, Commits
<1>2. log' \in Seq(Commits) /\ Len(log') = Len(log) + 1
      BY <1>0, <1>1 DEF DotTypeOK, Commits
<1>3. DotTypeOK'
  <2>1. 0..Len(log) \subseteq 0..Len(log') /\ 1..Len(log) \subseteq 1..Len(log') /\ Len(log') \in 1..MaxLog
        BY <1>0, <1>2 DEF DotTypeOK
  <2>2. m9' \in Memory(Len(log'))
        BY <1>0, <2>1 DEF DotTypeOK, Memory, Phase9
  <2>3. origin' \in [Branch -> 1..Len(log')]
        BY <2>1 DEF CommitByHand, DotTypeOK
  <2>4. crept' \in BOOLEAN
        BY <1>0, Zenon DEF DotTypeOK, Late
  <2> QED BY <1>0, <1>2, <2>1, <2>2, <2>3, <2>4 DEF CommitByHand, DotTypeOK, Commits, Memory, Phase9
<1>4. HygieneSound'
  <2>1. p9 \in {"scan", "commit"} => crept'
        BY <1>0, Zenon DEF Late
  <2>2. origin' = origin /\ UNCHANGED <<p9, m9, hygiene, ours, orphaned>>
        BY <1>0 DEF CommitByHand, Phase9
  <2> QED BY <2>1, <2>2 DEF HygieneSound, OnGitHub
<1>5. ReviewedBytes'
      BY <1>0, <1>1, ReviewedGrows
<1> QED BY <1>3, <1>4, <1>5

(* Inductive invariant of the hygiene phase (HygieneSound), whatever is edited.   *)
THEOREM DotInvariance == ASSUME DotInv, [DotNext]_dotVars PROVE DotInv'
<1>1. CASE DotNext
      BY <1>1, PhaseReads, PhaseCommits, PhaseDelivers, PhasePushes, MeddlingKeeps, HandCommitKeeps DEF DotNext
<1>2. CASE UNCHANGED dotVars
      BY <1>2 DEF DotInv, DotTypeOK, HygieneSound, ReviewedBytes, dotVars, OnGitHub, StagedExactly, StagedFiles, DiffOf, Tip
<1> QED BY <1>1, <1>2

(* The hygiene phase: what it commits was reviewed, and what it commits is accounted for. *)
THEOREM HygieneHolds == DotSpec => [](DotTypeOK /\ ReviewedBytes /\ CommitAccounted)
<1>1. DotInv => DotTypeOK /\ ReviewedBytes /\ CommitAccounted
      BY DEF DotInv, CommitAccounted, HygieneSound
<1> QED BY <1>1, DotInitially, DotInvariance, PTL DEF DotSpec

-----------------------------------------------------------------------------

(* The edition, the dotfiles and the attention record together. *)
AllInv == PublishInv /\ DotInv /\ AttInv

LEMMA AllStep == ASSUME AllInv, [PublishingNext]_mcVars PROVE AllInv'
<1>1. [PublishNext]_newsVars
      BY DEF PublishingNext, mcVars
<1>2. [DotNext]_dotVars
      BY DEF PublishingNext, mcVars
<1>3. [AttNext]_attVars
      BY DEF PublishingNext, mcVars
<1> QED BY <1>1, <1>2, <1>3, PublishInvariance, DotInvariance, AttInvariance DEF AllInv

LEMMA AllInitially == PublishingInit => AllInv
BY PublishInitially, DotInitially, AttInitially DEF PublishingInit, AllInv

(* What was mailed and what the site shows is what was proven, and a commit of *)
(* the dotfiles is what was reviewed, pushed or recorded: for any publishers,   *)
(* sections, files and contents.                                                 *)
THEOREM PublishedStays == PublishingSpec => []PublishedTrue
<1>1. AllInv => PublishedTrue
      BY DEF AllInv, PublishInv, DotInv, PublishedTrue, CommitAccounted, HygieneSound
<1> QED BY <1>1, AllInitially, AllStep, PTL DEF PublishingSpec

(* JevClient's breaker and phase_2b_attention: after Breaker failures in a row  *)
(* nothing more is sent than what workers had in hand, and a story whose        *)
(* documents were not all judged gets no score, for any number of workers.       *)
THEOREM AttentionStays == PublishingSpec => []AttentionHonest
<1>1. AllInv => AttentionHonest
      BY DEF AllInv, AttInv, Honest, AttentionHonest
<1> QED BY <1>1, AllInitially, AllStep, PTL DEF PublishingSpec

-----------------------------------------------------------------------------
(* Facts about least numbers, recursive functions and loops over sequences.     *)

(* A set of numbers has a least one. *)
LEMMA LeastOf ==
  ASSUME NEW S \in SUBSET Nat, S # {}
  PROVE  \E n \in S : \A m \in S : n <= m
<1>1. PICK n \in S : \A m \in S : <<m, n>> \notin OpToRel(<, Nat)
  BY NatLessThanWellFounded, WFMin
<1>2. \A m \in S : ~(m < n)
  BY <1>1 DEF OpToRel
<1> QED  BY <1>2

(* What holds of 0 and passes to the next number holds of every number.        *)
LEMMA CountingUp ==
  ASSUME NEW S \in SUBSET Nat, 0 \in S, \A n \in S : n + 1 \in S
  PROVE  S = Nat
<1> SUFFICES ASSUME Nat \ S # {} PROVE FALSE
  OBVIOUS
<1>1. PICK n \in Nat \ S : \A m \in Nat \ S : n <= m
  BY LeastOf
<1>2. n # 0 /\ n - 1 \in Nat
  BY <1>1
<1>3. n - 1 \in S
  BY <1>1, <1>2
<1>4. (n - 1) + 1 \in S
  BY <1>3
<1> QED  BY <1>1, <1>2, <1>4

(* What the definition G says of an argument depends on arguments of lower     *)
(* rank only; and v is as G says.                                              *)
LooksLower(D, V, rank, G) ==
    \A r \in D : \A g, h \in [D -> V] :
        (\A k \in D : rank[k] < rank[r] => g[k] = h[k]) => G[r][g] = G[r][h]
Solves(v, D, G) == \A r \in D : v[r] = G[r][v]

(* A function may be defined by what it is of arguments of lower rank, when the *)
(* ranks are bounded: such a function exists.                                  *)
LEMMA Recursion ==
  ASSUME NEW D, NEW V, V # {}, NEW N \in Nat, NEW rank \in [D -> 0..N],
         NEW G \in [D -> [[D -> V] -> V]], LooksLower(D, V, rank, G)
  PROVE  \E v \in [D -> V] : Solves(v, D, G)
<1> DEFINE Good(n, v) == \A r \in D : rank[r] < n => v[r] = G[r][v]
           S == {n \in Nat : \E v \in [D -> V] : Good(n, v)}
<1>1. 0 \in S
  <2>1. PICK a \in V : TRUE
    OBVIOUS
  <2>2. [r \in D |-> a] \in [D -> V]
    OBVIOUS
  <2>3. Good(0, [r \in D |-> a])
    <3>1. \A r \in D : ~(rank[r] < 0)
      OBVIOUS
    <3> QED  BY <3>1
  <2> HIDE DEF Good
  <2> QED  BY <2>2, <2>3
<1>2. ASSUME NEW n \in S PROVE n + 1 \in S
  <2>1. PICK v \in [D -> V] : Good(n, v)
    OBVIOUS
  <2> DEFINE w == [r \in D |-> IF rank[r] < n THEN v[r] ELSE G[r][v]]
  <2>2. w \in [D -> V]
    OBVIOUS
  <2>3. \A r \in D : w[r] = IF rank[r] < n THEN v[r] ELSE G[r][v]
    OBVIOUS
  <2> HIDE DEF w
  <2>4. ASSUME NEW r \in D, rank[r] < n + 1 PROVE w[r] = G[r][w]
    <3>1. \A k \in D : rank[k] < rank[r] => w[k] = v[k]
      BY <2>3, <2>4
    <3>2. G[r][w] = G[r][v]
      BY <3>1, <2>2 DEF LooksLower
    <3>3. w[r] = G[r][v]
      BY <2>1, <2>3
    <3> QED  BY <3>2, <3>3
  <2>5. Good(n + 1, w)
    BY <2>4
  <2> HIDE DEF Good
  <2> QED  BY <2>2, <2>5
<1> HIDE DEF S
<1>3. S \in SUBSET Nat
  BY DEF S
<1>4. N + 1 \in S
  BY <1>1, <1>2, <1>3, CountingUp
<1>5. PICK v \in [D -> V] : Good(N + 1, v)
  BY <1>4 DEF S
<1>6. \A r \in D : rank[r] < N + 1
  OBVIOUS
<1> QED  BY <1>5, <1>6 DEF Solves

-----------------------------------------------------------------------------
(* Loops over a sequence.                                                      *)

(* What a loop has after each of its steps, when g says what a step does.      *)
Runs(u, g, start, s) == u[0] = start /\ \A n \in 1..Len(s) : u[n] = g[u[n - 1]][s[n]]

LEMMA LoopRuns ==
  ASSUME NEW X, NEW V, NEW start \in V, NEW g \in [V -> [X -> V]], NEW s \in Seq(X)
  PROVE  \E u \in [0..Len(s) -> V] : Runs(u, g, start, s)
<1> DEFINE N == Len(s)
           D == 0..N
           Body(n, u) == IF n = 0 THEN start ELSE g[u[n - 1]][s[n]]
           G == [n \in D |-> [u \in [D -> V] |-> Body(n, u)]]
           rank == [n \in D |-> n]
<1>0. N \in Nat /\ \A n \in D : n # 0 => n - 1 \in D /\ n - 1 < n /\ s[n] \in X
  OBVIOUS
<1>1. rank \in [D -> 0..N] /\ \A n \in D : rank[n] = n
  OBVIOUS
<1> HIDE DEF N
<1>2. ASSUME NEW n \in D, NEW u \in [D -> V] PROVE Body(n, u) \in V
  <2>1. CASE n = 0
    BY <2>1
  <2>2. CASE n # 0
    <3>1. u[n - 1] \in V /\ s[n] \in X
      BY <1>0, <2>2
    <3> QED  BY <2>2, <3>1
  <2> QED  BY <2>1, <2>2
<1>3. ASSUME NEW n \in D, NEW v \in [D -> V], NEW w \in [D -> V],
             \A m \in D : rank[m] < rank[n] => v[m] = w[m]
      PROVE  Body(n, v) = Body(n, w)
  <2>1. CASE n = 0
    BY <2>1
  <2>2. CASE n # 0
    <3>1. v[n - 1] = w[n - 1]
      BY <1>0, <1>1, <1>3, <2>2
    <3> QED  BY <2>2, <3>1
  <2> QED  BY <2>1, <2>2
<1> HIDE DEF Body
<1>4. G \in [D -> [[D -> V] -> V]] /\ \A n \in D : \A u \in [D -> V] : G[n][u] = Body(n, u)
  BY <1>2
<1>5. LooksLower(D, V, rank, G)
  BY <1>3, <1>4 DEF LooksLower
<1>6. PICK v \in [D -> V] : Solves(v, D, G)
  <2> HIDE DEF D, G, rank
  <2> QED  BY <1>0, <1>1, <1>4, <1>5, Recursion
<1>7. \A n \in D : v[n] = Body(n, v)
  BY <1>4, <1>6 DEF Solves
<1>8. 0 \in D /\ \A n \in 1..N : n \in D /\ n # 0
  BY <1>0
<1>9. Runs(v, g, start, s)
  BY <1>7, <1>8 DEF Runs, Body, N
<1> QED  BY <1>9 DEF N

(* What every step of a loop keeps holds all the way.                          *)
LEMMA LoopKeeps ==
  ASSUME NEW N \in Nat, NEW u, NEW V, u[0] \in V, \A n \in 1..N : u[n - 1] \in V => u[n] \in V
  PROVE  \A n \in 0..N : u[n] \in V
<1> DEFINE S == {n \in Nat : n <= N => u[n] \in V}
<1>1. 0 \in S
  OBVIOUS
<1>2. ASSUME NEW n \in S PROVE n + 1 \in S
  <2> SUFFICES ASSUME n + 1 <= N PROVE u[n + 1] \in V
    OBVIOUS
  <2>1. n + 1 \in 1..N /\ (n + 1) - 1 = n /\ n <= N
    OBVIOUS
  <2> QED  BY <2>1
<1>3. S = Nat
  <2> HIDE DEF S
  <2>1. S \in SUBSET Nat
    BY DEF S
  <2> QED  BY <1>1, <1>2, <2>1, CountingUp
<1> QED  BY <1>3

(* Choosing the items of a sequence that are in T, item by item.               *)
Chooses(u, s, T) ==
    /\ u[0] = <<>> /\ OnlyIn(s, T) = u[Len(s)]
    /\ \A n \in 1..Len(s) : u[n] = IF s[n] \in T THEN Append(u[n - 1], s[n]) ELSE u[n - 1]

LEMMA OnlyInBySteps ==
  ASSUME NEW X, NEW s \in Seq(X), NEW T
  PROVE  \E u \in [0..Len(s) -> Seq(X)] : Chooses(u, s, T)
<1> DEFINE V == Seq(X)
           D == 0..Len(s)
           Stp(a, x) == IF x \in T THEN Append(a, x) ELSE a
           Body(n, u) == IF n = 0 THEN <<>> ELSE Stp(u[n - 1], s[n])
           g == [a \in V |-> [x \in X |-> Stp(a, x)]]
           upto[n \in D] == Body(n, upto)
<1>1. \A a \in V, x \in X : Stp(a, x) \in V
  OBVIOUS
<1>2. <<>> \in V /\ Len(s) \in Nat /\ \A n \in 1..Len(s) : s[n] \in X
  OBVIOUS
<1>3. OnlyIn(s, T) = upto[Len(s)]
  BY DEF OnlyIn, Folded
<1> HIDE DEF Stp, V
<1>4. g \in [V -> [X -> V]] /\ \A a \in V, x \in X : g[a][x] = Stp(a, x)
  BY <1>1
<1>5. PICK v \in [D -> V] : Runs(v, g, <<>>, s)
  <2> HIDE DEF g
  <2> QED  BY <1>2, <1>4, LoopRuns
<1>6. \A n \in 1..Len(s) : n \in D /\ n - 1 \in D /\ n # 0
  BY <1>2
<1>7. v = [n \in D |-> Body(n, v)]
  <2>1. v[0] = Body(0, v)
    BY <1>5 DEF Runs
  <2>2. ASSUME NEW n \in 1..Len(s) PROVE v[n] = Body(n, v)
    <3>1. v[n - 1] \in V /\ s[n] \in X /\ n # 0
      BY <1>2, <1>6
    <3> HIDE DEF g
    <3> QED  BY <1>4, <1>5, <3>1 DEF Runs
  <2>3. \A n \in D : n = 0 \/ n \in 1..Len(s)
    BY <1>2
  <2> HIDE DEF Body
  <2> QED  BY <2>1, <2>2, <2>3
<1> HIDE DEF Body
<1>8. upto = [n \in D |-> Body(n, upto)]
  BY <1>7
<1> HIDE DEF upto
<1>9. \A n \in D : upto[n] = Body(n, upto)
  BY <1>8
<1>10. upto[0] = <<>>
  <2>1. 0 \in D
    BY <1>2
  <2> QED  BY <1>9, <2>1 DEF Body
<1>11. \A n \in 1..Len(s) : upto[n] = Stp(upto[n - 1], s[n])
  BY <1>6, <1>9 DEF Body
<1>12. \A n \in 0..Len(s) : upto[n] \in V
  <2>1. \A n \in 1..Len(s) : upto[n - 1] \in V => upto[n] \in V
    BY <1>1, <1>2, <1>11
  <2>2. upto[0] \in V /\ Len(s) \in Nat
    BY <1>2, <1>10
  <2> HIDE DEF upto
  <2> QED  BY <2>1, <2>2, LoopKeeps
<1>13. upto \in [D -> V]
  <2>1. \A n \in D : Body(n, upto) \in V
    BY <1>9, <1>12
  <2> QED  BY <1>8, <2>1
<1> QED  BY <1>3, <1>10, <1>11, <1>13 DEF Chooses, Stp, V

(* No two items of a sequence have one key.                                    *)
Apart(s, key) == \A m, n \in 1..Len(s) : key[s[m]] = key[s[n]] => m = n

LEMMA RangeIs ==
  ASSUME NEW X, NEW s \in Seq(X)
  PROVE  /\ Range(s) = {s[n] : n \in 1..Len(s)} /\ Len(s) \in Nat /\ DOMAIN s = 1..Len(s)
         /\ \A n \in 1..Len(s) : s[n] \in X /\ s[n] \in Range(s)
         /\ Range(s) \subseteq X
<1>1. DOMAIN s = 1..Len(s) /\ Len(s) \in Nat /\ \A n \in 1..Len(s) : s[n] \in X
  OBVIOUS
<1> QED  BY <1>1 DEF Range

LEMMA RangeOfNone == Range(<<>>) = {}
  BY DEF Range

LEMMA RangeGrows ==
  ASSUME NEW X, NEW s \in Seq(X), NEW x \in X
  PROVE  /\ Append(s, x) \in Seq(X) /\ Len(Append(s, x)) = Len(s) + 1
         /\ Range(Append(s, x)) = Range(s) \cup {x}
         /\ \A n \in 1..Len(s) : Append(s, x)[n] = s[n]
         /\ Append(s, x)[Len(s) + 1] = x
<1> DEFINE t == Append(s, x)
<1>1. /\ t \in Seq(X) /\ Len(t) = Len(s) + 1 /\ Len(s) \in Nat
      /\ \A n \in 1..Len(s) : t[n] = s[n]
      /\ t[Len(s) + 1] = x
  OBVIOUS
<1> HIDE DEF t
<1>2. Range(t) = {t[n] : n \in 1..Len(t)} /\ Range(s) = {s[n] : n \in 1..Len(s)}
  BY <1>1, RangeIs
<1>3. 1..Len(t) = 1..Len(s) \cup {Len(s) + 1}
  BY <1>1
<1>4. Range(t) = Range(s) \cup {x}
  BY <1>1, <1>2, <1>3
<1> QED  BY <1>1, <1>4 DEF t

(* Appending what has another key keeps the keys apart.                        *)
LEMMA ApartGrows ==
  ASSUME NEW X, NEW s \in Seq(X), NEW x \in X, NEW key, Apart(s, key),
         \A y \in Range(s) : key[y] # key[x]
  PROVE  Apart(Append(s, x), key)
<1> DEFINE t == Append(s, x)
<1>1. /\ t \in Seq(X) /\ Len(t) = Len(s) + 1 /\ Len(s) \in Nat
      /\ \A n \in 1..Len(s) : t[n] = s[n] /\ s[n] \in Range(s)
      /\ t[Len(s) + 1] = x
  BY RangeGrows, RangeIs
<1> HIDE DEF t
<1>2. ASSUME NEW m \in 1..Len(t), NEW n \in 1..Len(t), key[t[m]] = key[t[n]] PROVE m = n
  <2>1. CASE m \in 1..Len(s) /\ n \in 1..Len(s)
    BY <1>1, <1>2, <2>1 DEF Apart
  <2>2. CASE m \notin 1..Len(s) /\ n \in 1..Len(s)
    <3>1. m = Len(s) + 1
      BY <1>1, <2>2
    <3> QED  BY <1>1, <1>2, <2>2, <3>1
  <2>3. CASE m \in 1..Len(s) /\ n \notin 1..Len(s)
    <3>1. n = Len(s) + 1
      BY <1>1, <2>3
    <3> QED  BY <1>1, <1>2, <2>3, <3>1
  <2>4. CASE m \notin 1..Len(s) /\ n \notin 1..Len(s)
    BY <1>1, <2>4
  <2> QED  BY <2>1, <2>2, <2>3, <2>4
<1>3. Apart(t, key)
  BY <1>2 DEF Apart
<1> QED  BY <1>3 DEF t

(* Two sequences one after the other.                                          *)
LEMMA RangeJoins ==
  ASSUME NEW X, NEW s \in Seq(X), NEW t \in Seq(X)
  PROVE  /\ s \o t \in Seq(X) /\ Range(s \o t) = Range(s) \cup Range(t)
         /\ Len(s \o t) = Len(s) + Len(t)
         /\ \A n \in 1..Len(s) : (s \o t)[n] = s[n]
         /\ \A n \in 1..Len(t) : (s \o t)[Len(s) + n] = t[n]
         /\ \A n \in 1..Len(s \o t) : n \in 1..Len(s) \/ n - Len(s) \in 1..Len(t)
<1> DEFINE p == s \o t
<1>1. /\ p \in Seq(X) /\ Len(p) = Len(s) + Len(t) /\ Len(s) \in Nat /\ Len(t) \in Nat
      /\ \A i \in 1..Len(p) : p[i] = IF i <= Len(s) THEN s[i] ELSE t[i - Len(s)]
  OBVIOUS
<1> HIDE DEF p
<1>2. \A n \in 1..Len(s) : n \in 1..Len(p) /\ p[n] = s[n]
  BY <1>1
<1>3. ASSUME NEW n \in 1..Len(t) PROVE Len(s) + n \in 1..Len(p) /\ p[Len(s) + n] = t[n]
  <2>1. Len(s) + n \in 1..Len(p) /\ ~(Len(s) + n <= Len(s)) /\ (Len(s) + n) - Len(s) = n
    BY <1>1
  <2> QED  BY <1>1, <2>1
<1>4. ASSUME NEW n \in 1..Len(p) PROVE n \in 1..Len(s) \/ n - Len(s) \in 1..Len(t)
  BY <1>1
<1>5. Range(p) = {p[n] : n \in 1..Len(p)} /\ Range(s) = {s[n] : n \in 1..Len(s)}
      /\ Range(t) = {t[n] : n \in 1..Len(t)}
  BY <1>1, RangeIs
<1>6. ASSUME NEW n \in 1..Len(p) PROVE p[n] \in Range(s) \cup Range(t)
  <2>1. CASE n \in 1..Len(s)
    BY <1>2, <1>5, <2>1
  <2>2. CASE n - Len(s) \in 1..Len(t)
    <3>1. Len(s) + (n - Len(s)) = n
      BY <1>1
    <3>2. p[n] = t[n - Len(s)]
      BY <1>3, <2>2, <3>1
    <3> QED  BY <1>5, <2>2, <3>2
  <2> QED  BY <1>4, <2>1, <2>2
<1>7. Range(p) = Range(s) \cup Range(t)
  BY <1>2, <1>3, <1>5, <1>6
<1> QED  BY <1>1, <1>2, <1>3, <1>4, <1>7 DEF p

LEMMA ApartJoins ==
  ASSUME NEW X, NEW s \in Seq(X), NEW t \in Seq(X), NEW key, Apart(s, key), Apart(t, key),
         \A x \in Range(s), y \in Range(t) : key[x] # key[y]
  PROVE  Apart(s \o t, key)
<1> DEFINE p == s \o t
<1>1. /\ p \in Seq(X) /\ Len(p) = Len(s) + Len(t) /\ Len(s) \in Nat /\ Len(t) \in Nat
      /\ \A i \in 1..Len(p) : p[i] = IF i <= Len(s) THEN s[i] ELSE t[i - Len(s)]
  OBVIOUS
<1> HIDE DEF p
<1>2. ASSUME NEW i \in 1..Len(p)
      PROVE  \/ i \in 1..Len(s) /\ p[i] = s[i] /\ s[i] \in Range(s)
             \/ i - Len(s) \in 1..Len(t) /\ p[i] = t[i - Len(s)] /\ t[i - Len(s)] \in Range(t)
  <2>1. CASE i <= Len(s)
    <3>1. i \in 1..Len(s)
      BY <1>1, <2>1
    <3> QED  BY <1>1, <2>1, <3>1, RangeIs
  <2>2. CASE ~(i <= Len(s))
    <3>1. i - Len(s) \in 1..Len(t)
      BY <1>1, <2>2
    <3> QED  BY <1>1, <2>2, <3>1, RangeIs
  <2> QED  BY <2>1, <2>2
<1>3. ASSUME NEW m \in 1..Len(p), NEW n \in 1..Len(p), key[p[m]] = key[p[n]] PROVE m = n
  <2>1. \/ m \in 1..Len(s) /\ n \in 1..Len(s) /\ key[s[m]] = key[s[n]]
        \/ m - Len(s) \in 1..Len(t) /\ n - Len(s) \in 1..Len(t) /\ key[t[m - Len(s)]] = key[t[n - Len(s)]]
    BY <1>2, <1>3
  <2>2. m = n \/ m - Len(s) = n - Len(s)
    BY <2>1 DEF Apart
  <2> QED  BY <1>1, <2>2
<1>4. Apart(p, key)
  BY <1>3 DEF Apart
<1> QED  BY <1>4 DEF p

(* The first items of a sequence.                                              *)
LEMMA AtMostFacts ==
  ASSUME NEW X, NEW s \in Seq(X), NEW k \in Nat
  PROVE  /\ AtMost(k, s) \in Seq(X) /\ Len(AtMost(k, s)) <= k /\ Len(AtMost(k, s)) <= Len(s)
         /\ \A n \in 1..Len(AtMost(k, s)) : n \in 1..Len(s) /\ AtMost(k, s)[n] = s[n]
         /\ Range(AtMost(k, s)) \subseteq Range(s)
<1> DEFINE m == IF Len(s) < k THEN Len(s) ELSE k
           t == SubSeq(s, 1, m)
<1>1. m \in Nat /\ m <= k /\ m <= Len(s) /\ Len(s) \in Nat
  OBVIOUS
<1>2. AtMost(k, s) = t
  BY DEF AtMost
<1> HIDE DEF m
<1>3. t \in Seq(X) /\ Len(t) = m /\ \A n \in 1..m : t[n] = s[n]
  BY <1>1
<1> HIDE DEF t
<1>4. Range(t) \subseteq Range(s)
  <2>1. Range(t) = {t[n] : n \in 1..Len(t)} /\ Range(s) = {s[n] : n \in 1..Len(s)}
    BY <1>3, RangeIs
  <2>2. \A n \in 1..Len(t) : n \in 1..Len(s)
    BY <1>1, <1>3
  <2> QED  BY <1>3, <2>1, <2>2
<1> QED  BY <1>1, <1>2, <1>3, <1>4

(* What is chosen of a sequence: its items in T, still apart.                  *)
LEMMA OnlyInFacts ==
  ASSUME NEW X, NEW s \in Seq(X), NEW T
  PROVE  /\ OnlyIn(s, T) \in Seq(X) /\ Range(OnlyIn(s, T)) = Range(s) \cap T
         /\ \A key : Apart(s, key) => Apart(OnlyIn(s, T), key)
<1>0. PICK u \in [0..Len(s) -> Seq(X)] : Chooses(u, s, T)
  BY OnlyInBySteps
<1>1. /\ u[0] = <<>> /\ OnlyIn(s, T) = u[Len(s)]
      /\ \A n \in 1..Len(s) : u[n] = IF s[n] \in T THEN Append(u[n - 1], s[n]) ELSE u[n - 1]
  BY <1>0 DEF Chooses
<1> DEFINE upto(n) == {s[k] : k \in 1..n}
           P(n) == /\ Range(u[n]) = upto(n) \cap T
                   /\ \A key : Apart(s, key) => Apart(u[n], key)
           S == {n \in Nat : n <= Len(s) => P(n)}
<1>2. Len(s) \in Nat /\ \A n \in 1..Len(s) : s[n] \in X
  OBVIOUS
<1>3. P(0)
  <2>1. upto(0) = {}
    OBVIOUS
  <2>2. \A key : Apart(<<>>, key)
    BY DEF Apart
  <2> HIDE DEF upto
  <2> QED  BY <1>1, <2>1, <2>2, RangeOfNone
<1>4. ASSUME NEW n \in S, n + 1 <= Len(s) PROVE P(n + 1)
  <2> DEFINE x == s[n + 1]
  <2>1. n \in Nat /\ n + 1 \in 1..Len(s) /\ (n + 1) - 1 = n /\ n \in 0..Len(s) /\ u[n] \in Seq(X) /\ x \in X
    BY <1>2, <1>4
  <2>2. P(n)
    BY <2>1
  <2>3. upto(n + 1) = upto(n) \cup {x}
    <3>1. 1..(n + 1) = 1..n \cup {n + 1}
      BY <2>1
    <3> QED  BY <3>1
  <2>4. u[n + 1] = IF x \in T THEN Append(u[n], x) ELSE u[n]
    BY <1>1, <2>1
  <2>5. CASE x \notin T
    <3>1. upto(n + 1) \cap T = upto(n) \cap T
      BY <2>3, <2>5
    <3> QED  BY <2>2, <2>4, <2>5, <3>1
  <2>6. CASE x \in T
    <3>1. Range(u[n + 1]) = Range(u[n]) \cup {x}
      BY <2>1, <2>4, <2>6, RangeGrows
    <3>2. upto(n + 1) \cap T = (upto(n) \cap T) \cup {x}
      BY <2>3, <2>6
    <3>3. ASSUME NEW key, Apart(s, key) PROVE Apart(u[n + 1], key)
      <4>1. \A y \in Range(u[n]) : key[y] # key[x]
        <5> TAKE y \in Range(u[n])
        <5>1. PICK k \in 1..n : y = s[k]
          BY <2>2
        <5>2. k \in 1..Len(s) /\ k # n + 1
          BY <2>1, <1>2
        <5> QED  BY <2>1, <3>3, <5>1, <5>2 DEF Apart
      <4>2. Apart(u[n], key)
        BY <2>2, <3>3
      <4> HIDE DEF x
      <4> QED  BY <2>1, <2>4, <2>6, <4>1, <4>2, ApartGrows
    <3> HIDE DEF upto
    <3> QED  BY <2>2, <3>1, <3>2, <3>3
  <2> QED  BY <2>5, <2>6
<1> HIDE DEF P
<1>5. S = Nat
  <2>1. 0 \in S
    BY <1>3
  <2>2. \A n \in S : n + 1 \in S
    BY <1>4
  <2> HIDE DEF S
  <2>3. S \in SUBSET Nat
    BY DEF S
  <2> QED  BY <2>1, <2>2, <2>3, CountingUp
<1>6. P(Len(s))
  BY <1>2, <1>5
<1>7. Range(s) = upto(Len(s))
  BY RangeIs
<1>8. u[Len(s)] \in Seq(X)
  BY <1>2
<1> HIDE DEF upto
<1> QED  BY <1>1, <1>6, <1>7, <1>8 DEF P

(* The members of a set of numbers, in order.                                  *)
LEMMA CountedFacts ==
  ASSUME NEW N \in Nat, NEW S \in SUBSET (1..N)
  PROVE  LET s == OnlyIn([k \in 1..N |-> k], S) IN
         /\ s \in Seq(1..N) /\ Range(s) = S /\ s \in Seq(S)
         /\ \A m, n \in 1..Len(s) : s[m] = s[n] => m = n
<1> DEFINE t == [k \in 1..N |-> k]
           key == [k \in 1..N |-> k]
           s == OnlyIn(t, S)
<1>1. t \in Seq(1..N) /\ Len(t) = N /\ \A k \in 1..N : t[k] = k
  OBVIOUS
<1>2. \A k \in 1..N : key[k] = k
  OBVIOUS
<1> HIDE DEF t, key
<1>3. Apart(t, key)
  BY <1>1, <1>2 DEF Apart
<1>4. Range(t) = 1..N
  <2>1. Range(t) = {t[n] : n \in 1..N}
    BY <1>1, RangeIs
  <2> QED  BY <1>1, <2>1
<1>5. s \in Seq(1..N) /\ Range(s) = Range(t) \cap S /\ Apart(s, key)
  BY <1>1, <1>3, OnlyInFacts
<1> HIDE DEF s
<1>6. Range(s) = S
  BY <1>4, <1>5
<1>7. \A m \in 1..Len(s) : s[m] \in 1..N /\ s[m] \in S
  BY <1>5, <1>6, RangeIs
<1>8. \A m, n \in 1..Len(s) : s[m] = s[n] => m = n
  BY <1>2, <1>5, <1>7 DEF Apart
<1>9. s \in Seq(S)
  <2>1. s \in [1..Len(s) -> S] /\ Len(s) \in Nat
    BY <1>5, <1>7
  <2> QED  BY <2>1
<1> QED  BY <1>5, <1>6, <1>8, <1>9 DEF s, t

-----------------------------------------------------------------------------
(* What curation makes of a topic's findings.                                  *)

LEMMA CatalogTyped ==
  /\ Len(Catalog) \in Nat /\ Article = 1..Len(Catalog)
  /\ \A x \in Article : /\ UrlKind(x) \in {"article", "listing", "cdn", "paywall"}
                         /\ Says(x) \in Dates /\ Page(x) \in Dates
  /\ {FRESH_CAP, SECTION_CAP, OUTLET_CAP, FETCH_ALTERNATE_LIMIT} \subseteq Nat \ {0}
<1>1. Len(Catalog) \in Nat
  BY CurationAssumption
<1>2. ASSUME NEW x \in Article
      PROVE  /\ UrlKind(x) \in {"article", "listing", "cdn", "paywall"}
             /\ Says(x) \in Dates /\ Page(x) \in Dates
  <2> DEFINE Report == [url : Nat, event : STRING, outlet : STRING, says : Dates, page : Dates,
                        kind : {"article", "listing", "cdn", "paywall"}]
  <2>1. Catalog \in Seq(Report)
    BY CurationAssumption
  <2>2. Catalog[x] \in Report
    <3> HIDE DEF Report
    <3> QED  BY <2>1, <1>1 DEF Article
  <2> QED  BY <2>2 DEF UrlKind, Says, Page
<1> QED  BY <1>1, <1>2, CurationAssumption DEF Article

QItem == [of : Article, at : Article, unverified : BOOLEAN, alternates : Seq(Article)]
UrlOf == [x \in Article |-> Url(x)]
AtUrl == [i \in QItem |-> Url(i.at)]

(* An article that may stand in the queue; one that may stand in for a.        *)
Usable(x) == /\ x \in Article /\ ~Repeats(x) /\ UrlKind(x) \notin {"cdn", "paywall"}
             /\ Url(x) \notin Urls(Elsewhere)
StandsIn(b, x) == Usable(b) /\ SameStory(x, b) /\ Fetchable(b)
Tells(i, S) == i.of \in S /\ SameStory(i.at, i.of)

LEMMA OrderedFacts ==
  ASSUME NEW S \in SUBSET Article
  PROVE  Ordered(S) \in Seq(Article) /\ Range(Ordered(S)) = S /\ \A key :
           (\A x, y \in S : key[x] = key[y] => x = y) => Apart(Ordered(S), key)
<1>1. /\ Ordered(S) \in Seq(Article) /\ Range(Ordered(S)) = S
      /\ \A m, n \in 1..Len(Ordered(S)) : Ordered(S)[m] = Ordered(S)[n] => m = n
  BY CatalogTyped, CountedFacts DEF Ordered
<1>2. \A n \in 1..Len(Ordered(S)) : Ordered(S)[n] \in S
  BY <1>1, RangeIs
<1> QED  BY <1>1, <1>2 DEF Apart

LEMMA FirstOfUrlFacts ==
  ASSUME NEW S \in SUBSET Article
  PROVE  FirstOfUrl(S) \subseteq S /\ \A x, y \in FirstOfUrl(S) : Url(x) = Url(y) => x = y
<1>1. S \subseteq Nat
  BY CatalogTyped
<1>0. \A p : p \in FirstOfUrl(S) <=> p \in S /\ \A b \in S : Url(b) = Url(p) => p <= b
  BY Zenon DEF FirstOfUrl
<1>2. ASSUME NEW x \in FirstOfUrl(S), NEW y \in FirstOfUrl(S), Url(x) = Url(y) PROVE x <= y
  <2>1. y \in S /\ \A b \in S : Url(b) = Url(x) => x <= b
    BY Zenon, <1>0, <1>2
  <2> QED  BY Zenon, <2>1, <1>2
<1>3. FirstOfUrl(S) \subseteq S
  BY Zenon, <1>0
<1>4. ASSUME NEW x \in FirstOfUrl(S), NEW y \in FirstOfUrl(S), Url(x) = Url(y) PROVE x = y
  <2>1. x <= y /\ y <= x /\ x \in Nat /\ y \in Nat
    BY <1>1, <1>2, <1>3, <1>4
  <2> QED  BY <2>1
<1> QED  BY <1>3, <1>4

LEMMA UrlOfIs ==
  /\ \A x \in Article : UrlOf[x] = Url(x)
  /\ \A i \in QItem : AtUrl[i] = Url(i.at)
  BY DEF UrlOf, AtUrl

(* Alternates of x: other reports of its story, of URLs that nobody took.      *)
LEMMA AlternatesFacts ==
  ASSUME raw \subseteq Article, NEW x \in Article, NEW taken, Blocked \subseteq taken
  PROVE  /\ Alternates(x, taken) \in Seq(Article)
         /\ \A b \in Range(Alternates(x, taken)) : StandsIn(b, x) /\ Url(b) \notin taken
<1> DEFINE usable == {b \in raw : /\ SameStory(x, b) /\ Fetchable(b)
                                  /\ Url(b) \notin taken /\ Outlet(b) # Outlet(x)}
           new == {b \in FirstOfUrl(usable) : ~Repeats(b)}
<1>1. usable \in SUBSET Article
  OBVIOUS
<1>2. FirstOfUrl(usable) \subseteq usable
  <2> HIDE DEF usable
  <2> QED  BY <1>1, FirstOfUrlFacts
<1>3. Alternates(x, taken) = Ordered(new)
  BY DEF Alternates
<1>4. Alternates(x, taken) \in Seq(Article) /\ Range(Alternates(x, taken)) \subseteq new
  <2>1. new \in SUBSET Article
    <3> HIDE DEF usable
    <3> QED  BY <1>1, <1>2
  <2> HIDE DEF new
  <2> QED  BY <2>1, <1>3, OrderedFacts
<1>5. ASSUME NEW b \in new PROVE StandsIn(b, x) /\ Url(b) \notin taken
  <2>0. b \in usable /\ ~Repeats(b)
    <3> HIDE DEF usable
    <3> QED  BY <1>2
  <2>1. Url(b) \notin Urls(Elsewhere)
    BY <2>0 DEF Blocked, Urls
  <2>2. UrlKind(b) \notin {"cdn", "paywall"}
    BY <2>0 DEF Fetchable
  <2> QED  BY <2>0, <2>1, <2>2 DEF StandsIn, Usable
<1> QED  BY <1>4, <1>5

LEMMA AlternatesTyped ==
  ASSUME raw \subseteq Article, NEW x, NEW taken
  PROVE  Alternates(x, taken) \in Seq(Article)
<1> DEFINE usable == {b \in raw : /\ SameStory(x, b) /\ Fetchable(b)
                                  /\ Url(b) \notin taken /\ Outlet(b) # Outlet(x)}
           new == {b \in FirstOfUrl(usable) : ~Repeats(b)}
<1>1. usable \in SUBSET Article
  OBVIOUS
<1>2. new \in SUBSET Article
  <2> HIDE DEF usable
  <2> QED  BY <1>1, FirstOfUrlFacts
<1>3. Alternates(x, taken) = Ordered(new)
  BY DEF Alternates
<1> HIDE DEF new
<1> QED  BY <1>2, <1>3, OrderedFacts

Resolving == [kept : Seq(QItem), taken : SUBSET (Urls(Article) \cup Blocked)]

LEMMA ItemTyped ==
  ASSUME NEW x \in Article, NEW y \in Article
  PROVE  Item(x, y) \in QItem /\ Item(x, y).at = y
<1>1. Unverified(x) \in BOOLEAN /\ <<>> \in Seq(Article)
  BY DEF Unverified
<1> QED  BY <1>1 DEF Item, QItem

LEMMA ResolveTyped ==
  ASSUME raw \subseteq Article, NEW acc \in Resolving, NEW x \in Article
  PROVE  Resolve(acc, x) \in Resolving
<1> DEFINE options == Alternates(x, acc.taken)
<1>0. acc.kept \in Seq(QItem) /\ acc.taken \in SUBSET (Urls(Article) \cup Blocked)
      /\ acc = [kept |-> acc.kept, taken |-> acc.taken]
  BY DEF Resolving
<1>1. CASE UrlKind(x) # "paywall"
  <2>1. Append(acc.kept, Item(x, x)) \in Seq(QItem)
    BY <1>0, ItemTyped
  <2>2. Resolve(acc, x) = [kept |-> Append(acc.kept, Item(x, x)), taken |-> acc.taken]
    BY <1>0, <1>1 DEF Resolve
  <2> QED  BY <1>0, <2>1, <2>2 DEF Resolving
<1>2. CASE UrlKind(x) = "paywall" /\ options = <<>>
  <2>1. Resolve(acc, x) = acc
    BY <1>2 DEF Resolve
  <2> QED  BY <2>1
<1>3. CASE UrlKind(x) = "paywall" /\ options # <<>>
  <2>1. options \in Seq(Article)
    BY AlternatesTyped
  <2>2. options[1] \in Article
    BY <1>3, <2>1
  <2> HIDE DEF options
  <2>3. Append(acc.kept, Item(x, options[1])) \in Seq(QItem)
    BY <1>0, <2>2, ItemTyped
  <2>4. Url(options[1]) \in Urls(Article)
    BY <2>2 DEF Urls
  <2>5. Resolve(acc, x) = [kept |-> Append(acc.kept, Item(x, options[1])), taken |-> acc.taken \cup {Url(options[1])}]
    BY <1>3 DEF Resolve, options
  <2> QED  BY <1>0, <2>3, <2>4, <2>5 DEF Resolving
<1> QED  BY <1>1, <1>2, <1>3

(* The swaps of paywalled candidates, one by one.                              *)
Swaps(u, cs) ==
    /\ u[0] = [kept |-> <<>>, taken |-> Blocked \cup Urls(Range(cs))] /\ Unpaywalled(cs) = u[Len(cs)].kept
    /\ \A n \in 1..Len(cs) : u[n] = Resolve(u[n - 1], cs[n])

LEMMA UnpaywalledBySteps ==
  ASSUME raw \subseteq Article, NEW cs \in Seq(Article)
  PROVE  \E u \in [0..Len(cs) -> Resolving] : Swaps(u, cs)
<1> DEFINE Vs == Resolving
           Xs == Article
           D == 0..Len(cs)
           start == [kept |-> <<>>, taken |-> Blocked \cup Urls(Range(cs))]
           Stp(a, x) == Resolve(a, x)
           Body(n, u) == IF n = 0 THEN start ELSE Stp(u[n - 1], cs[n])
           g == [a \in Vs |-> [x \in Xs |-> Stp(a, x)]]
           upto[n \in D] == Body(n, upto)
<1>0. ASSUME NEW a \in Vs, NEW x \in Xs PROVE Resolve(a, x) \in Vs
  BY ResolveTyped
<1>1. ASSUME NEW a \in Vs, NEW x \in Xs PROVE Stp(a, x) \in Vs
  BY <1>0
<1>2. start \in Vs
  <2>1. Range(cs) \subseteq Article
    BY RangeIs
  <2>2. Urls(Range(cs)) \subseteq Urls(Article)
    BY <2>1 DEF Urls
  <2>3. <<>> \in Seq(QItem)
    OBVIOUS
  <2> QED  BY <2>2, <2>3 DEF Resolving
<1>3. Unpaywalled(cs) = upto[Len(cs)].kept
  BY DEF Unpaywalled, Folded
<1>4. Len(cs) \in Nat /\ cs \in Seq(Xs) /\ \A n \in 1..Len(cs) : cs[n] \in Xs
  OBVIOUS
<1> HIDE DEF Stp, Vs, Xs, start
<1>5. g \in [Vs -> [Xs -> Vs]] /\ \A a \in Vs, x \in Xs : g[a][x] = Stp(a, x)
  BY <1>1
<1>6. PICK v \in [D -> Vs] : Runs(v, g, start, cs)
  <2> HIDE DEF g
  <2> QED  BY <1>2, <1>4, <1>5, LoopRuns
<1>7. 0 \in D /\ \A n \in D : n = 0 \/ n \in 1..Len(cs)
  BY <1>4
<1>8. \A n \in 1..Len(cs) : n \in D /\ n - 1 \in D /\ n # 0
  BY <1>4
<1>9. v = [n \in D |-> Body(n, v)]
  <2>1. v[0] = Body(0, v)
    BY <1>6 DEF Runs
  <2>2. ASSUME NEW n \in 1..Len(cs) PROVE v[n] = Body(n, v)
    <3>1. v[n - 1] \in Vs /\ cs[n] \in Xs /\ n # 0
      BY <1>4, <1>8
    <3> HIDE DEF g
    <3> QED  BY <1>5, <1>6, <3>1 DEF Runs
  <2> HIDE DEF Body
  <2> QED  BY <1>7, <2>1, <2>2
<1> HIDE DEF Body
<1>10. upto = [n \in D |-> Body(n, upto)]
  BY <1>9
<1> HIDE DEF upto
<1>11. \A n \in D : upto[n] = Body(n, upto)
  BY <1>10
<1>12. upto[0] = start
  BY <1>7, <1>11 DEF Body
<1>13. \A n \in 1..Len(cs) : upto[n] = Stp(upto[n - 1], cs[n])
  BY <1>8, <1>11 DEF Body
<1>14. \A n \in 0..Len(cs) : upto[n] \in Vs
  <2>1. \A n \in 1..Len(cs) : upto[n - 1] \in Vs => upto[n] \in Vs
    BY <1>1, <1>4, <1>13
  <2> QED  BY <1>2, <1>4, <1>12, <2>1, LoopKeeps
<1>15. upto \in [D -> Vs]
  <2>1. \A n \in D : Body(n, upto) \in Vs
    BY <1>11, <1>14
  <2> QED  BY <1>10, <2>1
<1> QED  BY <1>3, <1>12, <1>13, <1>15 DEF Swaps, Stp, Vs, start

(* A candidate: its URL is not taken and its story was not told; a paywalled   *)
(* one may be among them.                                                      *)
Eligible(x) == /\ x \in Article /\ ~Repeats(x) /\ UrlKind(x) # "cdn"
               /\ Url(x) \notin Urls(Elsewhere)

(* After the first n candidates: what is kept has a URL of its own, of one of  *)
(* these or of a swap that took it.                                            *)
KeptOrSwapped(i, acc, cs, n) ==
    \/ \E k \in 1..n : i.at = cs[k]
    \/ Url(i.at) \notin Blocked \cup Urls(Range(cs)) /\ Url(i.at) \in acc.taken
Swapped(acc, cs, n) ==
    /\ acc \in Resolving /\ Blocked \cup Urls(Range(cs)) \subseteq acc.taken
    /\ Apart(acc.kept, AtUrl)
    /\ \A i \in Range(acc.kept) :
          Usable(i.at) /\ i.alternates = <<>> /\ Tells(i, Range(cs)) /\ KeptOrSwapped(i, acc, cs, n)

LEMMA ResolveKeeps ==
  ASSUME raw \subseteq Article, NEW cs \in Seq(Article), Apart(cs, UrlOf),
         \A x \in Range(cs) : Eligible(x),
         NEW n \in Nat, n + 1 \in 1..Len(cs), NEW acc, Swapped(acc, cs, n)
  PROVE  Swapped(Resolve(acc, cs[n + 1]), cs, n + 1)
<1> DEFINE x == cs[n + 1]
           T0 == Blocked \cup Urls(Range(cs))
           new == Resolve(acc, x)
           options == Alternates(x, acc.taken)
<1>1. x \in Article /\ x \in Range(cs) /\ Len(cs) \in Nat
  BY RangeIs
<1>2. \A k \in 1..n : k \in 1..Len(cs) /\ k \in 1..(n + 1) /\ k # n + 1 /\ cs[k] \in Range(cs) /\ cs[k] \in Article
  BY <1>1, RangeIs
<1>3. acc \in Resolving /\ T0 \subseteq acc.taken /\ Apart(acc.kept, AtUrl)
      /\ \A i \in Range(acc.kept) :
            Usable(i.at) /\ i.alternates = <<>> /\ Tells(i, Range(cs)) /\ KeptOrSwapped(i, acc, cs, n)
  BY DEF Swapped
<1>4. acc.kept \in Seq(QItem) /\ acc = [kept |-> acc.kept, taken |-> acc.taken]
  BY <1>3 DEF Resolving
<1>5. new \in Resolving
  BY <1>1, <1>3, ResolveTyped
<1>6. \A y \in Range(cs) : Url(y) \in T0
  BY DEF Urls
<1>7. \A i \in Range(acc.kept) : i \in QItem /\ AtUrl[i] = Url(i.at)
  BY <1>4, RangeIs, UrlOfIs
<1>8. \A k \in 1..n : Url(cs[k]) # Url(x)
  BY <1>1, <1>2, UrlOfIs DEF Apart
<1>9. CASE UrlKind(x) # "paywall"
  <2> DEFINE it == Item(x, x)
  <2>1. new = [kept |-> Append(acc.kept, it), taken |-> acc.taken]
    BY <1>4, <1>9 DEF Resolve
  <2>2. it \in QItem /\ it.at = x /\ it.alternates = <<>> /\ AtUrl[it] = Url(x) /\ Tells(it, Range(cs))
    BY <1>1, ItemTyped, UrlOfIs DEF Item, Tells, SameStory
  <2>3. Usable(x)
    <3>1. Eligible(x) /\ UrlKind(x) # "paywall"
      BY <1>1, <1>9
    <3> QED  BY <3>1 DEF Eligible, Usable
  <2> HIDE DEF it
  <2>4. Range(new.kept) = Range(acc.kept) \cup {it} /\ new.taken = acc.taken
        /\ new.kept = Append(acc.kept, it)
    BY <1>4, <2>1, <2>2, RangeGrows
  <2>5. \A i \in Range(acc.kept) : AtUrl[i] # AtUrl[it]
    BY <1>1, <1>3, <1>6, <1>7, <1>8, <2>2 DEF KeptOrSwapped
  <2> HIDE DEF new, x
  <2>6. Apart(new.kept, AtUrl)
    BY <1>3, <1>4, <2>2, <2>4, <2>5, ApartGrows
  <2>7. ASSUME NEW i \in Range(acc.kept) PROVE KeptOrSwapped(i, new, cs, n + 1)
    BY <1>2, <1>3, <2>4 DEF KeptOrSwapped
  <2>8. KeptOrSwapped(it, new, cs, n + 1)
    <3>1. n + 1 \in 1..(n + 1)
      OBVIOUS
    <3> QED  BY <2>2, <3>1 DEF KeptOrSwapped, x
  <2> QED  BY <1>3, <1>5, <2>2, <2>3, <2>4, <2>6, <2>7, <2>8 DEF Swapped, x, new
<1>10. CASE UrlKind(x) = "paywall" /\ options = <<>>
  <2>1. new = acc
    BY <1>10 DEF Resolve
  <2>2. ASSUME NEW i \in Range(acc.kept) PROVE KeptOrSwapped(i, acc, cs, n + 1)
    BY <1>2, <1>3 DEF KeptOrSwapped
  <2> HIDE DEF new
  <2>3. Swapped(acc, cs, n + 1)
    BY <1>3, <2>2 DEF Swapped
  <2> QED  BY <2>1, <2>3 DEF new
<1>11. CASE UrlKind(x) = "paywall" /\ options # <<>>
  <2> DEFINE b == options[1]
             it == Item(x, b)
  <2>1. options \in Seq(Article) /\ \A y \in Range(options) : StandsIn(y, x) /\ Url(y) \notin acc.taken
    <3>1. Blocked \subseteq acc.taken
      BY <1>3
    <3> QED  BY <1>1, <3>1, AlternatesFacts
  <2>2. b \in Article /\ b \in Range(options)
    <3>1. 1 \in 1..Len(options)
      BY <1>11, <2>1
    <3> HIDE DEF options
    <3> QED  BY <2>1, <3>1, RangeIs
  <2>3. new = [kept |-> Append(acc.kept, it), taken |-> acc.taken \cup {Url(b)}]
    BY <1>11 DEF Resolve
  <2> HIDE DEF options
  <2>4. Usable(b) /\ Url(b) \notin acc.taken /\ SameStory(x, b)
    BY <2>1, <2>2 DEF StandsIn
  <2>5. it \in QItem /\ it.at = b /\ it.alternates = <<>> /\ AtUrl[it] = Url(b) /\ Tells(it, Range(cs))
    BY <1>1, <2>2, <2>4, ItemTyped, UrlOfIs DEF Item, Tells, SameStory
  <2> HIDE DEF it, b
  <2>6. Range(new.kept) = Range(acc.kept) \cup {it} /\ new.taken = acc.taken \cup {Url(b)}
        /\ new.kept = Append(acc.kept, it)
    BY <1>4, <2>3, <2>5, RangeGrows
  <2>7. \A i \in Range(acc.kept) : AtUrl[i] # AtUrl[it]
    BY <1>2, <1>3, <1>6, <1>7, <2>4, <2>5 DEF KeptOrSwapped
  <2> HIDE DEF new, x
  <2>8. Apart(new.kept, AtUrl)
    BY <1>3, <1>4, <2>5, <2>6, <2>7, ApartGrows
  <2>9. ASSUME NEW i \in Range(acc.kept) PROVE KeptOrSwapped(i, new, cs, n + 1)
    BY <1>2, <1>3, <2>6 DEF KeptOrSwapped
  <2>10. KeptOrSwapped(it, new, cs, n + 1)
    BY <1>3, <2>4, <2>5, <2>6 DEF KeptOrSwapped
  <2> QED  BY <1>3, <1>5, <2>4, <2>5, <2>6, <2>8, <2>9, <2>10 DEF Swapped, x, new
<1> QED  BY <1>9, <1>10, <1>11

(* Of candidates with URLs of their own the paywalled ones are swapped or      *)
(* dropped: what is kept can be opened, and has a URL of its own.              *)
LEMMA UnpaywalledFacts ==
  ASSUME raw \subseteq Article, NEW cs \in Seq(Article), Apart(cs, UrlOf),
         \A x \in Range(cs) : Eligible(x)
  PROVE  /\ Unpaywalled(cs) \in Seq(QItem) /\ Apart(Unpaywalled(cs), AtUrl)
         /\ \A i \in Range(Unpaywalled(cs)) : Usable(i.at) /\ i.alternates = <<>> /\ Tells(i, Range(cs))
<1>1. PICK u \in [0..Len(cs) -> Resolving] : Swaps(u, cs)
  BY UnpaywalledBySteps
<1>2. Len(cs) \in Nat /\ 0 \in 0..Len(cs)
  OBVIOUS
<1> DEFINE S == {n \in Nat : n <= Len(cs) => Swapped(u[n], cs, n)}
<1>3. Swapped(u[0], cs, 0)
  <2>1. u[0] = [kept |-> <<>>, taken |-> Blocked \cup Urls(Range(cs))] /\ u[0] \in Resolving
    BY <1>1, <1>2 DEF Swaps
  <2>2. Apart(<<>>, AtUrl)
    BY DEF Apart
  <2> QED  BY <2>1, <2>2, RangeOfNone DEF Swapped
<1>4. ASSUME NEW n \in S PROVE n + 1 \in S
  <2> SUFFICES ASSUME n + 1 <= Len(cs) PROVE Swapped(u[n + 1], cs, n + 1)
    OBVIOUS
  <2>1. n \in Nat /\ n + 1 \in 1..Len(cs) /\ (n + 1) - 1 = n /\ Swapped(u[n], cs, n)
    BY <1>2
  <2>2. u[n + 1] = Resolve(u[n], cs[n + 1])
    BY <1>1, <2>1 DEF Swaps
  <2> HIDE DEF S
  <2> QED  BY <2>1, <2>2, ResolveKeeps
<1>5. S = Nat
  <2>1. 0 \in S
    BY <1>3
  <2> HIDE DEF S
  <2>2. S \in SUBSET Nat
    BY DEF S
  <2> QED  BY <1>4, <2>1, <2>2, CountingUp
<1>6. Swapped(u[Len(cs)], cs, Len(cs))
  BY <1>2, <1>5
<1>7. Unpaywalled(cs) = u[Len(cs)].kept
  BY <1>1 DEF Swaps
<1> QED  BY <1>6, <1>7 DEF Swapped, Resolving

LEMMA ApartPrefix ==
  ASSUME NEW X, NEW s \in Seq(X), NEW k \in Nat, NEW key, Apart(s, key)
  PROVE  Apart(AtMost(k, s), key)
  BY AtMostFacts DEF Apart

LEMMA CappedFacts ==
  ASSUME NEW items \in Seq(QItem), Apart(items, AtUrl)
  PROVE  /\ Capped(items) \in Seq(QItem) /\ Len(Capped(items)) <= FRESH_CAP
         /\ Apart(Capped(items), AtUrl) /\ Range(Capped(items)) \subseteq Range(items)
<1> DEFINE dated == {i \in Range(items) : ~i.unverified}
           s == OnlyIn(items, dated)
           t == OnlyIn(items, Range(items) \ dated)
<1>1. Capped(items) = AtMost(FRESH_CAP, s \o t)
  BY DEF Capped
<1> HIDE DEF dated
<1>2. /\ s \in Seq(QItem) /\ Range(s) = Range(items) \cap dated /\ Apart(s, AtUrl)
      /\ t \in Seq(QItem) /\ Range(t) = Range(items) \cap (Range(items) \ dated) /\ Apart(t, AtUrl)
  BY OnlyInFacts
<1>3. ASSUME NEW x \in Range(s), NEW y \in Range(t) PROVE AtUrl[x] # AtUrl[y]
  <2>1. x # y /\ x \in Range(items) /\ y \in Range(items)
    BY <1>2
  <2>2. PICK m \in 1..Len(items) : x = items[m]
    BY <2>1, RangeIs
  <2>3. PICK n \in 1..Len(items) : y = items[n]
    BY <2>1, RangeIs
  <2> QED  BY <2>1, <2>2, <2>3 DEF Apart
<1> HIDE DEF s, t
<1>4. s \o t \in Seq(QItem) /\ Range(s \o t) = Range(s) \cup Range(t) /\ Apart(s \o t, AtUrl)
  BY <1>2, <1>3, RangeJoins, ApartJoins
<1>5. FRESH_CAP \in Nat
  BY CatalogTyped
<1> DEFINE p == s \o t
<1> HIDE DEF p
<1>6. p \in Seq(QItem) /\ Range(p) = Range(s) \cup Range(t) /\ Apart(p, AtUrl) /\ Capped(items) = AtMost(FRESH_CAP, p)
  BY <1>1, <1>4 DEF p
<1> QED  BY <1>2, <1>5, <1>6, AtMostFacts, ApartPrefix

(* The ranked queue: not too long, one item for a URL, all of them usable and   *)
(* of the story of a fresh finding, and what may stand in for each of them.    *)
QueueTells(q, S) == \A n \in 1..Len(q) : Tells(q[n], S)
QueueSound(q) ==
    /\ q \in Seq(QItem) /\ Len(q) <= FRESH_CAP
    /\ \A m, n \in 1..Len(q) : Url(q[m].at) = Url(q[n].at) => m = n
    /\ \A n \in 1..Len(q) : /\ Usable(q[n].at)
                            /\ \A b \in Range(q[n].alternates) : StandsIn(b, q[n].at)

LEMMA WithAlternatesFacts ==
  ASSUME raw \subseteq Article, NEW items \in Seq(QItem), Len(items) <= FRESH_CAP,
         Apart(items, AtUrl), NEW S, \A i \in Range(items) : Usable(i.at) /\ Tells(i, S)
  PROVE  QueueSound(WithAlternates(items)) /\ QueueTells(WithAlternates(items), S)
<1> DEFINE blocked == Blocked \cup {Url(items[i].at) : i \in DOMAIN items}
           alts(i) == AtMost(FETCH_ALTERNATE_LIMIT, Alternates(items[i].at, blocked))
           new(i) == [items[i] EXCEPT !.alternates = alts(i)]
           q == WithAlternates(items)
<1>1. DOMAIN items = 1..Len(items) /\ Len(items) \in Nat
      /\ \A n \in 1..Len(items) : items[n] \in QItem /\ items[n] \in Range(items)
  BY RangeIs
<1>2. q = [n \in 1..Len(items) |-> new(n)]
  BY <1>1 DEF WithAlternates
<1>3. FETCH_ALTERNATE_LIMIT \in Nat /\ Blocked \subseteq blocked
  BY CatalogTyped
<1> HIDE DEF blocked
<1>4. ASSUME NEW n \in 1..Len(items)
      PROVE  /\ alts(n) \in Seq(Article) /\ items[n].at \in Article
             /\ \A b \in Range(alts(n)) : StandsIn(b, items[n].at)
  <2>1. items[n].at \in Article
    BY <1>1 DEF QItem
  <2>2. /\ Alternates(items[n].at, blocked) \in Seq(Article)
        /\ \A b \in Range(Alternates(items[n].at, blocked)) : StandsIn(b, items[n].at)
    BY <1>3, <2>1, AlternatesFacts
  <2> DEFINE al == Alternates(items[n].at, blocked)
  <2> HIDE DEF al
  <2>3. al \in Seq(Article) /\ alts(n) = AtMost(FETCH_ALTERNATE_LIMIT, al)
        /\ \A b \in Range(al) : StandsIn(b, items[n].at)
    BY <2>2 DEF al
  <2> QED  BY <1>3, <2>1, <2>3, AtMostFacts
<1> HIDE DEF alts
<1>5. ASSUME NEW n \in 1..Len(items)
      PROVE  /\ new(n) \in QItem /\ new(n).at = items[n].at /\ new(n).alternates = alts(n)
             /\ new(n).of = items[n].of
  BY <1>1, <1>4 DEF QItem
<1> HIDE DEF new
<1>6. q \in Seq(QItem) /\ Len(q) = Len(items) /\ \A n \in 1..Len(items) : q[n] = new(n)
  BY <1>1, <1>2, <1>5
<1> HIDE DEF q
<1>7. ASSUME NEW m \in 1..Len(q), NEW n \in 1..Len(q), Url(q[m].at) = Url(q[n].at) PROVE m = n
  <2>1. Url(items[m].at) = Url(items[n].at)
    BY <1>5, <1>6, <1>7
  <2>2. AtUrl[items[m]] = AtUrl[items[n]]
    BY <1>1, <1>6, <2>1, UrlOfIs
  <2> QED  BY <1>6, <2>2 DEF Apart
<1>8. ASSUME NEW n \in 1..Len(q)
      PROVE  Usable(q[n].at) /\ \A b \in Range(q[n].alternates) : StandsIn(b, q[n].at)
  <2>1. n \in 1..Len(items) /\ q[n].at = items[n].at /\ q[n].alternates = alts(n)
    BY <1>5, <1>6
  <2> QED  BY <1>1, <1>4, <2>1
<1>9. QueueSound(q)
  BY <1>6, <1>7, <1>8 DEF QueueSound
<1>10. QueueTells(q, S)
  BY <1>1, <1>5, <1>6 DEF QueueTells, Tells
<1> QED  BY <1>9, <1>10 DEF q

(* What ranking makes of the fresh findings is such a queue.                   *)
LEMMA RankedSound ==
  ASSUME raw \subseteq Article, fresh \in Seq(Article), Apart(fresh, UrlOf), Rank
  PROVE  QueueSound(queue') /\ QueueTells(queue', Range(fresh))
<1> DEFINE T == {a \in Article : /\ Url(a) \notin Urls(Elsewhere)
                                  /\ ~Repeats(a) /\ UrlKind(a) # "cdn"}
           cs == OnlyIn(fresh, T)
           kept == Unpaywalled(cs)
           cut == Capped(kept)
<1>1. queue' = WithAlternates(cut)
  BY DEF Rank
<1>2. \A x \in T : Eligible(x)
  BY DEF Eligible
<1> HIDE DEF T
<1>3. cs \in Seq(Article) /\ Apart(cs, UrlOf) /\ \A x \in Range(cs) : Eligible(x) /\ x \in Range(fresh)
  BY <1>2, OnlyInFacts
<1> HIDE DEF cs
<1>4. /\ kept \in Seq(QItem) /\ Apart(kept, AtUrl)
      /\ \A i \in Range(kept) : Usable(i.at) /\ Tells(i, Range(fresh))
  BY <1>3, UnpaywalledFacts DEF Tells
<1> HIDE DEF kept
<1>5. /\ cut \in Seq(QItem) /\ Len(cut) <= FRESH_CAP /\ Apart(cut, AtUrl)
      /\ \A i \in Range(cut) : Usable(i.at) /\ Tells(i, Range(fresh))
  BY <1>4, CappedFacts
<1> HIDE DEF cut
<1> QED  BY <1>1, <1>5, WithAlternatesFacts

-----------------------------------------------------------------------------
(* A wave of substitutions.                                                    *)

Jobs == UNION {[S -> Nat] : S \in SUBSET Items}
Planning == [jobs : Jobs, deferred : SUBSET Items, claimed : SUBSET Urls(Article)]
QueueTyped == queue \in Seq(QItem) /\ tried \in [Items -> Nat]

LEMMA ItemsTyped ==
  ASSUME queue \in Seq(QItem)
  PROVE  /\ Len(queue) \in Nat /\ Items = 1..Len(queue)
         /\ \A i \in Items : /\ queue[i] \in QItem /\ queue[i].at \in Article /\ queue[i].of \in Article
                             /\ queue[i].alternates \in Seq(Article)
                             /\ \A k \in 1..Len(queue[i].alternates) : queue[i].alternates[k] \in Article
<1>1. Len(queue) \in Nat /\ Items = 1..Len(queue)
  BY DEF Items
<1>2. \A i \in Items : queue[i] \in QItem
  BY <1>1
<1> QED  BY <1>1, <1>2 DEF QItem

LEMMA JobsAre ==
  ASSUME NEW f \in Jobs
  PROVE  DOMAIN f \subseteq Items /\ f \in [DOMAIN f -> Nat]
<1>1. PICK S \in SUBSET Items : f \in [S -> Nat]
  BY DEF Jobs
<1> QED  BY <1>1

LEMMA UntakenFacts ==
  ASSUME QueueTyped, NEW i \in Items, NEW claimed, Untaken(i, claimed) # {}
  PROVE  LET next == CHOOSE k \in Untaken(i, claimed) : \A n \in Untaken(i, claimed) : k <= n
         IN  /\ next \in 1..Len(queue[i].alternates) /\ Url(queue[i].alternates[next]) \notin claimed
             /\ queue[i].alternates[next] \in Article
<1> DEFINE left == Untaken(i, claimed)
           next == CHOOSE k \in left : \A n \in left : k <= n
<1>1. tried[i] \in Nat /\ Len(queue[i].alternates) \in Nat
  BY ItemsTyped DEF QueueTyped
<1>2. \A k \in left : k \in 1..Len(queue[i].alternates) /\ Url(queue[i].alternates[k]) \notin claimed
  BY <1>1 DEF Untaken
<1>3. left \in SUBSET Nat /\ left # {}
  BY <1>2
<1> HIDE DEF left
<1>4. \E k \in left : \A n \in left : k <= n
  BY <1>3, LeastOf
<1>5. next \in left
  BY <1>4
<1> HIDE DEF next
<1>6. queue[i].alternates[next] \in Article
  BY <1>2, <1>5, ItemsTyped DEF QueueTyped
<1> QED  BY <1>2, <1>5, <1>6 DEF left, next

(* What a wave's plan holds after the items of done: its jobs are of distinct   *)
(* stories that were not read, and after distinct URLs that nobody claimed.    *)
Taken(acc, i) == queue[i].alternates[acc.jobs[i]]
Planned(acc, done, base) ==
    /\ acc \in Planning /\ base \subseteq acc.claimed
    /\ DOMAIN acc.jobs \subseteq done /\ acc.deferred \subseteq done \ DOMAIN acc.jobs
    /\ \A i \in DOMAIN acc.jobs :
          /\ acc.jobs[i] \in 1..Len(queue[i].alternates)
          /\ Url(Taken(acc, i)) \in acc.claimed \ base /\ ~CoveredBy(i, ReadNow)
    /\ \A i, j \in DOMAIN acc.jobs : i # j =>
          Url(Taken(acc, i)) # Url(Taken(acc, j)) /\ ~SameStory(queue[i].at, queue[j].at)

(* A plan with a job more: item i is after x, its next-th alternate.           *)
WithJob(acc, i, next, x) ==
    [acc EXCEPT !.jobs = [j \in DOMAIN @ \cup {i} |-> IF j = i THEN next ELSE @[j]],
                !.claimed = @ \cup {Url(x)}]

(* The four outcomes of planning an item.                                      *)
LEMMA PlanItemCases ==
  ASSUME QueueTyped, NEW acc \in Planning, NEW i \in Items
  PROVE  \/ PlanItem(acc, i) = acc
         \/ PlanItem(acc, i) = [acc EXCEPT !.deferred = @ \cup {i}]
         \/ \E next \in 1..Len(queue[i].alternates) :
              /\ Url(queue[i].alternates[next]) \notin acc.claimed
              /\ queue[i].alternates[next] \in Article
              /\ ~CoveredBy(i, ReadNow) /\ ~CoveredBy(i, {queue[j].at : j \in DOMAIN acc.jobs})
              /\ PlanItem(acc, i) = WithJob(acc, i, next, queue[i].alternates[next])
<1> DEFINE left == Untaken(i, acc.claimed)
           next == CHOOSE k \in left : \A n \in left : k <= n
<1>1. CASE CoveredBy(i, ReadNow)
  BY <1>1 DEF PlanItem
<1>2. CASE ~CoveredBy(i, ReadNow) /\ CoveredBy(i, {queue[j].at : j \in DOMAIN acc.jobs})
  BY <1>2 DEF PlanItem
<1>3. CASE ~CoveredBy(i, ReadNow) /\ ~CoveredBy(i, {queue[j].at : j \in DOMAIN acc.jobs}) /\ left = {}
  BY <1>3 DEF PlanItem
<1>4. CASE ~CoveredBy(i, ReadNow) /\ ~CoveredBy(i, {queue[j].at : j \in DOMAIN acc.jobs}) /\ left # {}
  <2>1. /\ next \in 1..Len(queue[i].alternates) /\ Url(queue[i].alternates[next]) \notin acc.claimed
        /\ queue[i].alternates[next] \in Article
    BY <1>4, UntakenFacts
  <2>2. PlanItem(acc, i) = WithJob(acc, i, next, queue[i].alternates[next])
    BY <1>4 DEF PlanItem, WithJob
  <2> HIDE DEF next
  <2> QED  BY <1>4, <2>1, <2>2
<1> QED  BY <1>1, <1>2, <1>3, <1>4

LEMMA PlanningParts ==
  ASSUME NEW acc \in Planning
  PROVE  /\ acc.jobs \in Jobs /\ acc.deferred \in SUBSET Items /\ acc.claimed \in SUBSET Urls(Article)
         /\ acc = [jobs |-> acc.jobs, deferred |-> acc.deferred, claimed |-> acc.claimed]
  BY DEF Planning

(* A job more.                                                                 *)
LEMMA JobAdded ==
  ASSUME NEW acc \in Planning, NEW i \in Items, NEW next \in Nat, NEW x \in Article,
         NEW new, new = WithJob(acc, i, next, x)
  PROVE  /\ new \in Planning /\ DOMAIN new.jobs = DOMAIN acc.jobs \cup {i}
         /\ new.jobs[i] = next /\ \A j \in DOMAIN acc.jobs : j # i => new.jobs[j] = acc.jobs[j]
         /\ new.deferred = acc.deferred /\ new.claimed = acc.claimed \cup {Url(x)}
<1> DEFINE f == [j \in DOMAIN acc.jobs \cup {i} |-> IF j = i THEN next ELSE acc.jobs[j]]
<1>1. new = [jobs |-> f, deferred |-> acc.deferred, claimed |-> acc.claimed \cup {Url(x)}]
  <2>1. new = [acc EXCEPT !.jobs = f, !.claimed = acc.claimed \cup {Url(x)}]
    BY DEF WithJob
  <2>2. acc \in Planning
    OBVIOUS
  <2> HIDE DEF f
  <2> QED  BY <2>1, <2>2 DEF Planning
<1>2. f \in [DOMAIN acc.jobs \cup {i} -> Nat] /\ DOMAIN acc.jobs \cup {i} \in SUBSET Items
  BY PlanningParts, JobsAre
<1>3. DOMAIN f = DOMAIN acc.jobs \cup {i} /\ f[i] = next /\ \A j \in DOMAIN acc.jobs : j # i => f[j] = acc.jobs[j]
  OBVIOUS
<1> HIDE DEF f
<1>4. f \in Jobs
  BY <1>2 DEF Jobs
<1>5. Url(x) \in Urls(Article)
  BY DEF Urls
<1> QED  BY <1>1, <1>3, <1>4, <1>5, PlanningParts DEF Planning

LEMMA PlanItemTyped ==
  ASSUME QueueTyped, NEW acc \in Planning, NEW i \in Items
  PROVE  PlanItem(acc, i) \in Planning
<1> DEFINE new == PlanItem(acc, i)
<1>1. CASE new = acc
  BY <1>1
<1>2. CASE new = [acc EXCEPT !.deferred = @ \cup {i}]
  BY <1>2 DEF Planning
<1>3. ASSUME NEW next \in 1..Len(queue[i].alternates), queue[i].alternates[next] \in Article,
             new = WithJob(acc, i, next, queue[i].alternates[next])
      PROVE  new \in Planning
  <2> DEFINE x == queue[i].alternates[next]
  <2>1. next \in Nat /\ x \in Article
    BY <1>3
  <2>2. new = WithJob(acc, i, next, x)
    BY <1>3
  <2> HIDE DEF new, x
  <2> QED  BY <2>1, <2>2, JobAdded
<1> QED  BY <1>1, <1>2, <1>3, PlanItemCases

(* A plan, item by item.                                                       *)
Plans(u, s) ==
    /\ u[0] = [jobs |-> [j \in {} |-> 0], deferred |-> {}, claimed |-> Urls({queue[i].at : i \in Items} \cup Range(fetches))] /\ PlanWave = u[Len(s)]
    /\ \A n \in 1..Len(s) : u[n] = PlanItem(u[n - 1], s[n])

LEMMA PlanWaveBySteps ==
  ASSUME QueueTyped, fetches \in Seq(Article), NEW s \in Seq(Items), s = InQueueOrder(pending)
  PROVE  \E u \in [0..Len(s) -> Planning] : Plans(u, s)
<1> DEFINE Vs == Planning
           Xs == Items
           D == 0..Len(s)
           start == [jobs |-> [j \in {} |-> 0], deferred |-> {}, claimed |-> Urls({queue[i].at : i \in Items} \cup Range(fetches))]
           Stp(a, x) == PlanItem(a, x)
           Body(n, u) == IF n = 0 THEN start ELSE Stp(u[n - 1], s[n])
           g == [a \in Vs |-> [x \in Xs |-> Stp(a, x)]]
           upto[n \in D] == Body(n, upto)
<1>0. ASSUME NEW a \in Vs, NEW x \in Xs PROVE PlanItem(a, x) \in Vs
  BY PlanItemTyped
<1>1. ASSUME NEW a \in Vs, NEW x \in Xs PROVE Stp(a, x) \in Vs
  BY <1>0
<1>2. start \in Vs
  <2>1. {queue[i].at : i \in Items} \cup Range(fetches) \subseteq Article
    BY ItemsTyped, RangeIs DEF QueueTyped
  <2>2. Urls({queue[i].at : i \in Items} \cup Range(fetches)) \subseteq Urls(Article)
    BY <2>1 DEF Urls
  <2>3. [j \in {} |-> 0] \in [{} -> Nat] /\ {} \in SUBSET Items
    OBVIOUS
  <2>4. [j \in {} |-> 0] \in Jobs
    BY <2>3 DEF Jobs
  <2> QED  BY <2>2, <2>4 DEF Planning
<1>3. PlanWave = upto[Len(s)]
  BY DEF PlanWave, Folded
<1>4. Len(s) \in Nat /\ s \in Seq(Xs) /\ \A n \in 1..Len(s) : s[n] \in Xs
  OBVIOUS
<1> HIDE DEF Stp, Vs, Xs, start
<1>5. g \in [Vs -> [Xs -> Vs]] /\ \A a \in Vs, x \in Xs : g[a][x] = Stp(a, x)
  BY <1>1
<1>6. PICK v \in [D -> Vs] : Runs(v, g, start, s)
  <2> HIDE DEF g
  <2> QED  BY <1>2, <1>4, <1>5, LoopRuns
<1>7. 0 \in D /\ \A n \in D : n = 0 \/ n \in 1..Len(s)
  BY <1>4
<1>8. \A n \in 1..Len(s) : n \in D /\ n - 1 \in D /\ n # 0
  BY <1>4
<1>9. v = [n \in D |-> Body(n, v)]
  <2>1. v[0] = Body(0, v)
    BY <1>6 DEF Runs
  <2>2. ASSUME NEW n \in 1..Len(s) PROVE v[n] = Body(n, v)
    <3>1. v[n - 1] \in Vs /\ s[n] \in Xs /\ n # 0
      BY <1>4, <1>8
    <3> HIDE DEF g
    <3> QED  BY <1>5, <1>6, <3>1 DEF Runs
  <2> HIDE DEF Body
  <2> QED  BY <1>7, <2>1, <2>2
<1> HIDE DEF Body
<1>10. upto = [n \in D |-> Body(n, upto)]
  BY <1>9
<1> HIDE DEF upto
<1>11. \A n \in D : upto[n] = Body(n, upto)
  BY <1>10
<1>12. upto[0] = start
  BY <1>7, <1>11 DEF Body
<1>13. \A n \in 1..Len(s) : upto[n] = Stp(upto[n - 1], s[n])
  BY <1>8, <1>11 DEF Body
<1>14. \A n \in 0..Len(s) : upto[n] \in Vs
  <2>1. \A n \in 1..Len(s) : upto[n - 1] \in Vs => upto[n] \in Vs
    BY <1>1, <1>4, <1>13
  <2> QED  BY <1>2, <1>4, <1>12, <2>1, LoopKeeps
<1>15. upto \in [D -> Vs]
  <2>1. \A n \in D : Body(n, upto) \in Vs
    BY <1>11, <1>14
  <2> QED  BY <1>10, <2>1
<1> QED  BY <1>3, <1>12, <1>13, <1>15 DEF Plans, Stp, Vs, start

LEMMA PlanItemKeeps ==
  ASSUME QueueTyped, NEW acc, NEW done \in SUBSET Items, NEW base, Planned(acc, done, base),
         NEW i \in Items \ done
  PROVE  Planned(PlanItem(acc, i), done \cup {i}, base)
<1> DEFINE new == PlanItem(acc, i)
<1>1. /\ acc \in Planning /\ base \subseteq acc.claimed
      /\ DOMAIN acc.jobs \subseteq done /\ acc.deferred \subseteq done \ DOMAIN acc.jobs
      /\ \A m \in DOMAIN acc.jobs :
          /\ acc.jobs[m] \in 1..Len(queue[m].alternates)
          /\ Url(Taken(acc, m)) \in acc.claimed \ base /\ ~CoveredBy(m, ReadNow)
      /\ \A m, n \in DOMAIN acc.jobs : m # n =>
          Url(Taken(acc, m)) # Url(Taken(acc, n)) /\ ~SameStory(queue[m].at, queue[n].at)
  BY DEF Planned
<1>2. CASE new = acc
  <2> HIDE DEF new
  <2>1. Planned(acc, done \cup {i}, base)
    BY <1>1 DEF Planned
  <2> QED  BY <1>2, <2>1 DEF new
<1>3. CASE new = [acc EXCEPT !.deferred = @ \cup {i}]
  <2> HIDE DEF new
  <2>1. new.jobs = acc.jobs /\ new.claimed = acc.claimed /\ new.deferred = acc.deferred \cup {i}
        /\ new \in Planning
    BY <1>1, <1>3 DEF Planning
  <2>2. \A m \in DOMAIN acc.jobs : Taken(new, m) = Taken(acc, m)
    BY <2>1 DEF Taken
  <2>3. Planned(new, done \cup {i}, base)
    BY <1>1, <2>1, <2>2 DEF Planned
  <2> QED  BY <2>3 DEF new
<1>4. ASSUME NEW next \in 1..Len(queue[i].alternates),
             Url(queue[i].alternates[next]) \notin acc.claimed, queue[i].alternates[next] \in Article,
             ~CoveredBy(i, ReadNow), ~CoveredBy(i, {queue[j].at : j \in DOMAIN acc.jobs}),
             new = WithJob(acc, i, next, queue[i].alternates[next])
      PROVE  Planned(new, done \cup {i}, base)
  <2> DEFINE x == queue[i].alternates[next]
  <2>1. next \in Nat /\ x \in Article /\ new = WithJob(acc, i, next, x) /\ x = queue[i].alternates[next]
    BY <1>4
  <2> HIDE DEF new, x
  <2>2. /\ new \in Planning /\ DOMAIN new.jobs = DOMAIN acc.jobs \cup {i}
        /\ new.jobs[i] = next /\ \A j \in DOMAIN acc.jobs : j # i => new.jobs[j] = acc.jobs[j]
        /\ new.deferred = acc.deferred /\ new.claimed = acc.claimed \cup {Url(x)}
    BY <1>1, <2>1, JobAdded
  <2>3. Taken(new, i) = x /\ \A m \in DOMAIN acc.jobs : m # i /\ Taken(new, m) = Taken(acc, m)
    BY <1>1, <2>1, <2>2 DEF Taken
  <2>4. Url(x) \notin acc.claimed
    BY <1>4, <2>1
  <2>5. \A m \in DOMAIN acc.jobs : ~SameStory(queue[i].at, queue[m].at) /\ ~SameStory(queue[m].at, queue[i].at)
    BY <1>4 DEF CoveredBy, SameStory
  <2>6. ASSUME NEW m \in DOMAIN new.jobs
        PROVE  /\ new.jobs[m] \in 1..Len(queue[m].alternates)
               /\ Url(Taken(new, m)) \in new.claimed \ base /\ ~CoveredBy(m, ReadNow)
    <3>1. CASE m = i
      BY <1>1, <1>4, <2>2, <2>3, <2>4, <3>1
    <3>2. CASE m \in DOMAIN acc.jobs
      BY <1>1, <2>2, <2>3, <3>2
    <3> QED  BY <2>2, <3>1, <3>2
  <2>7. ASSUME NEW m \in DOMAIN new.jobs, NEW n \in DOMAIN new.jobs, m # n
        PROVE  Url(Taken(new, m)) # Url(Taken(new, n)) /\ ~SameStory(queue[m].at, queue[n].at)
    <3>1. CASE m \in DOMAIN acc.jobs /\ n \in DOMAIN acc.jobs
      BY <1>1, <2>3, <2>7, <3>1
    <3>2. CASE m = i /\ n \in DOMAIN acc.jobs
      BY <1>1, <2>3, <2>4, <2>5, <3>2
    <3>3. CASE n = i /\ m \in DOMAIN acc.jobs
      BY <1>1, <2>3, <2>4, <2>5, <3>3
    <3> QED  BY <2>2, <2>7, <3>1, <3>2, <3>3
  <2>8. acc.deferred \subseteq (done \cup {i}) \ DOMAIN new.jobs /\ DOMAIN new.jobs \subseteq done \cup {i}
    BY <1>1, <2>2
  <2> QED  BY <1>1, <2>2, <2>6, <2>7, <2>8 DEF Planned
<1> HIDE DEF new
<1>5. \/ new = acc
      \/ new = [acc EXCEPT !.deferred = @ \cup {i}]
      \/ \E next \in 1..Len(queue[i].alternates) :
              /\ Url(queue[i].alternates[next]) \notin acc.claimed
              /\ queue[i].alternates[next] \in Article
              /\ ~CoveredBy(i, ReadNow) /\ ~CoveredBy(i, {queue[j].at : j \in DOMAIN acc.jobs})
              /\ new = WithJob(acc, i, next, queue[i].alternates[next])
  BY <1>1, PlanItemCases DEF new
<1> QED  BY <1>2, <1>3, <1>4, <1>5 DEF new

WaveBase == Urls({queue[i].at : i \in Items} \cup Range(fetches))

(* What a wave plans.                                                          *)
LEMMA PlanWaveFacts ==
  ASSUME QueueTyped, fetches \in Seq(Article), pending \subseteq Items
  PROVE  Planned(PlanWave, pending, WaveBase)
<1> DEFINE s == InQueueOrder(pending)
<1>1. /\ s \in Seq(Items) /\ Range(s) = pending
      /\ \A m, n \in 1..Len(s) : s[m] = s[n] => m = n
  BY ItemsTyped, CountedFacts DEF InQueueOrder, QueueTyped
<1> HIDE DEF s
<1>2. PICK u \in [0..Len(s) -> Planning] : Plans(u, s)
  BY <1>1, PlanWaveBySteps DEF s
<1> DEFINE done(n) == {s[k] : k \in 1..n}
           S == {n \in Nat : n <= Len(s) => Planned(u[n], done(n), WaveBase)}
<1>3. Len(s) \in Nat /\ 0 \in 0..Len(s) /\ \A n \in 1..Len(s) : s[n] \in Items
  BY <1>1
<1>4. Planned(u[0], done(0), WaveBase)
  <2>1. done(0) = {}
    OBVIOUS
  <2>2. u[0] = [jobs |-> [j \in {} |-> 0], deferred |-> {}, claimed |-> WaveBase] /\ u[0] \in Planning
    BY <1>2, <1>3 DEF Plans, WaveBase
  <2> QED  BY <2>1, <2>2 DEF Planned
<1>5. ASSUME NEW n \in S PROVE n + 1 \in S
  <2> SUFFICES ASSUME n + 1 <= Len(s) PROVE Planned(u[n + 1], done(n + 1), WaveBase)
    OBVIOUS
  <2>1. n \in Nat /\ n + 1 \in 1..Len(s) /\ (n + 1) - 1 = n /\ Planned(u[n], done(n), WaveBase)
    BY <1>3
  <2>2. u[n + 1] = PlanItem(u[n], s[n + 1])
    BY <1>2, <2>1 DEF Plans
  <2>3. done(n + 1) = done(n) \cup {s[n + 1]}
    <3>1. 1..(n + 1) = 1..n \cup {n + 1}
      BY <2>1
    <3> QED  BY <3>1
  <2>4. \A k \in 1..n : k \in 1..Len(s) /\ k # n + 1
    BY <1>3, <2>1
  <2>5. done(n) \in SUBSET Items /\ s[n + 1] \in Items \ done(n)
    BY <1>1, <1>3, <2>1, <2>4
  <2> HIDE DEF done
  <2>6. Planned(PlanItem(u[n], s[n + 1]), done(n) \cup {s[n + 1]}, WaveBase)
    BY <2>1, <2>5, PlanItemKeeps
  <2> QED  BY <2>2, <2>3, <2>6
<1>6. S = Nat
  <2>1. 0 \in S
    BY <1>4
  <2> HIDE DEF S
  <2>2. S \in SUBSET Nat
    BY DEF S
  <2> QED  BY <1>5, <2>1, <2>2, CountingUp
<1>7. Len(s) \in S
  <2> HIDE DEF S
  <2> QED  BY <1>3, <1>6
<1>8. done(Len(s)) = pending
  BY <1>1, RangeIs
<1>9. PlanWave = u[Len(s)]
  BY <1>2 DEF Plans
<1> HIDE DEF done
<1>10. Planned(u[Len(s)], done(Len(s)), WaveBase)
  BY <1>3, <1>7
<1> QED  BY <1>8, <1>9, <1>10

-----------------------------------------------------------------------------
(* The selection of a section.                                                 *)

Result == [at : Article, got : BOOLEAN, date : Dates, verdict : {"keep", "drop", ""}]
ResultsTyped == queue \in Seq(QItem) /\ results \in [Items -> Result]
StoryOf == [i \in Items |-> Event(results[i].at)]

(* What is picked: candidates that may be selected, of different stories, no   *)
(* more than the section takes; a selection is that, and no more of an outlet  *)
(* than its own.                                                               *)
Choosable(i) == /\ i \in Candidate /\ Url(results[i].at) \notin Urls(Elsewhere)
                /\ UrlKind(results[i].at) \notin {"listing", "cdn"} /\ FreshEligible(i)
Picked(s) == /\ s \in Seq(Items) /\ Apart(s, StoryOf) /\ \A i \in Range(s) : Choosable(i)
             /\ Len(s) <= SECTION_CAP
Of(o, s) == {i \in Range(s) : Outlet(results[i].at) = o}
OutletsCapped(s) == \A o \in {Outlet(a) : a \in Article} : Cardinality(Of(o, s)) <= OUTLET_CAP
Selection(s) == Picked(s) /\ OutletsCapped(s)

LEMMA CandidatesFacts ==
  ASSUME ResultsTyped
  PROVE  Candidates \in Seq(Items) /\ Candidate \subseteq Kept /\ Candidate \subseteq Items
<1> DEFINE ats == {results[i].at : i \in Candidate}
           best == Ordered(ats)
           chosen(n) == CHOOSE i \in Candidate : results[i].at = best[n]
<1>1. Candidate \subseteq Kept /\ Candidate \subseteq Items
  BY DEF ResultsTyped, Kept, Candidate
<1>2. Candidates = [n \in 1..Len(best) |-> chosen(n)]
  BY DEF Candidates
<1>3. ats \in SUBSET Article
  <2>1. \A i \in Items : results[i].at \in Article
    BY DEF ResultsTyped, Result
  <2> HIDE DEF ats
  <2>2. \A x \in ats : \E i \in Candidate : x = results[i].at
    BY DEF ats
  <2> QED  BY <1>1, <2>1, <2>2
<1>4. best \in Seq(Article) /\ Range(best) = ats
  <2> HIDE DEF ats
  <2> QED  BY <1>3, OrderedFacts
<1> HIDE DEF best
<1>5. ASSUME NEW n \in 1..Len(best) PROVE chosen(n) \in Candidate
  <2>1. best[n] \in ats
    BY <1>4, RangeIs
  <2>2. \E i \in Candidate : results[i].at = best[n]
    BY <2>1
  <2> QED  BY <2>2
<1> HIDE DEF chosen, ats
<1>6. Candidates \in [1..Len(best) -> Items] /\ Len(best) \in Nat
  BY <1>1, <1>2, <1>4, <1>5
<1> QED  BY <1>1, <1>6

(* Selecting from a proposal, item by item.                                    *)
Selecting(u, s) ==
    /\ u[0] = <<>> /\ Folded(Select, <<>>, s) = u[Len(s)]
    /\ \A n \in 1..Len(s) : u[n] = Select(u[n - 1], s[n])

LEMMA SelectsBySteps ==
  ASSUME NEW s \in Seq(Items)
  PROVE  \E u \in [0..Len(s) -> Seq(Items)] : Selecting(u, s)
<1> DEFINE Vs == Seq(Items)
           Xs == Items
           D == 0..Len(s)
           start == <<>>
           Stp(a, x) == Select(a, x)
           Body(n, u) == IF n = 0 THEN start ELSE Stp(u[n - 1], s[n])
           g == [a \in Vs |-> [x \in Xs |-> Stp(a, x)]]
           upto[n \in D] == Body(n, upto)
<1>0. ASSUME NEW a \in Seq(Items), NEW x \in Items PROVE Select(a, x) \in Seq(Items)
  BY DEF Select
<1>1. ASSUME NEW a \in Vs, NEW x \in Xs PROVE Stp(a, x) \in Vs
  BY <1>0
<1>2. start \in Vs
  OBVIOUS
<1>3. Folded(Select, <<>>, s) = upto[Len(s)]
  BY DEF Folded
<1>4. Len(s) \in Nat /\ s \in Seq(Xs) /\ \A n \in 1..Len(s) : s[n] \in Xs
  OBVIOUS
<1> HIDE DEF Stp, Vs, Xs, start
<1>5. g \in [Vs -> [Xs -> Vs]] /\ \A a \in Vs, x \in Xs : g[a][x] = Stp(a, x)
  BY <1>1
<1>6. PICK v \in [D -> Vs] : Runs(v, g, start, s)
  <2> HIDE DEF g
  <2> QED  BY <1>2, <1>4, <1>5, LoopRuns
<1>7. 0 \in D /\ \A n \in D : n = 0 \/ n \in 1..Len(s)
  BY <1>4
<1>8. \A n \in 1..Len(s) : n \in D /\ n - 1 \in D /\ n # 0
  BY <1>4
<1>9. v = [n \in D |-> Body(n, v)]
  <2>1. v[0] = Body(0, v)
    BY <1>6 DEF Runs
  <2>2. ASSUME NEW n \in 1..Len(s) PROVE v[n] = Body(n, v)
    <3>1. v[n - 1] \in Vs /\ s[n] \in Xs /\ n # 0
      BY <1>4, <1>8
    <3> HIDE DEF g
    <3> QED  BY <1>5, <1>6, <3>1 DEF Runs
  <2> HIDE DEF Body
  <2> QED  BY <1>7, <2>1, <2>2
<1> HIDE DEF Body
<1>10. upto = [n \in D |-> Body(n, upto)]
  BY <1>9
<1> HIDE DEF upto
<1>11. \A n \in D : upto[n] = Body(n, upto)
  BY <1>10
<1>12. upto[0] = start
  BY <1>7, <1>11 DEF Body
<1>13. \A n \in 1..Len(s) : upto[n] = Stp(upto[n - 1], s[n])
  BY <1>8, <1>11 DEF Body
<1>14. \A n \in 0..Len(s) : upto[n] \in Vs
  <2>1. \A n \in 1..Len(s) : upto[n - 1] \in Vs => upto[n] \in Vs
    BY <1>1, <1>4, <1>13
  <2> QED  BY <1>2, <1>4, <1>12, <2>1, LoopKeeps
<1>15. upto \in [D -> Vs]
  <2>1. \A n \in D : Body(n, upto) \in Vs
    BY <1>11, <1>14
  <2> QED  BY <1>10, <2>1
<1> QED  BY <1>3, <1>12, <1>13, <1>15 DEF Selecting, Stp, Vs, start

(* Taking no more of an outlet than its own, item by item.                     *)
Thinning(u, s) ==
    /\ u[0] = <<>> /\ Folded(PerOutlet, <<>>, s) = u[Len(s)]
    /\ \A n \in 1..Len(s) : u[n] = PerOutlet(u[n - 1], s[n])

LEMMA ThinsBySteps ==
  ASSUME NEW s \in Seq(Items)
  PROVE  \E u \in [0..Len(s) -> Seq(Items)] : Thinning(u, s)
<1> DEFINE Vs == Seq(Items)
           Xs == Items
           D == 0..Len(s)
           start == <<>>
           Stp(a, x) == PerOutlet(a, x)
           Body(n, u) == IF n = 0 THEN start ELSE Stp(u[n - 1], s[n])
           g == [a \in Vs |-> [x \in Xs |-> Stp(a, x)]]
           upto[n \in D] == Body(n, upto)
<1>0. ASSUME NEW a \in Seq(Items), NEW x \in Items PROVE PerOutlet(a, x) \in Seq(Items)
  BY DEF PerOutlet
<1>1. ASSUME NEW a \in Vs, NEW x \in Xs PROVE Stp(a, x) \in Vs
  BY <1>0
<1>2. start \in Vs
  OBVIOUS
<1>3. Folded(PerOutlet, <<>>, s) = upto[Len(s)]
  BY DEF Folded
<1>4. Len(s) \in Nat /\ s \in Seq(Xs) /\ \A n \in 1..Len(s) : s[n] \in Xs
  OBVIOUS
<1> HIDE DEF Stp, Vs, Xs, start
<1>5. g \in [Vs -> [Xs -> Vs]] /\ \A a \in Vs, x \in Xs : g[a][x] = Stp(a, x)
  BY <1>1
<1>6. PICK v \in [D -> Vs] : Runs(v, g, start, s)
  <2> HIDE DEF g
  <2> QED  BY <1>2, <1>4, <1>5, LoopRuns
<1>7. 0 \in D /\ \A n \in D : n = 0 \/ n \in 1..Len(s)
  BY <1>4
<1>8. \A n \in 1..Len(s) : n \in D /\ n - 1 \in D /\ n # 0
  BY <1>4
<1>9. v = [n \in D |-> Body(n, v)]
  <2>1. v[0] = Body(0, v)
    BY <1>6 DEF Runs
  <2>2. ASSUME NEW n \in 1..Len(s) PROVE v[n] = Body(n, v)
    <3>1. v[n - 1] \in Vs /\ s[n] \in Xs /\ n # 0
      BY <1>4, <1>8
    <3> HIDE DEF g
    <3> QED  BY <1>5, <1>6, <3>1 DEF Runs
  <2> HIDE DEF Body
  <2> QED  BY <1>7, <2>1, <2>2
<1> HIDE DEF Body
<1>10. upto = [n \in D |-> Body(n, upto)]
  BY <1>9
<1> HIDE DEF upto
<1>11. \A n \in D : upto[n] = Body(n, upto)
  BY <1>10
<1>12. upto[0] = start
  BY <1>7, <1>11 DEF Body
<1>13. \A n \in 1..Len(s) : upto[n] = Stp(upto[n - 1], s[n])
  BY <1>8, <1>11 DEF Body
<1>14. \A n \in 0..Len(s) : upto[n] \in Vs
  <2>1. \A n \in 1..Len(s) : upto[n - 1] \in Vs => upto[n] \in Vs
    BY <1>1, <1>4, <1>13
  <2> QED  BY <1>2, <1>4, <1>12, <2>1, LoopKeeps
<1>15. upto \in [D -> Vs]
  <2>1. \A n \in D : Body(n, upto) \in Vs
    BY <1>11, <1>14
  <2> QED  BY <1>10, <2>1
<1> QED  BY <1>3, <1>12, <1>13, <1>15 DEF Thinning, Stp, Vs, start

LEMMA SelectKeeps ==
  ASSUME ResultsTyped, NEW chosen, Picked(chosen), NEW i \in Items
  PROVE  Picked(Select(chosen, i))
<1>1. CASE ~(Len(chosen) < SECTION_CAP /\ Selectable(i, chosen))
  BY <1>1 DEF Select
<1>2. CASE Len(chosen) < SECTION_CAP /\ Selectable(i, chosen)
  <2>1. Select(chosen, i) = Append(chosen, i)
    BY <1>2 DEF Select
  <2>2. chosen \in Seq(Items) /\ Apart(chosen, StoryOf) /\ \A j \in Range(chosen) : Choosable(j)
    BY DEF Picked
  <2>0. Len(chosen) \in Nat /\ SECTION_CAP \in Nat /\ Len(chosen) < SECTION_CAP
    BY <1>2, <2>2, CatalogTyped
  <2>3. Range(chosen) \subseteq Items
    BY <2>2, RangeIs
  <2>4. \A j \in Range(chosen) : StoryOf[j] # StoryOf[i]
    BY <1>2, <2>3 DEF Selectable, SameStory, StoryOf
  <2>5. Choosable(i)
    BY <1>2 DEF Selectable, Choosable
  <2>6. Apart(Append(chosen, i), StoryOf)
    BY <2>2, <2>4, ApartGrows
  <2>7. /\ Append(chosen, i) \in Seq(Items) /\ Range(Append(chosen, i)) = Range(chosen) \cup {i}
        /\ Len(Append(chosen, i)) = Len(chosen) + 1
    BY <2>2, RangeGrows
  <2> QED  BY <2>0, <2>1, <2>2, <2>5, <2>6, <2>7 DEF Picked
<1> QED  BY <1>1, <1>2

(* Whatever is proposed, what the first loop selects is picked.                *)
LEMMA SelectedSound ==
  ASSUME ResultsTyped, NEW s \in Seq(Items)
  PROVE  Picked(Folded(Select, <<>>, s))
<1>1. PICK u \in [0..Len(s) -> Seq(Items)] : Selecting(u, s)
  BY SelectsBySteps
<1>2. Len(s) \in Nat /\ \A n \in 1..Len(s) : s[n] \in Items
  OBVIOUS
<1> DEFINE S == {n \in Nat : n <= Len(s) => Picked(u[n])}
<1>3. Picked(u[0])
  <2>1. u[0] = <<>>
    BY <1>1 DEF Selecting
  <2>2. Apart(<<>>, StoryOf) /\ <<>> \in Seq(Items) /\ Len(<<>>) <= SECTION_CAP
    BY CatalogTyped DEF Apart
  <2> QED  BY <2>1, <2>2, RangeOfNone DEF Picked
<1>4. ASSUME NEW n \in S PROVE n + 1 \in S
  <2> SUFFICES ASSUME n + 1 <= Len(s) PROVE Picked(u[n + 1])
    OBVIOUS
  <2>1. n \in Nat /\ n + 1 \in 1..Len(s) /\ (n + 1) - 1 = n /\ Picked(u[n])
    BY <1>2
  <2>2. u[n + 1] = Select(u[n], s[n + 1])
    BY <1>1, <2>1 DEF Selecting
  <2> HIDE DEF S
  <2> QED  BY <1>2, <2>1, <2>2, SelectKeeps
<1>5. S = Nat
  <2>1. 0 \in S
    BY <1>3
  <2> HIDE DEF S
  <2>2. S \in SUBSET Nat
    BY DEF S
  <2> QED  BY <1>4, <2>1, <2>2, CountingUp
<1>6. Picked(u[Len(s)])
  BY <1>2, <1>5
<1> QED  BY <1>1, <1>6 DEF Selecting

(* Nothing is of no outlet; one more adds one to its outlet.                   *)
LEMMA OutletsOfNone == OutletsCapped(<<>>)
<1>1. \A o : Of(o, <<>>) = {}
  BY RangeOfNone DEF Of
<1>2. Cardinality({}) = 0 /\ 0 <= OUTLET_CAP
  BY FS_EmptySet, CatalogTyped
<1> QED  BY <1>1, <1>2 DEF OutletsCapped

LEMMA OutletsGrow ==
  ASSUME ResultsTyped, NEW t \in Seq(Items), OutletsCapped(t), NEW i \in Items,
         PerOutlet(t, i) = Append(t, i), PerOutlet(t, i) # t
  PROVE  OutletsCapped(Append(t, i))
<1> DEFINE mine == Outlet(results[i].at)
<1>1. Range(Append(t, i)) = Range(t) \cup {i} /\ Range(t) \in SUBSET Items
  BY RangeGrows, RangeIs
<1>2. Cardinality(Of(mine, t)) < OUTLET_CAP
  BY DEF PerOutlet, Of
<1>3. \A o : Of(o, t) \in SUBSET Items
  BY <1>1 DEF Of
<1>4. IsFiniteSet(Items)
  <2>1. Items = 1..Len(queue) /\ 1 \in Int /\ Len(queue) \in Int
    BY ItemsTyped DEF ResultsTyped
  <2> QED  BY <2>1, FS_Interval
<1>5. ASSUME NEW o \in {Outlet(a) : a \in Article}
      PROVE  Cardinality(Of(o, Append(t, i))) <= OUTLET_CAP
  <2>1. IsFiniteSet(Of(o, t)) /\ Cardinality(Of(o, t)) \in Nat /\ Cardinality(Of(o, t)) <= OUTLET_CAP
    BY <1>3, <1>4, FS_Subset, FS_CardinalityType DEF OutletsCapped
  <2>2. CASE o = mine
    <3>1. Of(o, Append(t, i)) = Of(o, t) \cup {i}
      BY <1>1, <2>2 DEF Of
    <3>2. Cardinality(Of(o, t) \cup {i}) =
            IF i \in Of(o, t) THEN Cardinality(Of(o, t)) ELSE Cardinality(Of(o, t)) + 1
      <4> DEFINE S == Of(o, t)
      <4>1. IsFiniteSet(S)
        BY <2>1
      <4> HIDE DEF S
      <4>2. Cardinality(S \cup {i}) = IF i \in S THEN Cardinality(S) ELSE Cardinality(S) + 1
        BY <4>1, FS_AddElement
      <4> QED  BY <4>2 DEF S
    <3>3. OUTLET_CAP \in Nat
      BY CatalogTyped
    <3>4. Cardinality(Of(o, t)) < OUTLET_CAP
      BY <1>2, <2>2
    <3> QED  BY <2>1, <3>1, <3>2, <3>3, <3>4
  <2>3. CASE o # mine
    <3>1. Of(o, Append(t, i)) = Of(o, t)
      BY <1>1, <2>3 DEF Of
    <3> QED  BY <2>1, <3>1
  <2> QED  BY <2>2, <2>3
<1> QED  BY <1>5 DEF OutletsCapped

(* Thinning a sequence keeps some of its items, in order.                      *)
Thinned(t, s, n) == /\ t \in Seq(Items) /\ Apart(t, StoryOf) /\ Len(t) <= n /\ OutletsCapped(t)
                    /\ \A i \in Range(t) : \E k \in 1..n : i = s[k]

LEMMA ThinningKeeps ==
  ASSUME ResultsTyped, NEW s \in Seq(Items), Apart(s, StoryOf), NEW n \in Nat, n + 1 \in 1..Len(s),
         NEW t, Thinned(t, s, n)
  PROVE  Thinned(PerOutlet(t, s[n + 1]), s, n + 1)
<1> DEFINE i == s[n + 1]
           new == PerOutlet(t, i)
<1>1. /\ i \in Items /\ t \in Seq(Items) /\ Apart(t, StoryOf) /\ \A j \in Range(t) : \E k \in 1..n : j = s[k]
      /\ Len(t) \in Nat /\ Len(t) <= n /\ OutletsCapped(t)
  BY DEF Thinned
<1>2. \A k \in 1..n : k \in 1..Len(s) /\ k \in 1..(n + 1) /\ k # n + 1
  OBVIOUS
<1>3. new = t \/ new = Append(t, i)
  BY DEF PerOutlet
<1>4. CASE new = t
  BY <1>1, <1>2, <1>4 DEF Thinned
<1>5. CASE new = Append(t, i) /\ new # t
  <2>0. OutletsCapped(Append(t, i))
    BY <1>1, <1>5, OutletsGrow
  <2>1. \A j \in Range(t) : StoryOf[j] # StoryOf[i]
    BY <1>1, <1>2 DEF Apart
  <2> HIDE DEF i
  <2>2. /\ Append(t, i) \in Seq(Items) /\ Range(Append(t, i)) = Range(t) \cup {i} /\ Apart(Append(t, i), StoryOf)
        /\ Len(Append(t, i)) = Len(t) + 1
    BY <1>1, <2>1, RangeGrows, ApartGrows
  <2>3. n + 1 \in 1..(n + 1)
    OBVIOUS
  <2> HIDE DEF new
  <2>4. \A j \in Range(new) : \E k \in 1..(n + 1) : j = s[k]
    BY <1>1, <1>2, <1>5, <2>2, <2>3 DEF i
  <2> QED  BY <1>1, <1>5, <2>0, <2>2, <2>4 DEF Thinned, new, i
<1> QED  BY <1>3, <1>4, <1>5

(* What is published of a proposal is a selection.                             *)
LEMMA ValidatedSound ==
  ASSUME ResultsTyped, NEW proposal \in Seq(Items)
  PROVE  Selection(Validated(proposal))
<1> DEFINE s == Folded(Select, <<>>, proposal)
<1>1. Picked(s)
  BY SelectedSound
<1>2. Validated(proposal) = Folded(PerOutlet, <<>>, s)
  BY DEF Validated
<1> HIDE DEF s
<1>3. s \in Seq(Items) /\ Apart(s, StoryOf) /\ \A i \in Range(s) : Choosable(i) /\ Len(s) <= SECTION_CAP
  BY <1>1 DEF Picked
<1>4. PICK u \in [0..Len(s) -> Seq(Items)] : Thinning(u, s)
  BY <1>3, ThinsBySteps
<1>5. Len(s) \in Nat /\ \A n \in 1..Len(s) : s[n] \in Items /\ s[n] \in Range(s)
  BY <1>3, RangeIs
<1> DEFINE S == {n \in Nat : n <= Len(s) => Thinned(u[n], s, n)}
<1>6. Thinned(u[0], s, 0)
  <2>1. u[0] = <<>>
    BY <1>4 DEF Thinning
  <2>2. Apart(<<>>, StoryOf) /\ <<>> \in Seq(Items) /\ Len(<<>>) <= 0
    BY DEF Apart
  <2> QED  BY <2>1, <2>2, OutletsOfNone, RangeOfNone DEF Thinned
<1>7. ASSUME NEW n \in S PROVE n + 1 \in S
  <2> SUFFICES ASSUME n + 1 <= Len(s) PROVE Thinned(u[n + 1], s, n + 1)
    OBVIOUS
  <2>1. n \in Nat /\ n + 1 \in 1..Len(s) /\ (n + 1) - 1 = n /\ Thinned(u[n], s, n)
    BY <1>5
  <2>2. u[n + 1] = PerOutlet(u[n], s[n + 1])
    BY <1>4, <2>1 DEF Thinning
  <2> HIDE DEF S
  <2> QED  BY <1>3, <2>1, <2>2, ThinningKeeps
<1>8. S = Nat
  <2>1. 0 \in S
    BY <1>6
  <2> HIDE DEF S
  <2>2. S \in SUBSET Nat
    BY DEF S
  <2> QED  BY <1>7, <2>1, <2>2, CountingUp
<1>9. Thinned(u[Len(s)], s, Len(s))
  BY <1>5, <1>8
<1>10. Validated(proposal) = u[Len(s)]
  BY <1>2, <1>4 DEF Thinning
<1>11. \A i \in Range(u[Len(s)]) : Choosable(i)
  BY <1>3, <1>5, <1>9 DEF Thinned
<1>12. Len(u[Len(s)]) <= SECTION_CAP
  <2>1. Len(u[Len(s)]) \in Nat /\ SECTION_CAP \in Nat /\ Len(u[Len(s)]) <= Len(s)
    BY <1>9, CatalogTyped DEF Thinned
  <2> QED  BY <1>3, <1>5, <2>1
<1> QED  BY <1>9, <1>10, <1>11, <1>12 DEF Thinned, Selection, Picked

-----------------------------------------------------------------------------
(* The inductive invariant of curation.                                        *)

Early == {"research", "judge", "rank", "fetch"}
Decided == {"verdicts", "propose", "review", "done"}
Fallbacks == {"skipped_raw_fallback", "rejected_fallback"}

(* What was found, judged and ranked: what was approved is accounted for, one   *)
(* finding stands for a URL, and the queue is sound and tells what is fresh.   *)
FindingSound ==
    /\ fresh \in Seq(Article) /\ Apart(fresh, UrlOf) /\ ApprovedAccounted /\ QueueSound(queue)
    /\ QueueTells(queue, Range(fresh))
    /\ curStep \in {"research", "judge"} => approved = {} /\ fresh = <<>> /\ rejected = {}
    /\ curStep \in {"research", "judge", "rank"} => queue = <<>>

(* What was opened: reports of the story that was queued, each URL once, no    *)
(* story for two items; and what is kept was opened and has its date.          *)
OpenedOnce == \A m, n \in 1..Len(fetches) : Url(fetches[m]) = Url(fetches[n]) => m = n
ToldOnce == \A i, j \in Got : i # j /\ results[i].at # queue[i].at
                              => ~SameStory(results[i].at, results[j].at)
Reported(i) == Usable(results[i].at) /\ SameStory(queue[i].at, results[i].at)
DateSure(i) == results[i].got /\ (queue[i].unverified => Page(results[i].at) = "today")
FetchSound ==
    /\ IF curStep \in Early THEN results = <<>> /\ fetches = <<>> /\ pending = {}
       ELSE results \in [Items -> Result] /\ \A i \in Items : Reported(i)
    /\ curStep = "substitute" => tried \in [Items -> Nat]
    /\ fetches \in Seq(Article) /\ OpenedOnce
    /\ pending \cap Got = {} /\ ToldOnce
    /\ curStep \in Decided => \A i \in Kept : DateSure(i)

(* What was selected: nothing yet, or a selection, which is empty only where   *)
(* it says so.                                                                 *)
TriesBounded ==
    /\ curStep \notin {"propose", "review", "done"} => tries = 0
    /\ curStep = "propose" => tries <= 2
    /\ curStep = "review" => tries <= 3
SectionSelected ==
    /\ TriesBounded
    /\ IF curStep \in {"review", "done"} THEN Selection(section) ELSE section = <<>>
    /\ curStep = "review" => ~Emptied(section)
    /\ curStep = "done" => ~Emptied(section) \/ reviewStatus \in Fallbacks

CurationInv == CurationTypeOK /\ FindingSound /\ FetchSound /\ SectionSelected

LEMMA NothingYet ==
  /\ Apart(<<>>, UrlOf) /\ QueueSound(<<>>) /\ \A S : QueueTells(<<>>, S)
  /\ Range(<<>>) = {} /\ DOMAIN <<>> = {} /\ Len(<<>>) = 0
  /\ \A X : <<>> \in Seq(X)
<1>1. FRESH_CAP \in Nat /\ Len(<<>>) = 0 /\ <<>> \in Seq(QItem)
  BY CatalogTyped
<1>2. QueueSound(<<>>) /\ \A S : QueueTells(<<>>, S)
  BY <1>1 DEF QueueSound, QueueTells
<1> QED  BY <1>2, RangeOfNone DEF Apart

(* A topic that starts, or starts again.                                       *)
Blank ==
    /\ curStep = "research" /\ model \in {"primary", "fallback"} /\ turn \in 1..2 /\ again = FALSE
    /\ raw = {} /\ approved = {} /\ fresh = <<>> /\ rejected = {} /\ queue = <<>>
    /\ results = <<>> /\ wave = 0 /\ pending = {} /\ fetches = <<>>
    /\ tries = 0 /\ section = <<>>

LEMMA BlankSound == Blank => CurationInv
<1> SUFFICES ASSUME Blank PROVE CurationInv
  OBVIOUS
<1>1. Got = {}
  BY NothingYet DEF Blank, Got
<1>2. CurationTypeOK
  <2>1. 0 <= FRESH_CAP /\ 0 \in 0..FETCH_ALTERNATE_LIMIT /\ 0 \in 0..4
    BY CatalogTyped
  <2> QED  BY NothingYet, <2>1 DEF Blank, CurationTypeOK
<1>3. FindingSound
  BY NothingYet DEF Blank, FindingSound, ApprovedAccounted
<1>4. FetchSound
  BY NothingYet, <1>1 DEF Blank, FetchSound, OpenedOnce, ToldOnce, Early, Decided
<1>5. SectionSelected
  BY DEF Blank, SectionSelected, TriesBounded
<1> QED  BY <1>2, <1>3, <1>4, <1>5 DEF CurationInv

LEMMA CurationInitially == CurationInit => CurationInv
<1>1. 1 \in 1..2
  OBVIOUS
<1>2. CurationInit => Blank
  BY <1>1 DEF CurationInit, Blank
<1> QED  BY <1>2, BlankSound

LEMMA StartsAgain == ASSUME StubRetry PROVE CurationInv'
<1>1. Blank'
  <2>1. 2 \in 1..2
    OBVIOUS
  <2> QED  BY <2>1 DEF StubRetry, Blank
<1> QED  BY <1>1, BlankSound, PTL

LEMMA ResearchKeeps ==
  ASSUME CurationInv, NEW found \in Searches, Research(found)
  PROVE  CurationInv'
<1> USE DEF Research, Fetching, Editing
<1>0. found \in SUBSET Article
  BY CurationAssumption DEF Article
<1>1. CurationTypeOK'
  BY <1>0, NothingYet DEF CurationInv, CurationTypeOK, FindingSound, Other, Items
<1>2. FindingSound'
  BY NothingYet DEF CurationInv, FindingSound, ApprovedAccounted
<1>3. Got' = Got
  BY DEF Got
<1>4. FetchSound'
  BY NothingYet, <1>3 DEF CurationInv, FetchSound, OpenedOnce, ToldOnce, Early, Decided
<1>5. SectionSelected'
  BY DEF CurationInv, SectionSelected, TriesBounded
<1> QED  BY <1>1, <1>2, <1>4, <1>5 DEF CurationInv

LEMMA JudgeKeeps ==
  ASSUME CurationInv, NEW answer \in SUBSET Forwarded, NEW also \in SUBSET Forwarded, NEW kept \in SUBSET answer,
         NEW naming \in [answer -> {"id", "url", "altered"}], Judge(answer, naming, kept, also)
  PROVE  CurationInv'
<1>0. /\ curStep = "judge" /\ approved' = answer /\ fresh' = Ordered(kept)
      /\ \A a, b \in kept : Url(a) = Url(b) => a = b
      /\ rejected' = {a \in raw : InLedger(a)} \cup (answer \ kept) \cup also /\ curStep' = "rank"
      /\ UNCHANGED <<model, turn, again, raw, queue, Fetching, Editing>>
  BY DEF Judge
<1>1. /\ raw \subseteq Article /\ answer \subseteq raw /\ also \subseteq raw /\ kept \in SUBSET Article
      /\ \A a \in answer : ~InLedger(a)
  BY DEF CurationInv, CurationTypeOK, Forwarded
<1>3. fresh' \in Seq(Article) /\ Range(fresh') = kept /\ Apart(fresh', UrlOf)
  <2>1. \A x, y \in kept : UrlOf[x] = UrlOf[y] => x = y
    BY <1>0, <1>1, UrlOfIs
  <2> QED  BY <1>0, <1>1, <2>1, OrderedFacts
<1>4. ApprovedAccounted'
  BY <1>0, <1>1, <1>3 DEF ApprovedAccounted, InLedger
<1>5. queue = <<>> /\ queue' = <<>> /\ QueueSound(queue)' /\ QueueTells(queue, Range(fresh))'
  BY <1>0, NothingYet DEF CurationInv, FindingSound
<1>6. FindingSound'
  BY <1>0, <1>3, <1>4, <1>5 DEF FindingSound, Apart, UrlOf
<1>7. CurationTypeOK'
  BY <1>0, <1>1, <1>3 DEF CurationInv, CurationTypeOK, Fetching, Editing, Items
<1>8. Got' = Got
  BY <1>0 DEF Got, Fetching
<1>9. FetchSound'
  BY <1>0, <1>8 DEF CurationInv, FetchSound, OpenedOnce, ToldOnce, Early, Decided, Fetching
<1>10. SectionSelected'
  BY <1>0 DEF CurationInv, SectionSelected, TriesBounded, Editing
<1> QED  BY <1>6, <1>7, <1>9, <1>10 DEF CurationInv

LEMMA RankKeeps == ASSUME CurationInv, Rank PROVE CurationInv'
<1>0. /\ curStep = "rank" /\ curStep' = "fetch"
      /\ UNCHANGED <<model, turn, again, raw, approved, fresh, rejected, Fetching, Editing>>
  BY DEF Rank
<1>1. QueueSound(queue') /\ QueueTells(queue', Range(fresh)) /\ fresh' = fresh
  BY <1>0, RankedSound DEF CurationInv, CurationTypeOK, FindingSound
<1>2. FindingSound'
  BY <1>0, <1>1 DEF CurationInv, FindingSound, ApprovedAccounted
<1>3. results = <<>> /\ fetches = <<>> /\ pending = {} /\ section = <<>>
  BY <1>0 DEF CurationInv, FetchSound, SectionSelected, Early
<1>4. Got' = {}
  BY <1>0, <1>3, NothingYet DEF Got, Fetching
<1>5. CurationTypeOK'
  BY <1>0, <1>1, <1>3, NothingYet DEF CurationInv, CurationTypeOK, Fetching, Editing, QueueSound
<1>6. FetchSound'
  BY <1>0, <1>3, <1>4, NothingYet DEF CurationInv, FetchSound, OpenedOnce, ToldOnce, Early, Decided, Fetching
<1>7. SectionSelected'
  BY <1>0 DEF CurationInv, SectionSelected, TriesBounded, Editing
<1> QED  BY <1>2, <1>5, <1>6, <1>7 DEF CurationInv

LEMMA QueueParts ==
  ASSUME CurationInv
  PROVE  /\ queue \in Seq(QItem) /\ Items = 1..Len(queue) /\ Len(queue) \in Nat
         /\ \A i \in Items : /\ queue[i].at \in Article /\ Usable(queue[i].at)
                             /\ queue[i].alternates \in Seq(Article)
                             /\ \A b \in Range(queue[i].alternates) : StandsIn(b, queue[i].at)
         /\ \A i, j \in Items : Url(queue[i].at) = Url(queue[j].at) => i = j
<1>1. QueueSound(queue)
  BY DEF CurationInv, FindingSound
<1>2. queue \in Seq(QItem)
  BY <1>1 DEF QueueSound
<1> QED  BY <1>1, <1>2, ItemsTyped DEF QueueSound

LEMMA LateParts ==
  ASSUME CurationInv, curStep \notin Early
  PROVE  /\ results \in [Items -> Result] /\ \A i \in Items : Reported(i) /\ results[i] \in Result
         /\ DOMAIN results = Items /\ Got \subseteq Items /\ Kept \subseteq Items
<1>1. results \in [Items -> Result] /\ \A i \in Items : Reported(i)
  BY DEF CurationInv, FetchSound
<1> QED  BY <1>1 DEF Got, Kept

(* The findings and the queue stay while their articles are fetched.           *)
LEMMA FindingStays ==
  ASSUME CurationInv, UNCHANGED Finding,
         curStep' \notin {"research", "judge", "rank"}
  PROVE  FindingSound' /\ Items' = Items
  BY DEF CurationInv, FindingSound, ApprovedAccounted, Finding, Items

LEMMA FetchPrimariesKeeps ==
  ASSUME CurationInv, NEW ok \in SUBSET Items, FetchPrimaries(ok)
  PROVE  CurationInv'
<1> DEFINE res(i) == [at |-> queue[i].at, got |-> i \in ok, date |-> "none", verdict |-> "keep"]
<1>0. /\ curStep = "fetch" /\ curStep' = "substitute"
      /\ results' = [i \in Items |-> res(i)]
      /\ fetches' = [i \in Items |-> queue[i].at]
      /\ pending' = Items \ ok /\ wave' = 0 /\ tried' = [i \in Items |-> 0]
      /\ UNCHANGED <<model, turn, again, Finding, Editing>>
  BY DEF FetchPrimaries
<1>1. /\ Items = 1..Len(queue) /\ Len(queue) \in Nat
      /\ \A i \in Items : queue[i].at \in Article /\ Usable(queue[i].at)
      /\ \A i, j \in Items : Url(queue[i].at) = Url(queue[j].at) => i = j
  BY QueueParts
<1>2. FindingSound' /\ Items' = Items /\ queue' = queue
  BY <1>0, FindingStays DEF Finding
<1>3. \A i \in Items : res(i) \in Result /\ res(i).at = queue[i].at /\ res(i).got = (i \in ok)
  <2>1. \A i \in Items : (i \in ok) \in BOOLEAN
    OBVIOUS
  <2> QED  BY <1>1, <2>1 DEF Result, Dates
<1> HIDE DEF res
<1>4. results' \in [Items -> Result] /\ \A i \in Items : results'[i] = res(i)
  BY <1>0, <1>3
<1>5. \A i \in Items : Reported(i)'
  BY <1>1, <1>2, <1>3, <1>4 DEF Reported, SameStory
<1>6. fetches' \in Seq(Article) /\ Len(fetches') = Len(queue) /\ \A i \in Items : fetches'[i] = queue[i].at
  BY <1>0, <1>1
<1>7. OpenedOnce'
  BY <1>1, <1>6 DEF OpenedOnce
<1>8. Got' = ok
  <2>1. DOMAIN results' = Items
    BY <1>4
  <2> QED  BY <1>3, <1>4, <2>1 DEF Got
<1>9. ToldOnce'
  BY <1>2, <1>3, <1>4, <1>8 DEF ToldOnce
<1>10. tried' \in [Items -> Nat] /\ 0 \in 0..FETCH_ALTERNATE_LIMIT
  BY <1>0, CatalogTyped
<1>11. FetchSound'
  BY <1>0, <1>2, <1>4, <1>5, <1>6, <1>7, <1>8, <1>9, <1>10 DEF FetchSound, Early, Decided
<1>12. CurationTypeOK'
  BY <1>0, <1>2, <1>10 DEF CurationInv, CurationTypeOK, Finding, Editing
<1>13. SectionSelected'
  BY <1>0 DEF CurationInv, SectionSelected, TriesBounded, Editing
<1> QED  BY <1>2, <1>11, <1>12, <1>13 DEF CurationInv

(* What is judged of a result leaves what it reports.                          *)
LEMMA ReportsStay ==
  ASSUME CurationInv, curStep \notin Early, curStep' \notin Early, queue' = queue, fetches' = fetches,
         results' \in [Items -> Result],
         \A i \in Items : results'[i].at = results[i].at /\ results'[i].got = results[i].got,
         pending' \subseteq pending
  PROVE  /\ IF curStep' \in Early THEN results' = <<>> /\ fetches' = <<>> /\ pending' = {}
            ELSE results' \in [Items -> Result]' /\ \A i \in Items' : Reported(i)'
         /\ (fetches \in Seq(Article) /\ OpenedOnce)'
         /\ (pending \cap Got = {} /\ ToldOnce)' /\ Got' = Got
<1>1. Items' = Items
  BY DEF Items
<1>2. DOMAIN results' = Items /\ DOMAIN results = Items /\ Got \subseteq Items
  BY LateParts
<1>3. Got' = Got
  BY <1>2 DEF Got
<1>4. ToldOnce'
  BY <1>2, <1>3 DEF CurationInv, FetchSound, ToldOnce
<1>5. \A i \in Items : Reported(i)'
  BY LateParts DEF Reported
<1>6. results' \in [Items -> Result]'
  BY <1>1 DEF Result
<1> QED  BY <1>1, <1>3, <1>4, <1>5, <1>6 DEF CurationInv, FetchSound, OpenedOnce, Result

LEMMA SubstitutionDoneKeeps == ASSUME CurationInv, SubstitutionDone PROVE CurationInv'
<1>0. /\ curStep = "substitute" /\ curStep' = (IF Got = {} THEN "propose" ELSE "dates") /\ pending' = {}
      /\ results' = IF Got = {} THEN [i \in Items |-> [results[i] EXCEPT !.verdict = ""]] ELSE results
      /\ UNCHANGED <<model, turn, again, Finding, wave, tried, fetches, Editing>>
  BY DEF SubstitutionDone
<1>1. FindingSound' /\ Items' = Items /\ queue' = queue
  BY <1>0, FindingStays DEF Finding
<1>2. curStep \notin Early /\ curStep' \notin Early
  BY <1>0 DEF Early
<1>3. /\ results' \in [Items -> Result]
      /\ \A i \in Items : results'[i].at = results[i].at /\ results'[i].got = results[i].got
      /\ Got = {} => \A i \in Items : results'[i].verdict = ""
  <2>1. CASE Got = {}
    <3> DEFINE res(i) == [results[i] EXCEPT !.verdict = ""]
    <3>1. \A i \in Items : res(i) \in Result /\ res(i).at = results[i].at /\ res(i).got = results[i].got
                           /\ res(i).verdict = ""
      BY <1>2, LateParts DEF Result
    <3>2. results' = [i \in Items |-> res(i)]
      BY <1>0, <2>1
    <3> HIDE DEF res
    <3> QED  BY <3>1, <3>2
  <2>2. CASE Got # {}
    BY <1>0, <1>2, <2>2, LateParts
  <2> QED  BY <2>1, <2>2
<1>4. /\ results' \in [Items -> Result]' /\ \A i \in Items' : Reported(i)'
      /\ (fetches \in Seq(Article) /\ OpenedOnce)' /\ (pending \cap Got = {} /\ ToldOnce)'
  BY <1>0, <1>1, <1>2, <1>3, ReportsStay
<1>5. curStep' \in Decided => Kept' = {}
  <2>1. DOMAIN results' = Items
    BY <1>3
  <2> QED  BY <1>0, <1>3, <2>1 DEF Decided, Kept
<1>6. FetchSound'
  BY <1>0, <1>2, <1>4, <1>5 DEF FetchSound
<1>7. CurationTypeOK'
  BY <1>0, <1>1 DEF CurationInv, CurationTypeOK, Finding, Editing
<1>8. SectionSelected'
  <2>1. curStep' \in {"propose", "dates"} /\ curStep = "substitute" /\ UNCHANGED Editing
    BY <1>0
  <2>2. tries = 0 /\ section = <<>>
    BY <1>0 DEF CurationInv, SectionSelected, TriesBounded
  <2> QED  BY <2>1, <2>2 DEF SectionSelected, TriesBounded, Editing
<1> QED  BY <1>1, <1>6, <1>7, <1>8 DEF CurationInv

LEMMA CheckDatesKeeps ==
  ASSUME CurationInv, NEW seen \in SUBSET Got, CheckDates(seen)
  PROVE  CurationInv'
<1> DEFINE date(i) == IF i \in seen THEN Page(results[i].at) ELSE "none"
           res(i) == IF i \notin Got THEN [results[i] EXCEPT !.verdict = "drop"]
                     ELSE [results[i] EXCEPT !.date = IF date(i) = "none" THEN KnownDate(i) ELSE date(i),
                                             !.verdict = IF DateDropped(i, date(i)) THEN "drop" ELSE "keep"]
<1>0. /\ curStep = "dates" /\ curStep' = "verdicts" /\ results' = [i \in Items |-> res(i)]
      /\ UNCHANGED <<model, turn, again, Finding, wave, pending, tried, fetches, Editing>>
  BY DEF CheckDates
<1>1. FindingSound' /\ Items' = Items /\ queue' = queue
  BY <1>0, FindingStays DEF Finding
<1>2. curStep \notin Early /\ curStep' \notin Early
  BY <1>0 DEF Early
<1>3. ASSUME NEW i \in Items
      PROVE  /\ res(i) \in Result /\ res(i).at = results[i].at /\ res(i).got = results[i].got
             /\ res(i).verdict = "keep" => i \in Got /\ ~DateDropped(i, date(i))
  <2>1. results[i] \in Result /\ results[i].at \in Article /\ queue[i].of \in Article
    <3>1. queue[i].of \in Article
      BY QueueParts, ItemsTyped
    <3> QED  BY <1>2, <3>1, LateParts DEF Result
  <2>2. date(i) \in Dates /\ KnownDate(i) \in Dates
    BY <2>1, CatalogTyped DEF KnownDate, Dates
  <2> DEFINE known == IF date(i) = "none" THEN KnownDate(i) ELSE date(i)
  <2>3. known \in Dates
    BY <2>2
  <2> HIDE DEF known
  <2>4. CASE i \notin Got
    BY <2>1, <2>4 DEF Result
  <2>5. CASE i \in Got
    <3> DEFINE v == IF DateDropped(i, date(i)) THEN "drop" ELSE "keep"
    <3>1. res(i) = [results[i] EXCEPT !.date = known, !.verdict = v]
      BY <2>5 DEF known
    <3>2. v \in {"keep", "drop", ""} /\ (v = "keep" => ~DateDropped(i, date(i)))
      OBVIOUS
    <3> HIDE DEF v, res
    <3> QED  BY <2>1, <2>3, <2>5, <3>1, <3>2 DEF Result
  <2> QED  BY <2>4, <2>5
<1> HIDE DEF res
<1>4. /\ results' \in [Items -> Result]
      /\ \A i \in Items : results'[i].at = results[i].at /\ results'[i].got = results[i].got
  BY <1>0, <1>3
<1>5. /\ results' \in [Items -> Result]' /\ \A i \in Items' : Reported(i)'
      /\ (fetches \in Seq(Article) /\ OpenedOnce)' /\ (pending \cap Got = {} /\ ToldOnce)'
  BY <1>0, <1>1, <1>2, <1>4, ReportsStay
<1>6. ASSUME NEW i \in Kept' PROVE DateSure(i)'
  <2>1. i \in Items /\ res(i).verdict = "keep" /\ results'[i] = res(i)
    BY <1>0, <1>4 DEF Kept
  <2>2. i \in Got /\ ~DateDropped(i, date(i))
    BY <1>3, <2>1
  <2>3. results[i].got /\ (queue[i].unverified => date(i) = "today")
    BY <2>2 DEF Got, DateDropped
  <2> QED  BY <1>1, <1>4, <2>1, <2>3 DEF DateSure
<1>7. FetchSound'
  BY <1>0, <1>2, <1>5, <1>6 DEF FetchSound
<1>8. CurationTypeOK'
  BY <1>0, <1>1 DEF CurationInv, CurationTypeOK, Finding, Editing
<1>9. SectionSelected'
  BY <1>0 DEF CurationInv, SectionSelected, TriesBounded, Editing
<1> QED  BY <1>1, <1>7, <1>8, <1>9 DEF CurationInv

LEMMA JudgeSummariesKeeps ==
  ASSUME CurationInv, NEW dropped \in SUBSET Got, JudgeSummaries(dropped)
  PROVE  CurationInv'
<1> DEFINE res(i) == IF i \in dropped THEN [results[i] EXCEPT !.verdict = "drop"] ELSE results[i]
<1>0. /\ curStep = "verdicts" /\ curStep' = "propose" /\ results' = [i \in Items |-> res(i)]
      /\ UNCHANGED <<model, turn, again, Finding, wave, pending, tried, fetches, Editing>>
  BY DEF JudgeSummaries
<1>1. FindingSound' /\ Items' = Items /\ queue' = queue
  BY <1>0, FindingStays DEF Finding
<1>2. curStep \notin Early /\ curStep' \notin Early
  BY <1>0 DEF Early
<1>3. ASSUME NEW i \in Items
      PROVE  /\ res(i) \in Result /\ res(i).at = results[i].at /\ res(i).got = results[i].got
             /\ res(i).verdict = "keep" => results[i].verdict = "keep"
  BY <1>2, LateParts DEF Result
<1> HIDE DEF res
<1>4. /\ results' \in [Items -> Result]
      /\ \A i \in Items : results'[i].at = results[i].at /\ results'[i].got = results[i].got
  BY <1>0, <1>3
<1>5. /\ results' \in [Items -> Result]' /\ \A i \in Items' : Reported(i)'
      /\ (fetches \in Seq(Article) /\ OpenedOnce)' /\ (pending \cap Got = {} /\ ToldOnce)'
  BY <1>0, <1>1, <1>2, <1>4, ReportsStay
<1>6. ASSUME NEW i \in Kept' PROVE DateSure(i)'
  <2>1. i \in Items /\ i \in Kept
    BY <1>0, <1>2, <1>3, <1>4, LateParts DEF Kept
  <2>2. DateSure(i)
    BY <1>0, <2>1 DEF CurationInv, FetchSound, Decided
  <2> QED  BY <1>1, <1>4, <2>1, <2>2 DEF DateSure
<1>7. FetchSound'
  BY <1>0, <1>2, <1>5, <1>6 DEF FetchSound
<1>8. CurationTypeOK'
  BY <1>0, <1>1 DEF CurationInv, CurationTypeOK, Finding, Editing
<1>9. SectionSelected'
  BY <1>0 DEF CurationInv, SectionSelected, TriesBounded, Editing
<1> QED  BY <1>1, <1>7, <1>8, <1>9 DEF CurationInv

(* A wave opens alternates of distinct stories and of URLs that were not       *)
(* opened yet.                                                                 *)
LEMMA SubstitutionWaveKeeps ==
  ASSUME CurationInv, NEW ok \in SUBSET Items, SubstitutionWave(ok)
  PROVE  CurationInv'
<1> DEFINE plan == PlanWave
           jobs == DOMAIN plan.jobs
           order == InQueueOrder(jobs)
           alternate(i) == queue[i].alternates[plan.jobs[i]]
           res(i) == IF i \in ok THEN [results[i] EXCEPT !.at = alternate(i), !.got = TRUE] ELSE results[i]
           opened == [n \in 1..Len(order) |-> alternate(order[n])]
<1>0. /\ curStep = "substitute" /\ wave < FETCH_ALTERNATE_LIMIT /\ ok \subseteq jobs /\ wave' = wave + 1
      /\ tried' = [i \in Items |-> IF i \in jobs THEN plan.jobs[i] ELSE tried[i]]
      /\ fetches' = fetches \o opened
      /\ results' = [i \in Items |-> res(i)]
      /\ pending' = plan.deferred \cup (jobs \ ok)
      /\ UNCHANGED <<curStep, model, turn, again, Finding, Editing>>
  BY DEF SubstitutionWave
<1>1. FindingSound' /\ Items' = Items /\ queue' = queue
  BY <1>0, FindingStays DEF Finding
<1>2. curStep \notin Early /\ curStep' \notin Early /\ curStep' \notin Decided
  BY <1>0 DEF Early, Decided
<1>3. /\ QueueTyped /\ fetches \in Seq(Article) /\ pending \subseteq Items /\ pending \cap Got = {}
      /\ ToldOnce /\ OpenedOnce
  BY <1>0, QueueParts DEF CurationInv, FetchSound, CurationTypeOK, QueueTyped
<1>4. Planned(plan, pending, WaveBase)
  BY <1>3, PlanWaveFacts
<1> HIDE DEF plan
<1>5. /\ plan \in Planning /\ jobs \subseteq pending /\ plan.deferred \subseteq pending \ jobs
      /\ \A i \in jobs : /\ plan.jobs[i] \in 1..Len(queue[i].alternates)
                         /\ Url(alternate(i)) \notin WaveBase /\ ~CoveredBy(i, ReadNow)
      /\ \A i, j \in jobs : i # j => Url(alternate(i)) # Url(alternate(j)) /\ ~SameStory(queue[i].at, queue[j].at)
  BY <1>4 DEF Planned, Taken
<1>6. ASSUME NEW i \in jobs
      PROVE  i \in Items /\ alternate(i) \in Article /\ StandsIn(alternate(i), queue[i].at) /\ plan.jobs[i] \in Nat
  <2>1. i \in Items /\ plan.jobs[i] \in 1..Len(queue[i].alternates)
    BY <1>3, <1>5
  <2>2. queue[i].alternates \in Seq(Article) /\ \A b \in Range(queue[i].alternates) : StandsIn(b, queue[i].at)
    BY <2>1, QueueParts
  <2>3. alternate(i) \in Range(queue[i].alternates) /\ alternate(i) \in Article /\ plan.jobs[i] \in Nat
    BY <2>1, <2>2, RangeIs
  <2> QED  BY <2>1, <2>2, <2>3
<1> HIDE DEF jobs
<1>7. jobs \in SUBSET Items /\ Items = 1..Len(queue) /\ Len(queue) \in Nat /\ ok \subseteq jobs
  BY <1>0, <1>6, QueueParts
<1>8. /\ order \in Seq(jobs) /\ \A m, n \in 1..Len(order) : order[m] = order[n] => m = n
  BY <1>7, CountedFacts DEF InQueueOrder
<1> HIDE DEF order
<1>9. /\ opened \in Seq(Article) /\ Len(opened) = Len(order) /\ Len(order) \in Nat
      /\ \A n \in 1..Len(order) : order[n] \in jobs /\ opened[n] = alternate(order[n])
  <2>1. Len(order) \in Nat /\ \A n \in 1..Len(order) : order[n] \in jobs /\ alternate(order[n]) \in Article
    BY <1>6, <1>8
  <2> QED  BY <2>1
<1> HIDE DEF opened, alternate
<1>10. fetches' \in Seq(Article) /\ OpenedOnce'
  <2>1. Apart(fetches, UrlOf)
    <3>1. \A n \in 1..Len(fetches) : fetches[n] \in Article
      BY <1>3
    <3> QED  BY <1>3, <3>1, UrlOfIs DEF OpenedOnce, Apart
  <2>2. Apart(opened, UrlOf)
    <3>1. ASSUME NEW m \in 1..Len(opened), NEW n \in 1..Len(opened), UrlOf[opened[m]] = UrlOf[opened[n]]
          PROVE  m = n
      <4>1. order[m] \in jobs /\ order[n] \in jobs /\ Url(alternate(order[m])) = Url(alternate(order[n]))
        BY <1>6, <1>9, <3>1, UrlOfIs
      <4>2. order[m] = order[n]
        BY <1>5, <4>1 DEF alternate
      <4> QED  BY <1>8, <1>9, <4>2
    <3> QED  BY <3>1 DEF Apart
  <2>3. ASSUME NEW x \in Range(fetches), NEW y \in Range(opened) PROVE UrlOf[x] # UrlOf[y]
    <3>1. x \in Article /\ Url(x) \in WaveBase
      BY <1>3, RangeIs DEF WaveBase, Urls
    <3>2. PICK n \in 1..Len(order) : y = opened[n]
      BY <1>9, RangeIs
    <3>3. y \in Article /\ Url(y) \notin WaveBase
      BY <1>5, <1>6, <1>9, <3>2 DEF alternate
    <3> QED  BY <3>1, <3>3, UrlOfIs
  <2>4. fetches' \in Seq(Article) /\ Apart(fetches', UrlOf)
    BY <1>0, <1>3, <1>9, <2>1, <2>2, <2>3, RangeJoins, ApartJoins
  <2>5. \A n \in 1..Len(fetches') : fetches'[n] \in Article
    BY <2>4
  <2> QED  BY <2>4, <2>5, UrlOfIs DEF OpenedOnce, Apart
<1>11. ASSUME NEW i \in Items
       PROVE  /\ res(i) \in Result
              /\ i \in ok => res(i).at = alternate(i) /\ res(i).got
              /\ i \notin ok => res(i) = results[i]
  <2>1. results[i] \in Result
    BY <1>2, LateParts
  <2>2. CASE i \in ok
    <3>1. alternate(i) \in Article
      BY <1>6, <1>7, <2>2
    <3> QED  BY <2>1, <2>2, <3>1 DEF Result
  <2>3. CASE i \notin ok
    BY <2>1, <2>3
  <2> QED  BY <2>2, <2>3
<1> HIDE DEF res
<1>12. results' \in [Items -> Result] /\ \A i \in Items : results'[i] = res(i)
  BY <1>0, <1>11
<1>13. ASSUME NEW i \in Items PROVE Reported(i)'
  <2>1. CASE i \in ok
    <3>1. results'[i].at = alternate(i) /\ StandsIn(alternate(i), queue[i].at)
      BY <1>6, <1>7, <1>11, <1>12, <2>1
    <3> QED  BY <1>1, <3>1 DEF Reported, StandsIn
  <2>2. CASE i \notin ok
    <3>1. results'[i] = results[i] /\ Reported(i)
      BY <1>2, <1>11, <1>12, <2>2, LateParts
    <3> QED  BY <1>1, <3>1 DEF Reported
  <2> QED  BY <2>1, <2>2
<1>14. Got' = Got \cup ok
  <2>1. DOMAIN results' = Items /\ DOMAIN results = Items /\ Got \subseteq Items
    BY <1>2, <1>12, LateParts
  <2>2. \A i \in Items : results'[i].got <=> (i \in ok \/ results[i].got)
    BY <1>11, <1>12
  <2> QED  BY <1>7, <2>1, <2>2 DEF Got
<1>15. pending' \cap Got' = {} /\ pending' \subseteq Items
  BY <1>0, <1>3, <1>5, <1>7, <1>14
<1>16. ASSUME NEW i \in Got', NEW j \in Got', i # j, results'[i].at # queue'[i].at
       PROVE  ~SameStory(results'[i].at, results'[j].at)
  <2>0. i \in Items /\ j \in Items /\ Got \subseteq Items
    BY <1>2, <1>7, <1>14, <1>16, LateParts
  <2>1. \A k \in ok : k \notin Got /\ k \in jobs /\ results'[k].at = alternate(k) /\ Event(alternate(k)) = Event(queue[k].at)
    BY <1>3, <1>5, <1>6, <1>7, <1>11, <1>12 DEF StandsIn, SameStory
  <2>2. \A k \in Got : k \notin ok /\ results'[k] = results[k]
    BY <1>11, <1>12, <2>0, <2>1
  <2>3. \A k \in ok, n \in Got : Event(queue[k].at) # Event(results[n].at)
    <3> SUFFICES ASSUME NEW k \in ok, NEW n \in Got PROVE Event(queue[k].at) # Event(results[n].at)
      OBVIOUS
    <3>1. ~CoveredBy(k, ReadNow)
      BY <1>5, <2>1
    <3>2. results[n].at \in ReadNow
      BY DEF ReadNow
    <3> QED  BY <3>1, <3>2 DEF CoveredBy, SameStory
  <2>4. CASE i \in ok /\ j \in ok
    <3>1. ~SameStory(queue[i].at, queue[j].at)
      BY <1>5, <1>16, <2>1, <2>4
    <3> QED  BY <2>1, <2>4, <3>1 DEF SameStory
  <2>5. CASE i \in ok /\ j \in Got
    BY <2>1, <2>2, <2>3, <2>5 DEF SameStory
  <2>6. CASE i \in Got /\ j \in ok
    BY <2>1, <2>2, <2>3, <2>6 DEF SameStory
  <2>7. CASE i \in Got /\ j \in Got
    BY <1>1, <1>3, <1>16, <2>2, <2>7 DEF ToldOnce
  <2> QED  BY <1>14, <2>4, <2>5, <2>6, <2>7
<1>17. ToldOnce'
  BY <1>16 DEF ToldOnce
<1>18. tried' \in [Items -> Nat]
  BY <1>0, <1>3, <1>6 DEF QueueTyped
<1>19. FetchSound'
  BY <1>1, <1>2, <1>10, <1>12, <1>13, <1>15, <1>17, <1>18 DEF FetchSound, Result
<1>20. CurationTypeOK'
  <2>1. wave' \in 0..FETCH_ALTERNATE_LIMIT
    BY <1>0, CatalogTyped DEF CurationInv, CurationTypeOK
  <2> QED  BY <1>0, <1>1, <1>15, <2>1 DEF CurationInv, CurationTypeOK, Finding, Editing
<1>21. SectionSelected'
  BY <1>0 DEF CurationInv, SectionSelected, TriesBounded, Editing
<1> QED  BY <1>1, <1>19, <1>20, <1>21 DEF CurationInv

(* What was found and opened stays while the section is edited.                *)
LEMMA EditingOnly ==
  ASSUME CurationInv, UNCHANGED <<Finding, Fetching>>, curStep \in Decided, curStep' \in Decided
  PROVE  /\ FindingSound' /\ FetchSound' /\ Items' = Items /\ Candidate' = Candidate
         /\ Selection(section)' <=> Selection(section')
         /\ Emptied(section)' <=> Emptied(section')
<1>1. FindingSound' /\ Items' = Items /\ queue' = queue /\ results' = results
  BY FindingStays DEF Finding, Fetching, Decided
<1>2. Candidate' = Candidate /\ StoryOf' = StoryOf /\ Kept' = Kept /\ Got' = Got
  BY <1>1 DEF Kept, Candidate, StoryOf, Got
<1>3. FetchSound'
  BY <1>1, <1>2 DEF CurationInv, FetchSound, OpenedOnce, ToldOnce, Reported, DateSure, Early, Decided, Fetching, Result
<1>4. \A i : Choosable(i)' <=> Choosable(i)
  BY <1>1, <1>2 DEF Choosable, FreshEligible
<1>5. Selection(section)' <=> Selection(section')
  BY <1>1, <1>2, <1>4 DEF Selection, Picked, OutletsCapped, Of, Apart
<1>6. Emptied(section)' <=> Emptied(section')
  BY <1>1, <1>2 DEF Emptied, FreshEligible
<1> QED  BY <1>1, <1>2, <1>3, <1>5, <1>6

LEMMA DecidedParts ==
  ASSUME CurationInv, curStep \in Decided
  PROVE  ResultsTyped /\ Candidates \in Seq(Items) /\ Candidate \subseteq Kept /\ Candidate \subseteq Items
<1>1. ResultsTyped
  BY QueueParts, LateParts DEF ResultsTyped, Early, Decided
<1> QED  BY <1>1, CandidatesFacts

LEMMA RawSound ==
  ASSUME CurationInv, curStep \in Decided
  PROVE  Selection(Validated(RawProposal))
<1>1. RawProposal \in Seq(Items)
  BY DecidedParts, CatalogTyped, AtMostFacts DEF RawProposal
<1> QED  BY <1>1, DecidedParts, ValidatedSound

LEMMA OrderSound ==
  ASSUME CurationInv, curStep \in Decided, NEW S \in SUBSET Candidate
  PROVE  InQueueOrder(S) \in Seq(Items)
<1>1. Items = 1..Len(queue) /\ Len(queue) \in Nat /\ S \in SUBSET Items
  BY DecidedParts, QueueParts
<1> QED  BY <1>1, CountedFacts DEF InQueueOrder

(* A selection that is published next has its invariant.                       *)
LEMMA SelectedTyped ==
  ASSUME CurationInv, UNCHANGED <<Finding, Fetching>>, curStep \in Decided,
         curStep' \in {"propose", "review", "done"},
         Selection(section') \/ section' = <<>>, tries' \in 0..4, UNCHANGED <<model, turn, again>>
  PROVE  CurationTypeOK'
<1>1. Items' = Items
  BY DEF Finding, Items
<1>2. Range(section') \subseteq Items
  BY NothingYet, RangeIs DEF Selection, Picked
<1> QED  BY <1>1, <1>2 DEF CurationInv, CurationTypeOK, Finding, Fetching

LEMMA ProposeNothingKeeps == ASSUME CurationInv, ProposeNothing PROVE CurationInv'
<1>0. /\ curStep = "propose" /\ Candidate = {} /\ section' = <<>> /\ curStep' = "done"
      /\ UNCHANGED <<model, turn, again, Finding, Fetching, tries, hinted, criticRejected>>
  BY DEF ProposeNothing, Selects
<1>1. curStep \in Decided /\ curStep' \in Decided
  BY <1>0 DEF Decided
<1>2. /\ FindingSound' /\ FetchSound' /\ (Selection(section)' <=> Selection(section'))
      /\ Emptied(section)' <=> Emptied(section')
  BY <1>0, <1>1, EditingOnly
<1>3. Selection(<<>>) /\ ~Emptied(<<>>)
  BY <1>0, NothingYet, OutletsOfNone, CatalogTyped DEF Selection, Picked, Apart, Emptied
<1>4. SectionSelected'
  <2>1. ~Emptied(section)' /\ Selection(section)'
    BY <1>0, <1>2, <1>3
  <2> QED  BY <1>0, <2>1 DEF SectionSelected, TriesBounded
<1>5. CurationTypeOK'
  BY <1>0, <1>1, SelectedTyped DEF CurationInv, CurationTypeOK
<1> QED  BY <1>2, <1>4, <1>5 DEF CurationInv

(* An attempt that was for nothing: another one, or what was kept as it is.    *)
LEMMA AttemptKeeps ==
  ASSUME CurationInv, curStep = "propose", NEW e \in BOOLEAN, Attempt(e),
         UNCHANGED <<model, turn, again, Finding, Fetching, criticRejected>>
  PROVE  CurationInv'
<1> DEFINE used == IF e /\ ~hinted THEN tries ELSE tries + 1
           last == Validated(RawProposal)
<1>0. \/ /\ used = 3 /\ section' = last /\ curStep' = "done" /\ reviewStatus' = "skipped_raw_fallback" /\ tries' = 0
      \/ used # 3 /\ tries' = used /\ UNCHANGED <<section, proposalStatus, reviewStatus, curStep>>
  BY DEF Attempt, Selects
<1>1. curStep \in Decided /\ curStep' \in Decided /\ curStep' \in {"propose", "done"}
  BY <1>0 DEF Decided
<1>2. FindingSound' /\ FetchSound' /\ (Selection(section)' <=> Selection(section'))
  BY <1>1, EditingOnly
<1>3. tries \in 0..2 /\ section = <<>>
  BY DEF CurationInv, CurationTypeOK, SectionSelected, TriesBounded
<1>4. used \in 0..3
  BY <1>3
<1>5. Selection(last)
  BY <1>1, RawSound
<1> HIDE DEF last, used
<1>6. SectionSelected' /\ CurationTypeOK'
  <2>1. CASE used = 3 /\ section' = last /\ curStep' = "done" /\ reviewStatus' = "skipped_raw_fallback" /\ tries' = 0
    <3>2. Selection(section)'
      BY <2>1, <1>2, <1>5
    <3>3. SectionSelected'
      BY <2>1, <3>2 DEF SectionSelected, TriesBounded, Fallbacks
    <3> QED  BY <1>1, <1>5, <2>1, <3>3, SelectedTyped
  <2>2. CASE used # 3 /\ tries' = used /\ UNCHANGED <<section, proposalStatus, reviewStatus, curStep>>
    <3>1. SectionSelected'
      BY <1>3, <1>4, <2>2 DEF SectionSelected, TriesBounded
    <3>2. tries' \in 0..4 /\ section' = <<>>
      BY <1>3, <1>4, <2>2
    <3> QED  BY <1>1, <3>1, <3>2, SelectedTyped
  <2> QED  BY <1>0, <2>1, <2>2
<1> QED  BY <1>2, <1>6 DEF CurationInv

(* The state of a selection that is published, or reviewed next.               *)
LEMMA SelectionNext ==
  ASSUME CurationInv, UNCHANGED <<Finding, Fetching>>, curStep \in Decided,
         curStep' \in {"review", "done"}, UNCHANGED <<model, turn, again>>,
         Selection(section'), ~Emptied(section') \/ (curStep' = "done" /\ reviewStatus' \in Fallbacks),
         tries' \in 0..4, curStep' = "review" => tries' <= 3
  PROVE  CurationInv'
<1>1. curStep' \in Decided
  BY DEF Decided
<1>2. /\ FindingSound' /\ FetchSound' /\ (Selection(section)' <=> Selection(section'))
      /\ Emptied(section)' <=> Emptied(section')
  BY <1>1, EditingOnly
<1>4. Selection(section)'
  BY <1>2
<1>5. Emptied(section)' => Emptied(section')
  BY <1>2
<1>6. SectionSelected'
  BY <1>4, <1>5 DEF SectionSelected, TriesBounded
<1>7. CurationTypeOK'
  BY SelectedTyped
<1> QED  BY <1>2, <1>6, <1>7 DEF CurationInv

LEMMA ProposeKeeps ==
  ASSUME CurationInv, NEW answer \in Seq(Items), Propose(answer)
  PROVE  CurationInv'
<1> DEFINE selection == Validated(answer)
<1>0. /\ curStep = "propose" /\ UNCHANGED <<model, turn, again, Finding, Fetching, criticRejected>>
      /\ IF Emptied(selection) THEN Attempt(TRUE)
         ELSE section' = selection /\ curStep' = "review" /\ tries' = 0
  BY DEF Propose, Selects
<1>1. curStep \in Decided
  BY <1>0 DEF Decided
<1>2. Selection(selection)
  BY <1>1, DecidedParts, ValidatedSound
<1> HIDE DEF selection
<1>3. CASE Emptied(selection)
  BY <1>0, <1>3, AttemptKeeps
<1>4. CASE ~Emptied(selection)
  BY <1>0, <1>1, <1>2, <1>4, SelectionNext
<1> QED  BY <1>3, <1>4

LEMMA ProposeFailsKeeps == ASSUME CurationInv, ProposeFails PROVE CurationInv'
  BY AttemptKeeps DEF ProposeFails

LEMMA ReviewParts ==
  ASSUME CurationInv, curStep = "review"
  PROVE  Selection(section) /\ ~Emptied(section) /\ tries \in 0..3 /\ curStep \in Decided
  BY DEF CurationInv, CurationTypeOK, SectionSelected, TriesBounded, Decided

LEMMA ReviewFailsKeeps ==
  ASSUME CurationInv, curStep = "review", NEW rejects \in BOOLEAN, ReviewFails(rejects),
         UNCHANGED <<model, turn, again, Finding, Fetching, hinted, proposalStatus>>
  PROVE  CurationInv'
<1> DEFINE used == IF rejects THEN (IF tries < 2 THEN 2 ELSE 4) ELSE tries + 1
           rejected2 == criticRejected \/ rejects
           over == used >= 4 \/ (criticRejected /\ tries >= 2)
           last == Validated(RawProposal)
<1>0. /\ tries' = used
      /\ IF over THEN /\ section' = IF rejected2 THEN last ELSE section
                      /\ reviewStatus' = IF rejected2 THEN "rejected_fallback" ELSE "unavailable"
                      /\ curStep' = "done"
         ELSE UNCHANGED <<section, reviewStatus, curStep>>
  BY DEF ReviewFails
<1>1. Selection(section) /\ ~Emptied(section) /\ tries \in 0..3 /\ curStep \in Decided
  BY ReviewParts
<1>2. used \in 0..4 /\ (~over => used <= 3)
  BY <1>1
<1>3. Selection(last)
  BY <1>1, RawSound
<1> HIDE DEF used, over, rejected2, last
<1>4. CASE over /\ rejected2
  BY <1>0, <1>1, <1>2, <1>3, <1>4, SelectionNext DEF Fallbacks
<1>5. CASE over /\ ~rejected2
  BY <1>0, <1>1, <1>2, <1>5, SelectionNext
<1>6. CASE ~over
  BY <1>0, <1>1, <1>2, <1>6, SelectionNext
<1> QED  BY <1>4, <1>5, <1>6

LEMMA ReviewKeeps ==
  ASSUME CurationInv, NEW removed \in SUBSET Candidate, NEW added \in SUBSET Candidate,
         Review(removed, InQueueOrder(added))
  PROVE  CurationInv'
<1> DEFINE selection == Validated(Patched(removed, InQueueOrder(added)))
<1>0. /\ curStep = "review" /\ UNCHANGED <<model, turn, again, Finding, Fetching, hinted, proposalStatus>>
      /\ IF Emptied(selection) THEN ReviewFails(FALSE)
         ELSE section' = selection /\ curStep' = "done" /\ UNCHANGED <<tries, criticRejected>>
  BY DEF Review
<1>1. Selection(section) /\ ~Emptied(section) /\ tries \in 0..3 /\ curStep \in Decided
  BY <1>0, ReviewParts
<1>2. InQueueOrder(added) \in Seq(Items)
  BY <1>1, OrderSound
<1>3. Patched(removed, InQueueOrder(added)) \in Seq(Items)
  <2> DEFINE s == OnlyIn(section, Range(section) \ removed)
             t == InQueueOrder(added)
  <2>1. s \in Seq(Items) /\ t \in Seq(Items)
    BY <1>1, <1>2, OnlyInFacts DEF Selection, Picked
  <2> HIDE DEF s, t
  <2>2. s \o t \in Seq(Items)
    BY <2>1
  <2> QED  BY <2>2 DEF Patched, s, t
<1>4. Selection(selection)
  BY <1>1, <1>3, DecidedParts, ValidatedSound
<1> HIDE DEF selection
<1>5. CASE Emptied(selection)
  BY <1>0, <1>5, ReviewFailsKeeps
<1>6. CASE ~Emptied(selection)
  BY <1>0, <1>1, <1>4, <1>6, SelectionNext
<1> QED  BY <1>5, <1>6

LEMMA ReviewErrorKeeps ==
  ASSUME CurationInv, NEW rejects \in BOOLEAN, ReviewError(rejects)
  PROVE  CurationInv'
  BY ReviewFailsKeeps DEF ReviewError

LEMMA CurationStutters == ASSUME CurationInv, UNCHANGED curationVars PROVE CurationInv'
<1>1. /\ Items' = Items /\ Got' = Got /\ Kept' = Kept /\ Candidate' = Candidate /\ StoryOf' = StoryOf
  BY DEF curationVars, Items, Got, Kept, Candidate, StoryOf
<1>2. UNCHANGED <<Finding, Fetching, Editing, curStep, model, turn, again>>
  BY DEF curationVars, Finding, Fetching, Editing
<1>3. CurationTypeOK' /\ FindingSound'
  BY <1>1, <1>2 DEF CurationInv, CurationTypeOK, FindingSound, ApprovedAccounted, Finding, Fetching, Editing
<1>4. FetchSound'
  BY <1>1, <1>2 DEF CurationInv, FetchSound, OpenedOnce, ToldOnce, Reported, DateSure, Early, Decided, Finding, Fetching, Result
<1>5. SectionSelected'
  BY <1>1, <1>2 DEF CurationInv, SectionSelected, TriesBounded, Selection, Picked, OutletsCapped, Of, Choosable, FreshEligible,
     Emptied, Apart, Finding, Fetching, Editing
<1> QED  BY <1>3, <1>4, <1>5 DEF CurationInv

(* Every step of curation keeps its invariant.                                 *)
THEOREM CurationInvariance == ASSUME CurationInv, [CurationNext]_curationVars PROVE CurationInv'
<1>1. CASE UNCHANGED curationVars
  BY <1>1, CurationStutters
<1>2. ASSUME NEW S \in SUBSET Candidate, Propose(InQueueOrder(S)) PROVE CurationInv'
  <2>1. curStep \in Decided
    BY <1>2 DEF Propose, Decided
  <2>2. InQueueOrder(S) \in Seq(Items)
    BY <2>1, OrderSound
  <2> QED  BY <1>2, <2>2, ProposeKeeps
<1>3. CASE CurationNext
  BY <1>2, <1>3, ResearchKeeps, JudgeKeeps, RankKeeps, FetchPrimariesKeeps, SubstitutionWaveKeeps,
     SubstitutionDoneKeeps, CheckDatesKeeps, JudgeSummariesKeeps, ProposeNothingKeeps, ProposeFailsKeeps,
     ReviewKeeps, ReviewErrorKeeps, StartsAgain DEF CurationNext
<1> QED  BY <1>1, <1>3

(* What the invariant says of the selection and of what was opened.            *)
THEOREM CurationPromises ==
  CurationInv => CurationTypeOK /\ SectionSound /\ ApprovedAccounted /\ FetchedOnce /\ NotEmptied
<1> SUFFICES ASSUME CurationInv PROVE SectionSound /\ FetchedOnce /\ NotEmptied
  BY DEF CurationInv, FindingSound
<1>1. SectionSound
  <2>1. CASE curStep \notin {"review", "done"}
    <3>1. section = <<>> /\ OutletsCapped(section) /\ Len(section) <= SECTION_CAP
      BY <2>1, NothingYet, OutletsOfNone, CatalogTyped DEF CurationInv, SectionSelected
    <3> QED  BY <3>1, NothingYet DEF SectionSound, OutletsCapped, Of
  <2>2. CASE curStep \in {"review", "done"}
    <3>1. curStep \in Decided /\ curStep \notin Early /\ Selection(section)
      BY <2>2 DEF CurationInv, SectionSelected, Decided, Early
    <3>2. /\ section \in Seq(Items) /\ Apart(section, StoryOf) /\ \A i \in Range(section) : Choosable(i) /\ i \in Items
          /\ Len(section) <= SECTION_CAP /\ OutletsCapped(section)
      BY <3>1, RangeIs DEF Selection, Picked
    <3>3. ASSUME NEW i \in Range(section)
          PROVE  /\ queue[i].of \in approved /\ SameStory(results[i].at, queue[i].of)
                 /\ results[i].got /\ UrlKind(results[i].at) = "article"
                 /\ ~Repeats(results[i].at) /\ Url(results[i].at) \notin Urls(Elsewhere)
                 /\ results[i].date \notin {"old", "soon"}
                 /\ queue[i].unverified => Page(results[i].at) = "today"
      <4>1. i \in Kept /\ Choosable(i)
        BY <3>1, <3>2, DecidedParts DEF Choosable
      <4>2. DateSure(i)
        BY <3>1, <4>1 DEF CurationInv, FetchSound
      <4>3. Usable(results[i].at)
        BY <3>1, <3>2, LateParts DEF Reported
      <4>4. UrlKind(results[i].at) = "article"
        BY <4>1, <4>3, CatalogTyped DEF Usable, Choosable
      <4>5. queue[i].of \in Range(fresh) /\ SameStory(queue[i].at, queue[i].of)
        BY <3>2, QueueParts DEF CurationInv, FindingSound, QueueTells, Tells
      <4>6. queue[i].of \in approved /\ SameStory(results[i].at, queue[i].of)
        BY <3>1, <3>2, <4>5, LateParts DEF CurationInv, FindingSound, ApprovedAccounted, Reported, SameStory
      <4> QED  BY <4>1, <4>2, <4>3, <4>4, <4>6 DEF Choosable, FreshEligible, DateSure, Usable
    <3>4. ASSUME NEW i \in Range(section), NEW j \in Range(section), i # j
          PROVE  ~SameStory(results[i].at, results[j].at)
      <4>1. PICK m \in 1..Len(section) : i = section[m]
        BY <3>2, RangeIs
      <4>2. PICK n \in 1..Len(section) : j = section[n]
        BY <3>2, RangeIs
      <4>3. StoryOf[i] # StoryOf[j]
        BY <3>2, <3>4, <4>1, <4>2 DEF Apart
      <4> QED  BY <3>2, <4>3 DEF StoryOf, SameStory
    <3> QED  BY <3>2, <3>3, <3>4 DEF SectionSound, OutletsCapped, Of
  <2> QED  BY <2>1, <2>2
<1>2. FetchedOnce
  <2>1. fetches \in Seq(Article) /\ OpenedOnce /\ ToldOnce
    BY DEF CurationInv, FetchSound
  <2>2. DOMAIN fetches = 1..Len(fetches)
    BY <2>1
  <2> QED  BY <2>1, <2>2 DEF FetchedOnce, OpenedOnce, ToldOnce
<1>3. NotEmptied
  BY DEF CurationInv, SectionSelected, NotEmptied, Emptied, Selectable, Fallbacks
<1> QED  BY <1>1, <1>2, <1>3

-----------------------------------------------------------------------------
(* The front page: stories with scores of their own.                           *)

Scored(S) == /\ IsFiniteSet(S) /\ \A s \in S : s.page \in Pages /\ s.score \in Nat
             /\ \A s, t \in S : s.score = t.score => s = t

LEMMA ScoredSubset == ASSUME NEW S, Scored(S), NEW T \in SUBSET S PROVE Scored(T)
  BY FS_Subset DEF Scored

(* A story of the best score exists: one with the fewest better ones.          *)
LEMMA BestOfFacts ==
  ASSUME NEW S, Scored(S), S # {}
  PROVE  BestOf(S) \in S /\ \A t \in S : t.score <= BestOf(S).score
<1> DEFINE Better(s) == {t \in S : s.score < t.score}
           ranks == {Cardinality(Better(s)) : s \in S}
<1>1. \A s \in S : s.score \in Nat
  BY DEF Scored
<1>2. ASSUME NEW s \in S PROVE Better(s) \in SUBSET S /\ IsFiniteSet(Better(s)) /\ Cardinality(Better(s)) \in Nat
  <2>1. Better(s) \in SUBSET S
    OBVIOUS
  <2> HIDE DEF Better
  <2>2. IsFiniteSet(Better(s))
    BY <2>1, FS_Subset DEF Scored
  <2> QED  BY <2>1, <2>2, FS_CardinalityType
<1>3. \A s, t \in S : t \in Better(s) <=> s.score < t.score
  OBVIOUS
<1> HIDE DEF Better
<1>4. ranks \in SUBSET Nat /\ ranks # {}
  BY <1>2
<1>5. PICK n \in ranks : \A m \in ranks : n <= m
  <2> HIDE DEF ranks
  <2> QED  BY <1>4, LeastOf
<1>6. PICK s \in S : \A t \in S : Cardinality(Better(s)) <= Cardinality(Better(t))
  BY <1>5
<1>7. ASSUME NEW t \in Better(s) PROVE FALSE
  <2>1. t \in S /\ s.score < t.score
    BY <1>2, <1>3
  <2>2. Better(t) \subseteq Better(s) /\ t \notin Better(t)
    <3>1. \A x \in Better(t) : x \in S /\ t.score < x.score
      BY <1>2, <1>3, <2>1
    <3>2. \A x \in Better(t) : s.score < x.score
      BY <1>1, <2>1, <3>1
    <3> QED  BY <1>1, <1>3, <2>1, <3>1, <3>2
  <2>3. Cardinality(Better(t)) <= Cardinality(Better(s))
        /\ (Cardinality(Better(s)) = Cardinality(Better(t)) => Better(s) = Better(t))
    BY <1>2, <2>2, FS_Subset
  <2>4. Cardinality(Better(s)) <= Cardinality(Better(t))
    BY <1>6, <2>1
  <2> QED  BY <1>2, <2>1, <2>2, <2>3, <2>4
<1>8. \A t \in S : ~(s.score < t.score)
  BY <1>3, <1>7
<1>9. \A t \in S : t.score <= s.score
  BY <1>1, <1>8
<1> QED  BY <1>9 DEF BestOf

(* The best of some is the one story that none of them beats.                  *)
LEMMA BestIs ==
  ASSUME NEW S, Scored(S), NEW b \in S, \A t \in S : t.score <= b.score
  PROVE  BestOf(S) = b
<1>1. BestOf(S) \in S /\ b.score <= BestOf(S).score
  BY BestOfFacts
<1>2. b.score = BestOf(S).score
  BY <1>1 DEF Scored
<1> QED  BY <1>1, <1>2 DEF Scored


(* Ranking, story by story.                                                     *)
Ranks(u, S, N) ==
    /\ u[0] = <<>> /\ Ranked(S) = u[N]
    /\ \A n \in 1..N : u[n] = Append(u[n - 1], BestOf(S \ Range(u[n - 1])))

LEMMA RankedBySteps ==
  ASSUME NEW S, NEW N, N = Cardinality(S), N \in Nat, NEW V, \A r \in Seq(V) : BestOf(S \ Range(r)) \in V
  PROVE  \E u \in [0..N -> Seq(V)] : Ranks(u, S, N)
<1> DEFINE cs == [k \in 1..N |-> k]
           Vs == Seq(V)
           Xs == Nat
           D == 0..Cardinality(S)
           start == <<>>
           Stp(a, x) == Append(a, BestOf(S \ Range(a)))
           Body(n, u) == IF n = 0 THEN start ELSE Stp(u[n - 1], cs[n])
           g == [a \in Vs |-> [x \in Xs |-> Stp(a, x)]]
           upto[n \in D] == Body(n, upto)
<1>1. ASSUME NEW a \in Vs, NEW x \in Xs PROVE Stp(a, x) \in Vs
  <2> DEFINE b == BestOf(S \ Range(a))
  <2>1. b \in V /\ a \in Seq(V)
    OBVIOUS
  <2> HIDE DEF b
  <2>2. Append(a, b) \in Seq(V)
    BY <2>1
  <2> QED  BY <2>2 DEF b
<1>2. start \in Vs
  OBVIOUS
<1>3. Ranked(S) = upto[Cardinality(S)]
  BY DEF Ranked
<1>4. Len(cs) = N /\ N \in Nat /\ cs \in Seq(Xs) /\ \A n \in 1..N : cs[n] \in Xs
  OBVIOUS
<1> HIDE DEF Stp, Vs, Xs, start, cs
<1>5. g \in [Vs -> [Xs -> Vs]] /\ \A a \in Vs, x \in Xs : g[a][x] = Stp(a, x)
  BY <1>1
<1>6. PICK v \in [D -> Vs] : Runs(v, g, start, cs)
  <2> HIDE DEF g
  <2> QED  BY <1>2, <1>4, <1>5, LoopRuns
<1>7. 0 \in D /\ \A n \in D : n = 0 \/ n \in 1..N
  BY <1>4
<1>8. \A n \in 1..N : n \in D /\ n - 1 \in D /\ n # 0
  BY <1>4
<1>9. v = [n \in D |-> Body(n, v)]
  <2>1. v[0] = Body(0, v)
    BY <1>6 DEF Runs
  <2>2. ASSUME NEW n \in 1..N PROVE v[n] = Body(n, v)
    <3>1. v[n - 1] \in Vs /\ cs[n] \in Xs /\ n # 0
      BY <1>4, <1>8
    <3> HIDE DEF g
    <3> QED  BY <1>4, <1>5, <1>6, <3>1 DEF Runs
  <2> HIDE DEF Body
  <2> QED  BY <1>7, <2>1, <2>2
<1> HIDE DEF Body
<1>10. upto = [n \in D |-> Body(n, upto)]
  BY <1>9
<1> HIDE DEF upto
<1>11. \A n \in D : upto[n] = Body(n, upto)
  BY <1>10
<1>12. upto[0] = start
  BY <1>7, <1>11 DEF Body
<1>13. \A n \in 1..N : upto[n] = Stp(upto[n - 1], cs[n])
  BY <1>8, <1>11 DEF Body
<1>14. \A n \in 0..N : upto[n] \in Vs
  <2>1. \A n \in 1..N : upto[n - 1] \in Vs => upto[n] \in Vs
    BY <1>1, <1>4, <1>13
  <2> QED  BY <1>2, <1>4, <1>12, <2>1, LoopKeeps
<1>15. upto \in [D -> Vs]
  <2>1. \A n \in D : Body(n, upto) \in Vs
    BY <1>11, <1>14
  <2> QED  BY <1>10, <2>1
<1> QED  BY <1>3, <1>12, <1>13, <1>15 DEF Ranks, Stp, Vs, start

(* A ranking has the stories of S, each once, the better before the others.    *)
RankedTo(r, S, n) ==
    /\ r \in Seq(S) /\ Len(r) = n /\ Cardinality(Range(r)) = n
    /\ \A i, j \in 1..n : i < j => r[j].score < r[i].score
    /\ \A x \in S \ Range(r), y \in Range(r) : x.score < y.score

LEMMA RankingStep ==
  ASSUME NEW S, Scored(S), NEW n \in Nat, n < Cardinality(S), NEW r, RankedTo(r, S, n)
  PROVE  RankedTo(Append(r, BestOf(S \ Range(r))), S, n + 1)
<1> DEFINE left == S \ Range(r)
           b == BestOf(left)
           t == Append(r, b)
<1>1. r \in Seq(S) /\ Len(r) = n /\ Cardinality(Range(r)) = n
      /\ (\A i, j \in 1..n : i < j => r[j].score < r[i].score)
      /\ \A x \in S \ Range(r), y \in Range(r) : x.score < y.score
  BY DEF RankedTo
<1>2. Range(r) \subseteq S /\ IsFiniteSet(Range(r)) /\ IsFiniteSet(S) /\ \A i \in 1..n : r[i] \in Range(r)
  <2>1. Range(r) \subseteq S /\ \A i \in 1..n : r[i] \in Range(r)
    BY <1>1, RangeIs
  <2> QED  BY <2>1, FS_Subset DEF Scored
<1>3. left # {} /\ Scored(left)
  <2>1. Range(r) # S
    BY <1>1
  <2> QED  BY <1>2, <2>1, ScoredSubset
<1>4. b \in left /\ \A x \in left : x.score <= b.score
  <2> HIDE DEF left
  <2> QED  BY <1>3, BestOfFacts
<1> HIDE DEF b
<1>5. b \in S /\ b \notin Range(r) /\ \A y \in Range(r) : b.score < y.score
  BY <1>1, <1>4
<1>6. /\ t \in Seq(S) /\ Len(t) = n + 1 /\ Range(t) = Range(r) \cup {b}
      /\ (\A k \in 1..n : t[k] = r[k]) /\ t[n + 1] = b
  BY <1>1, <1>5, RangeGrows
<1> HIDE DEF t
<1>7. Cardinality(Range(t)) = n + 1
  <2>1. Cardinality(Range(r) \cup {b}) = Cardinality(Range(r)) + 1
    BY <1>2, <1>5, FS_AddElement
  <2> QED  BY <1>1, <1>6, <2>1
<1>8. ASSUME NEW i \in 1..(n + 1), NEW j \in 1..(n + 1), i < j PROVE t[j].score < t[i].score
  <2>1. i \in 1..n /\ t[i] = r[i]
    BY <1>6, <1>8
  <2>2. CASE j = n + 1
    BY <1>2, <1>5, <1>6, <2>1, <2>2
  <2>3. CASE j # n + 1
    <3>1. j \in 1..n
      BY <2>3
    <3> QED  BY <1>1, <1>6, <1>8, <2>1, <3>1
  <2> QED  BY <2>2, <2>3
<1>9. ASSUME NEW x \in S \ Range(t), NEW y \in Range(t) PROVE x.score < y.score
  <2>1. x \in left /\ x # b
    BY <1>6
  <2>2. CASE y \in Range(r)
    BY <1>1, <2>1, <2>2
  <2>3. CASE y = b
    <3>1. x.score <= b.score /\ x.score # b.score /\ x.score \in Nat /\ b.score \in Nat
      BY <1>4, <1>5, <2>1 DEF Scored
    <3> QED  BY <2>3, <3>1
  <2> QED  BY <1>6, <2>2, <2>3
<1>10. RankedTo(t, S, n + 1)
  BY <1>6, <1>7, <1>8, <1>9 DEF RankedTo
<1> QED  BY <1>10 DEF t, b, left

LEMMA RankedFacts ==
  ASSUME NEW S, Scored(S)
  PROVE  /\ Ranked(S) \in Seq(S) /\ Range(Ranked(S)) = S
         /\ \A i, j \in 1..Len(Ranked(S)) : i < j => Ranked(S)[j].score < Ranked(S)[i].score
<1> DEFINE N == Cardinality(S)
           V == S \cup {BestOf({})}
<1>1. IsFiniteSet(S) /\ N \in Nat
  BY FS_CardinalityType DEF Scored
<1>2. ASSUME NEW r \in Seq(V) PROVE BestOf(S \ Range(r)) \in V
  <2> DEFINE left == S \ Range(r)
  <2>1. left \in SUBSET S
    OBVIOUS
  <2> HIDE DEF left
  <2>4. BestOf(left) \in V
    <3>1. CASE left = {}
      BY <3>1
    <3>2. CASE left # {}
      BY <2>1, <3>2, ScoredSubset, BestOfFacts
    <3> QED  BY <3>1, <3>2
  <2> QED  BY <2>4 DEF left
<1>3. PICK u \in [0..N -> Seq(V)] : Ranks(u, S, N)
  <2> HIDE DEF V
  <2> QED  BY <1>1, <1>2, RankedBySteps
<1>4. u[0] = <<>> /\ Ranked(S) = u[N] /\ \A n \in 1..N : u[n] = Append(u[n - 1], BestOf(S \ Range(u[n - 1])))
  BY <1>3 DEF Ranks
<1> HIDE DEF N
<1> DEFINE T == {n \in Nat : n <= N => RankedTo(u[n], S, n)}
<1>5. 0 \in T
  <2>1. <<>> \in Seq(S) /\ Len(<<>>) = 0 /\ Cardinality(Range(<<>>)) = 0
    BY RangeOfNone, FS_EmptySet
  <2>2. RankedTo(<<>>, S, 0)
    BY <2>1, RangeOfNone DEF RankedTo
  <2> QED  BY <1>4, <2>2
<1>6. ASSUME NEW n \in T PROVE n + 1 \in T
  <2> SUFFICES ASSUME n + 1 <= N PROVE RankedTo(u[n + 1], S, n + 1)
    OBVIOUS
  <2>1. n \in Nat /\ n + 1 \in 1..N /\ (n + 1) - 1 = n /\ RankedTo(u[n], S, n) /\ n < Cardinality(S)
    BY <1>1 DEF N
  <2>2. u[n + 1] = Append(u[n], BestOf(S \ Range(u[n])))
    BY <1>4, <2>1
  <2> HIDE DEF T
  <2> QED  BY <2>1, <2>2, RankingStep
<1>7. N \in T
  <2> HIDE DEF T
  <2>1. T \in SUBSET Nat
    BY DEF T
  <2> QED  BY <1>1, <1>5, <1>6, <2>1, CountingUp
<1>8. RankedTo(Ranked(S), S, N)
  BY <1>1, <1>4, <1>7
<1>9. Range(Ranked(S)) = S
  <2>1. Range(Ranked(S)) \subseteq S /\ Cardinality(Range(Ranked(S))) = N
    BY <1>8, RangeIs DEF RankedTo
  <2> QED  BY <1>1, <2>1, FS_Subset DEF N
<1> QED  BY <1>8, <1>9 DEF RankedTo

(* Keeping the first copy of each event.                                        *)
Keeps(u, S, r) ==
    /\ u[0] = {} /\ DistinctStories(S) = u[Len(r)]
    /\ \A n \in 1..Len(r) : u[n] = Keep(u[n - 1], r[n])

LEMMA KeepsBySteps ==
  ASSUME NEW S, NEW r \in Seq(S), r = Ranked(S)
  PROVE  \E u \in [0..Len(r) -> SUBSET S] : Keeps(u, S, r)
<1> DEFINE Vs == SUBSET S
           Xs == S
           D == 0..Len(r)
           start == {}
           Stp(a, x) == Keep(a, x)
           Body(n, u) == IF n = 0 THEN start ELSE Stp(u[n - 1], r[n])
           g == [a \in Vs |-> [x \in Xs |-> Stp(a, x)]]
           upto[n \in D] == Body(n, upto)
<1>1. ASSUME NEW a \in Vs, NEW x \in Xs PROVE Stp(a, x) \in Vs
  BY DEF Keep
<1>2. start \in Vs
  OBVIOUS
<1>3. DistinctStories(S) = upto[Len(r)]
  BY DEF DistinctStories, Folded
<1>4. Len(r) \in Nat /\ r \in Seq(Xs) /\ \A n \in 1..Len(r) : r[n] \in Xs
  OBVIOUS
<1> HIDE DEF Stp, Vs, Xs, start
<1>5. g \in [Vs -> [Xs -> Vs]] /\ \A a \in Vs, x \in Xs : g[a][x] = Stp(a, x)
  BY <1>1
<1>6. PICK v \in [D -> Vs] : Runs(v, g, start, r)
  <2> HIDE DEF g
  <2> QED  BY <1>2, <1>4, <1>5, LoopRuns
<1>7. 0 \in D /\ \A n \in D : n = 0 \/ n \in 1..Len(r)
  BY <1>4
<1>8. \A n \in 1..Len(r) : n \in D /\ n - 1 \in D /\ n # 0
  BY <1>4
<1>9. v = [n \in D |-> Body(n, v)]
  <2>1. v[0] = Body(0, v)
    BY <1>6 DEF Runs
  <2>2. ASSUME NEW n \in 1..Len(r) PROVE v[n] = Body(n, v)
    <3>1. v[n - 1] \in Vs /\ r[n] \in Xs /\ n # 0
      BY <1>4, <1>8
    <3> HIDE DEF g
    <3> QED  BY <1>5, <1>6, <3>1 DEF Runs
  <2> HIDE DEF Body
  <2> QED  BY <1>7, <2>1, <2>2
<1> HIDE DEF Body
<1>10. upto = [n \in D |-> Body(n, upto)]
  BY <1>9
<1> HIDE DEF upto
<1>11. \A n \in D : upto[n] = Body(n, upto)
  BY <1>10
<1>12. upto[0] = start
  BY <1>7, <1>11 DEF Body
<1>13. \A n \in 1..Len(r) : upto[n] = Stp(upto[n - 1], r[n])
  BY <1>8, <1>11 DEF Body
<1>14. \A n \in 0..Len(r) : upto[n] \in Vs
  <2>1. \A n \in 1..Len(r) : upto[n - 1] \in Vs => upto[n] \in Vs
    BY <1>1, <1>4, <1>13
  <2> QED  BY <1>2, <1>4, <1>12, <2>1, LoopKeeps
<1>15. upto \in [D -> Vs]
  <2>1. \A n \in D : Body(n, upto) \in Vs
    BY <1>11, <1>14
  <2> QED  BY <1>10, <2>1
<1> QED  BY <1>3, <1>12, <1>13, <1>15 DEF Keeps, Stp, Vs, start

(* Of the first n stories of a ranking: those kept are no copies of each other, *)
(* and the others are copies of a better one that is kept.                     *)
Distinct(kept, r, n) ==
    /\ \A x \in kept : \E k \in 1..n : x = r[k]
    /\ \A x, y \in kept : ~Duplicates(x, y)
    /\ \A k \in 1..n : r[k] \in kept \/ \E t \in kept : Duplicates(r[k], t) /\ t.score > r[k].score

LEMMA KeepStep ==
  ASSUME NEW S, Scored(S), NEW r \in Seq(S), \A i, j \in 1..Len(r) : i < j => r[j].score < r[i].score,
         NEW n \in Nat, n + 1 \in 1..Len(r), NEW kept, Distinct(kept, r, n)
  PROVE  Distinct(Keep(kept, r[n + 1]), r, n + 1)
<1> DEFINE s == r[n + 1]
           new == Keep(kept, s)
<1>1. /\ \A x \in kept : \E k \in 1..n : x = r[k]
      /\ \A x, y \in kept : ~Duplicates(x, y)
      /\ \A k \in 1..n : r[k] \in kept \/ \E t \in kept : Duplicates(r[k], t) /\ t.score > r[k].score
  BY DEF Distinct
<1>2. Len(r) \in Nat /\ \A k \in 1..n : k \in 1..Len(r) /\ k \in 1..(n + 1) /\ k < n + 1
  OBVIOUS
<1>3. \A k \in 1..(n + 1) : k \in 1..n \/ k = n + 1
  OBVIOUS
<1>4. \A i \in 1..Len(r) : r[i].score \in Nat
  BY DEF Scored
<1>5. \A x \in kept : x.score > s.score
  BY <1>1, <1>2, <1>4
<1>6. n + 1 \in 1..(n + 1)
  OBVIOUS
<1>7. CASE \E t \in kept : Duplicates(s, t)
  <2>1. new = kept
    BY <1>7 DEF Keep
  <2>2. \E t \in kept : Duplicates(s, t) /\ t.score > s.score
    BY <1>5, <1>7
  <2>3. \A x \in kept : \E k \in 1..(n + 1) : x = r[k]
    BY <1>1, <1>2
  <2>4. \A k \in 1..(n + 1) : r[k] \in kept \/ \E t \in kept : Duplicates(r[k], t) /\ t.score > r[k].score
    BY <1>1, <1>3, <2>2
  <2> HIDE DEF new
  <2> QED  BY <1>1, <2>1, <2>3, <2>4 DEF Distinct, new
<1>8. CASE ~ \E t \in kept : Duplicates(s, t)
  <2>1. new = kept \cup {s}
    BY <1>8 DEF Keep
  <2> HIDE DEF new
  <2>2. \A x \in new : \E k \in 1..(n + 1) : x = r[k]
    BY <1>1, <1>2, <1>6, <2>1
  <2>3. \A x, y \in new : ~Duplicates(x, y)
    BY <1>1, <1>8, <2>1 DEF Duplicates
  <2>4. \A k \in 1..(n + 1) : r[k] \in new \/ \E t \in new : Duplicates(r[k], t) /\ t.score > r[k].score
    <3> SUFFICES ASSUME NEW k \in 1..(n + 1)
                 PROVE  r[k] \in new \/ \E t \in new : Duplicates(r[k], t) /\ t.score > r[k].score
      OBVIOUS
    <3>1. CASE k \in 1..n
      BY <1>1, <2>1, <3>1
    <3>2. CASE k = n + 1
      BY <2>1, <3>2
    <3> QED  BY <1>3, <3>1, <3>2
  <2> QED  BY <2>2, <2>3, <2>4 DEF Distinct, new
<1> QED  BY <1>7, <1>8

(* What is kept of the stories of a day.                                       *)
LEMMA DistinctFacts ==
  ASSUME NEW S, Scored(S)
  PROVE  LET kept == DistinctStories(S) IN
         /\ kept \subseteq S /\ \A x, y \in kept : ~Duplicates(x, y)
         /\ \A x \in S : x \in kept \/ \E t \in kept : Duplicates(x, t) /\ t.score > x.score
<1> DEFINE r == Ranked(S)
           kept == DistinctStories(S)
<1>1. r \in Seq(S) /\ Range(r) = S /\ \A i, j \in 1..Len(r) : i < j => r[j].score < r[i].score
  BY RankedFacts
<1>2. r = Ranked(S)
  OBVIOUS
<1> HIDE DEF r
<1>3. PICK u \in [0..Len(r) -> SUBSET S] : Keeps(u, S, r)
  BY <1>1, <1>2, KeepsBySteps
<1>4. u[0] = {} /\ kept = u[Len(r)] /\ \A n \in 1..Len(r) : u[n] = Keep(u[n - 1], r[n])
  BY <1>3 DEF Keeps
<1>5. Len(r) \in Nat
  BY <1>1
<1> HIDE DEF kept
<1> DEFINE T == {n \in Nat : n <= Len(r) => Distinct(u[n], r, n)}
<1>6. 0 \in T
  <2>1. Distinct({}, r, 0)
    BY DEF Distinct
  <2> QED  BY <1>4, <2>1
<1>7. ASSUME NEW n \in T PROVE n + 1 \in T
  <2> SUFFICES ASSUME n + 1 <= Len(r) PROVE Distinct(u[n + 1], r, n + 1)
    OBVIOUS
  <2>1. n \in Nat /\ n + 1 \in 1..Len(r) /\ (n + 1) - 1 = n /\ Distinct(u[n], r, n)
    BY <1>5
  <2>2. u[n + 1] = Keep(u[n], r[n + 1])
    BY <1>4, <2>1
  <2> HIDE DEF T
  <2> QED  BY <1>1, <2>1, <2>2, KeepStep
<1>8. Len(r) \in T
  <2> HIDE DEF T
  <2>1. T \in SUBSET Nat
    BY DEF T
  <2> QED  BY <1>5, <1>6, <1>7, <2>1, CountingUp
<1>9. Distinct(kept, r, Len(r))
  BY <1>4, <1>5, <1>8
<1>10. kept \subseteq S
  <2>1. u[Len(r)] \in SUBSET S
    BY <1>5
  <2> QED  BY <1>4, <2>1
<1>11. \A x \in S : x \in kept \/ \E t \in kept : Duplicates(x, t) /\ t.score > x.score
  <2> SUFFICES ASSUME NEW x \in S PROVE x \in kept \/ \E t \in kept : Duplicates(x, t) /\ t.score > x.score
    OBVIOUS
  <2>1. PICK k \in 1..Len(r) : x = r[k]
    BY <1>1, RangeIs
  <2> QED  BY <1>9, <2>1 DEF Distinct
<1> QED  BY <1>9, <1>10, <1>11 DEF Distinct, kept

(* The leads are the best stories of the sections that have one.               *)
LEMMA LeadsFacts ==
  ASSUME NEW S, Scored(S)
  PROVE  /\ Leads(S) \subseteq S /\ \A x \in Leads(S) : \A y \in S : y.page = x.page => y.score <= x.score
         /\ \A x \in S : (\A y \in S : y.page = x.page => y.score <= x.score) => x \in Leads(S)
         /\ \A y \in S : \E x \in Leads(S) : x.page = y.page
<1>1. ASSUME NEW p, OfPage(S, p) # {}
      PROVE  /\ BestOf(OfPage(S, p)) \in S /\ BestOf(OfPage(S, p)).page = p
             /\ \A y \in S : y.page = p => y.score <= BestOf(OfPage(S, p)).score
             /\ Scored(OfPage(S, p))
  <2> DEFINE Q == OfPage(S, p)
  <2>1. Q \in SUBSET S /\ \A y : y \in Q <=> y \in S /\ y.page = p
    BY DEF OfPage
  <2> HIDE DEF Q
  <2>2. Q # {} /\ Scored(Q)
    BY <1>1, <2>1, ScoredSubset DEF Q
  <2>3. BestOf(Q) \in Q /\ \A y \in Q : y.score <= BestOf(Q).score
    BY <2>2, BestOfFacts
  <2> QED  BY <2>1, <2>2, <2>3 DEF Q
<1>2. \A x : x \in Leads(S) <=> \E p \in Pages : OfPage(S, p) # {} /\ x = BestOf(OfPage(S, p))
  BY DEF Leads
<1>3. \A y \in S : y.page \in Pages /\ y \in OfPage(S, y.page)
  BY DEF Scored, OfPage
<1>4. Leads(S) \subseteq S /\ \A x \in Leads(S) : \A y \in S : y.page = x.page => y.score <= x.score
  BY <1>1, <1>2
<1>5. ASSUME NEW x \in S, \A y \in S : y.page = x.page => y.score <= x.score PROVE x \in Leads(S)
  <2>1. x.page \in Pages /\ x \in OfPage(S, x.page)
    BY <1>3
  <2>2. Scored(OfPage(S, x.page))
    BY <1>1, <2>1
  <2>3. \A y \in OfPage(S, x.page) : y.score <= x.score
    BY <1>5 DEF OfPage
  <2>4. BestOf(OfPage(S, x.page)) = x
    BY <2>1, <2>2, <2>3, BestIs
  <2> QED  BY <1>2, <2>1, <2>4
<1>6. ASSUME NEW y \in S PROVE \E x \in Leads(S) : x.page = y.page
  <2>1. y.page \in Pages /\ OfPage(S, y.page) # {}
    BY <1>3
  <2>2. BestOf(OfPage(S, y.page)) \in Leads(S) /\ BestOf(OfPage(S, y.page)).page = y.page
    BY <1>1, <1>2, <2>1
  <2> QED  BY <2>2
<1> QED  BY <1>4, <1>5, <1>6

LEMMA LeadsOfLeads == ASSUME NEW S, Scored(S) PROVE Leads(Leads(S)) = Leads(S)
<1> DEFINE L == Leads(S)
<1>1. L \subseteq S /\ \A x \in L : \A y \in S : y.page = x.page => y.score <= x.score
  BY LeadsFacts
<1> HIDE DEF L
<1>2. Scored(L)
  BY <1>1, ScoredSubset
<1>3. Leads(L) \subseteq L /\ \A x \in L : (\A y \in L : y.page = x.page => y.score <= x.score) => x \in Leads(L)
  BY <1>2, LeadsFacts
<1>4. Leads(L) = L
  BY <1>1, <1>3
<1> QED  BY <1>4 DEF L

(* A sequence has no more items than its length.                               *)
LEMMA RangeCounted ==
  ASSUME NEW X, NEW s \in Seq(X)
  PROVE  IsFiniteSet(Range(s)) /\ Cardinality(Range(s)) <= Len(s) /\ Cardinality(Range(s)) \in Nat
<1> DEFINE D == 1..Len(s)
           f == [n \in D |-> s[n]]
<1>1. Len(s) \in Nat /\ IsFiniteSet(D) /\ Cardinality(D) = Len(s)
  <2>1. Len(s) \in Nat /\ 1 \in Int /\ Len(s) \in Int
    OBVIOUS
  <2> QED  BY <2>1, FS_Interval
<1>2. f \in Surjection(D, Range(s))
  <2>1. Range(s) = {s[n] : n \in D}
    BY RangeIs
  <2> HIDE DEF D
  <2> QED  BY <2>1 DEF Surjection
<1> HIDE DEF D, f
<1>3. IsFiniteSet(Range(s)) /\ Cardinality(Range(s)) <= Cardinality(D)
  BY <1>1, <1>2, FS_Surjection
<1> QED  BY <1>1, <1>3, FS_CardinalityType

(* The front page of any finite day's stories, of any sections and events, is  *)
(* as it promises.                                                             *)
THEOREM FrontPageIsSound == ASSUME NEW stories, Scored(stories) PROVE FrontPageSound(stories)
<1> DEFINE kept == DistinctStories(stories)
           leads == Leads(kept)
           free == IF Cardinality(leads) < FRONT_PAGE_MAX_STORIES
                   THEN FRONT_PAGE_MAX_STORIES - Cardinality(leads) ELSE 0
           rest == {s \in kept \ leads : s.score >= FRONT_PAGE_SECONDARY_THRESHOLD}
           more == AtMost(free, Ranked(rest))
           front == FrontStories(stories)
<1>1. /\ kept \subseteq stories /\ \A x, y \in kept : ~Duplicates(x, y)
      /\ \A x \in stories : x \in kept \/ \E t \in kept : Duplicates(x, t) /\ t.score > x.score
  BY DistinctFacts
<1>2. front = leads \cup Range(more)
  BY DEF FrontStories
<1>3. kept = DistinctStories(stories)
  OBVIOUS
<1> HIDE DEF kept
<1>4. Scored(kept) /\ IsFiniteSet(kept)
  BY <1>1, ScoredSubset DEF Scored
<1>5. /\ leads \subseteq kept
      /\ \A x \in kept : (\A y \in kept : y.page = x.page => y.score <= x.score) => x \in leads
      /\ \A y \in kept : \E x \in leads : x.page = y.page
  BY <1>4, LeadsFacts
<1>6. leads = Leads(kept) /\ Leads(leads) = leads
  BY <1>4, LeadsOfLeads
<1> HIDE DEF leads
<1>7. IsFiniteSet(leads) /\ Cardinality(leads) \in Nat
  BY <1>4, <1>5, FS_Subset, FS_CardinalityType
<1>8. free \in Nat /\ FRONT_PAGE_MAX_STORIES \in Nat
  BY <1>7, FrontPageAssumption
<1>9. Scored(rest) /\ rest \subseteq kept
  <2>1. rest \in SUBSET kept
    OBVIOUS
  <2> HIDE DEF rest
  <2> QED  BY <1>4, <2>1, ScoredSubset
<1> HIDE DEF rest
<1>10. more \in Seq(rest) /\ Len(more) <= free /\ Range(more) \subseteq rest
  <2> HIDE DEF free
  <2>1. Ranked(rest) \in Seq(rest) /\ Range(Ranked(rest)) = rest
    BY <1>9, RankedFacts
  <2> DEFINE q == Ranked(rest)
  <2> HIDE DEF q
  <2>2. q \in Seq(rest) /\ Range(q) = rest /\ more = AtMost(free, q)
    BY <2>1 DEF q
  <2> QED  BY <1>8, <2>2, AtMostFacts
<1> HIDE DEF more, front
<1>11. front \subseteq kept /\ leads \subseteq front
  BY <1>2, <1>5, <1>9, <1>10
<1>12. \A s, t \in front : s # t => ~Duplicates(s, t)
  BY <1>1, <1>11
<1>13. ASSUME stories # {} PROVE BestOf(front) = BestOf(stories)
  <2> DEFINE b == BestOf(stories)
  <2>1. b \in stories /\ \A t \in stories : t.score <= b.score
    BY <1>13, BestOfFacts
  <2> HIDE DEF b
  <2>2. \A s \in stories : s.score \in Nat
    BY DEF Scored
  <2>3. b \in kept
    BY <1>1, <2>1, <2>2
  <2>4. b \in leads
    BY <1>1, <1>5, <2>1, <2>3
  <2>5. Scored(front) /\ b \in front /\ \A t \in front : t.score <= b.score
    BY <1>1, <1>4, <1>11, <2>1, <2>4, ScoredSubset
  <2>6. BestOf(front) = b
    BY <2>5, BestIs
  <2> QED  BY <2>6 DEF b
<1>14. \A y \in kept : OfPage(front, y.page) # {}
  BY <1>5, <1>11 DEF OfPage
<1>15. ASSUME NEW s \in stories, OfPage(front, s.page) = {}
       PROVE  \E t \in kept : t.score > s.score /\ Duplicates(s, t) /\ OfPage(front, t.page) # {}
  BY <1>1, <1>14, <1>15
<1>16. \/ Cardinality(front) <= FRONT_PAGE_MAX_STORIES
       \/ Cardinality(front) = Cardinality(Leads(front))
  <2>1. IsFiniteSet(Range(more)) /\ Cardinality(Range(more)) <= Len(more) /\ Cardinality(Range(more)) \in Nat
        /\ Len(more) \in Nat
    BY <1>10, RangeCounted
  <2>2. CASE Cardinality(leads) < FRONT_PAGE_MAX_STORIES
    <3>1. Cardinality(front) = Cardinality(leads) + Cardinality(Range(more)) - Cardinality(leads \cap Range(more))
      BY <1>2, <1>7, <2>1, FS_Union
    <3>2. Cardinality(leads \cap Range(more)) \in Nat
      <4>1. leads \cap Range(more) \in SUBSET leads
        OBVIOUS
      <4> QED  BY <1>7, <4>1, FS_Subset, FS_CardinalityType
    <3>3. free = FRONT_PAGE_MAX_STORIES - Cardinality(leads)
      BY <2>2
    <3> HIDE DEF free
    <3> QED  BY <1>7, <1>8, <1>10, <2>1, <3>1, <3>2, <3>3
  <2>3. CASE ~(Cardinality(leads) < FRONT_PAGE_MAX_STORIES)
    <3>1. Len(more) = 0
      BY <1>10, <2>1, <2>3
    <3>2. Range(more) = {}
      <4>1. Cardinality(Range(more)) = 0
        BY <2>1, <3>1
      <4> QED  BY <2>1, <4>1, FS_EmptySet
    <3>3. front = leads
      BY <1>2, <3>2
    <3> QED  BY <1>6, <3>3
  <2> QED  BY <2>2, <2>3
<1> QED  BY <1>3, <1>12, <1>13, <1>15, <1>16 DEF FrontPageSound, front

(* A day of k stories has finitely many of them, each with a score of its own. *)
LEMMA DaysScored == \A d \in Days : Scored(d)
<1> DEFINE Rec(f, n) == [page |-> f[n][1], event |-> f[n][2], score |-> n]
           Day(f, k) == {Rec(f, n) : n \in 1..k}
<1>1. ASSUME NEW k \in 0..4, NEW f \in [1..k -> Pages \X {"e", "f", "g"}] PROVE Scored(Day(f, k))
  <2> DEFINE S == Day(f, k)
             D == 1..k
             h == [n \in D |-> Rec(f, n)]
  <2>1. IsFiniteSet(D)
    BY FS_Interval
  <2>2. \A n \in D : f[n] \in Pages \X {"e", "f", "g"}
    OBVIOUS
  <2>3. \A n \in D : Rec(f, n).score = n /\ Rec(f, n).page \in Pages /\ n \in Nat
    BY <2>2
  <2> HIDE DEF Rec
  <2>4. h \in Surjection(D, S)
    BY DEF Surjection
  <2>5. \A s \in S : \E n \in D : s = Rec(f, n)
    OBVIOUS
  <2> HIDE DEF D, S, h
  <2>6. IsFiniteSet(S)
    BY <2>1, <2>4, FS_Surjection
  <2>7. \A s \in S : s.page \in Pages /\ s.score \in Nat
    BY <2>3, <2>5
  <2>8. \A s, t \in S : s.score = t.score => s = t
    BY <2>3, <2>5
  <2>9. Scored(S)
    BY <2>6, <2>7, <2>8 DEF Scored
  <2> QED  BY <2>9 DEF S
<1>2. ASSUME NEW d \in Days PROVE \E k \in 0..4 : \E f \in [1..k -> Pages \X {"e", "f", "g"}] : d = Day(f, k)
  BY DEF Days
<1> HIDE DEF Day
<1> QED  BY <1>1, <1>2

LEMMA NoStoriesScored == Scored({})
  BY FS_EmptySet DEF Scored

-----------------------------------------------------------------------------
(* The selection and the front page together.                                  *)

SelectionInv == CurationInv /\ Scored(day)

LEMMA SelectionInitially == PublishingInit => SelectionInv
<1> SUFFICES ASSUME PublishingInit PROVE SelectionInv
  OBVIOUS
<1>1. day \in Days \/ day = {}
  <2>1. CASE machine = "front page"
    BY <2>1 DEF PublishingInit
  <2>2. CASE machine # "front page"
    BY <2>2 DEF PublishingInit
  <2> QED  BY <2>1, <2>2
<1>2. Scored(day)
  BY <1>1, DaysScored, NoStoriesScored
<1> QED  BY <1>2, CurationInitially DEF PublishingInit, SelectionInv

LEMMA SelectionStep == ASSUME SelectionInv, [PublishingNext]_mcVars PROVE SelectionInv'
<1>1. [CurationNext]_curationVars /\ day' = day
  BY DEF PublishingNext, mcVars
<1> QED  BY <1>1, CurationInvariance DEF SelectionInv, Scored

(* The steps of curation in editorial.py, research.py and workflow.py, and the *)
(* front page of news_publish.py: for any catalog of articles and any caps, a   *)
(* story that is selected tells what was approved, was opened, is dated within  *)
(* the day and repeats none; no section and no outlet exceeds its cap; what was *)
(* approved is accounted for, no URL is opened twice, no section is emptied     *)
(* without a record, and the front page is as it promises.                     *)
THEOREM SelectionStays == PublishingSpec => []SelectionSound
<1>1. SelectionInv => SelectionSound
  BY CurationPromises, FrontPageIsSound DEF SelectionInv, SelectionSound
<1> QED  BY <1>1, SelectionInitially, SelectionStep, PTL DEF PublishingSpec
=============================================================================
