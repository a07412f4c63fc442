------------------------------ MODULE Attention ------------------------------
(***************************************************************************)
(* How an edition measures attention: the snapshot of the inventories that *)
(* the topics of one date share (scripts/daily_news/attention_sources.py), *)
(* the Jev client with its circuit breaker (scripts/jev.py), the workers   *)
(* that adjudicate the documents of each story (attention_match.py) and    *)
(* the status that each story gets (attention.py, phase_2b_attention).     *)
(***************************************************************************)
EXTENDS Naturals, FiniteSets

CONSTANTS
    Source,         \* inventories; every one counts for the section
    Story, Worker,  \* fresh findings; the threads that ask Jev
    Batches,        \* how many batches of documents a story has, at most
    Breaker, MAX_ATTEMPTS, MAX_SOURCE_ATTEMPTS,
    MaxVisits       \* bound: topics that load the snapshot

ASSUME AttentionAssumption ==
    {Batches, Breaker, MAX_ATTEMPTS, MAX_SOURCE_ATTEMPTS, MaxVisits} \subseteq Nat \ {0}

VARIABLES
    snap,           \* per source [status, attempts] on disk, or Nothing
    loaded,         \* what this topic loaded
    visits,
    attStep,
    asker,          \* per worker: the ask in its hands
    todo, failedAsk, \* asks not taken yet; stories with a failed ask
    answered,       \* the asks that were answered
    consecutive, tripped, \* failed asks in a row; the breaker was seen open
    inFlight,       \* asks in flight when the breaker opened
    sent,           \* asks that sent a request after the breaker opened
    verdicts, attOutcome

attVars == <<snap, loaded, visits, attStep, asker, todo, failedAsk, answered, consecutive, tripped,
             inFlight, sent, verdicts, attOutcome>>

Nothing == [s \in {} |-> 0]
RETRY == {"unavailable", "partial"}
StatusRank(s) == CASE s = "ok" -> 2 [] s = "partial" -> 1 [] OTHER -> 0
Ask == Story \X (1..Batches)
Idle == [pc |-> "idle", ask |-> <<>>, tries |-> 0]
JevState == <<asker, todo, failedAsk, answered, consecutive, tripped, inFlight, sent>>

AttInit ==
    /\ snap = Nothing /\ loaded = Nothing /\ visits = 0 /\ attStep = "load"
    /\ asker = [w \in Worker |-> Idle] /\ todo = {} /\ failedAsk = {} /\ answered = {}
    /\ consecutive = 0 /\ tripped = FALSE /\ inFlight = {} /\ sent = {}
    /\ verdicts = [s \in Story |-> "none"] /\ attOutcome = ""

-----------------------------------------------------------------------------
(* The snapshot, under its lock                                              *)

Collected(c) == [s \in Source |-> [status |-> c[s], attempts |-> 1]]
PendingIn(old) == {s \in DOMAIN old : old[s].status \in RETRY /\ old[s].attempts < MAX_SOURCE_ATTEMPTS}

(* Mutant: what the second collection says replaces the first.                *)
RetriedBlindly(old, c) ==
    [s \in DOMAIN old |-> IF s \in PendingIn(old)
                          THEN [status |-> c[s], attempts |-> old[s].attempts + 1] ELSE old[s]]

(* _retry_incomplete: a source changes only if its retry is better.           *)
Retried(old, c) ==
    [s \in DOMAIN old |->
        IF s \notin PendingIn(old) THEN old[s]
        ELSE [status |-> IF StatusRank(c[s]) > StatusRank(old[s].status) THEN c[s] ELSE old[s].status,
              attempts |-> old[s].attempts + 1]]

(* The first topic collects, and retries at once; a later one retries while   *)
(* the window is new.  The file is replaced, or left if the write fails; a    *)
(* topic that cannot write has no snapshot at all.                            *)
LoadSnapshot(first, second, recent, writes) ==
    LET built == Retried(Collected(first), second)
        again == IF recent THEN Retried(snap, second) ELSE snap
        next == IF snap = Nothing THEN built ELSE again
    IN  /\ attStep = "load" /\ visits < MaxVisits
        /\ visits' = visits + 1
        /\ snap' = IF writes THEN next ELSE snap
        /\ loaded' = IF writes \/ next = snap THEN next ELSE Nothing
        /\ attStep' = "adjudicate"
        /\ todo' = Ask
        /\ asker' = [w \in Worker |-> Idle] /\ failedAsk' = {} /\ answered' = {}
        /\ consecutive' = 0 /\ tripped' = FALSE /\ inFlight' = {} /\ sent' = {}
        /\ verdicts' = [s \in Story |-> "none"] /\ attOutcome' = ""

-----------------------------------------------------------------------------
(* JevClient.ask by one worker: the breaker is read first, the request is     *)
(* sent without the lock, and the outcome is counted last.                    *)

(* Mutant: nobody looks at the breaker.                                       *)
NeverOpen == FALSE

Open == consecutive >= Breaker

TakeAsk(w, a) ==
    /\ attStep = "adjudicate" /\ asker[w].pc = "idle" /\ a \in todo
    /\ todo' = todo \ {a}
    /\ IF Open
       THEN failedAsk' = failedAsk \cup {a[1]} /\ UNCHANGED asker
       ELSE asker' = [asker EXCEPT ![w] = [pc |-> "sending", ask |-> a, tries |-> 0]]
            /\ UNCHANGED failedAsk
    /\ UNCHANGED <<snap, loaded, visits, attStep, answered, consecutive, tripped, inFlight, sent, verdicts, attOutcome>>

(* Mutant: only the ask itself is lost, not the story's score.                *)
FailsQuietly(w) ==
    /\ consecutive' = consecutive + 1
    /\ tripped' = (consecutive' >= Breaker)
    /\ inFlight' = IF tripped' /\ ~tripped
                   THEN {asker[v].ask : v \in {v \in Worker \ {w} : asker[v].pc # "idle"}}
                   ELSE inFlight
    /\ asker' = [asker EXCEPT ![w] = Idle]
    /\ UNCHANGED failedAsk

Fails(w) ==
    /\ consecutive' = consecutive + 1
    /\ failedAsk' = failedAsk \cup {asker[w].ask[1]}
    /\ tripped' = (consecutive' >= Breaker)
    /\ inFlight' = IF tripped' /\ ~tripped
                   THEN {asker[v].ask : v \in {v \in Worker \ {w} : asker[v].pc # "idle"}}
                   ELSE inFlight
    /\ asker' = [asker EXCEPT ![w] = Idle]

(* A request is answered, fails in a way that may pass, or fails for good (a  *)
(* refusal, another model, or a retry that would cross the deadline).         *)
Send(w, result) ==
    LET tries == asker[w].tries + 1 IN
    /\ asker[w].pc = "sending"
    /\ answered' = IF result = "answered" THEN answered \cup {asker[w].ask} ELSE answered
    /\ sent' = IF tripped /\ result # "answered" THEN sent \cup {asker[w].ask} ELSE {}
    /\ CASE result = "answered" ->
              /\ consecutive' = 0 /\ tripped' = FALSE /\ asker' = [asker EXCEPT ![w] = Idle]
              /\ UNCHANGED <<failedAsk, inFlight>>
         [] result = "transient" /\ tries < MAX_ATTEMPTS ->
              /\ asker' = [asker EXCEPT ![w].tries = tries]
              /\ UNCHANGED <<consecutive, failedAsk, tripped, inFlight>>
         [] OTHER -> Fails(w)
    /\ UNCHANGED <<snap, loaded, visits, attStep, todo, verdicts, attOutcome>>

-----------------------------------------------------------------------------
(* The score of each story                                                   *)

Measured == {s \in DOMAIN loaded : loaded[s].status = "ok"}

(* measured_attention and neutral_attention; seen: the stories that some      *)
(* measured source mentions.                                                  *)
Score(seen) ==
    LET verdict(s) == IF s \in failedAsk \/ Measured = {} THEN "unavailable"
                      ELSE IF s \in seen THEN "ok" ELSE "no_matches"
    IN  /\ attStep = "adjudicate" /\ todo = {} /\ \A w \in Worker : asker[w].pc = "idle"
        /\ verdicts' = [s \in Story |-> verdict(s)]
        /\ attOutcome' = IF failedAsk # {} \/ (\E s \in Story : verdict(s) = "unavailable")
                         THEN "degraded" ELSE "succeeded"
        /\ attStep' = "load"
        /\ UNCHANGED <<snap, loaded, visits, JevState>>

AttNext ==
    \/ \E first, second \in [Source -> {"ok", "partial", "unavailable"}], recent, writes \in BOOLEAN :
            LoadSnapshot(first, second, recent, writes)
    \/ \E w \in Worker : \/ \E a \in todo : TakeAsk(w, a)
                         \/ \E result \in {"answered", "transient", "refused"} : Send(w, result)
    \/ \E seen \in SUBSET Story : Score(seen)

AttSpec == AttInit /\ [][AttNext]_attVars

-----------------------------------------------------------------------------
(* Properties                                                                *)

(* The type invariant.                                                        *)
AttTypeOK ==
    /\ snap \in {Nothing} \cup [Source -> [status : {"ok", "partial", "unavailable"},
                                         attempts : 1..MAX_SOURCE_ATTEMPTS]]
    /\ attStep \in {"load", "adjudicate"}
    /\ asker \in [Worker -> [pc : {"idle", "sending"}, ask : Ask \cup {<<>>}, tries : Nat]]
    /\ \A w \in Worker : asker[w].pc = "sending" => asker[w].ask \in Ask
    /\ todo \subseteq Ask /\ failedAsk \subseteq Story /\ visits \in 0..MaxVisits
    /\ consecutive \in Nat /\ tripped \in BOOLEAN /\ (tripped <=> Open)

(* Unlike a story that nobody mentions, one whose documents were not all      *)
(* judged has no attention score, and the phase says that it is degraded.     *)
NeverGuessed ==
    attOutcome # "" =>
        \A s \in Story : IF verdicts[s] = "unavailable" THEN attOutcome = "degraded"
                         ELSE {s} \X (1..Batches) \subseteq answered

(* Until the stories are scored each ask is waiting, in the hands of a worker,  *)
(* answered, or counted against its story.                                      *)
AsksAccounted ==
    attStep = "adjudicate" =>
        /\ attOutcome = ""
        /\ \A a \in Ask : \/ a \in todo \cup answered \/ a[1] \in failedAsk
                         \/ \E w \in Worker : asker[w].pc = "sending" /\ asker[w].ask = a

(* After so many failures in a row nothing more is sent than the workers had  *)
(* already in hand, until one of those is answered.                           *)
BreakerHolds == tripped => sent \subseteq inFlight

(* While it is open, what workers have in hand was in flight when it opened.  *)
HandsInFlight == tripped => \A w \in Worker : asker[w].pc # "idle" => asker[w].ask \in inFlight

(* A source of the stored snapshot never gets worse, and is asked for a       *)
(* bounded number of times.                                                   *)
SnapshotImproves ==
    [][\A s \in DOMAIN snap :
            /\ StatusRank(snap'[s].status) >= StatusRank(snap[s].status)
            /\ snap'[s].attempts <= MAX_SOURCE_ATTEMPTS]_attVars
=============================================================================
