------------------------ MODULE SecurityWatchNotify ------------------------
(***************************************************************************)
(* The urgent mail at the end of a security-watch tick                     *)
(* (scripts/security_watch/notify.py) and the stopgap rows of the report   *)
(* (report.py).  Findings become urgent and stop being so between ticks;   *)
(* signals and failed actions are items of the one tick that met them.     *)
(***************************************************************************)
EXTENDS Integers, FiniteSets

CONSTANTS
    Alert, Curated,     \* findings; those with a KEV or Zero Wire entry
    Momentary, Failure, \* items of one tick: signals, and failed actions
    URGENT_MAX, MAX_RENDERED,
    MaxUnlucky          \* bound: ticks that die, mails refused, breaker resets

ASSUME NotifyAssumption ==
    /\ {URGENT_MAX, MAX_RENDERED} \subseteq Nat \ {0} /\ MaxUnlucky \in Nat /\ Curated \subseteq Alert
    /\ IsFiniteSet(Alert \cup Momentary \cup Failure)

VARIABLES
    urgent,         \* findings that are open and urgent in the store
    tripOpen,       \* the breaker
    gone,           \* a covered finding was fixed
    confirmed,      \* the last scan of the stopgap's component was complete
    mailsToday, notified,
    mailStep, events, rendered, \* the tick: its items, what its mail renders
    mailed, repeats, unlucky

notifyVars == <<urgent, tripOpen, gone, confirmed, mailsToday, notified, mailStep, events, rendered,
                mailed, repeats, unlucky>>
condition == <<urgent, tripOpen, gone, confirmed>>

Breaker == "breaker"
Stopgap == "stopgap"
NotifyItem == Alert \cup Momentary \cup Failure \cup {Breaker, Stopgap}

NotifyInit ==
    /\ urgent = {} /\ tripOpen = FALSE /\ gone = FALSE /\ confirmed = FALSE
    /\ mailsToday = 0 /\ notified = {} /\ mailStep = "idle" /\ events = {} /\ rendered = {}
    /\ mailed = {} /\ repeats = 0 /\ unlucky = 0

(* The tick's earlier phases: findings come, go and change their rank, the    *)
(* sources and the actions give it items of its own.                          *)
TickWorks ==
    /\ mailStep = "idle" /\ mailStep' = "notify"
    /\ \E u \in SUBSET Alert, e \in SUBSET (Momentary \cup Failure) :
         /\ urgent' = u /\ events' = e
         /\ gone' \in {gone, gone \/ urgent \ u # {}}
         /\ tripOpen' \in (IF e \cap Failure # {} THEN {TRUE} ELSE {tripOpen})
    /\ confirmed' \in BOOLEAN
    /\ UNCHANGED <<mailsToday, notified, rendered, mailed, repeats, unlucky>>

(* The operator's reset; a later trip is a new item, by its time.             *)
ResetTrip ==
    /\ mailStep = "idle" /\ tripOpen /\ unlucky < MaxUnlucky /\ unlucky' = unlucky + 1
    /\ tripOpen' = FALSE /\ notified' = notified \ {Breaker} /\ mailed' = mailed \ {Breaker}
    /\ UNCHANGED <<urgent, gone, confirmed, mailsToday, mailStep, events, rendered, repeats>>

MailDayPasses ==
    /\ mailsToday > 0 /\ mailsToday' = 0
    /\ UNCHANGED <<condition, notified, mailStep, events, rendered, mailed, repeats, unlucky>>

(* The one stopgap covers every finding: it can go when a covered finding was *)
(* seen, all are fixed and the last scan of the component was complete.       *)
StopgapStatus ==
    IF urgent # {} THEN "active"
    ELSE IF gone /\ confirmed THEN "removable" ELSE "unverified"

UrgentItems ==
    urgent \cup events \cup (IF tripOpen THEN {Breaker} ELSE {})
    \cup (IF StopgapStatus = "removable" THEN {Stopgap} ELSE {})
Rank(i) == IF i \in Failure \cup {Breaker, Stopgap} THEN 0 ELSE IF i \in Curated THEN 1
           ELSE IF i \in Momentary THEN 2 ELSE 3
Fresh == UrgentItems \ notified
ToSend == mailStep = "notify" /\ Fresh # {} /\ mailsToday < URGENT_MAX

(* The most severe MAX_RENDERED of them.                                      *)
Chosen(r, fresh) ==
    /\ r \subseteq fresh
    /\ Cardinality(r) = IF Cardinality(fresh) < MAX_RENDERED THEN Cardinality(fresh) ELSE MAX_RENDERED
    /\ \A i \in r, j \in fresh \ r : Rank(i) <= Rank(j)

Quiet ==
    /\ mailStep = "notify" /\ ~ToSend /\ mailStep' = "report"
    /\ UNCHANGED <<condition, mailsToday, notified, events, rendered, mailed, repeats, unlucky>>

SendUrgent ==
    /\ ToSend /\ mailStep' = "sent"
    /\ \E r \in SUBSET Fresh :
         /\ Chosen(r, Fresh) /\ rendered' = r
         /\ mailed' = mailed \cup r /\ repeats' = repeats + Cardinality(r \cap mailed)
    /\ UNCHANGED <<condition, mailsToday, notified, events, unlucky>>

(* The mail server refuses: the phase fails and nothing is recorded.          *)
SendFails ==
    /\ ToSend /\ unlucky < MaxUnlucky /\ unlucky' = unlucky + 1 /\ mailStep' = "report"
    /\ UNCHANGED <<condition, mailsToday, notified, events, rendered, mailed, repeats>>

(* Mutant: what the mail only counted is recorded as notified too.            *)
NotedAll == notified \cup Fresh
(* Mutant: the mail is logged but its items are not.                          *)
NotedNone == notified
Noted == notified \cup rendered

Record ==
    /\ mailStep = "sent" /\ mailStep' = "report"
    /\ mailsToday' = mailsToday + 1 /\ notified' = Noted
    /\ UNCHANGED <<condition, events, rendered, mailed, repeats, unlucky>>

Report ==
    /\ mailStep = "report" /\ mailStep' = "idle" /\ events' = {} /\ rendered' = {}
    /\ UNCHANGED <<condition, mailsToday, notified, mailed, repeats, unlucky>>

NotifyDies ==
    /\ mailStep # "idle" /\ unlucky < MaxUnlucky /\ unlucky' = unlucky + 1
    /\ mailStep' = "idle" /\ events' = {} /\ rendered' = {}
    /\ UNCHANGED <<condition, mailsToday, notified, mailed, repeats>>

NotifyStep == TickWorks \/ Quiet \/ SendUrgent \/ Record \/ Report
NotifyNext == NotifyStep \/ SendFails \/ NotifyDies \/ ResetTrip \/ MailDayPasses
NotifySpec == NotifyInit /\ [][NotifyNext]_notifyVars

(* Ticks go on, and days pass.                                                *)
NotifyFairness == WF_notifyVars(NotifyStep) /\ WF_notifyVars(MailDayPasses)

-----------------------------------------------------------------------------
(* Properties                                                                *)

(* The type invariant of the notifications.                                   *)
NotifyTypeOK ==
    /\ mailStep \in {"idle", "notify", "sent", "report"}
    /\ urgent \subseteq Alert /\ events \subseteq Momentary \cup Failure /\ {tripOpen, gone, confirmed} \subseteq BOOLEAN
    /\ notified \cup mailed \cup rendered \subseteq NotifyItem
    /\ mailsToday \in 0..URGENT_MAX /\ unlucky \in 0..MaxUnlucky /\ repeats \in Nat

(* What is mailed again, or may be because nothing records that it was       *)
(* mailed, is what one mail renders for each tick that had bad luck.          *)
Unrecorded == mailed \ (notified \cup (IF mailStep = "sent" THEN rendered ELSE {}))
MailsCounted ==
    /\ mailStep = "sent" => rendered \subseteq mailed /\ Cardinality(rendered) <= MAX_RENDERED /\ mailsToday < URGENT_MAX
    /\ repeats + Cardinality(Unrecorded) <= unlucky * MAX_RENDERED

(* An item recorded as notified was in a mail, and an item is mailed again    *)
(* only when a tick died between a mail and its record (notify.py:284).       *)
MailedOnce ==
    /\ notified \subseteq mailed
    /\ repeats <= unlucky * MAX_RENDERED

(* A finding that stays urgent reaches the operator: the cap, a refused mail, *)
(* a dead tick and more severe items (finitely many here) only delay it.        *)
UrgentIsMailed == \A f \in Alert : f \in urgent ~> (f \in mailed \/ f \notin urgent)
=============================================================================
