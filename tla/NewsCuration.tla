----------------------------- MODULE NewsCuration -----------------------------
(***************************************************************************)
(* One topic's edition, from discovery to the curated section: research    *)
(* with its model fallback (scripts/daily_news/workflow.py), the research  *)
(* judge, ranking with paywall swaps, fetching with substitutions, date    *)
(* validation (research.py), and the proposal, validation and critic of    *)
(* editorial.py.  Model answers and fetches are chosen nondeterministically.*)
(*                                                                         *)
(* An article is a number: the lower, the higher its priority.  Catalog    *)
(* gives its URL, the event it reports, its outlet, the kind of its URL,   *)
(* the date that a search says and the date on its page.  Two articles are *)
(* one story when they report one event: the wording tests                 *)
(* (_same_story_overlap, _same_event) are taken to agree with that.        *)
(***************************************************************************)
EXTENDS Naturals, Sequences, FiniteSets, SequencesExt, Folding

CONSTANTS
    Catalog,        \* sequence of [url, event, outlet, kind, says, page]
    Covered,        \* articles whose URL any section covered on the previous days
    Retold,         \* articles whose wording repeats a story of the previous days
    Elsewhere,      \* articles that another topic selected today
    Searches,       \* the sets of articles that a search may find
    MaxSlips,       \* how many findings a judge's answer misnames or names again
    FRESH_CAP, SECTION_CAP, OUTLET_CAP, FETCH_ALTERNATE_LIMIT

Dates == {"today", "old", "soon", "none"}

ASSUME CurationAssumption ==
    /\ {FRESH_CAP, SECTION_CAP, OUTLET_CAP, FETCH_ALTERNATE_LIMIT} \subseteq Nat \ {0}
    /\ MaxSlips \in Nat
    /\ Searches \subseteq SUBSET (1..Len(Catalog))
    /\ Catalog \in Seq([url : Nat, event : STRING, outlet : STRING, says : Dates, page : Dates,
                        kind : {"article", "listing", "cdn", "paywall"}])

Article == 1..Len(Catalog)
Url(a) == Catalog[a].url
Event(a) == Catalog[a].event
Outlet(a) == Catalog[a].outlet
UrlKind(a) == Catalog[a].kind       \* "article", "listing", "cdn" or "paywall"
Says(a) == Catalog[a].says          \* "today", "old", "soon" or "none"
Page(a) == Catalog[a].page
SameStory(a, b) == Event(a) = Event(b)
Urls(S) == {Url(a) : a \in S}
Ordered(S) == OnlyIn([a \in Article |-> a], S)

VARIABLES
    curStep, model,
    turn,           \* 1, then 2 when an empty section made the topic start again
    again,          \* research was repeated in this turn
    raw,            \* 01-research-raw.json
    approved,       \* what the judge approved
    fresh, rejected, \* 02-research-judged.json
    queue,          \* 03-urls-ranked.json: [of, at, unverified, alternates]
    results,        \* 04, 05: [at, got, date, verdict] per item of the queue
    wave, pending, tried, \* the substitution pass; how many alternates an item used up
    fetches,        \* the articles that were opened, in order
    tries, hinted,  \* attempts at the proposal or the review so far
    criticRejected,
    section, proposalStatus, reviewStatus

curationVars == <<curStep, model, turn, again, raw, approved, fresh, rejected, queue, results,
                  wave, pending, tried, fetches, tries, hinted, criticRejected, section,
                  proposalStatus, reviewStatus>>

Editing == <<tries, hinted, criticRejected, section, proposalStatus, reviewStatus>>
Fetching == <<results, wave, pending, tried, fetches>>
Finding == <<raw, approved, fresh, rejected, queue>>

CurationInit ==
    /\ curStep = "research" /\ model = "primary" /\ turn = 1 /\ again = FALSE
    /\ raw = {} /\ approved = {} /\ fresh = <<>> /\ rejected = {} /\ queue = <<>>
    /\ results = <<>> /\ wave = 0 /\ pending = {} /\ tried = <<>> /\ fetches = <<>>
    /\ tries = 0 /\ hinted = FALSE /\ criticRejected = FALSE
    /\ section = <<>> /\ proposalStatus = "" /\ reviewStatus = ""

-----------------------------------------------------------------------------
(* Phases 1 and 2                                                            *)

Other(m) == IF m = "primary" THEN "fallback" ELSE "primary"

(* An empty answer is asked once more of the other research model.            *)
Research(found) ==
    /\ curStep = "research"
    /\ raw' = found
    /\ IF found = {} /\ ~again
       THEN again' = TRUE /\ model' = Other(model) /\ UNCHANGED curStep
       ELSE curStep' = "judge" /\ UNCHANGED <<again, model>>
    /\ UNCHANGED <<turn, approved, fresh, rejected, queue, Fetching, Editing>>

InLedger(a) == Url(a) \in Urls(Covered)
Forwarded == {a \in raw : ~InLedger(a) /\ Says(a) # "old"}
Unverified(a) == Says(a) = "none"

(* Which finding an approval names: by its id, by a URL that no other finding *)
(* has, or none, when the judge altered what it copied.                       *)
Resolves(a, naming) ==
    \/ naming = "id"
    \/ naming = "url" /\ \A b \in Forwarded : Url(b) = Url(a) => b = a

(* Of a URL the first approval in the answer's order is kept, whichever that  *)
(* is.  `also' are the findings that the answer names once more: approved a   *)
(* second time, a duplicate of themselves, or in the judge's own rejections.  *)
Judge(answer, naming, kept, also) ==
    LET resolved == {a \in answer : Resolves(a, naming[a])}
    IN  /\ curStep = "judge" /\ answer \subseteq Forwarded /\ also \subseteq Forwarded
        /\ kept \subseteq resolved /\ Urls(kept) = Urls(resolved)
        /\ \A a, b \in kept : Url(a) = Url(b) => a = b
        /\ approved' = answer
        /\ fresh' = Ordered(kept)
        /\ rejected' = {a \in raw : InLedger(a)} \cup (answer \ kept) \cup also
        /\ curStep' = "rank"
        /\ UNCHANGED <<model, turn, again, raw, queue, Fetching, Editing>>

-----------------------------------------------------------------------------
(* Phase 3                                                                   *)

Repeats(a) == InLedger(a) \/ a \in Retold
Blocked == Urls(Elsewhere \cup Covered)
Fetchable(a) == UrlKind(a) = "article"
FirstOfUrl(S) == {a \in S : \A b \in S : Url(b) = Url(a) => a <= b}

(* Mutant: an alternate's own headline is not compared with earlier stories.  *)
AlternatesUnchecked(a, taken) ==
    LET usable == {b \in raw : /\ SameStory(a, b) /\ Fetchable(b)
                               /\ Url(b) \notin taken /\ Outlet(b) # Outlet(a)}
    IN  Ordered(FirstOfUrl(usable))

(* _alternate_candidates: other outlets' versions of the story, best first;   *)
(* of a URL only the first is looked at.                                       *)
Alternates(a, taken) ==
    LET usable == {b \in raw : /\ SameStory(a, b) /\ Fetchable(b)
                               /\ Url(b) \notin taken /\ Outlet(b) # Outlet(a)}
    IN  Ordered({b \in FirstOfUrl(usable) : ~Repeats(b)})

Item(a, at) == [of |-> a, at |-> at, unverified |-> Unverified(a), alternates |-> <<>>]

(* resolve_hard_paywalls over the candidates in order.                        *)
Resolve(acc, a) ==
    LET options == Alternates(a, acc.taken) IN
    IF UrlKind(a) # "paywall" THEN [acc EXCEPT !.kept = Append(@, Item(a, a))]
    ELSE IF options = <<>> THEN acc
    ELSE [kept |-> Append(acc.kept, Item(a, options[1])), taken |-> acc.taken \cup {Url(options[1])}]

Unpaywalled(candidates) ==
    Folded(Resolve, [kept |-> <<>>, taken |-> Blocked \cup Urls(Range(candidates))], candidates).kept

(* Dated findings first, each kind by priority, up to the cap.                *)
Capped(items) ==
    LET dated == {i \in Range(items) : ~i.unverified}
    IN  AtMost(FRESH_CAP, OnlyIn(items, dated) \o OnlyIn(items, Range(items) \ dated))

WithAlternates(items) ==
    LET blocked == Blocked \cup {Url(items[i].at) : i \in DOMAIN items}
    IN  [i \in DOMAIN items |->
            [items[i] EXCEPT !.alternates = AtMost(FETCH_ALTERNATE_LIMIT, Alternates(items[i].at, blocked))]]

Rank ==
    LET eligible == OnlyIn(fresh, {a \in Article : /\ Url(a) \notin Urls(Elsewhere)
                                                    /\ ~Repeats(a) /\ UrlKind(a) # "cdn"})
    IN  /\ curStep = "rank"
        /\ queue' = WithAlternates(Capped(Unpaywalled(eligible)))
        /\ curStep' = "fetch"
        /\ UNCHANGED <<model, turn, again, raw, approved, fresh, rejected, Fetching, Editing>>

-----------------------------------------------------------------------------
(* Phase 4                                                                   *)

Items == DOMAIN queue
InQueueOrder(S) == OnlyIn([i \in Items |-> i], S)
Got == {i \in DOMAIN results : results[i].got}

(* Every primary is tried, failing ones twice.                                *)
FetchPrimaries(ok) ==
    /\ curStep = "fetch" /\ ok \subseteq Items
    /\ results' = [i \in Items |-> [at |-> queue[i].at, got |-> i \in ok, date |-> "none",
                                    verdict |-> "keep"]]
    /\ fetches' = [i \in Items |-> queue[i].at]
    /\ pending' = Items \ ok /\ wave' = 0 /\ tried' = [i \in Items |-> 0]
    /\ curStep' = "substitute"
    /\ UNCHANGED <<model, turn, again, Finding, Editing>>

CoveredBy(i, S) == \E a \in S : SameStory(queue[i].at, a)
ReadNow == {results[i].at : i \in Got}

(* One wave of substitutions, planned over the pending items in order: an item *)
(* whose story was fetched is given up, one whose story another item of the    *)
(* wave is after waits, the others take their next alternate that nobody took. *)
Untaken(i, claimed) ==
    {k \in (tried[i] + 1)..Len(queue[i].alternates) : Url(queue[i].alternates[k]) \notin claimed}

PlanItem(acc, i) ==
    LET left == Untaken(i, acc.claimed)
        next == CHOOSE k \in left : \A n \in left : k <= n
    IN  IF CoveredBy(i, ReadNow) THEN acc
        ELSE IF CoveredBy(i, {queue[j].at : j \in DOMAIN acc.jobs})
        THEN [acc EXCEPT !.deferred = @ \cup {i}]
        ELSE IF left = {} THEN acc
        ELSE [acc EXCEPT !.jobs = [j \in DOMAIN @ \cup {i} |-> IF j = i THEN next ELSE @[j]],
                         !.claimed = @ \cup {Url(queue[i].alternates[next])}]

PlanWave ==
    LET claimed == Urls({queue[i].at : i \in Items} \cup Range(fetches))
        none == [j \in {} |-> 0]
    IN  Folded(PlanItem, [jobs |-> none, deferred |-> {}, claimed |-> claimed], InQueueOrder(pending))

SubstitutionWave(ok) ==
    LET plan == PlanWave
        jobs == DOMAIN plan.jobs
        order == InQueueOrder(jobs)
        alternate(i) == queue[i].alternates[plan.jobs[i]]
    IN  /\ curStep = "substitute" /\ wave < FETCH_ALTERNATE_LIMIT
        /\ jobs # {} /\ ok \subseteq jobs
        /\ wave' = wave + 1
        /\ tried' = [i \in Items |-> IF i \in jobs THEN plan.jobs[i] ELSE tried[i]]
        /\ fetches' = fetches \o [n \in 1..Len(order) |-> alternate(order[n])]
        /\ results' = [i \in Items |-> IF i \in ok
                                       THEN [results[i] EXCEPT !.at = alternate(i), !.got = TRUE]
                                       ELSE results[i]]
        /\ pending' = plan.deferred \cup (jobs \ ok)
        /\ UNCHANGED <<curStep, model, turn, again, Finding, Editing>>

SubstitutionDone ==
    /\ curStep = "substitute"
    /\ wave = FETCH_ALTERNATE_LIMIT \/ DOMAIN PlanWave.jobs = {}
    /\ curStep' = IF Got = {} THEN "propose" ELSE "dates"
    /\ pending' = {}
    /\ results' = IF Got = {} THEN [i \in Items |-> [results[i] EXCEPT !.verdict = ""]] ELSE results
    /\ UNCHANGED <<model, turn, again, Finding, wave, tried, fetches, Editing>>

-----------------------------------------------------------------------------
(* Phase 5                                                                   *)

(* The date research knew of the article that is cited now.                   *)
KnownDate(i) == IF Says(results[i].at) # "none" THEN Says(results[i].at) ELSE Says(queue[i].of)

DateDropped(i, date) ==
    \/ date = "old"
    \/ queue[i].unverified /\ date # "today"

(* seen: the articles whose page gave its date, at once or when asked again.  *)
CheckDates(seen) ==
    LET date(i) == IF i \in seen THEN Page(results[i].at) ELSE "none" IN
    /\ curStep = "dates" /\ seen \subseteq Got
    /\ results' = [i \in Items |->
            IF i \notin Got THEN [results[i] EXCEPT !.verdict = "drop"]
            ELSE [results[i] EXCEPT !.date = IF date(i) = "none" THEN KnownDate(i) ELSE date(i),
                                    !.verdict = IF DateDropped(i, date(i)) THEN "drop" ELSE "keep"]]
    /\ curStep' = "verdicts"
    /\ UNCHANGED <<model, turn, again, Finding, wave, pending, tried, fetches, Editing>>

(* The judge drops some; when its call fails all are kept.                    *)
JudgeSummaries(dropped) ==
    /\ curStep = "verdicts" /\ dropped \subseteq Got
    /\ results' = [i \in Items |-> IF i \in dropped THEN [results[i] EXCEPT !.verdict = "drop"]
                                   ELSE results[i]]
    /\ curStep' = "propose"
    /\ UNCHANGED <<model, turn, again, Finding, wave, pending, tried, fetches, Editing>>

-----------------------------------------------------------------------------
(* Phase 6: a selection is a sequence of items of the queue                  *)

Kept == {i \in DOMAIN results : results[i].verdict = "keep"}
Candidate ==
    {i \in Kept : /\ Url(results[i].at) \notin Urls(Elsewhere)
                  /\ \A j \in Kept : Url(results[j].at) = Url(results[i].at) => i <= j}
Candidates ==
    LET best == Ordered({results[i].at : i \in Candidate})
    IN  [n \in 1..Len(best) |-> CHOOSE i \in Candidate : results[i].at = best[n]]
FreshEligible(i) == results[i].date \in {"today", "none"}

Selectable(i, chosen) ==
    /\ i \in Candidate
    /\ Url(results[i].at) \notin Urls(Elsewhere)
    /\ UrlKind(results[i].at) \notin {"listing", "cdn"}
    /\ FreshEligible(i)
    /\ \A j \in Range(chosen) : ~SameStory(results[i].at, results[j].at)

(* validate_editorial_proposal: what may be selected, up to the cap, and then *)
(* no more of an outlet than its own.                                         *)
Select(chosen, i) == IF Len(chosen) < SECTION_CAP /\ Selectable(i, chosen) THEN Append(chosen, i) ELSE chosen

PerOutlet(chosen, i) ==
    LET same == {j \in Range(chosen) : Outlet(results[j].at) = Outlet(results[i].at)}
    IN  IF Cardinality(same) < OUTLET_CAP THEN Append(chosen, i) ELSE chosen

Validated(proposal) == Folded(PerOutlet, <<>>, Folded(Select, <<>>, proposal))

RawProposal == AtMost(SECTION_CAP, Candidates)
Emptied(selection) == selection = <<>> /\ \E i \in Candidate : FreshEligible(i)

Selects(selection, status, step) ==
    section' = selection /\ proposalStatus' = status /\ curStep' = step

ProposeNothing ==
    /\ curStep = "propose" /\ Candidate = {}
    /\ Selects(<<>>, "empty", "done") /\ reviewStatus' = "not_run"
    /\ UNCHANGED <<model, turn, again, Finding, Fetching, tries, hinted, criticRejected>>

(* The primary model has two attempts, the fallback one.                      *)
Attempt(isEmpty) ==
    LET used == IF isEmpty /\ ~hinted THEN tries ELSE tries + 1
    IN  /\ hinted' = (hinted \/ isEmpty)
        /\ IF used = 3
           THEN /\ Selects(Validated(RawProposal), "raw_fallback", "done")
                /\ reviewStatus' = "skipped_raw_fallback" /\ tries' = 0
           ELSE tries' = used /\ UNCHANGED <<section, proposalStatus, reviewStatus, curStep>>

(* An answer is a sequence of candidates.                                     *)
Propose(answer) ==
    LET selection == Validated(answer) IN
    /\ curStep = "propose" /\ Candidate # {}
    /\ IF Emptied(selection) THEN Attempt(TRUE)
       ELSE /\ Selects(selection, IF tries < 2 THEN "primary" ELSE "fallback", "review")
            /\ tries' = 0 /\ UNCHANGED <<hinted, reviewStatus>>
    /\ UNCHANGED <<model, turn, again, Finding, Fetching, criticRejected>>

ProposeFails ==
    /\ curStep = "propose" /\ Candidate # {}
    /\ Attempt(FALSE)
    /\ UNCHANGED <<model, turn, again, Finding, Fetching, criticRejected>>

(* remove_fresh and add_fresh; a replacement or a move is both.               *)
Patched(removed, added) == OnlyIn(section, Range(section) \ removed) \o added

(* The critic's models have two attempts each; a rejection ends a model's.     *)
ReviewFails(rejects) ==
    LET used == IF rejects THEN (IF tries < 2 THEN 2 ELSE 4) ELSE tries + 1
        rejected2 == criticRejected \/ rejects
        over == used >= 4 \/ (criticRejected /\ tries >= 2)
    IN  /\ criticRejected' = rejected2
        /\ tries' = used
        /\ IF over
           THEN /\ section' = IF rejected2 THEN Validated(RawProposal) ELSE section
                /\ reviewStatus' = IF rejected2 THEN "rejected_fallback" ELSE "unavailable"
                /\ curStep' = "done"
           ELSE UNCHANGED <<section, reviewStatus, curStep>>

Review(removed, added) ==
    LET selection == Validated(Patched(removed, added)) IN
    /\ curStep = "review"
    /\ IF Emptied(selection) THEN ReviewFails(FALSE)
       ELSE /\ section' = selection /\ reviewStatus' = "reviewed" /\ curStep' = "done"
            /\ UNCHANGED <<tries, criticRejected>>
    /\ UNCHANGED <<model, turn, again, Finding, Fetching, hinted, proposalStatus>>

ReviewError(rejects) ==
    /\ curStep = "review" /\ ReviewFails(rejects)
    /\ UNCHANGED <<model, turn, again, Finding, Fetching, hinted, proposalStatus>>

(* An empty section that the primary model researched starts the topic again.  *)
StubRetry ==
    /\ curStep = "done" /\ section = <<>> /\ turn = 1 /\ model = "primary"
    /\ turn' = 2 /\ model' = "fallback" /\ again' = FALSE /\ curStep' = "research"
    /\ raw' = {} /\ approved' = {} /\ fresh' = <<>> /\ rejected' = {} /\ queue' = <<>>
    /\ results' = <<>> /\ wave' = 0 /\ pending' = {} /\ tried' = <<>> /\ fetches' = <<>>
    /\ tries' = 0 /\ hinted' = FALSE /\ criticRejected' = FALSE
    /\ section' = <<>> /\ proposalStatus' = "" /\ reviewStatus' = ""

CurationNext ==
    \/ \E found \in Searches : Research(found)
    \/ /\ curStep = "judge"
       /\ \E answer, also \in SUBSET Forwarded : \E naming \in [answer -> {"id", "url", "altered"}] :
            /\ Cardinality(also) + Cardinality({a \in answer : naming[a] # "id"}) <= MaxSlips
            /\ \E kept \in SUBSET answer : Judge(answer, naming, kept, also)
    \/ Rank
    \/ \E ok \in SUBSET Items : FetchPrimaries(ok) \/ SubstitutionWave(ok)
    \/ SubstitutionDone
    \/ \E S \in SUBSET Got : CheckDates(S) \/ JudgeSummaries(S)
    \/ ProposeNothing \/ ProposeFails
    \/ \E S \in SUBSET Candidate : Propose(InQueueOrder(S))
    \/ \E removed, added \in SUBSET Candidate : Review(removed, InQueueOrder(added))
    \/ \E rejects \in BOOLEAN : ReviewError(rejects)
    \/ StubRetry

-----------------------------------------------------------------------------
(* Properties                                                                *)

(* The type invariant.                                                        *)
CurationTypeOK ==
    /\ curStep \in {"research", "judge", "rank", "fetch", "substitute", "dates", "verdicts",
                    "propose", "review", "done"}
    /\ model \in {"primary", "fallback"} /\ turn \in 1..2 /\ again \in BOOLEAN
    /\ raw \subseteq Article /\ approved \subseteq raw /\ rejected \subseteq raw
    /\ Range(fresh) \subseteq raw /\ Len(queue) <= FRESH_CAP
    /\ pending \subseteq Items /\ Range(section) \subseteq Items
    /\ tries \in 0..4 /\ wave \in 0..FETCH_ALTERNATE_LIMIT

(* Whatever the models select, swap or add, a story of the section is an      *)
(* article that can be opened and was, tells what an approved finding tells,  *)
(* that no section told on the days before and no other topic selected today, *)
(* is not dated outside the last day, and has a page that says so if research *)
(* had no date for it; and the section keeps to its cap and each outlet's.    *)
SectionSound ==
    /\ Len(section) <= SECTION_CAP
    /\ \A o \in {Outlet(a) : a \in Article} :
          Cardinality({i \in Range(section) : Outlet(results[i].at) = o}) <= OUTLET_CAP
    /\ \A i \in Range(section) :
        /\ queue[i].of \in approved /\ SameStory(results[i].at, queue[i].of)
        /\ results[i].got /\ UrlKind(results[i].at) = "article"
        /\ ~Repeats(results[i].at) /\ Url(results[i].at) \notin Urls(Elsewhere)
        /\ results[i].date \notin {"old", "soon"}
        /\ queue[i].unverified => Page(results[i].at) = "today"
        /\ \A j \in Range(section) : i # j => ~SameStory(results[i].at, results[j].at)

(* The substitution pass opens no URL twice, and no item takes over a story   *)
(* that another item of the queue has told.                                   *)
FetchedOnce ==
    /\ \A m, n \in DOMAIN fetches : Url(fetches[m]) = Url(fetches[n]) => m = n
    /\ \A i, j \in Got : i # j /\ results[i].at # queue[i].at
                          => ~SameStory(results[i].at, results[j].at)

(* "Nothing approved disappears without a recorded reason": an approval is    *)
(* among the fresh findings or the rejected ones, or in both when the answer  *)
(* names it twice.  A fresh finding was approved, no section covered its URL, *)
(* and no other fresh finding has it.                                         *)
ApprovedAccounted ==
    /\ approved \subseteq Range(fresh) \cup rejected
    /\ \A a \in Range(fresh) :
          /\ a \in approved /\ ~InLedger(a)
          /\ \A b \in Range(fresh) : Url(a) = Url(b) => a = b

(* While a story could be published, an edition is empty only when it says    *)
(* that no model curated it.                                                  *)
NotEmptied ==
    curStep = "done" /\ section = <<>> /\ (\E i \in Candidate : Selectable(i, <<>>))
    => reviewStatus \in {"skipped_raw_fallback", "rejected_fallback"}

CurationSpec == CurationInit /\ [][CurationNext]_curationVars
=============================================================================
