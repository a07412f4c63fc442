------------------------------ MODULE FrontPage ------------------------------
(***************************************************************************)
(* The front page of an edition: which stories of the sections it shows,   *)
(* _front_page_sections of scripts/news_publish.py.  A story is a record   *)
(* of its section, its event and its score; no two scores are equal        *)
(* (priority_sort_key orders every two stories).                           *)
(***************************************************************************)
EXTENDS Naturals, Sequences, FiniteSets, SequencesExt, Folding

CONSTANTS
    Pages,                  \* the sections of the day, TOPIC_ORDER
    FRONT_PAGE_MAX_STORIES, FRONT_PAGE_SECONDARY_THRESHOLD

ASSUME FrontPageAssumption == FRONT_PAGE_MAX_STORIES \in Nat

BestOf(S) == CHOOSE s \in S : \A t \in S : t.score <= s.score
Ranked(S) ==
    LET best[n \in 0..Cardinality(S)] ==
            IF n = 0 THEN <<>> ELSE Append(best[n - 1], BestOf(S \ Range(best[n - 1])))
    IN  best[Cardinality(S)]
OfPage(S, p) == {s \in S : s.page = p}

(* Curation separated the stories of one section; across sections one event   *)
(* is one story.                                                              *)
Duplicates(s, t) == s.page # t.page /\ s.event = t.event

(* The best copy of an event stays.                                           *)
Keep(kept, s) == IF \E t \in kept : Duplicates(s, t) THEN kept ELSE kept \cup {s}
DistinctStories(stories) == Folded(Keep, {}, Ranked(stories))

Leads(kept) == {BestOf(OfPage(kept, p)) : p \in {q \in Pages : OfPage(kept, q) # {}}}

(* What the leads leave free goes to the best of the others above the floor.  *)
FrontStories(stories) ==
    LET kept == DistinctStories(stories)
        leads == Leads(kept)
        free == IF Cardinality(leads) < FRONT_PAGE_MAX_STORIES
                THEN FRONT_PAGE_MAX_STORIES - Cardinality(leads) ELSE 0
        others == Ranked({s \in kept \ leads : s.score >= FRONT_PAGE_SECONDARY_THRESHOLD})
    IN  leads \cup Range(AtMost(free, others))

(* The stories of the front page tell different events, the best story of the *)
(* day is among them and leads, a section goes without a story only when a    *)
(* better copy of each of its stories stayed in another section that has one, *)
(* and the page has room for what it shows.                                   *)
FrontPageSound(stories) ==
    LET front == FrontStories(stories) IN
    /\ \A s, t \in front : s # t => ~Duplicates(s, t)
    /\ stories # {} => BestOf(front) = BestOf(stories)
    /\ \A s \in stories : OfPage(front, s.page) = {} =>
            \E t \in DistinctStories(stories) :
                t.score > s.score /\ Duplicates(s, t) /\ OfPage(front, t.page) # {}
    /\ \/ Cardinality(front) <= FRONT_PAGE_MAX_STORIES
       \/ Cardinality(front) = Cardinality(Leads(front))
=============================================================================
