----------------------------- MODULE NewsPublish -----------------------------
(***************************************************************************)
(* One issue date of the news site, scripts/news_publish.py: the durable   *)
(* publications that a publisher imports from the topics' runs, the        *)
(* releases of the site and the link to the current one, the promotion of  *)
(* the runs that were published, and the one mail of the day.              *)
(*                                                                         *)
(* Publishers overlap (the nightly one and one started by hand) and may    *)
(* die between any two steps, while runs are repeated or lose their proof. *)
(* An edition of a section is a number; the odd ones have stories.         *)
(***************************************************************************)
EXTENDS Naturals, Sequences, FiniteSets

CONSTANTS
    Publisher,
    Sections,       \* TOPIC_ORDER, a sequence
    MaxEditions,    \* bound: editions written by runs
    MaxPublishes,   \* bound: publishers started
    MaxCrossed,     \* bound: publishers started if they cross
    MaxLosses       \* bound: runs that lost their proof or their directory

ASSUME PublishAssumption ==
    Len(Sections) \in Nat \ {0} /\ MaxEditions \in Nat /\ MaxPublishes \in Nat /\ MaxCrossed \in Nat /\ MaxLosses \in Nat

Section == {Sections[i] : i \in 1..Len(Sections)}

VARIABLES
    runs,           \* per section: the run row, whether its state proves publication.json, and the edition
    durable,        \* per section: publications/<date>/<slug>.json, 0 if there is none
    releases,       \* directories: id, mtime, whether they are whole, what they show
    current,        \* the release that the link names, 0 before the first
    mails, marker,  \* what was mailed; <date>.sent.json
    pub,            \* the publishers
    editionsMade, published, losses,
    crossed,        \* publishers overlapped, or one died between the mail and the marker
    newsClock       \* gives directories and modification times their order

newsVars == <<runs, durable, releases, current, mails, marker, pub,
              editionsMade, published, losses, crossed, newsClock>>

RELEASES_KEPT == 2
HasStories(n) == n % 2 = 1
NoEditions == [s \in Section |-> 0]
Off == [pc |-> "off", at |-> 0, frozen |-> FALSE, editions |-> NoEditions,
        degraded |-> {}, release |-> 0, mayMail |-> FALSE]

PublishInit ==
    /\ runs = [s \in Section |-> [row |-> "none", proof |-> "absent", edition |-> 0]]
    /\ durable = NoEditions
    /\ releases = {} /\ current = 0
    /\ mails = <<>> /\ marker = FALSE
    /\ pub = [p \in Publisher |-> Off]
    /\ editionsMade = 0 /\ published = 0 /\ losses = 0 /\ crossed = FALSE /\ newsClock = 0

Site == <<releases, current, newsClock>>
Mail == <<mails, marker>>
Count == <<editionsMade, published, losses, crossed>>
Moves(p, f) == pub' = [pub EXCEPT ![p] = f]
Goes(p, pc) == Moves(p, [pub[p] EXCEPT !.pc = pc])
Ends(p) == Moves(p, Off)

-----------------------------------------------------------------------------
(* The topics' runs                                                          *)

(* A run begins, or begins again: its archive row is no longer valid.        *)
Curate(s) ==
    /\ runs[s].row # "running" /\ editionsMade < MaxEditions
    /\ runs' = [runs EXCEPT ![s] = [row |-> "running", proof |-> "unproven", edition |-> @.edition]]
    /\ UNCHANGED <<durable, Site, Mail, pub, Count>>

(* phase_8_archive completes; the phases after it are still to come.          *)
Archived(s) ==
    /\ runs[s].row = "running" /\ editionsMade < MaxEditions
    /\ editionsMade' = editionsMade + 1
    /\ runs' = [runs EXCEPT ![s] = [row |-> "running", proof |-> "proven", edition |-> editionsMade + 1]]
    /\ UNCHANGED <<durable, Site, Mail, pub, published, losses, crossed>>

RunCompletes(s) ==
    /\ runs[s].row = "running" /\ runs[s].proof = "proven"
    /\ runs' = [runs EXCEPT ![s].row = "succeeded"]
    /\ UNCHANGED <<durable, Site, Mail, pub, Count>>

(* A changed file or an unreadable database; a directory that was cleaned up. *)
Loses(s, proof) ==
    /\ runs[s].proof = "proven" /\ losses < MaxLosses
    /\ losses' = losses + 1
    /\ runs' = [runs EXCEPT ![s].proof = proof]
    /\ UNCHANGED <<durable, Site, Mail, pub, editionsMade, published, crossed>>

-----------------------------------------------------------------------------
(* sync_publications                                                         *)

Begin(p, mayMail) ==
    /\ pub[p].pc = "off"
    /\ crossed' = (crossed \/ \E q \in Publisher : pub[q].pc # "off")
    /\ published < IF crossed' THEN MaxCrossed ELSE MaxPublishes
    /\ published' = published + 1
    /\ Moves(p, [Off EXCEPT !.pc = "sync", !.at = 1, !.frozen = marker, !.mayMail = mayMail])
    /\ UNCHANGED <<runs, durable, Site, Mail, editionsMade, losses>>

Here(p) == Sections[pub[p].at]
Frozen(p) == pub[p].frozen /\ durable[Here(p)] # 0

ImportOverFrozen(p) ==
    LET s == Here(p)
        taken == IF runs[s].proof = "proven" THEN runs[s].edition ELSE durable[s]
        next == IF pub[p].at = Len(Sections) THEN "gate" ELSE "sync"
    IN  /\ pub[p].pc = "sync"
        /\ durable' = [durable EXCEPT ![s] = taken]
        /\ Moves(p, [pub[p] EXCEPT !.pc = next, !.at = @ + 1, !.editions[s] = taken,
                        !.degraded = IF runs[s].proof = "unproven" THEN @ \cup {s} ELSE @])
        /\ UNCHANGED <<runs, Site, Mail, Count>>

(* collect_source_publication, or the durable copy if the day is frozen, the  *)
(* state proves nothing, or no source remains.                                *)
Import(p) ==
    LET s == Here(p)
        fresh == ~Frozen(p) /\ runs[s].proof = "proven"
        taken == IF fresh THEN runs[s].edition ELSE durable[s]
        next == IF pub[p].at = Len(Sections) THEN "gate" ELSE "sync"
    IN  /\ pub[p].pc = "sync"
        /\ durable' = [durable EXCEPT ![s] = taken]
        /\ Moves(p, [pub[p] EXCEPT !.pc = next, !.at = @ + 1, !.editions[s] = taken,
                        !.degraded = IF ~Frozen(p) /\ runs[s].proof = "unproven"
                                     THEN @ \cup {s} ELSE @])
        /\ UNCHANGED <<runs, Site, Mail, Count>>

-----------------------------------------------------------------------------
(* publish                                                                   *)

RefusesNothing(p) == \A s \in Section : pub[p].editions[s] = 0

(* Nothing collected, or nothing to read on a date that was not mailed yet;   *)
(* else build_site makes the directory with its assets, and an error there     *)
(* removes it again.                                                          *)
Refuses(p) ==
    \/ \A s \in Section : pub[p].editions[s] = 0
    \/ ~marker /\ \A s \in Section : ~HasStories(pub[p].editions[s])

BeginRelease(p) ==
    /\ pub[p].pc = "gate"
    /\ \/ /\ ~Refuses(p)
          /\ newsClock' = newsClock + 1
          /\ releases' = releases \cup {[id |-> newsClock + 1, mtime |-> newsClock + 1, whole |-> FALSE,
                                         shows |-> NoEditions]}
          /\ Moves(p, [pub[p] EXCEPT !.pc = "pages", !.release = newsClock + 1])
       \/ Ends(p) /\ UNCHANGED <<releases, newsClock>>
    /\ UNCHANGED <<runs, durable, current, Mail, Count>>

(* The pages.  Those of a release that another publisher pruned meanwhile are  *)
(* written into a new directory of its name, without assets.                   *)
WritePages(p) ==
    LET mine == {r \in releases : r.id = pub[p].release}
    IN  /\ pub[p].pc = "pages"
        /\ newsClock' = newsClock + 1
        /\ releases' = (releases \ mine) \cup
               {[id |-> pub[p].release, mtime |-> newsClock + 1, whole |-> mine # {}, shows |-> pub[p].editions]}
        /\ Goes(p, "switch")
        /\ UNCHANGED <<runs, durable, current, Mail, Count>>

SwitchLink(p) ==
    /\ pub[p].pc = "switch"
    /\ current' = pub[p].release
    /\ Goes(p, "prune")
    /\ UNCHANGED <<runs, durable, releases, newsClock, Mail, Count>>

Newer(r) == {q \in releases : q.mtime > r.mtime}
RetainedOldest == {r \in releases : Cardinality(releases \ (Newer(r) \cup {r})) < RELEASES_KEPT}

Retained == {r \in releases : Cardinality(Newer(r)) < RELEASES_KEPT}

Prune(p) ==
    /\ pub[p].pc = "prune"
    /\ releases' = Retained
    /\ Goes(p, "finalize")
    /\ UNCHANGED <<runs, durable, current, newsClock, Mail, Count>>

(* _finalize_published_runs: of the sections that were not degraded.          *)
Promotes(p, s) ==
    /\ pub[p].editions[s] # 0 /\ s \notin pub[p].degraded
    /\ runs[s].proof # "absent" /\ runs[s].row = "running"

FinalizeRuns(p) ==
    /\ pub[p].pc = "finalize"
    /\ runs' = [s \in Section |-> IF Promotes(p, s) THEN [runs[s] EXCEPT !.row = "succeeded"] ELSE runs[s]]
    /\ IF pub[p].mayMail THEN Goes(p, "mail") ELSE Ends(p)
    /\ UNCHANGED <<durable, Site, Mail, Count>>

SendMailAgain(p) ==
    /\ pub[p].pc = "mail"
    /\ \/ mails' = Append(mails, pub[p].editions) /\ Goes(p, "mark")
       \/ Ends(p) /\ UNCHANGED mails
    /\ UNCHANGED <<runs, durable, Site, marker, Count>>

(* send_headline_email_once                                                  *)
SendMail(p) ==
    /\ pub[p].pc = "mail"
    /\ \/ ~marker /\ mails' = Append(mails, pub[p].editions) /\ Goes(p, "mark")
       \/ Ends(p) /\ UNCHANGED mails
    /\ UNCHANGED <<runs, durable, Site, marker, Count>>

WriteMarker(p) ==
    /\ pub[p].pc = "mark"
    /\ marker' = TRUE
    /\ Ends(p)
    /\ UNCHANGED <<runs, durable, Site, mails, Count>>

(* An error, a time limit or a kill between two steps.                        *)
PublisherDies(p) ==
    /\ pub[p].pc # "off"
    /\ Ends(p) /\ crossed' = (crossed \/ pub[p].pc = "mark")
    /\ UNCHANGED <<runs, durable, Site, Mail, editionsMade, published, losses>>

PublisherStep(p) ==
    \/ Import(p) \/ BeginRelease(p) \/ WritePages(p) \/ SwitchLink(p) \/ Prune(p)
    \/ FinalizeRuns(p) \/ SendMail(p) \/ WriteMarker(p) \/ PublisherDies(p)

RunsMove ==
    \E s \in Section : Curate(s) \/ Archived(s) \/ RunCompletes(s) \/ Loses(s, "unproven") \/ Loses(s, "absent")

PublishNext ==
    \/ RunsMove
    \/ \E p \in Publisher, m \in BOOLEAN : Begin(p, m)
    \/ \E p \in Publisher : PublisherStep(p)

PublishSpec == PublishInit /\ [][PublishNext]_newsVars

-----------------------------------------------------------------------------
Editions == [Section -> 0..MaxEditions]
Release == [id : Nat, mtime : Nat, whole : BOOLEAN, shows : Editions]
PublisherStates ==
    [pc : {"off", "sync", "gate", "pages", "switch", "prune", "finalize", "mail", "mark"}, at : 0..Len(Sections) + 1,
     frozen : BOOLEAN, editions : Editions, degraded : SUBSET Section, release : Nat, mayMail : BOOLEAN]

(* The type invariant of the publishers, the archive and the site.            *)
PublishTypeOK ==
    /\ runs \in [Section -> [row : {"none", "running", "succeeded"}, proof : {"absent", "unproven", "proven"},
                             edition : 0..MaxEditions]]
    /\ durable \in Editions /\ pub \in [Publisher -> PublisherStates] /\ mails \in Seq(Editions)
    /\ releases \subseteq Release /\ \A r \in releases : r.id <= newsClock /\ r.mtime <= newsClock
    /\ newsClock \in Nat /\ current \in 0..newsClock /\ marker \in BOOLEAN /\ crossed \in BOOLEAN
    /\ editionsMade \in 0..MaxEditions /\ published \in Nat /\ losses \in Nat
    /\ \A p \in Publisher : /\ pub[p].pc = "sync" => pub[p].at \in 1..Len(Sections)
                            /\ pub[p].release <= newsClock

Served == {r \in releases : r.id = current}

(* build_site: visitors always get a whole release, also after publishers    *)
(* died at any step, as long as no two overlapped: the link goes to one whose  *)
(* pages are written, and pruning never takes it.                               *)
SiteServed == (~crossed /\ current # 0) => \E r \in Served : r.whole

(* publish: an empty day is neither activated nor mailed before a mail went   *)
(* out, whatever its sections were kept from.                                  *)
NothingEmptyMailed ==
    /\ \A i \in 1..Len(mails) : \E s \in Section : HasStories(mails[i][s])
    /\ marker \/ \A r \in Served : r.whole => \E s \in Section : HasStories(r.shows[s])

(* sync_publications, "the mailed edition is the shipped truth": one mail, and *)
(* every section in it stays the durable one however runs are repeated and      *)
(* published again, unless publishers crossed or one died before the marker.    *)
MailIsTruth ==
    ~crossed => /\ Len(mails) <= 1
                /\ marker => \A s \in Section : mails[1][s] # 0 => durable[s] = mails[1][s]

(* What the publishers rely on between their steps.  Something to read is what  *)
(* let them past the gate, and what each whole release shows.                    *)
Readable(shown) == \E s \in Section : HasStories(shown[s])
SomethingToRead ==
    \/ marker
    \/ /\ \A p \in Publisher : pub[p].pc \notin {"off", "sync", "gate"} => Readable(pub[p].editions)
       /\ \A r \in releases : r.whole => Readable(r.shows)

(* As long as none overlapped: one at a time; its release is there and is not   *)
(* the current one until it is whole, and then it is the newest; it took its     *)
(* editions from the durable ones, frozen exactly if the mail went out, and the  *)
(* mail that has no marker yet is its own.                                        *)
OnePublisher == \A p, q \in Publisher : pub[p].pc # "off" /\ pub[q].pc # "off" => p = q

ReleaseReady(p) ==
    /\ pub[p].pc = "pages" => pub[p].release # current /\ \E r \in releases : r.id = pub[p].release
    /\ pub[p].pc \in {"switch", "prune"} =>
         \E r \in releases : r.id = pub[p].release /\ r.whole /\ \A q \in releases : q.mtime <= r.mtime
    /\ pub[p].pc = "prune" => current = pub[p].release

EditionReady(p) ==
    /\ pub[p].pc # "off" => pub[p].frozen = marker
    /\ pub[p].pc = "sync" => \A i \in 1..pub[p].at - 1 : pub[p].editions[Sections[i]] = durable[Sections[i]]
    /\ pub[p].pc \notin {"off", "sync"} => pub[p].editions = durable
    /\ pub[p].pc = "mark" => ~marker /\ mails[1] = pub[p].editions

OneMail == Len(mails) = IF marker \/ \E p \in Publisher : pub[p].pc = "mark" THEN 1 ELSE 0

PublishersSound ==
    /\ SomethingToRead
    /\ ~crossed => /\ OnePublisher /\ OneMail
                  /\ \A p \in Publisher : ReleaseReady(p) /\ EditionReady(p)

=============================================================================
