---------------------------- MODULE MCPublishing ----------------------------
(* What leaves the host: the curated section, the record of public attention   *)
(* it reads, the published edition, and the commits of the dotfiles.  They     *)
(* share no state here, and `machine' says which one moves; `day' is an input  *)
(* of the front page.                                                           *)
EXTENDS NewsPublish, NewsCuration, FrontPage, Attention,
        DotfilesCommit, TLC

VARIABLES machine, day
mcVars == <<machine, day, newsVars, curationVars, attVars, dotVars>>
Machines == {"publish", "curation", "attention", "front page", "dotfiles"}

MCSections == <<"a", "b">>
Symmetry == Permutations(Publisher)

A(url, event, outlet, kind, says, page) ==
    [url |-> url, event |-> event, outlet |-> outlet, kind |-> kind, says |-> says, page |-> page]
Stories ==
    << A(1, "a", "x", "article", "today", "today"), A(2, "a", "y", "article", "none", "today"),
       A(3, "a", "z", "article", "today", "old"),   A(4, "a", "x", "article", "today", "soon"),
       A(5, "b", "x", "paywall", "today", "today"), A(6, "b", "y", "article", "today", "today"),
       A(7, "c", "y", "article", "none", "today"),   A(8, "b", "z", "article", "today", "today"),
       A(1, "a", "x", "article", "none", "today"),  A(10, "d", "w", "article", "today", "today"),
       A(11, "c", "y", "listing", "today", "today"), A(12, "c", "y", "article", "today", "today"),
       A(13, "c", "w", "article", "today", "today") >>
MCCatalog == Stories    \* a definition TLC evaluates once
(* Alternates that several findings share; a full section with a paywall; what *)
(* the ledger, a shared URL, another topic and a listing rule out.             *)
MCSearches == { {}, {1, 2, 3, 4}, {1, 5, 6, 13}, {2, 5, 8, 11}, {1, 9, 10, 12}, {2, 3, 7} }

Days ==
    UNION {{{[page |-> f[n][1], event |-> f[n][2], score |-> n] : n \in 1..k} :
              f \in [1..k -> Pages \X {"e", "f", "g"}]} : k \in 0..4}

PublishingInit ==
    /\ machine \in Machines
    /\ PublishInit /\ CurationInit /\ AttInit /\ DotInit
    /\ machine # "dotfiles" => scope = DotPath
    /\ day \in IF machine = "front page" THEN Days ELSE {{}}

PublishingNext ==
    /\ UNCHANGED <<machine, day>>
    /\ \/ machine = "publish" /\ PublishNext /\ UNCHANGED <<curationVars, attVars, dotVars>>
       \/ machine = "curation" /\ CurationNext /\ UNCHANGED <<newsVars, attVars, dotVars>>
       \/ machine = "attention" /\ AttNext /\ UNCHANGED <<newsVars, curationVars, dotVars>>
       \/ machine = "dotfiles" /\ DotNext /\ UNCHANGED <<newsVars, curationVars, attVars>>

PublishingSpec == PublishingInit /\ [][PublishingNext]_mcVars

-----------------------------------------------------------------------------
(* What was mailed and what the site shows is what was proven: the link names *)
(* a whole release of the newest durable editions, an edition that was mailed  *)
(* is not rewritten, no empty one is mailed, and each is mailed once unless a  *)
(* publisher died or overlapped another between the mail and its marker.  A    *)
(* commit of the dotfiles is what was reviewed, and is pushed or recorded.     *)
PublishedTrue ==
    /\ PublishTypeOK /\ PublishersSound /\ SiteServed /\ MailIsTruth /\ NothingEmptyMailed
    /\ DotTypeOK /\ HygieneSound /\ ReviewedBytes /\ CommitAccounted

(* A curated section tells what was approved, from articles that were fetched *)
(* and dated, of different events, within the caps of the section and of an    *)
(* outlet; every judged article is accounted for; no page is opened twice;     *)
(* nothing is dropped to an empty section without a record; and the front page *)
(* leads with the best distinct stories.                                        *)
SelectionSound ==
    /\ CurationTypeOK /\ SectionSound /\ ApprovedAccounted /\ FetchedOnce /\ NotEmptied
    /\ FrontPageSound(day)

(* A failed lookup is never taken for a verdict, and the breaker stops the     *)
(* requests behind it.                                                          *)
AttentionHonest == AttTypeOK /\ AsksAccounted /\ NeverGuessed /\ HandsInFlight /\ BreakerHolds
=============================================================================
