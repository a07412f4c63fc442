------------------------------- MODULE Resolver -------------------------------
(***************************************************************************)
(* P7c, steward/resolver.py: each item that waits for the operator is      *)
(* judged, a few are acted on at once (commit, revert, fix a document),    *)
(* and the others may be approved later with one command, after the same   *)
(* checks.  An action is journaled when it is done, and a repeated attempt *)
(* of the night carries what it finds there.  The phase and an approval    *)
(* may die in any step, and the operator edits at any time.                *)
(*                                                                         *)
(* An item is one file: an edited one, or one whose text a finding is      *)
(* about.  Contents are numbers; 0 is the first commit's, Fixed a fix.     *)
(***************************************************************************)
EXTENDS Naturals, FiniteSets

CONSTANTS
    Edited,         \* files of the dotfiles that may be edited, numbers
    Found,          \* files that a finding is about
    NightCap,       \* MAX_AUTONOMOUS_ACTIONS
    MaxEditsMade,   \* bound: edits of the operator
    MaxRuns         \* bound: attempts of the phase

ASSUME ResolverAssumption == NightCap \in Nat /\ MaxEditsMade \in Nat /\ MaxRuns \in Nat /\ Edited \cup Found \subseteq Nat

VARIABLES
    text, committed,    \* the working tree, and HEAD
    saved,              \* 07c-saved: what was saved of which file, for which item
    slug,               \* _item_id of each file, cut to 60 characters
    actions,            \* 07c-actions.jsonl
    resolve,            \* 07c-resolve.json
    approvals,          \* 07c-approvals.jsonl
    p7c, m7c,           \* the phase, and what it has in memory
    approver, mine,     \* an approval, and the record it executes
    spent,              \* actions taken this night, as records
    unlogged,           \* the phase died with an action that was not journaled, or an attempt
                        \* without a `git status' overwrote the only artifact that had it
    raced7,             \* a file was edited between its check and the action on it, or
                        \* the steward started while an approval was under way, or an item was
                        \* approved from an artifact that the journal had overtaken
    edits2, runs7

resolverVars == <<text, committed, saved, slug, actions, resolve, approvals, p7c, m7c, approver, mine,
                  spent, unlogged, raced7, edits2, runs7>>

Files == Edited \cup Found
Fixed == 3
NoRecord == [id |-> <<0, 0>>, file |-> 0, status |-> "none", action |-> "none", content |-> 0]
NoM7 == [listed |-> {}, todo |-> {}, out |-> {}, used |-> 0, rec |-> NoRecord]
NoArtifact == [state |-> "none", run |-> 0, listed |-> {}, items |-> {}]

ResolverInit ==
    /\ text = [f \in Files |-> IF f \in Edited THEN 1 ELSE 0]
    /\ committed = [f \in Files |-> 0] /\ saved = {}
    /\ slug \in {[f \in Files |-> f], [f \in Files |-> 0]}
    /\ actions = {} /\ resolve = NoArtifact /\ approvals = {}
    /\ p7c = "idle" /\ m7c = NoM7 /\ approver = "idle" /\ mine = NoRecord
    /\ spent = {} /\ unlogged = FALSE /\ raced7 = FALSE /\ edits2 = 0 /\ runs7 = 0

Dirty7 == {f \in Files : text[f] # committed[f]}
Home7 == <<text, committed, saved>>
Ledger == <<actions, approvals, slug>>
Approval == <<approver, mine>>
Ghosts7 == <<spent, unlogged, raced7, edits2, runs7>>
Executed(r) == r.status \in {"done", "failed"}
Copy(r) == [id |-> r.id, file |-> r.file, content |-> r.content]
Saves(copy) == saved' = {s \in saved : s.id # copy.id \/ s.file # copy.file} \cup {copy}

-----------------------------------------------------------------------------
ItemIdByPlace(f, listed) == <<0, Cardinality({g \in listed : g <= f})>>
(* collect_items numbers the items whose slugs are the same, in their order. *)
ItemId(f, listed) == <<slug[f], Cardinality({g \in listed : g <= f /\ slug[g] = slug[f]})>>

PriorDoneOfArtifact == {r \in resolve.items : Executed(r)}
(* _prior_done: the previous artifact, and the journal over it.              *)
PriorDone ==
    actions \cup {r \in resolve.items : Executed(r) /\ \A a \in actions : a.id # r.id}

(* _resolve_all; without a `git status' the artifact has no items.           *)
StartResolve ==
    /\ p7c = "idle" /\ runs7 < MaxRuns /\ runs7' = runs7 + 1
    /\ LET listed == (Edited \cap Dirty7) \cup Found
           ids == {r.id : r \in PriorDone}
       IN m7c' = [NoM7 EXCEPT !.listed = listed, !.out = PriorDone, !.used = Cardinality(PriorDone),
                              !.todo = {f \in listed : ItemId(f, listed) \notin ids}]
    /\ \/ p7c' = "judge" /\ UNCHANGED <<resolve, unlogged>>
       \/ /\ p7c' = "idle" /\ resolve' = [NoArtifact EXCEPT !.state = "degraded", !.run = runs7']
          /\ unlogged' = (unlogged \/ ~(spent \subseteq actions))
    /\ raced7' = (raced7 \/ approver # "idle")
    /\ UNCHANGED <<Home7, Ledger, Approval, spent, edits2>>

Menu(f) == IF f \in Edited THEN {"commit", "revert"} ELSE {"doc_fix", "patch"}
Autonomous == {"commit", "revert", "doc_fix"}
NextFile == CHOOSE f \in m7c.todo : \A g \in m7c.todo : f <= g
Puts(r) == m7c' = [m7c EXCEPT !.out = {x \in @ : x.id # r.id} \cup {r}, !.todo = @ \ {r.file}, !.rec = NoRecord]

(* resolve_item: the model picks an action, Jev's certainty and the limits   *)
(* of the path decide whether it is taken, recommended or nothing.           *)
JudgeItem ==
    /\ p7c = "judge" /\ m7c.todo # {}
    /\ \E a \in Menu(NextFile) :
         LET f == NextFile
             r == [id |-> ItemId(f, m7c.listed), file |-> f, status |-> "acting", action |-> a, content |-> text[f]]
         IN \/ Puts([r EXCEPT !.status = "held", !.action = "none"]) /\ UNCHANGED p7c
            \/ Puts([r EXCEPT !.status = "recommended"]) /\ UNCHANGED p7c
            \/ /\ a \in Autonomous /\ m7c.used < NightCap
               /\ p7c' = "check" /\ m7c' = [m7c EXCEPT !.rec = r]
    /\ UNCHANGED <<Home7, Ledger, resolve, Approval, Ghosts7>>

CheckNothing(r) == TRUE
(* _check_hashes, and the path is still a plain modification; the text of a  *)
(* document must be the one that was judged.                                  *)
CheckHashes(r) == text[r.file] = r.content /\ (r.action \in {"commit", "revert"} => r.file \in Dirty7)

(* _act: Unknown takes nothing from the night's cap.                         *)
CheckItem ==
    /\ p7c = "check"
    /\ LET r == m7c.rec IN
       \/ /\ CheckHashes(r)
          /\ p7c' = CASE r.action = "commit" -> "commit" [] r.action = "revert" -> "save" [] OTHER -> "fix"
          /\ UNCHANGED m7c
       \/ Puts([r EXCEPT !.status = "recommended"]) /\ p7c' = "judge"
    /\ UNCHANGED <<Home7, Ledger, resolve, Approval, Ghosts7>>

Acted(s) == /\ m7c' = [m7c EXCEPT !.rec.status = s, !.used = @ + 1]
            /\ spent' = spent \cup {[m7c.rec EXCEPT !.status = s]}
            /\ p7c' = "journal"

(* execute_commit stages exactly what was judged, or fails; a commit that    *)
(* was not pushed has failed too.                                             *)
CommitItem ==
    /\ p7c = "commit"
    /\ LET r == m7c.rec IN
       \/ /\ text[r.file] = r.content /\ committed' = [committed EXCEPT ![r.file] = r.content]
          /\ \E s \in {"done", "failed"} : Acted(s)
       \/ Acted("failed") /\ UNCHANGED committed
    /\ UNCHANGED <<text, saved, Ledger, resolve, Approval, unlogged, raced7, edits2, runs7>>

(* execute_revert                                                             *)
SaveItem ==
    /\ p7c = "save" /\ p7c' = "checkout"
    /\ Saves([Copy(m7c.rec) EXCEPT !.content = text[m7c.rec.file]])
    /\ UNCHANGED <<text, committed, Ledger, resolve, m7c, Approval, Ghosts7>>

CheckoutItem ==
    /\ p7c = "checkout"
    /\ \/ text' = [text EXCEPT ![m7c.rec.file] = committed[m7c.rec.file]] /\ \E s \in {"done", "failed"} : Acted(s)
       \/ Acted("failed") /\ UNCHANGED text
    /\ UNCHANGED <<committed, saved, Ledger, resolve, Approval, unlogged, raced7, edits2, runs7>>

(* execute_doc_fix edits and commits the document, or restores it.           *)
FixDoc ==
    /\ p7c = "fix"
    /\ LET f == m7c.rec.file IN
       \/ /\ text[f] = m7c.rec.content
          /\ text' = [text EXCEPT ![f] = Fixed] /\ committed' = [committed EXCEPT ![f] = Fixed]
          /\ \E s \in {"done", "failed"} : Acted(s)
       \/ Acted("failed") /\ UNCHANGED <<text, committed>>
    /\ UNCHANGED <<saved, Ledger, resolve, Approval, unlogged, raced7, edits2, runs7>>

(* _journal: a write that fails keeps the record in memory.                  *)
JournalItem ==
    /\ p7c = "journal" /\ p7c' = "judge"
    /\ Puts(m7c.rec)
    /\ actions' \in {actions, {a \in actions : a.id # m7c.rec.id} \cup {m7c.rec}}
    /\ UNCHANGED <<Home7, slug, approvals, resolve, Approval, Ghosts7>>

(* At the deadline, what is left is unknown.                                 *)
EndResolve ==
    /\ p7c = "judge" /\ p7c' = "idle"
    /\ resolve' = [state |-> "whole", run |-> runs7, listed |-> m7c.listed,
                   items |-> m7c.out \cup {[NoRecord EXCEPT !.id = ItemId(f, m7c.listed), !.file = f, !.status = "unknown"] :
                                             f \in m7c.todo}]
    /\ m7c' = NoM7
    /\ UNCHANGED <<Home7, Ledger, Approval, Ghosts7>>

ResolveKilled ==
    /\ p7c # "idle" /\ p7c' = "idle" /\ m7c' = NoM7
    /\ unlogged' = (unlogged \/ ~(spent \subseteq actions \cup resolve.items))
    /\ UNCHANGED <<Home7, Ledger, resolve, Approval, spent, raced7, edits2, runs7>>

-----------------------------------------------------------------------------
(* approve: the recorded proposal, when the steward is not running.          *)

Approve(r) ==
    /\ approver = "idle" /\ p7c = "idle"
    /\ r.status = "recommended" /\ \A a \in approvals : a.id # r.id
    /\ mine' = r /\ approver' = "check"
    /\ raced7' = (raced7 \/ \E a \in actions : a.id = r.id)
    /\ UNCHANGED <<Home7, Ledger, resolve, p7c, m7c, spent, unlogged, edits2, runs7>>

Phase7 == <<resolve, p7c, m7c, Ghosts7>>
Ends7 == approver' = "idle" /\ mine' = NoRecord
Row(content) == approvals' = approvals \cup {[id |-> mine.id, action |-> mine.action, content |-> mine.content, did |-> content]}

ApprovalCheck ==
    /\ approver = "check"
    /\ \/ /\ CheckHashes(mine) /\ mine.file \notin (IF mine.action = "patch" THEN Dirty7 ELSE {})
          /\ approver' = CASE mine.action = "commit" -> "commit" [] mine.action = "revert" -> "save" [] OTHER -> "replace"
          /\ UNCHANGED mine
       \/ Ends7
    /\ UNCHANGED <<Home7, Ledger, Phase7>>

(* Not pushed is `failed', and no row that counts as an approval.            *)
ApprovalCommit ==
    /\ approver = "commit" /\ Ends7
    /\ LET f == mine.file IN
       \/ /\ mine.action = "commit" => CheckHashes(mine)
          /\ committed' = [committed EXCEPT ![f] = text[f]]
          /\ Row(text[f]) \/ UNCHANGED approvals
          /\ UNCHANGED text
       \/ /\ mine.action = "commit" /\ UNCHANGED <<text, committed, approvals>>
       \/ /\ mine.action # "commit" /\ text' = [text EXCEPT ![f] = mine.content]      \* the original text
          /\ UNCHANGED <<committed, approvals>>
    /\ UNCHANGED <<saved, actions, slug, Phase7>>

ApprovalSave ==
    /\ approver = "save" /\ approver' = "checkout"
    /\ Saves([Copy(mine) EXCEPT !.content = text[mine.file]])
    /\ UNCHANGED <<text, committed, Ledger, mine, Phase7>>

ApprovalCheckout ==
    /\ approver = "checkout" /\ Ends7
    /\ \/ text' = [text EXCEPT ![mine.file] = committed[mine.file]] /\ Row(text[mine.file])
       \/ UNCHANGED <<text, approvals>>
    /\ UNCHANGED <<committed, saved, actions, slug, Phase7>>

(* _apply_edit: the original text is saved, and the file replaced.           *)
ApprovalReplace ==
    /\ approver = "replace" /\ approver' = "commit"
    /\ Saves(Copy(mine))
    /\ text' = [text EXCEPT ![mine.file] = Fixed]
    /\ UNCHANGED <<committed, Ledger, mine, Phase7>>

ApprovalDies ==
    /\ approver # "idle" /\ Ends7
    /\ UNCHANGED <<Home7, Ledger, Phase7>>

-----------------------------------------------------------------------------
Exposed == (IF p7c \in {"save", "checkout", "fix"} THEN {m7c.rec.file} ELSE {})
           \cup (IF approver \in {"save", "checkout", "replace", "commit"} THEN {mine.file} ELSE {})

OperatorEdits(f, c) ==
    /\ edits2 < MaxEditsMade /\ edits2' = edits2 + 1
    /\ text[f] # c /\ text' = [text EXCEPT ![f] = c]
    /\ raced7' = (raced7 \/ f \in Exposed)
    /\ UNCHANGED <<committed, saved, Ledger, resolve, p7c, m7c, Approval, spent, unlogged, runs7>>

ResolverNext ==
    \/ StartResolve \/ JudgeItem \/ CheckItem \/ CommitItem \/ SaveItem \/ CheckoutItem \/ FixDoc
    \/ JournalItem \/ EndResolve \/ ResolveKilled
    \/ \E r \in resolve.items : Approve(r)
    \/ ApprovalCheck \/ ApprovalCommit \/ ApprovalSave \/ ApprovalCheckout \/ ApprovalReplace \/ ApprovalDies
    \/ \E f \in Files, c \in {1, 2} : OperatorEdits(f, c)

ResolverSpec == ResolverInit /\ [][ResolverNext]_resolverVars

-----------------------------------------------------------------------------
Texts == 0..Fixed
ItemKey == Nat \X Nat
ItemRecord ==
    [id : ItemKey, file : Files, action : {"none", "commit", "revert", "doc_fix", "patch"}, content : Texts,
     status : {"held", "recommended", "unknown", "acting", "done", "failed"}]

(* The type invariant of the resolver and the approvals.                      *)
ResolverTypeOK ==
    /\ text \in [Files -> Texts] /\ committed \in [Files -> Texts] /\ slug \in [Files -> Nat]
    /\ saved \subseteq [id : ItemKey, file : Files, content : Texts]
    /\ actions \subseteq ItemRecord /\ spent \subseteq ItemRecord
    /\ resolve \in [state : {"none", "degraded", "whole"}, run : Nat, listed : SUBSET Files, items : SUBSET ItemRecord]
    /\ approvals \subseteq [id : ItemKey, action : {"commit", "revert", "doc_fix", "patch"}, content : Texts, did : Texts]
    /\ p7c \in {"idle", "judge", "check", "commit", "save", "checkout", "fix", "journal"}
    /\ m7c \in [listed : SUBSET Files, todo : SUBSET Files, out : SUBSET ItemRecord, used : Nat,
                rec : ItemRecord \cup {NoRecord}]
    /\ approver \in {"idle", "check", "commit", "save", "checkout", "replace"}
    /\ mine \in ItemRecord \cup {NoRecord}
    /\ unlogged \in BOOLEAN /\ raced7 \in BOOLEAN /\ edits2 \in Nat /\ runs7 \in Nat

Recorded == actions \cup resolve.items \cup (IF p7c = "idle" THEN {} ELSE m7c.out)

(* A record has the slug of its file, what is recommended can be done, and    *)
(* what is recorded as executed was.                                          *)
RecordsOK ==
    \A r \in Recorded :
        /\ r.id[1] = slug[r.file]
        /\ r.status = "recommended" => r.action # "none"
        /\ Executed(r) => r \in spent

(* Every action of the night is in the journal, the artifact or the memory of *)
(* the attempt, under an id of its own, and counted.                           *)
NightOK ==
    /\ IsFiniteSet(spent) /\ \A r \in spent : Executed(r)
    /\ actions \subseteq spent
    /\ resolve.run <= runs7 /\ (p7c # "idle" => resolve.run < runs7)
    /\ ~unlogged =>
        /\ \A r, s \in spent : r.id = s.id => r = s
        /\ Cardinality(spent) <= NightCap
        /\ p7c = "idle" => spent \subseteq actions \cup resolve.items
        /\ p7c # "idle" =>
            /\ spent \subseteq m7c.out \cup (IF p7c = "journal" THEN {m7c.rec} ELSE {})
            /\ Cardinality(spent) <= m7c.used
    /\ resolve.state = "whole" /\ resolve.run = runs7 /\ ~unlogged => spent \subseteq resolve.items

SlugsDiffer == \A f, g \in Files : slug[f] = slug[g] => f = g
Has(listed, records) == \A f \in listed : \E r \in records : r.file = f

(* What is still to be judged has no record, and what has none is still to be. *)
AttemptOK ==
    /\ p7c # "idle" =>
        /\ m7c.todo \subseteq m7c.listed /\ actions \subseteq m7c.out
        /\ \A f \in m7c.todo, r \in m7c.out : r.id # ItemId(f, m7c.listed)
        /\ SlugsDiffer => Has(m7c.listed \ m7c.todo, m7c.out)
    /\ SlugsDiffer /\ resolve.state = "whole" => Has(resolve.listed, resolve.items)

(* The item that is acted on: where it stands, and what its copy is of.        *)
ActingOK ==
    /\ p7c \notin {"idle", "judge"} =>
        /\ m7c.rec.file \in m7c.todo /\ m7c.rec.id = ItemId(m7c.rec.file, m7c.listed) /\ m7c.rec.action \in Autonomous
        /\ IF p7c = "journal" THEN m7c.rec \in spent ELSE m7c.rec.status = "acting" /\ m7c.used < NightCap
    /\ p7c \in {"save", "checkout"} => m7c.rec.action = "revert"
    /\ p7c \in {"commit", "fix"} => m7c.rec.action # "revert"
    /\ ~raced7 =>
        /\ p7c = "save" => text[m7c.rec.file] = m7c.rec.content
        /\ p7c = "checkout" => Copy(m7c.rec) \in saved
        /\ p7c = "journal" /\ m7c.rec.action = "revert" => m7c.rec.status = "failed" \/ Copy(m7c.rec) \in saved

(* The approval that is under way: alone, and of a text that stays the judged  *)
(* one until the approval replaces it.                                         *)
ApprovalOK ==
    /\ approver # "idle" => mine \in ItemRecord /\ mine.action # "none"
    /\ approver \in {"save", "checkout"} => mine.action = "revert"
    /\ approver = "replace" => mine.action \in {"doc_fix", "patch"}
    /\ approver = "commit" => mine.action # "revert"
    /\ ~raced7 /\ approver # "idle" =>
        /\ p7c = "idle" /\ \A a \in actions : a.id # mine.id
        /\ approver \in {"save", "checkout"} => text[mine.file] = mine.content
        /\ approver = "commit" /\ mine.action # "commit" => text[mine.file] = Fixed

ResolverSound == RecordsOK /\ NightOK /\ AttemptOK /\ ActingOK /\ ApprovalOK

(* "They count against the nightly cap and are carried forward": however often the phase is       *)
(* repeated, a night takes no more actions than the cap, and the artifact of an attempt has every  *)
(* one of them, unless an action's only record was lost.                                             *)
ActionsCarried ==
    ~unlogged =>
        /\ Cardinality(spent) <= NightCap
        /\ resolve.state = "whole" /\ resolve.run = runs7 => spent \subseteq resolve.items

(* Every item that was collected is in the artifact, unless two had one slug.                      *)
ItemsAccounted == resolve.state = "whole" /\ SlugsDiffer => Has(resolve.listed, resolve.items)

(* "the discarded edit is saved": an edit that a revert discarded is in 07c-saved, and an approval *)
(* does what was judged to what was judged, unless they raced7.                                      *)
ExactlyAsJudged ==
    ~raced7 =>
        /\ \A r \in actions : r.action = "revert" /\ r.status = "done" => Copy(r) \in saved
        /\ \A a \in approvals : a.did = IF a.action \in {"patch", "doc_fix"} THEN Fixed ELSE a.content
=============================================================================
