----------------------------- MODULE StewardCode -----------------------------
(***************************************************************************)
(* How the steward changes its own source: it opens a pull request (P7b,  *)
(* steward/code_prs.py), merges a due one at the startup of a later night, *)
(* fast-forwards the live tree to origin/main behind the verifiers, and    *)
(* reverts on origin what the live tree did not take                       *)
(* (steward/code_pickup.py).  The operator commits, pushes and edits at    *)
(* any time, GitHub's answers may be lost, and a startup may die anywhere. *)
(*                                                                         *)
(* A commit is its position in `commits', with its parent, the line of     *)
(* history that ends in it, the paths it changes and the tree it gives (a  *)
(* revert gives its grandparent's tree).                                    *)
(***************************************************************************)
EXTENDS Naturals, FiniteSets, Sequences

CONSTANTS
    Paths,          \* the tracked paths
    MaxCommits,     \* bound: commits ever made
    MaxNights,      \* bound: nights
    MaxStarts       \* bound: startups, reruns of one night included

PullRequests == 1..2        \* bound: steward-code pull requests ever opened

ASSUME StewardCodeAssumption ==
    /\ Paths # {} /\ IsFiniteSet(Paths)
    /\ MaxCommits \in Nat \ {0} /\ MaxNights \in Nat /\ MaxStarts \in Nat

VARIABLES
    commits,    \* every commit of the repository
    origin,     \* tip of origin/main
    live,       \* HEAD of the live tree
    tree,       \* the tree on disk: a commit's, or Mixed after half a restore
    edits,      \* paths with uncommitted changes in the live tree
    prs,        \* the steward's pull requests on GitHub
    night,      \* which night it is
    starts,     \* startups so far
    stage,      \* where the steward process is
    task,       \* what it holds in memory
    trusted,    \* trees that passed the verifiers on the host, or are the operator's
    lost,       \* a startup died between moving HEAD and the verdict
    raced       \* the operator committed since this startup began

codeVars == <<commits, origin, live, tree, edits, prs, night, starts, stage, task, trusted, lost, raced>>

Mixed == 0
Commit == 1..MaxCommits
Stages == {"idle", "list", "update", "checks", "recheck", "merge", "pickup", "forward",
           "verify", "restore", "reconcile", "revert", "follow", "decide", "run", "abort"}
Picks == {"none", "failed", "unsafe", "skipped", "up_to_date", "fast_forwarded", "rolled_back"}

NoTask == [todo |-> {}, recent |-> 0, pr |-> 0, tip |-> 0, sha |-> 0, merged |-> FALSE,
           old |-> 0, new |-> 0, pick |-> "none", error |-> FALSE]

(* The commits on the line that ends in c, c included. *)
Line(c) == commits[c].line

OneLine == origin \in Line(live) \/ live \in Line(origin)

Fresh == Len(commits) + 1
NewCommit(parent, paths, content) ==
    Append(commits, [parent |-> parent, line |-> Line(parent) \cup {Fresh}, paths |-> paths, tree |-> content])
Room == Len(commits) < MaxCommits

(* What a fast-forward from `old' to `new' writes. *)
Changed(old, new) == UNION {commits[c].paths : c \in Line(new) \ Line(old)}

(* _dirty_paths *)
Dirty(paths) == paths \cap edits

(* Mutant: only the paths are looked at. *)
CanForwardClean(tip, paths) == Dirty(paths) = {}

(* _live_tree_blocker: None *)
CanForward(tip, paths) == live = tip /\ Dirty(paths) = {}

Open == {p \in PullRequests : prs[p].state = "open"}
OnGitHub(n) == {p \in PullRequests : prs[p].state = "merged" /\ prs[p].at = n}
Due(p) == prs[p].born < night

NoPr == [state |-> "none", born |-> 0, at |-> 0, base |-> 0, paths |-> {}]

(* The first pull request may be open since an earlier night. *)
CodeInit ==
    /\ commits = <<[parent |-> 0, line |-> {1}, paths |-> {}, tree |-> 1]>>
    /\ origin = 1 /\ live = 1 /\ tree = 1 /\ edits = {}
    /\ \E first \in {NoPr} \cup [state : {"open"}, born : {0}, at : {0}, base : {1}, paths : SUBSET Paths \ {{}}] :
         prs = [p \in PullRequests |-> IF p = 1 THEN first ELSE NoPr]
    /\ night = 1 /\ starts = 0 /\ stage = "idle" /\ task = NoTask
    /\ trusted = {1} /\ lost = FALSE /\ raced = FALSE

Go(s, t) == stage' = s /\ task' = t
Repository == <<commits, origin, live, tree, edits>>
Rest == <<night, starts, trusted, lost, raced>>

-----------------------------------------------------------------------------
(* merge_due_prs *)

(* A fresh run lists the open pull requests and counts the merges of the    *)
(* last MERGED_LOOKBACK; a failed listing merges nothing.                    *)
Startup ==
    /\ stage = "idle" /\ starts < MaxStarts
    /\ starts' = starts + 1 /\ raced' = FALSE
    /\ \/ Go("list", [NoTask EXCEPT !.todo = Open, !.recent = Cardinality(OnGitHub(night))])
       \/ Go("pickup", NoTask)
    /\ UNCHANGED <<Repository, prs, night, trusted, lost>>

Oldest == CHOOSE p \in task.todo : \A q \in task.todo : p <= q
NextPr == [task EXCEPT !.todo = @ \ {task.pr}, !.pr = 0]

(* Mutant: the merges of earlier startups are not counted. *)
SelectPrForgettingLimit ==
    /\ stage = "list" /\ task.todo # {}
    /\ LET p == Oldest IN
       \/ Go("list", [task EXCEPT !.todo = @ \ {p}])
       \/ /\ Due(p) /\ ~task.merged
          /\ CanForward(origin, prs[p].paths)
          /\ Go(IF prs[p].base = origin THEN "checks" ELSE "update", [task EXCEPT !.pr = p, !.tip = origin])
    /\ UNCHANGED <<Repository, prs, Rest>>

(* One pull request is passed over (held, draft, too young, over the limit, *)
(* not mergeable, unreadable, or the live tree could not take it), or its    *)
(* checks begin.                                                             *)
SelectPr ==
    /\ stage = "list" /\ task.todo # {}
    /\ LET p == Oldest IN
       \/ Go("list", [task EXCEPT !.todo = @ \ {p}])
       \/ /\ Due(p)
          /\ task.recent + (IF task.merged THEN 1 ELSE 0) < 1
          /\ CanForward(origin, prs[p].paths)
          /\ Go(IF prs[p].base = origin THEN "checks" ELSE "update", [task EXCEPT !.pr = p, !.tip = origin])
    /\ UNCHANGED <<Repository, prs, Rest>>

ListDone ==
    /\ stage = "list" /\ task.todo = {}
    /\ Go("pickup", task)
    /\ UNCHANGED <<Repository, prs, Rest>>

(* _update_branch: GitHub merges origin/main of that moment into the branch. *)
UpdateBranch ==
    /\ stage = "update"
    /\ \/ /\ prs' = [prs EXCEPT ![task.pr].base = origin]
          /\ IF origin = task.tip THEN Go("checks", task) ELSE Go("list", NextPr)
       \/ Go("list", NextPr) /\ UNCHANGED prs
    /\ UNCHANGED <<Repository, Rest>>

(* _wait_ci and _verify_pr_tree, minutes each. *)
PreMergeChecks ==
    /\ stage = "checks"
    /\ Go("recheck", task) \/ Go("list", NextPr)
    /\ UNCHANGED <<Repository, prs, Rest>>

(* The blockers are read again right before the merge. *)
Recheck ==
    /\ stage = "recheck"
    /\ IF origin = task.tip /\ CanForward(task.tip, prs[task.pr].paths)
       THEN Go("merge", task) ELSE Go("list", NextPr)
    /\ UNCHANGED <<Repository, prs, Rest>>

(* GitHub merges onto origin/main of that moment.  Its answer may say that it failed though *)
(* it merged, and the merge commit may be unreadable afterwards (sha 0).                     *)
MergePr ==
    /\ stage = "merge"
    /\ \/ /\ Room
          /\ commits' = NewCommit(origin, prs[task.pr].paths, Fresh)
          /\ origin' = Fresh
          /\ prs' = [prs EXCEPT ![task.pr].state = "merged", ![task.pr].at = night]
          /\ \/ \E sha \in {0, Fresh} : Go("list", [NextPr EXCEPT !.merged = TRUE, !.sha = sha])
             \/ Go("list", [NextPr EXCEPT !.error = TRUE])
       \/ Go("list", [NextPr EXCEPT !.error = TRUE]) /\ UNCHANGED <<commits, origin, prs>>
    /\ UNCHANGED <<live, tree, edits, Rest>>

-----------------------------------------------------------------------------
(* pickup *)

Picked(status) == Go("reconcile", [task EXCEPT !.pick = status])

Pickup ==
    /\ stage = "pickup"
    /\ \/ Picked("failed")                      \* the fetch failed
       \/ origin = live /\ Picked("up_to_date")
       \/ /\ origin # live
          /\ IF live \in Line(origin) /\ Dirty(Changed(live, origin)) = {}
             THEN Go("forward", [task EXCEPT !.old = live, !.new = origin]) ELSE Picked("skipped")
    /\ UNCHANGED <<Repository, prs, Rest>>

(* git merge --ff-only: refused when HEAD or a changed path is not as it was; a refusal *)
(* with HEAD elsewhere, or an error after HEAD moved, is unsafe.                          *)
FastForward ==
    /\ stage = "forward"
    /\ IF live \in Line(task.new) /\ Dirty(Changed(live, task.new)) = {}
       THEN /\ live' = task.new /\ tree' = commits[task.new].tree
            /\ Go("verify", task) \/ Picked("unsafe")
       ELSE /\ Picked(IF live = task.old THEN "skipped" ELSE "unsafe")
            /\ UNCHANGED <<live, tree>>
    /\ UNCHANGED <<commits, origin, edits, prs, Rest>>

VerifyLive ==
    /\ stage = "verify"
    /\ \/ Picked("fast_forwarded") /\ trusted' = trusted \cup {tree}
       \/ Go("restore", task) /\ UNCHANGED trusted
    /\ UNCHANGED <<Repository, prs, night, starts, lost, raced>>

(* Mutant: a restore that failed half-way counts as a rollback. *)
RestoreUnnoticed ==
    /\ stage = "restore"
    /\ IF live = task.new
       THEN live' = task.old /\ tree' \in {commits[task.old].tree, Mixed}
       ELSE tree' = Mixed /\ UNCHANGED live
    /\ Picked("rolled_back")
    /\ edits' = edits \ Changed(task.old, task.new)
    /\ UNCHANGED <<commits, origin, prs, Rest>>

(* _restore: exactly the changed paths go back, and the branch by compare-and-swap. *)
Restore ==
    /\ stage = "restore"
    /\ IF live = task.new
       THEN /\ live' = task.old
            /\ \/ tree' = commits[task.old].tree /\ Picked("rolled_back")
               \/ tree' = Mixed /\ Picked("unsafe")
       ELSE /\ tree' = Mixed /\ Picked("unsafe") /\ UNCHANGED live
    /\ edits' = edits \ Changed(task.old, task.new)
    /\ UNCHANGED <<commits, origin, prs, Rest>>

-----------------------------------------------------------------------------
(* _reconcile and revert_unpicked_merge *)

(* Mutant: only a rolled-back pickup is reconciled. *)
ReconcileRolledBack ==
    /\ stage = "reconcile"
    /\ IF task.pick # "rolled_back" \/ task.sha = 0 THEN Go("decide", task) ELSE Go("revert", task)
    /\ UNCHANGED <<Repository, prs, Rest>>

Reconcile ==
    /\ stage = "reconcile"
    /\ IF task.pick = "fast_forwarded" \/ task.sha = 0 \/ live = task.sha
       THEN Go("decide", task)
       ELSE IF live = task.tip THEN Go("revert", task) ELSE Go("decide", [task EXCEPT !.error = TRUE])
    /\ UNCHANGED <<Repository, prs, Rest>>

(* Only when origin is still exactly the merge, on top of the live commit; a plain push. *)
PushRevert ==
    /\ stage = "revert"
    /\ \/ /\ origin = task.sha /\ commits[task.sha].parent = task.tip /\ Room
          /\ commits' = NewCommit(task.sha, commits[task.sha].paths, commits[task.tip].tree)
          /\ origin' = Fresh
          /\ Go("follow", [task EXCEPT !.new = Fresh, !.error = TRUE])
       \/ Go("decide", [task EXCEPT !.error = TRUE]) /\ UNCHANGED <<commits, origin>>
    /\ UNCHANGED <<live, tree, edits, prs, Rest>>

(* The live tree follows: no file of it changes. *)
FollowRevert ==
    /\ stage = "follow"
    /\ \/ /\ origin = task.new /\ live \in Line(task.new) /\ Dirty(commits[task.sha].paths) = {}
          /\ live' = task.new
          /\ tree' = IF tree = Mixed THEN Mixed ELSE commits[task.new].tree
       \/ UNCHANGED <<live, tree>>
    /\ Go("decide", task)
    /\ UNCHANGED <<commits, origin, edits, prs, Rest>>

(* Mutant: no abort. *)
DecideAlwaysRun ==
    /\ stage = "decide"
    /\ Go("run", task)
    /\ UNCHANGED <<Repository, prs, Rest>>

(* abort_if_unsafe, then reexec_if_changed or main. *)
Decide ==
    /\ stage = "decide"
    /\ Go(IF task.pick = "unsafe" THEN "abort" ELSE "run", task)
    /\ UNCHANGED <<Repository, prs, Rest>>

-----------------------------------------------------------------------------
(* The run itself, and everyone else *)

(* open_steward_code_pr, after blocking_pr: one per night, none that overlaps an open one; *)
(* prepare_scratch refuses paths whose live content is not origin's.                        *)
OpenPr(paths) ==
    /\ stage = "run"
    /\ \E p \in PullRequests :
         /\ prs[p].state = "none" /\ \A q \in PullRequests : q < p => prs[q].state # "none"
         /\ \A q \in PullRequests : prs[q].state # "none" => prs[q].born # night
         /\ \A q \in Open : prs[q].paths \cap paths = {}
         /\ paths \cap edits = {} /\ paths \cap (Changed(live, origin) \cup Changed(origin, live)) = {}
         /\ prs' = [prs EXCEPT ![p] = [state |-> "open", born |-> night, at |-> 0, base |-> origin, paths |-> paths]]
    /\ UNCHANGED <<Repository, Rest, stage, task>>

(* The end of the run, with or without P9b's commit of edited paths and its push. *)
EndRun ==
    /\ stage \in {"run", "abort"}
    /\ lost' = (lost \/ stage = "abort")
    /\ Go("idle", NoTask)
    /\ UNCHANGED <<Repository, prs, night, starts, trusted, raced>>

NextNight ==
    /\ stage = "idle" /\ night < MaxNights
    /\ night' = night + 1
    /\ UNCHANGED <<Repository, prs, starts, trusted, lost, raced, stage, task>>

Die ==
    /\ stage \notin {"idle", "abort"}
    /\ lost' = (lost \/ stage \in {"verify", "restore"} \/ task.pick = "unsafe")
    /\ Go("idle", NoTask)
    /\ UNCHANGED <<Repository, prs, night, starts, trusted, raced>>

Edit(path) ==
    /\ path \notin edits
    /\ edits' = edits \cup {path}
    /\ UNCHANGED <<commits, origin, live, tree, prs, Rest, stage, task>>

(* The operator, or P9b, commits edited paths of the live tree. *)
CommitLocal ==
    /\ Room /\ edits # {} /\ tree # Mixed
    /\ commits' = NewCommit(live, edits, Fresh)
    /\ live' = Fresh /\ tree' = Fresh /\ edits' = {}
    /\ trusted' = trusted \cup {Fresh} /\ raced' = TRUE
    /\ UNCHANGED <<origin, prs, night, starts, lost, stage, task>>

Push ==
    /\ origin \in Line(live) /\ origin # live
    /\ origin' = live
    /\ UNCHANGED <<commits, live, tree, edits, prs, Rest, stage, task>>

(* A commit made elsewhere and pushed: a merge on GitHub by hand, another clone. *)
PushElsewhere(paths) ==
    /\ Room
    /\ commits' = NewCommit(origin, paths, Fresh) /\ origin' = Fresh
    /\ raced' = TRUE
    /\ UNCHANGED <<live, tree, edits, prs, night, starts, trusted, lost, stage, task>>

StewardStep ==
    \/ SelectPr \/ ListDone \/ UpdateBranch \/ PreMergeChecks \/ Recheck \/ MergePr
    \/ Pickup \/ FastForward \/ VerifyLive \/ Restore
    \/ Reconcile \/ PushRevert \/ FollowRevert \/ Decide

CodeNext ==
    \/ Startup \/ StewardStep \/ EndRun \/ NextNight \/ Die \/ CommitLocal \/ Push
    \/ \E paths \in SUBSET Paths \ {{}} : OpenPr(paths) \/ PushElsewhere(paths)
    \/ \E path \in Paths : Edit(path)

CodeSpec == CodeInit /\ [][CodeNext]_codeVars

-----------------------------------------------------------------------------
(* Properties *)

(* The type invariant of the steward's own checkout.                          *)
CodeTypeOK ==
    /\ commits \in Seq([parent : 0..MaxCommits, line : SUBSET Commit, paths : SUBSET Paths, tree : Commit])
    /\ Len(commits) \in Commit
    /\ {origin, live} \subseteq DOMAIN commits /\ tree \in {Mixed} \cup Commit
    /\ prs \in [PullRequests -> [state : {"none", "open", "merged"}, born : Nat, at : Nat,
                                 base : {0} \cup Commit, paths : SUBSET Paths]]
    /\ task \in [todo : SUBSET PullRequests, recent : Nat, pr : {0} \cup PullRequests,
                 tip : 0..Len(commits), sha : 0..Len(commits), merged : BOOLEAN,
                 old : 0..Len(commits), new : 0..Len(commits), pick : Picks, error : BOOLEAN]
    /\ edits \subseteq Paths /\ stage \in Stages /\ night \in Nat
    /\ trusted \subseteq Commit /\ {lost, raced} \subseteq BOOLEAN

(* History only grows, and a line of it has every line that a commit on it ends. *)
HistoryOK ==
    \A c \in DOMAIN commits :
        /\ c \in Line(c) /\ Line(c) \subseteq 1..c
        /\ commits[c].parent # 0 => commits[c].parent \in Line(c)
        /\ \A a \in Line(c) : Line(a) \subseteq Line(c)

Selected == {"update", "checks", "recheck", "merge"}    \* a pull request has been selected
Moving == {"forward", "verify", "restore"}              \* the pickup moves the live tree
Unpicked == {"idle", "list", "pickup"} \cup Selected \cup Moving

(* What the process holds in memory at each stage. *)
StageOK ==
    /\ stage \in Selected => task.pr # 0 /\ task.tip # 0
    /\ stage \in Moving => task.old # 0 /\ task.new # 0 /\ task.old \in Line(task.new)
    /\ stage = "verify" => task.new \in Line(live) /\ tree # Mixed
    /\ stage \in {"revert", "follow"} => task.sha # 0 /\ task.tip # 0
    /\ stage = "follow" => task.new # 0 /\ task.error
    /\ stage \in Unpicked => task.pick = "none"
    /\ stage = "run" => task.pick # "unsafe"
    /\ stage = "abort" => task.pick = "unsafe"

(* Where the startup has not noticed anything unsafe, the tree is a trusted one, but between *)
(* moving HEAD and the verdict, and what it would go back or on to is trusted as well.         *)
TreeOK ==
    /\ tree = Mixed \/ tree = commits[live].tree
    /\ ~lost /\ task.pick # "unsafe" =>
        /\ tree # Mixed
        /\ stage \notin {"verify", "restore"} => tree \in trusted
        /\ stage \in Moving => commits[task.old].tree \in trusted
        /\ stage = "revert" => commits[task.tip].tree \in trusted
        /\ stage = "follow" => commits[task.new].tree \in trusted

(* A merge of this night is counted, or known to this startup; or its answer was lost, and   *)
(* then the live tree cannot take another one before the pickup.                              *)
MergesCounted ==
    stage \in {"list"} \cup Selected /\ OnGitHub(night) # {} =>
        stage = "list" /\ (task.recent >= 1 \/ task.merged \/ origin \notin Line(live))

(* Where this startup's merge is, and where the two tips are as long as nobody else commits. *)
MergeKept ==
    /\ task.sha # 0 =>
        /\ task.sha \in Line(origin)
        /\ stage \in Moving => task.sha \in Line(task.new)
        /\ task.pick = "fast_forwarded" => task.sha \in Line(live)
        /\ stage \in {"decide", "run"} => task.sha \in Line(live) \/ task.error
    /\ ~raced =>
        /\ stage \in Selected => live = origin
        /\ stage \in Moving => origin = task.new
        /\ stage = "forward" => live = task.old /\ live # origin
        /\ stage \in {"verify", "restore"} => live = task.new
        /\ stage = "revert" => live = task.tip

(* Every fact about the checkout that the properties below rest on. *)
CodeSound == HistoryOK /\ StageOK /\ TreeOK /\ MergesCounted /\ MergeKept

(* A live tree that is no commit's is noticed: the startup that leaves one knows it is unsafe *)
(* for as long as it lives, and a later one meets it only after an abort or a death.          *)
HalfRestoreNoticed == tree = Mixed => lost \/ task.pick = "unsafe"

(* code_pickup.py:9 and abort_if_unsafe: a run of the steward executes source that the       *)
(* verifiers passed on this host or that the operator put there, unless an earlier startup    *)
(* was killed between moving HEAD and the verdict: the next one finds HEAD at origin and      *)
(* calls that up to date.                                                                     *)
RunsTrustedTree == (stage = "run" /\ ~lost) => tree \in trusted

(* At most one steward-code merge per night (code_pickup.py:24), also when the answer to a    *)
(* merge was lost and the next pull request is looked at, or the startup is run again.        *)
OneMergePerNight == \A n \in 1..MaxNights : Cardinality(OnGitHub(n)) <= 1

(* code_pickup.py:33: after a startup's own merge, the live tree and origin are one line of   *)
(* history, whatever was reverted, unless somebody else committed while it ran.               *)
StaysOneLine == [][(StewardStep /\ ~raced /\ OneLine) => OneLine']_codeVars

(* A merge the live tree did not take is not left on origin without being reported: when the  *)
(* startup lets the run begin, the tree has it, origin's tip undoes it, or an error says so.  *)
UnpickedMergeReported ==
    (stage = "run" /\ task.merged /\ task.sha # 0) => task.sha \in Line(live) \/ task.error
=============================================================================
