---------------------------- MODULE DotfilesCommit ----------------------------
(***************************************************************************)
(* Dotfiles hygiene, steward/dotfiles.py phase_9b_dotfiles: changed files  *)
(* of the home directory are classified, those unrelated to any session    *)
(* are staged, committed and pushed, and a commit whose push was held or   *)
(* failed is recorded, to be pushed by a later attempt of the same run.    *)
(* The operator and the sessions edit, stage, commit and change branches   *)
(* between any two git commands; the phase may be killed.                  *)
(*                                                                         *)
(* Contents of a file are numbers, and the last one holds a credential.    *)
(***************************************************************************)
EXTENDS Naturals, Sequences, FiniteSets

CONSTANTS
    DotPath,        \* files
    MaxContent,     \* contents: 0..MaxContent
    MaxLog,         \* bound: commits
    MaxMeddling,    \* bound: what the operator and the sessions do
    MaxTries        \* bound: attempts of the phase

ASSUME DotAssumption == MaxContent \in Nat /\ MaxLog \in Nat \ {0} /\ MaxMeddling \in Nat /\ MaxTries \in Nat

VARIABLES
    worktree, index,
    log,            \* the local history: a tree, who committed it, and what was reviewed of it
    head,           \* the branch HEAD names, or "detached"
    origin,         \* GitHub: the commit of each branch
    foreign,        \* the remote refuses pushes: it moved, or it is another repository
    sessions,       \* files in the context of active sessions
    scope,          \* files within allowed_prefixes
    p9, m9,         \* the phase, and what it has in memory
    hygiene,        \* 09b-dotfiles.json of this run
    ours,           \* the commit of this run
    crept,          \* the index was written between its comparison and the commit
    orphaned,       \* it was killed before it recorded its commit, or HEAD named no branch
    meddling, attempts9

dotVars == <<worktree, index, log, head, origin, foreign, sessions, scope, p9, m9, hygiene,
             ours, crept, orphaned, meddling, attempts9>>

Content == 0..MaxContent
Secret(c) == c = MaxContent
Branch == {"main", "topic"}
Tip == log[Len(log)].tree
NothingRead == [changed |-> {}, seen |-> {}, eligible |-> {}, reviewed |-> {}, oid |-> 0, branch |-> "none", via |-> "first"]
NoHygiene == [status |-> "none", oid |-> 0, branch |-> "none", pending |-> FALSE]

DotInit ==
    /\ worktree = [f \in DotPath |-> 0] /\ index = worktree
    /\ log = <<[tree |-> worktree, by |-> "operator", reviewed |-> {}]>>
    /\ head = "main" /\ origin = [b \in Branch |-> 1] /\ foreign = FALSE
    /\ sessions = {} /\ scope \in {DotPath, {CHOOSE f \in DotPath : TRUE}}
    /\ p9 = "idle" /\ m9 = NothingRead /\ hygiene = NoHygiene
    /\ ours = 0 /\ crept = FALSE /\ orphaned = FALSE /\ meddling = 0 /\ attempts9 = 0

(* `git status', and `git diff --cached' against HEAD.                       *)
Changed == {f \in DotPath : index[f] # Tip[f] \/ worktree[f] # index[f]}
StagedFiles == {f \in DotPath : index[f] # Tip[f]}
(* exact_path_diff and _cached_path_diff: a diff is what it changes to what. *)
DiffOf(f, tree) == [file |-> f, from |-> Tip[f], to |-> tree[f]]

Host9 == <<worktree, index, log, head, origin, foreign, sessions, scope>>
Tally == <<ours, crept, orphaned, meddling, attempts9>>
Step9(s) == p9' = s
Ends9(s) == /\ Step9("idle") /\ m9' = NothingRead
            /\ hygiene' = [status |-> s, oid |-> m9.oid, branch |-> m9.branch, pending |-> FALSE]
(* _pending_push_record: what may be pushed later is the exact commit.       *)
Holds(s) == /\ Step9("idle") /\ m9' = NothingRead
            /\ hygiene' = [status |-> s, oid |-> m9.oid, branch |-> m9.branch, pending |-> TRUE]

-----------------------------------------------------------------------------
StartHygiene ==
    /\ p9 = "idle" /\ attempts9 < MaxTries
    /\ attempts9' = attempts9 + 1
    /\ IF hygiene.pending
       THEN Step9("retry") /\ m9' = [NothingRead EXCEPT !.oid = hygiene.oid, !.branch = hygiene.branch, !.via = "retry"]
       ELSE Step9("snapshot") /\ m9' = NothingRead
    /\ UNCHANGED <<Host9, hygiene, ours, crept, orphaned, meddling>>

Snapshot ==
    /\ p9 = "snapshot"
    /\ IF Changed = {} THEN Ends9("clean")
       ELSE Step9("review") /\ m9' = [m9 EXCEPT !.changed = Changed] /\ UNCHANGED hygiene
    /\ UNCHANGED <<Host9, Tally>>

(* classify_dotfile_paths: out of scope, or in a session's context.          *)
Classified(f) == f \notin scope \/ f \in sessions
(* _sensitive_diff_reason *)
Sensitive(d) == Secret(d.to)

(* The sessions and the diffs are read; Jev calls any of the rest unrelated. *)
ReviewChanges ==
    /\ p9 = "review"
    /\ LET plain == {f \in m9.changed : ~Classified(f) /\ worktree[f] # Tip[f] /\ ~Sensitive(DiffOf(f, worktree))} IN
       \/ Ends9("skipped")
       \/ \E S \in SUBSET plain \ {{}} :
            /\ m9' = [m9 EXCEPT !.seen = sessions, !.eligible = S, !.reviewed = {DiffOf(f, worktree) : f \in S}]
            /\ Step9("race") /\ UNCHANGED hygiene
    /\ UNCHANGED <<Host9, Tally>>

RaceCheck ==
    /\ p9 = "race"
    /\ IF Changed # m9.changed \/ sessions # m9.seen THEN Ends9("ambiguous")
       ELSE Step9("diffs") /\ UNCHANGED <<m9, hygiene>>
    /\ UNCHANGED <<Host9, Tally>>

DiffCheck ==
    /\ p9 = "diffs"
    /\ IF {DiffOf(f, worktree) : f \in m9.eligible} # m9.reviewed THEN Ends9("ambiguous")
       ELSE Step9("before") /\ UNCHANGED <<m9, hygiene>>
    /\ UNCHANGED <<Host9, Tally>>

-----------------------------------------------------------------------------
(* _commit_exact_paths                                                       *)

BeforeStaging ==
    /\ p9 = "before"
    /\ IF Changed # m9.changed \/ StagedFiles # {} THEN Ends9("ambiguous")
       ELSE Step9("add") /\ UNCHANGED <<m9, hygiene>>
    /\ UNCHANGED <<Host9, Tally>>

AddExactPaths ==
    /\ p9 = "add"
    /\ index' = [f \in DotPath |-> IF f \in m9.eligible THEN worktree[f] ELSE index[f]]
    /\ Step9("staged")
    /\ UNCHANGED <<worktree, log, head, origin, foreign, sessions, scope, m9, hygiene, Tally>>

(* unstage_owned_paths, which may fail.                                      *)
Unstages == index' \in {index, [f \in DotPath |-> IF f \in m9.eligible THEN Tip[f] ELSE index[f]]}
Refuses9 == Unstages /\ Ends9("ambiguous")

StagedPathsMatch == StagedFiles = m9.eligible
StagedExactly == StagedFiles = m9.eligible /\ {DiffOf(f, index) : f \in m9.eligible} = m9.reviewed

CompareStaged ==
    /\ p9 = "staged"
    /\ IF StagedExactly THEN Step9("scan") /\ UNCHANGED <<index, m9, hygiene>> ELSE Refuses9
    /\ UNCHANGED <<worktree, log, head, origin, foreign, sessions, scope, Tally>>

(* The paths once more, and the secret scan of the staged diff.              *)
ScanStaged ==
    /\ p9 = "scan"
    /\ \/ /\ Changed = m9.changed /\ \A f \in StagedFiles : ~Secret(index[f])
          /\ Step9("commit") /\ UNCHANGED <<index, m9, hygiene>>
       \/ (Changed # m9.changed \/ \E f \in StagedFiles : Secret(index[f])) /\ Refuses9
    /\ UNCHANGED <<worktree, log, head, origin, foreign, sessions, scope, Tally>>

Commit9 ==
    /\ p9 = "commit"
    /\ \/ /\ StagedFiles # {} /\ Len(log) < MaxLog
          /\ log' = Append(log, [tree |-> index, by |-> "p9b", reviewed |-> m9.reviewed])
          /\ ours' = Len(log')
          /\ Step9("identify") /\ UNCHANGED <<index, m9, hygiene>>
       \/ Refuses9 /\ UNCHANGED <<log, ours>>
    /\ UNCHANGED <<worktree, head, origin, foreign, sessions, scope, crept, orphaned, meddling, attempts9>>

(* The commit and the branch of HEAD; without a branch, no record is kept.   *)
Identify ==
    /\ p9 = "identify"
    /\ IF head = "detached" THEN Ends9("ambiguous") /\ orphaned' = TRUE
       ELSE /\ Step9("hold") /\ m9' = [m9 EXCEPT !.oid = Len(log), !.branch = head]
            /\ UNCHANGED <<hygiene, orphaned>>
    /\ UNCHANGED <<Host9, ours, crept, meddling, attempts9>>

(* The working tree, _before_push with the sessions, and the origin.         *)
HoldForgets ==
    /\ p9 = "hold"
    /\ \/ /\ Changed = m9.changed \ m9.eligible /\ StagedFiles = {} /\ sessions = m9.seen /\ ~foreign
          /\ Step9("push") /\ UNCHANGED <<m9, hygiene>>
       \/ (Changed # m9.changed \ m9.eligible \/ StagedFiles # {} \/ sessions # m9.seen) /\ Ends9("push_pending")
       \/ foreign /\ Holds("push_blocked")
    /\ UNCHANGED <<Host9, Tally>>

HoldPush ==
    /\ p9 = "hold"
    /\ \/ /\ Changed = m9.changed \ m9.eligible /\ StagedFiles = {} /\ sessions = m9.seen /\ ~foreign
          /\ Step9("push") /\ UNCHANGED <<m9, hygiene>>
       \/ (Changed # m9.changed \ m9.eligible \/ StagedFiles # {} \/ sessions # m9.seen) /\ Holds("push_pending")
       \/ foreign /\ Holds("push_blocked")
    /\ UNCHANGED <<Host9, Tally>>

-----------------------------------------------------------------------------
(* The push, of the first attempt and of _retry_pending_push.  It may reach  *)
(* GitHub and still report failure.                                          *)

PushExact ==
    /\ p9 = "push"
    /\ \/ /\ ~foreign /\ origin[m9.branch] <= m9.oid
          /\ origin' = [origin EXCEPT ![m9.branch] = m9.oid]
          /\ \/ Step9("verify") /\ UNCHANGED <<m9, hygiene>>
             \/ Holds("push_failed")
       \/ Holds("push_failed") /\ UNCHANGED origin
    /\ UNCHANGED <<worktree, index, log, head, foreign, sessions, scope, Tally>>

VerifyRemote ==
    /\ p9 = "verify"
    /\ \/ origin[m9.branch] = m9.oid /\ ~foreign /\ Ends9("committed")
       \/ Holds("remote_unverified")
    /\ UNCHANGED <<Host9, Tally>>

(* Only from the recorded branch and commit, and a clean tree.               *)
RetryPending ==
    /\ p9 = "retry"
    /\ IF head = m9.branch /\ Len(log) = m9.oid /\ Changed = {}
       THEN Step9("reached") /\ UNCHANGED <<m9, hygiene>>
       ELSE Holds("pending_diverged")
    /\ UNCHANGED <<Host9, Tally>>

(* The push may have reached the remote before it reported failure; else the *)
(* commit is scanned before it is pushed.                                     *)
RetryReached ==
    /\ p9 = "reached"
    /\ \/ origin[m9.branch] = m9.oid /\ ~foreign /\ Ends9("committed")
       \/ /\ origin[m9.branch] # m9.oid \/ foreign
          /\ LET c == log[m9.oid].tree  from == log[m9.oid - 1].tree IN
             IF foreign \/ \E f \in DotPath : c[f] # from[f] /\ Secret(c[f]) THEN Holds("push_blocked")
             ELSE Step9("push") /\ UNCHANGED <<m9, hygiene>>
    /\ UNCHANGED <<Host9, Tally>>

HygieneKilled ==
    /\ p9 # "idle" /\ Step9("idle") /\ m9' = NothingRead
    /\ orphaned' = (orphaned \/ p9 \in {"identify", "hold", "push", "verify"})
    /\ UNCHANGED <<Host9, hygiene, ours, crept, meddling, attempts9>>

(* The next night writes to a directory of its own.                          *)
NextRun ==
    /\ p9 = "idle" /\ hygiene # NoHygiene
    /\ hygiene' = NoHygiene /\ ours' = 0 /\ orphaned' = FALSE
    /\ UNCHANGED <<Host9, p9, m9, crept, meddling, attempts9>>

-----------------------------------------------------------------------------
(* The operator and the sessions                                             *)

Meddles == meddling < MaxMeddling /\ meddling' = meddling + 1
Late == p9 \in {"scan", "commit"}
Phase9 == <<p9, m9, hygiene, ours, orphaned, attempts9>>

EditFile(f, c) ==
    /\ Meddles /\ worktree[f] # c /\ worktree' = [worktree EXCEPT ![f] = c]
    /\ UNCHANGED <<index, log, head, origin, foreign, sessions, scope, crept, Phase9>>

StageByHand(f) ==
    /\ Meddles /\ index[f] # worktree[f] /\ index' = [index EXCEPT ![f] = worktree[f]]
    /\ crept' = (crept \/ Late)
    /\ UNCHANGED <<worktree, log, head, origin, foreign, sessions, scope, Phase9>>

CommitByHand ==
    /\ Meddles /\ StagedFiles # {} /\ Len(log) < MaxLog
    /\ log' = Append(log, [tree |-> index, by |-> "operator", reviewed |-> {}])
    /\ crept' = (crept \/ Late)
    /\ UNCHANGED <<worktree, index, head, origin, foreign, sessions, scope, Phase9>>

SessionMoves(S) ==
    /\ Meddles /\ S # sessions /\ sessions' = S
    /\ UNCHANGED <<worktree, index, log, head, origin, foreign, scope, crept, Phase9>>

CheckOut(b) ==
    /\ Meddles /\ head # b /\ head' = b
    /\ UNCHANGED <<worktree, index, log, origin, foreign, sessions, scope, crept, Phase9>>

OriginMoves ==
    /\ Meddles /\ foreign' = ~foreign
    /\ UNCHANGED <<worktree, index, log, head, origin, sessions, scope, crept, Phase9>>

DotNext ==
    \/ StartHygiene \/ Snapshot \/ ReviewChanges \/ RaceCheck \/ DiffCheck
    \/ BeforeStaging \/ AddExactPaths \/ CompareStaged \/ ScanStaged \/ Commit9 \/ Identify
    \/ HoldPush \/ PushExact \/ VerifyRemote \/ RetryPending \/ RetryReached \/ HygieneKilled \/ NextRun
    \/ \E f \in DotPath : StageByHand(f) \/ \E c \in Content : EditFile(f, c)
    \/ CommitByHand \/ OriginMoves
    \/ \E S \in SUBSET DotPath : SessionMoves(S)
    \/ \E b \in Branch \cup {"detached"} : CheckOut(b)

DotSpec == DotInit /\ [][DotNext]_dotVars

-----------------------------------------------------------------------------
Trees == [DotPath -> Content]
Diffs == [file : DotPath, from : Content, to : Content]
Stages9 == {"idle", "snapshot", "review", "race", "diffs", "before", "add", "staged", "scan", "commit", "identify",
            "hold", "push", "verify", "retry", "reached"}

(* The type invariant of the dotfiles repository and its records.             *)
DotTypeOK ==
    /\ worktree \in Trees /\ index \in Trees
    /\ log \in Seq([tree : Trees, by : {"operator", "p9b"}, reviewed : SUBSET Diffs])
    /\ Len(log) \in 1..MaxLog /\ origin \in [Branch -> 1..Len(log)] /\ head \in Branch \cup {"detached"}
    /\ p9 \in Stages9 /\ ours \in 0..Len(log)
    /\ m9 \in [changed : SUBSET DotPath, seen : SUBSET DotPath, eligible : SUBSET DotPath, reviewed : SUBSET Diffs,
              oid : 0..Len(log), branch : Branch \cup {"none"}, via : {"first", "retry"}]
    /\ hygiene.oid \in 0..Len(log) /\ hygiene.branch \in Branch \cup {"none"} /\ hygiene.pending \in BOOLEAN
    /\ sessions \subseteq DotPath /\ foreign \in BOOLEAN /\ crept \in BOOLEAN /\ orphaned \in BOOLEAN
    /\ meddling \in Nat /\ attempts9 \in Nat

(* What a commit changes, from what to what. *)
Written(from, to) == {[file |-> f, from |-> from[f], to |-> to[f]] : f \in {g \in DotPath : from[g] # to[g]}}

OnGitHub(n) == \E b \in Branch : origin[b] >= n

(* What the phase relies on between its steps: past the comparison the index  *)
(* is what was reviewed; what it holds or recorded is the exact commit, on a   *)
(* branch; and until a record replaces it the commit of this run is in memory, *)
(* on record or on GitHub.                                                      *)
HygieneSound ==
    /\ p9 \in {"scan", "commit"} /\ ~crept => StagedExactly
    /\ p9 \in {"hold", "push", "verify", "retry", "reached"} => m9.branch \in Branch
    /\ p9 \in {"retry", "reached"} => hygiene.pending /\ m9.oid = hygiene.oid
    /\ hygiene.pending => hygiene.branch \in Branch
    /\ hygiene.status = "committed" => hygiene.branch \in Branch /\ origin[hygiene.branch] >= hygiene.oid
    /\ ours # 0 /\ ~orphaned =>
         /\ p9 \in {"snapshot", "review", "race", "diffs", "before", "add", "staged", "scan", "commit"} => OnGitHub(ours)
         /\ p9 \in {"hold", "push", "verify", "retry", "reached"} => m9.oid >= ours \/ OnGitHub(ours)
         /\ p9 = "idle" => (hygiene.pending /\ hygiene.oid >= ours) \/ OnGitHub(ours)

(* "Commit only staged bytes identical to the diffs reviewed by the gate": whatever is edited or  *)
(* committed meanwhile, a commit of the steward changes what was reviewed, from what it was to     *)
(* what it was to become, unless the index was written behind its back after it was compared.      *)
ReviewedBytes ==
    ~crept => \A n \in 2..Len(log) : log[n].by = "p9b" =>
        Written(log[n-1].tree, log[n].tree) \subseteq log[n].reviewed

(* A commit of this run is on GitHub or recorded for an exact retry, unless the phase was killed    *)
(* behind it or HEAD was detached; and one that is called committed is on GitHub.                   *)
CommitAccounted ==
    p9 = "idle" =>
        /\ (ours # 0 /\ ~orphaned) => (hygiene.pending /\ hygiene.oid >= ours) \/ OnGitHub(ours)
        /\ hygiene.status = "committed" => origin[hygiene.branch] >= hygiene.oid
=============================================================================
