--------------------------- MODULE StewardCodeProofs ---------------------------
(***************************************************************************)
(* Proofs about StewardCode, for any paths, commits, nights and startups.  *)
(*                                                                         *)
(* CodeInv is inductive.  It says what the line of history of a commit is, *)
(* what the process knows at each stage, which trees are trusted when, how *)
(* a merge of the night is counted, and where a startup's own merge is.    *)
(* Every property of the module follows from it, and that one line of      *)
(* history stays one line from it and the actions that move a tip.          *)
(***************************************************************************)
EXTENDS StewardCode, FiniteSetTheorems, TLAPS

OnePerNight == \A n \in Nat : \A p, q \in OnGitHub(n) : p = q

CodeInv == CodeTypeOK /\ CodeSound /\ OnePerNight

CommitRecord == [parent : 0..MaxCommits, line : SUBSET Commit, paths : SUBSET Paths, tree : Commit]

-----------------------------------------------------------------------------
(* History *)

(* A new commit leaves the others as they are, and its line is its parent's and itself: what *)
(* every action that commits does to history.                                                 *)
LEMMA CommitExtends ==
    ASSUME CodeTypeOK, HistoryOK, Room,
           NEW parent \in DOMAIN commits, NEW paths \in SUBSET Paths, NEW content \in Commit,
           commits' = NewCommit(parent, paths, content)
    PROVE  /\ Fresh \in Commit /\ Len(commits') = Fresh /\ commits' \in Seq(CommitRecord)
           /\ DOMAIN commits' = DOMAIN commits \cup {Fresh} /\ Fresh \notin DOMAIN commits
           /\ \A c \in DOMAIN commits : commits'[c] = commits[c] /\ Fresh \notin commits[c].line
           /\ commits'[Fresh] = [parent |-> parent, line |-> Line(parent) \cup {Fresh}, paths |-> paths, tree |-> content]
           /\ HistoryOK'
<1>1. /\ commits \in Seq(CommitRecord) /\ Len(commits) \in Nat /\ Len(commits) < MaxCommits /\ MaxCommits \in Nat
      /\ DOMAIN commits = 1..Len(commits)
  BY StewardCodeAssumption DEF CodeTypeOK, CommitRecord, Room, Commit
<1>2. /\ parent \in 0..MaxCommits /\ parent \in Nat /\ Fresh \in Commit /\ DOMAIN commits \subseteq Commit
  BY <1>1 DEF Fresh, Commit
<1>3. Line(parent) \cup {Fresh} \subseteq Commit
  BY <1>1, <1>2 DEF HistoryOK, Line, Commit
<1>4. [parent |-> parent, line |-> Line(parent) \cup {Fresh}, paths |-> paths, tree |-> content] \in CommitRecord
  BY <1>2, <1>3 DEF CommitRecord
<1>5. /\ commits' \in Seq(CommitRecord) /\ Len(commits') = Fresh
      /\ \A c \in DOMAIN commits : commits'[c] = commits[c]
      /\ commits'[Fresh] = [parent |-> parent, line |-> Line(parent) \cup {Fresh}, paths |-> paths, tree |-> content]
  BY <1>1, <1>4 DEF NewCommit, Fresh
<1>6. DOMAIN commits' = 1..Fresh
  BY <1>5
<1>7. DOMAIN commits' = DOMAIN commits \cup {Fresh} /\ Fresh \notin DOMAIN commits
  BY <1>1, <1>6 DEF Fresh
<1>8. \A c \in DOMAIN commits : Fresh \notin commits[c].line
  BY <1>1 DEF HistoryOK, Line, Fresh
<1>9. HistoryOK'
  <2> SUFFICES ASSUME NEW c \in DOMAIN commits'
               PROVE  /\ c \in commits'[c].line /\ commits'[c].line \subseteq 1..c
                      /\ commits'[c].parent # 0 => commits'[c].parent \in commits'[c].line
                      /\ \A a \in commits'[c].line : commits'[a].line \subseteq commits'[c].line
    BY DEF HistoryOK, Line
  <2>1. CASE c \in DOMAIN commits
    <3>1. \A a \in commits[c].line : a \in DOMAIN commits
      BY <1>1, <2>1 DEF HistoryOK, Line
    <3> QED  BY <1>5, <2>1, <3>1 DEF HistoryOK, Line
  <2>2. CASE c = Fresh
    <3>1. commits[parent].line \subseteq 1..parent /\ parent \in commits[parent].line /\ commits[parent].line \subseteq DOMAIN commits
      BY <1>1 DEF HistoryOK, Line
    <3>2. \A a \in commits[parent].line : commits'[a].line \subseteq commits[parent].line
      BY <1>5, <3>1 DEF HistoryOK, Line
    <3>3. commits'[c].line = commits[parent].line \cup {Fresh} /\ commits'[c].parent = parent
      BY <1>5, <2>2 DEF Line
    <3>4. commits'[c].line \subseteq 1..c
      BY <1>1, <2>2, <3>1, <3>3 DEF Fresh
    <3> QED  BY <2>2, <3>1, <3>2, <3>3, <3>4
  <2> QED  BY <1>7, <2>1, <2>2
<1> QED  BY <1>2, <1>5, <1>7, <1>8, <1>9

(* Two commits on each other's lines are one. *)
LEMMA LinesAreOrders ==
    ASSUME HistoryOK, NEW a \in DOMAIN commits, NEW b \in DOMAIN commits, DOMAIN commits \subseteq Nat,
           a \in Line(b), b \in Line(a)
    PROVE  a = b
BY DEF HistoryOK, Line

(* What changes nothing of the repository keeps its history. *)
LEMMA HistoryStill == ASSUME HistoryOK, UNCHANGED commits PROVE HistoryOK'
BY DEF HistoryOK, Line


-----------------------------------------------------------------------------
(* The task *)

(* What the process may hold, of a history of n commits. *)
Tasks(n) == [todo : SUBSET PullRequests, recent : Nat, pr : {0} \cup PullRequests,
             tip : 0..n, sha : 0..n, merged : BOOLEAN,
             old : 0..n, new : 0..n, pick : Picks, error : BOOLEAN]

Here == Tasks(Len(commits))

LEMMA Tips == ASSUME CodeTypeOK PROVE
    /\ Len(commits) \in Nat /\ DOMAIN commits = 1..Len(commits) /\ DOMAIN commits \subseteq Commit
    /\ {origin, live} \subseteq 0..Len(commits) /\ {origin, live} \subseteq Nat
    /\ \A c \in DOMAIN commits : commits[c] \in CommitRecord
    /\ task \in Here
<1>1. commits \in Seq(CommitRecord) /\ Len(commits) \in Commit /\ MaxCommits \in Nat
  BY StewardCodeAssumption DEF CodeTypeOK, CommitRecord
<1>2. Len(commits) \in Nat /\ DOMAIN commits = 1..Len(commits) /\ DOMAIN commits \subseteq Commit
  BY <1>1 DEF Commit
<1>3. {origin, live} \subseteq DOMAIN commits
  BY DEF CodeTypeOK
<1>4. \A c \in DOMAIN commits : commits[c] \in CommitRecord
  BY <1>1, <1>2
<1>5. task \in Here
  BY DEF CodeTypeOK, Here, Tasks
<1> QED  BY <1>2, <1>3, <1>4, <1>5

(* Each thing the process learns leaves it with a task. *)
LEMMA TaskUpdates == ASSUME CodeTypeOK PROVE
    /\ NoTask \in Here /\ NextPr \in Here
    /\ \A e \in BOOLEAN : [NextPr EXCEPT !.error = e] \in Here /\ [task EXCEPT !.error = e] \in Here
    /\ \A open \in SUBSET PullRequests, k \in Nat : [NoTask EXCEPT !.todo = open, !.recent = k] \in Here
    /\ \A open \in SUBSET PullRequests : [task EXCEPT !.todo = open] \in Here
    /\ \A p \in PullRequests : [task EXCEPT !.pr = p, !.tip = origin] \in Here
    /\ [task EXCEPT !.old = live, !.new = origin] \in Here
    /\ \A x \in Picks : [task EXCEPT !.pick = x] \in Here
<1>1. task \in Here /\ Len(commits) \in Nat /\ {origin, live} \subseteq 0..Len(commits)
  BY Tips
<1>2. NoTask \in Here
  BY <1>1 DEF Here, Tasks, NoTask, Picks
<1>3. NextPr \in Here
  BY <1>1 DEF Here, Tasks, NextPr
<1> QED  BY <1>1, <1>2, <1>3 DEF Here, Tasks

(* The pull requests that GitHub merged in one night can be counted. *)
LEMMA MergesFinite == ASSUME NEW n
    PROVE  /\ OnGitHub(n) \subseteq PullRequests /\ Cardinality(OnGitHub(n)) \in Nat
           /\ OnGitHub(n) # {} => Cardinality(OnGitHub(n)) >= 1
<1>1. OnGitHub(n) \subseteq PullRequests
  BY DEF OnGitHub
<1>2. IsFiniteSet(PullRequests)
  <2>1. 1 \in Int /\ 2 \in Int
    OBVIOUS
  <2> QED  BY <2>1, FS_Interval, Zenon DEF PullRequests
<1>3. IsFiniteSet(OnGitHub(n)) /\ Cardinality(OnGitHub(n)) \in Nat
  BY <1>1, <1>2, FS_Subset, FS_CardinalityType
<1>4. OnGitHub(n) # {} => Cardinality(OnGitHub(n)) # 0
  BY <1>3, FS_EmptySet
<1> QED  BY <1>1, <1>3, <1>4

LEMMA OldestIsListed == ASSUME task.todo \subseteq PullRequests, task.todo # {} PROVE Oldest \in task.todo
<1>1. \E p \in task.todo : \A q \in task.todo : p <= q
  <2>1. CASE 1 \in task.todo
    BY <2>1 DEF PullRequests
  <2>2. CASE 1 \notin task.todo
    BY <2>2 DEF PullRequests
  <2> QED  BY <2>1, <2>2
<1> QED  BY <1>1 DEF Oldest

(* A step that adds no commit and leaves GitHub alone keeps what is said of them. *)
LEMMA Moves ==
    ASSUME CodeInv, UNCHANGED <<commits, prs>>,
           {origin', live'} \subseteq DOMAIN commits, tree' \in {Mixed} \cup Commit, edits' \subseteq Paths,
           task' \in Here, stage' \in Stages, night' \in Nat,
           trusted' \subseteq Commit, {lost', raced'} \subseteq BOOLEAN
    PROVE  CodeTypeOK' /\ HistoryOK' /\ OnePerNight' /\ \A n : OnGitHub(n)' = OnGitHub(n)
<1>1. CodeTypeOK'
  BY DEF CodeInv, CodeTypeOK, Here, Tasks
<1>2. HistoryOK'
  BY HistoryStill DEF CodeInv, CodeSound
<1>3. \A n : OnGitHub(n)' = OnGitHub(n)
  BY DEF OnGitHub
<1> QED  BY <1>1, <1>2, <1>3 DEF CodeInv, OnePerNight

(* So does one that moves nothing. *)
LEMMA Control ==
    ASSUME CodeInv, UNCHANGED <<Repository, prs>>,
           task' \in Here, stage' \in Stages, night' \in Nat,
           trusted' \subseteq Commit, {lost', raced'} \subseteq BOOLEAN
    PROVE  CodeTypeOK' /\ HistoryOK' /\ OnePerNight' /\ \A n : OnGitHub(n)' = OnGitHub(n)
<1>1. /\ UNCHANGED <<commits, prs>> /\ {origin', live'} \subseteq DOMAIN commits
      /\ tree' \in {Mixed} \cup Commit /\ edits' \subseteq Paths
  BY DEF CodeInv, CodeTypeOK, Repository
<1> QED  BY <1>1, Moves

(* A step that commits keeps the types. *)
LEMMA Commits ==
    ASSUME CodeInv, Room, UNCHANGED <<prs, night>>,
           NEW parent \in DOMAIN commits, NEW paths \in SUBSET Paths, NEW content \in Commit,
           commits' = NewCommit(parent, paths, content),
           origin' \in {origin, Fresh}, live' \in {live, Fresh}, tree' \in {tree, Fresh},
           edits' \subseteq Paths, task' \in Tasks(Fresh), stage' \in Stages,
           trusted' \subseteq Commit, {lost', raced'} \subseteq BOOLEAN
    PROVE  /\ CodeTypeOK' /\ OnePerNight' /\ \A n : OnGitHub(n)' = OnGitHub(n)
           /\ Here \subseteq Tasks(Fresh) /\ Fresh \in Commit
<1>1. CodeTypeOK /\ HistoryOK /\ OnePerNight
  BY DEF CodeInv, CodeSound
<1>2. /\ Fresh \in Commit /\ Len(commits') = Fresh /\ commits' \in Seq(CommitRecord)
      /\ DOMAIN commits' = DOMAIN commits \cup {Fresh}
  BY <1>1, CommitExtends
<1>3. commits' \in Seq([parent : 0..MaxCommits, line : SUBSET Commit, paths : SUBSET Paths, tree : Commit])
  BY <1>2 DEF CommitRecord
<1>4. task' \in [todo : SUBSET PullRequests, recent : Nat, pr : {0} \cup PullRequests,
                 tip : 0..Len(commits)', sha : 0..Len(commits)', merged : BOOLEAN,
                 old : 0..Len(commits)', new : 0..Len(commits)', pick : Picks, error : BOOLEAN]
  BY <1>2 DEF Tasks
<1>5. {origin, live}' \subseteq DOMAIN commits' /\ tree' \in {Mixed} \cup Commit
  BY <1>1, <1>2 DEF CodeTypeOK
<1>6. CodeTypeOK'
  BY <1>1, <1>2, <1>3, <1>4, <1>5 DEF CodeTypeOK
<1>7. OnePerNight' /\ \A n : OnGitHub(n)' = OnGitHub(n)
  BY <1>1 DEF OnePerNight, OnGitHub
<1>8. Here \subseteq Tasks(Fresh)
  BY <1>1, Tips DEF Here, Tasks, Fresh
<1> QED  BY <1>2, <1>6, <1>7, <1>8

-----------------------------------------------------------------------------
(* Every action keeps the invariant *)

(* A startup counts the merges of its night, or knows of none and merges none. *)
LEMMA StartupKeeps == ASSUME CodeInv, Startup PROVE CodeInv'
<1> DEFINE fresh == [NoTask EXCEPT !.todo = Open, !.recent = Cardinality(OnGitHub(night))]
<1>1. Open \in SUBSET PullRequests /\ Cardinality(OnGitHub(night)) \in Nat
  BY MergesFinite DEF Open
<1>2. /\ stage = "idle"
      /\ \/ stage' = "list" /\ task' = fresh
         \/ stage' = "pickup" /\ task' = NoTask
      /\ raced' = FALSE /\ UNCHANGED <<commits, origin, live, tree, edits, prs, night, trusted, lost>>
  <2>1. stage = "idle" /\ raced' = FALSE /\ UNCHANGED <<commits, origin, live, tree, edits, prs, night, trusted, lost>>
    BY DEF Startup, Repository
  <2>2. Go("list", fresh) \/ Go("pickup", NoTask)
    BY DEF Startup
  <2> QED  BY <2>1, <2>2 DEF Go
<1>3. task' \in Here /\ stage' \in Stages
  BY <1>1, <1>2, TaskUpdates DEF CodeInv, Stages
<1>4. CodeTypeOK' /\ HistoryOK' /\ OnePerNight' /\ \A n : OnGitHub(n)' = OnGitHub(n)
  BY <1>2, <1>3, Control DEF CodeInv, CodeTypeOK, Repository
<1>5. task'.pick = "none" /\ task'.sha = 0 /\ (stage' = "list" => task'.recent = Cardinality(OnGitHub(night)))
  <2>1. CASE stage' = "list" /\ task' = fresh
    BY <2>1 DEF NoTask
  <2>2. CASE stage' = "pickup" /\ task' = NoTask
    BY <2>2 DEF NoTask
  <2> QED  BY <1>2, <2>1, <2>2
<1>6. StageOK'
  BY <1>2, <1>5 DEF StageOK, Selected, Moving, Unpicked
<1>7. TreeOK'
  BY <1>2, <1>5 DEF CodeInv, CodeSound, TreeOK, StageOK, Selected, Moving, Unpicked
<1>8. MergesCounted'
  <2>1. OnGitHub(night) # {} => Cardinality(OnGitHub(night)) >= 1
    BY MergesFinite
  <2>2. OnGitHub(night)' = OnGitHub(night)
    BY <1>2 DEF OnGitHub
  <2> QED  BY <1>2, <1>5, <2>1, <2>2 DEF MergesCounted, Selected
<1>9. MergeKept'
  BY <1>2, <1>5 DEF MergeKept, Selected, Moving
<1> QED  BY <1>4, <1>6, <1>7, <1>8, <1>9 DEF CodeInv, CodeSound

(* A pull request is selected only by a startup that has counted no merge, on a live tree that is origin: *)
(* then GitHub has none of this night, for a lost answer would have left origin ahead of the tree. *)
LEMMA SelectPrKeeps == ASSUME CodeInv, SelectPr PROVE CodeInv'
<1>1. /\ stage = "list" /\ Oldest \in task.todo /\ Oldest \in PullRequests
      /\ UNCHANGED <<commits, origin, live, tree, edits, prs, night, starts, trusted, lost, raced>>
  BY OldestIsListed DEF CodeInv, CodeTypeOK, SelectPr, Rest, Repository
<1>2. \/ stage' = "list" /\ task' = [task EXCEPT !.todo = @ \ {Oldest}]
      \/ /\ task.recent + (IF task.merged THEN 1 ELSE 0) < 1 /\ live = origin
         /\ stage' \in {"update", "checks"} /\ task' = [task EXCEPT !.pr = Oldest, !.tip = origin]
  BY DEF SelectPr, Go, CanForward
<1>3. task' \in Here /\ stage' \in Stages
  <2>1. task.todo \ {Oldest} \in SUBSET PullRequests
    BY DEF CodeInv, CodeTypeOK
  <2> QED  BY <1>1, <1>2, <2>1, TaskUpdates DEF CodeInv, Stages
<1>4. CodeTypeOK' /\ HistoryOK' /\ OnePerNight' /\ \A n : OnGitHub(n)' = OnGitHub(n)
  BY <1>1, <1>3, Control DEF CodeInv, CodeTypeOK, Repository
<1>5. task \in Here /\ origin \in DOMAIN commits /\ origin # 0
  BY Tips DEF CodeInv, CodeTypeOK
<1>6. /\ task'.pick = task.pick /\ task'.sha = task.sha /\ task'.recent = task.recent
      /\ task'.merged = task.merged /\ task'.error = task.error
      /\ stage' # "list" => task'.pr = Oldest /\ task'.tip = origin
  BY <1>2, <1>5 DEF Here, Tasks
<1>7. StageOK'
  BY <1>1, <1>2, <1>5, <1>6 DEF CodeInv, CodeSound, StageOK, Selected, Moving, Unpicked, PullRequests
<1>8. TreeOK'
  BY <1>1, <1>2, <1>6 DEF CodeInv, CodeSound, TreeOK, StageOK, Selected, Moving, Unpicked
<1>9. MergesCounted'
  <2>1. stage' # "list" => task.recent = 0 /\ ~task.merged /\ origin \in Line(live)
    BY <1>2, <1>5 DEF CodeInv, CodeSound, HistoryOK, Here, Tasks
  <2>2. OnGitHub(night)' = OnGitHub(night)
    BY <1>1 DEF OnGitHub
  <2> QED  BY <1>1, <1>2, <1>6, <2>1, <2>2 DEF CodeInv, CodeSound, MergesCounted, Selected, Line
<1>10. MergeKept'
  BY <1>1, <1>2, <1>6 DEF CodeInv, CodeSound, MergeKept, StageOK, Selected, Moving, Unpicked, Line
<1> QED  BY <1>4, <1>7, <1>8, <1>9, <1>10 DEF CodeInv, CodeSound

(* The merges end and the pickup begins. *)
LEMMA ListDoneKeeps == ASSUME CodeInv, ListDone PROVE CodeInv'
<1>1. task' \in Here /\ stage' \in Stages
  BY Tips, TaskUpdates DEF CodeInv, ListDone, Go, Stages, Picks
<1>2. CodeTypeOK' /\ HistoryOK' /\ OnePerNight' /\ \A n : OnGitHub(n)' = OnGitHub(n)
  BY <1>1, Control DEF CodeInv, CodeTypeOK, ListDone, Rest, Repository
<1>3. StageOK'
  BY Tips DEF CodeInv, CodeSound, CodeTypeOK, StageOK, Selected, Moving, Unpicked, Line, ListDone, Go, Rest, Repository, Stages
<1>4. TreeOK'
  BY DEF CodeInv, CodeSound, TreeOK, StageOK, Selected, Moving, Unpicked, ListDone, Go, Rest, Repository, Stages
<1>5. MergesCounted'
  BY <1>2 DEF CodeInv, CodeSound, MergesCounted, Selected, Line, ListDone, Go, Rest, Repository, Stages
<1>6. MergeKept'
  BY Tips DEF CodeInv, CodeSound, CodeTypeOK, MergeKept, StageOK, Selected, Moving, Unpicked, Line, ListDone, Go, Rest, Repository, Stages
<1> QED  BY <1>2, <1>3, <1>4, <1>5, <1>6 DEF CodeInv, CodeSound

(* Checks decide only whether the merge goes on. *)
LEMMA PreMergeChecksKeeps == ASSUME CodeInv, PreMergeChecks PROVE CodeInv'
<1>1. task' \in Here /\ stage' \in Stages
  BY Tips, TaskUpdates DEF CodeInv, PreMergeChecks, NextPr, Go, Stages, Picks
<1>2. CodeTypeOK' /\ HistoryOK' /\ OnePerNight' /\ \A n : OnGitHub(n)' = OnGitHub(n)
  BY <1>1, Control DEF CodeInv, CodeTypeOK, PreMergeChecks, Rest, Repository
<1>3. StageOK'
  BY Tips DEF CodeInv, CodeSound, CodeTypeOK, StageOK, Selected, Moving, Unpicked, Line, PreMergeChecks, NextPr, Go, Rest, Repository, Stages
<1>4. TreeOK'
  BY DEF CodeInv, CodeSound, TreeOK, StageOK, Selected, Moving, Unpicked, PreMergeChecks, NextPr, Go, Rest, Repository, Stages
<1>5. MergesCounted'
  BY <1>2 DEF CodeInv, CodeSound, MergesCounted, Selected, Line, PreMergeChecks, NextPr, Go, Rest, Repository, Stages
<1>6. MergeKept'
  BY Tips DEF CodeInv, CodeSound, CodeTypeOK, MergeKept, StageOK, Selected, Moving, Unpicked, Line, PreMergeChecks, NextPr, Go, Rest, Repository, Stages
<1> QED  BY <1>2, <1>3, <1>4, <1>5, <1>6 DEF CodeInv, CodeSound

(* So do the blockers that are read again. *)
LEMMA RecheckKeeps == ASSUME CodeInv, Recheck PROVE CodeInv'
<1>1. task' \in Here /\ stage' \in Stages
  BY Tips, TaskUpdates DEF CodeInv, Recheck, NextPr, Go, Stages, Picks
<1>2. CodeTypeOK' /\ HistoryOK' /\ OnePerNight' /\ \A n : OnGitHub(n)' = OnGitHub(n)
  BY <1>1, Control DEF CodeInv, CodeTypeOK, Recheck, Rest, Repository
<1>3. StageOK'
  BY Tips DEF CodeInv, CodeSound, CodeTypeOK, StageOK, Selected, Moving, Unpicked, Line, Recheck, NextPr, Go, Rest, Repository, Stages
<1>4. TreeOK'
  BY DEF CodeInv, CodeSound, TreeOK, StageOK, Selected, Moving, Unpicked, Recheck, NextPr, Go, Rest, Repository, Stages
<1>5. MergesCounted'
  BY <1>2 DEF CodeInv, CodeSound, MergesCounted, Selected, Line, Recheck, NextPr, Go, Rest, Repository, Stages
<1>6. MergeKept'
  BY Tips DEF CodeInv, CodeSound, CodeTypeOK, MergeKept, StageOK, Selected, Moving, Unpicked, Line, Recheck, NextPr, Go, Rest, Repository, Stages
<1> QED  BY <1>2, <1>3, <1>4, <1>5, <1>6 DEF CodeInv, CodeSound

(* The pickup remembers a trusted tree to go back to. *)
LEMMA PickupKeeps == ASSUME CodeInv, Pickup PROVE CodeInv'
<1>1. /\ stage = "pickup" /\ task.pick = "none"
      /\ UNCHANGED <<commits, origin, live, tree, edits, prs, night, starts, trusted, lost, raced>>
  BY DEF CodeInv, CodeSound, StageOK, Unpicked, Pickup, Rest, Repository
<1>2. \/ \E x \in {"failed", "up_to_date", "skipped"} : stage' = "reconcile" /\ task' = [task EXCEPT !.pick = x]
      \/ /\ origin # live /\ live \in Line(origin)
         /\ stage' = "forward" /\ task' = [task EXCEPT !.old = live, !.new = origin]
  BY DEF Pickup, Picked, Go
<1>3. task' \in Here /\ stage' \in Stages
  BY <1>2, TaskUpdates DEF CodeInv, Stages, Picks
<1>4. CodeTypeOK' /\ HistoryOK' /\ OnePerNight' /\ \A n : OnGitHub(n)' = OnGitHub(n)
  BY <1>1, <1>3, Control DEF CodeInv, CodeTypeOK, Repository
<1>5. task \in Here /\ origin # 0 /\ live # 0
  BY Tips DEF CodeInv, CodeTypeOK
<1>6. /\ task'.sha = task.sha
      /\ stage' = "forward" => task'.pick = "none" /\ task'.old = live /\ task'.new = origin
      /\ stage' = "reconcile" => task'.pick \in {"failed", "up_to_date", "skipped"}
  BY <1>1, <1>2, <1>5 DEF Here, Tasks
<1>7. StageOK'
  BY <1>1, <1>2, <1>5, <1>6 DEF StageOK, Selected, Moving, Unpicked, Line
<1>8. TreeOK'
  BY <1>1, <1>2, <1>6 DEF CodeInv, CodeSound, TreeOK, Moving
<1>9. MergesCounted'
  BY <1>2 DEF MergesCounted, Selected
<1>10. MergeKept'
  BY <1>1, <1>2, <1>6 DEF CodeInv, CodeSound, MergeKept, Selected, Moving, Line
<1> QED  BY <1>4, <1>7, <1>8, <1>9, <1>10 DEF CodeInv, CodeSound

(* The verifiers' verdict makes the tree a trusted one, and the merge is on it. *)
LEMMA VerifyLiveKeeps == ASSUME CodeInv, VerifyLive PROVE CodeInv'
<1>1. /\ stage = "verify" /\ task.pick = "none"
      /\ tree \in Commit
      /\ UNCHANGED <<commits, origin, live, tree, edits, prs, night, starts, lost, raced>>
  BY DEF CodeInv, CodeTypeOK, CodeSound, StageOK, Unpicked, Moving, VerifyLive, Repository
<1>2. \/ stage' = "reconcile" /\ task' = [task EXCEPT !.pick = "fast_forwarded"] /\ trusted' = trusted \cup {tree}
      \/ stage' = "restore" /\ task' = task /\ trusted' = trusted
  BY DEF VerifyLive, Picked, Go
<1>3. task \in Here /\ task' \in Here /\ stage' \in Stages
  BY <1>2, Tips, TaskUpdates DEF CodeInv, Stages, Picks
<1>4. CodeTypeOK' /\ HistoryOK' /\ OnePerNight' /\ \A n : OnGitHub(n)' = OnGitHub(n)
  BY <1>1, <1>2, <1>3, Control DEF CodeInv, CodeTypeOK, Repository
<1>5. /\ task'.sha = task.sha /\ task'.old = task.old /\ task'.new = task.new
      /\ stage' = "restore" => task'.pick = "none"
      /\ stage' = "reconcile" => task'.pick = "fast_forwarded"
  BY <1>1, <1>2, <1>3 DEF Here, Tasks
<1>6. StageOK'
  BY <1>1, <1>2, <1>5 DEF CodeInv, CodeSound, StageOK, Selected, Moving, Unpicked, Line
<1>7. TreeOK'
  BY <1>1, <1>2, <1>5 DEF CodeInv, CodeSound, TreeOK, Moving
<1>8. MergesCounted'
  BY <1>2 DEF MergesCounted, Selected
<1>9. MergeKept'
  <2>1. task.sha # 0 => task.sha \in Line(live)
    <3>1. task.new \in Line(live) /\ live \in DOMAIN commits
      BY <1>1 DEF CodeInv, CodeTypeOK, CodeSound, StageOK
    <3>2. Line(task.new) \subseteq Line(live)
      BY <3>1 DEF CodeInv, CodeSound, HistoryOK
    <3>3. task.sha # 0 => task.sha \in Line(task.new)
      BY <1>1 DEF CodeInv, CodeSound, MergeKept, Moving
    <3> QED  BY <3>2, <3>3
  <2> QED  BY <1>1, <1>2, <1>5, <2>1 DEF CodeInv, CodeSound, MergeKept, Selected, Moving, Line
<1> QED  BY <1>4, <1>6, <1>7, <1>8, <1>9 DEF CodeInv, CodeSound

(* What is left after the pickup: the merge is on the live tree, or to be reverted, or an error. *)
LEMMA ReconcileKeeps == ASSUME CodeInv, Reconcile PROVE CodeInv'
<1>1. /\ stage = "reconcile"
      /\ UNCHANGED <<commits, origin, live, tree, edits, prs, night, starts, trusted, lost, raced>>
  BY DEF Reconcile, Rest, Repository
<1>2. \/ /\ task.pick = "fast_forwarded" \/ task.sha = 0 \/ live = task.sha
         /\ stage' = "decide" /\ task' = task
      \/ task.sha # 0 /\ live = task.tip /\ stage' = "revert" /\ task' = task
      \/ stage' = "decide" /\ task' = [task EXCEPT !.error = TRUE]
  BY DEF Reconcile, Go
<1>3. task \in Here /\ task' \in Here /\ stage' \in Stages
  BY <1>2, Tips, TaskUpdates DEF CodeInv, Stages
<1>4. CodeTypeOK' /\ HistoryOK' /\ OnePerNight' /\ \A n : OnGitHub(n)' = OnGitHub(n)
  BY <1>1, <1>3, Control DEF CodeInv, CodeTypeOK, Repository
<1>5. /\ task'.sha = task.sha /\ task'.tip = task.tip /\ task'.pick = task.pick
      /\ task'.error = task.error \/ task'.error = TRUE
  BY <1>2, <1>3 DEF Here, Tasks
<1>6. live \in DOMAIN commits /\ live # 0 /\ live \in Line(live)
  BY Tips DEF CodeInv, CodeTypeOK, CodeSound, HistoryOK
<1>7. StageOK'
  BY <1>1, <1>2, <1>5, <1>6 DEF CodeInv, CodeSound, StageOK, Selected, Moving, Unpicked
<1>8. TreeOK'
  BY <1>1, <1>2, <1>5 DEF CodeInv, CodeSound, TreeOK, Moving
<1>9. MergesCounted'
  BY <1>2 DEF MergesCounted, Selected
<1>10. MergeKept'
  <2>1. stage' = "decide" /\ task.sha # 0 => task.sha \in Line(live) \/ task'.error
    <3>1. CASE task.pick = "fast_forwarded" \/ task.sha = 0 \/ live = task.sha
      BY <1>1, <1>6, <3>1 DEF CodeInv, CodeSound, MergeKept
    <3>2. CASE task' = [task EXCEPT !.error = TRUE]
      BY <1>3, <3>2 DEF Here, Tasks
    <3> QED  BY <1>2, <3>1, <3>2
  <2>2. stage' = "revert" => live = task.tip
    BY <1>2
  <2> QED  BY <1>1, <1>2, <1>5, <2>1, <2>2 DEF CodeInv, CodeSound, MergeKept, Selected, Moving, Line
<1> QED  BY <1>4, <1>7, <1>8, <1>9, <1>10 DEF CodeInv, CodeSound

(* An unsafe pickup is never run. *)
LEMMA DecideKeeps == ASSUME CodeInv, Decide PROVE CodeInv'
<1>1. task' \in Here /\ stage' \in Stages
  BY Tips, TaskUpdates DEF CodeInv, Decide, Go, Stages, Picks
<1>2. CodeTypeOK' /\ HistoryOK' /\ OnePerNight' /\ \A n : OnGitHub(n)' = OnGitHub(n)
  BY <1>1, Control DEF CodeInv, CodeTypeOK, Decide, Rest, Repository
<1>3. StageOK'
  BY Tips DEF CodeInv, CodeSound, CodeTypeOK, StageOK, Selected, Moving, Unpicked, Line, Decide, Go, Rest, Repository, Stages
<1>4. TreeOK'
  BY DEF CodeInv, CodeSound, TreeOK, StageOK, Selected, Moving, Unpicked, Decide, Go, Rest, Repository, Stages
<1>5. MergesCounted'
  BY <1>2 DEF CodeInv, CodeSound, MergesCounted, Selected, Line, Decide, Go, Rest, Repository, Stages
<1>6. MergeKept'
  BY Tips DEF CodeInv, CodeSound, CodeTypeOK, MergeKept, StageOK, Selected, Moving, Unpicked, Line, Decide, Go, Rest, Repository, Stages
<1> QED  BY <1>2, <1>3, <1>4, <1>5, <1>6 DEF CodeInv, CodeSound

(* A run leaves a trusted tree, an abort is on record. *)
LEMMA EndRunKeeps == ASSUME CodeInv, EndRun PROVE CodeInv'
<1>1. task' \in Here /\ stage' \in Stages
  BY Tips, TaskUpdates DEF CodeInv, EndRun, NoTask, Go, Stages, Picks
<1>2. CodeTypeOK' /\ HistoryOK' /\ OnePerNight' /\ \A n : OnGitHub(n)' = OnGitHub(n)
  BY <1>1, Control DEF CodeInv, CodeTypeOK, EndRun, Rest, Repository
<1>3. StageOK'
  BY Tips DEF CodeInv, CodeSound, CodeTypeOK, StageOK, Selected, Moving, Unpicked, Line, EndRun, NoTask, Go, Rest, Repository, Stages
<1>4. TreeOK'
  BY DEF CodeInv, CodeSound, TreeOK, StageOK, Selected, Moving, Unpicked, EndRun, NoTask, Go, Rest, Repository, Stages
<1>5. MergesCounted'
  BY <1>2 DEF CodeInv, CodeSound, MergesCounted, Selected, Line, EndRun, NoTask, Go, Rest, Repository, Stages
<1>6. MergeKept'
  BY Tips DEF CodeInv, CodeSound, CodeTypeOK, MergeKept, StageOK, Selected, Moving, Unpicked, Line, EndRun, NoTask, Go, Rest, Repository, Stages
<1> QED  BY <1>2, <1>3, <1>4, <1>5, <1>6 DEF CodeInv, CodeSound

(* No merge is known of the next night. *)
LEMMA NextNightKeeps == ASSUME CodeInv, NextNight PROVE CodeInv'
<1>1. task' \in Here /\ stage' \in Stages
  BY Tips, TaskUpdates DEF CodeInv, NextNight, Go, Stages, Picks
<1>2. CodeTypeOK' /\ HistoryOK' /\ OnePerNight' /\ \A n : OnGitHub(n)' = OnGitHub(n)
  BY <1>1, Control DEF CodeInv, CodeTypeOK, NextNight, Rest, Repository
<1>3. StageOK'
  BY Tips DEF CodeInv, CodeSound, CodeTypeOK, StageOK, Selected, Moving, Unpicked, Line, NextNight, Go, Rest, Repository, Stages
<1>4. TreeOK'
  BY DEF CodeInv, CodeSound, TreeOK, StageOK, Selected, Moving, Unpicked, NextNight, Go, Rest, Repository, Stages
<1>5. MergesCounted'
  BY <1>2 DEF CodeInv, CodeSound, MergesCounted, Selected, Line, NextNight, Go, Rest, Repository, Stages
<1>6. MergeKept'
  BY Tips DEF CodeInv, CodeSound, CodeTypeOK, MergeKept, StageOK, Selected, Moving, Unpicked, Line, NextNight, Go, Rest, Repository, Stages
<1> QED  BY <1>2, <1>3, <1>4, <1>5, <1>6 DEF CodeInv, CodeSound

(* A death loses a tree only between the move and the verdict. *)
LEMMA DieKeeps == ASSUME CodeInv, Die PROVE CodeInv'
<1>1. task' \in Here /\ stage' \in Stages
  BY Tips, TaskUpdates DEF CodeInv, Die, NoTask, Go, Stages, Picks
<1>2. CodeTypeOK' /\ HistoryOK' /\ OnePerNight' /\ \A n : OnGitHub(n)' = OnGitHub(n)
  BY <1>1, Control DEF CodeInv, CodeTypeOK, Die, Rest, Repository
<1>3. StageOK'
  BY Tips DEF CodeInv, CodeSound, CodeTypeOK, StageOK, Selected, Moving, Unpicked, Line, Die, NoTask, Go, Rest, Repository, Stages
<1>4. TreeOK'
  BY DEF CodeInv, CodeSound, TreeOK, StageOK, Selected, Moving, Unpicked, Die, NoTask, Go, Rest, Repository, Stages
<1>5. MergesCounted'
  BY <1>2 DEF CodeInv, CodeSound, MergesCounted, Selected, Line, Die, NoTask, Go, Rest, Repository, Stages
<1>6. MergeKept'
  BY Tips DEF CodeInv, CodeSound, CodeTypeOK, MergeKept, StageOK, Selected, Moving, Unpicked, Line, Die, NoTask, Go, Rest, Repository, Stages
<1> QED  BY <1>2, <1>3, <1>4, <1>5, <1>6 DEF CodeInv, CodeSound

(* The branch of a pull request moves, main does not. *)
LEMMA UpdateBranchKeeps == ASSUME CodeInv, UpdateBranch PROVE CodeInv'
<1>1. /\ stage = "update" /\ task.pr \in PullRequests
      /\ UNCHANGED <<commits, origin, live, tree, edits, night, starts, trusted, lost, raced>>
  BY DEF CodeInv, CodeTypeOK, CodeSound, StageOK, Selected, UpdateBranch, Rest, Repository
<1>2. \/ prs' = [prs EXCEPT ![task.pr].base = origin] /\ stage' = "checks" /\ task' = task
      \/ prs' = [prs EXCEPT ![task.pr].base = origin] /\ stage' = "list" /\ task' = NextPr
      \/ prs' = prs /\ stage' = "list" /\ task' = NextPr
  BY DEF UpdateBranch, Go
<1>3. task \in Here /\ task' \in Here /\ stage' \in Stages /\ origin \in Commit
  BY <1>2, Tips, TaskUpdates DEF CodeInv, CodeTypeOK, Stages
<1>4. /\ prs' \in [PullRequests -> [state : {"none", "open", "merged"}, born : Nat, at : Nat,
                                    base : {0} \cup Commit, paths : SUBSET Paths]]
      /\ \A p \in PullRequests : prs'[p].state = prs[p].state /\ prs'[p].at = prs[p].at
  <2>1. prs \in [PullRequests -> [state : {"none", "open", "merged"}, born : Nat, at : Nat,
                                  base : {0} \cup Commit, paths : SUBSET Paths]]
    BY DEF CodeInv, CodeTypeOK
  <2>2. CASE prs' = [prs EXCEPT ![task.pr].base = origin]
    BY <1>1, <1>3, <2>1, <2>2
  <2>3. CASE prs' = prs
    BY <2>1, <2>3
  <2> QED  BY <1>2, <2>2, <2>3
<1>5. CodeTypeOK'
  BY <1>1, <1>3, <1>4 DEF CodeInv, CodeTypeOK, Here, Tasks
<1>6. HistoryOK' /\ \A n : OnGitHub(n)' = OnGitHub(n)
  BY <1>1, <1>4, HistoryStill DEF CodeInv, CodeSound, OnGitHub
<1>7. /\ task'.pick = task.pick /\ task'.sha = task.sha /\ task'.recent = task.recent
      /\ task'.merged = task.merged /\ task'.error = task.error /\ (stage' = "checks" => task' = task)
  BY <1>2, <1>3 DEF Here, Tasks, NextPr
<1>8. StageOK'
  BY <1>1, <1>2, <1>7 DEF CodeInv, CodeSound, StageOK, Selected, Moving, Unpicked
<1>9. TreeOK'
  BY <1>1, <1>2, <1>7 DEF CodeInv, CodeSound, TreeOK, Selected, Moving
<1>10. MergesCounted'
  BY <1>1, <1>2, <1>6, <1>7 DEF CodeInv, CodeSound, MergesCounted, Selected, Line
<1>11. MergeKept'
  BY <1>1, <1>2, <1>7 DEF CodeInv, CodeSound, MergeKept, StageOK, Selected, Moving, Unpicked, Line
<1> QED  BY <1>5, <1>6, <1>8, <1>9, <1>10, <1>11 DEF CodeInv, CodeSound, OnePerNight

(* The merge is the first of its night, and origin is now ahead of the live tree. *)
LEMMA MergePrKeeps == ASSUME CodeInv, MergePr PROVE CodeInv'
<1> DEFINE missed == [NextPr EXCEPT !.error = TRUE]
           known(sha) == [NextPr EXCEPT !.merged = TRUE, !.sha = sha]
<1>1. /\ stage = "merge" /\ task.pr \in PullRequests /\ task.pick = "none" /\ stage' = "list"
      /\ UNCHANGED <<live, tree, edits, night, starts, trusted, lost, raced>>
  BY DEF CodeInv, CodeTypeOK, CodeSound, StageOK, Selected, Unpicked, MergePr, Go, Rest
<1>2. task \in Here /\ NextPr \in Here /\ missed \in Here /\ OnGitHub(night) = {} /\ prs[task.pr].paths \in SUBSET Paths
  BY <1>1, Tips, TaskUpdates DEF CodeInv, CodeTypeOK, CodeSound, MergesCounted, Selected
<1>3. CASE task' = missed /\ UNCHANGED <<commits, origin, prs>>
  <2>1. CodeTypeOK' /\ HistoryOK' /\ OnePerNight' /\ \A n : OnGitHub(n)' = OnGitHub(n)
    BY <1>1, <1>2, <1>3, Control DEF CodeInv, CodeTypeOK, Repository, Stages
  <2>2. task'.pick = "none" /\ task'.sha = task.sha
    BY <1>1, <1>2, <1>3 DEF Here, Tasks, NextPr
  <2>3. StageOK'
    BY <1>1, <2>2 DEF StageOK, Selected, Moving, Unpicked
  <2>4. TreeOK'
    BY <1>1, <1>3, <2>2 DEF CodeInv, CodeSound, TreeOK, Moving
  <2>5. MergesCounted'
    BY <1>1, <1>2, <2>1 DEF MergesCounted
  <2>6. MergeKept'
    BY <1>1, <1>3, <2>2 DEF CodeInv, CodeSound, MergeKept, Selected, Moving, Line
  <2> QED  BY <2>1, <2>3, <2>4, <2>5, <2>6 DEF CodeInv, CodeSound
<1>4. CASE /\ Room /\ commits' = NewCommit(origin, prs[task.pr].paths, Fresh) /\ origin' = Fresh
           /\ prs' = [prs EXCEPT ![task.pr].state = "merged", ![task.pr].at = night]
           /\ task' = missed \/ \E sha \in {0, Fresh} : task' = known(sha)
  <2>1. origin \in DOMAIN commits /\ live \in DOMAIN commits /\ CodeTypeOK /\ HistoryOK /\ night \in Nat
    BY DEF CodeInv, CodeSound, CodeTypeOK
  <2>2. Fresh \in Commit
    <3>1. Len(commits) \in Nat /\ MaxCommits \in Nat /\ Len(commits) < MaxCommits
      BY <1>4, Tips, <2>1, StewardCodeAssumption DEF Room
    <3> QED  BY <3>1 DEF Fresh, Commit
  <2>3. /\ Len(commits') = Fresh /\ commits' \in Seq(CommitRecord) /\ HistoryOK'
        /\ DOMAIN commits' = DOMAIN commits \cup {Fresh} /\ Fresh \notin DOMAIN commits
        /\ \A c \in DOMAIN commits : commits'[c] = commits[c] /\ Fresh \notin commits[c].line
        /\ commits'[Fresh].line = Line(origin) \cup {Fresh}
    <3>1. commits'[Fresh] = [parent |-> origin, line |-> Line(origin) \cup {Fresh},
                             paths |-> prs[task.pr].paths, tree |-> Fresh]
      BY <1>2, <1>4, <2>1, <2>2, CommitExtends, Zenon
    <3>2. commits'[Fresh].line = Line(origin) \cup {Fresh}
      BY <3>1
    <3> QED  BY <1>2, <1>4, <2>1, <2>2, <3>2, CommitExtends, Zenon
  <2>4. task' \in Tasks(Fresh)
    <3>1. Here \subseteq Tasks(Fresh)
      BY <2>1, Tips DEF Here, Tasks, Fresh
    <3>2. 0 \in 0..Fresh /\ Fresh \in 0..Fresh
      BY <2>1, Tips DEF Fresh
    <3> QED  BY <1>2, <1>4, <3>1, <3>2 DEF Tasks
  <2>5. /\ prs' \in [PullRequests -> [state : {"none", "open", "merged"}, born : Nat, at : Nat,
                                      base : {0} \cup Commit, paths : SUBSET Paths]]
        /\ \A p \in PullRequests \ {task.pr} : prs'[p] = prs[p]
        /\ prs'[task.pr].state = "merged" /\ prs'[task.pr].at = night
    <3>1. prs \in [PullRequests -> [state : {"none", "open", "merged"}, born : Nat, at : Nat,
                                    base : {0} \cup Commit, paths : SUBSET Paths]]
      BY <2>1 DEF CodeTypeOK
    <3> DEFINE there == [prs[task.pr] EXCEPT !.state = "merged", !.at = night]
    <3>2. /\ there \in [state : {"none", "open", "merged"}, born : Nat, at : Nat,
                         base : {0} \cup Commit, paths : SUBSET Paths]
          /\ there.state = "merged" /\ there.at = night
      BY <1>1, <2>1, <3>1
    <3>3. prs' = [prs EXCEPT ![task.pr] = there]
      BY <1>1, <1>4, <3>1
    <3> HIDE DEF there
    <3> QED  BY <1>1, <3>1, <3>2, <3>3
  <2>6. CodeTypeOK'
    <3>1. commits' \in Seq([parent : 0..MaxCommits, line : SUBSET Commit, paths : SUBSET Paths, tree : Commit])
      BY <2>3 DEF CommitRecord
    <3>2. task' \in [todo : SUBSET PullRequests, recent : Nat, pr : {0} \cup PullRequests,
                     tip : 0..Len(commits)', sha : 0..Len(commits)', merged : BOOLEAN,
                     old : 0..Len(commits)', new : 0..Len(commits)', pick : Picks, error : BOOLEAN]
      BY <2>3, <2>4 DEF Tasks
    <3>3. {origin, live}' \subseteq DOMAIN commits'
      BY <1>1, <1>4, <2>1, <2>3
    <3> QED  BY <1>1, <2>1, <2>2, <2>3, <2>5, <3>1, <3>2, <3>3 DEF CodeTypeOK, Stages
  <2>7. OnePerNight'
    BY <1>1, <1>2, <2>5 DEF CodeInv, OnePerNight, OnGitHub
  <2>8. /\ task'.pick = "none" /\ task'.sha \in {task.sha, 0, Fresh}
        /\ task'.merged \/ task' = missed
    BY <1>1, <1>2, <1>4 DEF Here, Tasks, NextPr
  <2>9. StageOK'
    BY <1>1, <2>8 DEF StageOK, Selected, Moving, Unpicked
  <2>10. TreeOK'
    BY <1>1, <2>1, <2>3, <2>8 DEF CodeInv, CodeSound, TreeOK, Moving
  <2>11. Line(live)' = Line(live) /\ origin' \notin Line(live)'
    BY <1>1, <1>4, <2>1, <2>3 DEF Line
  <2>12. MergesCounted'
    BY <1>1, <2>11 DEF MergesCounted
  <2>13. task.sha # 0 => task.sha \in Line(origin)
    BY DEF CodeInv, CodeSound, MergeKept
  <2>14. Line(origin)' = Line(origin) \cup {Fresh}
    BY <1>4, <2>3 DEF Line
  <2>15. MergeKept'
    BY <1>1, <2>8, <2>13, <2>14 DEF MergeKept, Selected, Moving
  <2> QED  BY <2>3, <2>6, <2>7, <2>9, <2>10, <2>12, <2>15 DEF CodeInv, CodeSound
<1> QED  BY <1>3, <1>4 DEF MergePr, Go


(* The live tree moves along origin's line. *)
LEMMA FastForwardKeeps == ASSUME CodeInv, FastForward PROVE CodeInv'
<1>1. /\ stage = "forward" /\ task.pick = "none" /\ task.old # 0 /\ task.new # 0 /\ task.old \in Line(task.new)
      /\ UNCHANGED <<commits, origin, edits, prs, night, starts, trusted, lost, raced>>
  BY DEF CodeInv, CodeSound, StageOK, Unpicked, Moving, FastForward, Rest
<1>2. \/ live' = task.new /\ tree' = commits[task.new].tree /\ stage' = "verify" /\ task' = task
      \/ /\ live' = task.new /\ tree' = commits[task.new].tree
         /\ stage' = "reconcile" /\ task' = [task EXCEPT !.pick = "unsafe"]
      \/ /\ UNCHANGED <<live, tree>> /\ stage' = "reconcile"
         /\ \E x \in {"skipped", "unsafe"} : task' = [task EXCEPT !.pick = x]
  BY DEF FastForward, Picked, Go
<1>3. /\ task \in Here /\ task' \in Here /\ stage' \in Stages
      /\ task.new \in DOMAIN commits /\ commits[task.new].tree \in Commit
  <2>1. task.new \in DOMAIN commits
    BY <1>1, Tips DEF CodeInv, Here, Tasks
  <2> QED  BY <1>2, <2>1, Tips, TaskUpdates DEF CodeInv, Stages, Picks, CommitRecord
<1>4. CodeTypeOK' /\ HistoryOK' /\ OnePerNight' /\ \A n : OnGitHub(n)' = OnGitHub(n)
  <2>1. {origin', live'} \subseteq DOMAIN commits /\ tree' \in {Mixed} \cup Commit
    BY <1>1, <1>2, <1>3 DEF CodeInv, CodeTypeOK
  <2> QED  BY <1>1, <1>3, <2>1, Moves DEF CodeInv, CodeTypeOK
<1>5. /\ task'.sha = task.sha /\ task'.old = task.old /\ task'.new = task.new
      /\ stage' = "verify" => task'.pick = "none"
      /\ stage' = "reconcile" => task'.pick \in {"skipped", "unsafe"}
      /\ stage' = "reconcile" /\ task'.pick # "unsafe" => UNCHANGED <<live, tree>>
  BY <1>1, <1>2, <1>3 DEF Here, Tasks
<1>6. StageOK'
  <2>1. task.new \in Line(task.new) /\ Mixed \notin Commit
    BY <1>3 DEF CodeInv, CodeSound, HistoryOK, Commit, Mixed
  <2> QED  BY <1>1, <1>2, <1>3, <1>5, <2>1 DEF StageOK, Selected, Moving, Unpicked, Line
<1>7. TreeOK'
  <2>1. Mixed \notin Commit
    BY DEF Commit, Mixed
  <2> QED  BY <1>1, <1>2, <1>3, <1>5, <2>1 DEF CodeInv, CodeSound, TreeOK, Moving
<1>8. MergesCounted'
  BY <1>2 DEF MergesCounted, Selected
<1>9. MergeKept'
  BY <1>1, <1>2, <1>5 DEF CodeInv, CodeSound, MergeKept, Selected, Moving, Line
<1> QED  BY <1>4, <1>6, <1>7, <1>8, <1>9 DEF CodeInv, CodeSound

(* A restore goes back to the trusted tree, or says that it did not. *)
LEMMA RestoreKeeps == ASSUME CodeInv, Restore PROVE CodeInv'
<1>1. /\ stage = "restore" /\ task.pick = "none" /\ task.old # 0 /\ stage' = "reconcile"
      /\ UNCHANGED <<commits, origin, prs, night, starts, trusted, lost, raced>> /\ edits' \subseteq edits
  BY DEF CodeInv, CodeSound, StageOK, Unpicked, Moving, Restore, Picked, Go, Rest
<1>2. \/ live' = task.old /\ tree' = commits[task.old].tree /\ task' = [task EXCEPT !.pick = "rolled_back"]
      \/ live' \in {live, task.old} /\ tree' = Mixed /\ task' = [task EXCEPT !.pick = "unsafe"]
  BY DEF Restore, Picked, Go
<1>3. /\ task \in Here /\ task' \in Here /\ stage' \in Stages
      /\ task.old \in DOMAIN commits /\ commits[task.old].tree \in Commit
  <2>1. task.old \in DOMAIN commits
    BY <1>1, Tips DEF CodeInv, Here, Tasks
  <2> QED  BY <1>1, <1>2, <2>1, Tips, TaskUpdates DEF CodeInv, Stages, Picks, CommitRecord
<1>4. CodeTypeOK' /\ HistoryOK' /\ OnePerNight' /\ \A n : OnGitHub(n)' = OnGitHub(n)
  <2>1. {origin', live'} \subseteq DOMAIN commits /\ tree' \in {Mixed} \cup Commit /\ edits' \subseteq Paths
    BY <1>1, <1>2, <1>3 DEF CodeInv, CodeTypeOK
  <2> QED  BY <1>1, <1>3, <2>1, Moves DEF CodeInv, CodeTypeOK
<1>5. /\ task'.sha = task.sha /\ task'.pick \in {"rolled_back", "unsafe"}
      /\ task'.pick = "rolled_back" => live' = task.old /\ tree' = commits[task.old].tree
  BY <1>2, <1>3 DEF Here, Tasks
<1>6. StageOK'
  BY <1>1, <1>5 DEF StageOK, Selected, Moving, Unpicked
<1>7. TreeOK'
  <2>1. Mixed \notin Commit
    BY DEF Commit, Mixed
  <2> QED  BY <1>1, <1>2, <1>3, <1>5, <2>1 DEF CodeInv, CodeSound, TreeOK, Moving
<1>8. MergesCounted'
  BY <1>1 DEF MergesCounted, Selected
<1>9. MergeKept'
  BY <1>1, <1>5 DEF CodeInv, CodeSound, MergeKept, Selected, Moving, Line
<1> QED  BY <1>4, <1>6, <1>7, <1>8, <1>9 DEF CodeInv, CodeSound

(* The revert is a commit on the merge, with the tree of the live commit. *)
LEMMA PushRevertKeeps == ASSUME CodeInv, PushRevert PROVE CodeInv'
<1>1. /\ stage = "revert" /\ task.sha # 0 /\ task.tip # 0
      /\ UNCHANGED <<live, tree, edits, prs, night, starts, trusted, lost, raced>>
  BY DEF CodeInv, CodeSound, StageOK, PushRevert, Rest
<1>2. task \in Here /\ task.sha \in DOMAIN commits /\ task.tip \in DOMAIN commits
  BY <1>1, Tips DEF CodeInv, Here, Tasks
<1>3. CASE /\ origin = task.sha /\ Room
           /\ commits' = NewCommit(task.sha, commits[task.sha].paths, commits[task.tip].tree)
           /\ origin' = Fresh /\ stage' = "follow" /\ task' = [task EXCEPT !.new = Fresh, !.error = TRUE]
  <2>1. commits[task.sha].paths \in SUBSET Paths /\ commits[task.tip].tree \in Commit /\ CodeTypeOK /\ HistoryOK
    BY <1>2, Tips DEF CodeInv, CodeSound, CommitRecord
  <2>2. /\ Fresh \in Commit /\ Fresh \notin DOMAIN commits /\ HistoryOK'
        /\ \A c \in DOMAIN commits : commits'[c] = commits[c]
        /\ commits'[Fresh] = [parent |-> task.sha, line |-> Line(task.sha) \cup {Fresh},
                              paths |-> commits[task.sha].paths, tree |-> commits[task.tip].tree]
    BY <1>2, <1>3, <2>1, CommitExtends, Zenon
  <2>3. Fresh # 0 /\ Fresh \in 0..Fresh /\ Here \subseteq Tasks(Fresh)
    BY <2>1, Tips DEF Here, Tasks, Fresh
  <2>4. task' \in Tasks(Fresh)
    BY <1>2, <1>3, <2>3 DEF Tasks
  <2>5. CodeTypeOK' /\ OnePerNight'
    BY <1>1, <1>2, <1>3, <2>1, <2>4, Commits DEF CodeInv, CodeTypeOK, Stages
  <2>6. /\ task'.sha = task.sha /\ task'.tip = task.tip /\ task'.pick = task.pick
        /\ task'.new = Fresh /\ task'.error
    BY <1>2, <1>3 DEF Here, Tasks
  <2>7. StageOK'
    BY <1>1, <1>3, <2>3, <2>6 DEF CodeInv, CodeSound, StageOK, Selected, Moving, Unpicked
  <2>8. TreeOK'
    <3>1. live \in DOMAIN commits
      BY <2>1 DEF CodeTypeOK
    <3> QED  BY <1>1, <1>3, <2>2, <2>6, <3>1 DEF CodeInv, CodeSound, TreeOK, Moving
  <2>9. MergesCounted'
    BY <1>3 DEF MergesCounted, Selected
  <2>10. Line(origin)' = Line(task.sha) \cup {Fresh} /\ Line(live)' = Line(live) /\ task.sha \in Line(task.sha)
    BY <1>1, <1>2, <1>3, <2>1, <2>2 DEF CodeTypeOK, HistoryOK, Line
  <2>11. MergeKept'
    BY <1>1, <1>3, <2>6, <2>10 DEF CodeInv, CodeSound, MergeKept, Selected, Moving
  <2> QED  BY <2>2, <2>5, <2>7, <2>8, <2>9, <2>11 DEF CodeInv, CodeSound
<1>4. CASE UNCHANGED <<commits, origin>> /\ stage' = "decide" /\ task' = [task EXCEPT !.error = TRUE]
  <2>1. task' \in Here /\ stage' \in Stages
    BY <1>4, TaskUpdates DEF CodeInv, Stages
  <2>2. CodeTypeOK' /\ HistoryOK' /\ OnePerNight'
    BY <1>1, <1>4, <2>1, Control DEF CodeInv, CodeTypeOK, Repository
  <2>3. task'.sha = task.sha /\ task'.pick = task.pick /\ task'.error
    BY <1>2, <1>4 DEF Here, Tasks
  <2>4. StageOK'
    BY <1>4, <2>3 DEF StageOK, Selected, Moving, Unpicked
  <2>5. TreeOK'
    BY <1>1, <1>4, <2>3 DEF CodeInv, CodeSound, TreeOK, Moving
  <2>6. MergesCounted'
    BY <1>4 DEF MergesCounted, Selected
  <2>7. MergeKept'
    BY <1>1, <1>4, <2>3 DEF CodeInv, CodeSound, MergeKept, Selected, Moving, Line
  <2> QED  BY <2>2, <2>4, <2>5, <2>6, <2>7 DEF CodeInv, CodeSound
<1> QED  BY <1>3, <1>4 DEF PushRevert, Go

(* The live tree follows the revert, which has its own tree. *)
LEMMA FollowRevertKeeps == ASSUME CodeInv, FollowRevert PROVE CodeInv'
<1>1. /\ stage = "follow" /\ task.new # 0 /\ task.error /\ stage' = "decide" /\ task' = task
      /\ UNCHANGED <<commits, origin, edits, prs, night, starts, trusted, lost, raced>>
  BY DEF CodeInv, CodeSound, StageOK, FollowRevert, Go, Rest
<1>2. \/ /\ live \in Line(task.new) /\ live' = task.new
         /\ tree' = IF tree = Mixed THEN Mixed ELSE commits[task.new].tree
      \/ UNCHANGED <<live, tree>>
  BY DEF FollowRevert
<1>3. task' \in Here /\ task.new \in DOMAIN commits /\ commits[task.new].tree \in Commit
  <2>1. task \in Here /\ task.new \in DOMAIN commits
    BY <1>1, Tips DEF CodeInv, Here, Tasks
  <2> QED  BY <1>1, <2>1, Tips DEF CodeInv, CommitRecord
<1>4. CodeTypeOK' /\ HistoryOK' /\ OnePerNight'
  <2>1. {origin', live'} \subseteq DOMAIN commits /\ tree' \in {Mixed} \cup Commit
    BY <1>1, <1>2, <1>3 DEF CodeInv, CodeTypeOK
  <2> QED  BY <1>1, <1>3, <2>1, Moves DEF CodeInv, CodeTypeOK, Stages
<1>5. StageOK'
  BY <1>1 DEF CodeInv, CodeSound, StageOK, Selected, Moving, Unpicked
<1>6. TreeOK'
  <2>1. Mixed \notin Commit
    BY DEF Commit, Mixed
  <2> QED  BY <1>1, <1>2, <1>3, <2>1 DEF CodeInv, CodeSound, TreeOK, Moving
<1>7. MergesCounted'
  BY <1>1 DEF MergesCounted, Selected
<1>8. MergeKept'
  <2>1. live \in Line(task.new) => Line(live) \subseteq Line(task.new)
    BY <1>3 DEF CodeInv, CodeSound, HistoryOK
  <2> QED  BY <1>1, <1>2, <2>1 DEF CodeInv, CodeSound, MergeKept, Selected, Moving, Line
<1> QED  BY <1>4, <1>5, <1>6, <1>7, <1>8 DEF CodeInv, CodeSound

(* The operator's commit is trusted and leaves origin where it is. *)
LEMMA CommitLocalKeeps == ASSUME CodeInv, CommitLocal PROVE CodeInv'
<1>1. /\ Room /\ commits' = NewCommit(live, edits, Fresh)
      /\ live' = Fresh /\ tree' = Fresh /\ edits' = {} /\ trusted' = trusted \cup {Fresh} /\ raced' = TRUE
      /\ UNCHANGED <<origin, prs, night, starts, lost, stage, task>>
  BY DEF CommitLocal
<1>2. live \in DOMAIN commits /\ origin \in DOMAIN commits /\ edits \in SUBSET Paths /\ CodeTypeOK /\ HistoryOK
  BY DEF CodeInv, CodeSound, CodeTypeOK
<1>3. Fresh \in Commit
  <2>1. Len(commits) \in Nat /\ MaxCommits \in Nat /\ Len(commits) < MaxCommits
    BY <1>1, <1>2, Tips, StewardCodeAssumption DEF Room
  <2> QED  BY <2>1 DEF Fresh, Commit
<1>4. /\ Fresh \notin DOMAIN commits /\ HistoryOK'
      /\ \A c \in DOMAIN commits : commits'[c] = commits[c]
      /\ commits'[Fresh] = [parent |-> live, line |-> Line(live) \cup {Fresh}, paths |-> edits, tree |-> Fresh]
  BY <1>1, <1>2, <1>3, CommitExtends, Zenon
<1>5. task \in Here /\ Here \subseteq Tasks(Fresh)
  BY <1>2, Tips DEF Here, Tasks, Fresh
<1>6. CodeTypeOK' /\ OnePerNight' /\ \A n : OnGitHub(n)' = OnGitHub(n)
  <2>1. /\ edits' \subseteq Paths /\ task' \in Tasks(Fresh) /\ stage' \in Stages
        /\ trusted' \subseteq Commit /\ {lost', raced'} \subseteq BOOLEAN
    BY <1>1, <1>2, <1>3, <1>5 DEF CodeTypeOK
  <2> QED  BY <1>1, <1>2, <1>3, <2>1, Commits
<1>7. Line(live)' = Line(live) \cup {Fresh} /\ Line(origin)' = Line(origin) /\ origin # Fresh
  BY <1>1, <1>2, <1>4 DEF Line
<1>8. /\ stage \in Moving => {task.old, task.new} \subseteq DOMAIN commits
      /\ stage = "revert" => task.tip \in DOMAIN commits
      /\ stage = "follow" => task.new \in DOMAIN commits
  BY <1>2, <1>5, Tips DEF CodeInv, CodeSound, StageOK, Here, Tasks
<1>9. Mixed # Fresh
  BY <1>3 DEF Commit, Mixed
<1>10. StageOK'
  BY <1>1, <1>4, <1>7, <1>8, <1>9 DEF CodeInv, CodeSound, StageOK, Selected, Moving, Unpicked, Line
<1>11. TreeOK'
  BY <1>1, <1>4, <1>8, <1>9 DEF CodeInv, CodeSound, TreeOK, Moving
<1>12. MergesCounted'
  BY <1>1, <1>6, <1>7 DEF CodeInv, CodeSound, MergesCounted
<1>13. MergeKept'
  BY <1>1, <1>4, <1>7, <1>8 DEF CodeInv, CodeSound, MergeKept, Moving, Line
<1> QED  BY <1>4, <1>6, <1>10, <1>11, <1>12, <1>13 DEF CodeInv, CodeSound

(* A push moves origin to a live tree that is ahead of it, which no merge of this startup leaves. *)
LEMMA PushKeeps == ASSUME CodeInv, Push PROVE CodeInv'
<1>1. /\ origin \in Line(live) /\ origin # live /\ origin' = live
      /\ UNCHANGED <<commits, live, tree, edits, prs, night, starts, trusted, lost, raced, stage, task>>
  BY DEF Push, Rest
<1>2. live \in DOMAIN commits /\ origin \in DOMAIN commits /\ CodeTypeOK /\ HistoryOK /\ DOMAIN commits \subseteq Nat
  BY Tips DEF CodeInv, CodeSound, CodeTypeOK
<1>3. CodeTypeOK' /\ HistoryOK' /\ OnePerNight' /\ \A n : OnGitHub(n)' = OnGitHub(n)
  BY <1>1, <1>2, Tips, Moves DEF CodeTypeOK
<1>4. StageOK' /\ TreeOK'
  BY <1>1 DEF CodeInv, CodeSound, StageOK, TreeOK, Line
<1>5. MergesCounted'
  BY <1>1, <1>3 DEF CodeInv, CodeSound, MergesCounted
<1>6. live \notin Line(origin) /\ Line(origin) \subseteq Line(live)
  BY <1>1, <1>2, LinesAreOrders DEF HistoryOK
<1>7. MergeKept'
  BY <1>1, <1>6 DEF CodeInv, CodeSound, MergeKept, StageOK, Selected, Moving, Line
<1> QED  BY <1>3, <1>4, <1>5, <1>7 DEF CodeInv, CodeSound

(* A commit made elsewhere moves origin away from the live tree. *)
LEMMA PushElsewhereKeeps == ASSUME CodeInv, NEW paths \in SUBSET Paths, PushElsewhere(paths) PROVE CodeInv'
<1>1. /\ Room /\ commits' = NewCommit(origin, paths, Fresh) /\ origin' = Fresh /\ raced' = TRUE
      /\ UNCHANGED <<live, tree, edits, prs, night, starts, trusted, lost, stage, task>>
  BY DEF PushElsewhere
<1>2. live \in DOMAIN commits /\ origin \in DOMAIN commits /\ CodeTypeOK /\ HistoryOK
  BY DEF CodeInv, CodeSound, CodeTypeOK
<1>3. Fresh \in Commit
  <2>1. Len(commits) \in Nat /\ MaxCommits \in Nat /\ Len(commits) < MaxCommits
    BY <1>1, <1>2, Tips, StewardCodeAssumption DEF Room
  <2> QED  BY <2>1 DEF Fresh, Commit
<1>4. /\ Fresh \notin DOMAIN commits /\ HistoryOK'
      /\ \A c \in DOMAIN commits : commits'[c] = commits[c] /\ Fresh \notin commits[c].line
      /\ commits'[Fresh] = [parent |-> origin, line |-> Line(origin) \cup {Fresh}, paths |-> paths, tree |-> Fresh]
  BY <1>1, <1>2, <1>3, CommitExtends, Zenon
<1>5. task \in Here /\ Here \subseteq Tasks(Fresh)
  BY <1>2, Tips DEF Here, Tasks, Fresh
<1>6. CodeTypeOK' /\ OnePerNight' /\ \A n : OnGitHub(n)' = OnGitHub(n)
  <2>1. /\ edits' \subseteq Paths /\ task' \in Tasks(Fresh) /\ stage' \in Stages
        /\ trusted' \subseteq Commit /\ {lost', raced'} \subseteq BOOLEAN
    BY <1>1, <1>2, <1>3, <1>5 DEF CodeTypeOK
  <2> QED  BY <1>1, <1>2, <1>3, <2>1, Commits
<1>7. Line(live)' = Line(live) /\ Line(origin)' = Line(origin) \cup {Fresh} /\ origin' \notin Line(live)'
  BY <1>1, <1>2, <1>4 DEF Line
<1>8. /\ stage \in Moving => {task.old, task.new} \subseteq DOMAIN commits
      /\ stage = "revert" => task.tip \in DOMAIN commits
      /\ stage = "follow" => task.new \in DOMAIN commits
  BY <1>2, <1>5, Tips DEF CodeInv, CodeSound, StageOK, Here, Tasks
<1>9. StageOK'
  BY <1>1, <1>4, <1>7, <1>8 DEF CodeInv, CodeSound, StageOK, Selected, Moving, Unpicked, Line
<1>10. TreeOK'
  BY <1>1, <1>2, <1>4, <1>8 DEF CodeInv, CodeSound, TreeOK, Moving
<1>11. MergesCounted'
  BY <1>1, <1>6, <1>7 DEF CodeInv, CodeSound, MergesCounted, Selected
<1>12. MergeKept'
  BY <1>1, <1>4, <1>7, <1>8 DEF CodeInv, CodeSound, MergeKept, Moving, Line
<1> QED  BY <1>4, <1>6, <1>9, <1>10, <1>11, <1>12 DEF CodeInv, CodeSound

(* A new pull request is not merged. *)
LEMMA OpenPrKeeps == ASSUME CodeInv, NEW paths \in SUBSET Paths, OpenPr(paths) PROVE CodeInv'
<1>1. UNCHANGED <<commits, origin, live, tree, edits, night, starts, trusted, lost, raced, stage, task>>
  BY DEF OpenPr, Rest, Repository
<1> DEFINE opened == [state |-> "open", born |-> night, at |-> 0, base |-> origin, paths |-> paths]
<1>2. PICK p \in PullRequests : prs[p].state = "none" /\ prs' = [prs EXCEPT ![p] = opened]
  BY DEF OpenPr
<1>3. opened \in [state : {"none", "open", "merged"}, born : Nat, at : Nat, base : {0} \cup Commit, paths : SUBSET Paths]
  BY Tips DEF CodeInv, CodeTypeOK
<1>4. prs' \in [PullRequests -> [state : {"none", "open", "merged"}, born : Nat, at : Nat,
                                 base : {0} \cup Commit, paths : SUBSET Paths]]
  BY <1>2, <1>3 DEF CodeInv, CodeTypeOK
<1>5. CodeTypeOK' /\ HistoryOK'
  BY <1>1, <1>4, HistoryStill DEF CodeInv, CodeSound, CodeTypeOK
<1>6. \A n : OnGitHub(n)' = OnGitHub(n)
  BY <1>2 DEF OnGitHub, CodeInv, CodeTypeOK
<1>7. OnePerNight' /\ MergesCounted'
  BY <1>1, <1>6 DEF CodeInv, CodeSound, OnePerNight, MergesCounted, Line
<1>8. StageOK' /\ TreeOK' /\ MergeKept'
  BY <1>1 DEF CodeInv, CodeSound, StageOK, TreeOK, MergeKept, Line
<1> QED  BY <1>5, <1>7, <1>8 DEF CodeInv, CodeSound

(* An edit concerns no property. *)
LEMMA EditKeeps == ASSUME CodeInv, NEW path \in Paths, Edit(path) PROVE CodeInv'
<1>1. /\ edits' \subseteq Paths
      /\ UNCHANGED <<commits, origin, live, tree, prs, night, starts, trusted, lost, raced, stage, task>>
  BY DEF Edit, Rest, CodeInv, CodeTypeOK
<1>2. CodeTypeOK' /\ HistoryOK' /\ OnePerNight' /\ \A n : OnGitHub(n)' = OnGitHub(n)
  BY <1>1, Tips, Moves DEF CodeInv, CodeTypeOK
<1>3. MergesCounted'
  BY <1>1, <1>2 DEF CodeInv, CodeSound, MergesCounted, Line
<1>4. StageOK' /\ TreeOK' /\ MergeKept'
  BY <1>1 DEF CodeInv, CodeSound, StageOK, TreeOK, MergeKept, Line
<1> QED  BY <1>2, <1>3, <1>4 DEF CodeInv, CodeSound

-----------------------------------------------------------------------------
(* The theorems *)

LEMMA CodeInitial == ASSUME CodeInit PROVE CodeInv
<1> DEFINE first == [parent |-> 0, line |-> {1}, paths |-> {}, tree |-> 1]
<1>1. /\ commits = <<first>> /\ origin = 1 /\ live = 1 /\ tree = 1 /\ edits = {}
      /\ night = 1 /\ stage = "idle" /\ task = NoTask /\ trusted = {1} /\ lost = FALSE /\ raced = FALSE
  BY DEF CodeInit
<1>2. /\ 1 \in Commit /\ first \in CommitRecord
      /\ Len(commits) = 1 /\ DOMAIN commits = {1} /\ commits[1] = first
  BY <1>1, StewardCodeAssumption DEF Commit, CommitRecord
<1>3. /\ prs \in [PullRequests -> [state : {"none", "open", "merged"}, born : Nat, at : Nat,
                                   base : {0} \cup Commit, paths : SUBSET Paths]]
      /\ \A p \in PullRequests : prs[p].state # "merged"
  BY <1>2 DEF CodeInit, NoPr
<1>4. task \in Here /\ task.pick = "none" /\ task.sha = 0
  BY <1>1, <1>2 DEF NoTask, Here, Tasks, Picks
<1>5. commits \in Seq([parent : 0..MaxCommits, line : SUBSET Commit, paths : SUBSET Paths, tree : Commit])
  BY <1>1, <1>2 DEF CommitRecord
<1>6. CodeTypeOK
  BY <1>1, <1>2, <1>3, <1>4, <1>5 DEF CodeTypeOK, Stages, Here, Tasks
<1>7. HistoryOK
  BY <1>2 DEF HistoryOK, Line
<1>8. StageOK /\ MergesCounted /\ MergeKept
  BY <1>1, <1>4 DEF StageOK, MergesCounted, MergeKept, Selected, Moving, Unpicked
<1>9. TreeOK
  BY <1>1, <1>2 DEF TreeOK, Moving, Mixed
<1>10. OnePerNight
  BY <1>3 DEF OnePerNight, OnGitHub
<1> QED  BY <1>6, <1>7, <1>8, <1>9, <1>10 DEF CodeInv, CodeSound

LEMMA CodeKeeps == ASSUME CodeInv, [CodeNext]_codeVars PROVE CodeInv'
<1>1. CASE StewardStep
  BY <1>1, SelectPrKeeps, ListDoneKeeps, UpdateBranchKeeps, PreMergeChecksKeeps, RecheckKeeps, MergePrKeeps,
     PickupKeeps, FastForwardKeeps, VerifyLiveKeeps, RestoreKeeps, ReconcileKeeps, PushRevertKeeps,
     FollowRevertKeeps, DecideKeeps DEF StewardStep
<1>2. CASE Startup \/ EndRun \/ NextNight \/ Die \/ CommitLocal \/ Push
  BY <1>2, StartupKeeps, EndRunKeeps, NextNightKeeps, DieKeeps, CommitLocalKeeps, PushKeeps
<1>3. CASE \E paths \in SUBSET Paths \ {{}} : OpenPr(paths) \/ PushElsewhere(paths)
  BY <1>3, OpenPrKeeps, PushElsewhereKeeps
<1>4. CASE \E path \in Paths : Edit(path)
  BY <1>4, EditKeeps
<1>5. CASE UNCHANGED codeVars
  BY <1>5 DEF codeVars, CodeInv, CodeSound, OnePerNight, CodeTypeOK, HistoryOK, StageOK, TreeOK, MergesCounted,
     MergeKept, OnGitHub, Line
<1> QED  BY <1>1, <1>2, <1>3, <1>4, <1>5 DEF CodeNext

(* The invariant holds of the steward's own source, for any paths, commits, nights and startups. *)
THEOREM CodeInvariance == CodeSpec => []CodeInv
<1>1. CodeInit => CodeInv
  BY CodeInitial
<1>2. CodeInv /\ [CodeNext]_codeVars => CodeInv'
  BY CodeKeeps
<1> QED  BY <1>1, <1>2, PTL DEF CodeSpec

(* A run executes source that the verifiers passed or the operator made, or an earlier startup died *)
(* or aborted after it moved HEAD (abort_if_unsafe, code_pickup.py).                                  *)
THEOREM TrustedTreeRuns == CodeSpec => []RunsTrustedTree
<1>1. CodeInv => RunsTrustedTree
  BY DEF CodeInv, CodeSound, StageOK, TreeOK, RunsTrustedTree
<1> QED  BY <1>1, CodeInvariance, PTL

(* GitHub has at most one steward-code merge of a night, whatever answer was lost and however often *)
(* the startup was run again (merge_due_prs, code_pickup.py).                                         *)
THEOREM OneMerge == CodeSpec => []OneMergePerNight
<1>1. CodeInv => OneMergePerNight
  <2> SUFFICES ASSUME CodeInv, NEW n \in 1..MaxNights PROVE Cardinality(OnGitHub(n)) <= 1
    BY DEF OneMergePerNight
  <2>1. CASE OnGitHub(n) = {}
    BY <2>1, FS_EmptySet
  <2>2. CASE OnGitHub(n) # {}
    <3>1. PICK p \in OnGitHub(n) : TRUE
      BY <2>2
    <3>2. n \in Nat
      BY StewardCodeAssumption
    <3>3. OnGitHub(n) = {p}
      BY <3>1, <3>2 DEF CodeInv, OnePerNight
    <3> QED  BY <3>3, FS_Singleton
  <2> QED  BY <2>1, <2>2
<1> QED  BY <1>1, CodeInvariance, PTL

(* A live tree that was restored by half is known to be unsafe, or was lost (_restore). *)
THEOREM HalfRestoreKnown == CodeSpec => []HalfRestoreNoticed
<1>1. CodeInv => HalfRestoreNoticed
  BY DEF CodeInv, CodeSound, TreeOK, HalfRestoreNoticed
<1> QED  BY <1>1, CodeInvariance, PTL

(* A merge that the live tree did not take is reported before the run begins (_reconcile). *)
THEOREM MergeReported == CodeSpec => []UnpickedMergeReported
<1>1. CodeInv => UnpickedMergeReported
  BY DEF CodeInv, CodeSound, MergeKept, UnpickedMergeReported
<1> QED  BY <1>1, CodeInvariance, PTL

(* No step of the steward splits the history of origin and the live tree while nobody else commits: *)
(* the merge, the fast-forward, the restore and the revert each stay on one line (code_pickup.py).    *)
THEOREM OneLineStays == CodeSpec => StaysOneLine
<1>1. ASSUME CodeInv, CodeInv', StewardStep, ~raced, OneLine PROVE OneLine'
  <2>1. /\ origin \in DOMAIN commits /\ live \in DOMAIN commits /\ HistoryOK /\ HistoryOK' /\ MergeKept /\ StageOK
        /\ live' \in DOMAIN commits' /\ live' \in Line(live)' /\ CodeTypeOK
    BY <1>1 DEF CodeInv, CodeSound, CodeTypeOK, HistoryOK
  <2>2. CASE UNCHANGED <<commits, origin, live>>
    BY <1>1, <2>2 DEF OneLine, Line
  <2>3. CASE MergePr
    <3>1. stage = "merge" /\ live' = live /\ task.pr \in PullRequests
      BY <1>1, <2>1, <2>3 DEF MergePr, CodeTypeOK, StageOK, Selected
    <3>2. live = origin
      BY <1>1, <2>1, <3>1 DEF MergeKept, Selected
    <3>3. CASE UNCHANGED <<commits, origin, prs>>
      BY <2>2, <3>1, <3>3
    <3>4. CASE Room /\ commits' = NewCommit(origin, prs[task.pr].paths, Fresh) /\ origin' = Fresh
      <4>1. prs[task.pr].paths \in SUBSET Paths /\ Fresh \in Commit
        <5>1. Len(commits) \in Nat /\ MaxCommits \in Nat /\ Len(commits) < MaxCommits
          BY <2>1, <3>4, Tips, StewardCodeAssumption DEF Room
        <5> QED  BY <2>1, <3>1, <5>1 DEF CodeTypeOK, Fresh, Commit
      <4>2. commits'[Fresh] = [parent |-> origin, line |-> Line(origin) \cup {Fresh},
                               paths |-> prs[task.pr].paths, tree |-> Fresh]
        BY <2>1, <3>4, <4>1, CommitExtends, Zenon
      <4>3. origin \in Line(origin)
        BY <2>1 DEF HistoryOK
      <4> QED  BY <3>1, <3>2, <3>4, <4>2, <4>3 DEF OneLine, Line
    <3> QED  BY <2>3, <3>3, <3>4 DEF MergePr
  <2>4. CASE FastForward \/ FollowRevert
    <3>1. /\ UNCHANGED <<commits, origin>>
          /\ live' = live \/ live' = task.new
      BY <2>4 DEF FastForward, FollowRevert, Rest
    <3>2. live' = task.new => live' = live \/ origin = task.new
      BY <1>1, <2>1, <2>4 DEF FastForward, FollowRevert, MergeKept, Moving
    <3>3. CASE live' = live
      BY <2>2, <3>1, <3>3
    <3>4. CASE origin = task.new /\ live' = task.new
      BY <2>1, <3>1, <3>4 DEF OneLine
    <3> QED  BY <3>1, <3>2, <3>3, <3>4
  <2>5. CASE Restore
    <3>1. /\ stage = "restore" /\ UNCHANGED <<commits, origin>>
          /\ live' = live \/ live' = task.old
      BY <2>5 DEF Restore
    <3>2. origin = task.new /\ task.old \in Line(task.new)
      BY <1>1, <2>1, <3>1 DEF MergeKept, StageOK, Moving
    <3>3. CASE live' = live
      BY <2>2, <3>1, <3>3
    <3>4. CASE live' = task.old
      BY <3>1, <3>2, <3>4 DEF OneLine, Line
    <3> QED  BY <3>1, <3>3, <3>4
  <2>6. CASE PushRevert
    <3>1. stage = "revert" /\ live' = live /\ live = task.tip /\ task.sha # 0 /\ task.tip # 0
      BY <1>1, <2>1, <2>6 DEF PushRevert, MergeKept, StageOK
    <3>2. CASE UNCHANGED <<commits, origin>>
      BY <2>2, <3>1, <3>2
    <3>3. CASE /\ origin = task.sha /\ commits[task.sha].parent = task.tip /\ Room
               /\ commits' = NewCommit(task.sha, commits[task.sha].paths, commits[task.tip].tree) /\ origin' = Fresh
      <4>1. commits[task.sha].paths \in SUBSET Paths /\ commits[task.tip].tree \in Commit
        BY <2>1, <3>1, <3>3, Tips DEF CommitRecord
      <4>2. commits'[Fresh] = [parent |-> task.sha, line |-> Line(task.sha) \cup {Fresh},
                               paths |-> commits[task.sha].paths, tree |-> commits[task.tip].tree]
        BY <2>1, <3>3, <4>1, CommitExtends, Zenon
      <4>3. live \in Line(task.sha)
        BY <2>1, <3>1, <3>3 DEF HistoryOK
      <4> QED  BY <3>1, <3>3, <4>2, <4>3 DEF OneLine, Line
    <3> QED  BY <2>6, <3>2, <3>3 DEF PushRevert
  <2> QED
    BY <1>1, <2>2, <2>3, <2>4, <2>5, <2>6
    DEF StewardStep, SelectPr, ListDone, UpdateBranch, PreMergeChecks, Recheck, Pickup, VerifyLive, Reconcile, Decide,
        Repository
<1>2. CodeInv /\ CodeInv' /\ [CodeNext]_codeVars => [(StewardStep /\ ~raced /\ OneLine) => OneLine']_codeVars
  BY <1>1
<1> QED  BY <1>2, CodeInvariance, PTL DEF CodeSpec, StaysOneLine
=============================================================================
