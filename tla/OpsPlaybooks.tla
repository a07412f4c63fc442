---------------------------- MODULE OpsPlaybooks ----------------------------
(***************************************************************************)
(* The playbooks of security-watch that change this host within one tick   *)
(* (security_watch/playbooks_ops): compose-digest, release-rebuild,        *)
(* apt-security, and those that call a step of the steward (an image, omp, *)
(* herdr, a toolchain).  Production is what the component runs: the "old"  *)
(* release, the "new" one or none ("down"); the pin is what its compose    *)
(* file or its installed files say.  The images, the release script and    *)
(* apt are external: they succeed or fail as they like.                    *)
(***************************************************************************)
EXTENDS Integers, FiniteSets

OpsPlaybook == {"compose-digest", "release-rebuild", "apt-security", "steward-image", "steward-runtime"}

VARIABLES
  opsPlan,    \* the plan: its playbook, whether the target carries the fix, transactional release script
  opsStep,    \* where apply stands
  opsProd,    \* [pin, runs, well]: what production is
  opsSaved,   \* what the rollback directory, or the text kept in memory, holds: "old" or "none"
  opsRow      \* the outcome: [status, touched]

opsVars == <<opsPlan, opsStep, opsProd, opsSaved, opsRow>>

NoRow == [status |-> "none", touched |-> FALSE]
Before == [pin |-> "old", runs |-> "old", well |-> TRUE]

OpsInit ==
  /\ opsPlan \in [playbook : OpsPlaybook, fixes : BOOLEAN, transactional : BOOLEAN]
  /\ opsStep = "plan"
  /\ opsProd = Before
  /\ opsSaved = "none"
  /\ opsRow = NoRow

Is(playbook) == opsPlan.playbook = playbook
OpsGoto(step) == opsStep' = step /\ UNCHANGED <<opsPlan, opsRow>>
OpsEnd(status, touched) ==
  /\ opsStep' = "end"
  /\ opsRow' = [status |-> status, touched |-> touched]
  /\ UNCHANGED opsPlan
Healthy == opsProd.well /\ opsProd.runs # "down"

\* apply takes the lock of the component, or of the host, or refuses and retries next tick.
TakeLock ==
  /\ opsStep = "plan"
  /\ UNCHANGED <<opsProd, opsSaved>>
  /\ \/ OpsEnd("refused", FALSE)
     \/ OpsGoto(CASE Is("compose-digest") \/ Is("steward-image") -> "verify"
                  [] Is("release-rebuild") -> "snapshot"
                  [] Is("apt-security") -> "update"
                  [] Is("steward-runtime") -> "call")

\* Mutant: the candidate is taken at its word.
PullAndTrust ==
  /\ opsStep = "verify"
  /\ UNCHANGED <<opsProd, opsSaved>>
  /\ OpsEnd("refused", FALSE) \/ OpsGoto(IF Is("compose-digest") THEN "rewrite" ELSE "call")
\* docker pull, then OSV on the package inside the candidate: a flawed one is never switched to.
PullAndVerify ==
  /\ opsStep = "verify"
  /\ UNCHANGED <<opsProd, opsSaved>>
  /\ \/ OpsEnd("refused", FALSE)          \* no pull, no listing, no answer of OSV, or nothing open any more
     \/ opsPlan.fixes /\ OpsGoto(IF Is("compose-digest") THEN "rewrite" ELSE "call")

\* Mutant: the text to restore is not kept.
RewriteUnsaved ==
  /\ opsStep = "rewrite"
  /\ opsProd' = [opsProd EXCEPT !.pin = "new"]
  /\ OpsGoto("up") /\ UNCHANGED opsSaved
\* The compose file must still have the planned line; its text is kept before it is rewritten.
RewritePin ==
  /\ opsStep = "rewrite"
  /\ \/ OpsEnd("refused", FALSE) /\ UNCHANGED <<opsProd, opsSaved>>
     \/ /\ opsSaved' = opsProd.pin
        /\ opsProd' = [opsProd EXCEPT !.pin = "new"]
        /\ OpsGoto("up")

\* Any command that replaces the release: it may fail before, in the middle or after.
UpTo(pin) == {[pin |-> pin, runs |-> pin, well |-> TRUE], [pin |-> pin, runs |-> pin, well |-> FALSE]}
UpFailed(pin) == {[opsProd EXCEPT !.pin = pin, !.runs = "down"], [opsProd EXCEPT !.pin = pin]}

ComposeUp ==
  /\ opsStep = "up"
  /\ UNCHANGED opsSaved
  /\ \/ opsProd' \in UpTo("new") /\ (IF opsProd'.well THEN OpsEnd("done", TRUE) ELSE OpsGoto("restore"))
     \/ opsProd' \in UpFailed("new") /\ OpsGoto("restore")
ComposeRestore ==
  /\ opsStep = "restore" /\ Is("compose-digest")
  /\ UNCHANGED opsSaved
  /\ \/ opsProd' \in UpTo(opsSaved) /\ OpsEnd(IF opsProd'.well THEN "rolled_back" ELSE "failed", TRUE)
     \/ opsProd' \in UpFailed(opsSaved) /\ OpsEnd("failed", TRUE)

\* The binaries are copied aside first; a missing one refuses.
Snapshot ==
  /\ opsStep = "snapshot"
  /\ UNCHANGED opsProd
  /\ \/ OpsEnd("refused", FALSE) /\ UNCHANGED opsSaved
     \/ opsSaved' = opsProd.pin /\ OpsGoto("release")
\* A transactional release script that fails puts the old release back itself.
RunRelease ==
  /\ opsStep = "release"
  /\ UNCHANGED opsSaved
  /\ \/ opsProd' \in UpTo("new")
        /\ (IF opsProd'.well /\ opsProd'.runs # "down" THEN OpsEnd("done", TRUE) ELSE OpsGoto("restore"))
     \/ /\ ~opsPlan.transactional
        /\ opsProd' \in UpTo("new") \cup UpFailed("new") \cup {opsProd}
        /\ OpsGoto("restore")
     \/ /\ opsPlan.transactional
        /\ opsProd' \in UpTo("old")
        /\ (IF opsProd'.well THEN OpsEnd("rolled_back", TRUE) ELSE OpsGoto("restore"))
\* The copies are installed one by one and the units restarted: any of it may fail.
ReleaseRestore ==
  /\ opsStep = "restore" /\ Is("release-rebuild")
  /\ UNCHANGED opsSaved
  /\ \/ opsProd' \in UpTo(opsSaved) /\ OpsEnd(IF opsProd'.well THEN "rolled_back" ELSE "failed", TRUE)
     \/ opsProd' \in UpFailed(opsProd.pin) \cup UpFailed(opsSaved) /\ OpsEnd("failed", TRUE)

AptUpdate ==
  /\ opsStep = "update"
  /\ UNCHANGED <<opsProd, opsSaved>>
  /\ OpsEnd("failed", FALSE) \/ OpsGoto("install")
\* What dpkg lists after the install decides, with the docker stack, cloudflared and the health URLs.
AptInstall ==
  /\ opsStep = "install"
  /\ UNCHANGED opsSaved
  /\ \/ opsProd' \in UpFailed("new") \cup UpTo("new") /\ OpsEnd("failed", TRUE)
     \/ /\ opsProd' \in UpTo("new") \cup {opsProd}
        /\ OpsEnd(IF opsProd'.pin = "new" /\ opsPlan.fixes /\ opsProd'.well THEN "done" ELSE "failed", TRUE)

\* A packet of the steward's step, and what it left: _map_packet says what the outcome is.
PacketOutcome(status, onFailure) ==
  CASE status = "ok" -> [status |-> "done", touched |-> TRUE]
    [] status = "reverted" -> [status |-> "rolled_back", touched |-> TRUE]
    [] status = "failed" -> [status |-> "failed", touched |-> onFailure]
    [] status = "skipped" -> [status |-> "refused", touched |-> FALSE]
\* A failed packet that names neither a reverted release nor another version changed nothing.
CallSteward ==
  /\ opsStep = "call"
  /\ UNCHANGED <<opsPlan, opsSaved>>
  /\ opsStep' = "end"
  /\ \E status \in {"ok", "reverted", "failed", "skipped"}, marked \in BOOLEAN :
       /\ opsProd' \in
            CASE status = "ok" -> {[pin |-> "new", runs |-> "new", well |-> TRUE]}
              [] status = "skipped" \/ (status = "failed" /\ ~marked) -> {opsProd}
              [] status = "reverted" -> {Before}
              [] status = "failed" /\ marked -> UpFailed("old") \cup UpTo("old") \cup UpTo("new")
       /\ opsRow' = IF status = "ok" /\ Is("steward-runtime") /\ ~opsPlan.fixes
                      THEN [status |-> "failed", touched |-> TRUE]
                    ELSE PacketOutcome(status, marked)

\* An exception of a command is an outcome too, and says whether the change had started.
RaisesIn == {"verify", "rewrite", "up", "restore", "snapshot", "release", "update", "install", "call"}
StartedIn == {"up", "restore", "release", "install", "call"}
Raises ==
  /\ opsStep \in RaisesIn
  /\ UNCHANGED <<opsProd, opsSaved>>
  /\ OpsEnd("failed", opsStep \in StartedIn)

OpsNext ==
  \/ TakeLock \/ PullAndVerify \/ RewritePin \/ ComposeUp \/ ComposeRestore
  \/ Snapshot \/ RunRelease \/ ReleaseRestore \/ AptUpdate \/ AptInstall
  \/ CallSteward \/ Raises
OpsSpec == OpsInit /\ [][OpsNext]_opsVars

----------------------------------------------------------------------------
(* The type invariant of the playbooks that change this host.                 *)
OpsTypeOK ==
  /\ opsPlan \in [playbook : OpsPlaybook, fixes : BOOLEAN, transactional : BOOLEAN]
  /\ opsStep \in {"plan", "end"} \cup RaisesIn
  /\ opsProd \in [pin : {"old", "new"}, runs : {"old", "new", "down"}, well : BOOLEAN]
  /\ opsSaved \in {"old", "none"}
  /\ opsRow \in [status : {"none", "done", "failed", "rolled_back", "refused"}, touched : BOOLEAN]

(* Which playbook is in which step, and what holds there: production is      *)
(* moved in one step or two, a candidate that is switched to carries the     *)
(* fix, and what a restore needs was saved before.                            *)
StepOfPlaybook ==
  /\ opsStep # "end" => opsRow = NoRow
  /\ opsStep \notin {"up", "restore", "end"} => opsProd = Before
  /\ opsStep \in {"up", "restore", "release"} => opsSaved = "old"
  /\ opsStep = "verify" => Is("compose-digest") \/ Is("steward-image")
  /\ opsStep \in {"rewrite", "up"} => Is("compose-digest") /\ opsPlan.fixes
  /\ opsStep \in {"snapshot", "release"} => Is("release-rebuild")
  /\ opsStep = "restore" => Is("compose-digest") \/ Is("release-rebuild")
  /\ opsStep \in {"update", "install"} => Is("apt-security")
  /\ opsStep = "call" => (Is("steward-image") /\ opsPlan.fixes) \/ Is("steward-runtime")

(* What an outcome says is so: "done" of a healthy release that carries    *)
(* the fix, "rolled_back" of a healthy old one, "refused" and untouched of *)
(* a production nobody moved (apply, _map_packet and _restore).            *)
OutcomeTrue ==
  LET row == opsRow
  IN /\ row.status = "done" => opsProd.runs = "new" /\ Healthy
                               /\ (opsPlan.fixes \/ Is("release-rebuild"))
     /\ row.status = "rolled_back" => opsProd = Before
     /\ row.status = "refused" => ~row.touched
     /\ row.status # "none" /\ ~row.touched => opsProd = Before

(* A compose file or binaries are replaced only once the old ones are kept *)
(* where the undo looks for them, so that what failed can be put back.     *)
UndoAtHand ==
  opsProd.pin = "new" /\ (Is("compose-digest") \/ Is("release-rebuild")) => opsSaved = "old"
=============================================================================
