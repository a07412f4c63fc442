------------------------------ MODULE Toolchains ------------------------------
(***************************************************************************)
(* The same-line updates of the host's toolchains, steward/toolchains.py:  *)
(* a release is installed beside the active one and tried, a record is     *)
(* saved, the active one is switched and tried again, or switched back;    *)
(* replaced versions are pruned when they are old.  Node and Ruby switch a *)
(* pointer between installed versions, Go and Neovim exchange two trees    *)
(* and then move the old one aside.  The run may be killed in any step.    *)
(***************************************************************************)
EXTENDS Naturals, FiniteSets, FiniteSetsExt

CONSTANTS
    Newest,         \* releases: 1..Newest, and the last is on a newer line
    Retention,      \* RETENTION_DAYS, in nights
    MaxEvenings     \* bound: nights

ASSUME ToolAssumption == Newest \in Nat \ {0, 1} /\ Retention \in Nat /\ MaxEvenings \in Nat

VARIABLES
    driver,     \* "pointer" (Node, Ruby) or "tree" (Go, Neovim)
    active,     \* the active version
    fitness,    \* what a release fails: every smoke test, the active one, or none
    have,       \* pointer: the versions installed side by side
    staged,     \* tree: what staging holds, by the release it was made for
    aside,      \* tree: the replaced trees, by version and the night of their record
    upstreamReleases,
    pinnedVersions,     \* by a repository or a script
    book,       \* state.json's records
    tool,       \* where the step is
    mem,        \* what it has in memory: its copy of the records too
    told,       \* its packet's status
    evening,
    torn,       \* a run was killed in a switch
    meddled2    \* the operator undid an update

toolVars == <<driver, active, fitness, have, staged, aside, upstreamReleases, pinnedVersions, book,
              tool, mem, told, evening, torn, meddled2>>

ToolVersion == 1..Newest
NoVersion == 0
Disk == <<active, have, staged, aside>>
World2 == <<driver, fitness, upstreamReleases, pinnedVersions>>
Ghosts == <<torn, meddled2>>
NoMem == [book |-> {}, cur |-> 0, target |-> 0, created |-> FALSE]
Record2(v, i, at, s) == [version |-> v, installed |-> i, at |-> at, state |-> s]

ToolInit ==
    /\ driver \in {"pointer", "tree"}
    /\ active = 1 /\ have = {1} /\ aside = {} /\ staged = [v \in ToolVersion |-> NoVersion]
    /\ fitness \in {f \in [ToolVersion -> {"bad", "shy", "good"}] : f[1] = "good" /\ f[Newest] = "good"}
    /\ upstreamReleases = {1} /\ pinnedVersions \in IF driver = "pointer" THEN {{}, {1}} ELSE {{}}
    /\ book = {} /\ tool = "idle" /\ mem = NoMem /\ told = "none" /\ evening = 0
    /\ torn = FALSE /\ meddled2 = FALSE

-----------------------------------------------------------------------------
(* select_same_line                                                          *)

SameLine(v, cur) == (v = Newest) = (cur = Newest)
NewestOf(releases) == IF releases = {} THEN NoVersion ELSE Max(releases)
SelectNewest(cur) == NewestOf({v \in upstreamReleases : v > cur})
SelectSameLine(cur) == NewestOf({v \in upstreamReleases : SameLine(v, cur) /\ v > cur})

(* A problem before the switch: a warning.                                   *)
Warn == tool' = "end" /\ told' = "warning"

(* _reconcile_pending: an interrupted switch counts if the new version is    *)
(* active.                                                                    *)
ReconciledPending(records) ==
    {r \in records : r.state # "pending"} \cup
    {[r EXCEPT !.state = "replaced"] : r \in {p \in records : p.state = "pending" /\ p.installed = active}}

StartToolchain ==
    /\ tool = "idle" /\ evening < MaxEvenings
    /\ evening' = evening + 1 /\ told' = "none"
    /\ mem' = [NoMem EXCEPT !.book = ReconciledPending(book), !.cur = active]
    /\ tool' = "select"
    /\ UNCHANGED <<World2, Disk, book, Ghosts>>

(* Unreadable, no release list, or no time left: a warning.                  *)
SelectRelease ==
    /\ tool = "select"
    /\ LET target == SelectSameLine(mem.cur) IN
       \/ Warn /\ UNCHANGED mem
       \/ target = NoVersion /\ tool' = "prune" /\ told' = "skipped" /\ UNCHANGED mem
       \/ target # NoVersion /\ tool' = "stage" /\ mem' = [mem EXCEPT !.target = target] /\ UNCHANGED told
    /\ UNCHANGED <<World2, Disk, book, evening, Ghosts>>

-----------------------------------------------------------------------------
(* stage and smoke: a failure discards what was made.                        *)

PointerStage ==
    /\ driver = "pointer" /\ tool = "stage"
    /\ \/ /\ have' = have \cup {mem.target} /\ mem' = [mem EXCEPT !.created = mem.target \notin have]
          /\ tool' = "smoke" /\ UNCHANGED told
       \/ Warn /\ UNCHANGED <<have, mem>>
    /\ UNCHANGED <<World2, active, staged, aside, book, evening, Ghosts>>

(* `rm -rf' of the release's wrapper comes first.                            *)
TreeStage ==
    /\ driver = "tree" /\ tool = "stage"
    /\ \/ staged' = [staged EXCEPT ![mem.target] = mem.target] /\ tool' = "smoke" /\ UNCHANGED told
       \/ staged' = [staged EXCEPT ![mem.target] = NoVersion] /\ Warn
    /\ UNCHANGED <<World2, active, have, aside, book, mem, evening, Ghosts>>

PointerDiscard == have' = IF mem.created THEN have \ {mem.target} ELSE have
TreeDiscard == staged' = [staged EXCEPT ![mem.target] = NoVersion]
Discard == IF driver = "pointer" THEN PointerDiscard /\ UNCHANGED staged ELSE TreeDiscard /\ UNCHANGED have

(* The record is saved as pending before anything is switched.               *)
SmokeStaged ==
    /\ tool = "smoke"
    /\ \/ /\ fitness[mem.target] # "bad"
          /\ mem' = [mem EXCEPT !.book = @ \cup {Record2(mem.cur, mem.target, evening, "pending")}]
          /\ book' = mem'.book /\ tool' = "switch"
          /\ UNCHANGED <<told, have, staged>>
       \/ Discard /\ Warn /\ UNCHANGED <<mem, book>>
    /\ UNCHANGED <<World2, active, aside, evening, Ghosts>>

-----------------------------------------------------------------------------
(* switch                                                                     *)

PointerSwitch ==
    /\ driver = "pointer" /\ tool = "switch"
    /\ \/ active' = mem.target /\ tool' = "verify"
       \/ active' \in {active, mem.target} /\ tool' = "undo"
    /\ UNCHANGED <<World2, have, staged, aside, book, mem, told, evening, Ghosts>>

TreeExchange ==
    /\ driver = "tree" /\ tool = "switch"
    /\ \/ /\ active' = staged[mem.target] /\ staged' = [staged EXCEPT ![mem.target] = active]
          /\ tool' = "keep"
       \/ UNCHANGED <<active, staged>> /\ tool' = "undo"
    /\ UNCHANGED <<World2, have, aside, book, mem, told, evening, Ghosts>>

TreeKeep ==
    /\ tool = "keep"
    /\ \/ /\ aside' = aside \cup {[version |-> staged[mem.target], at |-> evening]} /\ TreeDiscard
          /\ tool' \in {"verify", "undo"}
       \/ UNCHANGED <<aside, staged>> /\ tool' = "undo"
    /\ UNCHANGED <<World2, active, have, book, mem, told, evening, Ghosts>>

Settled(s) == [r \in mem.book |-> IF r.state = "pending" /\ r.at = evening THEN [r EXCEPT !.state = s] ELSE r]
Settle(s) == /\ mem' = [mem EXCEPT !.book = {Settled(s)[r] : r \in mem.book}]
             /\ book' = mem'.book

VerifyPointerOnly ==
    /\ tool = "verify"
    /\ \/ /\ active = mem.target
          /\ Settle("replaced") /\ tool' = "prune" /\ told' = "ok"
       \/ tool' = "undo" /\ UNCHANGED <<mem, book, told>>
    /\ UNCHANGED <<World2, Disk, evening, Ghosts>>

(* The active version, and its smoke test.                                   *)
VerifyActive ==
    /\ tool = "verify"
    /\ \/ /\ active = mem.target /\ fitness[active] = "good"
          /\ Settle("replaced") /\ tool' = "prune" /\ told' = "ok"
       \/ tool' = "undo" /\ UNCHANGED <<mem, book, told>>
    /\ UNCHANGED <<World2, Disk, evening, Ghosts>>

-----------------------------------------------------------------------------
(* unswitch                                                                   *)

PointerUnswitch ==
    /\ driver = "pointer" /\ tool = "undo"
    /\ \/ active' = mem.cur /\ tool' = "undone"
       \/ UNCHANGED active /\ tool' = "unverified"
    /\ UNCHANGED <<World2, have, staged, aside, book, mem, told, evening, Ghosts>>

(* The old tree is where it was kept, or still in staging.                   *)
TreeUnswitch ==
    /\ driver = "tree" /\ tool = "undo"
    /\ LET kept == [version |-> mem.cur, at |-> evening] IN
       \/ active = mem.cur /\ tool' = "undone" /\ UNCHANGED <<active, staged, aside>>
       \/ /\ active # mem.cur /\ active' = mem.cur
          /\ aside' = aside \ {kept} /\ staged' = [staged EXCEPT ![mem.target] = NoVersion]
          /\ tool' \in {"undone", "unverified"}
       \/ active # mem.cur /\ tool' = "unverified" /\ UNCHANGED <<active, staged, aside>>
    /\ UNCHANGED <<World2, have, book, mem, told, evening, Ghosts>>

(* Verified: the record goes, and the new install is discarded.              *)
Reverted ==
    /\ tool = "undone" /\ active = mem.cur /\ fitness[active] = "good"
    /\ mem' = [mem EXCEPT !.book = {r \in @ : ~(r.state = "pending" /\ r.at = evening)}]
    /\ book' = mem'.book /\ Discard
    /\ tool' = "end" /\ told' = "reverted"
    /\ UNCHANGED <<World2, active, aside, evening, Ghosts>>

RollbackUnverified ==
    /\ tool \in {"undone", "unverified"}
    /\ Settle("rollback_unverified")
    /\ tool' = "end" /\ told' = "failed"
    /\ UNCHANGED <<World2, Disk, evening, Ghosts>>

-----------------------------------------------------------------------------
(* _prune                                                                     *)

DueAtOnce(r) == r.state = "replaced"
DueRecord(r) == r.state = "replaced" /\ evening - r.at >= Retention

RemovableAny(r) == TRUE
Removable(r) == r.version # active /\ ~(driver = "pointer" /\ r.version \in pinnedVersions)

(* Only once the current version passes its smoke test; each removal may     *)
(* fail.  The records are saved at the end.                                   *)
Prune ==
    /\ tool = "prune" /\ tool' = "end"
    /\ \/ UNCHANGED <<have, aside, mem>>
       \/ /\ fitness[active] = "good"
          /\ \E gone \in SUBSET {r \in mem.book : DueRecord(r) /\ Removable(r)} :
               /\ mem' = [mem EXCEPT !.book = @ \ gone]
               /\ IF driver = "pointer"
                  THEN have' = have \ {r.version : r \in gone} /\ UNCHANGED aside
                  ELSE aside' = aside \ {[version |-> r.version, at |-> r.at] : r \in gone} /\ UNCHANGED have
    /\ UNCHANGED <<World2, active, staged, book, told, evening, Ghosts>>

EndToolchain ==
    /\ tool = "end" /\ tool' = "idle"
    /\ book' = mem.book /\ mem' = NoMem
    /\ UNCHANGED <<World2, Disk, told, evening, Ghosts>>

ToolchainKilled ==
    /\ tool # "idle" /\ tool' = "idle" /\ told' = "none" /\ mem' = NoMem
    /\ torn' = (torn \/ tool \in {"keep", "verify", "undo", "undone", "unverified"})
    /\ UNCHANGED <<World2, Disk, book, evening, meddled2>>

-----------------------------------------------------------------------------
(* Upstream, which a night reads once, and the operator, who follows a       *)
(* packet's undo line.                                                        *)

PublishRelease(v) ==
    /\ tool = "idle" /\ evening < MaxEvenings
    /\ v \notin upstreamReleases /\ upstreamReleases' = upstreamReleases \cup {v}
    /\ UNCHANGED <<driver, fitness, pinnedVersions, Disk, book, tool, mem, told, evening, Ghosts>>

Undo(r) ==
    /\ tool = "idle" /\ r \in book /\ r.state = "replaced"
    /\ IF driver = "pointer"
       THEN r.version \in have /\ active' = r.version /\ UNCHANGED aside
       ELSE LET kept == [version |-> r.version, at |-> r.at] IN
            kept \in aside /\ active' = r.version /\ aside' = aside \ {kept}
    /\ meddled2' = TRUE
    /\ UNCHANGED <<World2, have, staged, book, tool, mem, told, evening, torn>>

ToolNext ==
    \/ StartToolchain \/ SelectRelease \/ PointerStage \/ TreeStage \/ SmokeStaged
    \/ PointerSwitch \/ TreeExchange \/ TreeKeep \/ VerifyActive
    \/ PointerUnswitch \/ TreeUnswitch \/ Reverted \/ RollbackUnverified
    \/ Prune \/ EndToolchain \/ ToolchainKilled
    \/ \E v \in ToolVersion : PublishRelease(v)
    \/ \E r \in book : Undo(r)

ToolSpec == ToolInit /\ [][ToolNext]_toolVars

-----------------------------------------------------------------------------
Line == ToolVersion \ {Newest}
SavedRecord == [version : Line, installed : Line, at : Nat, state : {"pending", "replaced", "rollback_unverified"}]
Switching == {"switch", "keep", "verify", "undo", "undone", "unverified"}

(* The type invariant of the installed toolchains: all of it on one line.     *)
ToolTypeOK ==
    /\ driver \in {"pointer", "tree"} /\ fitness \in [ToolVersion -> {"bad", "shy", "good"}]
    /\ active \in Line /\ have \subseteq ToolVersion /\ staged \in [ToolVersion -> {NoVersion} \cup Line]
    /\ aside \subseteq [version : Line, at : Nat]
    /\ upstreamReleases \subseteq ToolVersion /\ pinnedVersions \subseteq ToolVersion
    /\ book \subseteq SavedRecord
    /\ mem \in [book : SUBSET SavedRecord, cur : {0} \cup Line, target : {0} \cup Line, created : BOOLEAN]
    /\ tool \in {"idle", "select", "stage", "smoke", "prune", "end"} \cup Switching
    /\ told \in {"none", "ok", "skipped", "warning", "reverted", "failed"}
    /\ evening \in Nat /\ torn \in BOOLEAN /\ meddled2 \in BOOLEAN

Tonight == Record2(mem.cur, mem.target, evening, "pending")

(* What a run has in memory: where it is from and to, the records as saved,  *)
(* and tonight's among them once the switch is near.                           *)
MemorySound ==
    /\ tool = "idle" => mem.book = {}
    /\ tool # "idle" => mem.cur # 0 /\ \A r \in book : r.state = "rollback_unverified" => r \in mem.book
    /\ tool \in {"select", "stage", "smoke", "switch"} => active = mem.cur
    /\ tool \in {"stage", "smoke"} \cup Switching => mem.target # 0 /\ mem.cur < mem.target
    /\ tool \in Switching => mem.book = book /\ Tonight \in book /\ active \in {mem.cur, mem.target}
    /\ \A r \in mem.book : r.state = "pending" => tool \in Switching /\ r = Tonight
    /\ \A r \in book \cup mem.book :
         /\ r.at <= evening /\ (tool \in {"select", "stage", "smoke"} => r.at < evening)
         /\ tool \in Switching => r.at < evening \/ r = Tonight

(* What a run has on disk besides the active version.                         *)
DiskSound ==
    /\ driver = "tree" =>
         /\ tool \in {"smoke", "switch"} => staged[mem.target] = mem.target
         /\ tool = "keep" => staged[mem.target] = mem.cur /\ active = mem.target
         /\ tool = "verify" => [version |-> mem.cur, at |-> evening] \in aside
    /\ driver = "pointer" =>
         /\ tool # "keep" /\ pinnedVersions \cup {active} \subseteq have
         /\ tool \in {"smoke"} \cup Switching =>
              {mem.cur, mem.target} \subseteq have /\ (mem.created => mem.target \notin pinnedVersions)

(* Unless a switch was torn or a rollback is on record, what is active and    *)
(* what was replaced work, but for a version that is being tried.             *)
WorkingKept ==
    (~torn /\ \A r \in book : r.state # "rollback_unverified") =>
        /\ \A r \in book \cup mem.book : fitness[r.version] = "good"
        /\ tool \notin Switching \ {"switch"} => fitness[active] = "good"
        /\ tool \in {"select", "stage", "smoke"} \cup Switching => fitness[mem.cur] = "good"

Kept(r) == IF driver = "pointer" THEN r.version \in have ELSE [version |-> r.version, at |-> r.at] \in aside
From == IF tool \in Switching THEN mem.cur ELSE active

(* Without a torn switch or an undo versions only go up: what was replaced is *)
(* older than what is active, once, and is kept until it is due.               *)
ReplacedKept ==
    ~torn /\ ~meddled2 =>
        /\ \A r \in book \cup mem.book : r.state = "replaced" =>
             r.version < From /\ (evening - r.at < Retention => Kept(r))
        /\ \A r, q \in book \cup mem.book :
             r.state = "replaced" /\ q.state = "replaced" /\ r.version = q.version => r = q
        /\ tool \notin Switching => \A r \in book : r.state = "pending" => r.installed # active

(* "re-verifies the active version, and rolls back on any failure": a packet leaves an active     *)
(* version that works, or state.json keeps a record of the rollback that could not be verified;    *)
(* the active version stays on its line, and no version that is active or pinned is ever pruned.   *)
ToolsWork ==
    /\ (tool = "idle" /\ told # "none" /\ ~torn /\ \A r \in book : r.state # "rollback_unverified") =>
          fitness[active] = "good"
    /\ active # Newest
    /\ driver = "pointer" => pinnedVersions \cup {active} \subseteq have

(* "a later run removes a replaced version once it is RETENTION_DAYS old": until then an undo line *)
(* that a packet gave can be followed, unless a run was killed in a switch or an undo was.         *)
UndoAtHand ==
    ~torn /\ ~meddled2 =>
        \A r \in book : r.state = "replaced" /\ evening - r.at < Retention => Kept(r)
=============================================================================
