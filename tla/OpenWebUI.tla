------------------------------ MODULE OpenWebUI ------------------------------
(***************************************************************************)
(* The guarded update of Open WebUI, steward/updates.py _p1_openwebui:     *)
(* snapshot, pin, start, gate, and the restore of image and data after a   *)
(* failed gate.  People write chats while a container serves; the new      *)
(* image migrates the database when it starts; the steward may be killed   *)
(* between any two steps, and runs again the next night.                   *)
(*                                                                         *)
(* A database is the version of its schema and the set of its rows.  The   *)
(* gates count rows: they never compare them.                              *)
(***************************************************************************)
EXTENDS Naturals, FiniteSets

CONSTANTS
    MaxRows,        \* bound: rows ever written
    MaxUpdates      \* bound: nights

Version == 1..2             \* the pinned release, and one after it
Row == 1..MaxRows
Gone == 0                   \* the schema of a data directory that was moved away

ASSUME OwuiAssumption == MaxRows \in Nat \ {0} /\ MaxUpdates \in Nat

VARIABLES
    pin,        \* the tag in docker-compose.yml
    box,        \* the container: the image it was made from, and whether it serves
    data,       \* the volume
    archive,    \* this night's data-critical.tar.gz
    saved,      \* rows in any archive, backup or directory moved aside
    acked,      \* rows people wrote and did not delete
    step,       \* where the transaction is
    seen,       \* what it holds in memory
    report,     \* its packet
    proven,     \* the version that last passed the gates on what is there now
    cut,        \* it was killed, and no preflight has passed since
    nights

owuiVars == <<pin, box, data, archive, saved, acked, step, seen, report, proven, cut, nights>>

Steps == {"idle", "online", "stop", "snapshot", "restart", "recheck", "pin", "up", "verify",
          "undo", "unpin", "move", "extract", "reup", "reverify"}
Reports == {"none", "current", "unfit", "skipped", "warning", "failed", "ok", "rolled_back"}
Nothing == [schema |-> Gone, rows |-> {}]
Unseen == [old |-> 0, online |-> 0, offline |-> 0]

OwuiInit ==
    /\ pin = 1 /\ box = [image |-> 1, state |-> "healthy"]
    /\ data = [schema |-> 1, rows |-> {}] /\ archive = Nothing /\ saved = {} /\ acked = {}
    /\ step = "idle" /\ seen = Unseen /\ report = "none" /\ proven = 1 /\ cut = FALSE /\ nights = 0

Serving == box.state = "healthy"
Database == <<data, archive, saved, acked>>
Rests(r) == step' = "idle" /\ report' = r /\ seen' = Unseen

(* A night finds a newer release, or none.  Preflight: the container is healthy and is the pin;   *)
(* then the image is pulled and identified while the old one serves.                               *)
Preflight ==
    /\ step = "idle" /\ nights < MaxUpdates
    /\ nights' = nights + 1
    /\ LET sound == Serving /\ box.image = pin IN
       IF pin = 2
       THEN Rests("current") /\ UNCHANGED <<proven, cut>>
       ELSE \/ ~sound /\ Rests("unfit") /\ UNCHANGED <<proven, cut>>
            \/ /\ sound
               /\ proven' = pin /\ cut' = FALSE
               /\ \/ \E r \in {"skipped", "warning", "failed"} : Rests(r)
                  \/ /\ step' = "online" /\ report' = "none"
                     /\ seen' = [Unseen EXCEPT !.old = pin]
    /\ archive' = Nothing
    /\ UNCHANGED <<pin, box, data, saved, acked>>

(* The trusted baseline, before any downtime.                                                     *)
OnlineBackup ==
    /\ step = "online"
    /\ \/ /\ step' = "stop" /\ seen' = [seen EXCEPT !.online = Cardinality(data.rows)]
          /\ saved' = saved \cup data.rows /\ UNCHANGED report
       \/ Rests("skipped") /\ UNCHANGED saved
    /\ UNCHANGED <<pin, box, data, archive, acked, proven, cut, nights>>

(* A stop that fails leaves the container running, or not.                                        *)
StopOld ==
    /\ step = "stop"
    /\ \/ box' = [box EXCEPT !.state = "stopped"] /\ step' \in {"snapshot", "restart"}
       \/ box' = box /\ step' = "restart"
    /\ report' = IF step' = "restart" THEN "failed" ELSE report
    /\ UNCHANGED <<pin, Database, seen, proven, cut, nights>>

(* snapshot_gate: no rows lost since the baseline, and an archive whose database counts the same. *)
SnapshotGate ==
    /\ step = "snapshot"
    /\ \/ /\ Cardinality(data.rows) >= seen.online
          /\ archive' = data /\ saved' = saved \cup data.rows
          /\ seen' = [seen EXCEPT !.offline = Cardinality(data.rows)]
          /\ step' = "pin"
       \/ step' = "restart" /\ UNCHANGED <<archive, saved, seen>>
    /\ UNCHANGED <<pin, box, data, acked, report, proven, cut, nights>>

(* `docker compose up -d': the container is made anew when its image is not the pin, and a new    *)
(* image migrates the data, perhaps with losses; an older one may not start on a newer schema.     *)
Up(c) ==
    /\ box' = [image |-> pin, state |-> c]
    /\ \E kept \in SUBSET data.rows :
         /\ kept = data.rows \/ pin > data.schema
         /\ data' = [schema |-> IF pin > data.schema THEN pin ELSE data.schema, rows |-> kept]

(* _owui_verify: healthy, right version, no migration error, counts not below the baseline.  A    *)
(* gate may also fail for reasons of its own (a probe, the logs, a backup).                        *)
Passes(version, baseline) ==
    Serving /\ box.image = version /\ Cardinality(data.rows) >= baseline

(* _owui_restart_unchanged                                                                        *)
RestartUnchanged ==
    /\ step = "restart"
    /\ \/ \E c \in {"healthy", "unhealthy"} : Up(c)
       \/ UNCHANGED <<box, data>>
    /\ step' = "recheck"
    /\ UNCHANGED <<pin, archive, saved, acked, seen, report, proven, cut, nights>>

RecheckOld ==
    /\ step = "recheck"
    /\ \/ /\ Passes(pin, seen.online)
          /\ Rests(IF report = "failed" THEN "failed" ELSE "skipped") /\ proven' = pin
       \/ Rests("failed") /\ UNCHANGED proven
    /\ UNCHANGED <<pin, box, Database, cut, nights>>

WritePin ==
    /\ step = "pin"
    /\ pin' = 2 /\ proven' = 0
    /\ step' = "up"
    /\ UNCHANGED <<box, Database, seen, report, cut, nights>>

UpTarget ==
    /\ step = "up"
    /\ \/ (\E c \in {"healthy", "unhealthy"} : Up(c)) /\ step' \in {"verify", "undo"}
       \/ UNCHANGED <<box, data>> /\ step' = "undo"
    /\ UNCHANGED <<pin, archive, saved, acked, seen, report, proven, cut, nights>>

VerifyTarget ==
    /\ step = "verify"
    /\ \/ Passes(2, seen.offline) /\ Rests("ok") /\ proven' = 2
       \/ step' = "undo" /\ UNCHANGED <<report, seen, proven>>
    /\ UNCHANGED <<pin, box, Database, cut, nights>>

UndoStopIgnored ==
    /\ step = "undo"
    /\ \/ box' = [box EXCEPT !.state = "stopped"]
       \/ UNCHANGED box
    /\ step' = "unpin"
    /\ UNCHANGED <<pin, Database, report, seen, proven, cut, nights>>

(* _owui_rollback: the data is never moved out from under a running container.                    *)
UndoStop ==
    /\ step = "undo"
    /\ \/ box' = [box EXCEPT !.state = "stopped"] /\ step' = "unpin" /\ UNCHANGED <<report, seen>>
       \/ UNCHANGED box /\ Rests("failed")
    /\ UNCHANGED <<pin, Database, proven, cut, nights>>

UndoPin ==
    /\ step = "unpin"
    /\ pin' = seen.old /\ step' = "move"
    /\ UNCHANGED <<box, Database, seen, report, proven, cut, nights>>

(* The restore script: everything the archive covers goes aside, then the archive is unpacked.    *)
MoveAside ==
    /\ step = "move"
    /\ \/ data' = Nothing /\ saved' = saved \cup data.rows /\ step' = "extract" /\ UNCHANGED <<report, seen>>
       \/ Rests("failed") /\ UNCHANGED <<data, saved>>
    /\ UNCHANGED <<pin, box, archive, acked, proven, cut, nights>>

Extract ==
    /\ step = "extract"
    /\ \/ data' = archive /\ step' = "reup" /\ UNCHANGED <<report, seen>>
       \/ Rests("failed") /\ UNCHANGED data
    /\ UNCHANGED <<pin, box, archive, saved, acked, proven, cut, nights>>

UpOld ==
    /\ step = "reup"
    /\ \/ \E c \in {"healthy", "unhealthy"} : Up(c)
       \/ UNCHANGED <<box, data>>
    /\ step' = "reverify"
    /\ UNCHANGED <<pin, archive, saved, acked, seen, report, proven, cut, nights>>

VerifyOld ==
    /\ step = "reverify"
    /\ \/ Passes(seen.old, seen.offline) /\ Rests("rolled_back") /\ proven' = seen.old
       \/ Rests("failed") /\ UNCHANGED proven
    /\ UNCHANGED <<pin, box, Database, cut, nights>>

Killed ==
    /\ step # "idle"
    /\ Rests("none") /\ cut' = TRUE
    /\ UNCHANGED <<pin, box, Database, proven, nights>>

(* People, while a container serves.                                                              *)
Write(r) ==
    /\ Serving /\ r \notin acked \cup saved \cup data.rows /\ \A q \in Row : q < r => q \in acked \cup saved \cup data.rows
    /\ data' = [data EXCEPT !.rows = @ \cup {r}] /\ acked' = acked \cup {r}
    /\ UNCHANGED <<pin, box, archive, saved, step, seen, report, proven, cut, nights>>

Delete(r) ==
    /\ Serving /\ r \in data.rows
    /\ data' = [data EXCEPT !.rows = @ \ {r}] /\ acked' = acked \ {r}
    /\ UNCHANGED <<pin, box, archive, saved, step, seen, report, proven, cut, nights>>

OwuiNext ==
    \/ Preflight \/ OnlineBackup \/ StopOld \/ SnapshotGate \/ RestartUnchanged \/ RecheckOld
    \/ WritePin \/ UpTarget \/ VerifyTarget
    \/ UndoStop \/ UndoPin \/ MoveAside \/ Extract \/ UpOld \/ VerifyOld \/ Killed
    \/ \E r \in Row : Write(r) \/ Delete(r)

OwuiSpec == OwuiInit /\ [][OwuiNext]_owuiVars

-----------------------------------------------------------------------------
(* The type invariant of the Open WebUI update.                               *)
OwuiTypeOK ==
    /\ pin \in Version /\ box \in [image : Version, state : {"healthy", "unhealthy", "stopped"}]
    /\ data \in [schema : {Gone} \cup Version, rows : SUBSET Row]
    /\ archive \in [schema : {Gone} \cup Version, rows : SUBSET Row]
    /\ saved \subseteq Row /\ acked \subseteq Row /\ step \in Steps
    /\ seen \in [old : {0} \cup Version, online : Nat, offline : Nat]
    /\ report \in Reports /\ proven \in {0} \cup Version /\ cut \in BOOLEAN

(* "Nothing is deleted" (updates.py:528): whatever the new image loses, and wherever the steward  *)
(* is killed, every row that was written and not deleted is in the volume or in something kept.    *)
OwuiRowsKept == acked \subseteq data.rows \cup saved

(* "never a half-applied update" (updates.py:920): unless it was killed, a transaction that was   *)
(* begun and does not say `failed' leaves a container of the pinned image that passed the gates,   *)
(* on data of its own schema.  (The next night calls what a failed one leaves behind `current'.)   *)
OwuiNotHalfApplied ==
    (step = "idle" /\ ~cut /\ report \notin {"none", "failed", "current", "unfit"})
        => proven = pin /\ box.image = pin /\ data.schema = pin

(* Which release is pinned in a step, and whose data is in the volume.                            *)
PinOfStep ==
    /\ step # "idle" => seen.old = 1
    /\ step \in {"online", "stop", "snapshot", "restart", "recheck", "pin",
                 "move", "extract", "reup", "reverify"} => pin = 1
    /\ step \in {"up", "verify", "undo", "unpin"} => pin = 2
    /\ step \in {"online", "stop", "snapshot", "restart", "pin"} => data.schema = 1
    /\ step \in {"online", "stop"} => box.image = 1 /\ proven = 1
SchemaOfImage ==
    /\ Serving => data.schema = box.image
    /\ archive.schema \in {Gone, 1} /\ (step = "reup" => data.schema \in {Gone, 1})

(* The volume is thrown away or migrated only when its rows were saved and nobody can write.      *)
SavedBefore ==
    /\ archive.rows \subseteq saved
    /\ archive.schema = Gone => archive.rows = {}
    /\ data.schema = Gone => data.rows = {}
    /\ step \in {"snapshot", "pin", "up", "unpin", "move", "extract", "reup"} => ~Serving
    /\ step \in {"pin", "up", "extract", "reup"} => data.rows \subseteq saved

(* The inductive invariant of the update.                                                         *)
OwuiIInv ==
    OwuiTypeOK /\ PinOfStep /\ SchemaOfImage /\ SavedBefore /\ OwuiRowsKept /\ OwuiNotHalfApplied

(* _owui_rollback: the data goes only while no container is running on it.                        *)
OwuiDataStill == [][(step \in {"move", "extract"} /\ data' # data) => ~Serving]_owuiVars
=============================================================================
