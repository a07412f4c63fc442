---------------------------- MODULE OmpDatabases ----------------------------
(***************************************************************************)
(* The repair of a corrupt OMP database, steward/updates.py                 *)
(* _p1_omp_db_repair: rehearse REINDEX and VACUUM on a copy, apply them to  *)
(* the live file only when nothing was lost, and run the night's failed     *)
(* backup again when repaired databases were its only cause.  OMP sessions  *)
(* go on writing, and corruption goes on spreading.                         *)
(*                                                                         *)
(* Of a database, the rows that a full table scan finds, those that a       *)
(* rebuild would not carry over, and whether its b-trees are corrupt.       *)
(***************************************************************************)
EXTENDS Naturals, FiniteSets, Sequences

CONSTANTS MaxOmpRows, MaxRepairs    \* bounds: rows ever written, nights

ASSUME OmpAssumption == MaxOmpRows \in Nat /\ MaxRepairs \in Nat

VARIABLES
    db, written,    \* the live file, and the rows sessions wrote
    evidence,       \* copies kept of corrupt files, newest first, at most OMP_DB_REPAIR_KEEP
    rehearsal,      \* the working copy
    mend,           \* the step of the repair
    spread,         \* corruption came after the copy was taken
    backup,         \* tonight's backup: its result and the targets it blames
    mended,         \* the packet
    repairs

ompVars == <<db, written, evidence, rehearsal, mend, spread, backup, mended, repairs>>

OmpRow == 1..MaxOmpRows
OMP_DB_REPAIR_KEEP == 2         \* three in the code
NoDb == [rows |-> {}, fragile |-> {}, corrupt |-> FALSE]
NoPacket2 == [status |-> "none", action |-> "none", rerun |-> "none", note |-> "none"]

OmpInit ==
    /\ db = NoDb /\ written = {} /\ evidence = <<>> /\ rehearsal = NoDb
    /\ mend = "idle" /\ spread = FALSE /\ backup = [result |-> "success", blames |-> {}]
    /\ mended = NoPacket2 /\ repairs = 0

Rebuilt(d) == [rows |-> d.rows \ d.fragile, fragile |-> {}, corrupt |-> FALSE]
KeepAll(s) == s
Keep(s) == IF Len(s) > OMP_DB_REPAIR_KEEP THEN SubSeq(s, 1, OMP_DB_REPAIR_KEEP) ELSE s

(* Sessions write; pages rot.                                                 *)
SessionWrites(r) ==
    /\ r \notin written /\ \A q \in OmpRow : q < r => q \in written
    /\ db' = [db EXCEPT !.rows = @ \cup {r}] /\ written' = written \cup {r}
    /\ UNCHANGED <<evidence, rehearsal, mend, spread, backup, mended, repairs>>

Corrupt(lost) ==
    /\ lost \subseteq db.rows
    /\ db' = [db EXCEPT !.corrupt = TRUE, !.fragile = @ \cup lost] /\ db' # db
    /\ spread' = (spread \/ mend # "idle")
    /\ UNCHANGED <<written, evidence, rehearsal, mend, backup, mended, repairs>>

(* The nightly backup rejects a corrupt database, or fails for another target. *)
BackupOf(others) ==
    LET blamed == (IF db.corrupt THEN {"omp"} ELSE {}) \cup others
    IN [result |-> IF blamed = {} THEN "success" ELSE "failed", blames |-> blamed]

(* Its own timer starts it, in the middle of a repair as well; a packet of an  *)
(* earlier night says nothing of it.                                          *)
Backup(others) ==
    /\ repairs < MaxRepairs
    /\ backup' = BackupOf(others)
    /\ mended' = IF mend = "idle" THEN NoPacket2 ELSE mended
    /\ UNCHANGED <<db, written, evidence, rehearsal, mend, spread, repairs>>

(* _ompdb_integrity: a healthy file ends the step.                            *)
CheckIntegrity ==
    /\ mend = "idle" /\ repairs < MaxRepairs
    /\ repairs' = repairs + 1 /\ spread' = FALSE /\ rehearsal' = NoDb
    /\ IF db.corrupt THEN mend' = "copy" /\ mended' = NoPacket2
       ELSE mend' = "idle" /\ mended' = [NoPacket2 EXCEPT !.status = "skipped"]
    /\ UNCHANGED <<db, written, evidence, backup>>

Unresolved(a) == mended' = [NoPacket2 EXCEPT !.status = "warning", !.action = a] /\ mend' = "idle"

(* The evidence, and the working copy of it.  Leftovers are removed whatever  *)
(* happens, evidence beyond the newest few as well.                           *)
CopyDb ==
    /\ mend = "copy"
    /\ \/ /\ evidence' = Keep(<<db>> \o evidence) /\ rehearsal' = db
          /\ spread' = FALSE /\ mend' = "rehearse" /\ UNCHANGED mended
       \/ Unresolved("failed") /\ UNCHANGED <<evidence, rehearsal, spread>>
    /\ UNCHANGED <<db, written, backup, repairs>>

LosslessAssumed(before, after) == TRUE

(* The gates: integrity, row counts and auth hashes of the rebuilt copy.      *)
Lossless(before, after) == Cardinality(before.rows) = Cardinality(after.rows)

Rehearse ==
    /\ mend = "rehearse"
    /\ LET after == Rebuilt(rehearsal) IN
       \/ Lossless(rehearsal, after) /\ mend' = "apply" /\ UNCHANGED mended
       \/ Unresolved("blocked")
    /\ rehearsal' = NoDb
    /\ UNCHANGED <<db, written, evidence, spread, backup, repairs>>

ApplyLive ==
    /\ mend = "apply"
    /\ \/ db' = Rebuilt(db) /\ mend' = "check" /\ UNCHANGED mended
       \/ Unresolved("failed") /\ UNCHANGED db
    /\ UNCHANGED <<written, evidence, rehearsal, spread, backup, repairs>>

CheckLive ==
    /\ mend = "check"
    /\ IF db.corrupt THEN Unresolved("failed")
       ELSE mend' = "rerun" /\ mended' = [mended EXCEPT !.action = "repaired"]
    /\ UNCHANGED <<db, written, evidence, rehearsal, spread, backup, repairs>>

(* _ompdb_backup_rerun: once, and only when nothing else failed.  Tonight's    *)
(* failure is not known when systemd does not answer, a backup runs at the    *)
(* moment, none has a time or it was too long ago: then none is needed.  When *)
(* the journal does not answer nothing is blamed.  The answer of the run may  *)
(* be lost.                                                                    *)
Reran(status, rerun, note) ==
    mended' = [mended EXCEPT !.status = status, !.rerun = rerun, !.note = note]

Rerun ==
    /\ mend = "rerun" /\ mend' = "idle"
    /\ \/ backup.result = "success" /\ Reran("ok", "not_needed", "good") /\ UNCHANGED backup
       \/ Reran("ok", "not_needed", "unknown") /\ UNCHANGED backup
       \/ /\ backup.result = "failed"
          /\ \/ Reran("warning", "not_run", "failed") /\ UNCHANGED backup
             \/ /\ backup.blames = {"omp"}
                /\ \/ Reran("warning", "failed", "failed") /\ UNCHANGED backup
                   \/ \E others \in SUBSET {"files"} :
                        /\ backup' = BackupOf(others)
                        /\ \/ BackupOf(others).result = "success" /\ Reran("ok", "passed", "failed")
                           \/ Reran("warning", "failed", "failed")
    /\ UNCHANGED <<db, written, evidence, rehearsal, spread, repairs>>

OmpDies ==
    /\ mend # "idle"
    /\ mend' = "idle" /\ rehearsal' = NoDb /\ mended' = NoPacket2
    /\ UNCHANGED <<db, written, evidence, spread, backup, repairs>>

OmpNext ==
    \/ \E r \in OmpRow : SessionWrites(r)
    \/ \E lost \in SUBSET OmpRow : Corrupt(lost)
    \/ \E others \in SUBSET {"files"} : Backup(others)
    \/ CheckIntegrity \/ CopyDb \/ Rehearse \/ ApplyLive \/ CheckLive \/ Rerun \/ OmpDies

OmpSpec == OmpInit /\ [][OmpNext]_ompVars

-----------------------------------------------------------------------------
(* The type invariant of omp's database and its repair.                       *)
OmpTypeOK ==
    /\ db \in [rows : SUBSET OmpRow, fragile : SUBSET OmpRow, corrupt : BOOLEAN] /\ db.fragile \subseteq db.rows
    /\ rehearsal \in [rows : SUBSET OmpRow, fragile : SUBSET OmpRow, corrupt : BOOLEAN]
    /\ rehearsal.fragile \subseteq rehearsal.rows
    /\ written \subseteq OmpRow /\ spread \in BOOLEAN /\ repairs \in Nat
    /\ mend \in {"idle", "copy", "rehearse", "apply", "check", "rerun"}
    /\ evidence \in Seq([rows : SUBSET OmpRow, fragile : SUBSET OmpRow, corrupt : BOOLEAN])
    /\ Len(evidence) <= OMP_DB_REPAIR_KEEP
    /\ backup \in [result : {"success", "failed"}, blames : SUBSET {"omp", "files"}]
    /\ mended \in [status : {"none", "skipped", "warning", "ok"}, action : {"none", "failed", "blocked", "repaired"},
                   rerun : {"none", "not_needed", "not_run", "passed", "failed"},
                   note : {"none", "good", "unknown", "failed"}]

(* Until corruption spreads past the copy, the copy stands for the live file, *)
(* and a rehearsal that was let through found nothing to lose; only what was   *)
(* repaired has its backup run again.                                          *)
CopyStands ==
    /\ mend = "rehearse" /\ ~spread => rehearsal.fragile = db.fragile
    /\ mend = "apply" /\ ~spread => db.fragile = {}
    /\ mend = "rerun" => mended.action = "repaired"

(* OMP_DB_UNDO_NOTE, "only applied after a copy proved it lossless": no repair drops a row that   *)
(* a session wrote, unless the corruption spread after the copy was taken.                         *)
RepairLossless == [][(mend = "apply" /\ mend' = "check" /\ ~spread) => db'.rows = db.rows]_ompVars

(* What is called repaired, with nothing left for Carter, follows a backup that was good or made  *)
(* good, or one whose failure the packet's note says it could not know: a failure that was read   *)
(* is never passed over (_ompdb_backup_rerun), whatever backups run in the middle of the repair.  *)
RepairReported ==
    (mend = "idle" /\ mended.status = "ok") =>
      /\ mended.action = "repaired"
      /\ backup.result = "success" \/ (mended.rerun = "not_needed" /\ mended.note = "unknown")
=============================================================================
