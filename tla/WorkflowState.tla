---------------------------- MODULE WorkflowState ----------------------------
(***************************************************************************)
(* scripts/workflow_state.py: the rows of one workflow run in SQLite and   *)
(* the artifact file of each phase.                                        *)
(*                                                                         *)
(* Every transition runs under BEGIN IMMEDIATE, so one transaction writes  *)
(* at a time and each is one step -- but for the completion of a phase,    *)
(* which replaces the artifact file inside its transaction: the file is    *)
(* new from then on, the row only from the commit.  lock is the client     *)
(* that holds the write lock between those two steps.                      *)
(*                                                                         *)
(* A hash is the content it is the hash of.  The columns status, attempt,  *)
(* input_fingerprint and artifact_hash are kept; resume_valid is           *)
(* status = "succeeded"; updated_at changes with every transition, so that *)
(* _same_attempt compares what attempt and status determine.               *)
(***************************************************************************)
EXTENDS Naturals

CONSTANTS
  Phase,       \* the phases of the run; each has one artifact path
  Client,      \* processes that open the database
  NoRow, NoFile, NoHash, NoClient

VARIABLES
  run,         \* status of the run's row in workflow_runs, or "absent"
  row,         \* phase_state: one row per phase, or NoRow
  file,        \* what the artifact path of each phase holds
  lock         \* the client inside a completion transaction, or NoClient

stateVars == <<run, row, file, lock>>

PhaseStatus == {"running", "succeeded", "failed", "invalid", "aborted"}

StateInit ==
  /\ run = "absent"
  /\ row = [p \in Phase |-> NoRow]
  /\ file = [p \in Phase |-> NoFile]
  /\ lock = NoClient

Unlocked == lock = NoClient

Statuses(rows) == {rows[p].status : p \in {q \in Phase : rows[q] # NoRow}}

(* The summary that _refresh_run_status computes from the phase rows.      *)
RunStatus(rows) ==
  LET S == Statuses(rows) IN
  CASE "running" \in S                         -> "running"
    [] "running" \notin S /\ "failed" \in S    -> "failed"
    [] S \cap {"running", "failed"} = {} /\ "invalid" \in S -> "invalid"
    [] S = {"succeeded"}                       -> "succeeded"
    [] S # {"succeeded"} /\ S # {} /\ S \subseteq {"succeeded", "aborted"}
                                               -> "aborted"
    [] S = {}                                  -> "running"

Refresh == run' = IF run = "absent" THEN run ELSE RunStatus(row')

(* _same_attempt for the token of a running attempt.                       *)
Owns(p, attempt) ==
  /\ row[p] # NoRow
  /\ row[p].attempt = attempt
  /\ row[p].status = "running"

-----------------------------------------------------------------------------
NextAttemptReused(p) == IF row[p] = NoRow THEN 1 ELSE row[p].attempt

NextAttempt(p) == IF row[p] = NoRow THEN 1 ELSE row[p].attempt + 1

BeginPhase(p, in) ==
  /\ Unlocked
  /\ row' = [row EXCEPT ![p] = [status |-> "running", attempt |-> NextAttempt(p),
                                inputs |-> in, hash |-> NoHash]]
  /\ run' = "running"
  /\ UNCHANGED <<file, lock>>

WriteUnowned(c, p, attempt, data) ==
  /\ Unlocked
  /\ row[p] # NoRow
  /\ lock' = c
  /\ file' = [file EXCEPT ![p] = data]
  /\ UNCHANGED <<run, row>>

(* _complete_owned_file up to the replacement of the artifact.             *)
WriteOwned(c, p, attempt, data) ==
  /\ Unlocked
  /\ Owns(p, attempt)
  /\ lock' = c
  /\ file' = [file EXCEPT ![p] = data]
  /\ UNCHANGED <<run, row>>

(* The rest of it: hash the file, record it, refresh the run, commit.      *)
CommitOwned(c, p) ==
  /\ lock = c
  /\ row' = [row EXCEPT ![p].status = "succeeded", ![p].hash = file[p]]
  /\ Refresh
  /\ lock' = NoClient
  /\ UNCHANGED file

(* The transaction ends without a commit: an exception, or the process     *)
(* dies.  The rows are as before, the artifact stays replaced.             *)
RollBack(c) ==
  /\ lock' = IF lock = c THEN NoClient ELSE lock
  /\ UNCHANGED <<run, row, file>>

FailUnowned(p, attempt) ==
  /\ Unlocked
  /\ row[p] # NoRow
  /\ row' = [row EXCEPT ![p].status = "failed"]
  /\ Refresh
  /\ UNCHANGED <<file, lock>>

FailPhase(p, attempt) ==
  /\ Unlocked
  /\ Owns(p, attempt)
  /\ row' = [row EXCEPT ![p].status = "failed"]
  /\ Refresh
  /\ UNCHANGED <<file, lock>>

(* _invalidate_snapshot of a succeeded row that was read earlier.          *)
InvalidateSnapshot(p, snapshot) ==
  /\ Unlocked
  /\ IF row[p].attempt = snapshot.attempt /\ row[p].status = "succeeded"
     THEN row' = [row EXCEPT ![p].status = "invalid"] /\ Refresh
     ELSE UNCHANGED <<row, run>>
  /\ UNCHANGED <<file, lock>>

AbortRows ==
  row' = [p \in Phase |->
            IF row[p] # NoRow /\ row[p].status = "running"
            THEN [row[p] EXCEPT !.status = "aborted"] ELSE row[p]]

AbortEveryPhase ==
  /\ Unlocked
  /\ row' = [p \in Phase |->
               IF row[p] # NoRow THEN [row[p] EXCEPT !.status = "aborted"]
               ELSE row[p]]
  /\ Refresh
  /\ UNCHANGED <<file, lock>>

AbortInterruptedPhases ==
  /\ Unlocked
  /\ AbortRows
  /\ Refresh
  /\ UNCHANGED <<file, lock>>

FinalizeRunOnly ==
  /\ Unlocked
  /\ run' = IF run \in {"running", "aborted"} THEN "succeeded" ELSE run
  /\ UNCHANGED <<row, file, lock>>

(* finalize_published writes the run's row itself instead of refreshing.   *)
FinalizePublished ==
  /\ Unlocked
  /\ AbortRows
  /\ run' = IF run \in {"running", "aborted"} THEN "succeeded" ELSE run
  /\ UNCHANGED <<file, lock>>

-----------------------------------------------------------------------------
(* Properties of the rows and files, whoever the clients are.              *)

(* A succeeded row vouches for the bytes that are on disk: no crash, no    *)
(* rollback and no superseded attempt separates them (complete_json and    *)
(* complete_text write inside the transaction that records the hash).      *)
RowMatchesFile ==
  \A p \in Phase :
    (row[p] # NoRow /\ row[p].status = "succeeded") => file[p] = row[p].hash

(* The run's row says "running" exactly while some phase does.             *)
RunRunsWithPhases == run = "running" <=> "running" \in Statuses(row)

(* "Keep the run summary consistent with its phase rows", for failures: a  *)
(* run with a failed phase is never summarised as succeeded.               *)
NoFailureHidden == run = "succeeded" => "failed" \notin Statuses(row)

(* Every attempt is decided once: the attempt number only moves to its     *)
(* successor, and then to a running row; a row leaves "running" for a      *)
(* final status and, within an attempt, only a success can still change,   *)
(* to "invalid".                                                           *)
AttemptsDecidedOnce ==
  [][\A p \in Phase :
       row'[p] # row[p] =>
         \/ /\ row'[p].status = "running"
            /\ row'[p].attempt = IF row[p] = NoRow THEN 1 ELSE row[p].attempt + 1
         \/ /\ row[p] # NoRow
            /\ row'[p].attempt = row[p].attempt
            /\ row'[p].inputs = row[p].inputs
            /\ \/ row[p].status = "running"
               \/ row[p].status = "succeeded" /\ row'[p].status = "invalid"
    ]_stateVars
=============================================================================
