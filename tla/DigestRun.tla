------------------------------ MODULE DigestRun ------------------------------
(***************************************************************************)
(* Processes that run the phases of one Daily News digest                  *)
(* (scripts/daily_news/workflow.py: run_digest) against the workflow state *)
(* of that run, and the publisher (scripts/news_publish.py).  Nothing      *)
(* keeps two processes from running the same digest, and a process may be  *)
(* killed, or interrupted by a signal, at any point.                       *)
(*                                                                         *)
(* An artifact's content is named by the attempt that produced it and the  *)
(* inputs it was produced from -- no two attempts produce the same bytes;  *)
(* the upstream part of a phase's inputs is the previous phase's payload.  *)
(* A signal or a kill may come at any point, so the errors that end a      *)
(* process without touching the state (the code changed during the run)    *)
(* are the steps of Kill.                                                  *)
(***************************************************************************)
EXTENDS WorkflowState, Sequences, FiniteSets

CONSTANTS
  Phases,      \* the phases in their order; the last one is "archive"
  Validated,   \* those loaded with a validator; text phases have none
  Code,        \* versions of the pipeline code and policy
  NoCode,
  MaxStarts    \* bound: how many times a digest process is started

ASSUME PhasesAssumption ==
  /\ Phases \in Seq(Phase)
  /\ Len(Phases) > 0
  /\ \A i, j \in 1..Len(Phases) : Phases[i] = Phases[j] => i = j
Inputs == [code : Code, up : Nat]
Content == [attempt : Nat \ {0}, inputs : Inputs]
Row == [status : PhaseStatus, attempt : Nat \ {0}, inputs : Inputs,
        hash : Content \cup {NoHash}]

ASSUME MaxStartsAssumption == MaxStarts \in Nat

ASSUME NullsAssumption ==
  NoClient \notin Client /\ NoRow \notin Row /\ NoHash \notin Content

VARIABLES
  pc,          \* where each process is in run_digest
  code,        \* the code version it started with
  seen,        \* the payloads of the phases it has completed or resumed
  snap,        \* the row it read in begin_or_load_phase
  token,       \* the attempt number of its PhaseAttempt, 0 for none
  starts,      \* processes started so far
  publisher    \* "idle", or "live" once an edition of this run is on the site

procVars == <<pc, code, seen, snap, token>>
vars == <<stateVars, procVars, starts, publisher>>

At(c) == Phases[Len(seen[c]) + 1]

PhaseInputs(c) ==
  [code |-> code[c],
   up |-> IF seen[c] = <<>> THEN 0 ELSE seen[c][Len(seen[c])].attempt]

Init ==
  /\ StateInit
  /\ pc = [c \in Client |-> "idle"]
  /\ code = [c \in Client |-> NoCode]
  /\ seen = [c \in Client |-> <<>>]
  /\ snap = [c \in Client |-> NoRow]
  /\ token = [c \in Client |-> 0]
  /\ starts = 0
  /\ publisher = "idle"

Goto(c, label) == pc' = [pc EXCEPT ![c] = label]

(* The process is gone, and its memory with it.                            *)
Forget(c) ==
  /\ code' = [code EXCEPT ![c] = NoCode]
  /\ seen' = [seen EXCEPT ![c] = <<>>]
  /\ snap' = [snap EXCEPT ![c] = NoRow]
  /\ token' = [token EXCEPT ![c] = 0]

(* A phase returned its payload: go on to the next one.                    *)
Adopt(c, payload) ==
  /\ seen' = [seen EXCEPT ![c] = Append(@, payload)]
  /\ Goto(c, IF Len(seen[c]) + 1 < Len(Phases) THEN "load" ELSE "done")
  /\ snap' = [snap EXCEPT ![c] = NoRow]
  /\ token' = [token EXCEPT ![c] = 0]
  /\ UNCHANGED code

Start(c, v) ==
  /\ pc[c] \in {"idle", "done", "signalled"}
  /\ starts < MaxStarts
  /\ starts' = starts + 1
  /\ Goto(c, "load")
  /\ code' = [code EXCEPT ![c] = v]
  /\ seen' = [seen EXCEPT ![c] = <<>>]
  /\ snap' = [snap EXCEPT ![c] = NoRow]
  /\ token' = [token EXCEPT ![c] = 0]
  /\ UNCHANGED <<stateVars, publisher>>

-----------------------------------------------------------------------------
(* begin_or_load_phase: read the row, then the file, then validate, each   *)
(* at its own time and without the database lock.                          *)
ReadRow(c) ==
  LET r == row[At(c)] IN
  /\ pc[c] = "load"
  /\ IF r # NoRow /\ r.status = "succeeded"
     THEN snap' = [snap EXCEPT ![c] = r] /\ Goto(c, "read")
     ELSE UNCHANGED snap /\ Goto(c, "begin")
  /\ UNCHANGED <<stateVars, code, seen, token>>

ReadFileAnyInputs(c) ==
  /\ pc[c] = "read"
  /\ Goto(c, IF file[At(c)] = snap[c].hash THEN "validate" ELSE "invalidate")
  /\ UNCHANGED <<stateVars, code, seen, snap, token>>

ReadFile(c) ==
  /\ pc[c] = "read"
  /\ Goto(c, IF snap[c].inputs = PhaseInputs(c) /\ file[At(c)] = snap[c].hash
             THEN "validate" ELSE "invalidate")
  /\ UNCHANGED <<stateVars, code, seen, snap, token>>

(* Resume from the bytes that were read, which are what the row recorded.  *)
(* A phase with a validator looks at the file once more after it accepts.  *)
Resume(c) ==
  /\ pc[c] = "validate"
  /\ At(c) \in Validated => file[At(c)] = snap[c].hash
  /\ Adopt(c, snap[c].hash)
  /\ UNCHANGED stateVars

(* The validator rejects the payload, or the file changed meanwhile.       *)
Reject(c) ==
  /\ pc[c] = "validate"
  /\ At(c) \in Validated
  /\ Goto(c, "invalidate")
  /\ UNCHANGED <<stateVars, code, seen, snap, token>>

Invalidate(c) ==
  /\ pc[c] = "invalidate"
  /\ InvalidateSnapshot(At(c), snap[c])
  /\ Goto(c, "begin")
  /\ snap' = [snap EXCEPT ![c] = NoRow]
  /\ UNCHANGED <<code, seen, token>>

Begin(c) ==
  /\ pc[c] = "begin"
  /\ BeginPhase(At(c), PhaseInputs(c))
  /\ token' = [token EXCEPT ![c] = NextAttempt(At(c))]
  /\ Goto(c, "work")
  /\ UNCHANGED <<code, seen, snap>>

(* complete_phase_json / complete_phase_text.                              *)
Write(c) ==
  /\ pc[c] = "work"
  /\ WriteOwned(c, At(c), token[c],
                [attempt |-> token[c], inputs |-> PhaseInputs(c)])
  /\ Goto(c, "commit")
  /\ UNCHANGED <<code, seen, snap, token>>

Commit(c) ==
  /\ pc[c] = "commit"
  /\ CommitOwned(c, At(c))
  /\ Adopt(c, file[At(c)])

(* The phase raises: its own work fails, the attempt is no longer its own, *)
(* or the completion fails and rolls back.                                 *)
Raise(c) ==
  /\ pc[c] \in {"work", "commit"}
  /\ RollBack(c)
  /\ Goto(c, "failing")
  /\ UNCHANGED <<code, seen, snap, token>>

(* The database stays locked for SQLITE_BUSY_TIMEOUT_MS.                   *)
Busy(c) ==
  /\ pc[c] \in {"load", "invalidate", "begin", "work"}
  /\ ~Unlocked
  /\ Goto(c, "failing")
  /\ UNCHANGED <<stateVars, code, seen, snap, token>>

(* track_phase_failure: record the failure if the attempt is still its     *)
(* own, swallow every error of doing so, and end the process.              *)
RecordFailure(c) ==
  /\ pc[c] = "failing"
  /\ FailPhase(At(c), token[c])
  /\ Goto(c, "idle")
  /\ Forget(c)

GiveUp(c) ==
  /\ pc[c] = "failing"
  /\ ~Unlocked \/ ~Owns(At(c), token[c])
  /\ Goto(c, "idle")
  /\ Forget(c)
  /\ UNCHANGED stateVars

-----------------------------------------------------------------------------
(* SIGTERM, SIGINT or SIGHUP: the handler runs in the main thread, on top  *)
(* of whatever that was doing -- a transaction included.                   *)
Signal(c) ==
  /\ pc[c] \notin {"idle", "done", "handler", "signalled"}
  /\ Goto(c, "handler")
  /\ UNCHANGED <<stateVars, code, seen, snap, token>>

HandlerAbort(c) ==
  /\ pc[c] = "handler"
  /\ AbortInterruptedPhases
  /\ Goto(c, "signalled")
  /\ UNCHANGED <<code, seen, snap, token>>

HandlerWaits(c) ==
  /\ pc[c] = "handler"
  /\ lock \notin {c, NoClient}
  /\ Goto(c, "signalled")
  /\ UNCHANGED <<stateVars, code, seen, snap, token>>

(* The handler's own connection finds the database locked, by another      *)
(* process or by the transaction it interrupted; it swallows the error and *)
(* kills the process, whose transaction rolls back.                        *)
HandlerBusy(c) ==
  /\ pc[c] = "handler"
  /\ ~Unlocked
  /\ RollBack(c)
  /\ Goto(c, "signalled")
  /\ UNCHANGED <<code, seen, snap, token>>

Kill(c) ==
  /\ pc[c] \notin {"idle", "done", "signalled"}
  /\ RollBack(c)
  /\ Goto(c, "idle")
  /\ Forget(c)

-----------------------------------------------------------------------------
(* publish: an edition is built from a succeeded archive row whose file    *)
(* matches its hash; later, and only then, the run is finalized.  A file   *)
(* that changed after the row was read is refused like a mismatch.         *)
Publish ==
  LET p == Phases[Len(Phases)] IN
  /\ publisher = "idle"
  /\ row[p] # NoRow
  /\ row[p].status = "succeeded"
  /\ file[p] = row[p].hash
  /\ publisher' = "live"
  /\ UNCHANGED <<stateVars, procVars, starts>>

Finalize ==
  /\ publisher = "live"
  /\ FinalizePublished
  /\ publisher' = "idle"
  /\ UNCHANGED <<procVars, starts>>

PublisherDies ==
  /\ publisher = "live"
  /\ publisher' = "idle"
  /\ UNCHANGED <<stateVars, procVars, starts>>

-----------------------------------------------------------------------------
Proceed(c) ==
  \/ ReadRow(c) \/ ReadFile(c) \/ Resume(c) \/ Reject(c) \/ Invalidate(c)
  \/ Begin(c) \/ Write(c) \/ Commit(c) \/ Raise(c) \/ Busy(c)
  \/ RecordFailure(c) \/ GiveUp(c)
  \/ HandlerAbort(c) \/ HandlerBusy(c)

Next ==
  \/ \E c \in Client, v \in Code : Start(c, v)
  \/ \E c \in Client : (Proceed(c) \/ Signal(c) \/ Kill(c))
                       /\ UNCHANGED <<starts, publisher>>
  \/ Publish \/ Finalize \/ PublisherDies

Spec == Init /\ [][Next]_vars

(* A live process is scheduled; it is started, killed and signalled, and   *)
(* the publisher run, only if someone does.                                *)
Fairness ==
  \A c \in Client : WF_vars(Proceed(c) /\ UNCHANGED <<starts, publisher>>)

FairSpec == Spec /\ Fairness

-----------------------------------------------------------------------------
(* Properties *)

Running == {"load", "read", "validate", "invalidate", "begin", "work",
            "commit", "failing", "handler"}

(* The type invariant of the digest processes.                                *)
TypeOK ==
  /\ run \in PhaseStatus \cup {"absent"}
  /\ row \in [Phase -> Row \cup {NoRow}]
  /\ file \in [Phase -> Content \cup {NoFile}]
  /\ lock \in Client \cup {NoClient}
  /\ pc \in [Client -> Running \cup {"idle", "done", "signalled"}]
  /\ code \in [Client -> Code \cup {NoCode}]
  /\ seen \in [Client -> Seq(Content)]
  /\ snap \in [Client -> Row \cup {NoRow}]
  /\ token \in [Client -> Nat]
  /\ starts \in 0..MaxStarts
  /\ publisher \in {"idle", "live"}

(* At most one process owns the running attempt of a phase, however many   *)
(* of them began it.                                                       *)
OneOwner ==
  \A c, d \in Client, p \in Phase :
    /\ token[c] # 0 /\ token[d] # 0
    /\ Len(seen[c]) < Len(Phases) /\ Len(seen[d]) < Len(Phases)
    /\ At(c) = p /\ Owns(p, token[c])
    /\ At(d) = p /\ Owns(p, token[d])
    => c = d

(* A succeeded row records the work of its own attempt, done from the      *)
(* inputs it was begun with.                                               *)
OwnWork ==
  \A p \in Phase :
    (row[p] # NoRow /\ row[p].status = "succeeded") =>
      row[p].hash = [attempt |-> row[p].attempt, inputs |-> row[p].inputs]

(* A process never assembles an edition from phases that do not belong     *)
(* together: each payload it resumed or produced was made by the code it   *)
(* runs, from the payload it holds of the phase before.                    *)
ConsistentEdition ==
  \A c \in Client : \A i \in 1..Len(seen[c]) :
    seen[c][i].inputs =
      [code |-> code[c], up |-> IF i = 1 THEN 0 ELSE seen[c][i - 1].attempt]

(* "Record an interrupted final state instead of leaving 'running'": when  *)
(* the signal handler has run, the attempt it interrupted is not running.  *)
InterruptRecorded ==
  \A c \in Client :
    pc[c] = "signalled" => ~(token[c] # 0 /\ Owns(At(c), token[c]))

(* The database lock is always given up: a signalled process ends, even    *)
(* one that was interrupted inside its own transaction, and so does every  *)
(* other.                                                                  *)
ProcessesEnd == \A c \in Client : pc[c] \in Running ~> pc[c] \notin Running

(* What each point of the program knows of the process's own memory.       *)
ProcessOK ==
  \A c \in Client :
    /\ Len(seen[c]) <= Len(Phases)
    /\ pc[c] # "done" => Len(seen[c]) < Len(Phases)
    /\ pc[c] # "idle" => code[c] \in Code
    /\ token[c] # 0 => pc[c] \in {"work", "commit", "failing", "handler", "signalled"}
    /\ pc[c] \in {"work", "commit"} => token[c] # 0

(* A snapshot is of a succeeded row, whose attempt can only have been      *)
(* superseded since.                                                       *)
SnapshotsOK ==
  \A c \in Client :
    /\ pc[c] \in {"read", "validate", "invalidate"} =>
         /\ snap[c] # NoRow
         /\ row[At(c)] # NoRow
         /\ snap[c].hash = [attempt |-> snap[c].attempt, inputs |-> snap[c].inputs]
    /\ pc[c] = "validate" => snap[c].inputs = PhaseInputs(c)

(* A token is of an attempt that was begun with the process's own inputs,  *)
(* and no two processes have the same one.                                 *)
TokensOK ==
  /\ \A c \in Client :
       token[c] # 0 =>
         /\ row[At(c)] # NoRow
         /\ token[c] <= row[At(c)].attempt
         /\ token[c] = row[At(c)].attempt => row[At(c)].inputs = PhaseInputs(c)
  /\ \A c, d \in Client :
       (token[c] # 0 /\ token[c] = token[d] /\ At(c) = At(d)) => c = d

(* The database lock is held by a process that has replaced the artifact   *)
(* of the attempt it owns and not yet committed.                           *)
LockOK ==
  \A c \in Client :
    /\ pc[c] = "commit" => lock = c
    /\ lock = c =>
         /\ pc[c] \in {"commit", "handler"}
         /\ token[c] # 0
         /\ Owns(At(c), token[c])
         /\ file[At(c)] = [attempt |-> token[c], inputs |-> PhaseInputs(c)]

RunPresent == run = "absent" <=> \A p \in Phase : row[p] = NoRow

(* Attempts are sound: one process owns each, what a row says succeeded is  *)
(* the work of its own attempt, and what a process remembers of it -- its   *)
(* token, its snapshot, the lock -- is of an attempt that was begun with    *)
(* its own inputs.                                                          *)
AttemptsSound ==
  /\ TypeOK /\ ProcessOK /\ SnapshotsOK /\ TokensOK /\ LockOK /\ RunPresent
  /\ OneOwner /\ OwnWork
=============================================================================
