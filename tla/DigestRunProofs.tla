--------------------------- MODULE DigestRunProofs ---------------------------
(* Proofs about DigestRun and the transitions of WorkflowState that it      *)
(* takes, for every set of processes, phases and code versions.             *)
EXTENDS DigestRun, SequenceTheorems, TLAPS

Rows == Row \cup {NoRow}

(* What the invariant says of the database and the artifacts alone.         *)
RowsOK ==
  /\ run \in PhaseStatus \cup {"absent"}
  /\ row \in [Phase -> Rows]
  /\ file \in [Phase -> Content \cup {NoFile}]
  /\ RowMatchesFile /\ RunRunsWithPhases /\ RunPresent /\ OwnWork

(* The inductive invariant; OneOwner follows from TokensOK.                 *)
DigestIInv ==
  RowsOK /\ TypeOK /\ ProcessOK /\ SnapshotsOK /\ TokensOK /\ LockOK /\ ConsistentEdition

(* What every step does to the rows: none disappears, and an attempt is     *)
(* only followed by a later one.                                            *)
RowsAdvance ==
  \A p \in Phase :
    row[p] # NoRow => /\ row'[p] # NoRow
                      /\ row'[p].attempt >= row[p].attempt
                      /\ row'[p].attempt = row[p].attempt => row'[p].inputs = row[p].inputs

(* Every step but Begin settles attempts, and starts none.                  *)
Settles ==
  /\ row' \in [Phase -> Rows]
  /\ \A p \in Phase :
       \/ row'[p] = row[p]
       \/ /\ row[p] # NoRow /\ row'[p] # NoRow
          /\ row'[p].attempt = row[p].attempt /\ row'[p].inputs = row[p].inputs
          /\ row[p].status = "running" \/ (row[p].status = "succeeded" /\ row'[p].status = "invalid")

(* What a process knows is as before.                                       *)
Same(c) ==
  /\ pc'[c] = pc[c] /\ code'[c] = code[c] /\ seen'[c] = seen[c]
  /\ snap'[c] = snap[c] /\ token'[c] = token[c]

(* Only process c moves, within the types.                                  *)
Moves(c) ==
  /\ pc' = [pc EXCEPT ![c] = pc'[c]] /\ pc'[c] \in Running \cup {"idle", "done", "signalled"}
  /\ code' = [code EXCEPT ![c] = code'[c]] /\ code'[c] \in Code \cup {NoCode}
  /\ seen' = [seen EXCEPT ![c] = seen'[c]] /\ seen'[c] \in Seq(Content)
  /\ snap' = [snap EXCEPT ![c] = snap'[c]] /\ snap'[c] \in Rows
  /\ token' = [token EXCEPT ![c] = token'[c]] /\ token'[c] \in Nat
  /\ starts' \in 0..MaxStarts /\ publisher' \in {"idle", "live"}

(* What ProcessOK, SnapshotsOK and ConsistentEdition say of one process.    *)
ProcessAt(c) ==
  /\ Len(seen[c]) <= Len(Phases)
  /\ pc[c] # "done" => Len(seen[c]) < Len(Phases)
  /\ pc[c] # "idle" => code[c] \in Code
  /\ token[c] # 0 => pc[c] \in {"work", "commit", "failing", "handler", "signalled"}
  /\ pc[c] \in {"work", "commit"} => token[c] # 0

SnapshotAt(c) ==
  /\ pc[c] \in {"read", "validate", "invalidate"} =>
       /\ snap[c] # NoRow
       /\ row[At(c)] # NoRow
       /\ snap[c].hash = [attempt |-> snap[c].attempt, inputs |-> snap[c].inputs]
  /\ pc[c] = "validate" => snap[c].inputs = PhaseInputs(c)

EditionAt(c) ==
  \A i \in 1..Len(seen[c]) :
    seen[c][i].inputs = [code |-> code[c], up |-> IF i = 1 THEN 0 ELSE seen[c][i - 1].attempt]

-----------------------------------------------------------------------------
(* What the definitions compute                                              *)

LEMMA RowFields ==
  ASSUME NEW r \in Rows, r # NoRow
  PROVE  /\ r \in Row /\ r.status \in PhaseStatus /\ r.attempt \in Nat \ {0}
         /\ r.inputs \in Inputs /\ r.hash \in Content \cup {NoHash}
         /\ r = [status |-> r.status, attempt |-> r.attempt, inputs |-> r.inputs, hash |-> r.hash]
BY DEF Rows, Row

LEMMA RowBuilt ==
  ASSUME NEW s \in PhaseStatus, NEW a \in Nat \ {0}, NEW i \in Inputs, NEW h \in Content \cup {NoHash}
  PROVE  LET r == [status |-> s, attempt |-> a, inputs |-> i, hash |-> h] IN r \in Row /\ r \in Rows /\ r # NoRow
BY NullsAssumption DEF Rows, Row

(* The phase that a process is at is one of the run's.                       *)
LEMMA AtPhase ==
  ASSUME NEW c \in Client, seen[c] \in Seq(Content), Len(seen[c]) < Len(Phases)
  PROVE  At(c) \in Phase /\ Len(seen[c]) + 1 \in 1..Len(Phases)
<1>1. Len(seen[c]) \in Nat /\ Len(Phases) \in Nat
      BY PhasesAssumption, LenProperties
<1>2. Len(seen[c]) + 1 \in 1..Len(Phases)
      BY <1>1
<1> QED BY <1>2, PhasesAssumption, ElementOfSeq DEF At

(* A process that runs has inputs of the right type.                         *)
LEMMA InputsType ==
  ASSUME NEW c \in Client, seen[c] \in Seq(Content), code[c] \in Code
  PROVE  PhaseInputs(c) \in Inputs
<1>1. CASE seen[c] = <<>>
      BY <1>1 DEF PhaseInputs, Inputs
<1>2. CASE seen[c] # <<>>
  <2>1. Len(seen[c]) \in 1..Len(seen[c])
        BY <1>2, LenProperties, EmptySeq
  <2>2. seen[c][Len(seen[c])] \in Content
        BY <2>1, ElementOfSeq
  <2> QED BY <1>2, <2>2 DEF PhaseInputs, Inputs, Content
<1> QED BY <1>1, <1>2

(* The summary of _refresh_run_status says "running" when a phase does.      *)
LEMMA Summary ==
  ASSUME NEW rows \in [Phase -> Rows], \E p \in Phase : rows[p] # NoRow
  PROVE  /\ RunStatus(rows) \in PhaseStatus
         /\ RunStatus(rows) = "running" <=> "running" \in Statuses(rows)
<1>1. Statuses(rows) \subseteq PhaseStatus
      BY RowFields DEF Statuses
<1>2. Statuses(rows) # {}
      BY DEF Statuses
<1>3. CASE "running" \in Statuses(rows)
      BY <1>3 DEF RunStatus, PhaseStatus
<1>4. CASE "running" \notin Statuses(rows) /\ "failed" \in Statuses(rows)
      BY <1>4 DEF RunStatus, PhaseStatus
<1>5. CASE Statuses(rows) \cap {"running", "failed"} = {} /\ "invalid" \in Statuses(rows)
      BY <1>5 DEF RunStatus, PhaseStatus
<1>6. CASE Statuses(rows) = {"succeeded"}
      BY <1>6 DEF RunStatus, PhaseStatus
<1>7. CASE Statuses(rows) # {"succeeded"} /\ Statuses(rows) \subseteq {"succeeded", "aborted"}
  <2>1. Statuses(rows) \cap {"running", "failed", "invalid"} = {}
        BY <1>7
  <2> QED BY <1>2, <1>7, <2>1 DEF RunStatus, PhaseStatus
<1> QED BY <1>1, <1>3, <1>4, <1>5, <1>6, <1>7 DEF PhaseStatus

-----------------------------------------------------------------------------
(* The rows                                                                  *)

LEMMA SettlingAdvances == ASSUME RowsOK, Settles PROVE RowsAdvance
<1> SUFFICES ASSUME NEW p \in Phase, row[p] # NoRow
             PROVE  /\ row'[p] # NoRow
                    /\ row'[p].attempt >= row[p].attempt
                    /\ row'[p].attempt = row[p].attempt => row'[p].inputs = row[p].inputs
    BY DEF RowsAdvance
<1>1. row[p].attempt \in Nat
      BY RowFields DEF RowsOK
<1> QED BY <1>1 DEF Settles

(* _refresh_run_status keeps the run's row in step with the phases' rows.    *)
LEMMA RefreshKeeps ==
  ASSUME RowsOK, Settles, Refresh
  PROVE  (run \in PhaseStatus \cup {"absent"} /\ RunPresent /\ RunRunsWithPhases)'
<1>1. \A p \in Phase : row'[p] = NoRow <=> row[p] = NoRow
      BY DEF Settles
<1>2. CASE run = "absent"
  <2>1. \A p \in Phase : row'[p] = NoRow
        BY <1>1, <1>2 DEF RowsOK, RunPresent
  <2>2. run' = "absent" /\ Statuses(row') = {}
        BY <1>2, <2>1 DEF Refresh, Statuses
  <2> QED BY <2>1, <2>2 DEF RunPresent, RunRunsWithPhases, Statuses
<1>3. CASE run # "absent"
  <2>1. \E p \in Phase : row'[p] # NoRow
        BY <1>1, <1>3 DEF RowsOK, RunPresent
  <2>2. run' = RunStatus(row')
        BY <1>3 DEF Refresh
  <2>3. row' \in [Phase -> Rows]
        BY DEF Settles
  <2>4. run' \in PhaseStatus /\ (run' = "running" <=> "running" \in Statuses(row'))
        BY <2>1, <2>2, <2>3, Summary
  <2>5. run' # "absent"
        BY <2>4 DEF PhaseStatus
  <2> QED BY <2>1, <2>4, <2>5 DEF RunPresent, RunRunsWithPhases
<1> QED BY <1>2, <1>3

(* Aborting the running rows settles them.                                   *)
LEMMA AbortSettles ==
  ASSUME RowsOK, AbortRows
  PROVE  /\ Settles
         /\ \A p \in Phase : row'[p] # NoRow => row'[p].status # "running"
         /\ \A p \in Phase : row'[p] # row[p] => row'[p].status = "aborted"
<1> SUFFICES ASSUME NEW p \in Phase
             PROVE  /\ row'[p] \in Rows
                    /\ row'[p] # NoRow => row'[p].status # "running"
                    /\ \/ row'[p] = row[p]
                       \/ /\ row[p] # NoRow /\ row'[p] # NoRow /\ row[p].status = "running"
                          /\ row'[p].attempt = row[p].attempt /\ row'[p].inputs = row[p].inputs
                          /\ row'[p].status = "aborted"
    BY DEF Settles, AbortRows
<1>1. row[p] \in Rows
      BY DEF RowsOK
<1>2. CASE row[p] # NoRow /\ row[p].status = "running"
  <2>1. row'[p] = [row[p] EXCEPT !.status = "aborted"]
        BY <1>2 DEF AbortRows
  <2>2. row[p] \in Row
        BY <1>1, <1>2, RowFields
  <2>3. row'[p] \in Row /\ row'[p].attempt = row[p].attempt /\ row'[p].inputs = row[p].inputs
        /\ row'[p].status = "aborted"
        BY <2>1, <2>2 DEF Row, PhaseStatus
  <2> QED BY <1>2, <2>3, NullsAssumption DEF Rows
<1>3. CASE ~(row[p] # NoRow /\ row[p].status = "running")
  <2>1. row'[p] = row[p]
        BY <1>3 DEF AbortRows
  <2> QED BY <1>1, <1>3, <2>1
<1> QED BY <1>2, <1>3

(* Rows that were settled with the files left alone still tell the truth.    *)
LEMMA SettledRowsOK ==
  ASSUME RowsOK, Settles, UNCHANGED file,
         \A p \in Phase : row'[p] # row[p] => row'[p].status # "succeeded",
         (run \in PhaseStatus \cup {"absent"} /\ RunPresent /\ RunRunsWithPhases)'
  PROVE  RowsOK'
<1>1. row' \in [Phase -> Rows] /\ file' \in [Phase -> Content \cup {NoFile}]
      BY DEF RowsOK, Settles
<1>2. RowMatchesFile'
      BY DEF RowsOK, RowMatchesFile
<1>3. OwnWork'
      BY DEF RowsOK, OwnWork
<1> QED BY <1>1, <1>2, <1>3 DEF RowsOK

(* AbortInterruptedPhases, and the publisher's finalization.                 *)
LEMMA AbortStep == ASSUME RowsOK, AbortInterruptedPhases PROVE RowsOK' /\ Settles
<1>1. AbortRows /\ Refresh /\ UNCHANGED file
      BY DEF AbortInterruptedPhases
<1>2. Settles /\ \A p \in Phase : row'[p] # row[p] => row'[p].status = "aborted"
      BY <1>1, AbortSettles
<1>3. (run \in PhaseStatus \cup {"absent"} /\ RunPresent /\ RunRunsWithPhases)'
      BY <1>1, <1>2, RefreshKeeps
<1> QED BY <1>1, <1>2, <1>3, SettledRowsOK

LEMMA FinalizeStep == ASSUME RowsOK, FinalizePublished PROVE RowsOK' /\ Settles
<1>1. AbortRows /\ UNCHANGED file
      BY DEF FinalizePublished
<1>2. /\ Settles
      /\ \A p \in Phase : row'[p] # NoRow => row'[p].status # "running"
      /\ \A p \in Phase : row'[p] # row[p] => row'[p].status = "aborted"
      BY <1>1, AbortSettles
<1>3. "running" \notin Statuses(row')
      BY <1>2 DEF Statuses
<1>4. run' # "running" /\ run' \in PhaseStatus \cup {"absent"} /\ (run' = "absent" <=> run = "absent")
      BY DEF FinalizePublished, RowsOK, PhaseStatus
<1>5. RunPresent'
      BY <1>2, <1>4 DEF RowsOK, RunPresent, Settles
<1>6. RunRunsWithPhases'
      BY <1>3, <1>4 DEF RunRunsWithPhases
<1> QED BY <1>1, <1>2, <1>4, <1>5, <1>6, SettledRowsOK

(* fail_phase, and the invalidation of a succeeded row.                      *)
LEMMA FailStep ==
  ASSUME RowsOK, NEW p \in Phase, NEW attempt, FailPhase(p, attempt)
  PROVE  RowsOK' /\ Settles
<1>1. row[p] \in Rows /\ row[p] # NoRow /\ row[p].status = "running" /\ Refresh /\ UNCHANGED file
      BY DEF FailPhase, Owns, RowsOK
<1>2. row' = [row EXCEPT ![p] = [row[p] EXCEPT !.status = "failed"]]
      BY DEF FailPhase
<1>3. LET r == [row[p] EXCEPT !.status = "failed"] IN
      /\ r \in Rows /\ r # NoRow /\ r.attempt = row[p].attempt
      /\ r.inputs = row[p].inputs /\ r.status = "failed"
  <2>1. row[p] \in Row
        BY <1>1, RowFields
  <2> QED BY <2>1, NullsAssumption DEF Row, Rows, PhaseStatus
<1>4. Settles /\ \A q \in Phase : row'[q] # row[q] => row'[q].status = "failed"
      BY <1>1, <1>2, <1>3 DEF Settles, RowsOK
<1>5. (run \in PhaseStatus \cup {"absent"} /\ RunPresent /\ RunRunsWithPhases)'
      BY <1>1, <1>4, RefreshKeeps
<1> QED BY <1>1, <1>4, <1>5, SettledRowsOK

LEMMA InvalidateStep ==
  ASSUME RowsOK, NEW p \in Phase, row[p] # NoRow, NEW snapshot, InvalidateSnapshot(p, snapshot)
  PROVE  RowsOK' /\ Settles
<1>1. row[p] \in Row /\ UNCHANGED file
      BY RowFields DEF InvalidateSnapshot, RowsOK
<1>2. CASE row[p].attempt = snapshot.attempt /\ row[p].status = "succeeded"
  <2>1. row' = [row EXCEPT ![p] = [row[p] EXCEPT !.status = "invalid"]] /\ Refresh
        BY <1>2 DEF InvalidateSnapshot
  <2>2. LET r == [row[p] EXCEPT !.status = "invalid"] IN
        /\ r \in Rows /\ r # NoRow /\ r.attempt = row[p].attempt
        /\ r.inputs = row[p].inputs /\ r.status = "invalid"
        BY <1>1, NullsAssumption DEF Row, Rows, PhaseStatus
  <2>3. Settles /\ \A q \in Phase : row'[q] # row[q] => row'[q].status = "invalid"
        BY <1>2, <2>1, <2>2 DEF Settles, RowsOK
  <2>4. (run \in PhaseStatus \cup {"absent"} /\ RunPresent /\ RunRunsWithPhases)'
        BY <2>1, <2>3, RefreshKeeps
  <2> QED BY <1>1, <2>3, <2>4, SettledRowsOK
<1>3. CASE ~(row[p].attempt = snapshot.attempt /\ row[p].status = "succeeded")
  <2>1. UNCHANGED <<row, run>>
        BY <1>3 DEF InvalidateSnapshot
  <2>2. Settles
        BY <2>1 DEF Settles, RowsOK
  <2>3. (run \in PhaseStatus \cup {"absent"} /\ RunPresent /\ RunRunsWithPhases)'
        BY <2>1 DEF RowsOK, RunPresent, RunRunsWithPhases
  <2> QED BY <1>1, <2>1, <2>2, <2>3, SettledRowsOK
<1> QED BY <1>2, <1>3

(* begin_phase: a new attempt, or the first.                                 *)
LEMMA BeginStep ==
  ASSUME RowsOK, NEW p \in Phase, NEW in \in Inputs, BeginPhase(p, in)
  PROVE  /\ RowsOK' /\ RowsAdvance
         /\ row' = [row EXCEPT ![p] = row'[p]]
         /\ row'[p] # NoRow /\ row'[p].status = "running" /\ row'[p].inputs = in
         /\ row'[p].attempt = NextAttempt(p) /\ NextAttempt(p) \in Nat \ {0}
         /\ NextAttempt(p) = IF row[p] = NoRow THEN 1 ELSE row[p].attempt + 1
<1> DEFINE r == [status |-> "running", attempt |-> NextAttempt(p), inputs |-> in, hash |-> NoHash]
<1>1. row' = [row EXCEPT ![p] = r] /\ run' = "running" /\ UNCHANGED file
      BY DEF BeginPhase
<1>2. row[p] # NoRow => row[p].attempt \in Nat \ {0}
      BY RowFields DEF RowsOK
<1>3. NextAttempt(p) \in Nat \ {0} /\ NextAttempt(p) = IF row[p] = NoRow THEN 1 ELSE row[p].attempt + 1
      BY <1>2 DEF NextAttempt
<1>4. r \in Rows /\ r # NoRow
      BY <1>3, RowBuilt DEF PhaseStatus
<1>5. row' \in [Phase -> Rows] /\ row'[p] = r /\ \A q \in Phase : q # p => row'[q] = row[q]
      BY <1>1, <1>4 DEF RowsOK
<1>6. row'[p].status = "running" /\ row'[p].inputs = in /\ row'[p].attempt = NextAttempt(p) /\ row'[p] # NoRow
      BY <1>4, <1>5
<1> HIDE DEF r
<1>7. "running" \in Statuses(row')
      BY <1>6 DEF Statuses
<1>8. RunRunsWithPhases' /\ RunPresent' /\ run' \in PhaseStatus \cup {"absent"}
      BY <1>1, <1>6, <1>7 DEF RunRunsWithPhases, RunPresent, PhaseStatus
<1>9. RowMatchesFile' /\ OwnWork'
      BY <1>1, <1>5, <1>6 DEF RowsOK, RowMatchesFile, OwnWork
<1>10. RowsOK'
      BY <1>1, <1>5, <1>8, <1>9 DEF RowsOK
<1>11. RowsAdvance
  <2> SUFFICES ASSUME NEW q \in Phase, row[q] # NoRow
               PROVE  /\ row'[q] # NoRow
                      /\ row'[q].attempt >= row[q].attempt
                      /\ row'[q].attempt = row[q].attempt => row'[q].inputs = row[q].inputs
      BY DEF RowsAdvance
  <2>1. CASE q = p
        BY <1>2, <1>3, <1>6, <2>1
  <2>2. CASE q # p
    <3>1. row[q].attempt \in Nat
          BY RowFields DEF RowsOK
    <3> QED BY <1>5, <2>2, <3>1
  <2> QED BY <2>1, <2>2
<1>12. row' = [row EXCEPT ![p] = row'[p]]
      BY <1>1, <1>5 DEF RowsOK
<1> QED BY <1>3, <1>6, <1>10, <1>11, <1>12

(* The artifact of a running attempt is replaced: no row vouches for it yet.  *)
LEMMA WriteStep ==
  ASSUME RowsOK, NEW p \in Phase, Owns(p, row[p].attempt), NEW data \in Content,
         file' = [file EXCEPT ![p] = data], UNCHANGED <<run, row>>
  PROVE  RowsOK' /\ Settles
<1>1. file' \in [Phase -> Content \cup {NoFile}] /\ \A q \in Phase : q # p => file'[q] = file[q]
      BY DEF RowsOK
<1>2. RowMatchesFile'
      BY <1>1 DEF RowsOK, RowMatchesFile, Owns
<1>3. RunRunsWithPhases' /\ RunPresent' /\ OwnWork'
      BY DEF RowsOK, RunRunsWithPhases, RunPresent, OwnWork
<1>4. Settles
      BY DEF Settles, RowsOK
<1> QED BY <1>1, <1>2, <1>3, <1>4 DEF RowsOK

(* The commit records the hash of what the attempt wrote.                     *)
LEMMA CommitStep ==
  ASSUME RowsOK, NEW c \in Client, NEW p \in Phase, CommitOwned(c, p), Owns(p, row[p].attempt),
         file[p] = [attempt |-> row[p].attempt, inputs |-> row[p].inputs]
  PROVE  RowsOK' /\ Settles
<1> DEFINE r == [row[p] EXCEPT !.status = "succeeded", !.hash = file[p]]
<1>1. row[p] \in Row /\ row[p] # NoRow /\ row[p].status = "running"
      BY RowFields DEF Owns, RowsOK
<1>2. row' = [row EXCEPT ![p] = r] /\ Refresh /\ UNCHANGED file
      BY <1>1 DEF CommitOwned, RowsOK, Row
<1>3. file[p] \in Content
      BY <1>1 DEF Row, Content
<1>4. r \in Rows /\ r # NoRow /\ r.attempt = row[p].attempt /\ r.inputs = row[p].inputs
      /\ r.status = "succeeded" /\ r.hash = file[p]
      BY <1>1, <1>3, NullsAssumption DEF Row, Rows, PhaseStatus
<1> HIDE DEF r
<1>5. row' \in [Phase -> Rows] /\ row'[p] = r /\ \A q \in Phase : q # p => row'[q] = row[q]
      BY <1>2, <1>4 DEF RowsOK
<1>6. Settles
      BY <1>1, <1>4, <1>5 DEF Settles
<1>7. (run \in PhaseStatus \cup {"absent"} /\ RunPresent /\ RunRunsWithPhases)'
      BY <1>2, <1>6, RefreshKeeps
<1>8. RowMatchesFile'
      BY <1>2, <1>4, <1>5 DEF RowsOK, RowMatchesFile
<1>9. OwnWork'
      BY <1>4, <1>5 DEF RowsOK, OwnWork
<1> QED BY <1>2, <1>5, <1>6, <1>7, <1>8, <1>9 DEF RowsOK

LEMMA RowsStill == ASSUME RowsOK, UNCHANGED <<run, row, file>> PROVE RowsOK' /\ Settles
BY DEF RowsOK, Settles, RowMatchesFile, RunRunsWithPhases, RunPresent, OwnWork

-----------------------------------------------------------------------------
(* The processes                                                             *)

(* A step of one process leaves what the others know alone.                   *)
LEMMA OthersSame ==
  ASSUME TypeOK, NEW c \in Client, Moves(c)
  PROVE  \A d \in Client : d # c => Same(d)
<1> SUFFICES ASSUME NEW d \in Client, d # c PROVE Same(d)
    OBVIOUS
<1>1. pc'[d] = pc[d] /\ code'[d] = code[d]
      BY DEF TypeOK, Moves
<1>2. seen'[d] = seen[d] /\ snap'[d] = snap[d] /\ token'[d] = token[d]
      BY DEF TypeOK, Moves
<1> QED BY <1>1, <1>2 DEF Same

(* A process with a token is at a phase.                                      *)
LEMMA TokenAtPhase ==
  ASSUME TypeOK, ProcessOK, NEW c \in Client, token[c] # 0
  PROVE  At(c) \in Phase /\ code[c] \in Code /\ token[c] \in Nat \ {0} /\ PhaseInputs(c) \in Inputs
<1>1. seen[c] \in Seq(Content) /\ Len(seen[c]) < Len(Phases) /\ code[c] \in Code /\ token[c] \in Nat \ {0}
      BY DEF TypeOK, ProcessOK
<1> QED BY <1>1, AtPhase, InputsType

(* Tokens stay good whatever happens to the rows, if no process gains one.    *)
LEMMA TokensFrame ==
  ASSUME TypeOK, ProcessOK, TokensOK, RowsOK, RowsOK', RowsAdvance,
         \A c \in Client : token'[c] = 0 \/ (token'[c] = token[c] /\ seen'[c] = seen[c] /\ code'[c] = code[c])
  PROVE  TokensOK'
<1>1. ASSUME NEW c \in Client, token'[c] # 0
      PROVE  /\ token[c] = token'[c] /\ token[c] # 0 /\ At(c)' = At(c) /\ PhaseInputs(c)' = PhaseInputs(c)
             /\ At(c) \in Phase
      BY <1>1, TokenAtPhase DEF At, PhaseInputs
<1>2. ASSUME NEW c \in Client, token'[c] # 0
      PROVE  /\ row'[At(c)'] # NoRow
             /\ token'[c] <= row'[At(c)'].attempt
             /\ token'[c] = row'[At(c)'].attempt => row'[At(c)'].inputs = PhaseInputs(c)'
  <2>1. /\ token[c] = token'[c] /\ token[c] # 0 /\ At(c)' = At(c) /\ PhaseInputs(c)' = PhaseInputs(c)
        /\ At(c) \in Phase
        BY <1>1, <1>2
  <2> DEFINE p == At(c)
  <2>2. /\ row[p] # NoRow /\ token[c] <= row[p].attempt
        /\ token[c] = row[p].attempt => row[p].inputs = PhaseInputs(c)
        BY <2>1 DEF TokensOK
  <2>3. /\ row'[p] # NoRow /\ row'[p].attempt >= row[p].attempt
        /\ row'[p].attempt = row[p].attempt => row'[p].inputs = row[p].inputs
        BY <2>1, <2>2 DEF RowsAdvance
  <2>4. row[p].attempt \in Nat /\ row'[p].attempt \in Nat /\ token[c] \in Nat
        BY <2>1, <2>2, <2>3, RowFields DEF RowsOK, TypeOK
  <2> HIDE DEF p
  <2>5. token[c] <= row'[p].attempt /\ (token[c] = row'[p].attempt => row'[p].inputs = PhaseInputs(c))
        BY <2>2, <2>3, <2>4
  <2> QED BY <2>1, <2>3, <2>5 DEF p
<1>3. ASSUME NEW c \in Client, NEW d \in Client, token'[c] # 0, token'[c] = token'[d], At(c)' = At(d)'
      PROVE  c = d
      BY <1>1, <1>3 DEF TokensOK
<1> QED BY <1>2, <1>3 DEF TokensOK

(* Snapshots stay good while their processes wait.                            *)
LEMMA SnapshotsFrame ==
  ASSUME TypeOK, ProcessOK, SnapshotsOK, RowsAdvance,
         \A c \in Client : Same(c) \/ pc'[c] \notin {"read", "validate", "invalidate"}
  PROVE  SnapshotsOK'
<1> SUFFICES ASSUME NEW c \in Client, pc'[c] \in {"read", "validate", "invalidate"}
             PROVE  /\ snap'[c] # NoRow
                    /\ row'[At(c)'] # NoRow
                    /\ snap'[c].hash = [attempt |-> snap'[c].attempt, inputs |-> snap'[c].inputs]
                    /\ pc'[c] = "validate" => snap'[c].inputs = PhaseInputs(c)'
    BY DEF SnapshotsOK
<1>1. Same(c) /\ At(c)' = At(c) /\ PhaseInputs(c)' = PhaseInputs(c) /\ pc[c] \in {"read", "validate", "invalidate"}
      BY DEF Same, At, PhaseInputs
<1>2. At(c) \in Phase
      BY <1>1, AtPhase DEF TypeOK, ProcessOK
<1>3. /\ snap[c] # NoRow /\ row[At(c)] # NoRow
      /\ snap[c].hash = [attempt |-> snap[c].attempt, inputs |-> snap[c].inputs]
      /\ pc[c] = "validate" => snap[c].inputs = PhaseInputs(c)
      BY <1>1 DEF SnapshotsOK
<1> QED BY <1>1, <1>2, <1>3 DEF Same, RowsAdvance

(* The lock is still backed by what its holder wrote.                         *)
LEMMA LockFrame ==
  ASSUME DigestIInv, NEW c \in Client, \A d \in Client : d # c => Same(d),
         \/ lock' = lock
         \/ lock' = NoClient /\ lock \in {c, NoClient},
         pc'[c] = "commit" => lock' = c /\ pc[c] = "commit",
         lock' = c => /\ pc'[c] \in {"commit", "handler"}
                      /\ code'[c] = code[c] /\ seen'[c] = seen[c] /\ token'[c] = token[c],
         lock' # NoClient => UNCHANGED <<row, file>>
  PROVE  LockOK'
<1> SUFFICES ASSUME NEW d \in Client
             PROVE  /\ pc'[d] = "commit" => lock' = d
                    /\ lock' = d =>
                         /\ pc'[d] \in {"commit", "handler"} /\ token'[d] # 0
                         /\ Owns(At(d), token[d])'
                         /\ file'[At(d)'] = [attempt |-> token'[d], inputs |-> PhaseInputs(d)']
    BY DEF LockOK
<1>1. pc'[d] = "commit" => lock' = d
      BY DEF DigestIInv, LockOK, Same
<1>2. ASSUME lock' = d
      PROVE  /\ pc'[d] \in {"commit", "handler"} /\ token'[d] # 0
             /\ Owns(At(d), token[d])'
             /\ file'[At(d)'] = [attempt |-> token'[d], inputs |-> PhaseInputs(d)']
  <2>1. lock = d /\ UNCHANGED <<row, file>>
        BY <1>2, NullsAssumption
  <2>2. code'[d] = code[d] /\ seen'[d] = seen[d] /\ token'[d] = token[d]
        BY <1>2 DEF Same
  <2>3. At(d)' = At(d) /\ PhaseInputs(d)' = PhaseInputs(d)
        BY <2>2 DEF At, PhaseInputs
  <2>4. pc'[d] \in {"commit", "handler"}
        BY <1>2, <2>1 DEF DigestIInv, LockOK, Same
  <2> QED BY <2>1, <2>2, <2>3, <2>4 DEF DigestIInv, LockOK, Owns
<1> QED BY <1>1, <1>2

(* The invariant after a step of process c that begins no attempt.             *)
LEMMA Assemble ==
  ASSUME DigestIInv, NEW c \in Client, Moves(c), RowsOK', RowsAdvance, lock' \in Client \cup {NoClient}, LockOK',
         ProcessAt(c)', SnapshotAt(c)', EditionAt(c)',
         token'[c] = 0 \/ (token'[c] = token[c] /\ seen'[c] = seen[c] /\ code'[c] = code[c])
  PROVE  DigestIInv'
<1>1. \A d \in Client : d # c => Same(d)
      BY OthersSame DEF DigestIInv
<1>2. TypeOK'
      BY DEF DigestIInv, TypeOK, Moves, RowsOK, Rows
<1>3. ProcessOK'
      BY <1>1 DEF DigestIInv, ProcessOK, ProcessAt, Same
<1>4. SnapshotsOK'
  <2> SUFFICES ASSUME NEW d \in Client, d # c PROVE SnapshotAt(d)'
      BY DEF SnapshotsOK, SnapshotAt
  <2>1. Same(d) /\ At(d)' = At(d) /\ PhaseInputs(d)' = PhaseInputs(d)
        BY <1>1 DEF Same, At, PhaseInputs
  <2>2. SnapshotAt(d)
        BY DEF DigestIInv, SnapshotsOK, SnapshotAt
  <2>3. pc[d] # "done" => At(d) \in Phase
        BY AtPhase DEF DigestIInv, TypeOK, ProcessOK
  <2> QED BY <2>1, <2>2, <2>3 DEF SnapshotAt, Same, RowsAdvance
<1>5. TokensOK'
  <2>1. \A d \in Client : token'[d] = 0 \/ (token'[d] = token[d] /\ seen'[d] = seen[d] /\ code'[d] = code[d])
        BY <1>1 DEF Same
  <2> QED BY <2>1, TokensFrame DEF DigestIInv
<1>6. ConsistentEdition'
      BY <1>1 DEF DigestIInv, ConsistentEdition, EditionAt, Same
<1> QED BY <1>2, <1>3, <1>4, <1>5, <1>6 DEF DigestIInv

(* A phase's payload is adopted: it was made from what the process holds.      *)
LEMMA Adopted ==
  ASSUME DigestIInv, NEW c \in Client, pc[c] \notin {"idle", "done"}, NEW payload \in Content, Adopt(c, payload),
         payload.inputs = PhaseInputs(c), UNCHANGED <<starts, publisher>>
  PROVE  Moves(c) /\ ProcessAt(c)' /\ SnapshotAt(c)' /\ EditionAt(c)' /\ token'[c] = 0 /\ pc'[c] \in {"load", "done"}
<1>1. seen[c] \in Seq(Content) /\ Len(seen[c]) < Len(Phases) /\ Len(seen[c]) \in Nat /\ code[c] \in Code
      /\ Len(Phases) \in Nat
      BY PhasesAssumption, LenProperties DEF DigestIInv, TypeOK, ProcessOK
<1>2. /\ seen' = [seen EXCEPT ![c] = Append(seen[c], payload)] /\ seen'[c] = Append(seen[c], payload)
      /\ pc' = [pc EXCEPT ![c] = pc'[c]]
      /\ pc'[c] = IF Len(seen[c]) + 1 < Len(Phases) THEN "load" ELSE "done"
      /\ snap' = [snap EXCEPT ![c] = NoRow] /\ snap'[c] = NoRow
      /\ token' = [token EXCEPT ![c] = 0] /\ token'[c] = 0
      /\ code' = code
  <2>1. /\ seen' = [seen EXCEPT ![c] = Append(seen[c], payload)] /\ seen'[c] = Append(seen[c], payload)
        /\ snap' = [snap EXCEPT ![c] = NoRow] /\ snap'[c] = NoRow
        /\ token' = [token EXCEPT ![c] = 0] /\ token'[c] = 0
        /\ code' = code
        BY DEF Adopt, DigestIInv, TypeOK
  <2>2. pc' = [pc EXCEPT ![c] = IF Len(seen[c]) + 1 < Len(Phases) THEN "load" ELSE "done"]
        BY DEF Adopt, Goto
  <2> QED BY <2>1, <2>2 DEF DigestIInv, TypeOK
<1>3. /\ seen'[c] \in Seq(Content) /\ Len(seen'[c]) = Len(seen[c]) + 1 /\ seen'[c][Len(seen[c]) + 1] = payload
      /\ \A i \in 1..Len(seen[c]) : seen'[c][i] = seen[c][i]
      BY <1>1, <1>2, AppendProperties
<1>4. Moves(c)
      BY <1>2, <1>3 DEF Moves, DigestIInv, TypeOK, Running, Rows
<1>5. ProcessAt(c)'
      BY <1>1, <1>2, <1>3 DEF ProcessAt
<1>6. SnapshotAt(c)'
      BY <1>2 DEF SnapshotAt
<1>7. EditionAt(c)'
  <2> SUFFICES ASSUME NEW i \in 1..Len(seen'[c])
               PROVE  seen'[c][i].inputs = [code |-> code[c], up |-> IF i = 1 THEN 0 ELSE seen'[c][i - 1].attempt]
      BY <1>2 DEF EditionAt
  <2>1. CASE i \in 1..Len(seen[c])
    <3>1. i # 1 => i - 1 \in 1..Len(seen[c])
          BY <1>1, <2>1
    <3>2. seen[c][i].inputs = [code |-> code[c], up |-> IF i = 1 THEN 0 ELSE seen[c][i - 1].attempt]
          BY <2>1 DEF DigestIInv, ConsistentEdition
    <3> QED BY <1>3, <2>1, <3>1, <3>2
  <2>2. CASE i = Len(seen[c]) + 1
    <3>1. seen[c] = <<>> <=> Len(seen[c]) = 0
          BY <1>1, EmptySeq
    <3>2. i # 1 => i - 1 = Len(seen[c]) /\ i - 1 \in 1..Len(seen[c])
          BY <1>1, <2>2
    <3> QED BY <1>1, <1>3, <2>2, <3>1, <3>2 DEF PhaseInputs
  <2> QED BY <1>1, <1>3, <2>1, <2>2
<1> QED BY <1>2, <1>4, <1>5, <1>6, <1>7

-----------------------------------------------------------------------------
(* begin_or_load_phase                                                       *)

LEMMA Typed ==
  ASSUME DigestIInv, NEW c \in Client
  PROVE  /\ pc[c] \in Running \cup {"idle", "done", "signalled"} /\ code[c] \in Code \cup {NoCode}
         /\ seen[c] \in Seq(Content) /\ snap[c] \in Rows /\ token[c] \in Nat
         /\ ProcessAt(c) /\ SnapshotAt(c) /\ EditionAt(c)
         /\ pc[c] # "done" => At(c) \in Phase
<1>1. seen[c] \in Seq(Content) /\ ProcessAt(c)
      BY DEF DigestIInv, TypeOK, ProcessOK, ProcessAt
<1>2. pc[c] # "done" => At(c) \in Phase
      BY <1>1, AtPhase DEF ProcessAt
<1> QED BY <1>1, <1>2 DEF DigestIInv, TypeOK, Rows, SnapshotsOK, SnapshotAt, ConsistentEdition, EditionAt

(* A step that only moves process c to another point of the program.          *)
LEMMA JumpStep ==
  ASSUME DigestIInv, NEW c \in Client, NEW l \in Running \cup {"idle", "done", "signalled"},
         pc[c] \notin {"idle", "done"}, Goto(c, l), l \notin {"idle", "done"},
         UNCHANGED <<code, seen, snap, token, starts, publisher>>,
         RowsOK', RowsAdvance, lock' \in Client \cup {NoClient}, LockOK',
         token[c] # 0 <=> l \in {"work", "commit", "failing", "handler", "signalled"} /\ token[c] # 0,
         l \in {"work", "commit"} => token[c] # 0,
         l \in {"read", "validate", "invalidate"} => pc[c] \in {"read", "validate", "invalidate"},
         l = "validate" => snap[c].inputs = PhaseInputs(c)
  PROVE  DigestIInv'
<1>1. pc' = [pc EXCEPT ![c] = pc'[c]] /\ pc'[c] = l
      BY DEF Goto, DigestIInv, TypeOK
<1>2. Moves(c)
      BY <1>1 DEF Moves, DigestIInv, TypeOK, Rows
<1>3. ProcessAt(c)'
      BY <1>1, Typed DEF ProcessAt
<1>4. SnapshotAt(c)'
  <2>1. At(c)' = At(c) /\ PhaseInputs(c)' = PhaseInputs(c) /\ At(c) \in Phase
        BY Typed DEF At, PhaseInputs
  <2> QED BY <1>1, <2>1, Typed DEF SnapshotAt, RowsAdvance
<1>5. EditionAt(c)'
      BY Typed DEF EditionAt
<1> QED BY <1>2, <1>3, <1>4, <1>5, Assemble

(* The rows and the lock are as they were.                                    *)
LEMMA StateStill ==
  ASSUME DigestIInv, UNCHANGED stateVars
  PROVE  RowsOK' /\ RowsAdvance /\ lock' \in Client \cup {NoClient}
<1>1. RowsOK' /\ Settles
      BY RowsStill DEF stateVars, DigestIInv
<1> QED BY <1>1, SettlingAdvances DEF DigestIInv, TypeOK, stateVars

(* A step that leaves the rows and the lock alone, by a process without it.   *)
LEMMA StillLockOK ==
  ASSUME DigestIInv, NEW c \in Client, Moves(c), UNCHANGED stateVars, pc'[c] # "commit",
         lock = c => pc'[c] = "handler" /\ UNCHANGED <<code, seen, token>>
  PROVE  LockOK'
<1>1. \A d \in Client : d # c => Same(d)
      BY OthersSame DEF DigestIInv
<1> QED BY <1>1, LockFrame DEF stateVars

LEMMA JumpStill ==
  ASSUME DigestIInv, NEW c \in Client, NEW l \in Running \cup {"signalled"},
         pc[c] \notin {"idle", "done"}, Goto(c, l),
         UNCHANGED <<code, seen, snap, token, starts, publisher>>, UNCHANGED stateVars,
         l # "commit", lock = c => l = "handler",
         token[c] # 0 => l \in {"work", "failing", "handler", "signalled"}, l # "work",
         l \in {"read", "validate", "invalidate"} => pc[c] \in {"read", "validate", "invalidate"},
         l = "validate" => snap[c].inputs = PhaseInputs(c)
  PROVE  DigestIInv'
<1>1. pc' = [pc EXCEPT ![c] = pc'[c]] /\ pc'[c] = l
      BY DEF Goto, DigestIInv, TypeOK
<1>2. Moves(c)
      BY <1>1 DEF Moves, DigestIInv, TypeOK, Rows
<1>3. RowsOK' /\ RowsAdvance /\ lock' \in Client \cup {NoClient}
      BY StateStill
<1>4. LockOK'
      BY <1>1, <1>2, StillLockOK
<1> QED BY <1>3, <1>4, JumpStep DEF Running

(* Who is not in a transaction does not hold the lock.                        *)
LEMMA NoLock ==
  ASSUME DigestIInv, NEW c \in Client, pc[c] \notin {"commit", "handler"}
  PROVE  lock # c
BY DEF DigestIInv, LockOK

LEMMA ReadRowStep ==
  ASSUME DigestIInv, NEW c \in Client, ReadRow(c), UNCHANGED <<starts, publisher>>
  PROVE  DigestIInv'
<1> DEFINE r == row[At(c)]
<1>1. pc[c] = "load" /\ At(c) \in Phase /\ token[c] = 0 /\ UNCHANGED <<stateVars, code, seen, token>>
      BY Typed DEF ReadRow, ProcessAt
<1>2. CASE r # NoRow /\ r.status = "succeeded"
  <2>1. snap' = [snap EXCEPT ![c] = r] /\ Goto(c, "read")
        BY <1>2 DEF ReadRow
  <2>2. r \in Rows /\ r.hash = [attempt |-> r.attempt, inputs |-> r.inputs]
        BY <1>1, <1>2 DEF DigestIInv, RowsOK, OwnWork
  <2>3. /\ pc' = [pc EXCEPT ![c] = pc'[c]] /\ pc'[c] = "read"
        /\ snap' = [snap EXCEPT ![c] = snap'[c]] /\ snap'[c] = r
        BY <2>1 DEF Goto, DigestIInv, TypeOK
  <2>4. Moves(c)
        BY <1>1, <2>2, <2>3 DEF Moves, DigestIInv, TypeOK, Running
  <2>5. RowsOK' /\ RowsAdvance /\ lock' \in Client \cup {NoClient}
        BY <1>1, StateStill
  <2>6. LockOK'
        BY <1>1, <2>3, <2>4, NoLock, StillLockOK
  <2>7. ProcessAt(c)' /\ EditionAt(c)'
        BY <1>1, <2>3, Typed DEF ProcessAt, EditionAt
  <2>8. SnapshotAt(c)'
        BY <1>1, <1>2, <2>2, <2>3 DEF SnapshotAt, At, stateVars
  <2> QED BY <1>1, <2>4, <2>5, <2>6, <2>7, <2>8, Assemble
<1>3. CASE ~(r # NoRow /\ r.status = "succeeded")
  <2>1. UNCHANGED snap /\ Goto(c, "begin")
        BY <1>3 DEF ReadRow
  <2> QED BY <1>1, <2>1, NoLock, JumpStill DEF Running
<1> QED BY <1>2, <1>3

LEMMA ReadFileStep ==
  ASSUME DigestIInv, NEW c \in Client, ReadFile(c), UNCHANGED <<starts, publisher>>
  PROVE  DigestIInv'
<1>1. pc[c] = "read" /\ token[c] = 0 /\ UNCHANGED <<stateVars, code, seen, snap, token>>
      BY Typed DEF ReadFile, ProcessAt
<1>2. CASE snap[c].inputs = PhaseInputs(c) /\ file[At(c)] = snap[c].hash
  <2>1. Goto(c, "validate")
        BY <1>2 DEF ReadFile
  <2> QED BY <1>1, <1>2, <2>1, NoLock, JumpStill DEF Running
<1>3. CASE ~(snap[c].inputs = PhaseInputs(c) /\ file[At(c)] = snap[c].hash)
  <2>1. Goto(c, "invalidate")
        BY <1>3 DEF ReadFile
  <2> QED BY <1>1, <2>1, NoLock, JumpStill DEF Running
<1> QED BY <1>2, <1>3

LEMMA ResumeStep ==
  ASSUME DigestIInv, NEW c \in Client, Resume(c), UNCHANGED <<starts, publisher>>
  PROVE  DigestIInv'
<1>1. pc[c] = "validate" /\ Adopt(c, snap[c].hash) /\ UNCHANGED stateVars
      BY DEF Resume
<1>2. snap[c] \in Row /\ snap[c].hash = [attempt |-> snap[c].attempt, inputs |-> snap[c].inputs]
      /\ snap[c].inputs = PhaseInputs(c)
      BY <1>1, Typed, RowFields DEF SnapshotAt
<1>3. snap[c].hash \in Content /\ snap[c].hash.inputs = PhaseInputs(c)
      BY <1>2 DEF Row, Content
<1>4. Moves(c) /\ ProcessAt(c)' /\ SnapshotAt(c)' /\ EditionAt(c)' /\ token'[c] = 0 /\ pc'[c] \in {"load", "done"}
      BY <1>1, <1>3, Adopted
<1>5. RowsOK' /\ RowsAdvance /\ lock' \in Client \cup {NoClient}
      BY <1>1, StateStill
<1>6. LockOK'
      BY <1>1, <1>4, NoLock, StillLockOK
<1> QED BY <1>4, <1>5, <1>6, Assemble

LEMMA RejectStep ==
  ASSUME DigestIInv, NEW c \in Client, Reject(c), UNCHANGED <<starts, publisher>>
  PROVE  DigestIInv'
<1>1. pc[c] = "validate" /\ token[c] = 0 /\ UNCHANGED <<stateVars, code, seen, snap, token>> /\ Goto(c, "invalidate")
      BY Typed DEF Reject, ProcessAt
<1> QED BY <1>1, NoLock, JumpStill DEF Running

LEMMA InvalidatingStep ==
  ASSUME DigestIInv, NEW c \in Client, Invalidate(c), UNCHANGED <<starts, publisher>>
  PROVE  DigestIInv'
<1>1. /\ pc[c] = "invalidate" /\ token[c] = 0 /\ At(c) \in Phase /\ row[At(c)] # NoRow
      /\ InvalidateSnapshot(At(c), snap[c]) /\ Goto(c, "begin") /\ snap' = [snap EXCEPT ![c] = NoRow]
      /\ UNCHANGED <<code, seen, token>>
      BY Typed DEF Invalidate, ProcessAt, SnapshotAt
<1>2. RowsOK' /\ Settles
      BY <1>1, InvalidateStep DEF DigestIInv
<1>3. RowsAdvance
      BY <1>2, SettlingAdvances DEF DigestIInv
<1>4. lock' = lock /\ lock = NoClient
      BY <1>1 DEF InvalidateSnapshot, Unlocked
<1>5. /\ pc' = [pc EXCEPT ![c] = pc'[c]] /\ pc'[c] = "begin"
      /\ snap' = [snap EXCEPT ![c] = snap'[c]] /\ snap'[c] = NoRow
      BY <1>1 DEF Goto, DigestIInv, TypeOK
<1>6. Moves(c)
      BY <1>1, <1>5 DEF Moves, DigestIInv, TypeOK, Running, Rows
<1>7. LockOK'
      BY <1>4, <1>5, <1>6, OthersSame, LockFrame, NullsAssumption DEF DigestIInv
<1>8. ProcessAt(c)' /\ EditionAt(c)' /\ SnapshotAt(c)'
      BY <1>1, <1>5, Typed DEF ProcessAt, EditionAt, SnapshotAt
<1> QED BY <1>1, <1>2, <1>3, <1>4, <1>6, <1>7, <1>8, Assemble

-----------------------------------------------------------------------------
(* An attempt                                                                *)

LEMMA BeginningStep ==
  ASSUME DigestIInv, NEW c \in Client, Begin(c), UNCHANGED <<starts, publisher>>
  PROVE  DigestIInv'
<1> DEFINE p == At(c)
           n == NextAttempt(p)
<1>1. /\ pc[c] = "begin" /\ BeginPhase(p, PhaseInputs(c)) /\ token' = [token EXCEPT ![c] = n]
      /\ Goto(c, "work") /\ UNCHANGED <<code, seen, snap>>
      BY DEF Begin
<1>2. p \in Phase /\ code[c] \in Code /\ PhaseInputs(c) \in Inputs
      BY <1>1, Typed, InputsType DEF ProcessAt
<1>3. /\ RowsOK' /\ RowsAdvance
      /\ row' = [row EXCEPT ![p] = row'[p]]
      /\ row'[p] # NoRow /\ row'[p].inputs = PhaseInputs(c) /\ row'[p].attempt = n
      /\ n \in Nat \ {0} /\ n = IF row[p] = NoRow THEN 1 ELSE row[p].attempt + 1
      BY <1>1, <1>2, BeginStep DEF DigestIInv
<1>4. At(c)' = p /\ PhaseInputs(c)' = PhaseInputs(c)
      BY <1>1 DEF At, PhaseInputs
<1>5. lock' = lock /\ lock = NoClient
      BY <1>1 DEF BeginPhase, Unlocked
<1> HIDE DEF p, n
<1>6. /\ pc' = [pc EXCEPT ![c] = pc'[c]] /\ pc'[c] = "work"
      /\ token' = [token EXCEPT ![c] = token'[c]] /\ token'[c] = n
      BY <1>1 DEF Goto, DigestIInv, TypeOK
<1>7. Moves(c)
      BY <1>1, <1>3, <1>6 DEF Moves, DigestIInv, TypeOK, Running, Rows
<1>8. \A d \in Client : d # c => Same(d)
      BY <1>7, OthersSame DEF DigestIInv
<1>9. TypeOK'
      BY <1>3, <1>5, <1>7 DEF DigestIInv, TypeOK, Moves, RowsOK, Rows
<1>10. ProcessOK'
      BY <1>1, <1>3, <1>6, <1>8, Typed DEF DigestIInv, ProcessOK, ProcessAt, Same
<1>11. SnapshotsOK'
      BY <1>3, <1>6, <1>8, SnapshotsFrame DEF DigestIInv
<1>12. LockOK'
      BY <1>5, <1>6, <1>8, LockFrame, NullsAssumption
<1>13. ConsistentEdition'
      BY <1>1, <1>8 DEF DigestIInv, ConsistentEdition
<1>14. TokensOK'
  <2>1. ASSUME NEW d \in Client, d # c, token'[d] # 0
        PROVE  /\ token[d] = token'[d] /\ token[d] # 0 /\ At(d)' = At(d) /\ PhaseInputs(d)' = PhaseInputs(d)
               /\ At(d) \in Phase
        BY <1>8, <2>1, TokenAtPhase DEF Same, At, PhaseInputs, DigestIInv
  <2>2. ASSUME NEW d \in Client, d # c, token'[d] # 0
        PROVE  /\ row'[At(d)'] # NoRow /\ token'[d] <= row'[At(d)'].attempt
               /\ token'[d] = row'[At(d)'].attempt => row'[At(d)'].inputs = PhaseInputs(d)'
    <3> DEFINE q == At(d)
    <3>1. /\ token[d] = token'[d] /\ token[d] # 0 /\ At(d)' = q /\ PhaseInputs(d)' = PhaseInputs(d) /\ q \in Phase
          BY <2>1, <2>2
    <3>2. /\ row[q] # NoRow /\ token[d] <= row[q].attempt
          /\ token[d] = row[q].attempt => row[q].inputs = PhaseInputs(d)
          BY <3>1 DEF DigestIInv, TokensOK
    <3>3. /\ row'[q] # NoRow /\ row'[q].attempt >= row[q].attempt
          /\ row'[q].attempt = row[q].attempt => row'[q].inputs = row[q].inputs
          BY <1>3, <3>1, <3>2 DEF RowsAdvance
    <3>4. row[q].attempt \in Nat /\ row'[q].attempt \in Nat /\ token[d] \in Nat
          BY <1>3, <3>1, <3>2, <3>3, RowFields DEF RowsOK, TypeOK, DigestIInv
    <3> HIDE DEF q
    <3>5. token[d] <= row'[q].attempt /\ (token[d] = row'[q].attempt => row'[q].inputs = PhaseInputs(d))
          BY <3>2, <3>3, <3>4
    <3> QED BY <3>1, <3>3, <3>5
  <2>3. /\ row'[At(c)'] # NoRow /\ token'[c] <= row'[At(c)'].attempt
        /\ token'[c] = row'[At(c)'].attempt => row'[At(c)'].inputs = PhaseInputs(c)'
        BY <1>3, <1>4, <1>6
  <2>4. ASSUME NEW d \in Client, d # c, token'[d] # 0, At(d)' = p PROVE token'[d] # n
    <3>1. token[d] = token'[d] /\ token[d] # 0 /\ At(d) = p /\ p \in Phase
          BY <2>1, <2>4
    <3>2. row[p] # NoRow /\ token[d] <= row[p].attempt /\ row[p].attempt \in Nat /\ token[d] \in Nat
          BY <3>1, RowFields DEF DigestIInv, TokensOK, RowsOK, TypeOK
    <3> QED BY <1>3, <3>1, <3>2
  <2>5. ASSUME NEW d \in Client, NEW e \in Client, token'[d] # 0, token'[d] = token'[e], At(d)' = At(e)'
        PROVE  d = e
    <3>1. CASE d # c /\ e # c
      <4>1. token[d] # 0 /\ token[d] = token[e] /\ At(d) = At(e)
            BY <2>1, <2>5, <3>1
      <4> QED BY <4>1 DEF DigestIInv, TokensOK
    <3>2. CASE d = c /\ e # c
          BY <1>4, <1>6, <2>4, <2>5, <3>2
    <3>3. CASE d # c /\ e = c
          BY <1>4, <1>6, <2>4, <2>5, <3>3
    <3> QED BY <3>1, <3>2, <3>3
  <2>6. \A d \in Client : token'[d] # 0 =>
          /\ row'[At(d)'] # NoRow /\ token'[d] <= row'[At(d)'].attempt
          /\ token'[d] = row'[At(d)'].attempt => row'[At(d)'].inputs = PhaseInputs(d)'
        BY <2>2, <2>3
  <2> QED BY <2>5, <2>6 DEF TokensOK
<1> QED BY <1>3, <1>9, <1>10, <1>11, <1>12, <1>13, <1>14 DEF DigestIInv

(* An attempt that is still running has the inputs of its process.            *)
LEMMA OwnInputs ==
  ASSUME DigestIInv, NEW c \in Client, token[c] # 0, Owns(At(c), token[c])
  PROVE  row[At(c)].attempt = token[c] /\ row[At(c)].inputs = PhaseInputs(c)
BY DEF DigestIInv, TokensOK, Owns

LEMMA WritingStep ==
  ASSUME DigestIInv, NEW c \in Client, Write(c), UNCHANGED <<starts, publisher>>
  PROVE  DigestIInv'
<1> DEFINE data == [attempt |-> token[c], inputs |-> PhaseInputs(c)]
<1>1. /\ pc[c] = "work" /\ WriteOwned(c, At(c), token[c], data) /\ Goto(c, "commit")
      /\ UNCHANGED <<code, seen, snap, token>>
      BY DEF Write
<1>2. token[c] # 0 /\ At(c) \in Phase /\ data \in Content
      BY <1>1, Typed, TokenAtPhase DEF ProcessAt, DigestIInv, Content
<1>3. Owns(At(c), token[c]) /\ lock' = c /\ lock = NoClient /\ file' = [file EXCEPT ![At(c)] = data] /\ UNCHANGED <<run, row>>
      BY <1>1 DEF WriteOwned, Unlocked
<1> HIDE DEF data
<1>4. RowsOK' /\ Settles
  <2>1. Owns(At(c), row[At(c)].attempt)
        BY <1>3 DEF Owns
  <2> QED BY <1>2, <1>3, <2>1, WriteStep DEF DigestIInv
<1>5. RowsAdvance
      BY <1>4, SettlingAdvances DEF DigestIInv
<1>6. pc' = [pc EXCEPT ![c] = pc'[c]] /\ pc'[c] = "commit" /\ At(c)' = At(c) /\ PhaseInputs(c)' = PhaseInputs(c)
      BY <1>1 DEF Goto, DigestIInv, TypeOK, At, PhaseInputs
<1>7. Moves(c)
      BY <1>1, <1>6 DEF Moves, DigestIInv, TypeOK, Running, Rows
<1>8. \A d \in Client : d # c => Same(d) /\ pc[d] # "commit"
      BY <1>3, <1>7, OthersSame, NullsAssumption DEF DigestIInv, LockOK
<1>9. LockOK'
  <2>1. file'[At(c)] = data
        BY <1>2, <1>3 DEF DigestIInv, RowsOK
  <2>2. Owns(At(c), token[c])'
        BY <1>1, <1>3, <1>6 DEF Owns
  <2> QED BY <1>1, <1>2, <1>3, <1>6, <1>8, <2>1, <2>2 DEF LockOK, Same, data
<1>10. ProcessAt(c)' /\ EditionAt(c)' /\ SnapshotAt(c)'
      BY <1>1, <1>6, Typed DEF ProcessAt, EditionAt, SnapshotAt
<1> QED BY <1>1, <1>3, <1>4, <1>5, <1>7, <1>9, <1>10, Assemble

LEMMA CommittingStep ==
  ASSUME DigestIInv, NEW c \in Client, Commit(c), UNCHANGED <<starts, publisher>>
  PROVE  DigestIInv'
<1>1. pc[c] = "commit" /\ CommitOwned(c, At(c)) /\ Adopt(c, file[At(c)])
      BY DEF Commit
<1>2. /\ lock = c /\ lock' = NoClient /\ token[c] # 0 /\ Owns(At(c), token[c])
      /\ file[At(c)] = [attempt |-> token[c], inputs |-> PhaseInputs(c)]
      BY <1>1 DEF DigestIInv, LockOK, CommitOwned
<1>3. At(c) \in Phase /\ file[At(c)] \in Content /\ file[At(c)].inputs = PhaseInputs(c)
      BY <1>2, TokenAtPhase DEF DigestIInv, Content
<1>4. file[At(c)] = [attempt |-> row[At(c)].attempt, inputs |-> row[At(c)].inputs] /\ Owns(At(c), row[At(c)].attempt)
      BY <1>2, OwnInputs DEF Owns
<1>5. RowsOK' /\ Settles
      BY <1>1, <1>3, <1>4, CommitStep DEF DigestIInv
<1>6. RowsAdvance
      BY <1>5, SettlingAdvances DEF DigestIInv
<1>7. Moves(c) /\ ProcessAt(c)' /\ SnapshotAt(c)' /\ EditionAt(c)' /\ token'[c] = 0 /\ pc'[c] \in {"load", "done"}
      BY <1>1, <1>3, Adopted
<1>8. LockOK'
      BY <1>2, <1>7, OthersSame, LockFrame, NullsAssumption DEF DigestIInv
<1> QED BY <1>2, <1>5, <1>6, <1>7, <1>8, Assemble

(* A transaction of process c that ends without a commit.                     *)
LEMMA RolledBack ==
  ASSUME DigestIInv, NEW c \in Client, RollBack(c), \A d \in Client : d # c => Same(d), pc'[c] # "commit"
  PROVE  RowsOK' /\ RowsAdvance /\ lock' \in Client \cup {NoClient} /\ LockOK'
<1>1. UNCHANGED <<run, row, file>> /\ lock' \in Client \cup {NoClient}
      BY DEF RollBack, DigestIInv, TypeOK
<1>2. RowsOK' /\ RowsAdvance
      BY <1>1, RowsStill, SettlingAdvances DEF DigestIInv
<1>3. LockOK'
      BY <1>1, LockFrame, NullsAssumption DEF RollBack
<1> QED BY <1>1, <1>2, <1>3

LEMMA RaiseStep ==
  ASSUME DigestIInv, NEW c \in Client, Raise(c), UNCHANGED <<starts, publisher>>
  PROVE  DigestIInv'
<1>1. pc[c] \in {"work", "commit"} /\ RollBack(c) /\ Goto(c, "failing") /\ UNCHANGED <<code, seen, snap, token>>
      BY DEF Raise
<1>2. pc' = [pc EXCEPT ![c] = pc'[c]] /\ pc'[c] = "failing"
      BY <1>1 DEF Goto, DigestIInv, TypeOK
<1>3. Moves(c)
      BY <1>1, <1>2 DEF Moves, DigestIInv, TypeOK, Running, Rows
<1>4. RowsOK' /\ RowsAdvance /\ lock' \in Client \cup {NoClient} /\ LockOK'
      BY <1>1, <1>2, <1>3, OthersSame, RolledBack DEF DigestIInv
<1> QED BY <1>1, <1>4, JumpStep DEF Running

LEMMA BusyStep ==
  ASSUME DigestIInv, NEW c \in Client, Busy(c), UNCHANGED <<starts, publisher>>
  PROVE  DigestIInv'
<1>1. /\ pc[c] \in {"load", "invalidate", "begin", "work"} /\ Goto(c, "failing")
      /\ UNCHANGED <<stateVars, code, seen, snap, token>>
      BY DEF Busy
<1> QED BY <1>1, NoLock, JumpStill DEF Running

(* A process that is gone knows nothing.                                      *)
LEMMA Forgotten ==
  ASSUME DigestIInv, NEW c \in Client, Goto(c, "idle"), Forget(c), UNCHANGED <<starts, publisher>>
  PROVE  /\ Moves(c) /\ ProcessAt(c)' /\ SnapshotAt(c)' /\ EditionAt(c)' /\ token'[c] = 0 /\ pc'[c] = "idle"
         /\ \A d \in Client : d # c => Same(d)
<1>1. /\ pc' = [pc EXCEPT ![c] = pc'[c]] /\ pc'[c] = "idle"
      /\ code' = [code EXCEPT ![c] = code'[c]] /\ code'[c] = NoCode
      /\ snap' = [snap EXCEPT ![c] = snap'[c]] /\ snap'[c] = NoRow
      BY DEF Goto, Forget, DigestIInv, TypeOK
<1>2. /\ seen' = [seen EXCEPT ![c] = seen'[c]] /\ seen'[c] = <<>>
      /\ token' = [token EXCEPT ![c] = token'[c]] /\ token'[c] = 0
      BY DEF Forget, DigestIInv, TypeOK
<1>3. seen'[c] \in Seq(Content) /\ Len(seen'[c]) = 0
      BY <1>2, EmptySeq
<1>4. Moves(c)
      BY <1>1, <1>2, <1>3 DEF Moves, DigestIInv, TypeOK, Rows
<1>5. ProcessAt(c)' /\ SnapshotAt(c)' /\ EditionAt(c)'
      BY <1>1, <1>2, <1>3, PhasesAssumption DEF ProcessAt, SnapshotAt, EditionAt
<1> QED BY <1>1, <1>2, <1>4, <1>5, OthersSame DEF DigestIInv

LEMMA RecordFailureStep ==
  ASSUME DigestIInv, NEW c \in Client, RecordFailure(c), UNCHANGED <<starts, publisher>>
  PROVE  DigestIInv'
<1>1. pc[c] = "failing" /\ FailPhase(At(c), token[c]) /\ Goto(c, "idle") /\ Forget(c) /\ At(c) \in Phase
      BY Typed DEF RecordFailure
<1>2. /\ Moves(c) /\ ProcessAt(c)' /\ SnapshotAt(c)' /\ EditionAt(c)' /\ token'[c] = 0 /\ pc'[c] = "idle"
      /\ \A d \in Client : d # c => Same(d)
      BY <1>1, Forgotten
<1>3. RowsOK' /\ Settles
      BY <1>1, FailStep DEF DigestIInv
<1>4. RowsAdvance
      BY <1>3, SettlingAdvances DEF DigestIInv
<1>5. lock' = lock /\ lock = NoClient
      BY <1>1 DEF FailPhase, Unlocked
<1>6. LockOK'
      BY <1>2, <1>5, LockFrame, NullsAssumption
<1> QED BY <1>2, <1>3, <1>4, <1>5, <1>6, Assemble

LEMMA GiveUpStep ==
  ASSUME DigestIInv, NEW c \in Client, GiveUp(c), UNCHANGED <<starts, publisher>>
  PROVE  DigestIInv'
<1>1. pc[c] = "failing" /\ Goto(c, "idle") /\ Forget(c) /\ UNCHANGED stateVars
      BY DEF GiveUp
<1>2. Moves(c) /\ ProcessAt(c)' /\ SnapshotAt(c)' /\ EditionAt(c)' /\ token'[c] = 0 /\ pc'[c] = "idle"
      BY <1>1, Forgotten
<1>3. RowsOK' /\ RowsAdvance /\ lock' \in Client \cup {NoClient}
      BY <1>1, StateStill
<1>4. LockOK'
      BY <1>1, <1>2, NoLock, StillLockOK
<1> QED BY <1>2, <1>3, <1>4, Assemble

-----------------------------------------------------------------------------
(* Signals, kills and the publisher                                          *)

LEMMA SignalStep ==
  ASSUME DigestIInv, NEW c \in Client, Signal(c), UNCHANGED <<starts, publisher>>
  PROVE  DigestIInv'
<1>1. /\ pc[c] \notin {"idle", "done", "handler", "signalled"} /\ Goto(c, "handler")
      /\ UNCHANGED <<stateVars, code, seen, snap, token>>
      BY DEF Signal
<1> QED BY <1>1, JumpStill DEF Running

LEMMA HandlerAbortStep ==
  ASSUME DigestIInv, NEW c \in Client, HandlerAbort(c), UNCHANGED <<starts, publisher>>
  PROVE  DigestIInv'
<1>1. /\ pc[c] = "handler" /\ AbortInterruptedPhases /\ Goto(c, "signalled")
      /\ UNCHANGED <<code, seen, snap, token>>
      BY DEF HandlerAbort
<1>2. RowsOK' /\ Settles
      BY <1>1, AbortStep DEF DigestIInv
<1>3. RowsAdvance
      BY <1>2, SettlingAdvances DEF DigestIInv
<1>4. lock' = lock /\ lock = NoClient
      BY <1>1 DEF AbortInterruptedPhases, Unlocked
<1>5. pc' = [pc EXCEPT ![c] = pc'[c]] /\ pc'[c] = "signalled"
      BY <1>1 DEF Goto, DigestIInv, TypeOK
<1>6. Moves(c)
      BY <1>1, <1>5 DEF Moves, DigestIInv, TypeOK, Rows
<1>7. LockOK'
      BY <1>4, <1>5, <1>6, OthersSame, LockFrame, NullsAssumption DEF DigestIInv
<1> QED BY <1>1, <1>2, <1>3, <1>4, <1>7, JumpStep

LEMMA HandlerBusyStep ==
  ASSUME DigestIInv, NEW c \in Client, HandlerBusy(c), UNCHANGED <<starts, publisher>>
  PROVE  DigestIInv'
<1>1. /\ pc[c] = "handler" /\ RollBack(c) /\ Goto(c, "signalled")
      /\ UNCHANGED <<code, seen, snap, token>>
      BY DEF HandlerBusy
<1>2. pc' = [pc EXCEPT ![c] = pc'[c]] /\ pc'[c] = "signalled"
      BY <1>1 DEF Goto, DigestIInv, TypeOK
<1>3. Moves(c)
      BY <1>1, <1>2 DEF Moves, DigestIInv, TypeOK, Rows
<1>4. RowsOK' /\ RowsAdvance /\ lock' \in Client \cup {NoClient} /\ LockOK'
      BY <1>2, <1>1, <1>3, OthersSame, RolledBack DEF DigestIInv
<1> QED BY <1>1, <1>4, JumpStep

LEMMA KillStep ==
  ASSUME DigestIInv, NEW c \in Client, Kill(c), UNCHANGED <<starts, publisher>>
  PROVE  DigestIInv'
<1>1. RollBack(c) /\ Goto(c, "idle") /\ Forget(c)
      BY DEF Kill
<1>2. /\ Moves(c) /\ ProcessAt(c)' /\ SnapshotAt(c)' /\ EditionAt(c)' /\ token'[c] = 0 /\ pc'[c] = "idle"
      /\ \A d \in Client : d # c => Same(d)
      BY <1>1, Forgotten
<1>3. RowsOK' /\ RowsAdvance /\ lock' \in Client \cup {NoClient} /\ LockOK'
      BY <1>1, <1>2, RolledBack
<1> QED BY <1>2, <1>3, Assemble

LEMMA StartStep ==
  ASSUME DigestIInv, NEW c \in Client, NEW v \in Code, Start(c, v)
  PROVE  DigestIInv'
<1>1. /\ pc[c] \in {"idle", "done", "signalled"} /\ starts < MaxStarts /\ starts' = starts + 1
      /\ UNCHANGED <<stateVars, publisher>>
      BY DEF Start
<1>2. /\ pc' = [pc EXCEPT ![c] = pc'[c]] /\ pc'[c] = "load"
      /\ code' = [code EXCEPT ![c] = code'[c]] /\ code'[c] = v
      /\ snap' = [snap EXCEPT ![c] = snap'[c]] /\ snap'[c] = NoRow
      BY DEF Start, Goto, DigestIInv, TypeOK
<1>3. /\ seen' = [seen EXCEPT ![c] = seen'[c]] /\ seen'[c] = <<>>
      /\ token' = [token EXCEPT ![c] = token'[c]] /\ token'[c] = 0
      BY DEF Start, DigestIInv, TypeOK
<1>4. seen'[c] \in Seq(Content) /\ Len(seen'[c]) = 0
      BY <1>3, EmptySeq
<1>5. starts' \in 0..MaxStarts
      BY <1>1, MaxStartsAssumption DEF DigestIInv, TypeOK
<1>6. Moves(c)
      BY <1>1, <1>2, <1>3, <1>4, <1>5 DEF Moves, DigestIInv, TypeOK, Rows, Running
<1>7. ProcessAt(c)' /\ SnapshotAt(c)' /\ EditionAt(c)'
      BY <1>2, <1>3, <1>4, PhasesAssumption DEF ProcessAt, SnapshotAt, EditionAt
<1>8. RowsOK' /\ RowsAdvance /\ lock' \in Client \cup {NoClient}
      BY <1>1, StateStill
<1>9. LockOK'
      BY <1>1, <1>2, <1>6, NoLock, StillLockOK
<1> QED BY <1>3, <1>6, <1>7, <1>8, <1>9, Assemble

(* The processes wait while the publisher moves.                              *)
LEMMA PublisherStep ==
  ASSUME DigestIInv, Publish \/ Finalize \/ PublisherDies PROVE DigestIInv'
<1>1. UNCHANGED <<procVars, starts>> /\ publisher' \in {"idle", "live"}
      BY DEF Publish, Finalize, PublisherDies
<1>2. RowsOK' /\ RowsAdvance /\ lock' = lock /\ (lock # NoClient => UNCHANGED <<row, file>>)
  <2>1. CASE Finalize
    <3>1. RowsOK' /\ Settles
          BY <2>1, FinalizeStep DEF Finalize, DigestIInv
    <3> QED BY <2>1, <3>1, SettlingAdvances DEF DigestIInv, Finalize, FinalizePublished, Unlocked
  <2>2. CASE Publish \/ PublisherDies
    <3>1. UNCHANGED stateVars
          BY <2>2 DEF Publish, PublisherDies
    <3> QED BY <3>1, StateStill DEF stateVars
  <2> QED BY <2>1, <2>2
<1>3. \A c \in Client : Same(c)
      BY <1>1 DEF procVars, Same
<1>4. TypeOK'
      BY <1>1, <1>2 DEF DigestIInv, TypeOK, RowsOK, Rows, procVars
<1>5. ProcessOK' /\ ConsistentEdition'
      BY <1>1 DEF DigestIInv, ProcessOK, ConsistentEdition, procVars
<1>6. SnapshotsOK'
      BY <1>2, <1>3, SnapshotsFrame DEF DigestIInv
<1>7. TokensOK'
      BY <1>2, <1>3, TokensFrame DEF DigestIInv, Same
<1>8. LockOK'
      BY <1>1, <1>2, <1>3, NullsAssumption DEF DigestIInv, LockOK, Owns, At, PhaseInputs, procVars
<1> QED BY <1>2, <1>4, <1>5, <1>6, <1>7, <1>8 DEF DigestIInv

LEMMA StutterStep == ASSUME DigestIInv, UNCHANGED vars PROVE DigestIInv'
BY DEF vars, procVars, stateVars, DigestIInv, RowsOK, TypeOK, ProcessOK, SnapshotsOK, TokensOK, LockOK,
       ConsistentEdition, RowMatchesFile, RunRunsWithPhases, RunPresent, OwnWork, Owns, At, PhaseInputs, Statuses

-----------------------------------------------------------------------------
LEMMA DigestInitially == Init => DigestIInv
<1> SUFFICES ASSUME Init PROVE DigestIInv
    OBVIOUS
<1>1. /\ run = "absent" /\ row = [p \in Phase |-> NoRow] /\ file = [p \in Phase |-> NoFile] /\ lock = NoClient
      /\ pc = [c \in Client |-> "idle"] /\ code = [c \in Client |-> NoCode] /\ seen = [c \in Client |-> <<>>]
      /\ snap = [c \in Client |-> NoRow] /\ token = [c \in Client |-> 0] /\ starts = 0 /\ publisher = "idle"
      BY DEF Init, StateInit
<1>2. RowsOK
  <2>1. Statuses(row) = {}
        BY <1>1 DEF Statuses
  <2> QED BY <1>1, <2>1 DEF RowsOK, Rows, RowMatchesFile, RunRunsWithPhases, RunPresent, OwnWork
<1>3. seen \in [Client -> Seq(Content)] /\ \A c \in Client : Len(seen[c]) = 0
      BY <1>1, EmptySeq
<1>4. TypeOK
      BY <1>1, <1>3, MaxStartsAssumption DEF TypeOK
<1>5. ProcessOK
      BY <1>1, <1>3, PhasesAssumption DEF ProcessOK
<1>6. SnapshotsOK /\ TokensOK /\ LockOK
      BY <1>1, NullsAssumption DEF SnapshotsOK, TokensOK, LockOK
<1>7. ConsistentEdition
      BY <1>3 DEF ConsistentEdition
<1> QED BY <1>2, <1>4, <1>5, <1>6, <1>7 DEF DigestIInv

(* Every step keeps the invariant: one lemma per action.                      *)
LEMMA DigestStep == DigestIInv /\ [Next]_vars => DigestIInv'
<1> SUFFICES ASSUME DigestIInv, [Next]_vars PROVE DigestIInv'
    OBVIOUS
<1>1. ASSUME NEW c \in Client, NEW v \in Code, Start(c, v) PROVE DigestIInv'
      BY <1>1, StartStep
<1>2. ASSUME NEW c \in Client, Proceed(c), UNCHANGED <<starts, publisher>> PROVE DigestIInv'
      BY <1>2, ReadRowStep, ReadFileStep, ResumeStep, RejectStep, InvalidatingStep, BeginningStep, WritingStep,
         CommittingStep, RaiseStep, BusyStep, RecordFailureStep, GiveUpStep, HandlerAbortStep, HandlerBusyStep
         DEF Proceed
<1>3. ASSUME NEW c \in Client, Signal(c) \/ Kill(c), UNCHANGED <<starts, publisher>> PROVE DigestIInv'
      BY <1>3, SignalStep, KillStep
<1>4. CASE Publish \/ Finalize \/ PublisherDies
      BY <1>4, PublisherStep
<1>5. CASE UNCHANGED vars
      BY <1>5, StutterStep
<1> QED BY <1>1, <1>2, <1>3, <1>4, <1>5 DEF Next

(* One owner of an attempt, from the tokens that are never given twice.       *)
LEMMA SoundAttempts == DigestIInv => AttemptsSound
<1> SUFFICES ASSUME DigestIInv PROVE AttemptsSound
    OBVIOUS
<1>1. OneOwner
      BY DEF DigestIInv, TokensOK, OneOwner, Owns
<1> QED BY <1>1 DEF DigestIInv, RowsOK, AttemptsSound

(* Whatever signals, kills and second processes do to a digest, the rows, the  *)
(* artifacts and what each process remembers of them agree.                    *)
THEOREM DigestInvariance == Spec => []DigestIInv
BY DigestInitially, DigestStep, PTL DEF Spec

(* complete_json, complete_text: the bytes on disk are those that a succeeded  *)
(* row recorded, in every state.                                               *)
THEOREM RowsVouch == Spec => []RowMatchesFile
<1>1. DigestIInv => RowMatchesFile
      BY DEF DigestIInv, RowsOK
<1> QED BY <1>1, DigestInvariance, PTL

(* _refresh_run_status and the two transitions that do without it: the run is  *)
(* running exactly while a phase is.                                           *)
THEOREM RunSummarised == Spec => []RunRunsWithPhases
<1>1. DigestIInv => RunRunsWithPhases
      BY DEF DigestIInv, RowsOK
<1> QED BY <1>1, DigestInvariance, PTL

(* begin_phase to complete: one process owns a running attempt, what succeeded *)
(* is the work of its own attempt, and so is all that processes remember.      *)
THEOREM AttemptsAreSound == Spec => []AttemptsSound
BY SoundAttempts, DigestInvariance, PTL

(* run_digest: no edition is assembled from phases of different code or from   *)
(* payloads that were not made from each other.                                *)
THEOREM OneEdition == Spec => []ConsistentEdition
<1>1. DigestIInv => ConsistentEdition
      BY DEF DigestIInv
<1> QED BY <1>1, DigestInvariance, PTL

(* _same_attempt: an attempt leaves "running" once, and the attempt number     *)
(* only moves to its successor, in a row that runs.                            *)
THEOREM DecidedOnce == Spec => AttemptsDecidedOnce
<1> DEFINE Decided ==
      \A p \in Phase :
        row'[p] # row[p] =>
          \/ /\ row'[p].status = "running"
             /\ row'[p].attempt = IF row[p] = NoRow THEN 1 ELSE row[p].attempt + 1
          \/ /\ row[p] # NoRow
             /\ row'[p].attempt = row[p].attempt
             /\ row'[p].inputs = row[p].inputs
             /\ \/ row[p].status = "running"
                \/ row[p].status = "succeeded" /\ row'[p].status = "invalid"
<1>1. ASSUME DigestIInv, Settles PROVE Decided
      BY <1>1 DEF Settles
<1>2. ASSUME DigestIInv, UNCHANGED row PROVE Decided
      BY <1>2
<1>3. ASSUME DigestIInv, NEW c \in Client, Begin(c) PROVE Decided
  <2>1. At(c) \in Phase /\ code[c] \in Code /\ PhaseInputs(c) \in Inputs /\ BeginPhase(At(c), PhaseInputs(c))
        BY <1>3, Typed, InputsType DEF Begin, ProcessAt
  <2>2. /\ row' = [row EXCEPT ![At(c)] = row'[At(c)]] /\ row'[At(c)].status = "running"
        /\ row'[At(c)].attempt = IF row[At(c)] = NoRow THEN 1 ELSE row[At(c)].attempt + 1
        BY <1>3, <2>1, BeginStep DEF DigestIInv
  <2>3. \A q \in Phase : q # At(c) => row'[q] = row[q]
        BY <2>2, <1>3, <2>1 DEF DigestIInv, RowsOK
  <2> QED BY <2>2, <2>3
<1>4. ASSUME DigestIInv, NEW c \in Client, Proceed(c), ~Begin(c) PROVE Settles \/ UNCHANGED row
  <2>1. ASSUME Invalidate(c) PROVE Settles
    <3>1. InvalidateSnapshot(At(c), snap[c]) /\ At(c) \in Phase /\ row[At(c)] # NoRow
          BY <1>4, <2>1, Typed DEF Invalidate, SnapshotAt
    <3> QED BY <1>4, <3>1, InvalidateStep DEF DigestIInv
  <2>2. ASSUME RecordFailure(c) PROVE Settles
    <3>1. FailPhase(At(c), token[c]) /\ At(c) \in Phase
          BY <1>4, <2>2, Typed DEF RecordFailure
    <3> QED BY <1>4, <3>1, FailStep DEF DigestIInv
  <2>3. ASSUME HandlerAbort(c) PROVE Settles
        BY <1>4, <2>3, AbortStep DEF HandlerAbort, DigestIInv
  <2>4. ASSUME Commit(c) PROVE Settles
    <3>1. /\ lock = c /\ token[c] # 0 /\ Owns(At(c), token[c]) /\ CommitOwned(c, At(c))
          /\ file[At(c)] = [attempt |-> token[c], inputs |-> PhaseInputs(c)]
          BY <1>4, <2>4 DEF DigestIInv, LockOK, Commit, CommitOwned
    <3>2. /\ file[At(c)] = [attempt |-> row[At(c)].attempt, inputs |-> row[At(c)].inputs]
          /\ Owns(At(c), row[At(c)].attempt) /\ At(c) \in Phase
          BY <1>4, <3>1, OwnInputs, TokenAtPhase DEF Owns, DigestIInv
    <3> QED BY <1>4, <3>1, <3>2, CommitStep DEF DigestIInv
  <2>5. ReadRow(c) \/ ReadFile(c) \/ Resume(c) \/ Reject(c) \/ Busy(c) \/ GiveUp(c) => UNCHANGED row
        BY DEF ReadRow, ReadFile, Resume, Reject, Busy, GiveUp, stateVars
  <2>6. Write(c) \/ Raise(c) \/ HandlerBusy(c) => UNCHANGED row
        BY DEF Write, WriteOwned, Raise, HandlerBusy, RollBack
  <2> QED BY <1>4, <2>1, <2>2, <2>3, <2>4, <2>5, <2>6 DEF Proceed
<1>5. ASSUME NEW c \in Client, Signal(c) \/ Kill(c) PROVE UNCHANGED row
      BY <1>5 DEF Signal, Kill, RollBack, stateVars
<1>6. ASSUME NEW c \in Client, NEW v \in Code, Start(c, v) PROVE UNCHANGED row
      BY <1>6 DEF Start, stateVars
<1>7. ASSUME DigestIInv, Publish \/ Finalize \/ PublisherDies PROVE Settles \/ UNCHANGED row
      BY <1>7, FinalizeStep DEF Publish, Finalize, PublisherDies, stateVars, DigestIInv
<1>8. UNCHANGED vars => UNCHANGED row
      BY DEF vars, stateVars
<1> HIDE DEF Decided
<1>9. DigestIInv /\ [Next]_vars => [Decided]_stateVars
      BY <1>1, <1>2, <1>3, <1>4, <1>5, <1>6, <1>7, <1>8 DEF Next
<1>10. Spec => [][Decided]_stateVars
      BY <1>9, DigestInvariance, PTL DEF Spec
<1> QED BY <1>10 DEF Decided, AttemptsDecidedOnce
=============================================================================
