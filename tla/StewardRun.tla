----------------------------- MODULE StewardRun -----------------------------
(***************************************************************************)
(* A nightly run of the steward: the phases of scripts/steward/workflow.py *)
(* over WorkflowState, in two units that share one run directory: the      *)
(* nightly one, and the one that resumes it after a reboot from            *)
(* pending.md (scripts/steward-resume.sh).  A process dies between any two *)
(* steps, the operator changes the steward's source at any time, P7b       *)
(* changes it itself, and P0 stops a webhook that the units start again.   *)
(*                                                                         *)
(* What an artifact holds is the kind of writer and a value; what a phase  *)
(* computes is out of the model.                                           *)
(***************************************************************************)
EXTENDS WorkflowState, Sequences, FiniteSets, SequencesExt

CONSTANTS
    Main, Resume,   \* the two units
    Order,          \* the phases that are run, as main runs them
    Varying,        \* phases whose output differs from one attempt to the next
    MaxEdits,       \* bound: changes of the steward's source
    MaxLaunches,      \* bound: launches of the units
    MaxReboots      \* bound: boots of the host

ASSUME StewardRunAssumption ==
    /\ Client = {Main, Resume} /\ Main # Resume
    /\ Varying \subseteq Phase
    /\ MaxEdits \in Nat /\ MaxLaunches \in Nat /\ MaxReboots \in Nat

VARIABLES
    proc,       \* the process of each unit
    source,     \* fingerprint of the source: changes P7b may make, and others
    pending,    \* pending.md exists
    webhook,    \* dependabot-webhook.service is active
    required,   \* /var/run/reboot-required exists
    due,        \* the resuming unit's timer has yet to fire in this boot
    launches, boots,
    overlap     \* two processes have been in the run directory at once

runVars == <<run, row, file, lock, proc, source, pending, webhook, required, due, launches, boots, overlap>>

(* main: the phases in their order, and the artifacts each is given.        *)
AllPhases == <<"setup", "session-memory", "apply", "validation", "troubleshoot", "remediation",
               "heartbeat", "queue", "audit", "fixes", "resolve", "render", "archive",
               "dotfiles", "public-dotfiles">>

GivenTo == [p \in ToSet(AllPhases) |->
    CASE p = "setup"           -> {}
      [] p = "session-memory"  -> {"setup"}
      [] p = "apply"           -> {"setup"}
      [] p = "validation"      -> {"apply"}
      [] p = "troubleshoot"    -> {"apply", "validation"}
      [] p = "remediation"     -> {"validation", "troubleshoot"}
      [] p = "heartbeat"       -> {"validation", "remediation"}
      [] p = "queue"           -> {"heartbeat"}
      [] p = "audit"           -> {"queue", "heartbeat"}
      [] p = "fixes"           -> {"audit"}
      [] p = "resolve"         -> {"apply", "audit", "fixes"}
      [] p \in {"render", "archive"} -> {"apply", "validation", "queue", "audit", "fixes", "resolve"}
      [] p = "dotfiles"        -> {"archive"}
      [] p = "public-dotfiles" -> {"dotfiles"}]

(* Some of main's phases, in their order; P0 is always one of them.          *)
ASSUME OrderAssumption ==
    /\ Order \in Seq(ToSet(AllPhases)) /\ Phase = ToSet(Order) /\ "setup" \in Phase
    /\ \E place \in [1..Len(Order) -> 1..Len(AllPhases)] :
         /\ \A i \in 1..Len(Order) : Order[i] = AllPhases[place[i]]
         /\ \A i, j \in 1..Len(Order) : i < j => place[i] < place[j]

Upstream(p) == GivenTo[p] \cap Phase
Position(p) == CHOOSE i \in 1..Len(Order) : Order[i] = p

(* P3 ends here: the host may be rebooted before the next phase.            *)
Late == {"heartbeat", "queue", "audit", "fixes", "resolve", "render", "archive",
         "dotfiles", "public-dotfiles"}
FirstLate == CHOOSE i \in 1..Len(Order) : Order[i] \in Late /\ \A j \in 1..(i - 1) : Order[j] \notin Late

(* Operations that return no data and write their artifact themselves, and  *)
(* those that write a page that is not JSON.                                 *)
Silent == {"session-memory", "archive"}
Page == {"render", "archive"}

(* What an operation's result counts as: _infer_apply_outcome where it does  *)
(* not say, the canonical status, and the phase's own failed rows.           *)
Outcomes == {"ok", "failed", "raise"}

Content(kind, val) == [kind |-> kind, val |-> val]
Values(p) == IF p \in Varying THEN 1..2 ELSE {1}

Off == [pc |-> "off", at |-> 0, code |-> [soft |-> 0, hard |-> 0], resume |-> FALSE, reload |-> FALSE,
        stopped |-> FALSE, inputs |-> NoRow, before |-> NoFile, att |-> 0, out |-> "none", val |-> 0]

RunInit ==
    /\ StateInit
    /\ proc = [c \in Client |-> Off]
    /\ source = [soft |-> 0, hard |-> 0]
    /\ pending = FALSE /\ webhook = TRUE /\ required = FALSE
    /\ due = FALSE /\ launches = 0 /\ boots = 0 /\ overlap = FALSE

Ph(c) == Order[proc[c].at]
Running(c) == proc[c].pc # "off"
Unchanged(c) == proc[c].code = source
Step(c, pc) == proc' = [proc EXCEPT ![c].pc = pc]

Host == <<pending, webhook, required>>
Counts == <<due, launches, boots, overlap>>

(* What a process forgets at the end of a phase.                             *)
Clear(p) == [p EXCEPT !.inputs = NoRow, !.before = NoFile, !.att = 0, !.out = "none", !.val = 0]

(* The step after phase number `at': the reboot check, the reload after     *)
(* P7b, the next phase, or the end.                                          *)
After(p) ==
    LET next == Clear([p EXCEPT !.at = @ + 1]) IN
    IF p.at = Len(Order) THEN [next EXCEPT !.pc = "end"]
    ELSE IF Order[p.at] = "fixes" /\ p.reload THEN [next EXCEPT !.pc = "reload"]
    ELSE IF p.at + 1 = FirstLate THEN [next EXCEPT !.pc = "reboot"]
    ELSE [next EXCEPT !.pc = "inputs"]

-----------------------------------------------------------------------------
(* A phase                                                                   *)

(* The process ends with an error; its unit runs its ExecStopPost.          *)
Crashed(p) == [Clear(p) EXCEPT !.pc = "crashed"]

(* _phase_inputs: the source must be the one the process started with.      *)
PhaseInputs(c) ==
    /\ proc[c].pc = "inputs"
    /\ proc' = [proc EXCEPT ![c] =
          IF Unchanged(c)
          THEN [@ EXCEPT !.pc = "enter",
                         !.inputs = [code |-> source, up |-> [q \in Upstream(Ph(c)) |-> file[q]]]]
          ELSE Crashed(@)]
    /\ UNCHANGED <<stateVars, source, Host, Counts>>

(* Mutant: whatever the row was computed from. *)
CachedAnyInputs(c) ==
    /\ row[Ph(c)] # NoRow
    /\ row[Ph(c)].status = "succeeded"
    /\ row[Ph(c)].hash = file[Ph(c)]

Cached(c) ==
    /\ row[Ph(c)] # NoRow
    /\ row[Ph(c)].status = "succeeded"
    /\ row[Ph(c)].inputs = proc[c].inputs
    /\ row[Ph(c)].hash = file[Ph(c)]

(* _run_phase with --resume: skip what a succeeded row still vouches for,   *)
(* and invalidate a succeeded row that does not.                             *)
Skip(c) ==
    /\ proc[c].pc = "enter" /\ Unchanged(c) /\ proc[c].resume /\ Cached(c)
    /\ proc' = [proc EXCEPT ![c] = After([proc[c] EXCEPT !.stopped =
          IF Ph(c) = "setup" THEN file["setup"].val = 2 ELSE proc[c].stopped])]
    /\ UNCHANGED <<stateVars, source, Host, Counts>>

Enter(c) ==
    /\ proc[c].pc = "enter"
    /\ proc[c].resume => ~Cached(c) \/ ~Unchanged(c)
    /\ IF Unchanged(c) THEN Step(c, "begin") ELSE proc' = [proc EXCEPT ![c] = Crashed(@)]
    /\ IF Unchanged(c) /\ proc[c].resume /\ row[Ph(c)] # NoRow
       THEN InvalidateSnapshot(Ph(c), row[Ph(c)])
       ELSE UNCHANGED stateVars
    /\ UNCHANGED <<source, Host, Counts>>

(* Mutant: the succeeded row stays while the attempt runs. *)
BeginKeepsRow(c) ==
    /\ proc[c].pc = "begin"
    /\ proc' = [proc EXCEPT ![c].pc = "operate", ![c].before = file[Ph(c)], ![c].att = NextAttempt(Ph(c))]
    /\ IF row[Ph(c)] # NoRow /\ row[Ph(c)].status = "succeeded"
         THEN row' = [row EXCEPT ![Ph(c)].attempt = NextAttempt(Ph(c)), ![Ph(c)].inputs = proc[c].inputs]
              /\ UNCHANGED <<run, file, lock>>
         ELSE BeginPhase(Ph(c), proc[c].inputs)
    /\ UNCHANGED <<source, Host, Counts>>

(* The artifact is looked at, then the attempt begins.                      *)
Begin(c) ==
    /\ proc[c].pc = "begin"
    /\ BeginPhase(Ph(c), proc[c].inputs)
    /\ proc' = [proc EXCEPT ![c].pc = "operate", ![c].before = file[Ph(c)], ![c].att = NextAttempt(Ph(c))]
    /\ UNCHANGED <<source, Host, Counts>>

(* _owned_phase_progress: the row is read first ...                          *)
CheckProgress(c) ==
    /\ proc[c].pc = "operate" /\ Ph(c) = "apply"
    /\ IF Owns(Ph(c), proc[c].att) THEN Step(c, "persist")
       ELSE proc' = [proc EXCEPT ![c].pc = "after", ![c].out = "raise"]
    /\ UNCHANGED <<stateVars, source, Host, Counts>>

(* ... and the artifact written without the database's lock.                 *)
Persist(c) ==
    /\ proc[c].pc = "persist"
    /\ file' = [file EXCEPT ![Ph(c)] = Content("progress", proc[c].att)]
    /\ Step(c, "operate")
    /\ UNCHANGED <<run, row, lock, source, Host, Counts>>

(* The phase's own work.  P0 stops the webhook; P7b may change the source;  *)
(* P8 writes its page before it mails it; an update may ask for a reboot.   *)
Operate(c) ==
    /\ proc[c].pc = "operate"
    /\ LET p == Ph(c)
           own == p \in Silent \cup {"setup", "render"}
       IN \E out \in Outcomes, v \in Values(p) :
        /\ proc' = [proc EXCEPT ![c].pc = "after", ![c].out = out,
                                ![c].val = IF p = "setup" THEN (IF webhook THEN 2 ELSE 1) ELSE v]
        /\ webhook' = IF p = "setup" /\ out = "ok" THEN FALSE ELSE webhook
        /\ file' = IF own /\ out = "ok"
                   THEN [file EXCEPT ![p] = Content("own", IF p = "setup" THEN (IF webhook THEN 2 ELSE 1) ELSE v)]
                   ELSE file
        /\ required' \in IF p = "apply" THEN {required, TRUE} ELSE {required}
        /\ \/ UNCHANGED source
           \/ /\ p = "fixes" /\ source.soft + source.hard < MaxEdits
              /\ source' = [source EXCEPT !.soft = @ + 1]
    /\ UNCHANGED <<run, row, lock, pending, due, launches, boots, overlap>>

(* What is on disk of an attempt whose operation returned.  An operation     *)
(* that returns no data and leaves the artifact as it was counts as one that *)
(* did nothing: a JSON artifact becomes a packet that says so, a page is     *)
(* emptied.  A page that was written stays.                                  *)
Written(c) ==
    LET p == Ph(c)
        touched == file[p] # proc[c].before /\ file[p] # NoFile
    IN CASE p \notin Page /\ (p \notin Silent \/ touched) -> Content("data", proc[c].val)
         [] p \notin Page /\ p \in Silent /\ ~touched -> Content("skipped", 0)
         [] p \in Page /\ touched -> file[p]
         [] p \in Page /\ ~touched -> Content("empty", 0)

(* The code after the operation: the source is compared again, P7b's changes *)
(* are kept for the reload, and the artifact is replaced before anything     *)
(* decides whether the attempt is still this process's own.                  *)
Conclude(c) ==
    /\ proc[c].pc = "after"
    /\ LET p == Ph(c)
           mayReload == p = "fixes" /\ source.hard = proc[c].code.hard
           changed == ~Unchanged(c) /\ ~mayReload
           bad == proc[c].out = "raise" \/ changed
       IN /\ file' = [file EXCEPT ![p] = IF bad THEN Content("failure", 0) ELSE Written(c)]
          /\ proc' = [proc EXCEPT
                ![c].pc = IF bad \/ proc[c].out = "failed" THEN "fail" ELSE "complete",
                ![c].reload = @ \/ (proc[c].out # "raise" /\ ~Unchanged(c) /\ mayReload),
                ![c].out = IF changed /\ proc[c].out # "raise" THEN "changed" ELSE @]
    /\ UNCHANGED <<run, row, lock, source, Host, Counts>>

(* complete_file: the row takes the hash of what is on disk now.             *)
CompleteFile(c) ==
    /\ proc[c].pc = "complete" /\ Owns(Ph(c), proc[c].att) /\ Unlocked
    /\ row' = [row EXCEPT ![Ph(c)].status = "succeeded", ![Ph(c)].hash = file[Ph(c)]]
    /\ Refresh
    /\ proc' = [proc EXCEPT ![c] = After([proc[c] EXCEPT !.stopped =
          IF Ph(c) = "setup" THEN proc[c].val = 2 ELSE proc[c].stopped])]
    /\ UNCHANGED <<file, lock, source, Host, Counts>>

(* Its refusal is an exception like any other: the failure is written over   *)
(* the artifact of the attempt that superseded this one.                     *)
CompleteRefused(c) ==
    /\ proc[c].pc = "complete" /\ ~Owns(Ph(c), proc[c].att)
    /\ file' = [file EXCEPT ![Ph(c)] = Content("failure", 0)]
    /\ proc' = [proc EXCEPT ![c].pc = "fail", ![c].out = "raise"]
    /\ UNCHANGED <<run, row, lock, source, Host, Counts>>

(* fail_phase; a changed source then ends the process, and so does a row     *)
(* that is no longer its own.                                                 *)
Fail(c) ==
    /\ proc[c].pc = "fail"
    /\ IF Owns(Ph(c), proc[c].att)
       THEN /\ FailPhase(Ph(c), proc[c].att)
            /\ proc' = [proc EXCEPT ![c] = IF proc[c].out = "changed" THEN Crashed(@) ELSE After(@)]
       ELSE /\ proc' = [proc EXCEPT ![c] = Crashed(@)]
            /\ UNCHANGED stateVars
    /\ UNCHANGED <<source, Host, Counts>>

-----------------------------------------------------------------------------
(* Between the phases                                                         *)

(* _reboot_if_needed: the note first, then the reboot, which may be refused. *)
RebootCheck(c) ==
    /\ proc[c].pc = "reboot"
    /\ IF required
       THEN /\ pending' = TRUE
            /\ Step(c, "rebooting")
       ELSE /\ UNCHANGED pending
            /\ Step(c, "inputs")
    /\ UNCHANGED <<stateVars, source, webhook, required, Counts>>

Reboot(c) ==
    /\ proc[c].pc = "rebooting"
    /\ Step(c, "inputs") \/ Step(c, "done")
    /\ UNCHANGED <<stateVars, source, pending, webhook, required, Counts>>

(* _restart_after_fixes replaces the process; the new one insists on exact   *)
(* rows of P0 and P7b and goes on after P7b.                                 *)
Exact(p) == row[p] # NoRow /\ row[p].status = "succeeded" /\ row[p].hash = file[p]

Reload(c) ==
    /\ proc[c].pc = "reload"
    /\ proc' = [proc EXCEPT ![c] = [Clear(@) EXCEPT !.pc = "handoff", !.code = source, !.resume = TRUE, !.reload = FALSE]]
    /\ UNCHANGED <<stateVars, source, Host, Counts>>

Handoff(c) ==
    /\ proc[c].pc = "handoff"
    /\ proc' = [proc EXCEPT ![c] = IF Exact("setup") /\ Exact("fixes")
                                   THEN [@ EXCEPT !.pc = "inputs", !.stopped = file["setup"].val = 2]
                                   ELSE Crashed(@)]
    /\ UNCHANGED <<stateVars, source, Host, Counts>>

(* _finish_after_fixes ends: the webhook is started if P0 stopped it, and    *)
(* the exit code says whether a phase is failed.                              *)
Finish(c) ==
    /\ proc[c].pc = "end"
    /\ webhook' = (webhook \/ proc[c].stopped)
    /\ Step(c, IF \E p \in Phase : row[p] # NoRow /\ row[p].status = "failed" THEN "failed" ELSE "done")
    /\ UNCHANGED <<stateVars, source, pending, required, Counts>>

-----------------------------------------------------------------------------
(* The units                                                                  *)

Started(resume) == [Off EXCEPT !.pc = "inputs", !.at = 1, !.code = source, !.resume = resume]

StartUnit(c) ==
    /\ ~Running(c) /\ launches < MaxLaunches
    /\ launches' = launches + 1
    /\ proc' = [proc EXCEPT ![c] = Started(c = Resume)]
    /\ overlap' = (overlap \/ \E d \in Client \ {c} : Running(d))
    /\ UNCHANGED <<stateVars, source, pending, webhook, required, boots>>

StartMain == StartUnit(Main) /\ UNCHANGED due

(* steward-resume.sh, once in each boot: a note, and a host that has not     *)
(* been up for long ...                                                       *)
StartResume == due /\ pending /\ StartUnit(Resume) /\ due' = FALSE

(* ... or no note, or one that is dropped.                                    *)
StaleNote ==
    /\ due /\ ~Running(Resume)
    /\ pending' = FALSE /\ due' = FALSE
    /\ UNCHANGED <<stateVars, proc, source, webhook, required, launches, boots, overlap>>

(* The script drops the note after a run that exited with 0.                 *)
DropNote ==
    /\ proc[Resume].pc = "done"
    /\ pending' = FALSE
    /\ Step(Resume, "post")
    /\ UNCHANGED <<stateVars, source, webhook, required, Counts>>

(* Mutant: the condition is inverted. *)
RestartsWebhookSwapped(c) == c = Main \/ Running(Main)

(* ExecStopPost: the resuming unit leaves the webhook to a nightly unit that *)
(* is running.                                                                *)
RestartsWebhook(c) == c = Main \/ ~Running(Main)

StopPost(c) ==
    /\ proc[c].pc \in (IF c = Main THEN {"done"} ELSE {"post"}) \cup {"failed", "crashed"}
    /\ webhook' = (webhook \/ RestartsWebhook(c))
    /\ proc' = [proc EXCEPT ![c] = Off]
    /\ UNCHANGED <<stateVars, source, pending, required, Counts>>

Ending == {"done", "post", "failed", "crashed"}

Kill(c) ==
    /\ Running(c) /\ proc[c].pc \notin Ending
    /\ proc' = [proc EXCEPT ![c] = Crashed(@)]
    /\ UNCHANGED <<stateVars, source, Host, Counts>>

(* The host goes down, asked to or not, and comes back with its units' own   *)
(* defaults.                                                                  *)
Boot ==
    /\ boots < MaxReboots
    /\ boots' = boots + 1
    /\ proc' = [c \in Client |-> Off]
    /\ webhook' = TRUE /\ required' = FALSE /\ due' = TRUE
    /\ UNCHANGED <<stateVars, source, pending, launches, overlap>>

EditSource ==
    /\ source.soft + source.hard < MaxEdits
    /\ \/ source' = [source EXCEPT !.soft = @ + 1]
       \/ source' = [source EXCEPT !.hard = @ + 1]
    /\ UNCHANGED <<stateVars, proc, Host, Counts>>

PhaseStep(c) ==
    \/ PhaseInputs(c) \/ Skip(c) \/ Enter(c) \/ Begin(c) \/ CheckProgress(c) \/ Persist(c)
    \/ Operate(c) \/ Conclude(c) \/ CompleteFile(c) \/ CompleteRefused(c) \/ Fail(c)

RunNext ==
    \/ \E c \in Client : \/ PhaseStep(c) \/ RebootCheck(c) \/ Reboot(c) \/ Reload(c) \/ Handoff(c)
                          \/ Finish(c) \/ StopPost(c) \/ Kill(c)
    \/ StartMain \/ StartResume \/ StaleNote \/ DropNote \/ Boot \/ EditSource

RunSpec == RunInit /\ [][RunNext]_runVars

-----------------------------------------------------------------------------
Kinds == {"own", "data", "progress", "failure", "skipped", "empty"}
Contents == {NoFile} \cup [kind : Kinds, val : Nat]
Source == [soft : Nat, hard : Nat]
Inputs(p) == [code : Source, up : [Upstream(p) -> Contents]]
Rows(p) == [status : PhaseStatus, attempt : Nat \ {0}, inputs : Inputs(p), hash : Contents \cup {NoHash}]

ASSUME RunNullsAssumption == NoClient \notin Client /\ \A p \in Phase : NoRow \notin Rows(p)

AtWork == {"enter", "begin", "operate", "persist", "after", "complete", "fail"}
Operating == AtWork \ {"enter", "begin"}
AtPhase == AtWork \cup {"inputs", "reboot", "rebooting", "reload", "handoff"}
Process(p) == [pc : AtPhase \cup Ending \cup {"off", "end"}, at : 0..(Len(Order) + 1), code : Source,
               resume : BOOLEAN, reload : BOOLEAN, stopped : BOOLEAN,
               inputs : {NoRow} \cup Inputs(p), before : Contents, att : Nat,
               out : Outcomes \cup {"none", "changed"}, val : 0..2]

(* The type invariant of the nightly runs.                                    *)
RunTypeOK ==
    /\ file \in [Phase -> Contents] /\ lock = NoClient
    /\ row = [p \in Phase |-> row[p]] /\ \A p \in Phase : row[p] \in {NoRow} \cup Rows(p)
    /\ proc = [c \in Client |-> proc[c]] /\ source \in Source
    /\ \A c \in Client :
         /\ \E p \in Phase : proc[c] \in Process(p)
         /\ proc[c].pc \in AtPhase => proc[c].at \in 1..Len(Order)
         /\ proc[c].pc \in AtWork => proc[c].inputs \in Inputs(Ph(c))
         /\ proc[c].pc \in Operating => proc[c].att # 0
    /\ {pending, webhook, required, due, overlap} \subseteq BOOLEAN

(* What holds of a process that has had the run directory to itself:        *)
(* the row of the phase that it operates is its own attempt's, and was       *)
(* given what is there now;                                                   *)
Owned(c) == proc[c].pc \in Operating => Owns(Ph(c), proc[c].att) /\ row[Ph(c)].inputs = proc[c].inputs

Given(c) == proc[c].pc \in AtWork =>
    proc[c].inputs.code = proc[c].code /\ \A q \in Upstream(Ph(c)) : proc[c].inputs.up[q] = file[q]

(* each phase behind it is decided, by this process or an earlier one, on     *)
(* the artifacts that are there now;                                          *)
Behind(c) == proc[c].pc \notin {"off", "crashed"} => \A i \in 1..(proc[c].at - 1) :
    LET p == Order[i] IN
    /\ row[p] # NoRow /\ row[p].status \in {"succeeded", "failed"}
    /\ \A q \in Upstream(p) : row[p].inputs.up[q] = file[q]

(* all of them under its own source, or those up to P7b under P0's;           *)
OneSource(c) == proc[c].pc \notin {"off", "crashed"} =>
    \/ \A i \in 1..(proc[c].at - 1) : row[Order[i]].inputs.code = proc[c].code
    \/ \E n \in 1..(proc[c].at - 1) :
         /\ Order[n] = "fixes"
         /\ \A i \in 1..(proc[c].at - 1) :
              row[Order[i]].inputs.code = IF i <= n THEN row["setup"].inputs.code ELSE proc[c].code

(* and it reloads only behind P7b, and is done only with nothing failed.       *)
Ends(c) ==
    /\ proc[c].pc \in {"reload", "handoff"} => proc[c].at > 1 /\ Order[proc[c].at - 1] = "fixes"
    /\ proc[c].pc \in {"end", "done"} => proc[c].at > 0
    /\ proc[c].pc = "done" /\ proc[c].at > Len(Order) => \A p \in Phase : row[p] = NoRow \/ row[p].status # "failed"

Undisturbed ==
    ~overlap =>
        /\ RowMatchesFile
        /\ \A c, d \in Client : Running(c) /\ Running(d) => c = d
        /\ \A c \in Client : Owned(c) /\ Given(c) /\ Behind(c) /\ OneSource(c) /\ Ends(c)

(* The artifacts are written outside the transaction that vouches for them;  *)
(* still, a succeeded row has the hash of what is on disk as long as no two  *)
(* processes have been in the directory at once, whatever is killed, failed, *)
(* resumed or reloaded in between.                                           *)
ArtifactsVouched == overlap \/ RowMatchesFile

(* A run that ends with exit code 0 is one run: every phase succeeded under  *)
(* the source of the process that ends it -- or, up to P7b, under the source *)
(* that P7b replaced -- and was given the artifacts that are there now.      *)
Whole(c) ==
    \E before \in {proc[c].code} \cup {row[p].inputs.code : p \in {"setup"}} :
        \A p \in Phase :
            /\ row[p].status = "succeeded"
            /\ row[p].inputs.code = IF "fixes" \in Phase /\ Position(p) <= Position("fixes") THEN before ELSE proc[c].code
            /\ \A q \in Upstream(p) : row[p].inputs.up[q] = file[q]

OneRun ==
    \A c \in Client :
        (~overlap /\ proc[c].pc = "done" /\ proc[c].at > Len(Order)) => Whole(c)

(* Together: what the rows vouch for is on disk, and is one run.              *)
RunVouched == ArtifactsVouched /\ OneRun

(* Whatever ends a run, and whichever unit ran P0, Dependabot's webhook is   *)
(* active again once no unit runs.                                           *)
WebhookBack == (\A c \in Client : ~Running(c)) => webhook
=============================================================================
