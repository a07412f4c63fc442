------------------------------ MODULE ApplyPhase ------------------------------
(***************************************************************************)
(* Phase 1 of the steward, steward/updates.py phase_1_apply: its steps in  *)
(* their order, each checkpointed before it begins and when it ends, the   *)
(* stop boundary after apt and the packages, the steps that depend on what *)
(* earlier ones did, the verdict of the phase, and the clean-up of Docker  *)
(* images and build cache at its end.  The process may die in any step.    *)
(***************************************************************************)
EXTENDS Naturals, FiniteSets, Sequences, SequencesExt

CONSTANTS
    P1Steps,        \* the steps of the instance
    CacheRecords    \* build cache records: 1..CacheRecords

(* phase_1_apply *)
AllSteps == <<"gamingrig_maintenance", "omp_db_repair", "apt_upgrade", "auto_docker", "auto_cloudflared",
              "docker_settle", "docker_daemon_assert", "cloudflared_restart", "freshrss", "openwebui_update",
              "herdr_update", "searxng", "llama_cpp", "omp_update", "dependabot_merge", "app_deploy",
              "toolchain", "docker_cleanup">>

ASSUME ApplyAssumption == P1Steps \subseteq ToSet(AllSteps) /\ CacheRecords \in Nat

Failure == {"failed", "timeout", "started"}
Degraded == {"reverted", "rolled_back", "warning", "degraded"}

(* What a step's packet may say, its nested substeps counted in.             *)
Outcomes(s) ==
    CASE s = "freshrss"                        -> {"bumped", "skipped", "reverted", "warning", "failed", "timeout"}
      [] s \in {"searxng", "omp_update", "llama_cpp", "gamingrig_maintenance"} -> {"ok", "skipped", "reverted", "failed", "timeout"}
      [] s \in {"openwebui_update", "app_deploy"} -> {"ok", "skipped", "rolled_back", "failed", "timeout"}
      [] s \in {"dependabot_merge", "docker_cleanup"} -> {"ok", "skipped", "warning", "failed", "timeout"}
      [] OTHER                                 -> {"ok", "skipped", "failed", "timeout"}

VARIABLES
    idx,        \* the step under way, or the next one
    rows,       \* the packets in memory, by step
    artifact,   \* 01-applied.json
    touched,    \* steps that changed the host in this attempt
    dockerHit,  \* apt restarted docker
    p1,         \* what the process does
    images,     \* images on the host: tags of superseded pins, and dangling ones
    inUse,      \* images a container uses
    seenInUse,  \* what the clean-up read of it
    preImage,   \* steps whose superseded image is on the host
    attempts

applyVars == <<idx, rows, artifact, touched, dockerHit, p1, images, inUse, seenInUse, preImage, attempts>>

(* The positions of the steps, and the one after position i.                 *)
Here == {i \in 1..Len(AllSteps) : AllSteps[i] \in P1Steps}
Past == Len(AllSteps) + 1
After(i) == LET later == {j \in Here : j > i} IN IF later = {} THEN Past ELSE Min(later)

Absent == [s \in P1Steps |-> "absent"]
Superseding == P1Steps \cap {"freshrss", "openwebui_update", "searxng"}
Image == Superseding \cup {"dangling"}
Packages == P1Steps \cap {"auto_docker", "auto_cloudflared"}

ApplyInit ==
    /\ idx = 0 /\ rows = Absent
    /\ artifact = [rows |-> Absent, verdict |-> "none"]
    /\ touched = {} /\ dockerHit = FALSE /\ p1 = "off"
    /\ images \in SUBSET Image /\ inUse \in SUBSET images
    /\ seenInUse = {} /\ preImage = {} /\ attempts = 0

Now == AllSteps[idx]
Docker == <<images, inUse, seenInUse, preImage>>
Save(r, v) == artifact' = [rows |-> r, verdict |-> v]

(* Any prior attempt's artifact is replaced first.                           *)
StartApply ==
    /\ p1 = "off" /\ attempts < 2
    /\ attempts' = attempts + 1
    /\ idx' = After(0) /\ rows' = Absent /\ Save(Absent, "none")
    /\ touched' = {} /\ dockerHit' = FALSE /\ p1' = "next"
    /\ seenInUse' = {} /\ preImage' = {}
    /\ UNCHANGED <<images, inUse>>

(* Steps that run only when an earlier one gave a reason.                    *)
Wanted(s) ==
    CASE s \in {"docker_settle", "docker_daemon_assert"} ->
             dockerHit \/ ("auto_docker" \in P1Steps /\ rows["auto_docker"] = "ok")
      [] s = "cloudflared_restart" -> "auto_cloudflared" \in P1Steps /\ rows["auto_cloudflared"] = "ok"
      [] OTHER -> TRUE

PassOver ==
    /\ p1 = "next" /\ idx \in Here /\ ~Wanted(Now)
    /\ idx' = After(idx)
    /\ UNCHANGED <<rows, artifact, touched, dockerHit, p1, Docker, attempts>>

StartStepUnsaved ==
    /\ p1 = "next" /\ idx \in Here /\ Wanted(Now)
    /\ rows' = [rows EXCEPT ![Now] = "started"]
    /\ UNCHANGED artifact
    /\ p1' = IF Now = "docker_cleanup" THEN "survey" ELSE "work"
    /\ UNCHANGED <<idx, touched, dockerHit, Docker, attempts>>

(* _p1_run_step: `started' is persisted before the operation.                *)
StartStep ==
    /\ p1 = "next" /\ idx \in Here /\ Wanted(Now)
    /\ rows' = [rows EXCEPT ![Now] = "started"]
    /\ Save(rows', "none")
    /\ p1' = IF Now = "docker_cleanup" THEN "survey" ELSE "work"
    /\ UNCHANGED <<idx, touched, dockerHit, Docker, attempts>>

(* The operation begins to change the host, under its deploy lock: without   *)
(* the lock it is skipped and changes nothing.                                *)
Work ==
    /\ p1 = "work" /\ Now \notin touched
    /\ touched' = touched \cup {Now}
    /\ dockerHit' \in {dockerHit, dockerHit \/ Now = "apt_upgrade"}
    /\ UNCHANGED <<idx, rows, artifact, p1, Docker, attempts>>

(* The stop boundary: a failed apt, or a failed package once all were tried. *)
Boundary(r) ==
    \/ Now = "apt_upgrade" /\ r[Now] \in Failure
    \/ Now \in Packages /\ Packages \cap {AllSteps[i] : i \in (idx + 1)..Len(AllSteps)} = {} /\ \E s \in Packages : r[s] \in Failure

(* Its outcome, or its exception, as a packet.  A pin that was replaced      *)
(* leaves its old image behind.                                               *)
EndStep ==
    /\ p1 = "work"
    /\ \E o \in Outcomes(Now) :
        /\ o \in {"ok", "bumped", "reverted", "rolled_back"} => Now \in touched
        /\ rows' = [rows EXCEPT ![Now] = o]
        /\ LET replaced == Now \in Superseding /\ o \in {"ok", "bumped"} IN
           /\ preImage' = IF replaced THEN preImage \cup {Now} ELSE preImage
           /\ images' = IF replaced THEN images \cup {Now} ELSE images
           /\ inUse' = IF replaced THEN inUse \ {Now} ELSE IF Now \in Superseding THEN inUse \cup ({Now} \cap images) ELSE inUse
        /\ Save(rows', "none")
        /\ IF Boundary(rows')
           THEN p1' = "finish" /\ UNCHANGED idx
           ELSE p1' = "next" /\ idx' = After(idx)
    /\ UNCHANGED <<touched, dockerHit, seenInUse, attempts>>

-----------------------------------------------------------------------------
(* _p1_docker_cleanup                                                        *)

Survey ==
    /\ p1 = "survey"
    /\ \/ seenInUse' = inUse /\ p1' = "remove" /\ UNCHANGED rows
       \/ p1' = "swept" /\ rows' = [rows EXCEPT !["docker_cleanup"] = "warning"] /\ UNCHANGED seenInUse
    /\ UNCHANGED <<idx, artifact, touched, dockerHit, images, inUse, preImage, attempts>>

(* Images superseded by this run's own `ok' steps, and dangling ones.        *)
Superseded == {s \in preImage : rows[s] \in {"ok", "bumped"}}

(* `docker image rm' refuses an image a container gained meanwhile.          *)
RemoveImages ==
    /\ p1 = "remove"
    /\ LET refused == ((Superseded \cup {"dangling"}) \cap images \cap inUse) \ seenInUse
           gone == ((Superseded \cup {"dangling"}) \cap images) \ (inUse \cup seenInUse)
       IN /\ images' = images \ gone
          /\ touched' = IF gone # {} THEN touched \cup {"docker_cleanup"} ELSE touched
          /\ rows' = [rows EXCEPT !["docker_cleanup"] = IF refused # {} THEN "warning" ELSE IF gone # {} THEN "ok" ELSE "skipped"]
    /\ p1' = "swept"
    /\ UNCHANGED <<idx, artifact, dockerHit, inUse, seenInUse, preImage, attempts>>

EndCleanup ==
    /\ p1 = "swept"
    /\ Save(rows, "none") /\ p1' = "next" /\ idx' = After(idx)
    /\ UNCHANGED <<rows, touched, dockerHit, Docker, attempts>>

UseImage(i) ==
    /\ i \in images \ inUse
    /\ inUse' = inUse \cup {i}
    /\ UNCHANGED <<idx, rows, artifact, touched, dockerHit, p1, images, seenInUse, preImage, attempts>>

-----------------------------------------------------------------------------
VerdictOfFailed(r) ==
    IF \E s \in P1Steps : r[s] = "failed" THEN "failed"
    ELSE IF \E s \in P1Steps : r[s] \in Degraded THEN "degraded" ELSE "succeeded"

(* _finish_p1 *)
Verdict(r) ==
    IF \E s \in P1Steps : r[s] \in Failure THEN "failed"
    ELSE IF \E s \in P1Steps : r[s] \in Degraded THEN "degraded" ELSE "succeeded"

FinishApply ==
    /\ p1 = "finish" \/ (p1 = "next" /\ idx = Past)
    /\ Save(rows, Verdict(rows))
    /\ p1' = "off"
    /\ UNCHANGED <<idx, rows, touched, dockerHit, Docker, attempts>>

ApplyDies ==
    /\ p1 # "off"
    /\ p1' = "off"
    /\ UNCHANGED <<idx, rows, artifact, touched, dockerHit, Docker, attempts>>

ApplyNext ==
    \/ StartApply \/ PassOver \/ StartStep \/ Work \/ EndStep \/ Survey \/ RemoveImages \/ EndCleanup
    \/ FinishApply \/ ApplyDies \/ \E i \in Image : UseImage(i)

ApplySpec == ApplyInit /\ [][ApplyNext]_applyVars

-----------------------------------------------------------------------------
(* _build_cache_prunable: a chain goes when nothing in it is in use or       *)
(* recent, every child before its parent.  A record has one parent, smaller  *)
(* than itself here, or none.                                                 *)
Record == 1..CacheRecords
Forest == {f \in [Record -> 0..CacheRecords] : \A r \in Record : f[r] < r}
Children(f, r) == {k \in Record : f[k] = r}

PrunableAlone(f, stale) == SetToSeq(stale)

(* What the visits of some records appended, in the order of the listing.     *)
Joined(visits) ==
    LET upto[n \in 0..CacheRecords] ==
            IF n = 0 THEN <<>>
            ELSE IF n \in DOMAIN visits THEN upto[n - 1] \o visits[n].order ELSE upto[n - 1]
    IN upto[CacheRecords]

(* The visit of r, after those of its children.                               *)
VisitRecord(r, kids, stale) ==
    LET goes == r \in stale /\ \A k \in DOMAIN kids : kids[k].prune
    IN [prune |-> goes, order |-> IF goes THEN Append(Joined(kids), r) ELSE Joined(kids)]

RecordVisits(f, stale) ==
    LET visit[r \in Record] == VisitRecord(r, [k \in Children(f, r) |-> visit[k]], stale) IN visit

Prunable(f, stale) == Joined([k \in Children(f, 0) |-> RecordVisits(f, stale)[k]])

(* The chain below r, r included: the records from which the parents lead to r. *)
Below(f, r) ==
    LET under[k \in 0..CacheRecords] == k = r \/ (k > 0 /\ under[f[k]])
    IN {k \in Record : under[k]}

-----------------------------------------------------------------------------
Said(s) == Outcomes(s) \cup {"absent", "started"}
Table == {t \in [P1Steps -> UNION {Said(s) : s \in P1Steps}] : \A s \in P1Steps : t[s] \in Said(s)}

(* The type invariant of the apply phase.                                     *)
ApplyTypeOK ==
    /\ idx \in {0, Past} \cup Here /\ p1 \in {"off", "next", "work", "survey", "remove", "swept", "finish"}
    /\ rows \in Table /\ artifact.rows \in Table
    /\ artifact.verdict \in {"none", "succeeded", "degraded", "failed"}
    /\ touched \subseteq P1Steps /\ dockerHit \in BOOLEAN /\ attempts \in Nat
    /\ images \subseteq Image /\ inUse \subseteq images /\ seenInUse \subseteq Image /\ preImage \subseteq Superseding

(* While the process lives the artifact is what it has in memory, but for the *)
(* clean-up that is ending; what it has not come to is untouched, and a        *)
(* failure at the stop boundary is not passed.                                 *)
PhaseSound ==
    /\ p1 \in {"next", "work", "survey", "remove", "swept", "finish"} => idx # 0
    /\ p1 \in {"work", "survey", "remove", "swept"} => idx \in Here
    /\ p1 \in {"survey", "remove", "swept"} => Now = "docker_cleanup"
    /\ p1 \in {"next", "work", "survey", "remove", "finish"} => artifact.rows = rows
    /\ p1 = "swept" => \A s \in P1Steps : IF s = Now THEN rows[s] # "absent" /\ artifact.rows[s] # "absent"
                                           ELSE artifact.rows[s] = rows[s]
    /\ p1 \in {"work", "survey", "remove"} => rows[Now] = "started"
    /\ \A k \in Here : k > idx \/ (k = idx /\ p1 = "next") => AllSteps[k] \notin touched /\ rows[AllSteps[k]] = "absent"
    /\ \A i \in Here : rows[AllSteps[i]] \in {"failed", "timeout"} =>
         /\ AllSteps[i] = "apt_upgrade" => i = idx
         /\ AllSteps[i] \in Packages => idx \in Here /\ AllSteps[idx] \in Packages

(* "checkpointing each substep atomically": wherever the process dies, every *)
(* step that changed the host is in the artifact, as started or with what     *)
(* became of it, and nothing after the stop boundary was touched.             *)
AppliedRecorded ==
    /\ \A s \in touched : artifact.rows[s] # "absent"
    /\ \A i, j \in Here :
         (i < j /\ AllSteps[i] \in {"apt_upgrade"} \cup Packages /\ rows[AllSteps[i]] \in {"failed", "timeout"}
            /\ AllSteps[j] \notin Packages)
             => AllSteps[j] \notin touched

(* A phase that says `succeeded' has no step that failed, was cut off, was    *)
(* put back or only warned.                                                    *)
VerdictTrue ==
    (artifact.verdict = "succeeded") => \A s \in P1Steps : artifact.rows[s] \in {"ok", "bumped", "skipped", "absent"}

(* The clean-up keeps every image a container uses, also one it gained after *)
(* the survey, and every image this run did not itself replace.               *)
ImagesKept ==
    [][\A i \in images \ images' : i \notin inUse /\ (i \in Superseding => artifact.rows[i] \in {"ok", "bumped"})]_applyVars

(* What is pruned of the build cache is exactly the records whose whole chain *)
(* below them is stale, children first.                                        *)
PruneWholeChains(f, stale) ==
    LET p == Prunable(f, stale) IN
    /\ ToSet(p) = {r \in Record : Below(f, r) \subseteq stale}
    /\ \A i, j \in 1..Len(p) : f[p[i]] = p[j] => i < j
=============================================================================
