---------------------------- MODULE PinnedUpdates ----------------------------
(***************************************************************************)
(* The smaller update transactions of steward/updates.py: the container    *)
(* pins of FreshRSS and SearXNG, and the omp binary with its snapshots.    *)
(* Each is one night's sequence of steps; the steward may be killed        *)
(* between any two of them, and runs again the next night.                 *)
(*                                                                         *)
(* A release is a number; it is published some night, and some releases    *)
(* do not work.                                                             *)
(***************************************************************************)
EXTENDS Naturals, FiniteSets, FiniteSetsExt

CONSTANTS
    Releases,       \* bound: releases 1..Releases; the first is installed
    MinAge,         \* nights a SearXNG release soaks
    MaxPinNights,   \* bound: nights
    MaxMishaps      \* bound: mishaps

ASSUME PinnedAssumption ==
    /\ Releases \in Nat \ {0} /\ MinAge \in Nat /\ MaxPinNights \in Nat \ {0}
    /\ MaxMishaps \in Nat

Release == 1..Releases
Unit == {"freshrss", "searxng"}
OMP_ROLLBACK_KEEP == 2

VARIABLES
    pins, boxes,        \* per unit: the pinned release; what the container runs and whether it is healthy
    published,          \* the night a release appeared; 0: not yet
    omp, shelf,         \* the omp binary, and the snapshots by release, newest last
    job, at, want,      \* what the steward does, its step, and the target in memory
    was,                \* what it read before it changed anything
    verdict,            \* the packet of the last step of each unit and of omp
    pinNight,
    mishaps,            \* transactions killed, and snapshots that could not be put back
    tainted             \* units left by a killed transaction

pinVars == <<pins, boxes, published, omp, shelf, job, at, want, was, verdict, pinNight, mishaps, tainted>>

(* omp: the release of the file, and whether it starts.                      *)
File(r, works) == [release |-> r, works |-> works]

PinInit ==
    /\ pins = [u \in Unit |-> 1]
    /\ boxes = [u \in Unit |-> [release |-> 1, healthy |-> TRUE]]
    /\ published = [r \in Release |-> IF r = 1 THEN 1 ELSE 0]
    /\ omp = File(1, TRUE) /\ shelf = {}
    /\ job = "none" /\ at = "idle" /\ want = 0 /\ was = 0
    /\ verdict = [u \in Unit \cup {"omp"} |-> "none"]
    /\ pinNight = 1 /\ mishaps = 0 /\ tainted = {}

Ends(v) == verdict' = [verdict EXCEPT ![job] = v] /\ job' = "none" /\ at' = "idle" /\ want' = 0 /\ was' = 0
Goes(s) == at' = s /\ UNCHANGED <<job, want, was, verdict>>
Calendar == <<published, pinNight, mishaps>>
Binary == <<omp, shelf>>
Containers == <<pins, boxes>>

Publish(r) ==
    /\ job = "none" /\ published[r] = 0 /\ \A q \in Release : q < r => published[q] # 0
    /\ published' = [published EXCEPT ![r] = pinNight]
    /\ UNCHANGED <<Containers, Binary, job, at, want, was, verdict, pinNight, mishaps, tainted>>

NextPinNight ==
    /\ job = "none" /\ pinNight < MaxPinNights
    /\ pinNight' = pinNight + 1
    /\ verdict' = [u \in Unit \cup {"omp"} |-> "none"]
    /\ UNCHANGED <<Containers, Binary, published, job, at, want, was, mishaps, tainted>>

-----------------------------------------------------------------------------
(* Containers                                                                *)

(* _release_is_mature *)
Mature(r) == pinNight - published[r] >= MinAge

(* The release an update compares with: FreshRSS reads the pin, SearXNG the  *)
(* label of the running container.                                            *)
Current(u) == IF u = "searxng" THEN boxes[u].release ELSE pins[u]

EligibleUnsoaked(u) == {r \in Release : published[r] # 0 /\ r > Current(u)}

(* _select_freshrss_tag, _select_mature_searxng_tag                          *)
Eligible(u) == {r \in Release : published[r] # 0 /\ r > Current(u) /\ (u = "searxng" => Mature(r))}

BeginPin(u) ==
    /\ job = "none" /\ verdict[u] = "none" /\ (u = "searxng" => verdict["freshrss"] # "none")
    /\ IF Eligible(u) = {} \/ (u = "searxng" /\ Max(Eligible(u)) = pins[u])
       THEN verdict' = [verdict EXCEPT ![u] = "current"] /\ UNCHANGED <<job, at, want, was>>
       ELSE job' = u /\ at' = "pull" /\ want' = Max(Eligible(u)) /\ was' = pins[u] /\ UNCHANGED verdict
    /\ UNCHANGED <<Containers, Binary, Calendar, tainted>>

(* _docker_pull: FreshRSS reports a failure and touches nothing; SearXNG     *)
(* puts the old pin back and starts it, although neither changed.             *)
Pull ==
    /\ job \in Unit /\ at = "pull"
    /\ \/ Goes("write")
       \/ IF job = "freshrss" THEN \E v \in {"warning", "failed"} : Ends(v) ELSE Goes("unwrite")
    /\ UNCHANGED <<Containers, Binary, Calendar, tainted>>

WriteTarget ==
    /\ job \in Unit /\ at = "write"
    /\ pins' = [pins EXCEPT ![job] = want]
    /\ Goes("up")
    /\ UNCHANGED <<boxes, Binary, Calendar, tainted>>

(* The start may fail before or after it replaced the container; a started   *)
(* one is healthy or not.                                                     *)
Starts(u) == boxes' \in {boxes} \cup {[boxes EXCEPT ![u] = [release |-> pins[u], healthy |-> h]] : h \in BOOLEAN}
Served(u) == boxes'[u] = [release |-> pins[u], healthy |-> TRUE]

StartTarget ==
    /\ job \in Unit /\ at = "up"
    /\ Starts(job)
    /\ \/ Served(job) /\ Ends("ok") /\ tainted' = tainted \ {job}
       \/ Goes("unwrite") /\ UNCHANGED tainted
    /\ UNCHANGED <<pins, Binary, Calendar>>

RestorePin ==
    /\ job \in Unit /\ at = "unwrite"
    /\ pins' = [pins EXCEPT ![job] = was]
    /\ Goes("reup")
    /\ UNCHANGED <<boxes, Binary, Calendar, tainted>>

StartRestored ==
    /\ job \in Unit /\ at = "reup"
    /\ Starts(job)
    /\ \/ Served(job) /\ Ends("reverted") /\ tainted' = tainted \ {job}
       \/ Ends("failed") /\ tainted' = tainted \cup {job}
    /\ UNCHANGED <<pins, Binary, Calendar>>

-----------------------------------------------------------------------------
(* omp                                                                       *)

ShelveOne(file) == {[file |-> file, age |-> 1]}

(* _omp_snapshot: keyed by release, the newest OMP_ROLLBACK_KEEP are kept.   *)
Shelve(file) ==
    LET others == {s \in shelf : s.file.release # file.release}
        age == IF shelf = {} THEN 1 ELSE Max({s.age : s \in shelf}) + 1
        all == others \cup {[file |-> file, age |-> age]}
    IN {s \in all : Cardinality({t \in all : t.age > s.age}) < OMP_ROLLBACK_KEEP}

(* A binary that does not start reports no version: nothing is begun.        *)
BeginOmp ==
    /\ job = "none" /\ verdict["omp"] = "none" /\ verdict["searxng"] # "none"
    /\ \/ /\ ~omp.works /\ verdict' = [verdict EXCEPT !["omp"] = "failed"] /\ UNCHANGED <<shelf, job, at, want, was>>
       \/ /\ shelf' = Shelve(omp)
          /\ job' = "omp" /\ at' = "update" /\ want' = 0 /\ was' = omp.release /\ UNCHANGED verdict
    /\ UNCHANGED <<Containers, omp, Calendar, tainted>>

(* `omp update' replaces the binary with a published release, or fails.      *)
OmpUpdate ==
    /\ job = "omp" /\ at = "update"
    /\ \/ UNCHANGED omp
       \/ \E r \in Release, works \in BOOLEAN :
            published[r] # 0 /\ r > omp.release /\ omp' = File(r, works)
    /\ Goes("smoke")
    /\ UNCHANGED <<Containers, shelf, Calendar, tainted>>

OmpSmokeVersionOnly ==
    /\ job = "omp" /\ at = "smoke"
    /\ \/ omp.release # was /\ Ends("ok")
       \/ omp.release = was /\ Ends("current")
    /\ UNCHANGED <<Containers, Binary, Calendar, tainted>>

(* The smoke test; a good binary that the updater left with an error is       *)
(* restored too.                                                               *)
OmpSmoke ==
    /\ job = "omp" /\ at = "smoke"
    /\ \/ omp.works /\ omp.release # was /\ Ends("ok")
       \/ omp.works /\ omp.release = was /\ Ends("current")
       \/ (~omp.works \/ omp.release = was) /\ Goes("restore")
    /\ UNCHANGED <<Containers, Binary, Calendar, tainted>>

(* _omp_restore, then the version and the smoke test again.                  *)
OmpRestore ==
    /\ job = "omp" /\ at = "restore"
    /\ \/ \E s \in shelf : s.file.release = was /\ omp' = s.file
       \/ UNCHANGED omp
    /\ mishaps' = IF omp' = omp THEN mishaps + 1 ELSE mishaps
    /\ IF omp'.release = was /\ omp'.works THEN Ends("reverted") ELSE Ends("failed")
    /\ UNCHANGED <<Containers, shelf, published, pinNight, tainted>>

PinKilled ==
    /\ job # "none" /\ mishaps < MaxMishaps
    /\ mishaps' = mishaps + 1
    /\ tainted' = tainted \cup {job}
    /\ verdict' = [verdict EXCEPT ![job] = "started"]
    /\ job' = "none" /\ at' = "idle" /\ want' = 0 /\ was' = 0
    /\ UNCHANGED <<Containers, Binary, published, pinNight>>

PinNext ==
    \/ \E r \in Release : Publish(r)
    \/ \E u \in Unit : BeginPin(u)
    \/ NextPinNight \/ Pull \/ WriteTarget \/ StartTarget \/ RestorePin \/ StartRestored
    \/ BeginOmp \/ OmpUpdate \/ OmpSmoke \/ OmpRestore \/ PinKilled

PinSpec == PinInit /\ [][PinNext]_pinVars

-----------------------------------------------------------------------------
(* The type invariant of the pins and the runtime's shelf.                    *)
PinTypeOK ==
    /\ pins \in [Unit -> Release] /\ boxes \in [Unit -> [release : Release, healthy : BOOLEAN]]
    /\ published \in [Release -> 0..MaxPinNights] /\ pinNight \in 1..MaxPinNights /\ mishaps \in Nat
    /\ omp \in [release : Release, works : BOOLEAN]
    /\ shelf \subseteq [file : [release : Release, works : BOOLEAN], age : Nat]
    /\ IsFiniteSet(shelf) /\ Cardinality(shelf) <= OMP_ROLLBACK_KEEP
    /\ job \in Unit \cup {"none", "omp"} /\ want \in {0} \cup Release /\ was \in {0} \cup Release
    /\ at \in {"idle", "pull", "write", "up", "unwrite", "reup", "update", "smoke", "restore"}
    /\ verdict \in [Unit \cup {"omp"} -> {"none", "started", "current", "ok", "reverted", "warning", "failed"}]
    /\ tainted \subseteq Unit \cup {"omp"}

(* What an update holds in memory was published, and soaked when SearXNG is  *)
(* to run it; a unit that no killed or failed update left behind runs its     *)
(* pin until the pin is rewritten.                                             *)
PinSound ==
    /\ job = "none" <=> at = "idle"
    /\ job = "omp" <=> at \in {"update", "smoke", "restore"}
    /\ \A u \in Unit : published[pins[u]] # 0
    /\ job \in Unit => \A r \in {want, was} : r # 0 /\ published[r] # 0 /\ (job = "searxng" => Mature(r) \/ r = 1)
    /\ \A u \in Unit \ tainted :
         job # u \/ at \in {"pull", "write"} => boxes[u] = [release |-> pins[u], healthy |-> TRUE]

(* Snapshots are of releases up to the one the binary, or the update under   *)
(* way, began from.  Until a second mishap that one works, or those that do   *)
(* not are all of it and another on the shelf works.                           *)
ShelfSound ==
    LET began == IF job = "omp" THEN was ELSE omp.release
        Good(s) == s.file.works
    IN /\ \A s, t \in shelf : s.age = t.age \/ s.file.release = t.file.release => s = t
       /\ began <= omp.release
       /\ \A s \in shelf : s.file.release <= began /\ (s.file.release = omp.release => s.file = omp)
       /\ job = "omp" => \E s \in shelf : s.file.release = was
       /\ mishaps = 0 => (\A s \in shelf : Good(s)) /\ (job # "omp" => omp.works)
       /\ mishaps < 2 =>
            \/ IF job = "omp" THEN \E s \in shelf : s.file.release = was /\ Good(s) ELSE omp.works
            \/ (\E s \in shelf : Good(s)) /\ \A s \in shelf : Good(s) \/ s.file.release = began

(* A unit whose last transaction was neither killed nor `failed' runs what   *)
(* its compose file pins: a failed start or probe leaves the two together.    *)
PinIsRun ==
    \A u \in Unit :
        (job # u /\ u \notin tainted /\ verdict[u] \in {"ok", "reverted", "current", "warning"})
            => boxes[u] = [release |-> pins[u], healthy |-> TRUE]

(* _select_mature_searxng_tag: SearXNG is never pinned to a release that has *)
(* not soaked, whatever was interrupted, rolled back or published meanwhile.  *)
SoakRespected == Mature(pins["searxng"]) \/ pins["searxng"] = 1

(* A working omp is always at hand, as the binary or as a snapshot, unless   *)
(* two transactions were killed or could not restore it: the steward's own    *)
(* agents run on it.  And what is not said to have failed is a binary that    *)
(* works.                                                                      *)
OmpAtHand ==
    /\ mishaps > 1 \/ omp.works \/ \E s \in shelf : s.file.works
    /\ (job # "omp" /\ verdict["omp"] \in {"ok", "current", "reverted"}) => omp.works
=============================================================================
