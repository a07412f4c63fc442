--------------------------- MODULE DeployLockSpec ---------------------------
(***************************************************************************)
(* What scripts/deploy_lock.py promises its callers, without lock files,   *)
(* registries or file descriptors: a readers/writer lock per key whose     *)
(* holders are processes.  Threads of one process share a key in one mode; *)
(* threads of different processes exclude each other unless both are       *)
(* readers; a process that dies holds nothing.                             *)
(***************************************************************************)
CONSTANTS
  Thread,      \* threads that take deploy locks
  Process,     \* operating system processes
  ProcOf,      \* the process of each thread
  Key          \* lock keys: "host" and one per surface

VARIABLE hold  \* hold[t][k]: how thread t holds k

Mode == {"shared", "exclusive"}

Init == hold = [t \in Thread |-> [k \in Key |-> "none"]]

(* t may join u's use of k in mode m.                                      *)
Allowed(t, u, k, m) ==
  \/ hold[u][k] = "none"
  \/ ProcOf[u] = ProcOf[t] /\ hold[u][k] = m
  \/ ProcOf[u] # ProcOf[t] /\ hold[u][k] = "shared" /\ m = "shared"

Acquire(t, k, m) ==
  /\ hold[t][k] = "none"
  /\ \A u \in Thread \ {t} : Allowed(t, u, k, m)
  /\ hold' = [hold EXCEPT ![t][k] = m]

Release(t, k) ==
  /\ hold[t][k] # "none"
  /\ hold' = [hold EXCEPT ![t][k] = "none"]

Die(p) ==
  hold' = [t \in Thread |->
             IF ProcOf[t] = p THEN [k \in Key |-> "none"] ELSE hold[t]]

Next ==
  \/ \E t \in Thread, k \in Key, m \in Mode : Acquire(t, k, m)
  \/ \E t \in Thread, k \in Key : Release(t, k)
  \/ \E p \in Process : Die(p)

Spec == Init /\ [][Next]_hold
=============================================================================
