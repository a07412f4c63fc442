----------------------------- MODULE DeployLock -----------------------------
(***************************************************************************)
(* scripts/deploy_lock.py: one flock per key under lock_dir(), and in each *)
(* process the registry _HELD that makes a key re-entrant.                 *)
(*                                                                         *)
(* A step of the model is a critical section of _GUARD, a system call on a *)
(* lock file, or thread-local work between two of those.  Two things are   *)
(* separate that the docstrings treat as one: _release deletes the         *)
(* registry entry under _GUARD and unlocks the file after leaving it, and  *)
(* service_lock takes the flock outside _GUARD and registers it later.     *)
(*                                                                         *)
(* kern is the kernel's view: the open file descriptions of the lock       *)
(* files and the flock each one carries.                                   *)
(***************************************************************************)
EXTENDS Naturals, FiniteSets

CONSTANTS
  Thread,      \* threads that take deploy locks
  Process,     \* operating system processes
  ProcOf,      \* the process of each thread
  Key,         \* lock keys
  Host,        \* HOST_KEY
  Fd,          \* file descriptions that can be open at once
  Calls,       \* the lock calls the program makes, a subset of Call
  NoCall, NoFd, NoEntry, Closed

Mode == {"shared", "exclusive"}

(***************************************************************************)
(* A call: service_lock(key, shared) in either mode, surface_lock(key), or *)
(* host_lock() -- which is service_lock(Host).  "bounded" is a timeout     *)
(* other than None.                                                        *)
(***************************************************************************)
Call == [kind : {"service", "surface"}, key : Key, mode : Mode,
         bounded : BOOLEAN]

ASSUME ThreadAssumption == IsFiniteSet(Thread) /\ ProcOf \in [Thread -> Process]
ASSUME KeyAssumption == Host \in Key
ASSUME CallAssumption ==
  /\ Calls \subseteq Call
  /\ \A c \in Calls : c.kind = "surface" => c.key # Host /\ c.mode = "exclusive"
  /\ NoCall \notin Calls
ASSUME NullAssumption ==
  /\ NoFd \notin Fd
  /\ NoEntry \notin [count : Nat, mode : Mode, fd : Fd]
  /\ Closed \notin [proc : Process, key : Key, lock : Mode \cup {"none"}]

VARIABLES
  pc,          \* where each thread is in service_lock / _release
  call,        \* the lock call it is making
  depth,       \* how many nested service_lock levels it is inside of
  fd,          \* the descriptor it has opened or is about to unlock
  held,        \* _HELD of each process: key -> [count, mode, fd]
  kern         \* the kernel's open file descriptions of lock files

vars == <<pc, call, depth, fd, held, kern>>

-----------------------------------------------------------------------------
(* The nesting of a call: surface_lock takes Host shared, then its key.    *)

Levels(c) == IF c.kind = "surface" THEN 2 ELSE 1

LevelKey(c, i) == IF c.kind = "surface" /\ i = 1 THEN Host ELSE c.key

LevelMode(c, i) == IF c.kind = "surface" /\ i = 1 THEN "shared" ELSE c.mode

NextKey(t) == LevelKey(call[t], depth[t] + 1)
NextMode(t) == LevelMode(call[t], depth[t] + 1)

(* The levels of k that thread t is inside of, and their mode.             *)
HoldsIn(t, k, m) ==
  \E i \in 1..depth[t] : LevelKey(call[t], i) = k /\ LevelMode(call[t], i) = m
Holds(t, k) == \E m \in Mode : HoldsIn(t, k, m)
Holders(p, k) == {t \in Thread : ProcOf[t] = p /\ Holds(t, k)}

(* open(2) takes a free description; which one never matters.              *)
FreeFd == CHOOSE f \in Fd : kern[f] = Closed

(* flock(2) grants mode m on description f unless another description of   *)
(* the same file, in any process, carries a conflicting lock.              *)
Grantable(f, m) ==
  \A g \in Fd \ {f} :
    (kern[g] # Closed /\ kern[g].key = kern[f].key) =>
      \/ kern[g].lock = "none"
      \/ kern[g].lock = "shared" /\ m = "shared"

-----------------------------------------------------------------------------
Init ==
  /\ pc = [t \in Thread |-> "idle"]
  /\ call = [t \in Thread |-> NoCall]
  /\ depth = [t \in Thread |-> 0]
  /\ fd = [t \in Thread |-> NoFd]
  /\ held = [p \in Process |-> [k \in Key |-> NoEntry]]
  /\ kern = [f \in Fd |-> Closed]

Begin(t, c) ==
  /\ pc[t] = "idle"
  /\ pc' = [pc EXCEPT ![t] = "enter"]
  /\ call' = [call EXCEPT ![t] = c]
  /\ UNCHANGED <<depth, fd, held, kern>>

(* Leaving a level, normally or with an exception: __exit__ of the level   *)
(* outside it runs next, and the outermost returns to the caller.          *)
LeaveTo(d) == IF d = 0 THEN "idle" ELSE "release"

Unwind(t, d) ==
  /\ pc' = [pc EXCEPT ![t] = LeaveTo(d)]
  /\ call' = IF d = 0 THEN [call EXCEPT ![t] = NoCall] ELSE call

(* A level is entered: the next one follows, or the caller's body.         *)
Entered(t) ==
  /\ depth' = [depth EXCEPT ![t] = @ + 1]
  /\ pc' = [pc EXCEPT ![t] = IF depth[t] + 1 < Levels(call[t])
                             THEN "enter" ELSE "body"]
  /\ UNCHANGED call

(* The first _GUARD section of service_lock: re-enter in the same mode,    *)
(* raise RuntimeError on the other mode, or open the lock file.            *)
Reenter(t) ==
  LET p == ProcOf[t]  k == NextKey(t) IN
  /\ pc[t] = "enter"
  /\ held[p][k] # NoEntry
  /\ held[p][k].mode = NextMode(t)
  /\ held' = [held EXCEPT ![p][k].count = @ + 1]
  /\ Entered(t)
  /\ UNCHANGED <<fd, kern>>

RefuseMode(t) ==
  LET e == held[ProcOf[t]][NextKey(t)] IN
  /\ pc[t] = "enter"
  /\ e # NoEntry
  /\ e.mode # NextMode(t)
  /\ Unwind(t, depth[t])
  /\ UNCHANGED <<depth, fd, held, kern>>

OpenFile(t) ==
  /\ pc[t] = "enter"
  /\ held[ProcOf[t]][NextKey(t)] = NoEntry
  /\ \E f \in Fd : kern[f] = Closed
  /\ kern' = [kern EXCEPT ![FreeFd] = [proc |-> ProcOf[t], key |-> NextKey(t),
                                       lock |-> "none"]]
  /\ fd' = [fd EXCEPT ![t] = FreeFd]
  /\ pc' = [pc EXCEPT ![t] = "flock"]
  /\ UNCHANGED <<call, depth, held>>

TakeFlockShared(t) ==
  /\ pc[t] = "flock"
  /\ Grantable(fd[t], "shared")
  /\ kern' = [kern EXCEPT ![fd[t]].lock = "shared"]
  /\ pc' = [pc EXCEPT ![t] = "register"]
  /\ UNCHANGED <<call, depth, fd, held>>

(* _acquire_fd: the flock is granted, or a bounded call gives up right     *)
(* after an attempt that failed; the descriptor is closed on the way out.  *)
TakeFlock(t) ==
  /\ pc[t] = "flock"
  /\ Grantable(fd[t], NextMode(t))
  /\ kern' = [kern EXCEPT ![fd[t]].lock = NextMode(t)]
  /\ pc' = [pc EXCEPT ![t] = "register"]
  /\ UNCHANGED <<call, depth, fd, held>>

TimeOutOutermost(t) ==
  /\ pc[t] = "flock"
  /\ call[t].bounded
  /\ depth[t] = 0
  /\ ~Grantable(fd[t], NextMode(t))
  /\ kern' = [kern EXCEPT ![fd[t]] = Closed]
  /\ fd' = [fd EXCEPT ![t] = NoFd]
  /\ Unwind(t, depth[t])
  /\ UNCHANGED <<depth, held>>

TimeOut(t) ==
  /\ pc[t] = "flock"
  /\ call[t].bounded
  /\ ~Grantable(fd[t], NextMode(t))
  /\ kern' = [kern EXCEPT ![fd[t]] = Closed]
  /\ fd' = [fd EXCEPT ![t] = NoFd]
  /\ Unwind(t, depth[t])
  /\ UNCHANGED <<depth, held>>

RegisterOverEntry(t) ==
  LET p == ProcOf[t]  k == NextKey(t) IN
  /\ pc[t] = "register"
  /\ held' = [held EXCEPT ![p][k] =
                [count |-> 1, mode |-> NextMode(t), fd |-> fd[t]]]
  /\ fd' = [fd EXCEPT ![t] = NoFd]
  /\ Entered(t)
  /\ UNCHANGED kern

FindEntryKeepFd(t) ==
  LET p == ProcOf[t]  k == NextKey(t)
      same == held[p][k].mode = NextMode(t) IN
  /\ pc[t] = "register"
  /\ held[p][k] # NoEntry
  /\ UNCHANGED kern
  /\ fd' = [fd EXCEPT ![t] = NoFd]
  /\ held' = IF same THEN [held EXCEPT ![p][k].count = @ + 1] ELSE held
  /\ IF same THEN Entered(t) ELSE Unwind(t, depth[t]) /\ UNCHANGED depth

(* The second _GUARD section: register the flock; or find the entry that   *)
(* another thread registered meanwhile, close the own fd, and join it, or  *)
(* raise RuntimeError if its mode differs.  Joining, the code closes the   *)
(* fd just after the section; until then it carries a share of the mode    *)
(* that the entry's own fd carries too, and so excludes nobody more.       *)
Register(t) ==
  LET p == ProcOf[t]  k == NextKey(t) IN
  /\ pc[t] = "register"
  /\ held[p][k] = NoEntry
  /\ held' = [held EXCEPT ![p][k] =
                [count |-> 1, mode |-> NextMode(t), fd |-> fd[t]]]
  /\ fd' = [fd EXCEPT ![t] = NoFd]
  /\ Entered(t)
  /\ UNCHANGED kern

FindEntry(t) ==
  LET p == ProcOf[t]  k == NextKey(t)
      same == held[p][k].mode = NextMode(t) IN
  /\ pc[t] = "register"
  /\ held[p][k] # NoEntry
  /\ kern' = [kern EXCEPT ![fd[t]] = Closed]
  /\ fd' = [fd EXCEPT ![t] = NoFd]
  /\ held' = IF same THEN [held EXCEPT ![p][k].count = @ + 1] ELSE held
  /\ IF same THEN Entered(t) ELSE Unwind(t, depth[t]) /\ UNCHANGED depth

(* The caller's body ends, with a value or an exception.                   *)
EndBody(t) ==
  /\ pc[t] = "body"
  /\ pc' = [pc EXCEPT ![t] = "release"]
  /\ UNCHANGED <<call, depth, fd, held, kern>>

ReleaseUncounted(t) ==
  LET p == ProcOf[t]  k == LevelKey(call[t], depth[t]) IN
  /\ pc[t] = "release"
  /\ held[p][k] # NoEntry
  /\ fd' = [fd EXCEPT ![t] = held[p][k].fd]
  /\ held' = [held EXCEPT ![p][k] = NoEntry]
  /\ depth' = [depth EXCEPT ![t] = @ - 1]
  /\ pc' = [pc EXCEPT ![t] = "unlock"]
  /\ UNCHANGED <<call, kern>>

(* _release: decrement under _GUARD; the last user deletes the entry and   *)
(* unlocks and closes the file after leaving _GUARD.                       *)
ReleaseShare(t) ==
  LET p == ProcOf[t]  k == LevelKey(call[t], depth[t]) IN
  /\ pc[t] = "release"
  /\ held[p][k] # NoEntry => held[p][k].count > 1
  /\ held' = IF held[p][k] = NoEntry THEN held
             ELSE [held EXCEPT ![p][k].count = @ - 1]
  /\ depth' = [depth EXCEPT ![t] = @ - 1]
  /\ Unwind(t, depth[t] - 1)
  /\ UNCHANGED <<fd, kern>>

ReleaseLast(t) ==
  LET p == ProcOf[t]  k == LevelKey(call[t], depth[t]) IN
  /\ pc[t] = "release"
  /\ held[p][k] # NoEntry
  /\ held[p][k].count = 1
  /\ fd' = [fd EXCEPT ![t] = held[p][k].fd]
  /\ held' = [held EXCEPT ![p][k] = NoEntry]
  /\ depth' = [depth EXCEPT ![t] = @ - 1]
  /\ pc' = [pc EXCEPT ![t] = "unlock"]
  /\ UNCHANGED <<call, kern>>

Unlock(t) ==
  /\ pc[t] = "unlock"
  /\ kern' = [kern EXCEPT ![fd[t]] = Closed]
  /\ fd' = [fd EXCEPT ![t] = NoFd]
  /\ Unwind(t, depth[t])
  /\ UNCHANGED <<depth, held>>

(* The process dies at any point (SIGKILL, systemd timeout, reboot): the   *)
(* kernel closes its descriptors, _HELD is gone, and a new process starts. *)
Die(p) ==
  LET mine(t) == ProcOf[t] = p IN
  /\ pc' = [t \in Thread |-> IF mine(t) THEN "idle" ELSE pc[t]]
  /\ call' = [t \in Thread |-> IF mine(t) THEN NoCall ELSE call[t]]
  /\ depth' = [t \in Thread |-> IF mine(t) THEN 0 ELSE depth[t]]
  /\ fd' = [t \in Thread |-> IF mine(t) THEN NoFd ELSE fd[t]]
  /\ held' = [held EXCEPT ![p] = [k \in Key |-> NoEntry]]
  /\ kern' = [f \in Fd |-> IF kern[f] # Closed /\ kern[f].proc = p
                           THEN Closed ELSE kern[f]]

Advance(t) ==
  \/ Reenter(t) \/ RefuseMode(t) \/ OpenFile(t)
  \/ TakeFlock(t) \/ TimeOut(t)
  \/ Register(t) \/ FindEntry(t)
  \/ EndBody(t)
  \/ ReleaseShare(t) \/ ReleaseLast(t) \/ Unlock(t)

Next ==
  \/ \E t \in Thread, c \in Calls : Begin(t, c)
  \/ \E t \in Thread : Advance(t)
  \/ \E p \in Process : Die(p)

Spec == Init /\ [][Next]_vars

(* A thread that can take a step eventually takes it: the scheduler runs   *)
(* every thread, bodies end (each is bounded by its own timeouts), and a   *)
(* polling attempt is repeated every POLL_SECONDS.                         *)
Fairness == \A t \in Thread : WF_vars(Advance(t))

FairSpec == Spec /\ Fairness

-----------------------------------------------------------------------------
(* Properties *)

Entry == [count : Nat \ {0}, mode : Mode, fd : Fd]
FileDesc == [proc : Process, key : Key, lock : Mode \cup {"none"}]

(* The type invariant of the registries, the kernel's table and the threads.  *)
TypeOK ==
  /\ pc \in [Thread -> {"idle", "enter", "flock", "register", "body",
                         "release", "unlock"}]
  /\ call \in [Thread -> Calls \cup {NoCall}]
  /\ depth \in [Thread -> 0..2]
  /\ fd \in [Thread -> Fd \cup {NoFd}]
  /\ held \in [Process -> [Key -> Entry \cup {NoEntry}]]
  /\ kern \in [Fd -> FileDesc \cup {Closed}]

(* Two processes are never inside the same key unless both are readers,    *)
(* whatever their threads are doing: the windows between flock and         *)
(* registration and between deletion and unlock let nobody in.             *)
ProcessExclusion ==
  \A t, u \in Thread, k \in Key :
    ProcOf[t] # ProcOf[u] /\ HoldsIn(t, k, "exclusive") => ~Holds(u, k)

(* A transaction under host_lock() runs alone among the surface_lock()     *)
(* transactions of the other processes.                                    *)
HostExcludesSurfaceLocks ==
  \A t, u \in Thread :
    /\ ProcOf[t] # ProcOf[u]
    /\ pc[t] = "body" /\ call[t].key = Host /\ call[t].mode = "exclusive"
    /\ pc[u] = "body"
    => call[u].kind # "surface"

(* What the module docstring says of host_lock(): it excludes every        *)
(* surface at once.  A transaction on a surface key that some other        *)
(* process runs under service_lock(key) alone is on a surface too.         *)
HostExcludesEverySurface ==
  \A t, u \in Thread :
    /\ ProcOf[t] # ProcOf[u]
    /\ pc[t] = "body" /\ call[t].key = Host /\ call[t].mode = "exclusive"
    => pc[u] # "body"

(* No thread is inside a key its process does not have registered, in the  *)
(* mode the thread asked for and with a count of exactly its users, so the *)
(* last one out -- and nobody sooner -- gives up the flock.                *)
Counted ==
  \A p \in Process, k \in Key :
    IF held[p][k] = NoEntry
    THEN Holders(p, k) = {}
    ELSE /\ held[p][k].count = Cardinality(Holders(p, k))
         /\ \A t \in Holders(p, k), m \in Mode :
              HoldsIn(t, k, m) => held[p][k].mode = m

(* Every registered entry is backed by an open description that carries    *)
(* the flock it claims.                                                    *)
Backed ==
  \A p \in Process, k \in Key :
    held[p][k] # NoEntry =>
      kern[held[p][k].fd] = [proc |-> p, key |-> k, lock |-> held[p][k].mode]

(* Every open description is in some thread's hand or registered: nothing  *)
(* leaks a descriptor, whose flock would outlive its user.                 *)
NoLeak ==
  \A f \in Fd : kern[f] # Closed =>
    \/ \E t \in Thread : fd[t] = f
    \/ \E p \in Process, k \in Key : held[p][k] # NoEntry /\ held[p][k].fd = f

(* The RuntimeError after the flock (deploy_lock.py:185) is never raised:  *)
(* a thread that got the flock finds no entry of the other mode.           *)
LateModeNeverDiffers ==
  \A t \in Thread :
    LET e == held[ProcOf[t]][NextKey(t)] IN
    pc[t] = "register" /\ e # NoEntry => e.mode = NextMode(t)

(* The waits never close a cycle: while some call is in progress, some     *)
(* thread can move without any timeout expiring.                           *)
SomeoneMoves ==
  (\E t \in Thread : pc[t] # "idle") =>
    \E t \in Thread :
      /\ pc[t] # "idle"
      /\ pc[t] = "flock" => Grantable(fd[t], NextMode(t))

(* A call with a timeout returns, even when others keep taking the lock.   *)
BoundedCallsReturn ==
  \A t \in Thread :
    (pc[t] # "idle" /\ call[t].bounded) ~> pc[t] = "idle"

(* The strengthening the proofs use: what each point of service_lock and   *)
(* _release knows of the thread's nesting and of the descriptor in hand.   *)
PcOK ==
  \A t \in Thread :
    /\ pc[t] = "idle" <=> call[t] = NoCall
    /\ pc[t] = "idle" => depth[t] = 0
    /\ pc[t] \in {"enter", "flock", "register", "unlock"} =>
         depth[t] < Levels(call[t])
    /\ pc[t] = "body" => depth[t] = Levels(call[t])
    /\ pc[t] = "release" => depth[t] \in 1..Levels(call[t])
    /\ pc[t] \in {"flock", "register", "unlock"} <=> fd[t] # NoFd

HandOK ==
  \A t \in Thread :
    fd[t] # NoFd =>
      kern[fd[t]] = [proc |-> ProcOf[t], key |-> NextKey(t),
                     lock |-> IF pc[t] = "flock" THEN "none" ELSE NextMode(t)]

HandsDistinct ==
  /\ \A t, u \in Thread : fd[t] # NoFd /\ fd[t] = fd[u] => t = u
  /\ \A t \in Thread, p \in Process, k \in Key :
       held[p][k] # NoEntry => fd[t] # held[p][k].fd

FlocksExclude ==
  \A f, g \in Fd :
    /\ f # g
    /\ kern[f] # Closed /\ kern[g] # Closed
    /\ kern[f].key = kern[g].key
    /\ kern[f].lock = "exclusive"
    => kern[g].lock = "none"

IInv ==
  TypeOK /\ PcOK /\ HandOK /\ HandsDistinct /\ Backed /\ FlocksExclude /\ Counted

(* The registry and the flocks implement the readers/writer lock.          *)
Using(t, k) ==
  IF HoldsIn(t, k, "exclusive") THEN "exclusive"
  ELSE IF HoldsIn(t, k, "shared") THEN "shared" ELSE "none"

Abstract == INSTANCE DeployLockSpec
              WITH hold <- [t \in Thread |-> [k \in Key |-> Using(t, k)]]

ImplementsSpec == Abstract!Spec
=============================================================================
