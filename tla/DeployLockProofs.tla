-------------------------- MODULE DeployLockProofs --------------------------
(***************************************************************************)
(* IInv is an invariant of DeployLock for every set of threads, processes, *)
(* keys and calls; exclusion between processes, the absence of leaks and   *)
(* deadlocks, and the implementation of DeployLockSpec follow from it.     *)
(***************************************************************************)
EXTENDS DeployLock, FiniteSetTheorems, TLAPS

(* The types of a call and of its levels: a surface call has Host and its  *)
(* key, which differ, any other call has its key.                          *)
LEMMA CallTypes ==
  ASSUME NEW c \in Calls
  PROVE  /\ c \in Call /\ c # NoCall
         /\ Levels(c) \in 1..2
         /\ \A i \in 1..2 : LevelKey(c, i) \in Key /\ LevelMode(c, i) \in Mode
         /\ Levels(c) = 2 => LevelKey(c, 1) # LevelKey(c, 2)
  BY CallAssumption, KeyAssumption DEF Call, Levels, LevelKey, LevelMode, Mode

(* t joins k in mode m; t leaves k, which it held in mode m.               *)
Gains(t, k, m) ==
  /\ ~Holds(t, k)
  /\ \A u \in Thread, kk \in Key, mm \in Mode :
       HoldsIn(u, kk, mm)' <=>
         HoldsIn(u, kk, mm) \/ (u = t /\ kk = k /\ mm = m)

Loses(t, k, m) ==
  /\ ~Holds(t, k)'
  /\ \A u \in Thread, kk \in Key, mm \in Mode :
       HoldsIn(u, kk, mm) <=>
         HoldsIn(u, kk, mm)' \/ (u = t /\ kk = k /\ mm = m)

(* t gives up its innermost level.                                         *)
Leaves(t) ==
  /\ depth' = [depth EXCEPT ![t] = @ - 1]
  /\ \A u \in Thread : u # t \/ depth[t] # 1 => call'[u] = call[u]

(* Entering a level adds exactly that level's key and mode to what the     *)
(* thread holds, and it did not hold the key before.                       *)
LEMMA EnteredHolds ==
  ASSUME TypeOK, NEW t \in Thread, call[t] \in Calls,
         depth[t] < Levels(call[t]), Entered(t),
         NEW CONSTANT k, k = NextKey(t), NEW CONSTANT m, m = NextMode(t)
  PROVE  Gains(t, k, m)
<1>1. /\ depth \in [Thread -> 0..2] /\ call' = call
      /\ depth' = [depth EXCEPT ![t] = @ + 1]
  BY DEF TypeOK, Entered
<1>2. Levels(call[t]) \in 1..2 /\ depth[t] \in 0..1
  BY <1>1, CallTypes
<1>3. ~Holds(t, k)
  BY <1>2, CallTypes DEF Holds, HoldsIn, NextKey
<1>4. ASSUME NEW u \in Thread, NEW kk \in Key, NEW mm \in Mode
      PROVE  HoldsIn(u, kk, mm)' <=>
               HoldsIn(u, kk, mm) \/ (u = t /\ kk = k /\ mm = m)
  <2>1. CASE u # t
    BY <1>1, <2>1 DEF HoldsIn
  <2>2. CASE u = t
    <3>1. 1..depth'[t] = (1..depth[t]) \cup {depth[t] + 1}
      BY <1>1, <1>2
    <3>2. QED
      BY <1>1, <2>2, <3>1 DEF HoldsIn, NextKey, NextMode
  <2>3. QED
    BY <2>1, <2>2
<1>5. QED
  BY <1>3, <1>4 DEF Gains

(* Leaving the innermost level removes exactly that level's key and mode.  *)
LEMMA LeftHolds ==
  ASSUME TypeOK, NEW t \in Thread, call[t] \in Calls,
         depth[t] \in 1..Levels(call[t]), Leaves(t),
         NEW CONSTANT k, k = LevelKey(call[t], depth[t]),
         NEW CONSTANT m, m = LevelMode(call[t], depth[t])
  PROVE  Loses(t, k, m)
<1> USE DEF Leaves
<1>1. depth \in [Thread -> 0..2] /\ Levels(call[t]) \in 1..2 /\ depth[t] \in 1..2
  BY CallTypes DEF TypeOK
<1>2. k \in Key /\ m \in Mode
  BY <1>1, CallTypes
<1>3. depth'[t] = depth[t] - 1 /\ depth'[t] \in 0..1
  BY <1>1
<1>4. ~Holds(t, k)'
  <2>1. CASE depth[t] = 1
    BY <1>3, <2>1 DEF Holds, HoldsIn
  <2>2. CASE depth[t] = 2
    <3>1. call'[t] = call[t] /\ 1..depth'[t] = {1}
      BY <1>3, <2>2
    <3>2. LevelKey(call[t], 1) # LevelKey(call[t], 2)
      BY <1>1, <2>2, CallTypes
    <3>3. QED
      BY <2>2, <3>1, <3>2 DEF Holds, HoldsIn
  <2>3. QED
    BY <1>1, <2>1, <2>2
<1>5. ASSUME NEW u \in Thread, NEW kk \in Key, NEW mm \in Mode
      PROVE  HoldsIn(u, kk, mm) <=>
               HoldsIn(u, kk, mm)' \/ (u = t /\ kk = k /\ mm = m)
  <2>1. CASE u # t
    <3>1. depth'[u] = depth[u] /\ call'[u] = call[u]
      BY <1>1, <2>1
    <3>2. QED
      BY <2>1, <3>1 DEF HoldsIn
  <2>2. CASE u = t /\ depth[t] = 1
    <3>1. 1..depth[t] = {1} /\ 1..depth'[t] = {}
      BY <1>3, <2>2
    <3>2. QED
      BY <2>2, <3>1 DEF HoldsIn
  <2>3. CASE u = t /\ depth[t] = 2
    <3>1. call'[t] = call[t] /\ 1..depth'[t] = {1} /\ 1..depth[t] = {1, 2}
      BY <1>3, <2>3
    <3>2. QED
      BY <2>3, <3>1 DEF HoldsIn
  <2>4. QED
    BY <1>1, <2>1, <2>2, <2>3
<1>6. QED
  BY <1>2, <1>4, <1>5 DEF Loses

-----------------------------------------------------------------------------
(* Counted is kept by a step that changes neither holdings nor registry.   *)
LEMMA CountSame ==
  ASSUME Counted, held' = held,
         \A u \in Thread, k \in Key, m \in Mode :
           HoldsIn(u, k, m)' <=> HoldsIn(u, k, m)
  PROVE  Counted'
<1>1. ASSUME NEW p \in Process, NEW k \in Key
      PROVE  Holders(p, k)' = Holders(p, k)
  BY DEF Holders, Holds
<1>2. \A p \in Process, k \in Key : \A u \in Holders(p, k) : u \in Thread
  BY DEF Holders
<1>3. QED
  BY <1>1, <1>2 DEF Counted

(* The registry of process p gains an entry for k, or a user of it; it     *)
(* loses a user of k, or the entry with its only user.                     *)
AddsUser(p, k, m, e) ==
  /\ held' = [held EXCEPT ![p][k] = e]
  /\ e # NoEntry /\ e.mode = m
  /\ IF held[p][k] = NoEntry THEN e.count = 1
     ELSE held[p][k].mode = m /\ e.count = held[p][k].count + 1

DropsUser(p, k, e) ==
  /\ held' = [held EXCEPT ![p][k] = e]
  /\ IF held[p][k].count = 1 THEN e = NoEntry
     ELSE /\ e # NoEntry
          /\ e.mode = held[p][k].mode
          /\ e.count = held[p][k].count - 1

LEMMA HoldersFinite ==
  \A p, k : IsFiniteSet(Holders(p, k)) /\ Cardinality(Holders(p, k)) \in Nat
BY ThreadAssumption, FS_Subset, FS_CardinalityType DEF Holders

(* Counted is kept when t joins k in mode m and the registry gains the     *)
(* entry, or adds one to it.                                               *)
LEMMA CountGain ==
  ASSUME TypeOK, Counted, NEW t \in Thread,
         NEW CONSTANT k \in Key, NEW CONSTANT m \in Mode, NEW CONSTANT e,
         Gains(t, k, m), AddsUser(ProcOf[t], k, m, e)
  PROVE  Counted'
<1> USE DEF Gains, AddsUser
<1> DEFINE p == ProcOf[t]
<1>1. p \in Process /\ held[p] \in [Key -> Entry \cup {NoEntry}]
  BY ThreadAssumption DEF TypeOK
<1>2. held'[p][k] = e
  BY <1>1 DEF TypeOK
<1>3. \A q \in Process, kk \in Key : q # p \/ kk # k => held'[q][kk] = held[q][kk]
  BY <1>1 DEF TypeOK
<1>4. Holders(p, k)' = Holders(p, k) \cup {t} /\ t \notin Holders(p, k)
  BY DEF Holders, Holds
<1>5. \A q \in Process, kk \in Key : q # p \/ kk # k => Holders(q, kk)' = Holders(q, kk)
  BY DEF Holders, Holds
<1>6. Cardinality(Holders(p, k)') = Cardinality(Holders(p, k)) + 1
  BY <1>4, HoldersFinite, FS_AddElement
<1>7. e.count = Cardinality(Holders(p, k)')
  <2>1. CASE held[p][k] = NoEntry
    <3>1. Holders(p, k) = {}
      BY <1>1, <2>1 DEF Counted
    <3>2. Cardinality(Holders(p, k)) = 0
      BY <3>1, FS_EmptySet
    <3>3. QED
      BY <1>6, <2>1, <3>2
  <2>2. CASE held[p][k] # NoEntry
    BY <1>1, <1>6, <2>2 DEF Counted
  <2>3. QED
    BY <2>1, <2>2
<1>8. ASSUME NEW u \in Thread, NEW mm \in Mode, HoldsIn(u, k, mm)', ProcOf[u] = p
      PROVE  mm = m
  <2>1. CASE HoldsIn(u, k, mm)
    <3>1. u \in Holders(p, k)
      BY <1>8, <2>1 DEF Holders, Holds
    <3>2. held[p][k] # NoEntry /\ held[p][k].mode = mm
      BY <1>1, <2>1, <3>1 DEF Counted
    <3>3. QED
      BY <3>2
  <2>2. QED
    BY <1>8, <2>1
<1>9. ASSUME NEW q \in Process, NEW kk \in Key, q # p \/ kk # k
      PROVE  IF held'[q][kk] = NoEntry
             THEN Holders(q, kk)' = {}
             ELSE /\ held'[q][kk].count = Cardinality(Holders(q, kk)')
                  /\ \A u \in Holders(q, kk)', mm \in Mode :
                       HoldsIn(u, kk, mm)' => held'[q][kk].mode = mm
  <2>1. held'[q][kk] = held[q][kk] /\ Holders(q, kk)' = Holders(q, kk)
    BY <1>3, <1>5, <1>9
  <2>2. \A u \in Holders(q, kk), mm \in Mode :
          HoldsIn(u, kk, mm)' <=> HoldsIn(u, kk, mm)
    BY <1>9 DEF Holders
  <2>3. QED
    BY <2>1, <2>2 DEF Counted
<1>10. \A u \in Holders(p, k)' : u \in Thread /\ ProcOf[u] = p
  BY DEF Holders
<1>11. QED
  BY <1>2, <1>7, <1>8, <1>9, <1>10 DEF Counted

(* Counted is kept when t leaves k and the registry drops one from the     *)
(* entry's count, or the entry if t was its only user.                     *)
LEMMA CountDrop ==
  ASSUME TypeOK, Counted, NEW t \in Thread,
         NEW CONSTANT k \in Key, NEW CONSTANT m \in Mode, NEW CONSTANT e,
         Loses(t, k, m), DropsUser(ProcOf[t], k, e)
  PROVE  Counted'
<1> USE DEF Loses, DropsUser
<1> DEFINE p == ProcOf[t]
<1>1. p \in Process /\ held[p] \in [Key -> Entry \cup {NoEntry}]
  BY ThreadAssumption DEF TypeOK
<1>2. held'[p][k] = e
  BY <1>1 DEF TypeOK
<1>3. \A q \in Process, kk \in Key : q # p \/ kk # k => held'[q][kk] = held[q][kk]
  BY <1>1 DEF TypeOK
<1>4. Holders(p, k)' = Holders(p, k) \ {t} /\ t \in Holders(p, k)
  BY DEF Holders, Holds
<1>5. \A q \in Process, kk \in Key : q # p \/ kk # k => Holders(q, kk)' = Holders(q, kk)
  BY DEF Holders, Holds
<1>6. Cardinality(Holders(p, k)') = Cardinality(Holders(p, k)) - 1
  BY <1>4, HoldersFinite, FS_RemoveElement
<1>7. /\ held[p][k] # NoEntry
      /\ held[p][k].count = Cardinality(Holders(p, k))
      /\ \A u \in Holders(p, k), mm \in Mode :
           HoldsIn(u, k, mm) => held[p][k].mode = mm
  BY <1>1, <1>4 DEF Counted
<1>8. IF held'[p][k] = NoEntry
      THEN Holders(p, k)' = {}
      ELSE /\ held'[p][k].count = Cardinality(Holders(p, k)')
           /\ \A u \in Holders(p, k)', mm \in Mode :
                HoldsIn(u, k, mm)' => held'[p][k].mode = mm
  <2>1. CASE held[p][k].count = 1
    <3>1. Cardinality(Holders(p, k)') = 0
      BY <1>6, <1>7, <2>1
    <3>2. IsFiniteSet(Holders(p, k)')
      BY <1>4, HoldersFinite, FS_RemoveElement
    <3>3. Holders(p, k)' = {}
      BY <3>1, <3>2, FS_EmptySet
    <3>4. QED
      BY <1>2, <2>1, <3>3
  <2>2. CASE held[p][k].count # 1
    <3>1. e # NoEntry /\ e.mode = held[p][k].mode /\ e.count = held[p][k].count - 1
      BY <2>2
    <3>2. \A u \in Holders(p, k)', mm \in Mode : HoldsIn(u, k, mm)' => HoldsIn(u, k, mm)
      BY DEF Holders
    <3>3. QED
      BY <1>2, <1>4, <1>6, <1>7, <3>1, <3>2
  <2>3. QED
    BY <2>1, <2>2
<1>9. ASSUME NEW q \in Process, NEW kk \in Key, q # p \/ kk # k
      PROVE  IF held'[q][kk] = NoEntry
             THEN Holders(q, kk)' = {}
             ELSE /\ held'[q][kk].count = Cardinality(Holders(q, kk)')
                  /\ \A u \in Holders(q, kk)', mm \in Mode :
                       HoldsIn(u, kk, mm)' => held'[q][kk].mode = mm
  <2>1. held'[q][kk] = held[q][kk] /\ Holders(q, kk)' = Holders(q, kk)
    BY <1>3, <1>5, <1>9
  <2>2. \A u \in Holders(q, kk), mm \in Mode :
          HoldsIn(u, kk, mm)' <=> HoldsIn(u, kk, mm)
    BY <1>9 DEF Holders
  <2>3. QED
    BY <2>1, <2>2 DEF Counted
<1>10. QED
  BY <1>8, <1>9 DEF Counted

-----------------------------------------------------------------------------
(* The initial state.                                                      *)
LEMMA InitIInv == Init => IInv
<1> SUFFICES ASSUME Init PROVE IInv
  OBVIOUS
<1>1. TypeOK
  BY ThreadAssumption DEF Init, TypeOK
<1>2. PcOK
  BY DEF Init, PcOK
<1>3. HandOK /\ HandsDistinct /\ Backed /\ FlocksExclude
  BY DEF Init, HandOK, HandsDistinct, Backed, FlocksExclude
<1>4. \A p \in Process, k \in Key : Holders(p, k) = {}
  BY DEF Init, Holders, Holds, HoldsIn
<1>5. Counted
  BY <1>4 DEF Init, Counted
<1>6. QED
  BY <1>1, <1>2, <1>3, <1>5 DEF IInv

(* Facts every action starts from.                                         *)
LEMMA ActionFacts ==
  ASSUME IInv, NEW t \in Thread
  PROVE  /\ ProcOf[t] \in Process
         /\ pc[t] # "idle" => /\ call[t] \in Calls
                              /\ Levels(call[t]) \in 1..2
                              /\ depth[t] \in 0..2
         /\ pc[t] \in {"enter", "flock", "register", "unlock"} =>
              NextKey(t) \in Key /\ NextMode(t) \in Mode
         /\ pc[t] = "release" =>
              /\ LevelKey(call[t], depth[t]) \in Key
              /\ LevelMode(call[t], depth[t]) \in Mode
<1>1. ProcOf[t] \in Process
  BY ThreadAssumption
<1>2. pc[t] # "idle" => call[t] \in Calls /\ Levels(call[t]) \in 1..2 /\ depth[t] \in 0..2
  BY CallTypes DEF IInv, TypeOK, PcOK
<1>3. pc[t] \in {"enter", "flock", "register", "unlock"} => depth[t] + 1 \in 1..2
  BY <1>2 DEF IInv, PcOK
<1>4. pc[t] = "release" => depth[t] \in 1..2
  BY <1>2 DEF IInv, PcOK
<1>5. QED
  BY <1>1, <1>2, <1>3, <1>4, CallTypes DEF NextKey, NextMode

(* A description in a hand or in a registry is open.                       *)
LEMMA InUse ==
  ASSUME IInv
  PROVE  /\ \A u \in Thread : fd[u] # NoFd => fd[u] \in Fd /\ kern[fd[u]] # Closed
         /\ \A p \in Process, k \in Key :
              held[p][k] # NoEntry => /\ held[p][k].fd \in Fd
                                     /\ kern[held[p][k].fd] # Closed
<1>1. ASSUME NEW u \in Thread, fd[u] # NoFd
      PROVE  fd[u] \in Fd /\ kern[fd[u]] # Closed
  <2>1. pc[u] \in {"flock", "register", "unlock"}
    BY <1>1 DEF IInv, PcOK
  <2>2. ProcOf[u] \in Process /\ NextKey(u) \in Key /\ NextMode(u) \in Mode
    BY <2>1, ActionFacts
  <2>3. kern[fd[u]] = [proc |-> ProcOf[u], key |-> NextKey(u),
                       lock |-> IF pc[u] = "flock" THEN "none" ELSE NextMode(u)]
    BY <1>1 DEF IInv, HandOK
  <2>4. kern[fd[u]] # Closed
    BY <2>2, <2>3, NullAssumption
  <2>5. QED
    BY <1>1, <2>4 DEF IInv, TypeOK
<1>2. ASSUME NEW p \in Process, NEW k \in Key, held[p][k] # NoEntry
      PROVE  held[p][k].fd \in Fd /\ kern[held[p][k].fd] # Closed
  <2>1. held[p][k].fd \in Fd /\ held[p][k].mode \in Mode
    BY <1>2 DEF IInv, TypeOK, Entry
  <2>2. kern[held[p][k].fd] = [proc |-> p, key |-> k, lock |-> held[p][k].mode]
    BY <1>2 DEF IInv, Backed
  <2>3. QED
    BY <2>1, <2>2, NullAssumption
<1>3. QED
  BY <1>1, <1>2

(* A call begins at its outermost level.                                   *)
LEMMA BeginIInv ==
  ASSUME IInv, NEW t \in Thread, NEW c \in Calls, Begin(t, c)
  PROVE  IInv'
<1>1. /\ pc[t] = "idle"
      /\ depth[t] = 0
      /\ fd[t] = NoFd
      /\ c # NoCall
      /\ Levels(c) \in 1..2
  BY ActionFacts, CallTypes, NullAssumption DEF IInv, TypeOK, PcOK, HandOK, Begin
<1>2. /\ \A u \in Thread : pc'[u] = IF u = t THEN "enter" ELSE pc[u]
      /\ \A u \in Thread : call'[u] = IF u = t THEN c ELSE call[u]
      /\ depth' = depth
      /\ fd' = fd
      /\ held' = held
      /\ kern' = kern
  BY <1>1 DEF IInv, TypeOK, Begin
<1>3. TypeOK'
  BY <1>1, ActionFacts DEF IInv, TypeOK, Entry, FileDesc, Mode, Begin
<1>4. PcOK'
  BY <1>1, <1>2 DEF IInv, PcOK
<1>5. HandOK'
  BY <1>1, <1>2 DEF IInv, TypeOK, HandOK, HandsDistinct, NextKey, NextMode
<1>6. HandsDistinct'
  BY <1>1, <1>2, NullAssumption DEF IInv, TypeOK, Entry, HandsDistinct
<1>7. Backed'
  BY <1>1, <1>2 DEF IInv, TypeOK, Entry, HandsDistinct, Backed
<1>8. FlocksExclude'
  BY <1>1, <1>2 DEF IInv, TypeOK, FileDesc, FlocksExclude, Grantable, Mode, Backed
<1>9. Counted'
  <2>1. \A u \in Thread, k \in Key, m \in Mode : HoldsIn(u, k, m)' <=> HoldsIn(u, k, m)
    BY <1>1, <1>2 DEF HoldsIn
  <2>2. QED
    BY <1>2, <2>1, CountSame DEF IInv
<1>10. QED
  BY <1>3, <1>4, <1>5, <1>6, <1>7, <1>8, <1>9 DEF IInv

(* A mode mismatch unwinds the outer level, if there is one.               *)
LEMMA RefuseModeIInv ==
  ASSUME IInv, NEW t \in Thread, RefuseMode(t)
  PROVE  IInv'
<1>1. /\ pc[t] = "enter"
      /\ depth[t] \in 0..1
      /\ depth[t] < Levels(call[t])
      /\ Levels(call[t]) \in 1..2
      /\ call[t] # NoCall
      /\ fd[t] = NoFd
  BY ActionFacts, CallTypes, NullAssumption DEF IInv, TypeOK, PcOK, HandOK, RefuseMode, Unwind
<1>2. /\ \A u \in Thread : pc'[u] = IF u = t THEN LeaveTo(depth[t]) ELSE pc[u]
      /\ \A u \in Thread : call'[u] = IF u = t /\ depth[t] = 0 THEN NoCall ELSE call[u]
      /\ depth' = depth
      /\ fd' = fd
      /\ held' = held
      /\ kern' = kern
  BY <1>1 DEF IInv, TypeOK, RefuseMode, Unwind
<1>3. TypeOK'
  BY <1>1, ActionFacts DEF IInv, TypeOK, Entry, FileDesc, Mode, RefuseMode, Unwind, LeaveTo
<1>4. PcOK'
  BY <1>1, <1>2 DEF IInv, PcOK, LeaveTo
<1>5. HandOK'
  BY <1>1, <1>2 DEF IInv, TypeOK, HandOK, HandsDistinct, NextKey, NextMode
<1>6. HandsDistinct'
  BY <1>1, <1>2, NullAssumption DEF IInv, TypeOK, Entry, HandsDistinct
<1>7. Backed'
  BY <1>1, <1>2 DEF IInv, TypeOK, Entry, HandsDistinct, Backed
<1>8. FlocksExclude'
  BY <1>1, <1>2 DEF IInv, TypeOK, FileDesc, FlocksExclude, Grantable, Mode, Backed
<1>9. Counted'
  <2>1. \A u \in Thread, k \in Key, m \in Mode : HoldsIn(u, k, m)' <=> HoldsIn(u, k, m)
    BY <1>1, <1>2 DEF HoldsIn
  <2>2. QED
    BY <1>2, <2>1, CountSame DEF IInv
<1>10. QED
  BY <1>3, <1>4, <1>5, <1>6, <1>7, <1>8, <1>9 DEF IInv

(* OpenFile takes a description that nobody has.                           *)
LEMMA OpenFileIInv ==
  ASSUME IInv, NEW t \in Thread, OpenFile(t)
  PROVE  IInv'
<1>1. /\ FreeFd \in Fd
      /\ kern[FreeFd] = Closed
      /\ pc[t] = "enter"
      /\ fd[t] = NoFd
      /\ call[t] # NoCall
      /\ FreeFd # NoFd
      /\ NextKey(t) \in Key
      /\ ProcOf[t] \in Process
      /\ depth[t] < Levels(call[t])
      /\ \A u \in Thread : fd[u] # FreeFd
      /\ \A p \in Process, k \in Key : held[p][k] # NoEntry => held[p][k].fd # FreeFd
  BY ActionFacts, InUse, NullAssumption DEF IInv, TypeOK, PcOK, FreeFd, OpenFile
<1>2. /\ \A u \in Thread : pc'[u] = IF u = t THEN "flock" ELSE pc[u]
      /\ \A u \in Thread : fd'[u] = IF u = t THEN FreeFd ELSE fd[u]
      /\ \A g \in Fd : kern'[g] = IF g = FreeFd
                            THEN [proc |-> ProcOf[t], key |-> NextKey(t), lock |-> "none"]
                            ELSE kern[g]
      /\ depth' = depth
      /\ call' = call
      /\ held' = held
  BY <1>1 DEF IInv, TypeOK, OpenFile
<1>3. TypeOK'
  BY <1>1, ActionFacts DEF IInv, TypeOK, Entry, FileDesc, Mode, OpenFile
<1>4. PcOK'
  BY <1>1, <1>2 DEF IInv, PcOK
<1>5. HandOK'
  BY <1>1, <1>2 DEF IInv, TypeOK, HandOK, HandsDistinct, NextKey, NextMode
<1>6. HandsDistinct'
  BY <1>1, <1>2, NullAssumption DEF IInv, TypeOK, Entry, HandsDistinct
<1>7. Backed'
  BY <1>1, <1>2 DEF IInv, TypeOK, Entry, HandsDistinct, Backed
<1>8. FlocksExclude'
  BY <1>1, <1>2 DEF IInv, TypeOK, FileDesc, FlocksExclude, Grantable, Mode, Backed
<1>9. Counted'
  <2>1. \A u \in Thread, k \in Key, m \in Mode : HoldsIn(u, k, m)' <=> HoldsIn(u, k, m)
    BY <1>1, <1>2 DEF HoldsIn
  <2>2. QED
    BY <1>2, <2>1, CountSame DEF IInv
<1>10. QED
  BY <1>3, <1>4, <1>5, <1>6, <1>7, <1>8, <1>9 DEF IInv

(* TakeFlock is granted only beside compatible flocks.                     *)
LEMMA TakeFlockIInv ==
  ASSUME IInv, NEW t \in Thread, TakeFlock(t)
  PROVE  IInv'
<1>1. /\ pc[t] = "flock"
      /\ fd[t] \in Fd
      /\ fd[t] # NoFd
      /\ ProcOf[t] \in Process
      /\ NextKey(t) \in Key
      /\ NextMode(t) \in Mode
      /\ Closed \notin FileDesc
      /\ kern[fd[t]] = [proc |-> ProcOf[t], key |-> NextKey(t), lock |-> "none"]
      /\ Grantable(fd[t], NextMode(t))
  BY ActionFacts, CallTypes, NullAssumption DEF IInv, TypeOK, PcOK, HandOK, FileDesc, TakeFlock
<1>2. /\ \A u \in Thread : pc'[u] = IF u = t THEN "register" ELSE pc[u]
      /\ \A g \in Fd : kern'[g] = IF g = fd[t]
                            THEN [proc |-> ProcOf[t], key |-> NextKey(t), lock |-> NextMode(t)]
                            ELSE kern[g]
      /\ depth' = depth
      /\ call' = call
      /\ held' = held
      /\ fd' = fd
  BY <1>1 DEF IInv, TypeOK, TakeFlock
<1>3. TypeOK'
  BY <1>1, ActionFacts DEF IInv, TypeOK, Entry, FileDesc, Mode, TakeFlock
<1>4. PcOK'
  BY <1>1, <1>2 DEF IInv, PcOK
<1>5. HandOK'
  BY <1>1, <1>2 DEF IInv, TypeOK, HandOK, HandsDistinct, NextKey, NextMode
<1>6. HandsDistinct'
  BY <1>1, <1>2, NullAssumption DEF IInv, TypeOK, Entry, HandsDistinct
<1>7. Backed'
  BY <1>1, <1>2 DEF IInv, TypeOK, Entry, HandsDistinct, Backed
<1>8. FlocksExclude'
  BY <1>1, <1>2 DEF IInv, TypeOK, FileDesc, FlocksExclude, Grantable, Mode, Backed
<1>9. Counted'
  <2>1. \A u \in Thread, k \in Key, m \in Mode : HoldsIn(u, k, m)' <=> HoldsIn(u, k, m)
    BY <1>1, <1>2 DEF HoldsIn
  <2>2. QED
    BY <1>2, <2>1, CountSame DEF IInv
<1>10. QED
  BY <1>3, <1>4, <1>5, <1>6, <1>7, <1>8, <1>9 DEF IInv

(* TimeOut closes the description in hand.                                 *)
LEMMA TimeOutIInv ==
  ASSUME IInv, NEW t \in Thread, TimeOut(t)
  PROVE  IInv'
<1>1. /\ pc[t] = "flock"
      /\ call[t] # NoCall
      /\ depth[t] \in 0..1
      /\ depth[t] < Levels(call[t])
      /\ Levels(call[t]) \in 1..2
      /\ fd[t] \in Fd
      /\ fd[t] # NoFd
      /\ kern[fd[t]] = [proc |-> ProcOf[t], key |-> NextKey(t), lock |-> "none"]
  BY ActionFacts, CallTypes, NullAssumption DEF IInv, TypeOK, PcOK, HandOK, TimeOut, Unwind
<1>2. /\ \A u \in Thread : pc'[u] = IF u = t THEN LeaveTo(depth[t]) ELSE pc[u]
      /\ \A u \in Thread : call'[u] = IF u = t /\ depth[t] = 0 THEN NoCall ELSE call[u]
      /\ \A u \in Thread : fd'[u] = IF u = t THEN NoFd ELSE fd[u]
      /\ \A g \in Fd : kern'[g] = IF g = fd[t] THEN Closed ELSE kern[g]
      /\ depth' = depth
      /\ held' = held
  BY <1>1 DEF IInv, TypeOK, TimeOut, Unwind
<1>3. TypeOK'
  BY <1>1, ActionFacts DEF IInv, TypeOK, Entry, FileDesc, Mode, TimeOut, Unwind, LeaveTo
<1>4. PcOK'
  BY <1>1, <1>2 DEF IInv, PcOK, LeaveTo
<1>5. HandOK'
  BY <1>1, <1>2 DEF IInv, TypeOK, HandOK, HandsDistinct, NextKey, NextMode
<1>6. HandsDistinct'
  BY <1>1, <1>2, NullAssumption DEF IInv, TypeOK, Entry, HandsDistinct
<1>7. Backed'
  BY <1>1, <1>2 DEF IInv, TypeOK, Entry, HandsDistinct, Backed
<1>8. FlocksExclude'
  BY <1>1, <1>2 DEF IInv, TypeOK, FileDesc, FlocksExclude, Grantable, Mode, Backed
<1>9. Counted'
  <2>1. \A u \in Thread, k \in Key, m \in Mode : HoldsIn(u, k, m)' <=> HoldsIn(u, k, m)
    BY <1>1, <1>2 DEF HoldsIn
  <2>2. QED
    BY <1>2, <2>1, CountSame DEF IInv
<1>10. QED
  BY <1>3, <1>4, <1>5, <1>6, <1>7, <1>8, <1>9 DEF IInv

(* Unlock closes the description of an entry that is gone.                 *)
LEMMA UnlockIInv ==
  ASSUME IInv, NEW t \in Thread, Unlock(t)
  PROVE  IInv'
<1>1. /\ pc[t] = "unlock"
      /\ call[t] # NoCall
      /\ depth[t] \in 0..1
      /\ depth[t] < Levels(call[t])
      /\ Levels(call[t]) \in 1..2
      /\ fd[t] \in Fd
      /\ fd[t] # NoFd
      /\ kern[fd[t]] = [proc |-> ProcOf[t], key |-> NextKey(t), lock |-> NextMode(t)]
  BY ActionFacts, CallTypes, NullAssumption DEF IInv, TypeOK, PcOK, HandOK, Unlock, Unwind
<1>2. /\ \A u \in Thread : pc'[u] = IF u = t THEN LeaveTo(depth[t]) ELSE pc[u]
      /\ \A u \in Thread : call'[u] = IF u = t /\ depth[t] = 0 THEN NoCall ELSE call[u]
      /\ \A u \in Thread : fd'[u] = IF u = t THEN NoFd ELSE fd[u]
      /\ \A g \in Fd : kern'[g] = IF g = fd[t] THEN Closed ELSE kern[g]
      /\ depth' = depth
      /\ held' = held
  BY <1>1 DEF IInv, TypeOK, Unlock, Unwind
<1>3. TypeOK'
  BY <1>1, ActionFacts DEF IInv, TypeOK, Entry, FileDesc, Mode, Unlock, Unwind, LeaveTo
<1>4. PcOK'
  BY <1>1, <1>2 DEF IInv, PcOK, LeaveTo
<1>5. HandOK'
  BY <1>1, <1>2 DEF IInv, TypeOK, HandOK, HandsDistinct, NextKey, NextMode
<1>6. HandsDistinct'
  BY <1>1, <1>2, NullAssumption DEF IInv, TypeOK, Entry, HandsDistinct
<1>7. Backed'
  BY <1>1, <1>2 DEF IInv, TypeOK, Entry, HandsDistinct, Backed
<1>8. FlocksExclude'
  BY <1>1, <1>2 DEF IInv, TypeOK, FileDesc, FlocksExclude, Grantable, Mode, Backed
<1>9. Counted'
  <2>1. \A u \in Thread, k \in Key, m \in Mode : HoldsIn(u, k, m)' <=> HoldsIn(u, k, m)
    BY <1>1, <1>2 DEF HoldsIn
  <2>2. QED
    BY <1>2, <2>1, CountSame DEF IInv
<1>10. QED
  BY <1>3, <1>4, <1>5, <1>6, <1>7, <1>8, <1>9 DEF IInv

(* The body ends at the innermost level.                                   *)
LEMMA EndBodyIInv ==
  ASSUME IInv, NEW t \in Thread, EndBody(t)
  PROVE  IInv'
<1>1. /\ pc[t] = "body"
      /\ call[t] # NoCall
      /\ depth[t] \in 1..Levels(call[t])
      /\ fd[t] = NoFd
  BY ActionFacts, CallTypes, NullAssumption DEF IInv, TypeOK, PcOK, HandOK, EndBody
<1>2. /\ \A u \in Thread : pc'[u] = IF u = t THEN "release" ELSE pc[u]
      /\ call' = call
      /\ fd' = fd
      /\ kern' = kern
      /\ depth' = depth
      /\ held' = held
  BY <1>1 DEF IInv, TypeOK, EndBody
<1>3. TypeOK'
  BY <1>1, ActionFacts DEF IInv, TypeOK, Entry, FileDesc, Mode, EndBody
<1>4. PcOK'
  BY <1>1, <1>2 DEF IInv, PcOK
<1>5. HandOK'
  BY <1>1, <1>2 DEF IInv, TypeOK, HandOK, HandsDistinct, NextKey, NextMode
<1>6. HandsDistinct'
  BY <1>1, <1>2, NullAssumption DEF IInv, TypeOK, Entry, HandsDistinct
<1>7. Backed'
  BY <1>1, <1>2 DEF IInv, TypeOK, Entry, HandsDistinct, Backed
<1>8. FlocksExclude'
  BY <1>1, <1>2 DEF IInv, TypeOK, FileDesc, FlocksExclude, Grantable, Mode, Backed
<1>9. Counted'
  <2>1. \A u \in Thread, k \in Key, m \in Mode : HoldsIn(u, k, m)' <=> HoldsIn(u, k, m)
    BY <1>1, <1>2 DEF HoldsIn
  <2>2. QED
    BY <1>2, <2>1, CountSame DEF IInv
<1>10. QED
  BY <1>3, <1>4, <1>5, <1>6, <1>7, <1>8, <1>9 DEF IInv

(* Re-entering counts one more user of the same entry.                     *)
LEMMA ReenterIInv ==
  ASSUME IInv, NEW t \in Thread, Reenter(t)
  PROVE  IInv'
<1>1. /\ pc[t] = "enter"
      /\ call[t] \in Calls
      /\ call[t] # NoCall
      /\ depth[t] \in 0..1
      /\ depth[t] < Levels(call[t])
      /\ Levels(call[t]) \in 1..2
      /\ ProcOf[t] \in Process
      /\ NextKey(t) \in Key
      /\ NextMode(t) \in Mode
      /\ held[ProcOf[t]][NextKey(t)] # NoEntry
      /\ held[ProcOf[t]][NextKey(t)].mode = NextMode(t)
      /\ fd[t] = NoFd
  BY ActionFacts, CallTypes, NullAssumption DEF IInv, TypeOK, PcOK, HandOK, Reenter, Entered
<1>g. /\ held[ProcOf[t]][NextKey(t)] \in Entry
  BY <1>1 DEF IInv, TypeOK
<1>2. /\ \A u \in Thread : pc'[u] = IF u = t THEN IF depth[t] + 1 < Levels(call[t])
                                            THEN "enter" ELSE "body"
                               ELSE pc[u]
      /\ \A u \in Thread : depth'[u] = IF u = t THEN depth[t] + 1 ELSE depth[u]
      /\ call' = call
      /\ fd' = fd
      /\ kern' = kern
  BY <1>1 DEF IInv, TypeOK, Reenter, Entered
<1>h. /\ [held[ProcOf[t]][NextKey(t)] EXCEPT !.count = @ + 1] \in Entry
      /\ [held[ProcOf[t]][NextKey(t)] EXCEPT !.count = @ + 1].mode = held[ProcOf[t]][NextKey(t)].mode
      /\ [held[ProcOf[t]][NextKey(t)] EXCEPT !.count = @ + 1].fd = held[ProcOf[t]][NextKey(t)].fd
      /\ [held[ProcOf[t]][NextKey(t)] EXCEPT !.count = @ + 1].count = held[ProcOf[t]][NextKey(t)].count + 1
      /\ \A p \in Process, k \in Key :
           held'[p][k] = IF p = ProcOf[t] /\ k = NextKey(t)
                         THEN [held[ProcOf[t]][NextKey(t)] EXCEPT !.count = @ + 1]
                         ELSE held[p][k]
  BY <1>1, NullAssumption, <1>g DEF IInv, TypeOK, Entry, Reenter, Entered
<1>3. TypeOK'
  BY <1>1, <1>g, <1>h, ActionFacts DEF IInv, TypeOK, Entry, FileDesc, Mode, Reenter, Entered
<1>4. PcOK'
  BY <1>1, <1>2 DEF IInv, PcOK
<1>5. HandOK'
  BY <1>1, <1>2 DEF IInv, TypeOK, HandOK, HandsDistinct, NextKey, NextMode
<1>6. HandsDistinct'
  BY <1>1, <1>2, <1>g, <1>h, NullAssumption DEF IInv, TypeOK, Entry, HandsDistinct
<1>7. Backed'
  BY <1>1, <1>2, <1>g, <1>h DEF IInv, TypeOK, Entry, HandsDistinct, Backed
<1>8. FlocksExclude'
  BY <1>1, <1>2 DEF IInv, TypeOK, FileDesc, FlocksExclude, Grantable, Mode, Backed
<1>9. Counted'
  <2>0. PICK k \in Key, m \in Mode : k = NextKey(t) /\ m = NextMode(t)
    BY <1>1
  <2>. PICK e : e = [held[ProcOf[t]][NextKey(t)] EXCEPT !.count = @ + 1]
    OBVIOUS
  <2>1. e # NoEntry /\ e.mode = m
    BY <1>1, <1>h, <1>g, <2>0, NullAssumption DEF Entry
  <2>2. held' = [held EXCEPT ![ProcOf[t]][k] = e]
    BY <1>1, <2>0 DEF Reenter
  <2>3. AddsUser(ProcOf[t], k, m, e)
    BY <1>1, <1>h, <1>g, <2>0, <2>1, <2>2 DEF Entry, AddsUser
  <2>4. Gains(t, k, m)
    BY <1>1, <2>0, EnteredHolds DEF Reenter, IInv
  <2>5. QED
    BY <2>3, <2>4, CountGain DEF IInv
<1>10. QED
  BY <1>3, <1>4, <1>5, <1>6, <1>7, <1>8, <1>9 DEF IInv

(* Registering hands the description over to a new entry.                  *)
LEMMA RegisterIInv ==
  ASSUME IInv, NEW t \in Thread, Register(t)
  PROVE  IInv'
<1>1. /\ pc[t] = "register"
      /\ call[t] \in Calls
      /\ call[t] # NoCall
      /\ depth[t] \in 0..1
      /\ depth[t] < Levels(call[t])
      /\ Levels(call[t]) \in 1..2
      /\ ProcOf[t] \in Process
      /\ NextKey(t) \in Key
      /\ NextMode(t) \in Mode
      /\ held[ProcOf[t]][NextKey(t)] = NoEntry
      /\ fd[t] \in Fd
      /\ fd[t] # NoFd
      /\ kern[fd[t]] = [proc |-> ProcOf[t], key |-> NextKey(t), lock |-> NextMode(t)]
  BY ActionFacts, CallTypes, NullAssumption DEF IInv, TypeOK, PcOK, HandOK, Register, Entered
<1>2. /\ \A u \in Thread : pc'[u] = IF u = t THEN IF depth[t] + 1 < Levels(call[t])
                                            THEN "enter" ELSE "body"
                               ELSE pc[u]
      /\ \A u \in Thread : depth'[u] = IF u = t THEN depth[t] + 1 ELSE depth[u]
      /\ call' = call
      /\ \A u \in Thread : fd'[u] = IF u = t THEN NoFd ELSE fd[u]
      /\ kern' = kern
  BY <1>1 DEF IInv, TypeOK, Register, Entered
<1>h. /\ [count |-> 1, mode |-> NextMode(t), fd |-> fd[t]] \in Entry
      /\ [count |-> 1, mode |-> NextMode(t), fd |-> fd[t]] # NoEntry
      /\ \A p \in Process, k \in Key :
           held'[p][k] = IF p = ProcOf[t] /\ k = NextKey(t)
                         THEN [count |-> 1, mode |-> NextMode(t), fd |-> fd[t]]
                         ELSE held[p][k]
  BY <1>1, NullAssumption DEF IInv, TypeOK, Entry, Register, Entered
<1>3. TypeOK'
  BY <1>1, <1>h, ActionFacts DEF IInv, TypeOK, Entry, FileDesc, Mode, Register, Entered
<1>4. PcOK'
  BY <1>1, <1>2 DEF IInv, PcOK
<1>5. HandOK'
  BY <1>1, <1>2 DEF IInv, TypeOK, HandOK, HandsDistinct, NextKey, NextMode
<1>6. HandsDistinct'
  BY <1>1, <1>2, <1>h, NullAssumption DEF IInv, TypeOK, Entry, HandsDistinct
<1>7. Backed'
  BY <1>1, <1>2, <1>h DEF IInv, TypeOK, Entry, HandsDistinct, Backed
<1>8. FlocksExclude'
  BY <1>1, <1>2 DEF IInv, TypeOK, FileDesc, FlocksExclude, Grantable, Mode, Backed
<1>9. Counted'
  <2>0. PICK k \in Key, m \in Mode : k = NextKey(t) /\ m = NextMode(t)
    BY <1>1
  <2>. PICK e : e = [count |-> 1, mode |-> NextMode(t), fd |-> fd[t]]
    OBVIOUS
  <2>1. e # NoEntry /\ e.mode = m
    BY <1>1, <1>h, <2>0, NullAssumption DEF Entry
  <2>2. held' = [held EXCEPT ![ProcOf[t]][k] = e]
    BY <1>1, <2>0 DEF Register
  <2>3. AddsUser(ProcOf[t], k, m, e)
    BY <1>1, <1>h, <2>0, <2>1, <2>2 DEF Entry, AddsUser
  <2>4. Gains(t, k, m)
    BY <1>1, <2>0, EnteredHolds DEF Register, IInv
  <2>5. QED
    BY <2>3, <2>4, CountGain DEF IInv
<1>10. QED
  BY <1>3, <1>4, <1>5, <1>6, <1>7, <1>8, <1>9 DEF IInv

(* A thread that is inside k is counted by its process's entry for k.      *)
LEMMA HeldEntry ==
  ASSUME IInv, NEW t \in Thread, NEW CONSTANT k \in Key, NEW CONSTANT m \in Mode,
         HoldsIn(t, k, m)
  PROVE  /\ held[ProcOf[t]][k] # NoEntry
         /\ held[ProcOf[t]][k] \in Entry
         /\ held[ProcOf[t]][k].mode = m
<1>1. t \in Holders(ProcOf[t], k) /\ ProcOf[t] \in Process
  BY ThreadAssumption DEF Holders, Holds
<1>2. held[ProcOf[t]][k] # NoEntry
  BY <1>1 DEF IInv, Counted
<1>3. held[ProcOf[t]][k].mode = m
  BY <1>1, <1>2 DEF IInv, Counted
<1>4. held[ProcOf[t]][k] \in Entry
  BY <1>1, <1>2 DEF IInv, TypeOK
<1>5. QED
  BY <1>2, <1>3, <1>4

(* Two descriptions of one file whose flocks are both taken are shared.    *)
LEMMA BothShared ==
  ASSUME IInv, NEW f \in Fd, NEW g \in Fd, f # g,
         kern[f] # Closed, kern[g] # Closed, kern[f].key = kern[g].key,
         kern[f].lock \in Mode, kern[g].lock \in Mode
  PROVE  kern[f].lock = "shared" /\ kern[g].lock = "shared"
BY DEF IInv, FlocksExclude, Mode

(* The entry found has the same mode; joining it closes the own            *)
(* descriptor, and the flock stays with the entry's.                       *)
LEMMA FindEntryIInv ==
  ASSUME IInv, NEW t \in Thread, FindEntry(t)
  PROVE  IInv' /\ held[ProcOf[t]][NextKey(t)].mode = NextMode(t)
<1>0. /\ pc[t] = "register" /\ call[t] \in Calls /\ call[t] # NoCall
      /\ depth[t] \in 0..1 /\ depth[t] < Levels(call[t]) /\ Levels(call[t]) \in 1..2
      /\ ProcOf[t] \in Process /\ NextKey(t) \in Key /\ NextMode(t) \in Mode
      /\ fd[t] \in Fd /\ fd[t] # NoFd
      /\ kern[fd[t]] = [proc |-> ProcOf[t], key |-> NextKey(t), lock |-> NextMode(t)]
  BY ActionFacts, CallTypes, NullAssumption DEF IInv, TypeOK, PcOK, HandOK, FindEntry
<1>1. PICK p \in Process, k \in Key, m \in Mode :
        p = ProcOf[t] /\ k = NextKey(t) /\ m = NextMode(t)
  BY <1>0
<1>2. held[p][k] # NoEntry /\ held[p][k] \in Entry
  BY <1>1 DEF FindEntry, IInv, TypeOK
<1>3. held[p][k].mode = m
  <2>1. /\ held[p][k].fd \in Fd /\ held[p][k].fd # fd[t] /\ held[p][k].mode \in Mode
        /\ kern[held[p][k].fd] = [proc |-> p, key |-> k, lock |-> held[p][k].mode]
    BY <1>0, <1>2 DEF IInv, HandsDistinct, Backed, Entry
  <2>2. kern[fd[t]] # Closed /\ kern[held[p][k].fd] # Closed
    BY <1>0, <1>2, InUse
  <2>3. QED
    BY <1>0, <1>1, <2>1, <2>2, BothShared
<1>4. PICK e : e = [held[p][k] EXCEPT !.count = @ + 1]
  OBVIOUS
<1>5. /\ e \in Entry /\ e # NoEntry
      /\ e.mode = m /\ e.fd = held[p][k].fd /\ e.count = held[p][k].count + 1
  BY <1>2, <1>3, <1>4, NullAssumption DEF Entry
<1>6. held' = [held EXCEPT ![p][k] = e] /\ Entered(t)
  BY <1>1, <1>3, <1>4 DEF FindEntry
<1>7. /\ \A u \in Thread : pc'[u] = IF u = t THEN IF depth[t] + 1 < Levels(call[t])
                                            THEN "enter" ELSE "body"
                               ELSE pc[u]
      /\ \A u \in Thread : depth'[u] = IF u = t THEN depth[t] + 1 ELSE depth[u]
      /\ call' = call
      /\ \A u \in Thread : fd'[u] = IF u = t THEN NoFd ELSE fd[u]
      /\ \A g \in Fd : kern'[g] = IF g = fd[t] THEN Closed ELSE kern[g]
  BY <1>0, <1>6 DEF IInv, TypeOK, FindEntry, Entered
<1>8. \A q \in Process, kk \in Key :
        held'[q][kk] = IF q = p /\ kk = k THEN e ELSE held[q][kk]
  BY <1>6 DEF IInv, TypeOK
<1>9. TypeOK'
  <2>1. held' \in [Process -> [Key -> Entry \cup {NoEntry}]]
    BY <1>5, <1>6 DEF IInv, TypeOK
  <2>2. pc' \in [Thread -> {"idle", "enter", "flock", "register", "body",
                            "release", "unlock"}]
    BY <1>6 DEF IInv, TypeOK, Entered
  <2>3. depth' \in [Thread -> 0..2] /\ call' = call
    BY <1>0, <1>6 DEF IInv, TypeOK, Entered
  <2>4. fd' \in [Thread -> Fd \cup {NoFd}] /\ kern' \in [Fd -> FileDesc \cup {Closed}]
    BY <1>0 DEF IInv, TypeOK, FindEntry
  <2>5. QED
    BY <2>1, <2>2, <2>3, <2>4 DEF IInv, TypeOK
<1>10. PcOK'
  BY <1>0, <1>7 DEF IInv, PcOK
<1>11. HandOK'
  BY <1>0, <1>7 DEF IInv, TypeOK, HandOK, HandsDistinct, NextKey, NextMode
<1>12. HandsDistinct'
  BY <1>0, <1>2, <1>5, <1>7, <1>8, NullAssumption DEF IInv, TypeOK, Entry, HandsDistinct
<1>13. Backed'
  <2>1. ASSUME NEW q \in Process, NEW kk \in Key, held'[q][kk] # NoEntry
        PROVE  /\ held[q][kk] # NoEntry
               /\ held'[q][kk].fd = held[q][kk].fd
               /\ held'[q][kk].mode = held[q][kk].mode
    BY <1>2, <1>3, <1>5, <1>8, <2>1
  <2>2. ASSUME NEW q \in Process, NEW kk \in Key, held[q][kk] # NoEntry
        PROVE  kern'[held[q][kk].fd] = kern[held[q][kk].fd]
    BY <1>0, <1>7, <2>2, InUse DEF IInv, HandsDistinct
  <2>3. QED
    BY <2>1, <2>2 DEF IInv, Backed
<1>14. FlocksExclude'
  BY <1>0, <1>7 DEF IInv, FlocksExclude
<1>15. Counted'
  <2>1. AddsUser(p, k, m, e)
    BY <1>2, <1>3, <1>5, <1>6 DEF AddsUser
  <2>2. Gains(t, k, m)
    BY <1>0, <1>1, <1>6, EnteredHolds DEF IInv
  <2>3. QED
    BY <1>1, <2>1, <2>2, CountGain DEF IInv
<1>16. QED
  BY <1>1, <1>3, <1>9, <1>10, <1>11, <1>12, <1>13, <1>14, <1>15 DEF IInv

(* What both kinds of release start from.                                  *)
LEMMA ReleaseFacts ==
  ASSUME IInv, NEW t \in Thread, pc[t] = "release",
         NEW CONSTANT k, k = LevelKey(call[t], depth[t]),
         NEW CONSTANT m, m = LevelMode(call[t], depth[t])
  PROVE  /\ call[t] \in Calls /\ call[t] # NoCall
         /\ depth[t] \in 1..Levels(call[t]) /\ Levels(call[t]) \in 1..2
         /\ ProcOf[t] \in Process /\ k \in Key /\ m \in Mode
         /\ fd[t] = NoFd
         /\ held[ProcOf[t]][k] # NoEntry
         /\ held[ProcOf[t]][k] \in Entry
         /\ held[ProcOf[t]][k].mode = m
<1>1. /\ call[t] \in Calls /\ call[t] # NoCall
      /\ depth[t] \in 1..Levels(call[t]) /\ Levels(call[t]) \in 1..2
      /\ ProcOf[t] \in Process /\ k \in Key /\ m \in Mode
      /\ fd[t] = NoFd
  BY ActionFacts, CallTypes DEF IInv, PcOK
<1>2. HoldsIn(t, k, m)
  BY <1>1 DEF HoldsIn
<1>3. QED
  BY <1>1, <1>2, HeldEntry

(* A user that is not the last leaves its level; the entry stays.          *)
LEMMA ReleaseShareIInv ==
  ASSUME IInv, NEW t \in Thread, ReleaseShare(t)
  PROVE  IInv'
<1>1. PICK k, m : k = LevelKey(call[t], depth[t]) /\ m = LevelMode(call[t], depth[t])
  OBVIOUS
<1>2. pc[t] = "release"
  BY DEF ReleaseShare
<1>3. /\ call[t] \in Calls /\ call[t] # NoCall
      /\ depth[t] \in 1..Levels(call[t]) /\ Levels(call[t]) \in 1..2
      /\ ProcOf[t] \in Process /\ k \in Key /\ m \in Mode
      /\ fd[t] = NoFd
      /\ held[ProcOf[t]][k] # NoEntry /\ held[ProcOf[t]][k] \in Entry
  BY <1>1, <1>2, ReleaseFacts
<1>4. PICK p \in Process : p = ProcOf[t]
  BY <1>3
<1>5. PICK e : e = [held[p][k] EXCEPT !.count = @ - 1]
  OBVIOUS
<1>6. held[p][k].count > 1 /\ held' = [held EXCEPT ![p][k] = e]
  BY <1>1, <1>3, <1>4, <1>5 DEF ReleaseShare
<1>7. /\ e \in Entry /\ e # NoEntry
      /\ e.mode = held[p][k].mode /\ e.fd = held[p][k].fd
      /\ e.count = held[p][k].count - 1 /\ held[p][k].count # 1
  BY <1>3, <1>4, <1>5, <1>6, NullAssumption DEF Entry
<1>8. /\ \A u \in Thread : pc'[u] = IF u = t THEN LeaveTo(depth[t] - 1) ELSE pc[u]
      /\ \A u \in Thread : call'[u] = IF u = t /\ depth[t] = 1 THEN NoCall ELSE call[u]
      /\ \A u \in Thread : depth'[u] = IF u = t THEN depth[t] - 1 ELSE depth[u]
      /\ fd' = fd /\ kern' = kern
  BY <1>3 DEF IInv, TypeOK, ReleaseShare, Unwind
<1>9. \A q \in Process, kk \in Key :
        held'[q][kk] = IF q = p /\ kk = k THEN e ELSE held[q][kk]
  BY <1>3, <1>6 DEF IInv, TypeOK
<1>10. TypeOK'
  <2>1. held' \in [Process -> [Key -> Entry \cup {NoEntry}]]
    BY <1>3, <1>6, <1>7 DEF IInv, TypeOK
  <2>2. pc' \in [Thread -> {"idle", "enter", "flock", "register", "body",
                            "release", "unlock"}]
    BY DEF IInv, TypeOK, ReleaseShare, Unwind, LeaveTo
  <2>3. depth' \in [Thread -> 0..2] /\ call' \in [Thread -> Calls \cup {NoCall}]
    BY <1>3 DEF IInv, TypeOK, ReleaseShare, Unwind
  <2>4. QED
    BY <1>8, <2>1, <2>2, <2>3 DEF IInv, TypeOK
<1>11. PcOK'
  BY <1>2, <1>3, <1>8 DEF IInv, PcOK, LeaveTo
<1>12. HandOK'
  BY <1>3, <1>8 DEF IInv, HandOK, NextKey, NextMode, PcOK
<1>13. HandsDistinct'
  BY <1>3, <1>4, <1>7, <1>8, <1>9 DEF IInv, HandsDistinct
<1>14. Backed'
  BY <1>3, <1>4, <1>7, <1>8, <1>9 DEF IInv, Backed
<1>15. FlocksExclude'
  BY <1>8 DEF IInv, FlocksExclude
<1>16. Counted'
  <2>1. DropsUser(p, k, e)
    BY <1>6, <1>7 DEF DropsUser
  <2>2. Leaves(t)
    BY <1>8 DEF ReleaseShare, Leaves
  <2>3. TypeOK
    BY DEF IInv
  <2>4. Loses(t, k, m)
    BY <1>1, <1>3, <2>2, <2>3, LeftHolds
  <2>5. QED
    BY <1>3, <1>4, <2>1, <2>4, CountDrop DEF IInv
<1>17. QED
  BY <1>10, <1>11, <1>12, <1>13, <1>14, <1>15, <1>16 DEF IInv

(* The last user takes the description out of the registry to unlock it.   *)
LEMMA ReleaseLastIInv ==
  ASSUME IInv, NEW t \in Thread, ReleaseLast(t)
  PROVE  IInv'
<1>1. PICK k, m : k = LevelKey(call[t], depth[t]) /\ m = LevelMode(call[t], depth[t])
  OBVIOUS
<1>2. pc[t] = "release"
  BY DEF ReleaseLast
<1>3. /\ call[t] \in Calls /\ call[t] # NoCall
      /\ depth[t] \in 1..Levels(call[t]) /\ Levels(call[t]) \in 1..2
      /\ ProcOf[t] \in Process /\ k \in Key /\ m \in Mode
      /\ fd[t] = NoFd
      /\ held[ProcOf[t]][k] # NoEntry /\ held[ProcOf[t]][k] \in Entry
      /\ held[ProcOf[t]][k].mode = m
  BY <1>1, <1>2, ReleaseFacts
<1>4. PICK p \in Process, f \in Fd : p = ProcOf[t] /\ f = held[p][k].fd
  BY <1>3 DEF Entry
<1>5. /\ held[p][k].count = 1
      /\ held' = [held EXCEPT ![p][k] = NoEntry]
      /\ fd' = [fd EXCEPT ![t] = f]
  BY <1>1, <1>3, <1>4 DEF ReleaseLast
<1>6. /\ f # NoFd
      /\ kern[f] = [proc |-> p, key |-> k, lock |-> m]
      /\ \A u \in Thread : fd[u] # f
  BY <1>3, <1>4, NullAssumption DEF IInv, Backed, HandsDistinct
<1>7. \A q \in Process, kk \in Key :
        held[q][kk] # NoEntry /\ held[q][kk].fd = f => q = p /\ kk = k
  <2>1. kern[f].proc = p /\ kern[f].key = k
    BY <1>6
  <2>2. ASSUME NEW q \in Process, NEW kk \in Key, held[q][kk] # NoEntry,
               held[q][kk].fd = f
        PROVE  q = p /\ kk = k
    <3>1. kern[f] = [proc |-> q, key |-> kk, lock |-> held[q][kk].mode]
      BY <2>2 DEF IInv, Backed
    <3>2. kern[f].proc = q /\ kern[f].key = kk
      BY <3>1
    <3>3. QED
      BY <2>1, <3>2
  <2>3. QED
    BY <2>2
<1>8. /\ \A u \in Thread : pc'[u] = IF u = t THEN "unlock" ELSE pc[u]
      /\ \A u \in Thread : depth'[u] = IF u = t THEN depth[t] - 1 ELSE depth[u]
      /\ \A u \in Thread : fd'[u] = IF u = t THEN f ELSE fd[u]
      /\ call' = call /\ kern' = kern
  BY <1>3, <1>5 DEF IInv, TypeOK, ReleaseLast
<1>9. \A q \in Process, kk \in Key :
        held'[q][kk] = IF q = p /\ kk = k THEN NoEntry ELSE held[q][kk]
  BY <1>3, <1>5 DEF IInv, TypeOK
<1>10. TypeOK'
  <2>1. held' \in [Process -> [Key -> Entry \cup {NoEntry}]]
    BY <1>3, <1>5 DEF IInv, TypeOK
  <2>2. fd' \in [Thread -> Fd \cup {NoFd}]
    BY <1>5 DEF IInv, TypeOK
  <2>3. depth' \in [Thread -> 0..2]
    BY <1>3 DEF IInv, TypeOK, ReleaseLast
  <2>4. pc' \in [Thread -> {"idle", "enter", "flock", "register", "body",
                            "release", "unlock"}]
    BY DEF IInv, TypeOK, ReleaseLast
  <2>5. QED
    BY <1>8, <2>1, <2>2, <2>3, <2>4 DEF IInv, TypeOK
<1>11. PcOK'
  BY <1>2, <1>3, <1>6, <1>8 DEF IInv, PcOK
<1>12. HandOK'
  <2>1. ASSUME NEW u \in Thread, fd'[u] # NoFd
        PROVE  kern'[fd'[u]] = [proc |-> ProcOf[u],
                                key |-> LevelKey(call'[u], depth'[u] + 1),
                                lock |-> IF pc'[u] = "flock" THEN "none"
                                         ELSE LevelMode(call'[u], depth'[u] + 1)]
    <3>1. CASE u = t
      <4>1. depth'[t] + 1 = depth[t]
        BY <1>3, <1>8
      <4>2. QED
        BY <1>1, <1>4, <1>6, <1>8, <3>1, <4>1
    <3>2. CASE u # t
      BY <1>8, <2>1, <3>2 DEF IInv, HandOK, NextKey, NextMode
    <3>3. QED
      BY <3>1, <3>2
  <2>2. QED
    BY <2>1 DEF HandOK, NextKey, NextMode
<1>13. HandsDistinct'
  BY <1>4, <1>6, <1>7, <1>8, <1>9 DEF IInv, HandsDistinct
<1>14. Backed'
  BY <1>8, <1>9 DEF IInv, Backed
<1>15. FlocksExclude'
  BY <1>8 DEF IInv, FlocksExclude
<1>16. Counted'
  <2>1. DropsUser(p, k, NoEntry)
    BY <1>5 DEF DropsUser
  <2>2. Leaves(t)
    BY <1>8 DEF ReleaseLast, Leaves
  <2>3. TypeOK
    BY DEF IInv
  <2>4. Loses(t, k, m)
    BY <1>1, <1>3, <2>2, <2>3, LeftHolds
  <2>5. QED
    BY <1>3, <1>4, <2>1, <2>4, CountDrop DEF IInv
<1>17. QED
  BY <1>10, <1>11, <1>12, <1>13, <1>14, <1>15, <1>16 DEF IInv

(* The death of a process closes its descriptions and nobody else's.       *)
LEMMA DieIInv ==
  ASSUME IInv, NEW p \in Process, Die(p)
  PROVE  IInv'
<1>1. /\ \A u \in Thread : ProcOf[u] = p => /\ pc'[u] = "idle" /\ call'[u] = NoCall
                                           /\ depth'[u] = 0 /\ fd'[u] = NoFd
      /\ \A u \in Thread : ProcOf[u] # p => /\ pc'[u] = pc[u] /\ call'[u] = call[u]
                                           /\ depth'[u] = depth[u] /\ fd'[u] = fd[u]
      /\ \A q \in Process, k \in Key : held'[q][k] = IF q = p THEN NoEntry ELSE held[q][k]
      /\ \A f \in Fd : kern'[f] = IF kern[f] # Closed /\ kern[f].proc = p
                                  THEN Closed ELSE kern[f]
  BY DEF IInv, TypeOK, Die
<1>2. TypeOK'
  BY DEF IInv, TypeOK, Die
<1>3. PcOK'
  BY <1>1 DEF IInv, PcOK
<1>4. HandOK'
  <2>1. ASSUME NEW u \in Thread, fd'[u] # NoFd
        PROVE  /\ pc'[u] = pc[u] /\ call'[u] = call[u] /\ depth'[u] = depth[u]
               /\ fd'[u] = fd[u] /\ kern'[fd[u]] = kern[fd[u]]
    <3>1. ProcOf[u] # p
      BY <1>1, <2>1
    <3>2. fd'[u] = fd[u] /\ fd[u] # NoFd
      BY <1>1, <2>1, <3>1
    <3>3. fd[u] \in Fd /\ kern[fd[u]] = [proc |-> ProcOf[u], key |-> NextKey(u),
                  lock |-> IF pc[u] = "flock" THEN "none" ELSE NextMode(u)]
      BY <3>2, InUse DEF IInv, HandOK
    <3>4. kern[fd[u]].proc = ProcOf[u]
      BY <3>3
    <3>5. QED
      BY <1>1, <3>1, <3>3, <3>4
  <2>2. QED
    BY <2>1 DEF IInv, HandOK, NextKey, NextMode
<1>5. HandsDistinct'
  <2>1. \A u \in Thread : fd'[u] # NoFd => fd'[u] = fd[u]
    BY <1>1
  <2>2. \A q \in Process, k \in Key : held'[q][k] # NoEntry =>
          held'[q][k] = held[q][k] /\ held[q][k] \in Entry
    BY <1>1 DEF IInv, TypeOK
  <2>3. \A t, u \in Thread : fd'[t] # NoFd /\ fd'[t] = fd'[u] => t = u
    BY <2>1 DEF IInv, HandsDistinct
  <2>4. ASSUME NEW t \in Thread, NEW q \in Process, NEW k \in Key, held'[q][k] # NoEntry
        PROVE  fd'[t] # held'[q][k].fd
    <3>1. held'[q][k] = held[q][k] /\ held[q][k].fd \in Fd /\ fd[t] # held[q][k].fd
      BY <2>2, <2>4 DEF IInv, HandsDistinct, Entry
    <3>2. QED
      BY <2>1, <3>1, NullAssumption
  <2>5. QED
    BY <2>3, <2>4 DEF HandsDistinct
<1>6. Backed'
  <2>1. ASSUME NEW q \in Process, NEW k \in Key, held'[q][k] # NoEntry
        PROVE  held'[q][k] = held[q][k] /\ kern'[held[q][k].fd] = kern[held[q][k].fd]
    <3>1. q # p /\ held'[q][k] = held[q][k]
      BY <1>1, <2>1
    <3>2. /\ held[q][k].fd \in Fd
          /\ kern[held[q][k].fd] = [proc |-> q, key |-> k, lock |-> held[q][k].mode]
      BY <2>1, <3>1, InUse DEF IInv, Backed
    <3>3. kern[held[q][k].fd].proc = q
      BY <3>2
    <3>4. QED
      BY <1>1, <3>1, <3>2, <3>3
  <2>2. QED
    BY <2>1 DEF IInv, Backed
<1>7. FlocksExclude'
  BY <1>1 DEF IInv, FlocksExclude
<1>8. Counted'
  <2>1. \A u \in Thread, k \in Key, m \in Mode :
          HoldsIn(u, k, m)' <=> ProcOf[u] # p /\ HoldsIn(u, k, m)
    <3>1. 1..0 = {}
      OBVIOUS
    <3>2. QED
      BY <1>1, <3>1 DEF HoldsIn
  <2>2. \A k \in Key : Holders(p, k)' = {}
    BY <2>1 DEF Holders, Holds
  <2>3. ASSUME NEW q \in Process, NEW k \in Key, q # p
        PROVE  IF held'[q][k] = NoEntry
               THEN Holders(q, k)' = {}
               ELSE /\ held'[q][k].count = Cardinality(Holders(q, k)')
                    /\ \A u \in Holders(q, k)', m \in Mode :
                         HoldsIn(u, k, m)' => held'[q][k].mode = m
    <3>1. Holders(q, k)' = Holders(q, k) /\ held'[q][k] = held[q][k]
      BY <1>1, <2>1, <2>3 DEF Holders, Holds
    <3>2. \A u \in Holders(q, k), m \in Mode : HoldsIn(u, k, m)' => HoldsIn(u, k, m)
      BY <2>1 DEF Holders
    <3>3. QED
      BY <3>1, <3>2 DEF IInv, Counted
  <2>4. \A k \in Key : held'[p][k] = NoEntry
    BY <1>1
  <2>5. QED
    BY <2>2, <2>3, <2>4 DEF Counted
<1>9. QED
  BY <1>2, <1>3, <1>4, <1>5, <1>6, <1>7, <1>8 DEF IInv

-----------------------------------------------------------------------------
LEMMA NextIInv == IInv /\ [Next]_vars => IInv'
<1> SUFFICES ASSUME IInv, [Next]_vars PROVE IInv'
  OBVIOUS
<1>1. CASE \E t \in Thread, c \in Calls : Begin(t, c)
  BY <1>1, BeginIInv
<1>2. ASSUME NEW t \in Thread, Advance(t) PROVE IInv'
  BY <1>2, ReenterIInv, RefuseModeIInv, OpenFileIInv, TakeFlockIInv, TimeOutIInv,
     RegisterIInv, FindEntryIInv, EndBodyIInv, ReleaseShareIInv, ReleaseLastIInv,
     UnlockIInv DEF Advance
<1>3. CASE \E p \in Process : Die(p)
  BY <1>3, DieIInv
<1>4. CASE UNCHANGED vars
  <2>1. Counted'
    <3>1. \A u \in Thread, k \in Key, m \in Mode : HoldsIn(u, k, m)' <=> HoldsIn(u, k, m)
      BY <1>4 DEF vars, HoldsIn
    <3>2. held' = held /\ Counted
      BY <1>4 DEF vars, IInv
    <3>3. QED
      BY <3>1, <3>2, CountSame
  <2>2. (TypeOK /\ PcOK /\ HandOK /\ HandsDistinct /\ Backed /\ FlocksExclude)'
    BY <1>4 DEF vars, IInv, TypeOK, PcOK, HandOK, HandsDistinct, Backed, FlocksExclude,
                NextKey, NextMode
  <2>3. QED
    BY <2>1, <2>2 DEF IInv
<1>5. QED
  BY <1>1, <1>2, <1>3, <1>4 DEF Next

(* Every reachable state has well-typed variables, entries backed by a     *)
(* flock of their mode, exact user counts and excluding flocks.            *)
THEOREM Invariance == Spec => []IInv
  BY InitIInv, NextIInv, PTL DEF Spec

(* A thread inside k in mode m is backed by a flock of mode m on k that    *)
(* its process owns.                                                       *)
LEMMA HeldFlock ==
  ASSUME IInv, NEW t \in Thread, NEW CONSTANT k \in Key, NEW CONSTANT m \in Mode,
         HoldsIn(t, k, m)
  PROVE  \E f \in Fd : kern[f] = [proc |-> ProcOf[t], key |-> k, lock |-> m] /\ kern[f] # Closed
<1>1. /\ ProcOf[t] \in Process /\ held[ProcOf[t]][k] # NoEntry
      /\ held[ProcOf[t]][k].mode = m
  BY HeldEntry, ThreadAssumption
<1>2. kern[held[ProcOf[t]][k].fd] = [proc |-> ProcOf[t], key |-> k, lock |-> m]
  BY <1>1 DEF IInv, Backed
<1>3. held[ProcOf[t]][k].fd \in Fd /\ kern[held[ProcOf[t]][k].fd] # Closed
  BY <1>1, InUse
<1>4. QED
  BY <1>2, <1>3

LEMMA ExclusionStep == IInv => ProcessExclusion
<1> SUFFICES ASSUME IInv, NEW t \in Thread, NEW u \in Thread, NEW k \in Key,
                    ProcOf[t] # ProcOf[u], HoldsIn(t, k, "exclusive"),
                    NEW m \in Mode, HoldsIn(u, k, m)
             PROVE  FALSE
  BY DEF ProcessExclusion, Holds
<1>1. "exclusive" \in Mode
  BY DEF Mode
<1>2. PICK f \in Fd : kern[f] = [proc |-> ProcOf[t], key |-> k, lock |-> "exclusive"]
                      /\ kern[f] # Closed
  BY <1>1, HeldFlock
<1>3. PICK g \in Fd : kern[g] = [proc |-> ProcOf[u], key |-> k, lock |-> m]
                      /\ kern[g] # Closed
  BY HeldFlock
<1>4. /\ kern[f].proc = ProcOf[t] /\ kern[f].key = k /\ kern[f].lock = "exclusive"
      /\ kern[g].proc = ProcOf[u] /\ kern[g].key = k /\ kern[g].lock = m
  BY <1>2, <1>3
<1>5. f # g
  BY <1>4
<1>6. QED
  BY <1>2, <1>3, <1>4, <1>5 DEF IInv, FlocksExclude, Mode

(* Two processes are never inside one key unless both are readers.         *)
THEOREM Exclusion == Spec => []ProcessExclusion
  BY Invariance, ExclusionStep, PTL

(* A host_lock() transaction and a surface_lock() transaction of two       *)
(* processes never overlap.                                                *)
THEOREM HostExclusion == Spec => []HostExcludesSurfaceLocks
<1>1. IInv => HostExcludesSurfaceLocks
  <2> SUFFICES ASSUME IInv, NEW t \in Thread, NEW u \in Thread, ProcOf[t] # ProcOf[u],
                      pc[t] = "body", call[t].key = Host, call[t].mode = "exclusive",
                      pc[u] = "body", call[u].kind = "surface"
               PROVE  FALSE
    BY DEF HostExcludesSurfaceLocks
  <2>1. /\ call[t] \in Calls /\ depth[t] = Levels(call[t])
        /\ call[u] \in Calls /\ depth[u] = Levels(call[u])
    BY ActionFacts DEF IInv, PcOK
  <2>2. call[t].kind # "surface"
    BY <2>1, CallAssumption
  <2>3. HoldsIn(t, Host, "exclusive")
    BY <2>1, <2>2 DEF HoldsIn, Levels, LevelKey, LevelMode
  <2>4. HoldsIn(u, Host, "shared")
    BY <2>1 DEF HoldsIn, Levels, LevelKey, LevelMode
  <2>5. QED
    BY <2>3, <2>4, ExclusionStep, KeyAssumption DEF ProcessExclusion, Holds, Mode
<1>2. QED
  BY <1>1, Invariance, PTL

(* The RuntimeError raised after the flock is dead code.                   *)
THEOREM LateRefusalDead == Spec => []LateModeNeverDiffers
<1>1. IInv => LateModeNeverDiffers
  <2> SUFFICES ASSUME IInv, NEW t \in Thread, pc[t] = "register",
                      held[ProcOf[t]][NextKey(t)] # NoEntry
               PROVE  held[ProcOf[t]][NextKey(t)].mode = NextMode(t)
    BY DEF LateModeNeverDiffers
  <2>1. /\ ProcOf[t] \in Process /\ NextKey(t) \in Key /\ NextMode(t) \in Mode
        /\ fd[t] # NoFd
        /\ kern[fd[t]] = [proc |-> ProcOf[t], key |-> NextKey(t), lock |-> NextMode(t)]
    BY ActionFacts DEF IInv, PcOK, HandOK
  <2>2. PICK p \in Process, k \in Key : p = ProcOf[t] /\ k = NextKey(t)
    BY <2>1
  <2>3. /\ held[p][k].fd \in Fd /\ held[p][k].fd # fd[t] /\ held[p][k].mode \in Mode
        /\ kern[held[p][k].fd] = [proc |-> p, key |-> k, lock |-> held[p][k].mode]
    BY <2>2 DEF IInv, TypeOK, HandsDistinct, Backed, Entry
  <2>4. kern[fd[t]] # Closed /\ kern[held[p][k].fd] # Closed /\ fd[t] \in Fd
    BY <2>1, <2>2, InUse
  <2>5. QED
    BY <2>1, <2>2, <2>3, <2>4, BothShared
<1>2. QED
  BY <1>1, Invariance, PTL

-----------------------------------------------------------------------------
(* No descriptor leaks, and the waits never close a cycle.                 *)

InHand(f) == \E t \in Thread : fd[t] = f
Registered(f) == \E p \in Process, k \in Key : held[p][k] # NoEntry /\ held[p][k].fd = f

(* Counting another user leaves the entry's description registered.        *)
LEMMA Recounted ==
  ASSUME TypeOK, NEW p \in Process, NEW k \in Key, held[p][k] # NoEntry, NEW n \in Nat,
         held' = [held EXCEPT ![p][k] = [held[p][k] EXCEPT !.count = n]], NEW f, Registered(f)
  PROVE  Registered(f)'
<1>1. /\ held \in [Process -> [Key -> Entry \cup {NoEntry}]] /\ held[p][k] \in Entry
  BY DEF TypeOK
<1>2. PICK e : e = [held[p][k] EXCEPT !.count = n]
  OBVIOUS
<1>3. e # NoEntry /\ e.fd = held[p][k].fd
  BY <1>1, <1>2, NullAssumption DEF Entry
<1>4. \A q \in Process, kk \in Key : held'[q][kk] = IF q = p /\ kk = k THEN e ELSE held[q][kk]
  BY <1>1, <1>2
<1>5. QED
  BY <1>3, <1>4 DEF Registered

(* A thread's step moves a description from a hand to the registry or back, *)
(* or closes it.                                                            *)
LEMMA AdvanceKeepsFd ==
  ASSUME IInv, NEW t \in Thread, Advance(t), NEW f \in Fd, kern'[f] # Closed,
         kern[f] # Closed => InHand(f) \/ Registered(f)
  PROVE  (InHand(f) \/ Registered(f))'
<1>1. /\ fd \in [Thread -> Fd \cup {NoFd}] /\ kern \in [Fd -> FileDesc \cup {Closed}]
      /\ held \in [Process -> [Key -> Entry \cup {NoEntry}]] /\ TypeOK
      /\ f # NoFd /\ ProcOf[t] \in Process
      /\ pc[t] \in {"enter", "flock", "register", "unlock"} => NextKey(t) \in Key
      /\ pc[t] = "release" => LevelKey(call[t], depth[t]) \in Key
      /\ pc[t] \in {"enter", "body", "release"} => fd[t] = NoFd
      /\ pc[t] \in {"flock", "register", "unlock"} => fd[t] \in Fd
  BY ActionFacts, NullAssumption DEF IInv, TypeOK, PcOK
<1>2. CASE RefuseMode(t) \/ EndBody(t)
  BY <1>2 DEF RefuseMode, EndBody, InHand, Registered
<1>3. CASE Reenter(t)
  <2>1. PICK p \in Process, k \in Key : p = ProcOf[t] /\ k = NextKey(t)
    BY <1>1, <1>3 DEF Reenter
  <2>2. held[p][k] \in Entry /\ fd' = fd /\ kern' = kern
    BY <1>1, <1>3, <2>1 DEF Reenter
  <2>3. PICK n \in Nat : n = held[p][k].count + 1
    BY <2>2 DEF Entry
  <2>4. held' = [held EXCEPT ![p][k] = [held[p][k] EXCEPT !.count = n]] /\ held[p][k] # NoEntry
    BY <1>1, <1>3, <2>1, <2>3 DEF Reenter
  <2>5. QED
    BY <1>1, <2>2, <2>4, Recounted DEF InHand
<1>4. CASE ReleaseShare(t)
  <2>1. PICK p \in Process, k \in Key : p = ProcOf[t] /\ k = LevelKey(call[t], depth[t])
    BY <1>1, <1>4 DEF ReleaseShare
  <2>2. fd' = fd /\ kern' = kern
    BY <1>4 DEF ReleaseShare
  <2>3. CASE held[p][k] = NoEntry
    BY <1>4, <2>1, <2>2, <2>3 DEF ReleaseShare, InHand, Registered
  <2>4. CASE held[p][k] # NoEntry
    <3>1. held[p][k] \in Entry /\ held[p][k].count > 1
      BY <1>1, <1>4, <2>1, <2>4 DEF ReleaseShare
    <3>2. PICK n \in Nat : n = held[p][k].count - 1
      BY <3>1 DEF Entry
    <3>3. held' = [held EXCEPT ![p][k] = [held[p][k] EXCEPT !.count = n]]
      BY <1>1, <1>4, <2>1, <2>4, <3>2 DEF ReleaseShare
    <3>4. QED
      BY <1>1, <2>2, <2>4, <3>3, Recounted DEF InHand
  <2>5. QED
    BY <2>3, <2>4
<1>5. CASE OpenFile(t)
  <2>1. fd[t] = NoFd /\ held' = held
    BY <1>1, <1>5 DEF OpenFile
  <2>2. f = FreeFd \/ kern'[f] = kern[f]
    BY <1>1, <1>5 DEF OpenFile
  <2>3. fd' = [fd EXCEPT ![t] = FreeFd]
    BY <1>5 DEF OpenFile
  <2>4. QED
    BY <1>1, <2>1, <2>2, <2>3 DEF InHand, Registered
<1>6. CASE TakeFlock(t)
  <2>1. fd' = fd /\ held' = held /\ kern[f] # Closed
    BY <1>1, <1>6, InUse DEF TakeFlock
  <2>2. QED
    BY <2>1 DEF InHand, Registered
<1>7. CASE TimeOut(t) \/ Unlock(t)
  <2>1. /\ pc[t] \in {"flock", "unlock"} /\ fd' = [fd EXCEPT ![t] = NoFd] /\ held' = held
        /\ kern' = [kern EXCEPT ![fd[t]] = Closed]
    BY <1>7 DEF TimeOut, Unlock
  <2>2. f # fd[t] /\ kern'[f] = kern[f]
    BY <1>1, <2>1
  <2>3. QED
    BY <1>1, <2>1, <2>2 DEF InHand, Registered
<1>8. CASE Register(t)
  <2>1. PICK p \in Process, k \in Key : p = ProcOf[t] /\ k = NextKey(t)
    BY <1>1, <1>8 DEF Register
  <2>2. PICK e : e = [count |-> 1, mode |-> NextMode(t), fd |-> fd[t]]
    OBVIOUS
  <2>3. /\ held[p][k] = NoEntry /\ held' = [held EXCEPT ![p][k] = e] /\ e.fd = fd[t]
        /\ fd' = [fd EXCEPT ![t] = NoFd] /\ kern' = kern /\ pc[t] = "register"
    BY <1>8, <2>1, <2>2 DEF Register
  <2>4. held'[p][k] # NoEntry
    <3>1. NextMode(t) \in Mode /\ fd[t] \in Fd
      BY <1>1, <2>3, ActionFacts
    <3>2. e # NoEntry
      BY <2>2, <3>1, NullAssumption
    <3>3. QED
      BY <1>1, <2>3, <3>2
  <2>5. \A q \in Process, kk \in Key : held'[q][kk] = IF q = p /\ kk = k THEN e ELSE held[q][kk]
    BY <1>1, <2>3
  <2>6. QED
    BY <1>1, <2>3, <2>4, <2>5 DEF InHand, Registered
<1>9. CASE FindEntry(t)
  <2>1. PICK p \in Process, k \in Key : p = ProcOf[t] /\ k = NextKey(t)
    BY <1>1, <1>9 DEF FindEntry
  <2>2. /\ pc[t] = "register" /\ held[p][k] # NoEntry /\ held[p][k] \in Entry
        /\ fd' = [fd EXCEPT ![t] = NoFd] /\ kern' = [kern EXCEPT ![fd[t]] = Closed]
    BY <1>1, <1>9, <2>1 DEF FindEntry
  <2>3. f # fd[t] /\ kern'[f] = kern[f]
    BY <1>1, <2>2
  <2>4. PICK n \in Nat : n = held[p][k].count + 1
    BY <2>2 DEF Entry
  <2>5. held' = held \/ held' = [held EXCEPT ![p][k] = [held[p][k] EXCEPT !.count = n]]
    BY <1>1, <1>9, <2>1, <2>4 DEF FindEntry
  <2>6. Registered(f) => Registered(f)'
    <3>1. CASE held' = held
      BY <3>1 DEF Registered
    <3>2. CASE held' = [held EXCEPT ![p][k] = [held[p][k] EXCEPT !.count = n]]
      BY <1>1, <2>2, <3>2, Recounted
    <3>3. QED
      BY <2>5, <3>1, <3>2
  <2>7. InHand(f) => InHand(f)'
    BY <1>1, <2>2, <2>3 DEF InHand
  <2>8. QED
    BY <2>3, <2>6, <2>7
<1>10. CASE ReleaseLast(t)
  <2>1. PICK p \in Process, k \in Key : p = ProcOf[t] /\ k = LevelKey(call[t], depth[t])
    BY <1>1, <1>10 DEF ReleaseLast
  <2>2. /\ held[p][k] # NoEntry /\ fd[t] = NoFd /\ kern' = kern
        /\ fd' = [fd EXCEPT ![t] = held[p][k].fd] /\ held' = [held EXCEPT ![p][k] = NoEntry]
    BY <1>1, <1>10, <2>1 DEF ReleaseLast
  <2>3. \A q \in Process, kk \in Key : held'[q][kk] = IF q = p /\ kk = k THEN NoEntry ELSE held[q][kk]
    BY <1>1, <2>2
  <2>4. QED
    BY <1>1, <2>2, <2>3 DEF InHand, Registered
<1>11. QED
  BY <1>2, <1>3, <1>4, <1>5, <1>6, <1>7, <1>8, <1>9, <1>10 DEF Advance

(* A death closes what its process had in hand or registered, and no more. *)
LEMMA DieKeepsFd ==
  ASSUME IInv, NEW p \in Process, Die(p), NEW f \in Fd, kern'[f] # Closed,
         kern[f] # Closed => InHand(f) \/ Registered(f)
  PROVE  (InHand(f) \/ Registered(f))'
<1>1. /\ fd \in [Thread -> Fd \cup {NoFd}] /\ kern \in [Fd -> FileDesc \cup {Closed}]
      /\ held \in [Process -> [Key -> Entry \cup {NoEntry}]] /\ f # NoFd
  BY NullAssumption DEF IInv, TypeOK
<1>2. kern[f] # Closed /\ kern[f].proc # p
  BY <1>1 DEF Die
<1>3. ASSUME NEW t \in Thread, fd[t] = f PROVE InHand(f)'
  <2>1. kern[f].proc = ProcOf[t]
    <3>1. PICK k, l : kern[f] = [proc |-> ProcOf[t], key |-> k, lock |-> l]
      BY <1>1, <1>3 DEF IInv, HandOK
    <3>2. QED
      BY <3>1
  <2>2. fd'[t] = fd[t]
    BY <1>1, <1>2, <2>1 DEF Die
  <2>3. QED
    BY <1>3, <2>2 DEF InHand
<1>4. ASSUME NEW q \in Process, NEW k \in Key, held[q][k] # NoEntry, held[q][k].fd = f PROVE Registered(f)'
  <2>1. kern[f].proc = q
    <3>1. PICK l : kern[f] = [proc |-> q, key |-> k, lock |-> l]
      BY <1>4 DEF IInv, Backed
    <3>2. QED
      BY <3>1
  <2>2. held'[q][k] = held[q][k]
    BY <1>1, <1>2, <2>1 DEF Die
  <2>3. QED
    BY <1>4, <2>2 DEF Registered
<1>5. QED
  BY <1>2, <1>3, <1>4 DEF InHand, Registered

(* Every open description is in a hand or registered: whatever a call ends *)
(* with, a refusal, a timeout or a death, no flock outlives its user.      *)
THEOREM NothingLeaks == Spec => []NoLeak
<1>1. Init => NoLeak
  BY DEF Init, NoLeak
<1>2. ASSUME IInv, NoLeak, [Next]_vars PROVE NoLeak'
  <2> SUFFICES ASSUME NEW f \in Fd, kern'[f] # Closed PROVE (InHand(f) \/ Registered(f))'
    BY DEF NoLeak, InHand, Registered
  <2>1. kern[f] # Closed => InHand(f) \/ Registered(f)
    BY <1>2 DEF NoLeak, InHand, Registered
  <2>2. CASE \E t \in Thread, c \in Calls : Begin(t, c)
    BY <2>1, <2>2 DEF Begin, InHand, Registered
  <2>3. CASE \E t \in Thread : Advance(t)
    BY <1>2, <2>1, <2>3, AdvanceKeepsFd
  <2>4. CASE \E p \in Process : Die(p)
    BY <1>2, <2>1, <2>4, DieKeepsFd
  <2>5. CASE UNCHANGED vars
    BY <2>1, <2>5 DEF vars, InHand, Registered
  <2>6. QED
    BY <1>2, <2>2, <2>3, <2>4, <2>5 DEF Next
<1>3. QED
  BY <1>1, <1>2, Invariance, PTL DEF Spec

(* When every call waits for a flock, a flock that is taken belongs to a   *)
(* surface call that has Host and waits for its surface.                   *)
LEMMA WaitedFor ==
  ASSUME IInv, NoLeak, \A u \in Thread : pc[u] \in {"idle", "flock"},
         NEW g \in Fd, kern[g] # Closed, kern[g].lock # "none"
  PROVE  kern[g].key = Host /\ kern[g].lock = "shared" /\ \E u \in Thread : pc[u] = "flock" /\ NextKey(u) # Host
<1>1. ~InHand(g)
  <2> SUFFICES ASSUME NEW u \in Thread, fd[u] = g PROVE FALSE
    BY DEF InHand
  <2>1. g # NoFd
    BY NullAssumption
  <2>2. pc[u] = "flock"
    BY <2>1 DEF IInv, PcOK
  <2>3. PICK q, k : kern[g] = [proc |-> q, key |-> k, lock |-> "none"]
    BY <2>1, <2>2 DEF IInv, HandOK
  <2>4. QED
    BY <2>3
<1>2. PICK p \in Process, k \in Key : held[p][k] # NoEntry /\ held[p][k].fd = g
  BY <1>1 DEF NoLeak, InHand
<1>3. held[p][k] \in Entry /\ kern[g] = [proc |-> p, key |-> k, lock |-> held[p][k].mode]
  <2>1. held[p][k] \in Entry
    BY <1>2 DEF IInv, TypeOK
  <2>2. kern[held[p][k].fd] = [proc |-> p, key |-> k, lock |-> held[p][k].mode]
    BY <1>2 DEF IInv, Backed
  <2>3. QED
    BY <1>2, <2>1, <2>2
<1>4. PICK u \in Holders(p, k) : TRUE
  <2>1. Cardinality(Holders(p, k)) # 0
    BY <1>2, <1>3 DEF IInv, Counted, Entry
  <2>2. QED
    BY <2>1, FS_EmptySet
<1>5. PICK m \in Mode : HoldsIn(u, k, m)
  BY <1>4 DEF Holders, Holds
<1>6. u \in Thread /\ depth[u] \in 1..2 /\ held[p][k].mode = m
  <2>1. u \in Thread /\ depth[u] \in 0..2
    BY <1>4 DEF Holders, IInv, TypeOK
  <2>2. depth[u] # 0
    BY <2>1, <1>5 DEF HoldsIn
  <2>3. held[p][k].mode = m
    BY <1>2, <1>4, <1>5 DEF IInv, Counted
  <2>4. QED
    BY <2>1, <2>2, <2>3
<1>7. pc[u] = "flock" /\ call[u] \in Calls /\ depth[u] < Levels(call[u])
  BY <1>6, ActionFacts DEF IInv, PcOK
<1>8. call[u].kind = "surface" /\ depth[u] = 1
  BY <1>6, <1>7 DEF Levels
<1>9. k = Host /\ m = "shared"
  BY <1>5, <1>8 DEF HoldsIn, LevelKey, LevelMode
<1>10. NextKey(u) # Host
  BY <1>7, <1>8, CallAssumption DEF NextKey, LevelKey
<1>11. QED
  BY <1>3, <1>6, <1>7, <1>9, <1>10

(* A thread that may not have the flock waits for a description of the     *)
(* same file that has one.                                                 *)
LEMMA Blocked ==
  ASSUME IInv, NEW t \in Thread, pc[t] = "flock", ~Grantable(fd[t], NextMode(t))
  PROVE  \E g \in Fd : kern[g] # Closed /\ kern[g].lock # "none" /\ kern[g].key = NextKey(t)
<1>1. fd[t] # NoFd
  BY DEF IInv, PcOK
<1>2. PICK l : kern[fd[t]] = [proc |-> ProcOf[t], key |-> NextKey(t), lock |-> l]
  BY <1>1 DEF IInv, HandOK
<1>3. kern[fd[t]].key = NextKey(t)
  BY <1>2
<1>4. QED
  BY <1>3 DEF Grantable

(* Locks are taken in one order, Host before a surface and nothing after   *)
(* it, so no set of calls ever waits for itself: some thread can move      *)
(* without any timeout, for any threads, processes and keys.               *)
THEOREM NoDeadlock == Spec => []SomeoneMoves
<1>1. ASSUME IInv, NoLeak PROVE SomeoneMoves
  <2> SUFFICES ASSUME NEW t \in Thread, pc[t] # "idle",
                      \A u \in Thread : pc[u] # "idle" => pc[u] = "flock" /\ ~Grantable(fd[u], NextMode(u))
               PROVE  FALSE
    BY DEF SomeoneMoves
  <2>1. \A u \in Thread : pc[u] \in {"idle", "flock"}
    OBVIOUS
  <2>2. PICK g \in Fd : kern[g] # Closed /\ kern[g].lock # "none" /\ kern[g].key = NextKey(t)
    BY <1>1, Blocked
  <2>3. PICK u \in Thread : pc[u] = "flock" /\ NextKey(u) # Host
    BY <1>1, <2>1, <2>2, WaitedFor
  <2>4. PICK h \in Fd : kern[h] # Closed /\ kern[h].lock # "none" /\ kern[h].key = NextKey(u)
    BY <1>1, <2>3, Blocked
  <2>5. QED
    BY <1>1, <2>1, <2>3, <2>4, WaitedFor
<1>2. QED
  BY <1>1, Invariance, NothingLeaks, PTL

-----------------------------------------------------------------------------
(* The registry and the flocks implement DeployLockSpec.                   *)

SameHolds == \A u \in Thread, k \in Key, m \in Mode : HoldsIn(u, k, m)' <=> HoldsIn(u, k, m)

(* A step of a thread leaves all holdings alone, adds one level of one     *)
(* key, or removes one.                                                    *)
LEMMA AdvanceHolds ==
  ASSUME IInv, NEW t \in Thread, Advance(t)
  PROVE  \/ SameHolds
         \/ \E k \in Key, m \in Mode : Gains(t, k, m)
         \/ \E k \in Key, m \in Mode : Loses(t, k, m)
<1> TypeOK
  BY DEF IInv
<1>1. CASE OpenFile(t) \/ TakeFlock(t) \/ EndBody(t)
  <2>1. depth' = depth /\ call' = call
    BY <1>1 DEF OpenFile, TakeFlock, EndBody
  <2>2. QED
    BY <2>1 DEF SameHolds, HoldsIn
<1>2. CASE RefuseMode(t) \/ TimeOut(t) \/ Unlock(t)
  <2>1. depth' = depth /\ \A u \in Thread : depth[u] = 0 \/ call'[u] = call[u]
    BY <1>2 DEF RefuseMode, TimeOut, Unlock, Unwind, TypeOK
  <2>2. \A u \in Thread : depth[u] = 0 => 1..depth[u] = {}
    OBVIOUS
  <2>3. QED
    BY <2>1, <2>2 DEF SameHolds, HoldsIn
<1>3. CASE Reenter(t) \/ Register(t) \/ FindEntry(t)
  <2>1. /\ call[t] \in Calls /\ depth[t] < Levels(call[t])
        /\ NextKey(t) \in Key /\ NextMode(t) \in Mode
    BY <1>3, ActionFacts DEF IInv, PcOK, Reenter, Register, FindEntry
  <2>2. Entered(t)
    BY <1>3, FindEntryIInv DEF Reenter, Register, FindEntry
  <2>3. PICK k \in Key, m \in Mode : k = NextKey(t) /\ m = NextMode(t)
    BY <2>1
  <2>4. Gains(t, k, m)
    BY <2>1, <2>2, <2>3, EnteredHolds
  <2>5. QED
    BY <2>4
<1>4. CASE ReleaseShare(t) \/ ReleaseLast(t)
  <2>1. pc[t] = "release" /\ depth' = [depth EXCEPT ![t] = @ - 1]
    BY <1>4 DEF ReleaseShare, ReleaseLast
  <2>2. PICK k, m : k = LevelKey(call[t], depth[t]) /\ m = LevelMode(call[t], depth[t])
    OBVIOUS
  <2>3. /\ call[t] \in Calls /\ depth[t] \in 1..Levels(call[t])
        /\ k \in Key /\ m \in Mode
    BY <2>1, <2>2, ReleaseFacts
  <2>4. \A u \in Thread : u # t \/ depth[t] # 1 => call'[u] = call[u]
    BY <1>4, <2>3, CallTypes DEF ReleaseShare, ReleaseLast, Unwind, TypeOK
  <2>5. Loses(t, k, m)
    BY <2>1, <2>2, <2>3, <2>4, LeftHolds DEF Leaves
  <2>6. QED
    BY <2>3, <2>5
<1>5. QED
  BY <1>1, <1>2, <1>3, <1>4 DEF Advance

(* A thread holds a key in one mode.                                       *)
LEMMA OneMode ==
  ASSUME IInv, NEW t \in Thread, NEW k \in Key
  PROVE  ~(HoldsIn(t, k, "shared") /\ HoldsIn(t, k, "exclusive"))
  BY HeldEntry DEF Mode

(* What else a thread may hold when another holds k in mode m.             *)
LEMMA Compatible ==
  ASSUME IInv, NEW t \in Thread, NEW u \in Thread, NEW k \in Key, NEW m \in Mode,
         HoldsIn(t, k, m)
  PROVE  \/ Using(u, k) = "none"
         \/ ProcOf[u] = ProcOf[t] /\ Using(u, k) = m
         \/ ProcOf[u] # ProcOf[t] /\ Using(u, k) = "shared" /\ m = "shared"
<1>1. CASE Using(u, k) = "none"
  BY <1>1
<1>2. ASSUME NEW mm \in Mode, HoldsIn(u, k, mm)
      PROVE  \/ ProcOf[u] = ProcOf[t] /\ mm = m
             \/ ProcOf[u] # ProcOf[t] /\ mm = "shared" /\ m = "shared"
  <2>1. CASE ProcOf[u] = ProcOf[t]
    BY <1>2, <2>1, HeldEntry
  <2>2. CASE ProcOf[u] # ProcOf[t]
    BY <1>2, <2>2, ExclusionStep DEF ProcessExclusion, Holds, Mode
  <2>3. QED
    BY <2>1, <2>2
<1>3. CASE HoldsIn(u, k, "exclusive")
  BY <1>2, <1>3 DEF Using, Mode
<1>4. CASE ~HoldsIn(u, k, "exclusive") /\ HoldsIn(u, k, "shared")
  BY <1>2, <1>4 DEF Using, Mode
<1>5. QED
  BY <1>1, <1>3, <1>4 DEF Using

(* The same for every thread and key, closed, so that it can be primed.    *)
AllCompatible ==
  \A t, u \in Thread, k \in Key, m \in Mode :
    HoldsIn(t, k, m) =>
      \/ Using(u, k) = "none"
      \/ ProcOf[u] = ProcOf[t] /\ Using(u, k) = m
      \/ ProcOf[u] # ProcOf[t] /\ Using(u, k) = "shared" /\ m = "shared"

LEMMA CompatibleNow == IInv => AllCompatible
  BY Compatible DEF AllCompatible

LEMMA RefineInit == Init => Abstract!Init
<1> SUFFICES ASSUME Init PROVE Abstract!Init
  OBVIOUS
<1>1. \A t \in Thread, k \in Key : Using(t, k) = "none"
  <2>1. \A t \in Thread : depth[t] = 0 /\ 1..0 = {}
    BY DEF Init
  <2>2. QED
    BY <2>1 DEF Using, HoldsIn
<1>2. QED
  BY <1>1 DEF Abstract!Init

(* A step that leaves all holdings alone is a stutter.                     *)
LEMMA RefineStutter ==
  ASSUME SameHolds
  PROVE  [t \in Thread |-> [k \in Key |-> Using(t, k)]]'
           = [t \in Thread |-> [k \in Key |-> Using(t, k)]]
<1>1. \A t \in Thread, k \in Key : Using(t, k)' = Using(t, k)
  BY DEF SameHolds, Using, Mode
<1>2. QED
  BY <1>1

LEMMA RefineAcquire ==
  ASSUME IInv, IInv', NEW t \in Thread, NEW k \in Key, NEW m \in Mode, Gains(t, k, m)
  PROVE  Abstract!Acquire(t, k, m)
<1>1. Using(t, k) = "none"
  BY DEF Gains, Using, Holds, Mode
<1>2. HoldsIn(t, k, m)'
  BY DEF Gains
<1>3. Using(t, k)' = m
  BY DEF Gains, Using, Holds, Mode
<1>4. \A u \in Thread, kk \in Key : u # t \/ kk # k => Using(u, kk)' = Using(u, kk)
  BY DEF Gains, Using, Mode
<1>5. \A u \in Thread :
        \/ Using(u, k)' = "none"
        \/ ProcOf[u] = ProcOf[t] /\ Using(u, k)' = m
        \/ ProcOf[u] # ProcOf[t] /\ Using(u, k)' = "shared" /\ m = "shared"
  <2>1. AllCompatible'
    BY CompatibleNow, PTL
  <2>2. QED
    BY <2>1, <1>2 DEF AllCompatible
<1>6. QED
  BY <1>1, <1>2, <1>3, <1>4, <1>5 DEF Abstract!Acquire, Abstract!Allowed

LEMMA RefineRelease ==
  ASSUME IInv, NEW t \in Thread, NEW k \in Key, NEW m \in Mode, Loses(t, k, m)
  PROVE  Abstract!Release(t, k)
<1>1. Using(t, k) # "none"
  BY DEF Loses, Using, Mode
<1>2. Using(t, k)' = "none"
  BY DEF Loses, Using, Holds, Mode
<1>3. \A u \in Thread, kk \in Key : u # t \/ kk # k => Using(u, kk)' = Using(u, kk)
  BY DEF Loses, Using, Mode
<1>4. QED
  BY <1>1, <1>2, <1>3 DEF Abstract!Release

LEMMA RefineDie ==
  ASSUME IInv, NEW p \in Process, Die(p)
  PROVE  Abstract!Die(p)
<1>1. \A u \in Thread : ProcOf[u] = p => depth'[u] = 0 /\ 1..0 = {}
  BY DEF Die
<1>2. \A u \in Thread : ProcOf[u] # p => depth'[u] = depth[u] /\ call'[u] = call[u]
  BY DEF IInv, TypeOK, Die
<1>3. \A u \in Thread, k \in Key :
        Using(u, k)' = IF ProcOf[u] = p THEN "none" ELSE Using(u, k)
  BY <1>1, <1>2 DEF Using, HoldsIn
<1>4. QED
  BY <1>3 DEF Abstract!Die

(* Every behaviour of DeployLock is, seen through Using, a behaviour of    *)
(* the readers/writer lock between processes.                              *)
THEOREM Refinement == Spec => ImplementsSpec
<1>1. IInv /\ IInv' /\ [Next]_vars =>
        [Abstract!Next]_([t \in Thread |-> [k \in Key |-> Using(t, k)]])
  <2> SUFFICES ASSUME IInv, IInv', [Next]_vars
               PROVE  [Abstract!Next]_([t \in Thread |-> [k \in Key |-> Using(t, k)]])
    OBVIOUS
  <2>1. CASE SameHolds
    BY <2>1, RefineStutter
  <2>2. ASSUME NEW t \in Thread, NEW c \in Calls, Begin(t, c) PROVE SameHolds
    <3>1. depth' = depth /\ \A u \in Thread : depth[u] = 0 \/ call'[u] = call[u]
      BY <2>2 DEF Begin, IInv, TypeOK, PcOK
    <3>2. \A u \in Thread : depth[u] = 0 => 1..depth[u] = {}
      OBVIOUS
    <3>3. QED
      BY <3>1, <3>2 DEF SameHolds, HoldsIn
  <2>3. CASE \E t \in Thread, k \in Key, m \in Mode : Gains(t, k, m)
    BY <2>3, RefineAcquire DEF Abstract!Next, Abstract!Mode, Mode
  <2>4. CASE \E t \in Thread, k \in Key, m \in Mode : Loses(t, k, m)
    BY <2>4, RefineRelease DEF Abstract!Next
  <2>5. CASE \E p \in Process : Die(p)
    BY <2>5, RefineDie DEF Abstract!Next
  <2>6. CASE UNCHANGED vars
    <3>1. SameHolds
      BY <2>6 DEF vars, SameHolds, HoldsIn
    <3>2. QED
      BY <2>1, <3>1
  <2>7. QED
    BY <2>1, <2>2, <2>3, <2>4, <2>5, <2>6, AdvanceHolds DEF Next
<1>2. QED
  BY <1>1, RefineInit, Invariance, PTL DEF Spec, ImplementsSpec, Abstract!Spec
=============================================================================
