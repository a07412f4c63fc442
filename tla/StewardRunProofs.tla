---------------------------- MODULE StewardRunProofs ----------------------------
(***************************************************************************)
(* Proofs about StewardRun, for any of main's phases and any number of     *)
(* edits, launches and reboots.                                            *)
(*                                                                         *)
(* RunInv is inductive: the types, and what holds of a process that has    *)
(* had the run directory to itself.  A step of a process concerns one      *)
(* phase, the one it is at: the phases behind it keep their rows and       *)
(* files, because none of them is given what a later one writes.           *)
(***************************************************************************)
EXTENDS StewardRun, TLAPS

RunInv == RunTypeOK /\ Undisturbed

-----------------------------------------------------------------------------
(* The order of the phases *)

LEMMA AllPhasesAre ==
    /\ Len(AllPhases) = 15
    /\ \A i, j \in 1..15 : AllPhases[i] = AllPhases[j] => i = j
<1>1. Len(AllPhases) = 15
  BY DEF AllPhases
<1>2. \A i, j \in 1..15 : AllPhases[i] = AllPhases[j] => i = j
  BY DEF AllPhases
<1> QED  BY <1>1, <1>2

(* main gives a phase only what earlier ones wrote. *)
LEMMA GivenEarlier ==
    ASSUME NEW i \in 1..15, NEW q \in GivenTo[AllPhases[i]]
    PROVE  \E j \in 1..15 : j < i /\ AllPhases[j] = q
  BY DEF GivenTo, AllPhases, ToSet

(* What a phase at i is given is in the order, before i. *)
LEMMA OrderFacts ==
    /\ Len(Order) \in Nat \ {0} /\ Order \in Seq(Phase)
    /\ \A i \in 1..Len(Order) : Order[i] \in Phase
    /\ \A p \in Phase : \E i \in 1..Len(Order) : Order[i] = p
    /\ \A i, j \in 1..Len(Order) : Order[i] = Order[j] => i = j
    /\ \A i \in 1..Len(Order) : \A q \in Upstream(Order[i]) : \E j \in 1..Len(Order) : j < i /\ Order[j] = q
    /\ Order[1] = "setup"
<1>1. /\ Order \in Seq(ToSet(AllPhases)) /\ Len(Order) \in Nat /\ DOMAIN Order = 1..Len(Order)
      /\ Phase = ToSet(Order) /\ "setup" \in Phase
  BY OrderAssumption
<1>2. PICK place \in [1..Len(Order) -> 1..15] :
         /\ \A i \in 1..Len(Order) : Order[i] = AllPhases[place[i]]
         /\ \A i, j \in 1..Len(Order) : i < j => place[i] < place[j]
  BY OrderAssumption, AllPhasesAre
<1>3. Phase = {Order[i] : i \in 1..Len(Order)}
  BY <1>1 DEF ToSet
<1>4. Len(Order) # 0
  BY <1>1, <1>3
<1>5. \A i, j \in 1..Len(Order) : place[i] = place[j] => i = j
  BY <1>1, <1>2
<1>6. ASSUME NEW i \in 1..Len(Order), NEW j \in 1..Len(Order), Order[i] = Order[j]
      PROVE  i = j
  <2>1. place[i] \in 1..15 /\ place[j] \in 1..15 /\ AllPhases[place[i]] = AllPhases[place[j]]
    BY <1>2, <1>6
  <2>2. place[i] = place[j]
    BY <2>1, AllPhasesAre
  <2> QED  BY <1>5, <2>2
<1>7. ASSUME NEW i \in 1..Len(Order), NEW q \in Upstream(Order[i])
      PROVE  \E j \in 1..Len(Order) : j < i /\ Order[j] = q
  <2>1. PICK j \in 1..Len(Order) : Order[j] = q
    BY <1>3, <1>7 DEF Upstream
  <2>2. PICK k \in 1..15 : k < place[i] /\ AllPhases[k] = q
    BY <1>2, <1>7, GivenEarlier DEF Upstream
  <2>. /\ place[j] \in 1..15 /\ place[i] \in 1..15
       /\ AllPhases[place[j]] = AllPhases[k]
    BY <1>2, <2>1, <2>2
  <2>3. place[j] = k
    BY AllPhasesAre
  <2>4. j < i
    BY <1>1, <1>2, <2>2, <2>3
  <2> QED  BY <2>1, <2>4
<1>8. Order[1] = "setup"
  <2>1. PICK i \in 1..Len(Order) : Order[i] = "setup"
    BY <1>1, <1>3
  <2>2. AllPhases[1] = "setup"
    BY DEF AllPhases
  <2>. place[i] \in 1..15 /\ AllPhases[place[i]] = AllPhases[1]
    BY <1>2, <2>1, <2>2
  <2>3. place[i] = 1
    BY AllPhasesAre
  <2>4. i = 1
    BY <1>1, <1>2, <2>3
  <2> QED  BY <2>1, <2>4
<1>9. Order \in Seq(Phase)
  BY <1>1, <1>3
<1> QED  BY <1>1, <1>3, <1>4, <1>6, <1>7, <1>8, <1>9

-----------------------------------------------------------------------------
(* The types *)

(* RunTypeOK in two parts: the processes, and what they share. *)
Typed(q) ==
    /\ \E p \in Phase : q \in Process(p)
    /\ q.pc \in AtPhase => q.at \in 1..Len(Order)
    /\ q.pc \in AtWork => q.inputs \in Inputs(Order[q.at])
    /\ q.pc \in Operating => q.att # 0

Shared ==
    /\ file \in [Phase -> Contents] /\ lock = NoClient
    /\ row = [p \in Phase |-> row[p]] /\ \A p \in Phase : row[p] \in {NoRow} \cup Rows(p)
    /\ source \in Source
    /\ {pending, webhook, required, due, overlap} \subseteq BOOLEAN

LEMMA TypeParts ==
    RunTypeOK <=> Shared /\ proc = [c \in Client |-> proc[c]] /\ \A c \in Client : Typed(proc[c])
  BY DEF RunTypeOK, Shared, Typed, Ph

LEMMA TypePartsNext ==
    RunTypeOK' <=> Shared' /\ proc' = [c \in Client |-> proc'[c]] /\ \A c \in Client : Typed(proc'[c])
  BY DEF RunTypeOK, Shared, Typed, Ph

(* A step of one process. *)
LEMMA OneProcess ==
    ASSUME RunTypeOK, NEW c \in Client, NEW q, proc' = [proc EXCEPT ![c] = q], Typed(q), Shared'
    PROVE  RunTypeOK'
<1>1. proc = [d \in Client |-> proc[d]] /\ \A d \in Client : Typed(proc[d])
  BY TypeParts
<1>2. proc' = [d \in Client |-> proc'[d]] /\ proc'[c] = q /\ \A d \in Client : d # c => proc'[d] = proc[d]
  BY <1>1
<1> QED  BY <1>1, <1>2, TypePartsNext

LEMMA IsTyped ==
    ASSUME RunTypeOK, NEW c \in Client
    PROVE  Typed(proc[c]) /\ Shared /\ proc = [d \in Client |-> proc[d]]
  BY TypeParts

LEMMA Cleared ==
    ASSUME NEW p \in Phase, NEW q \in Process(p)
    PROVE  Clear(q) \in Process(p) /\ Clear(q).pc = q.pc /\ Clear(q).at = q.at /\ Clear(q).code = q.code
<1>. DEFINE part == [q EXCEPT !.inputs = NoRow, !.before = NoFile, !.att = 0, !.out = "none"]
<1>1. NoFile \in Contents
  BY DEF Contents
<1>2. part \in Process(p) /\ part.pc = q.pc /\ part.at = q.at /\ part.code = q.code
  BY <1>1 DEF Process
<1>3. Clear(q) = [part EXCEPT !.val = 0]
  BY DEF Clear, Process
<1>. HIDE DEF part
<1> QED  BY <1>2, <1>3 DEF Process

LEMMA ClearTyped ==
    ASSUME NEW q, Typed(q)
    PROVE  /\ \E p \in Phase : Clear(q) \in Process(p)
           /\ Clear(q).pc = q.pc /\ Clear(q).at = q.at /\ Clear(q).code = q.code
           /\ Typed(Crashed(q)) /\ Crashed(q).pc = "crashed" /\ Crashed(q).at = q.at
<1>1. PICK p \in Phase : q \in Process(p)
  BY DEF Typed
<1>2. Clear(q) \in Process(p) /\ Clear(q).pc = q.pc /\ Clear(q).at = q.at /\ Clear(q).code = q.code
  BY <1>1, Cleared
<1>3. Crashed(q) \in Process(p) /\ Crashed(q).pc = "crashed" /\ Crashed(q).at = q.at
  BY <1>1, <1>2 DEF Process, Crashed, Ending
<1>4. Typed(Crashed(q))
  BY <1>3 DEF Typed, AtPhase, AtWork, Operating
<1> QED  BY <1>2, <1>3, <1>4

(* The step after a phase. *)
LEMMA AfterTyped ==
    ASSUME NEW q, Typed(q), q.pc \in AtPhase
    PROVE  /\ Typed(After(q)) /\ After(q).at = q.at + 1 /\ After(q).code = q.code
           /\ After(q).pc \in {"end", "reload", "reboot", "inputs"}
           /\ After(q).pc = "reload" => Order[q.at] = "fixes"
           /\ After(q).pc # "end" => After(q).at \in 1..Len(Order)
<1>1. PICK p \in Phase : q \in Process(p)
  BY DEF Typed
<1>2. q.at \in 1..Len(Order) /\ Len(Order) \in Nat
  BY OrderFacts DEF Typed
<1>. DEFINE moved == [q EXCEPT !.at = @ + 1]
            next == Clear(moved)
<1>3. moved \in Process(p) /\ moved.at = q.at + 1 /\ moved.code = q.code
  BY <1>1, <1>2 DEF Process
<1>. HIDE DEF moved
<1>4. next \in Process(p) /\ next.at = q.at + 1 /\ next.code = q.code
  BY <1>3, Cleared
<1>. USE DEF moved
<1>5. PICK pc \in {"end", "reload", "reboot", "inputs"} :
         /\ After(q) = [next EXCEPT !.pc = pc]
         /\ pc = "reload" => Order[q.at] = "fixes"
         /\ pc # "end" => q.at # Len(Order)
  BY DEF After
<1>. HIDE DEF next
<1>6. After(q) \in Process(p) /\ After(q).pc = pc /\ After(q).at = q.at + 1 /\ After(q).code = q.code
  BY <1>4, <1>5 DEF Process, AtPhase
<1>7. After(q).pc \notin AtWork /\ (pc # "end" => After(q).at \in 1..Len(Order))
  BY <1>2, <1>5, <1>6 DEF AtWork
<1>8. Typed(After(q))
  BY <1>5, <1>6, <1>7 DEF Typed, AtPhase, Operating, AtWork
<1> QED  BY <1>5, <1>6, <1>7, <1>8

(* What is written: a content, and the row of one phase. *)
LEMMA ContentTyped ==
    /\ NoFile \in Contents
    /\ \A kind \in Kinds, val \in Nat : Content(kind, val) \in Contents
  BY DEF Contents, Content

LEMMA FileTyped ==
    ASSUME Shared, NEW p \in Phase, NEW f \in Contents, file' = [file EXCEPT ![p] = f]
    PROVE  /\ file' \in [Phase -> Contents] /\ file'[p] = f
           /\ \A q \in Phase : q # p => file'[q] = file[q]
  BY DEF Shared

LEMMA RowTyped ==
    ASSUME Shared, NEW p \in Phase, NEW r \in Rows(p), row' = [row EXCEPT ![p] = r]
    PROVE  /\ row' = [q \in Phase |-> row'[q]] /\ \A q \in Phase : row'[q] \in {NoRow} \cup Rows(q)
           /\ row'[p] = r /\ r # NoRow
           /\ \A q \in Phase : q # p => row'[q] = row[q]
<1>1. row = [q \in Phase |-> row[q]] /\ \A q \in Phase : row[q] \in {NoRow} \cup Rows(q)
  BY DEF Shared
<1>2. DOMAIN row = Phase
  BY <1>1
<1>3. row' = [q \in Phase |-> IF q = p THEN r ELSE row[q]]
  BY <1>1, <1>2
<1> QED  BY <1>1, <1>3, RunNullsAssumption

LEMMA PhaseOf ==
    ASSUME RunTypeOK, NEW c \in Client, proc[c].pc \in AtPhase
    PROVE  Ph(c) \in Phase /\ proc[c].at \in 1..Len(Order) /\ Len(Order) \in Nat
  BY IsTyped, OrderFacts DEF Typed, Ph

(* What an attempt leaves on disk. *)
LEMMA WrittenTyped ==
    ASSUME RunTypeOK, NEW c \in Client, proc[c].pc \in AtPhase
    PROVE  Written(c) \in Contents
<1>1. Ph(c) \in Phase /\ file[Ph(c)] \in Contents /\ proc[c].val \in Nat
  BY PhaseOf, IsTyped DEF Typed, Shared, Process
<1>2. /\ Content("data", proc[c].val) \in Contents /\ Content("skipped", 0) \in Contents
      /\ Content("empty", 0) \in Contents
  BY <1>1, ContentTyped DEF Kinds
<1> QED  BY <1>1, <1>2 DEF Written

-----------------------------------------------------------------------------
(* The steps keep the types *)

LEMMA Begins == RunInit => RunInv
<1>. SUFFICES ASSUME RunInit PROVE RunInv
  OBVIOUS
<1>. USE StewardRunAssumption
<1>1. Shared
  BY ContentTyped DEF RunInit, StateInit, Shared, Source
<1>2. PICK p \in Phase : p = "setup"
  BY OrderAssumption
<1>3. Off \in Process(p) /\ Off.pc = "off"
  BY ContentTyped DEF Off, Process, Source
<1>4. Typed(Off)
  BY <1>3 DEF Typed, AtPhase, AtWork, Operating
<1>5. RunTypeOK
  BY <1>1, <1>4, TypeParts DEF RunInit
<1>6. \A c \in Client : proc[c].pc = "off"
  BY <1>3 DEF RunInit
<1>7. RowMatchesFile
  BY DEF RowMatchesFile, RunInit, StateInit
<1>8. Undisturbed
  BY <1>6, <1>7 DEF Undisturbed, Running, Owned, Given, Behind, OneSource, Ends, AtWork, Operating
<1> QED  BY <1>5, <1>8 DEF RunInv

(* A step that only moves a process. *)
LEMMA MovesTyped ==
    ASSUME RunTypeOK, NEW c \in Client, NEW pc \in AtPhase \cup Ending \cup {"off", "end"},
           proc[c].pc \in AtPhase \/ pc \notin AtPhase,
           pc \in AtWork => proc[c].pc \in AtWork,
           pc \in Operating => proc[c].pc \in Operating
    PROVE  Typed([proc[c] EXCEPT !.pc = pc]) /\ [proc[c] EXCEPT !.pc = pc].at = proc[c].at
<1>1. Typed(proc[c])
  BY IsTyped
<1>2. PICK p \in Phase : proc[c] \in Process(p)
  BY <1>1 DEF Typed
<1>. DEFINE r == [proc[c] EXCEPT !.pc = pc]
<1>3. /\ r \in Process(p) /\ r.pc = pc /\ r.at = proc[c].at /\ r.inputs = proc[c].inputs /\ r.att = proc[c].att
  BY <1>2 DEF Process
<1>. HIDE DEF r
<1>4. Typed(r)
  BY <1>1, <1>3 DEF Typed
<1> QED  BY <1>3, <1>4 DEF r

(* A step of the process that has the run directory to itself. *)
Sound(c) == Owned(c) /\ Given(c) /\ Behind(c) /\ OneSource(c) /\ Ends(c)

LEMMA Alone ==
    ASSUME RunInv, ~overlap, NEW c \in Client, Running(c)
    PROVE  RowMatchesFile /\ Sound(c) /\ \A d \in Client : d # c => proc[d].pc = "off"
  BY DEF RunInv, Undisturbed, Running, Sound

LEMMA OneMoves ==
    ASSUME RunInv, NEW c \in Client, Running(c), NEW q, proc' = [proc EXCEPT ![c] = q], Typed(q), Shared',
           overlap' = overlap, ~overlap => RowMatchesFile' /\ Sound(c)'
    PROVE  RunInv'
<1>1. RunTypeOK'
  BY OneProcess DEF RunInv
<1>2. ASSUME ~overlap PROVE Undisturbed'
  <2>1. \A d \in Client : d # c => proc'[d].pc = "off"
    BY <1>2, Alone, IsTyped DEF RunInv
  <2>2. \A d \in Client : d # c => Sound(d)'
    BY <2>1 DEF Sound, Owned, Given, Behind, OneSource, Ends, AtWork, Operating
  <2>3. \A d \in Client : Sound(d)'
    BY <2>2, <1>2
  <2> QED  BY <1>2, <2>1, <2>3 DEF Undisturbed, Running, Sound
<1> QED  BY <1>1, <1>2 DEF RunInv, Undisturbed

(* Nothing is written behind the process: Kept is the part of a step that *)
(* leaves the phases before number n as they were.                        *)
Kept(n) == \A i \in 1..(n - 1) : row'[Order[i]] = row[Order[i]] /\ file'[Order[i]] = file[Order[i]]

LEMMA OnlyHere ==
    ASSUME NEW n \in 1..Len(Order), \A p \in Phase : p # Order[n] => row'[p] = row[p] /\ file'[p] = file[p]
    PROVE  /\ Kept(n)
           /\ \A q \in Upstream(Order[n]) : q \in Phase /\ q # Order[n] /\ file'[q] = file[q]
<1>1. Len(Order) \in Nat
  BY OrderFacts
<1>2. ASSUME NEW i \in 1..(n - 1)
      PROVE  row'[Order[i]] = row[Order[i]] /\ file'[Order[i]] = file[Order[i]]
  <2>1. i \in 1..Len(Order) /\ i # n
    BY <1>1, <1>2
  <2>2. Order[i] # Order[n] /\ Order[i] \in Phase
    BY <2>1, OrderFacts
  <2> QED  BY <2>2
<1>3. ASSUME NEW q \in Upstream(Order[n])
      PROVE  q \in Phase /\ q # Order[n]
  <2>1. PICK j \in 1..Len(Order) : j < n /\ Order[j] = q
    BY <1>3, OrderFacts
  <2>2. j # n
    BY <1>1, <2>1
  <2> QED  BY <2>1, <2>2, OrderFacts
<1> QED  BY <1>2, <1>3 DEF Kept

LEMMA GivenKept ==
    ASSUME NEW n \in 1..(Len(Order) + 1), Kept(n), NEW i \in 1..(n - 1), NEW q \in Upstream(Order[i])
    PROVE  file'[q] = file[q]
<1>1. Len(Order) \in Nat /\ i \in 1..Len(Order)
  BY OrderFacts
<1>2. PICK j \in 1..Len(Order) : j < i /\ Order[j] = q
  BY <1>1, OrderFacts
<1>3. j \in 1..(n - 1)
  BY <1>1, <1>2
<1> QED  BY <1>2, <1>3 DEF Kept

LEMMA BehindKept ==
    ASSUME NEW c \in Client, proc[c].pc \notin {"off", "crashed"}, proc[c].at \in 1..(Len(Order) + 1), Kept(proc[c].at),
           proc'[c].at = proc[c].at, proc'[c].code = proc[c].code,
           Behind(c), OneSource(c)
    PROVE  Behind(c)' /\ OneSource(c)'
<1>. DEFINE n == proc[c].at
<1>1. \A i \in 1..(n - 1) : row'[Order[i]] = row[Order[i]]
  BY DEF Kept
<1>2. \A i \in 1..(n - 1) : \A q \in Upstream(Order[i]) : file'[q] = file[q]
  BY GivenKept
<1>3. Behind(c)'
  BY <1>1, <1>2 DEF Behind
<1>4. OneSource(c)'
  <2>1. CASE \A i \in 1..(n - 1) : row[Order[i]].inputs.code = proc[c].code
    BY <2>1, <1>1 DEF OneSource
  <2>2. CASE \E m \in 1..(n - 1) :
               /\ Order[m] = "fixes"
               /\ \A i \in 1..(n - 1) :
                    row[Order[i]].inputs.code = IF i <= m THEN row["setup"].inputs.code ELSE proc[c].code
    <3>1. PICK m \in 1..(n - 1) :
               /\ Order[m] = "fixes"
               /\ \A i \in 1..(n - 1) :
                    row[Order[i]].inputs.code = IF i <= m THEN row["setup"].inputs.code ELSE proc[c].code
      BY <2>2
    <3>2. 1 \in 1..(n - 1) /\ Order[1] = "setup"
      BY <3>1, OrderFacts
    <3>3. row'["setup"] = row["setup"]
      BY <1>1, <3>2
    <3> QED  BY <1>1, <3>1, <3>3 DEF OneSource
  <2> QED  BY <2>1, <2>2 DEF OneSource
<1> QED  BY <1>3, <1>4

(* The phase that the process leaves is decided. *)
LEMMA Advanced ==
    ASSUME NEW c \in Client, proc[c].pc \notin {"off", "crashed"}, proc[c].at \in 1..Len(Order), Kept(proc[c].at),
           proc'[c].at = proc[c].at + 1, proc'[c].code = proc[c].code,
           Behind(c), OneSource(c),
           row'[Ph(c)] # NoRow, row'[Ph(c)].status \in {"succeeded", "failed"},
           row'[Ph(c)].inputs.code = proc[c].code,
           \A q \in Upstream(Ph(c)) : row'[Ph(c)].inputs.up[q] = file'[q]
    PROVE  Behind(c)' /\ OneSource(c)'
<1>. DEFINE n == proc[c].at
<1>1. /\ Len(Order) \in Nat /\ n \in 1..(Len(Order) + 1)
      /\ \A i \in 1..n : i \in 1..(n - 1) \/ i = n
      /\ 1..(proc'[c].at - 1) = 1..n
  BY OrderFacts
<1>2. \A i \in 1..(n - 1) : row'[Order[i]] = row[Order[i]]
  BY DEF Kept
<1>3. \A i \in 1..(n - 1) : \A q \in Upstream(Order[i]) : file'[q] = file[q]
  BY <1>1, GivenKept
<1>. HIDE DEF n
<1>4. Behind(c)'
  <2>1. ASSUME NEW i \in 1..(n - 1)
        PROVE  /\ row'[Order[i]] # NoRow /\ row'[Order[i]].status \in {"succeeded", "failed"}
               /\ \A q \in Upstream(Order[i]) : row'[Order[i]].inputs.up[q] = file'[q]
    BY <1>2, <1>3, <2>1 DEF Behind, n
  <2> QED  BY <1>1, <2>1 DEF Behind, Ph, n
<1>5. OneSource(c)'
  <2>1. CASE \A i \in 1..(n - 1) : row[Order[i]].inputs.code = proc[c].code
    BY <2>1, <1>1, <1>2 DEF OneSource, Ph, n
  <2>2. CASE \E m \in 1..(n - 1) :
               /\ Order[m] = "fixes"
               /\ \A i \in 1..(n - 1) :
                    row[Order[i]].inputs.code = IF i <= m THEN row["setup"].inputs.code ELSE proc[c].code
    <3>1. PICK m \in 1..(n - 1) :
               /\ Order[m] = "fixes"
               /\ \A i \in 1..(n - 1) :
                    row[Order[i]].inputs.code = IF i <= m THEN row["setup"].inputs.code ELSE proc[c].code
      BY <2>2
    <3>2. 1 \in 1..(n - 1) /\ Order[1] = "setup" /\ m \in 1..n /\ ~(n <= m)
      <4>1. n \in Int /\ m \in 1..(n - 1)
        BY <1>1, <3>1
      <4>2. 1 \in 1..(n - 1) /\ m \in 1..n /\ ~(n <= m)
        BY <4>1
      <4> QED  BY <4>2, OrderFacts
    <3>3. row'["setup"] = row["setup"]
      BY <1>2, <3>2
    <3>4. \A i \in 1..n : row'[Order[i]].inputs.code = IF i <= m THEN row'["setup"].inputs.code ELSE proc'[c].code
      BY <1>1, <1>2, <3>1, <3>2, <3>3 DEF Ph, n
    <3> QED  BY <1>1, <3>1, <3>2, <3>4 DEF OneSource
  <2> QED  BY <2>1, <2>2 DEF OneSource, n
<1> QED  BY <1>4, <1>5

LEMMA RowsVouched ==
    ASSUME RowMatchesFile, NEW p \in Phase, \A q \in Phase : q # p => row'[q] = row[q] /\ file'[q] = file[q],
           row'[p] # NoRow /\ row'[p].status = "succeeded" => file'[p] = row'[p].hash
    PROVE  RowMatchesFile'
  BY DEF RowMatchesFile

LEMMA AtWorkKept ==
    ASSUME RunInv, ~overlap, NEW c \in Client, proc[c].pc \in AtWork, NEW q, proc' = [proc EXCEPT ![c] = q],
           q.at = proc[c].at, q.code = proc[c].code, q.inputs = proc[c].inputs, q.pc \in AtWork,
           \A p \in Phase : p # Ph(c) => row'[p] = row[p] /\ file'[p] = file[p],
           q.pc \in Operating => /\ row'[Ph(c)] # NoRow /\ row'[Ph(c)].attempt = q.att
                                 /\ row'[Ph(c)].status = "running" /\ row'[Ph(c)].inputs = q.inputs
    PROVE  Sound(c)'
<1>1. Sound(c) /\ proc[c].pc \in AtPhase /\ RunTypeOK
  BY Alone DEF Running, AtWork, AtPhase, RunInv
<1>2. proc[c].at \in 1..Len(Order) /\ Len(Order) \in Nat /\ proc'[c] = q /\ Ph(c)' = Ph(c)
  BY <1>1, PhaseOf, IsTyped DEF Ph
<1>3. Kept(proc[c].at) /\ \A u \in Upstream(Ph(c)) : file'[u] = file[u]
  BY <1>2, OnlyHere DEF Ph
<1>4. proc[c].at \in 1..(Len(Order) + 1) /\ proc[c].pc \notin {"off", "crashed"}
  BY <1>2 DEF AtWork
<1>5. Behind(c)' /\ OneSource(c)'
  BY <1>1, <1>2, <1>3, <1>4, BehindKept DEF Sound
<1>6. Given(c)'
  BY <1>1, <1>2, <1>3 DEF Sound, Given
<1>7. Owned(c)'
  BY <1>2 DEF Owned, Owns
<1>8. Ends(c)'
  BY <1>2 DEF Ends, AtWork
<1> QED  BY <1>5, <1>6, <1>7, <1>8 DEF Sound

LEMMA LeavesPhase ==
    ASSUME RunInv, ~overlap, NEW c \in Client, proc[c].pc \in AtWork,
           NEW q, Typed(q), q.pc \in AtPhase, q.at = proc[c].at, q.code = proc[c].code, proc' = [proc EXCEPT ![c] = After(q)],
           \A p \in Phase : p # Ph(c) => row'[p] = row[p] /\ file'[p] = file[p],
           row'[Ph(c)] # NoRow, row'[Ph(c)].status \in {"succeeded", "failed"}, row'[Ph(c)].inputs = proc[c].inputs
    PROVE  Sound(c)'
<1>1. Sound(c) /\ proc[c].pc \in AtPhase /\ RunTypeOK
  BY Alone DEF Running, AtWork, AtPhase, RunInv
<1>2. proc[c].at \in 1..Len(Order) /\ Len(Order) \in Nat /\ proc'[c] = After(q)
  BY <1>1, PhaseOf, IsTyped
<1>3. Kept(proc[c].at) /\ \A u \in Upstream(Ph(c)) : file'[u] = file[u]
  BY <1>2, OnlyHere DEF Ph
<1>4. /\ proc'[c].at = proc[c].at + 1 /\ proc'[c].code = proc[c].code
      /\ proc'[c].pc \in {"end", "reload", "reboot", "inputs"}
      /\ proc'[c].pc = "reload" => Order[proc[c].at] = "fixes"
  BY <1>2, AfterTyped
<1>5. /\ row'[Ph(c)].inputs.code = proc[c].code
      /\ \A u \in Upstream(Ph(c)) : row'[Ph(c)].inputs.up[u] = file'[u]
  BY <1>1, <1>3 DEF Sound, Given
<1>6. Behind(c)' /\ OneSource(c)'
  BY <1>1, <1>2, <1>3, <1>4, <1>5, Advanced DEF Sound, AtWork
<1>7. Given(c)' /\ Owned(c)'
  BY <1>4 DEF Owned, Given, AtWork, Operating
<1>8. Ends(c)'
  <2>. proc[c].at \in Int /\ proc[c].at >= 1
    BY <1>2
  <2>. proc'[c].at = proc[c].at + 1
    BY <1>4
  <2>1. proc'[c].at > 1 /\ proc'[c].at - 1 = proc[c].at
    OBVIOUS
  <2> QED  BY <1>4, <2>1 DEF Ends
<1> QED  BY <1>6, <1>7, <1>8 DEF Sound

LEMMA NotSound ==
    ASSUME NEW c \in Client, proc'[c].pc \in {"off", "crashed"}
    PROVE  Sound(c)'
  BY DEF Sound, Owned, Given, Behind, OneSource, Ends, AtWork, Operating

LEMMA Crashes ==
    ASSUME RunInv, NEW c \in Client, Running(c), proc' = [proc EXCEPT ![c] = Crashed(proc[c])],
           overlap' = overlap, Shared', ~overlap => RowMatchesFile'
    PROVE  RunInv'
<1>1. Typed(proc[c]) /\ proc = [d \in Client |-> proc[d]]
  BY IsTyped DEF RunInv
<1>2. Typed(Crashed(proc[c])) /\ proc'[c].pc = "crashed"
  BY <1>1, ClearTyped
<1>. DEFINE q == Crashed(proc[c])
<1>3. Sound(c)'
  BY <1>2, NotSound
<1>. HIDE DEF q
<1>4. Typed(q) /\ proc' = [proc EXCEPT ![c] = q]
  BY <1>2 DEF q
<1> QED  BY <1>3, <1>4, OneMoves

(* A step that leaves the rows and files alone. *)
LEMMA NothingWritten ==
    ASSUME RunInv, UNCHANGED <<stateVars, source, overlap>>, {pending', webhook', required', due'} \subseteq BOOLEAN
    PROVE  /\ Shared' /\ \A n : Kept(n)
           /\ ~overlap /\ RowMatchesFile => RowMatchesFile'
<1>1. Shared
  BY TypeParts DEF RunInv
<1> QED  BY <1>1 DEF stateVars, Shared, Kept, RowMatchesFile

LEMMA Quiet ==
    ASSUME RunInv, UNCHANGED <<stateVars, source, Host, Counts>>
    PROVE  /\ Shared' /\ \A n : Kept(n)
           /\ ~overlap /\ RowMatchesFile => RowMatchesFile'
           /\ overlap' = overlap /\ \A p \in Phase : row'[p] = row[p] /\ file'[p] = file[p]
<1>1. Shared
  BY TypeParts DEF RunInv
<1>2. UNCHANGED <<stateVars, source, overlap>> /\ {pending', webhook', required', due'} \subseteq BOOLEAN
  BY <1>1 DEF Shared, Host, Counts
<1> QED  BY <1>2, NothingWritten DEF stateVars

-----------------------------------------------------------------------------
(* The steps of a phase *)

LEMMA KeepsPhaseInputs ==
    ASSUME RunInv, NEW c \in Client, PhaseInputs(c)
    PROVE  RunInv'
<1>1. proc[c].pc = "inputs" /\ Running(c) /\ proc[c].pc \in AtPhase
  BY DEF PhaseInputs, Running, AtPhase
<1>2. Shared' /\ (\A n : Kept(n)) /\ overlap' = overlap /\ (~overlap /\ RowMatchesFile => RowMatchesFile')
  BY Quiet DEF PhaseInputs
<1>3. Ph(c) \in Phase /\ proc[c].at \in 1..Len(Order) /\ Len(Order) \in Nat /\ Typed(proc[c]) /\ Shared
  BY <1>1, PhaseOf, IsTyped DEF RunInv
<1>4. ~overlap => Sound(c) /\ RowMatchesFile'
  BY <1>1, <1>2, Alone
<1>5. CASE Unchanged(c)
  <2>. DEFINE in == [code |-> source, up |-> [u \in Upstream(Ph(c)) |-> file[u]]]
              q == [proc[c] EXCEPT !.pc = "enter", !.inputs = in]
  <2>1. in \in Inputs(Ph(c)) /\ in.code = source /\ \A u \in Upstream(Ph(c)) : in.up[u] = file[u]
    BY <1>3 DEF Inputs, Shared, Upstream
  <2>2. proc' = [proc EXCEPT ![c] = q]
    BY <1>5 DEF PhaseInputs
  <2>. HIDE DEF in
  <2>3. PICK p \in Phase : proc[c] \in Process(p)
    BY <1>3 DEF Typed
  <2>4. /\ q \in Process(Ph(c)) /\ q.pc = "enter" /\ q.at = proc[c].at /\ q.code = proc[c].code /\ q.inputs = in
    BY <2>1, <2>3 DEF Process, AtPhase, AtWork
  <2>. HIDE DEF q
  <2>5. Typed(q)
    BY <1>3, <2>1, <2>4 DEF Typed, Operating, Ph
  <2>6. proc'[c] = q /\ Ph(c)' = Ph(c)
    BY <2>2, <2>4, IsTyped DEF RunInv, Ph
  <2>7. ASSUME ~overlap PROVE Sound(c)'
    <3>1. Behind(c)' /\ OneSource(c)'
      <4>1. proc[c].at \in 1..(Len(Order) + 1)
        BY <1>3
      <4> QED  BY <4>1, <1>1, <1>2, <1>4, <2>4, <2>6, <2>7, BehindKept DEF Sound
    <3>2. Given(c)'
      BY <2>1, <2>4, <2>6, <1>5 DEF Given, Unchanged, PhaseInputs, stateVars
    <3>3. Owned(c)' /\ Ends(c)'
      BY <2>4, <2>6 DEF Owned, Ends, Operating
    <3> QED  BY <3>1, <3>2, <3>3 DEF Sound
  <2> QED  BY <1>1, <1>2, <1>4, <2>2, <2>5, <2>7, OneMoves
<1>6. CASE ~Unchanged(c)
  BY <1>1, <1>2, <1>4, <1>6, Crashes DEF PhaseInputs
<1> QED  BY <1>5, <1>6

LEMMA StoppedTyped ==
    ASSUME NEW q, Typed(q), NEW b \in BOOLEAN
    PROVE  /\ Typed([q EXCEPT !.stopped = b])
           /\ \A field \in {"pc", "at", "code"} : [q EXCEPT !.stopped = b][field] = q[field]
<1>1. PICK p \in Phase : q \in Process(p)
  BY DEF Typed
<1>. DEFINE r == [q EXCEPT !.stopped = b]
<1>2. /\ r \in Process(p) /\ r.pc = q.pc /\ r.at = q.at /\ r.code = q.code /\ r.inputs = q.inputs /\ r.att = q.att
  BY <1>1 DEF Process
<1>. HIDE DEF r
<1>3. Typed(r) /\ \A field \in {"pc", "at", "code"} : r[field] = q[field]
  BY <1>2 DEF Typed
<1> QED  BY <1>3 DEF r

LEMMA KeepsSkip ==
    ASSUME RunInv, NEW c \in Client, Skip(c)
    PROVE  RunInv'
<1>1. proc[c].pc \in AtWork /\ Running(c) /\ proc[c].pc \in AtPhase
  BY DEF Skip, Running, AtWork, AtPhase
<1>2. /\ Shared' /\ overlap' = overlap /\ (~overlap /\ RowMatchesFile => RowMatchesFile')
      /\ \A p \in Phase : row'[p] = row[p] /\ file'[p] = file[p]
  BY Quiet DEF Skip
<1>3. Ph(c) \in Phase /\ Typed(proc[c])
  BY <1>1, PhaseOf, IsTyped DEF RunInv
<1>4. PICK p \in Phase : proc[c] \in Process(p)
  BY <1>3 DEF Typed
<1>. DEFINE b == IF Ph(c) = "setup" THEN file["setup"].val = 2 ELSE proc[c].stopped
            q == [proc[c] EXCEPT !.stopped = b]
<1>5. b \in BOOLEAN
  BY <1>4 DEF Process
<1>6. proc' = [proc EXCEPT ![c] = After(q)]
  BY DEF Skip
<1>. HIDE DEF b
<1>7. Typed(q) /\ q.pc = proc[c].pc /\ q.at = proc[c].at /\ q.code = proc[c].code
  BY <1>3, <1>5, StoppedTyped
<1>. HIDE DEF q
<1>8. Typed(After(q))
  BY <1>1, <1>7, AfterTyped
<1>9. ~overlap => Sound(c)'
  <2>1. row'[Ph(c)] # NoRow /\ row'[Ph(c)].status = "succeeded" /\ row'[Ph(c)].inputs = proc[c].inputs
    BY <1>2, <1>3 DEF Skip, Cached
  <2> QED  BY <1>1, <1>2, <1>6, <1>7, <2>1, LeavesPhase
<1>. DEFINE r == After(q)
<1>10. Typed(r) /\ proc' = [proc EXCEPT ![c] = r]
  BY <1>6, <1>8
<1>. HIDE DEF r
<1> QED  BY <1>1, <1>2, <1>9, <1>10, OneMoves, Alone

(* A step that writes the row of one phase, or its artifact. *)
LEMMA SharedRow ==
    ASSUME Shared, NEW p \in Phase, NEW r \in Rows(p), row' = [row EXCEPT ![p] = r],
           UNCHANGED <<file, lock, source, Host, Counts>>
    PROVE  /\ Shared' /\ overlap' = overlap /\ row'[p] = r /\ r # NoRow
           /\ \A q \in Phase : q # p => row'[q] = row[q] /\ file'[q] = file[q]
           /\ file' = file
<1>1. /\ row' = [q \in Phase |-> row'[q]] /\ \A q \in Phase : row'[q] \in {NoRow} \cup Rows(q)
      /\ row'[p] = r /\ r # NoRow /\ \A q \in Phase : q # p => row'[q] = row[q]
  BY RowTyped
<1>2. Shared'
  BY <1>1 DEF Shared, Host, Counts
<1> QED  BY <1>1, <1>2 DEF Counts

LEMMA SharedFile ==
    ASSUME Shared, NEW p \in Phase, NEW f \in Contents, file' = [file EXCEPT ![p] = f],
           UNCHANGED <<row, lock, source, Host, Counts>>
    PROVE  /\ Shared' /\ overlap' = overlap /\ file'[p] = f /\ row' = row
           /\ \A q \in Phase : q # p => row'[q] = row[q] /\ file'[q] = file[q]
<1>1. /\ file' \in [Phase -> Contents] /\ file'[p] = f
      /\ \A q \in Phase : q # p => file'[q] = file[q]
  BY FileTyped
<1>2. Shared'
  BY <1>1 DEF Shared, Host, Counts
<1> QED  BY <1>1, <1>2 DEF Counts

LEMMA StatusTyped ==
    ASSUME NEW p \in Phase, NEW r \in Rows(p), NEW status \in PhaseStatus
    PROVE  LET new == [r EXCEPT !.status = status] IN
           /\ new \in Rows(p) /\ new.status = status /\ new.attempt = r.attempt
           /\ new.inputs = r.inputs /\ new.hash = r.hash
  BY DEF Rows

(* What is known of a process at work. *)
LEMMA Working ==
    ASSUME RunInv, NEW c \in Client, proc[c].pc \in AtWork
    PROVE  /\ Running(c) /\ proc[c].pc \in AtPhase /\ Ph(c) \in Phase
           /\ Typed(proc[c]) /\ Shared /\ proc = [d \in Client |-> proc[d]]
           /\ row = [p \in Phase |-> row[p]] /\ row[Ph(c)] \in {NoRow} \cup Rows(Ph(c))
           /\ file[Ph(c)] \in Contents
           /\ ~overlap => Sound(c) /\ RowMatchesFile
<1>1. Running(c) /\ proc[c].pc \in AtPhase
  BY DEF Running, AtWork, AtPhase
<1>2. Ph(c) \in Phase /\ Typed(proc[c]) /\ Shared /\ proc = [d \in Client |-> proc[d]]
  BY <1>1, PhaseOf, IsTyped DEF RunInv
<1> QED  BY <1>1, <1>2, Alone DEF Shared

LEMMA KeepsEnter ==
    ASSUME RunInv, NEW c \in Client, Enter(c)
    PROVE  RunInv'
<1>1. proc[c].pc = "enter" /\ proc[c].pc \in AtWork
  BY DEF Enter, AtWork
<1>. DEFINE p == Ph(c)
<1>2. /\ Running(c) /\ p \in Phase /\ Shared /\ Typed(proc[c]) /\ row[p] \in {NoRow} \cup Rows(p)
      /\ row = [q \in Phase |-> row[q]] /\ (~overlap => Sound(c) /\ RowMatchesFile)
  BY <1>1, Working
<1>3. CASE ~Unchanged(c)
  <2>1. UNCHANGED <<stateVars, source, Host, Counts>> /\ proc' = [proc EXCEPT ![c] = Crashed(proc[c])]
    BY <1>3 DEF Enter
  <2>2. Shared' /\ overlap' = overlap /\ (~overlap /\ RowMatchesFile => RowMatchesFile')
    BY <2>1, Quiet
  <2> QED  BY <1>2, <2>1, <2>2, Crashes
<1>4. CASE Unchanged(c)
  <2>. DEFINE q == [proc[c] EXCEPT !.pc = "begin"]
  <2>1. PICK b \in Phase : proc[c] \in Process(b)
    BY <1>2 DEF Typed
  <2>2. /\ Typed(q) /\ q.pc = "begin" /\ q.at = proc[c].at /\ q.code = proc[c].code /\ q.inputs = proc[c].inputs
        /\ proc' = [proc EXCEPT ![c] = q]
    <3>1. Typed(q)
      BY <1>1, MovesTyped DEF RunInv, AtWork, AtPhase, Operating
    <3> QED  BY <3>1, <2>1, <1>4 DEF Enter, Step, Process
  <2>. HIDE DEF q
  <2>3. /\ Shared' /\ overlap' = overlap /\ \A u \in Phase : u # p => row'[u] = row[u] /\ file'[u] = file[u]
        /\ ~overlap => RowMatchesFile'
    <3>1. CASE row' = row
      <4>1. UNCHANGED <<stateVars, source, Host, Counts>> \/ UNCHANGED <<row, file, lock, source, Host, Counts>>
        BY <3>1, <1>4 DEF Enter, InvalidateSnapshot
      <4>2. UNCHANGED <<row, file, lock, source, Host, Counts>>
        BY <4>1 DEF stateVars
      <4>3. Shared'
        BY <1>2, <4>2 DEF Shared, Host, Counts
      <4> QED  BY <1>2, <4>2, <4>3 DEF Counts, RowMatchesFile
    <3>2. CASE row' # row
      <4>1. row[p] # NoRow /\ InvalidateSnapshot(p, row[p])
        BY <3>2, <1>4 DEF Enter, stateVars
      <4>. DEFINE r == [row[p] EXCEPT !.status = "invalid"]
      <4>2. r \in Rows(p) /\ r.status = "invalid"
        BY <1>2, <4>1, StatusTyped DEF PhaseStatus
      <4>3. row' = [row EXCEPT ![p] = r] /\ UNCHANGED <<file, lock, source, Host, Counts>>
        BY <3>2, <4>1 DEF InvalidateSnapshot, Enter
      <4>. HIDE DEF r
      <4>4. /\ Shared' /\ overlap' = overlap /\ row'[p] = r
            /\ \A u \in Phase : u # p => row'[u] = row[u] /\ file'[u] = file[u]
        BY <1>2, <4>2, <4>3, SharedRow
      <4>5. row'[p].status # "succeeded"
        BY <4>2, <4>4
      <4> QED  BY <1>2, <4>4, <4>5, RowsVouched
    <3> QED  BY <3>1, <3>2
  <2>4. ~overlap => Sound(c)'
    BY <1>1, <2>2, <2>3, AtWorkKept DEF AtWork, Operating
  <2> QED  BY <1>2, <2>2, <2>3, <2>4, OneMoves
<1> QED  BY <1>3, <1>4

LEMMA KeepsBegin ==
    ASSUME RunInv, NEW c \in Client, Begin(c)
    PROVE  RunInv'
<1>1. proc[c].pc = "begin" /\ proc[c].pc \in AtWork
  BY DEF Begin, AtWork
<1>. DEFINE p == Ph(c)
            n == NextAttempt(p)
            r == [status |-> "running", attempt |-> n, inputs |-> proc[c].inputs, hash |-> NoHash]
            q == [proc[c] EXCEPT !.pc = "operate", !.before = file[p], !.att = n]
<1>2. /\ Running(c) /\ p \in Phase /\ Shared /\ Typed(proc[c]) /\ row[p] \in {NoRow} \cup Rows(p)
      /\ file[p] \in Contents /\ (~overlap => Sound(c) /\ RowMatchesFile)
  BY <1>1, Working
<1>3. n \in Nat \ {0}
  BY <1>2 DEF NextAttempt, Rows
<1>4. proc[c].inputs \in Inputs(p)
  BY <1>1, <1>2 DEF Typed, Ph
<1>5. /\ row' = [row EXCEPT ![p] = r] /\ UNCHANGED <<file, lock, source, Host, Counts>>
      /\ proc' = [proc EXCEPT ![c] = q]
  BY DEF Begin, BeginPhase
<1>. HIDE DEF n
<1>6. r \in Rows(p) /\ r.status = "running" /\ r.attempt = n /\ r.inputs = proc[c].inputs
  BY <1>3, <1>4 DEF Rows, PhaseStatus
<1>7. PICK b \in Phase : proc[c] \in Process(b)
  BY <1>2 DEF Typed
<1>8. /\ q \in Process(b) /\ q.pc = "operate" /\ q.at = proc[c].at /\ q.code = proc[c].code
      /\ q.inputs = proc[c].inputs /\ q.att = n
  BY <1>2, <1>3, <1>7 DEF Process, AtPhase, AtWork
<1>. HIDE DEF r, q
<1>9. Typed(q)
  BY <1>1, <1>2, <1>3, <1>4, <1>8 DEF Typed, AtPhase, Ph
<1>10. /\ Shared' /\ overlap' = overlap /\ row'[p] = r /\ r # NoRow
       /\ \A u \in Phase : u # p => row'[u] = row[u] /\ file'[u] = file[u]
  BY <1>2, <1>5, <1>6, SharedRow
<1>11. ASSUME ~overlap PROVE RowMatchesFile' /\ Sound(c)'
  <2>1. RowMatchesFile'
    BY <1>2, <1>6, <1>10, <1>11, RowsVouched
  <2>2. q.pc \in AtWork
    BY <1>8 DEF AtWork
  <2> QED  BY <2>1, <2>2, <1>1, <1>5, <1>6, <1>8, <1>10, <1>11, AtWorkKept
<1> QED  BY <1>2, <1>5, <1>9, <1>10, <1>11, OneMoves

(* While a process that is alone operates, its row is running: whatever it *)
(* writes, no row vouches for it yet.                                       *)
LEMMA StillOperating ==
    ASSUME RunInv, NEW c \in Client, proc[c].pc \in Operating, NEW q, Typed(q), proc' = [proc EXCEPT ![c] = q],
           q.at = proc[c].at, q.code = proc[c].code, q.inputs = proc[c].inputs, q.att = proc[c].att, q.pc \in Operating,
           Shared', overlap' = overlap, row' = row, \A u \in Phase : u # Ph(c) => file'[u] = file[u]
    PROVE  RunInv'
<1>1. proc[c].pc \in AtWork /\ q.pc \in AtWork
  BY DEF Operating
<1>2. Running(c) /\ Ph(c) \in Phase
  BY <1>1, Working
<1>3. ASSUME ~overlap PROVE RowMatchesFile' /\ Sound(c)'
  <2>1. Sound(c) /\ RowMatchesFile
    BY <1>1, <1>3, Working
  <2>2. /\ row'[Ph(c)] # NoRow /\ row'[Ph(c)].attempt = q.att
        /\ row'[Ph(c)].status = "running" /\ row'[Ph(c)].inputs = q.inputs
    BY <2>1 DEF Sound, Owned, Owns
  <2>3. RowMatchesFile'
    BY <1>2, <2>1, <2>2, RowsVouched
  <2>4. Sound(c)'
    BY <1>1, <1>3, <2>2, AtWorkKept
  <2> QED  BY <2>3, <2>4
<1> QED  BY <1>2, <1>3, OneMoves

LEMMA KeepsCheckProgress ==
    ASSUME RunInv, NEW c \in Client, CheckProgress(c)
    PROVE  RunInv'
<1>1. proc[c].pc \in Operating /\ proc[c].pc \in AtWork /\ proc[c].pc \in AtPhase
  BY DEF CheckProgress, Operating, AtWork, AtPhase
<1>2. Shared' /\ overlap' = overlap /\ row' = row /\ file' = file
  BY Quiet DEF CheckProgress, stateVars
<1>3. Typed(proc[c])
  BY <1>1, Working
<1>4. PICK b \in Phase : proc[c] \in Process(b)
  BY <1>3 DEF Typed
<1>5. PICK q \in {[proc[c] EXCEPT !.pc = "persist"], [proc[c] EXCEPT !.pc = "after", !.out = "raise"]} :
        proc' = [proc EXCEPT ![c] = q]
  BY DEF CheckProgress, Step
<1>6. /\ q \in Process(b) /\ q.pc \in Operating /\ q.at = proc[c].at /\ q.code = proc[c].code
      /\ q.inputs = proc[c].inputs /\ q.att = proc[c].att
  BY <1>4, <1>5 DEF Process, Operating, AtPhase, AtWork, Outcomes
<1>7. Typed(q)
  BY <1>1, <1>3, <1>6 DEF Typed
<1> QED  BY <1>1, <1>2, <1>5, <1>6, <1>7, StillOperating

LEMMA KeepsPersist ==
    ASSUME RunInv, NEW c \in Client, Persist(c)
    PROVE  RunInv'
<1>1. proc[c].pc \in Operating /\ proc[c].pc \in AtWork /\ proc[c].pc \in AtPhase
  BY DEF Persist, Operating, AtWork, AtPhase
<1>2. Typed(proc[c]) /\ Shared /\ Ph(c) \in Phase
  BY <1>1, Working
<1>3. PICK b \in Phase : proc[c] \in Process(b)
  BY <1>2 DEF Typed
<1>. DEFINE f == Content("progress", proc[c].att)
            q == [proc[c] EXCEPT !.pc = "operate"]
<1>4. f \in Contents
  BY <1>3, ContentTyped DEF Process, Kinds
<1>5. /\ file' = [file EXCEPT ![Ph(c)] = f] /\ proc' = [proc EXCEPT ![c] = q]
      /\ UNCHANGED <<row, lock, source, Host, Counts>>
  BY DEF Persist, Step
<1>6. /\ q \in Process(b) /\ q.pc \in Operating /\ q.at = proc[c].at /\ q.code = proc[c].code
      /\ q.inputs = proc[c].inputs /\ q.att = proc[c].att
  BY <1>3 DEF Process, Operating, AtPhase, AtWork
<1>. HIDE DEF f, q
<1>7. Typed(q)
  BY <1>1, <1>2, <1>6 DEF Typed
<1>8. Shared' /\ overlap' = overlap /\ row' = row /\ \A u \in Phase : u # Ph(c) => file'[u] = file[u]
  BY <1>2, <1>4, <1>5, SharedFile
<1> QED  BY <1>1, <1>5, <1>6, <1>7, <1>8, StillOperating

LEMMA KeepsOperate ==
    ASSUME RunInv, NEW c \in Client, Operate(c)
    PROVE  RunInv'
<1>1. proc[c].pc \in Operating /\ proc[c].pc \in AtWork /\ proc[c].pc \in AtPhase
  BY DEF Operate, Operating, AtWork, AtPhase
<1>2. Typed(proc[c]) /\ Shared /\ Ph(c) \in Phase
  BY <1>1, Working
<1>3. PICK b \in Phase : proc[c] \in Process(b)
  BY <1>2 DEF Typed
<1>4. PICK out \in Outcomes, v \in Values(Ph(c)) :
        /\ proc' = [proc EXCEPT ![c].pc = "after", ![c].out = out,
                                ![c].val = IF Ph(c) = "setup" THEN (IF webhook THEN 2 ELSE 1) ELSE v]
        /\ webhook' = IF Ph(c) = "setup" /\ out = "ok" THEN FALSE ELSE webhook
        /\ \/ file' = [file EXCEPT ![Ph(c)] = Content("own", IF Ph(c) = "setup" THEN (IF webhook THEN 2 ELSE 1) ELSE v)]
           \/ file' = file
        /\ required' \in {required, TRUE}
        /\ source' = source \/ source' = [source EXCEPT !.soft = @ + 1]
  BY DEF Operate
<1>. DEFINE w == IF Ph(c) = "setup" THEN (IF webhook THEN 2 ELSE 1) ELSE v
            q == [proc[c] EXCEPT !.pc = "after", !.out = out, !.val = w]
<1>5. w \in 0..2 /\ w \in Nat
  BY DEF Values
<1>6. UNCHANGED <<row, lock, pending, due, overlap>> /\ proc' = [proc EXCEPT ![c] = q]
  BY <1>4 DEF Operate
<1>7. file' \in [Phase -> Contents] /\ \A u \in Phase : u # Ph(c) => file'[u] = file[u]
  <2>1. CASE file' = [file EXCEPT ![Ph(c)] = Content("own", w)]
    <3>1. Content("own", w) \in Contents
      BY <1>5, ContentTyped DEF Kinds
    <3> QED  BY <1>2, <2>1, <3>1, FileTyped
  <2>2. CASE file' = file
    BY <1>2, <2>2 DEF Shared
  <2> QED  BY <1>4, <2>1, <2>2
<1>8. Shared'
  <2>1. source' \in Source
    BY <1>2, <1>4 DEF Shared, Source
  <2>2. webhook' \in BOOLEAN /\ required' \in BOOLEAN
    BY <1>2, <1>4 DEF Shared
  <2> QED  BY <1>2, <1>6, <1>7, <2>1, <2>2 DEF Shared
<1>. HIDE DEF w
<1>9. /\ q \in Process(b) /\ q.pc \in Operating /\ q.at = proc[c].at /\ q.code = proc[c].code
      /\ q.inputs = proc[c].inputs /\ q.att = proc[c].att
  BY <1>3, <1>4, <1>5 DEF Process, Operating, AtPhase, AtWork
<1>. HIDE DEF q
<1>10. Typed(q)
  BY <1>1, <1>2, <1>9 DEF Typed
<1> QED  BY <1>1, <1>6, <1>7, <1>8, <1>9, <1>10, StillOperating

LEMMA KeepsConclude ==
    ASSUME RunInv, NEW c \in Client, Conclude(c)
    PROVE  RunInv'
<1>1. proc[c].pc \in Operating /\ proc[c].pc \in AtWork /\ proc[c].pc \in AtPhase
  BY DEF Conclude, Operating, AtWork, AtPhase
<1>2. Typed(proc[c]) /\ Shared /\ Ph(c) \in Phase
  BY <1>1, Working
<1>3. PICK b \in Phase : proc[c] \in Process(b)
  BY <1>2 DEF Typed
<1>4. PICK f \in Contents, pc \in {"fail", "complete"}, reload \in BOOLEAN, out \in {"changed", proc[c].out} :
        /\ file' = [file EXCEPT ![Ph(c)] = f]
        /\ proc' = [proc EXCEPT ![c].pc = pc, ![c].reload = reload, ![c].out = out]
  <2>. DEFINE mayReload == Ph(c) = "fixes" /\ source.hard = proc[c].code.hard
              changed == ~Unchanged(c) /\ ~mayReload
              bad == proc[c].out = "raise" \/ changed
              f == IF bad THEN Content("failure", 0) ELSE Written(c)
              pc == IF bad \/ proc[c].out = "failed" THEN "fail" ELSE "complete"
              reload == proc[c].reload \/ (proc[c].out # "raise" /\ ~Unchanged(c) /\ mayReload)
              out == IF changed /\ proc[c].out # "raise" THEN "changed" ELSE proc[c].out
  <2>1. Content("failure", 0) \in Contents /\ Written(c) \in Contents
    BY <1>1, ContentTyped, WrittenTyped DEF Kinds, RunInv
  <2>2. f \in Contents /\ pc \in {"fail", "complete"} /\ out \in {"changed", proc[c].out}
    BY <2>1
  <2>3. reload \in BOOLEAN
    BY <1>3 DEF Process
  <2>4. /\ file' = [file EXCEPT ![Ph(c)] = f]
        /\ proc' = [proc EXCEPT ![c].pc = pc, ![c].reload = reload, ![c].out = out]
    BY DEF Conclude
  <2>. HIDE DEF f, pc, reload, out
  <2> QED  BY <2>2, <2>3, <2>4
<1>. DEFINE q == [proc[c] EXCEPT !.pc = pc, !.reload = reload, !.out = out]
<1>5. UNCHANGED <<row, lock, source, Host, Counts>> /\ proc' = [proc EXCEPT ![c] = q]
  BY <1>4 DEF Conclude
<1>6. /\ q \in Process(b) /\ q.pc \in Operating /\ q.at = proc[c].at /\ q.code = proc[c].code
      /\ q.inputs = proc[c].inputs /\ q.att = proc[c].att
  <2>1. out \in Outcomes \cup {"none", "changed"} /\ pc \in Operating /\ pc \in AtPhase
    BY <1>3, <1>4 DEF Process, Operating, AtPhase, AtWork
  <2> QED  BY <1>3, <2>1 DEF Process
<1>. HIDE DEF q
<1>7. Typed(q)
  BY <1>1, <1>2, <1>6 DEF Typed
<1>8. Shared' /\ overlap' = overlap /\ row' = row /\ \A u \in Phase : u # Ph(c) => file'[u] = file[u]
  BY <1>2, <1>4, <1>5, SharedFile
<1> QED  BY <1>1, <1>5, <1>6, <1>7, <1>8, StillOperating

LEMMA KeepsCompleteRefused ==
    ASSUME RunInv, NEW c \in Client, CompleteRefused(c)
    PROVE  RunInv'
<1>1. proc[c].pc \in Operating /\ proc[c].pc \in AtWork /\ proc[c].pc \in AtPhase
  BY DEF CompleteRefused, Operating, AtWork, AtPhase
<1>2. Typed(proc[c]) /\ Shared /\ Ph(c) \in Phase
  BY <1>1, Working
<1>3. PICK b \in Phase : proc[c] \in Process(b)
  BY <1>2 DEF Typed
<1>. DEFINE f == Content("failure", 0)
            q == [proc[c] EXCEPT !.pc = "fail", !.out = "raise"]
<1>4. f \in Contents
  BY ContentTyped DEF Kinds
<1>5. /\ file' = [file EXCEPT ![Ph(c)] = f] /\ proc' = [proc EXCEPT ![c] = q]
      /\ UNCHANGED <<row, lock, source, Host, Counts>>
  BY DEF CompleteRefused
<1>6. /\ q \in Process(b) /\ q.pc \in Operating /\ q.at = proc[c].at /\ q.code = proc[c].code
      /\ q.inputs = proc[c].inputs /\ q.att = proc[c].att
  BY <1>3 DEF Process, Operating, AtPhase, AtWork, Outcomes
<1>. HIDE DEF f, q
<1>7. Typed(q)
  BY <1>1, <1>2, <1>6 DEF Typed
<1>8. Shared' /\ overlap' = overlap /\ row' = row /\ \A u \in Phase : u # Ph(c) => file'[u] = file[u]
  BY <1>2, <1>4, <1>5, SharedFile
<1> QED  BY <1>1, <1>5, <1>6, <1>7, <1>8, StillOperating

LEMMA KeepsCompleteFile ==
    ASSUME RunInv, NEW c \in Client, CompleteFile(c)
    PROVE  RunInv'
<1>. DEFINE p == Ph(c)
            r == [row[p] EXCEPT !.status = "succeeded", !.hash = file[p]]
            b == IF p = "setup" THEN proc[c].val = 2 ELSE proc[c].stopped
            q == [proc[c] EXCEPT !.stopped = b]
            next == After(q)
<1>1. proc[c].pc \in Operating /\ proc[c].pc \in AtWork
  BY DEF CompleteFile, Operating, AtWork
<1>2. /\ Running(c) /\ proc[c].pc \in AtPhase /\ p \in Phase /\ Typed(proc[c]) /\ Shared
      /\ row[p] \in {NoRow} \cup Rows(p) /\ file[p] \in Contents
      /\ ~overlap => Sound(c) /\ RowMatchesFile
  BY <1>1, Working
<1>3. row[p] \in Rows(p)
  BY <1>2 DEF CompleteFile, Owns
<1>4. r \in Rows(p) /\ r.status = "succeeded" /\ r.hash = file[p] /\ r.inputs = row[p].inputs
  BY <1>2, <1>3 DEF Rows, PhaseStatus
<1>5. PICK a \in Phase : proc[c] \in Process(a)
  BY <1>2 DEF Typed
<1>6. b \in BOOLEAN
  BY <1>5 DEF Process
<1>7. /\ row' = [row EXCEPT ![p] = r] /\ UNCHANGED <<file, lock, source, Host, Counts>>
      /\ proc' = [proc EXCEPT ![c] = next]
  BY DEF CompleteFile
<1>. HIDE DEF b, r
<1>8. Typed(q) /\ q.pc = proc[c].pc /\ q.at = proc[c].at /\ q.code = proc[c].code
  BY <1>2, <1>6, StoppedTyped
<1>. HIDE DEF q
<1>9. Typed(next)
  BY <1>2, <1>8, AfterTyped
<1>10. /\ Shared' /\ overlap' = overlap /\ row'[p] = r /\ r # NoRow /\ file' = file
       /\ \A u \in Phase : u # p => row'[u] = row[u] /\ file'[u] = file[u]
  BY <1>2, <1>4, <1>7, SharedRow
<1>11. ASSUME ~overlap PROVE RowMatchesFile' /\ Sound(c)'
  <2>1. RowMatchesFile'
    BY <1>2, <1>4, <1>10, <1>11, RowsVouched
  <2>2. row[p].inputs = proc[c].inputs
    BY <1>1, <1>2, <1>11 DEF Sound, Owned
  <2>3. Sound(c)'
    BY <1>1, <1>2, <1>4, <1>7, <1>8, <1>10, <1>11, <2>2, LeavesPhase
  <2> QED  BY <2>1, <2>3
<1>. HIDE DEF next
<1> QED  BY <1>2, <1>7, <1>9, <1>10, <1>11, OneMoves

LEMMA KeepsFail ==
    ASSUME RunInv, NEW c \in Client, Fail(c)
    PROVE  RunInv'
<1>. DEFINE p == Ph(c)
            r == [row[p] EXCEPT !.status = "failed"]
            next == After(proc[c])
<1>1. proc[c].pc \in Operating /\ proc[c].pc \in AtWork
  BY DEF Fail, Operating, AtWork
<1>2. /\ Running(c) /\ proc[c].pc \in AtPhase /\ p \in Phase /\ Typed(proc[c]) /\ Shared
      /\ row[p] \in {NoRow} \cup Rows(p)
      /\ ~overlap => Sound(c) /\ RowMatchesFile
  BY <1>1, Working
<1>3. CASE ~Owns(p, proc[c].att)
  <2>1. UNCHANGED <<stateVars, source, Host, Counts>> /\ proc' = [proc EXCEPT ![c] = Crashed(proc[c])]
    BY <1>3 DEF Fail
  <2>2. Shared' /\ overlap' = overlap /\ (~overlap /\ RowMatchesFile => RowMatchesFile')
    BY <2>1, Quiet
  <2> QED  BY <1>2, <2>1, <2>2, Crashes
<1>4. CASE Owns(p, proc[c].att)
  <2>1. row[p] \in Rows(p)
    BY <1>2, <1>4 DEF Owns
  <2>2. r \in Rows(p) /\ r.status = "failed" /\ r.inputs = row[p].inputs
    BY <1>2, <2>1, StatusTyped DEF PhaseStatus
  <2>3. row' = [row EXCEPT ![p] = r] /\ UNCHANGED <<file, lock, source, Host, Counts>>
    BY <1>4 DEF Fail, FailPhase
  <2>. HIDE DEF r
  <2>4. /\ Shared' /\ overlap' = overlap /\ row'[p] = r /\ r # NoRow /\ file' = file
        /\ \A u \in Phase : u # p => row'[u] = row[u] /\ file'[u] = file[u]
    BY <1>2, <2>2, <2>3, SharedRow
  <2>5. ~overlap => RowMatchesFile'
    BY <1>2, <2>2, <2>4, RowsVouched
  <2>6. CASE proc' = [proc EXCEPT ![c] = Crashed(proc[c])]
    BY <1>2, <2>4, <2>5, <2>6, Crashes
  <2>7. CASE proc' = [proc EXCEPT ![c] = next]
    <3>1. Typed(next)
      BY <1>2, AfterTyped
    <3>2. ASSUME ~overlap PROVE Sound(c)'
      <4>1. row[p].inputs = proc[c].inputs
        BY <1>1, <1>2, <3>2 DEF Sound, Owned
      <4> QED  BY <1>1, <1>2, <2>2, <2>4, <2>7, <3>2, <4>1, LeavesPhase
    <3>. HIDE DEF next
    <3> QED  BY <1>2, <2>4, <2>5, <2>7, <3>1, <3>2, OneMoves
  <2> QED  BY <1>4, <2>6, <2>7 DEF Fail
<1> QED  BY <1>3, <1>4

-----------------------------------------------------------------------------
(* The steps between the phases *)

LEMMA Passes ==
    ASSUME RunInv, NEW c \in Client, Running(c), proc[c].pc # "crashed", NEW q, Typed(q), proc' = [proc EXCEPT ![c] = q],
           q.at = proc[c].at, q.code = proc[c].code, q.pc \notin AtWork \cup {"off", "crashed"},
           UNCHANGED <<stateVars, source, overlap>>, {pending', webhook', required', due'} \subseteq BOOLEAN,
           ~overlap => proc[c].at \in 1..(Len(Order) + 1) /\ Ends(c)'
    PROVE  RunInv'
<1>1. /\ Shared' /\ overlap' = overlap /\ (\A n : Kept(n)) /\ (~overlap /\ RowMatchesFile => RowMatchesFile')
  BY NothingWritten
<1>2. proc'[c] = q
  BY IsTyped DEF RunInv
<1>3. ASSUME ~overlap PROVE RowMatchesFile' /\ Sound(c)'
  <2>1. Sound(c) /\ RowMatchesFile
    BY <1>3, Alone
  <2>2. Behind(c)' /\ OneSource(c)'
    BY <1>1, <1>2, <1>3, <2>1, BehindKept DEF Running, Sound
  <2>3. Owned(c)' /\ Given(c)'
    BY <1>2 DEF Owned, Given, Operating
  <2> QED  BY <1>1, <1>3, <2>1, <2>2, <2>3 DEF Sound
<1> QED  BY <1>1, <1>3, OneMoves

(* The same for a step that only moves the process. *)
LEMMA PassesTo ==
    ASSUME RunInv, NEW c \in Client, Running(c), proc[c].pc # "crashed",
           NEW pc \in {"inputs", "rebooting", "done", "failed", "post"}, Step(c, pc),
           proc[c].pc \in AtPhase \/ pc \notin AtPhase,
           UNCHANGED <<stateVars, source, overlap>>, {pending', webhook', required', due'} \subseteq BOOLEAN,
           ~overlap => proc[c].at \in 1..(Len(Order) + 1),
           ~overlap /\ pc = "done" /\ proc[c].at > Len(Order) => \A p \in Phase : row[p] = NoRow \/ row[p].status # "failed"
    PROVE  RunInv'
<1>. DEFINE q == [proc[c] EXCEPT !.pc = pc]
<1>1. PICK b \in Phase : proc[c] \in Process(b)
  BY IsTyped DEF RunInv, Typed
<1>2. Typed(q)
  BY MovesTyped DEF RunInv, AtPhase, AtWork, Operating, Ending
<1>3. q.pc = pc /\ q.at = proc[c].at /\ q.code = proc[c].code /\ proc' = [proc EXCEPT ![c] = q]
  BY <1>1 DEF Process, Step
<1>. HIDE DEF q
<1>4. proc'[c] = q
  BY <1>3, IsTyped DEF RunInv
<1>5. ASSUME ~overlap PROVE Ends(c)'
  <2>1. proc[c].at > 0
    BY <1>5, OrderFacts
  <2> QED  BY <1>3, <1>4, <1>5, <2>1 DEF Ends, stateVars
<1> QED  BY <1>2, <1>3, <1>5, Passes DEF AtWork

LEMMA KeepsRebootCheck ==
    ASSUME RunInv, NEW c \in Client, RebootCheck(c) \/ Reboot(c)
    PROVE  RunInv'
<1>1. proc[c].pc \in {"reboot", "rebooting"} /\ proc[c].pc \in AtPhase /\ Running(c)
  BY DEF RebootCheck, Reboot, AtPhase, Running
<1>2. proc[c].at \in 1..Len(Order) /\ Len(Order) \in Nat /\ Shared
  BY <1>1, PhaseOf, IsTyped DEF RunInv
<1>3. proc[c].at \in 1..(Len(Order) + 1) /\ ~(proc[c].at > Len(Order))
  BY <1>2
<1>4. PICK pc \in {"inputs", "rebooting", "done"} : Step(c, pc)
  BY DEF RebootCheck, Reboot
<1>5. UNCHANGED <<stateVars, source, overlap>> /\ {pending', webhook', required', due'} \subseteq BOOLEAN
  BY <1>2 DEF RebootCheck, Reboot, Counts, Shared
<1> QED  BY <1>1, <1>3, <1>4, <1>5, PassesTo

LEMMA KeepsFinish ==
    ASSUME RunInv, NEW c \in Client, Finish(c)
    PROVE  RunInv'
<1>1. proc[c].pc = "end" /\ Running(c) /\ Shared
  BY IsTyped DEF Finish, Running, RunInv
<1>2. PICK b \in Phase : proc[c] \in Process(b)
  BY IsTyped DEF RunInv, Typed
<1>3. ~overlap => proc[c].at \in 1..(Len(Order) + 1)
  <2>1. proc[c].at \in 0..(Len(Order) + 1) /\ Len(Order) \in Nat
    BY <1>2, OrderFacts DEF Process
  <2>2. ~overlap => proc[c].at > 0
    BY <1>1, Alone DEF Sound, Ends
  <2> QED  BY <2>1, <2>2
<1>4. UNCHANGED <<stateVars, source, overlap>> /\ {pending', webhook', required', due'} \subseteq BOOLEAN
  <2>1. webhook' \in BOOLEAN
    BY <1>1, <1>2 DEF Finish, Shared, Process
  <2> QED  BY <1>1, <2>1 DEF Finish, Counts, Shared
<1>5. PICK pc \in {"failed", "done"} : Step(c, pc) /\ (pc = "done" => \A p \in Phase : row[p] = NoRow \/ row[p].status # "failed")
  BY DEF Finish
<1> QED  BY <1>1, <1>3, <1>4, <1>5, PassesTo DEF AtPhase, AtWork

LEMMA KeepsDropNote ==
    ASSUME RunInv, DropNote
    PROVE  RunInv'
<1>1. proc[Resume].pc = "done" /\ Running(Resume) /\ Resume \in Client /\ Shared
  BY TypeParts, StewardRunAssumption DEF DropNote, Running, RunInv
<1>2. PICK b \in Phase : proc[Resume] \in Process(b)
  BY <1>1, IsTyped DEF RunInv, Typed
<1>3. ~overlap => proc[Resume].at \in 1..(Len(Order) + 1)
  <2>1. proc[Resume].at \in 0..(Len(Order) + 1) /\ Len(Order) \in Nat
    BY <1>2, OrderFacts DEF Process
  <2>2. ~overlap => proc[Resume].at > 0
    BY <1>1, Alone DEF Sound, Ends
  <2> QED  BY <2>1, <2>2
<1>4. UNCHANGED <<stateVars, source, overlap>> /\ {pending', webhook', required', due'} \subseteq BOOLEAN
  BY <1>1 DEF DropNote, Counts, Shared
<1> QED  BY <1>1, <1>3, <1>4, PassesTo DEF DropNote, AtPhase, AtWork

(* P7b's reload gives the process the source that is there now: what is     *)
(* behind it is then under the source of P0.                                 *)
LEMMA KeepsReload ==
    ASSUME RunInv, NEW c \in Client, Reload(c)
    PROVE  RunInv'
<1>1. proc[c].pc = "reload" /\ Running(c) /\ proc[c].pc \in AtPhase
  BY DEF Reload, Running, AtPhase
<1>2. Shared' /\ overlap' = overlap /\ (\A n : Kept(n)) /\ (~overlap /\ RowMatchesFile => RowMatchesFile')
  BY Quiet DEF Reload
<1>3. Typed(proc[c]) /\ Shared /\ proc[c].at \in 1..Len(Order) /\ Len(Order) \in Nat
  BY <1>1, PhaseOf, IsTyped DEF RunInv
<1>4. PICK b \in Phase : proc[c] \in Process(b)
  BY <1>3 DEF Typed
<1>. DEFINE clear == Clear(proc[c])
            q == [clear EXCEPT !.pc = "handoff", !.code = source, !.resume = TRUE, !.reload = FALSE]
<1>5. clear \in Process(b) /\ clear.at = proc[c].at
  BY <1>4, Cleared
<1>6. proc' = [proc EXCEPT ![c] = q]
  BY DEF Reload
<1>. HIDE DEF clear
<1>7. q \in Process(b) /\ q.pc = "handoff" /\ q.at = proc[c].at /\ q.code = source
  BY <1>3, <1>5 DEF Process, AtPhase, Shared
<1>. HIDE DEF q
<1>8. Typed(q)
  BY <1>3, <1>7 DEF Typed, AtWork, Operating
<1>9. proc'[c] = q
  BY <1>6, IsTyped DEF RunInv
<1>10. ASSUME ~overlap PROVE RowMatchesFile' /\ Sound(c)'
  <2>. DEFINE n == proc[c].at
  <2>1. Sound(c) /\ RowMatchesFile
    BY <1>1, <1>10, Alone
  <2>2. n - 1 \in 1..(n - 1) /\ Order[n - 1] = "fixes" /\ 1 \in 1..(n - 1) /\ n \in 1..(Len(Order) + 1) /\ n > 1
    <3>1. n > 1 /\ Order[n - 1] = "fixes"
      BY <1>1, <2>1 DEF Sound, Ends
    <3>2. n \in Nat /\ n - 1 \in 1..(n - 1) /\ 1 \in 1..(n - 1) /\ n \in 1..(Len(Order) + 1)
      BY <1>3, <3>1
    <3> QED  BY <3>1, <3>2
  <2>3. (\A i \in 1..(n - 1) : \A u \in Upstream(Order[i]) : file'[u] = file[u]) /\ \A i \in 1..(n - 1) : row'[Order[i]] = row[Order[i]]
    BY <1>2, <2>2, GivenKept DEF Kept
  <2>4. Behind(c)'
    BY <1>1, <1>7, <1>9, <2>1, <2>3 DEF Sound, Behind
  <2>5. \A i \in 1..(n - 1) : row[Order[i]].inputs.code = row["setup"].inputs.code
    <3>1. Order[1] = "setup"
      BY OrderFacts
    <3>2. CASE \A i \in 1..(n - 1) : row[Order[i]].inputs.code = proc[c].code
      BY <2>2, <3>1, <3>2
    <3>3. CASE \E m \in 1..(n - 1) :
               /\ Order[m] = "fixes"
               /\ \A i \in 1..(n - 1) :
                    row[Order[i]].inputs.code = IF i <= m THEN row["setup"].inputs.code ELSE proc[c].code
      <4>1. PICK m \in 1..(n - 1) :
               /\ Order[m] = "fixes"
               /\ \A i \in 1..(n - 1) :
                    row[Order[i]].inputs.code = IF i <= m THEN row["setup"].inputs.code ELSE proc[c].code
        BY <3>3
      <4>2. m \in 1..Len(Order) /\ n - 1 \in 1..Len(Order) /\ Order[m] = Order[n - 1]
        BY <1>3, <2>2, <4>1
      <4>3. m = n - 1
        BY <4>2, OrderFacts
      <4>4. \A i \in 1..(n - 1) : i <= m
        BY <1>3, <4>3
      <4> QED  BY <4>1, <4>4
    <3> QED  BY <1>1, <2>1, <3>2, <3>3 DEF Sound, OneSource
  <2>6. OneSource(c)'
    <3>1. row'["setup"] = row["setup"]
      BY <2>2, <2>3, OrderFacts
    <3>2. \A i \in 1..(n - 1) : i <= n - 1
      BY <1>3
    <3>3. \A i \in 1..(n - 1) : row'[Order[i]].inputs.code = IF i <= n - 1 THEN row'["setup"].inputs.code ELSE proc'[c].code
      BY <2>3, <2>5, <3>1, <3>2
    <3> QED  BY <1>7, <1>9, <2>2, <3>3 DEF OneSource
  <2>7. Owned(c)' /\ Given(c)' /\ Ends(c)'
    BY <1>7, <1>9, <2>2 DEF Owned, Given, Ends, AtWork, Operating
  <2> QED  BY <1>2, <1>10, <2>1, <2>4, <2>6, <2>7 DEF Sound
<1> QED  BY <1>1, <1>2, <1>6, <1>8, <1>10, OneMoves

LEMMA KeepsHandoff ==
    ASSUME RunInv, NEW c \in Client, Handoff(c)
    PROVE  RunInv'
<1>1. proc[c].pc = "handoff" /\ Running(c) /\ proc[c].pc \in AtPhase
  BY DEF Handoff, Running, AtPhase
<1>2. /\ UNCHANGED <<stateVars, source, overlap>> /\ Shared' /\ overlap' = overlap
      /\ (~overlap /\ RowMatchesFile => RowMatchesFile')
      /\ {pending', webhook', required', due'} \subseteq BOOLEAN
  BY Quiet DEF Handoff, Counts, Shared
<1>3. Typed(proc[c]) /\ Shared /\ proc[c].at \in 1..Len(Order) /\ Len(Order) \in Nat
  BY <1>1, PhaseOf, IsTyped DEF RunInv
<1>4. PICK b \in Phase : proc[c] \in Process(b)
  BY <1>3 DEF Typed
<1>. DEFINE stop == file["setup"].val = 2
            q == [proc[c] EXCEPT !.pc = "inputs", !.stopped = stop]
<1>5. CASE proc' = [proc EXCEPT ![c] = q]
  <2>. stop \in BOOLEAN
    OBVIOUS
  <2>. HIDE DEF stop
  <2>1. q \in Process(b) /\ q.pc = "inputs" /\ q.at = proc[c].at /\ q.code = proc[c].code
    BY <1>4 DEF Process, AtPhase
  <2>. HIDE DEF q
  <2>2. Typed(q) /\ q.pc \notin AtWork \cup {"off", "crashed"}
    BY <1>3, <2>1 DEF Typed, AtWork, Operating
  <2>3. proc'[c] = q
    BY <1>5, IsTyped DEF RunInv
  <2>4. Ends(c)' /\ proc[c].at \in 1..(Len(Order) + 1)
    BY <1>3, <2>1, <2>3 DEF Ends
  <2> QED  BY <1>1, <1>2, <1>5, <2>1, <2>2, <2>4, Passes
<1>6. CASE proc' = [proc EXCEPT ![c] = Crashed(proc[c])]
  BY <1>1, <1>2, <1>6, Alone, Crashes
<1> QED  BY <1>5, <1>6 DEF Handoff

LEMMA KeepsKill ==
    ASSUME RunInv, NEW c \in Client, Kill(c)
    PROVE  RunInv'
<1>1. Shared' /\ overlap' = overlap /\ (~overlap /\ RowMatchesFile => RowMatchesFile')
  BY Quiet DEF Kill
<1> QED  BY <1>1, Alone, Crashes DEF Kill

LEMMA OffTyped == Typed(Off) /\ Off.pc = "off"
<1>1. PICK p \in Phase : TRUE
  BY OrderAssumption
<1>2. Off \in Process(p) /\ Off.pc = "off"
  BY ContentTyped DEF Off, Process, Source
<1> QED  BY <1>2 DEF Typed, AtPhase, AtWork, Operating

LEMMA KeepsStopPost ==
    ASSUME RunInv, NEW c \in Client, StopPost(c)
    PROVE  RunInv'
<1>1. Running(c) /\ Shared /\ proc = [d \in Client |-> proc[d]]
  BY IsTyped DEF StopPost, Running, RunInv
<1>2. UNCHANGED <<stateVars, source, overlap>> /\ {pending', webhook', required', due'} \subseteq BOOLEAN
  <2>1. webhook' \in BOOLEAN
    BY <1>1 DEF StopPost, RestartsWebhook, Shared, Running
  <2> QED  BY <1>1, <2>1 DEF StopPost, Counts, Shared
<1>3. Shared' /\ overlap' = overlap /\ (~overlap /\ RowMatchesFile => RowMatchesFile')
  BY <1>2, NothingWritten
<1>4. proc' = [proc EXCEPT ![c] = Off] /\ proc'[c] = Off
  BY <1>1 DEF StopPost
<1>5. Sound(c)'
  BY <1>4, OffTyped, NotSound
<1>. DEFINE q == Off
<1>6. Typed(q) /\ proc' = [proc EXCEPT ![c] = q]
  BY <1>4, OffTyped
<1>. HIDE DEF q
<1> QED  BY <1>1, <1>3, <1>5, <1>6, Alone, OneMoves

-----------------------------------------------------------------------------
(* The steps of the units and of the host *)

LEMMA KeepsStartUnit ==
    ASSUME RunInv, NEW c \in Client, StartUnit(c), due' \in BOOLEAN
    PROVE  RunInv'
<1>1. Shared /\ proc = [d \in Client |-> proc[d]] /\ proc[c].pc = "off"
  BY IsTyped DEF StartUnit, Running, RunInv
<1>. DEFINE q == Started(c = Resume)
<1>2. PICK p \in Phase : TRUE
  BY OrderAssumption
<1>3. q \in Process(p) /\ q.pc = "inputs" /\ q.at = 1 /\ q.code = source
  <2>1. Off \in Process(p) /\ 1 \in 0..(Len(Order) + 1) /\ (c = Resume) \in BOOLEAN
    BY ContentTyped, OrderFacts DEF Off, Process, Source
  <2> QED  BY <1>1, <2>1 DEF Started, Process, AtPhase, Shared
<1>4. proc' = [proc EXCEPT ![c] = q]
  BY DEF StartUnit
<1>. HIDE DEF q
<1>5. Typed(q)
  BY <1>3, OrderFacts DEF Typed, AtWork, Operating
<1>6. Shared'
  <2>1. overlap' \in BOOLEAN
    BY <1>1 DEF StartUnit, Shared, Running
  <2> QED  BY <1>1, <2>1 DEF StartUnit, stateVars, Shared
<1>7. RunTypeOK'
  BY <1>4, <1>5, <1>6, OneProcess DEF RunInv
<1>8. ASSUME ~overlap' PROVE Undisturbed'
  <2>1. ~overlap /\ \A d \in Client : d # c => proc[d].pc = "off"
    BY <1>8 DEF StartUnit, Running
  <2>2. \A d \in Client : d # c => proc'[d].pc = "off"
    BY <1>1, <1>4, <2>1
  <2>3. proc'[c] = q
    BY <1>1, <1>4
  <2>4. Sound(c)'
    BY <1>3, <2>3 DEF Sound, Owned, Given, Behind, OneSource, Ends, AtWork, Operating
  <2>5. \A d \in Client : d # c => Sound(d)'
    BY <2>2, NotSound
  <2>6. RowMatchesFile'
    BY <2>1 DEF RunInv, Undisturbed, RowMatchesFile, StartUnit, stateVars
  <2> QED  BY <2>2, <2>4, <2>5, <2>6 DEF Undisturbed, Running, Sound
<1> QED  BY <1>7, <1>8 DEF RunInv, Undisturbed

LEMMA KeepsBoot ==
    ASSUME RunInv, Boot
    PROVE  RunInv'
<1>1. Shared
  BY TypeParts DEF RunInv
<1>2. Shared'
  BY <1>1 DEF Boot, stateVars, Shared
<1>3. proc' = [d \in Client |-> proc'[d]] /\ \A d \in Client : proc'[d] = Off
  BY DEF Boot
<1>4. RunTypeOK'
  BY <1>2, <1>3, OffTyped, TypePartsNext
<1>5. \A d \in Client : Sound(d)' /\ proc'[d].pc = "off"
  BY <1>3, OffTyped, NotSound
<1>6. ~overlap => RowMatchesFile'
  BY DEF RunInv, Undisturbed, RowMatchesFile, Boot, stateVars
<1>7. Undisturbed'
  BY <1>5, <1>6 DEF Undisturbed, Running, Sound, Boot
<1> QED  BY <1>4, <1>7 DEF RunInv

(* What concerns neither the processes nor the rows. *)
LEMMA KeepsAround ==
    ASSUME RunInv, UNCHANGED <<stateVars, proc, overlap>>, source' \in Source,
           {pending', webhook', required', due'} \subseteq BOOLEAN
    PROVE  RunInv'
<1>1. RunTypeOK'
  BY TypeParts, TypePartsNext DEF RunInv, Shared, stateVars
<1>2. Undisturbed'
  BY DEF RunInv, Undisturbed, RowMatchesFile, Running, Owned, Owns, Given, Behind, OneSource, Ends, Ph, stateVars
<1> QED  BY <1>1, <1>2 DEF RunInv

LEMMA KeepsRunInv == RunInv /\ [RunNext]_runVars => RunInv'
<1>. SUFFICES ASSUME RunInv, [RunNext]_runVars PROVE RunInv'
  OBVIOUS
<1>. Shared /\ source \in Source /\ {pending, webhook, required, due, overlap} \subseteq BOOLEAN
  BY TypeParts DEF RunInv, Shared
<1>. Main \in Client /\ Resume \in Client
  BY StewardRunAssumption
<1>1. ASSUME NEW c \in Client, PhaseStep(c) PROVE RunInv'
  BY <1>1, KeepsPhaseInputs, KeepsSkip, KeepsEnter, KeepsBegin, KeepsCheckProgress, KeepsPersist, KeepsOperate,
     KeepsConclude, KeepsCompleteFile, KeepsCompleteRefused, KeepsFail DEF PhaseStep
<1>2. ASSUME NEW c \in Client,
             RebootCheck(c) \/ Reboot(c) \/ Reload(c) \/ Handoff(c) \/ Finish(c) \/ StopPost(c) \/ Kill(c)
      PROVE  RunInv'
  BY <1>2, KeepsRebootCheck, KeepsReload, KeepsHandoff, KeepsFinish, KeepsStopPost, KeepsKill
<1>3. CASE StartMain
  BY <1>3, KeepsStartUnit DEF StartMain
<1>4. CASE StartResume
  BY <1>4, KeepsStartUnit DEF StartResume
<1>5. CASE StaleNote
  BY <1>5, KeepsAround DEF StaleNote
<1>6. CASE DropNote
  BY <1>6, KeepsDropNote
<1>7. CASE Boot
  BY <1>7, KeepsBoot
<1>8. CASE EditSource
  <2>1. source' \in Source
    BY <1>8 DEF EditSource, Source
  <2> QED  BY <1>8, <2>1, KeepsAround DEF EditSource, Host, Counts
<1>9. CASE UNCHANGED runVars
  BY <1>9, KeepsAround DEF runVars, stateVars
<1> QED  BY <1>1, <1>2, <1>3, <1>4, <1>5, <1>6, <1>7, <1>8, <1>9 DEF RunNext

-----------------------------------------------------------------------------
(* What the runs keep *)

(* The inductive invariant holds, whatever is killed, rebooted, edited or   *)
(* started beside a run.                                                     *)
THEOREM RunInvariance == RunSpec => []RunInv
<1>1. RunInit => RunInv
  BY Begins
<1>2. RunInv /\ [RunNext]_runVars => RunInv'
  BY KeepsRunInv
<1> QED  BY <1>1, <1>2, PTL DEF RunSpec

(* What a run that ends with 0 leaves is whole. *)
LEMMA EndsWhole ==
    ASSUME RunInv, ~overlap, NEW c \in Client, proc[c].pc = "done", proc[c].at > Len(Order)
    PROVE  Whole(c)
<1>. DEFINE n == proc[c].at
<1>1. Sound(c) /\ Typed(proc[c])
  BY Alone, IsTyped DEF RunInv, Running
<1>2. n = Len(Order) + 1 /\ Len(Order) \in Nat /\ 1..(n - 1) = 1..Len(Order)
  <2>1. n \in 0..(Len(Order) + 1) /\ Len(Order) \in Nat
    BY <1>1, OrderFacts DEF Typed, Process
  <2> QED  BY <2>1
<1>. HIDE DEF n
<1>3. \A p \in Phase : Position(p) \in 1..Len(Order) /\ Order[Position(p)] = p
  BY OrderFacts DEF Position
<1>4. ASSUME NEW p \in Phase
      PROVE  /\ row[p].status = "succeeded"
             /\ \A q \in Upstream(p) : row[p].inputs.up[q] = file[q]
  <2>1. /\ row[p] # NoRow /\ row[p].status \in {"succeeded", "failed"}
        /\ \A q \in Upstream(p) : row[p].inputs.up[q] = file[q]
    BY <1>1, <1>2, <1>3 DEF Sound, Behind, n
  <2>2. row[p].status # "failed"
    BY <1>1, <2>1 DEF Sound, Ends
  <2> QED  BY <2>1, <2>2
<1>5. CASE \A i \in 1..(n - 1) : row[Order[i]].inputs.code = proc[c].code
  <2>1. \A p \in Phase : row[p].inputs.code = proc[c].code
    BY <1>2, <1>3, <1>5
  <2>2. proc[c].code \in {proc[c].code} \cup {row[p].inputs.code : p \in {"setup"}}
    OBVIOUS
  <2> QED  BY <1>4, <2>1, <2>2 DEF Whole
<1>6. CASE \E m \in 1..(n - 1) :
             /\ Order[m] = "fixes"
             /\ \A i \in 1..(n - 1) :
                  row[Order[i]].inputs.code = IF i <= m THEN row["setup"].inputs.code ELSE proc[c].code
  <2>1. PICK m \in 1..(n - 1) :
             /\ Order[m] = "fixes"
             /\ \A i \in 1..(n - 1) :
                  row[Order[i]].inputs.code = IF i <= m THEN row["setup"].inputs.code ELSE proc[c].code
    BY <1>6
  <2>2. m \in 1..Len(Order) /\ "fixes" \in Phase
    BY <1>2, <2>1, OrderFacts
  <2>. Position("fixes") \in 1..Len(Order) /\ Order[Position("fixes")] = Order[m]
    BY <1>3, <2>1, <2>2
  <2>3. Position("fixes") = m
    BY <2>2, OrderFacts
  <2>. DEFINE before == row["setup"].inputs.code
  <2>4. \A p \in Phase : row[p].inputs.code = IF "fixes" \in Phase /\ Position(p) <= Position("fixes")
                                               THEN before ELSE proc[c].code
    BY <1>2, <1>3, <2>1, <2>2, <2>3
  <2>5. before \in {proc[c].code} \cup {row[p].inputs.code : p \in {"setup"}}
    OBVIOUS
  <2>. HIDE DEF before
  <2> QED  BY <1>4, <2>4, <2>5 DEF Whole
<1> QED  BY <1>1, <1>5, <1>6 DEF Sound, OneSource, n

(* As long as no two processes have been in the run directory at once, a    *)
(* succeeded row has the hash of what is on disk, and a run that ends with   *)
(* exit code 0 is one run: every phase succeeded under the source of the     *)
(* process that ends it, or up to P7b under the source that P7b replaced,    *)
(* and was given the artifacts that are there now.                           *)
THEOREM RunIsVouched == RunSpec => []RunVouched
<1>1. RunInv => RunVouched
  BY EndsWhole DEF RunInv, Undisturbed, RunVouched, ArtifactsVouched, OneRun
<1> QED  BY <1>1, RunInvariance, PTL

-----------------------------------------------------------------------------
(* The webhook *)

(* The steps of a phase, and those between the phases, leave their unit     *)
(* running.                                                                  *)
LEMMA PcAfter ==
    ASSUME RunTypeOK, NEW c \in Client, NEW pc, Step(c, pc)
    PROVE  proc'[c].pc = pc
<1>1. Typed(proc[c]) /\ proc = [d \in Client |-> proc[d]]
  BY IsTyped
<1>2. PICK p \in Phase : proc[c] \in Process(p)
  BY <1>1 DEF Typed
<1>3. proc'[c] = [proc[c] EXCEPT !.pc = pc]
  BY <1>1 DEF Step
<1> QED  BY <1>2, <1>3 DEF Process

LEMMA StaysRunning ==
    ASSUME RunTypeOK, NEW c \in Client, Running(c),
           PhaseStep(c) \/ RebootCheck(c) \/ Reboot(c) \/ Reload(c) \/ Handoff(c) \/ Finish(c) \/ Kill(c)
    PROVE  Running(c)'
<1>1. Typed(proc[c]) /\ proc = [d \in Client |-> proc[d]] /\ c \in DOMAIN proc
  BY IsTyped
<1>2. PICK p \in Phase : proc[c] \in Process(p)
  BY <1>1 DEF Typed
<1>3. Crashed(proc[c]).pc = "crashed"
  BY <1>1, ClearTyped
<1>4. \A pc : Step(c, pc) => proc'[c].pc = pc
  BY PcAfter
<1>5. CASE PhaseInputs(c)
  BY <1>1, <1>2, <1>3, <1>5 DEF PhaseInputs, Running, Process
<1>6. CASE Skip(c)
  <2>. DEFINE b == IF Ph(c) = "setup" THEN file["setup"].val = 2 ELSE proc[c].stopped
              q == [proc[c] EXCEPT !.stopped = b]
  <2>1. b \in BOOLEAN /\ proc[c].pc \in AtPhase
    BY <1>2, <1>6 DEF Process, Skip, AtPhase, AtWork
  <2>2. proc'[c] = After(q)
    BY <1>1, <1>6 DEF Skip
  <2>. HIDE DEF b
  <2>3. Typed(q) /\ q.pc = proc[c].pc
    BY <1>1, <2>1, StoppedTyped
  <2>. HIDE DEF q
  <2>4. After(q).pc # "off"
    BY <2>1, <2>3, AfterTyped
  <2> QED  BY <2>2, <2>4 DEF Running
<1>7. CASE Enter(c)
  BY <1>1, <1>3, <1>4, <1>7 DEF Enter, Running
<1>8. CASE Begin(c)
  BY <1>1, <1>2, <1>8 DEF Begin, Running, Process
<1>9. CASE CheckProgress(c)
  <2>1. CASE Step(c, "persist")
    BY <1>4, <2>1 DEF Running
  <2>2. CASE proc' = [proc EXCEPT ![c].pc = "after", ![c].out = "raise"]
    BY <1>1, <1>2, <2>2 DEF Running, Process
  <2> QED  BY <1>9, <2>1, <2>2 DEF CheckProgress
<1>10. CASE Persist(c)
  BY <1>4, <1>10 DEF Persist, Running
<1>11. CASE Operate(c)
  <2>1. PICK out, val : proc' = [proc EXCEPT ![c].pc = "after", ![c].out = out, ![c].val = val]
    BY <1>11 DEF Operate
  <2> QED  BY <1>1, <1>2, <2>1 DEF Running, Process
<1>12. CASE Conclude(c)
  <2>. DEFINE mayReload == Ph(c) = "fixes" /\ source.hard = proc[c].code.hard
              changed == ~Unchanged(c) /\ ~mayReload
              pc == IF proc[c].out = "raise" \/ changed \/ proc[c].out = "failed" THEN "fail" ELSE "complete"
              reload == proc[c].reload \/ (proc[c].out # "raise" /\ ~Unchanged(c) /\ mayReload)
              out == IF changed /\ proc[c].out # "raise" THEN "changed" ELSE proc[c].out
  <2>1. pc \in {"fail", "complete"} /\ proc' = [proc EXCEPT ![c].pc = pc, ![c].reload = reload, ![c].out = out]
    BY <1>12 DEF Conclude
  <2>. HIDE DEF pc, reload, out
  <2> QED  BY <1>1, <1>2, <2>1 DEF Running, Process
<1>13. CASE CompleteFile(c)
  <2>. DEFINE b == IF Ph(c) = "setup" THEN proc[c].val = 2 ELSE proc[c].stopped
              q == [proc[c] EXCEPT !.stopped = b]
  <2>1. b \in BOOLEAN /\ proc[c].pc \in AtPhase
    BY <1>2, <1>13 DEF Process, CompleteFile, AtPhase, AtWork
  <2>2. proc'[c] = After(q)
    BY <1>1, <1>13 DEF CompleteFile
  <2>. HIDE DEF b
  <2>3. Typed(q) /\ q.pc = proc[c].pc
    BY <1>1, <2>1, StoppedTyped
  <2>. HIDE DEF q
  <2>4. After(q).pc # "off"
    BY <2>1, <2>3, AfterTyped
  <2> QED  BY <2>2, <2>4 DEF Running
<1>14. CASE CompleteRefused(c)
  BY <1>1, <1>2, <1>14 DEF CompleteRefused, Running, Process
<1>15. CASE Fail(c)
  <2>1. proc'[c] = Crashed(proc[c]) \/ proc'[c] = After(proc[c])
    BY <1>1, <1>15 DEF Fail
  <2>2. After(proc[c]).pc # "off"
    BY <1>1, <1>15, AfterTyped DEF Fail, AtPhase, AtWork
  <2> QED  BY <1>3, <2>1, <2>2 DEF Running
<1>16. CASE RebootCheck(c) \/ Reboot(c) \/ Finish(c)
  <2>1. PICK pc \in {"inputs", "rebooting", "done", "failed"} : Step(c, pc)
    BY <1>16 DEF RebootCheck, Reboot, Finish
  <2> QED  BY <1>4, <2>1 DEF Running
<1>17. CASE Reload(c)
  <2>. DEFINE clear == Clear(proc[c])
  <2>1. clear \in Process(p)
    BY <1>2, Cleared
  <2>2. proc'[c] = [clear EXCEPT !.pc = "handoff", !.code = source, !.resume = TRUE, !.reload = FALSE]
    BY <1>1, <1>17 DEF Reload
  <2>. HIDE DEF clear
  <2> QED  BY <2>1, <2>2 DEF Running, Process
<1>18. CASE Handoff(c)
  <2>. DEFINE stop == file["setup"].val = 2
  <2>1. proc'[c] = [proc[c] EXCEPT !.pc = "inputs", !.stopped = stop] \/ proc'[c] = Crashed(proc[c])
    BY <1>1, <1>18 DEF Handoff
  <2>. HIDE DEF stop
  <2> QED  BY <1>2, <1>3, <2>1 DEF Running, Process
<1>19. CASE Kill(c)
  BY <1>1, <1>3, <1>19 DEF Kill, Running
<1> QED  BY <1>5, <1>6, <1>7, <1>8, <1>9, <1>10, <1>11, <1>12, <1>13, <1>14, <1>15, <1>16, <1>17, <1>18, <1>19 DEF PhaseStep

LEMMA KeepsWebhook == RunTypeOK /\ WebhookBack /\ [RunNext]_runVars => WebhookBack'
<1>. SUFFICES ASSUME RunTypeOK, WebhookBack, [RunNext]_runVars PROVE WebhookBack'
  OBVIOUS
<1>. Main \in Client /\ Resume \in Client /\ Main # Resume /\ Client = {Main, Resume}
  BY StewardRunAssumption
<1>0. proc = [d \in Client |-> proc[d]]
  BY TypeParts
<1>1. ASSUME NEW c \in Client,
             PhaseStep(c) \/ RebootCheck(c) \/ Reboot(c) \/ Reload(c) \/ Handoff(c) \/ Finish(c) \/ Kill(c)
      PROVE  WebhookBack'
  <2>1. Running(c)
    BY <1>1 DEF Running, PhaseStep, PhaseInputs, Skip, Enter, Begin, CheckProgress, Persist, Operate, Conclude, CompleteFile,
       CompleteRefused, Fail, RebootCheck, Reboot, Reload, Handoff, Finish, Kill
  <2> QED  BY <1>1, <2>1, StaysRunning DEF WebhookBack
<1>2. ASSUME NEW c \in Client, StopPost(c) PROVE WebhookBack'
  <2>1. \A d \in Client : d # c => proc'[d] = proc[d]
    BY <1>0, <1>2 DEF StopPost
  <2>2. c = Resume /\ Running(Main) => Running(Main)'
    BY <2>1 DEF Running
  <2> QED  BY <1>2, <2>2 DEF StopPost, RestartsWebhook, WebhookBack
<1>3. ASSUME NEW c \in Client, StartUnit(c) PROVE WebhookBack'
  <2>1. Started(c = Resume).pc = "inputs"
    BY DEF Started, Off
  <2>2. proc'[c].pc = "inputs"
    BY <1>0, <1>3, <2>1 DEF StartUnit
  <2> QED  BY <2>2 DEF WebhookBack, Running
<1>4. CASE DropNote
  <2>1. proc'[Resume].pc = "post"
    BY <1>4, PcAfter DEF DropNote
  <2> QED  BY <2>1 DEF WebhookBack, Running
<1>5. CASE Boot
  BY <1>5 DEF Boot, WebhookBack
<1>6. CASE StaleNote \/ EditSource \/ UNCHANGED runVars
  BY <1>6 DEF StaleNote, EditSource, runVars, Host, WebhookBack, Running
<1> QED  BY <1>1, <1>2, <1>3, <1>4, <1>5, <1>6 DEF RunNext, StartMain, StartResume

(* Whatever ends a run -- its end, a failure, a kill, a boot -- and         *)
(* whichever unit ran P0, Dependabot's webhook is active once no unit runs.  *)
THEOREM WebhookReturns == RunSpec => []WebhookBack
<1>1. RunInit => WebhookBack
  BY DEF RunInit, WebhookBack
<1>2. RunInv /\ WebhookBack /\ [RunNext]_runVars => WebhookBack'
  BY KeepsWebhook DEF RunInv
<1> QED  BY <1>1, <1>2, RunInvariance, PTL DEF RunSpec
=============================================================================
