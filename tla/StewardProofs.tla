----------------------------- MODULE StewardProofs -----------------------------
(***************************************************************************)
(* Proofs about the resolver, for any files, any cap and any number of     *)
(* edits and attempts, and about the three machines of MCSteward together. *)
(*                                                                         *)
(* ResolverInv is inductive.  The attempt's memory holds every action that *)
(* the journal and the artifact hold, no file that is still to be judged   *)
(* has the id of a record, and so no record, row or copy is ever replaced  *)
(* by that of another item.                                                  *)
(***************************************************************************)
EXTENDS MCSteward, StewardCodeProofs, StewardRunProofs, WellFoundedInduction

ResolverInv == ResolverTypeOK /\ ResolverSound /\ ExactlyAsJudged

LEMMA FilesAreNumbers == Files \subseteq Nat
BY ResolverAssumption DEF Files

(* A nonempty set of files has a first one. *)
LEMMA FirstFile == ASSUME m7c.todo \subseteq Files, m7c.todo # {} PROVE NextFile \in m7c.todo
<1> DEFINE Less == OpToRel(<, Nat)
<1>1. m7c.todo \subseteq Nat
  BY FilesAreNumbers
<1>2. IsWellFoundedOn(Less, Nat)
  BY NatLessThanWellFounded
<1> HIDE DEF Less
<1>3. \E f \in m7c.todo : \A g \in m7c.todo : <<g, f>> \notin Less
  BY <1>1, <1>2, WFMin
<1>4. \A f, g \in Nat : <<g, f>> \notin Less => f <= g
  BY DEF Less, OpToRel
<1>5. \E f \in m7c.todo : \A g \in m7c.todo : f <= g
  BY <1>1, <1>3, <1>4
<1> QED  BY <1>5 DEF NextFile

(* The items of a list have an id each, which begins with their slug: the number of a file *)
(* counts those up to it that have its slug, and so grows with it.                          *)
LEMMA IdsDiffer ==
    ASSUME ResolverTypeOK, NEW listed \in SUBSET Files, NEW f \in listed, NEW g \in listed
    PROVE  /\ ItemId(f, listed) \in ItemKey /\ ItemId(f, listed)[1] = slug[f]
           /\ ItemId(f, listed) = ItemId(g, listed) => f = g
<1> DEFINE Upto(x) == {y \in listed : y <= x /\ slug[y] = slug[x]}
<1>1. listed \subseteq Nat
  BY FilesAreNumbers
<1>2. \A x \in listed : IsFiniteSet(Upto(x)) /\ Cardinality(Upto(x)) \in Nat
  <2> SUFFICES ASSUME NEW x \in listed PROVE IsFiniteSet(Upto(x)) /\ Cardinality(Upto(x)) \in Nat
    OBVIOUS
  <2>1. Upto(x) \subseteq 0..x
    <3>1. x \in Nat /\ \A y \in listed : y <= x => y \in 0..x
      BY <1>1
    <3> QED  BY <3>1
  <2>2. IsFiniteSet(0..x)
    BY <1>1, FS_Interval
  <2>3. IsFiniteSet(Upto(x))
    <3> HIDE DEF Upto
    <3> QED  BY <2>1, <2>2, FS_Subset
  <2> QED  BY <2>3, FS_CardinalityType
<1>3. \A x, y \in listed : x < y /\ slug[x] = slug[y] => Cardinality(Upto(x)) # Cardinality(Upto(y))
  <2> SUFFICES ASSUME NEW x \in listed, NEW y \in listed, x < y, slug[x] = slug[y]
               PROVE  Cardinality(Upto(x)) # Cardinality(Upto(y))
    OBVIOUS
  <2>1. x \in Nat /\ y \in Nat /\ \A z \in listed : z \in Nat
    BY <1>1
  <2>2. \A z \in listed : z <= x => z <= y
    BY <2>1
  <2>3. Upto(x) \subseteq Upto(y) /\ y \in Upto(y) /\ y \notin Upto(x)
    <3>1. y <= y /\ ~(y <= x)
      BY <2>1
    <3> QED  BY <2>2, <3>1
  <2>4. Cardinality(Upto(y)) = Cardinality(Upto(x)) => Upto(y) = Upto(x)
    <3> HIDE DEF Upto
    <3> QED  BY <1>2, <2>3, FS_Subset
  <2> QED  BY <2>3, <2>4
<1>4. /\ ItemId(f, listed) = <<slug[f], Cardinality(Upto(f))>>
      /\ ItemId(g, listed) = <<slug[g], Cardinality(Upto(g))>>
  BY DEF ItemId
<1>5. slug[f] \in Nat
  BY DEF ResolverTypeOK
<1>6. f < g \/ g < f \/ f = g
  BY <1>1
<1> HIDE DEF Upto
<1> QED  BY <1>2, <1>3, <1>4, <1>5, <1>6 DEF ItemKey

LEMMA ResolverBegins == ResolverInit => ResolverInv
<1> SUFFICES ASSUME ResolverInit PROVE ResolverInv
  OBVIOUS
<1>1. ResolverTypeOK
  <2>1. slug \in [Files -> Nat]
    BY FilesAreNumbers DEF ResolverInit
  <2>2. text \in [Files -> Texts] /\ committed \in [Files -> Texts]
    BY DEF ResolverInit, Texts, Fixed
  <2>3. m7c \in [listed : SUBSET Files, todo : SUBSET Files, out : SUBSET ItemRecord, used : Nat,
                 rec : ItemRecord \cup {NoRecord}]
    BY DEF ResolverInit, NoM7
  <2>4. resolve \in [state : {"none", "degraded", "whole"}, run : Nat, listed : SUBSET Files, items : SUBSET ItemRecord]
    BY DEF ResolverInit, NoArtifact
  <2> QED  BY <2>1, <2>2, <2>3, <2>4 DEF ResolverInit, ResolverTypeOK
<1>2. RecordsOK
  BY DEF ResolverInit, RecordsOK, Recorded, NoArtifact
<1>3. NightOK
  BY FS_EmptySet, ResolverAssumption DEF ResolverInit, NightOK, NoArtifact
<1>4. AttemptOK /\ ActingOK /\ ApprovalOK /\ ExactlyAsJudged
  BY DEF ResolverInit, AttemptOK, ActingOK, ApprovalOK, ExactlyAsJudged, NoArtifact
<1> QED  BY <1>1, <1>2, <1>3, <1>4 DEF ResolverInv, ResolverSound

Memory == [listed : SUBSET Files, todo : SUBSET Files, out : SUBSET ItemRecord, used : Nat, rec : ItemRecord \cup {NoRecord}]

(* What Puts does to the attempt's memory. *)
LEMMA PutsIn ==
    ASSUME m7c \in Memory, NEW r \in ItemRecord, Puts(r)
    PROVE  /\ m7c' \in Memory /\ m7c'.listed = m7c.listed /\ m7c'.used = m7c.used
           /\ m7c'.todo = m7c.todo \ {r.file} /\ m7c'.out = {x \in m7c.out : x.id # r.id} \cup {r}
BY DEF Memory, Puts

(* A judgement, or the result of an action, goes into the attempt's records: the ids of the *)
(* others differ from its own, so that none of them is replaced.                             *)
LEMMA RecordKept ==
    ASSUME ResolverInv, p7c \notin {"idle"}, p7c' = "judge", NEW r \in ItemRecord, Puts(r),
           r.file \in m7c.todo, r.id = ItemId(r.file, m7c.listed),
           r.status = "recommended" => r.action # "none", Executed(r) => r \in spent,
           p7c = "journal" => r = m7c.rec,
           \/ actions' = actions
           \/ p7c = "journal" /\ actions' = {a \in actions : a.id # r.id} \cup {r},
           UNCHANGED <<Home7, slug, approvals, resolve, Approval, Ghosts7>>
    PROVE  ResolverInv'
<1>1. /\ m7c' \in Memory /\ m7c'.listed = m7c.listed /\ m7c'.used = m7c.used
      /\ m7c'.todo = m7c.todo \ {r.file} /\ m7c'.out = {x \in m7c.out : x.id # r.id} \cup {r}
  BY PutsIn DEF ResolverInv, ResolverTypeOK, Memory
<1>2. /\ m7c.todo \subseteq m7c.listed /\ m7c.listed \in SUBSET Files /\ actions \subseteq m7c.out
      /\ \A f \in m7c.todo, x \in m7c.out : x.id # ItemId(f, m7c.listed)
  BY DEF ResolverInv, ResolverTypeOK, ResolverSound, AttemptOK
<1>3. m7c'.out = m7c.out \cup {r}
  BY <1>1, <1>2
<1>4. \/ actions' = actions
      \/ p7c = "journal" /\ r \in spent /\ actions' = actions \cup {r}
  <2>1. {a \in actions : a.id # r.id} = actions
    <3>1. \A a \in actions : a.id # r.id
      BY <1>2
    <3> QED  BY <3>1
  <2> QED  BY <2>1 DEF ResolverInv, ResolverSound, ActingOK
<1>5. ResolverTypeOK'
  <2>1. actions' \subseteq ItemRecord
    BY <1>4 DEF ResolverInv, ResolverTypeOK
  <2> QED  BY <1>1, <2>1 DEF ResolverInv, ResolverTypeOK, Memory, Home7, Approval, Ghosts7
<1>6. \A f \in m7c'.todo : ItemId(f, m7c.listed) # r.id
  BY <1>1, <1>2, IdsDiffer DEF ResolverInv
<1>7. r.id[1] = slug[r.file]
  BY <1>2, IdsDiffer DEF ResolverInv
<1>8. \A f \in Files : ItemId(f, m7c.listed)' = ItemId(f, m7c.listed)
  BY <1>1 DEF ItemId
<1>9. RecordsOK'
  <2>1. Recorded' \subseteq Recorded \cup {r}
    BY <1>3, <1>4 DEF Recorded
  <2> QED  BY <1>7, <2>1 DEF ResolverInv, ResolverSound, RecordsOK, Executed, Ghosts7
<1>10. NightOK'
  <2>1. spent' = spent /\ unlogged' = unlogged /\ runs7' = runs7 /\ resolve' = resolve
    BY DEF Ghosts7
  <2>2. actions' \subseteq spent'
    BY <1>4, <2>1 DEF ResolverInv, ResolverSound, NightOK
  <2>3. ~unlogged => spent \subseteq m7c'.out
    BY <1>3 DEF ResolverInv, ResolverSound, NightOK
  <2> QED  BY <1>1, <2>1, <2>2, <2>3 DEF ResolverInv, ResolverSound, NightOK, Executed
<1>11. AttemptOK'
  <2>1. m7c'.todo \subseteq m7c'.listed /\ actions' \subseteq m7c'.out
    BY <1>1, <1>2, <1>3, <1>4
  <2>2. \A f \in m7c'.todo, x \in m7c'.out : x.id # ItemId(f, m7c'.listed)
    BY <1>1, <1>2, <1>3, <1>6
  <2>3. SlugsDiffer' = SlugsDiffer
    BY DEF SlugsDiffer
  <2>4. SlugsDiffer => Has(m7c'.listed \ m7c'.todo, m7c'.out)
    BY <1>1, <1>3 DEF ResolverInv, ResolverSound, AttemptOK, Has
  <2> QED  BY <1>8, <2>1, <2>2, <2>3, <2>4 DEF ResolverInv, ResolverSound, AttemptOK, Has, ItemId, SlugsDiffer
<1>12. ActingOK' /\ ApprovalOK'
  <2>1. ActingOK'
    BY DEF ActingOK
  <2> QED  BY <2>1, <1>4 DEF ResolverInv, ResolverSound, ApprovalOK, Home7, Approval, Ghosts7
<1>13. ExactlyAsJudged'
  <2>1. saved' = saved /\ raced7' = raced7 /\ approvals' = approvals
    BY DEF Home7, Ghosts7
  <2>2. ~raced7 /\ p7c = "journal" /\ r.action = "revert" /\ r.status = "done" => Copy(r) \in saved
    BY DEF ResolverInv, ResolverSound, ActingOK
  <2> QED  BY <1>4, <2>1, <2>2 DEF ResolverInv, ExactlyAsJudged, Copy
<1> QED  BY <1>5, <1>9, <1>10, <1>11, <1>12, <1>13 DEF ResolverInv, ResolverSound

LEMMA JudgeKeeps == ResolverInv /\ JudgeItem => ResolverInv'
<1> SUFFICES ASSUME ResolverInv, JudgeItem PROVE ResolverInv'
  OBVIOUS
<1>1. /\ p7c = "judge" /\ m7c \in Memory /\ NextFile \in m7c.todo /\ m7c.todo \subseteq m7c.listed
      /\ m7c.listed \in SUBSET Files
  BY FirstFile DEF JudgeItem, ResolverInv, ResolverSound, AttemptOK, ResolverTypeOK, Memory
<1>2. UNCHANGED <<Home7, Ledger, resolve, Approval, Ghosts7>>
  BY DEF JudgeItem
<1> DEFINE f == NextFile
           Rec(a) == [id |-> ItemId(f, m7c.listed), file |-> f, status |-> "acting", action |-> a, content |-> text[f]]
<1>3. ItemId(f, m7c.listed) \in ItemKey /\ text[f] \in Texts
  BY <1>1, IdsDiffer DEF ResolverInv, ResolverTypeOK
<1>4. PICK a \in Menu(f) :
        \/ Puts([Rec(a) EXCEPT !.status = "held", !.action = "none"]) /\ UNCHANGED p7c
        \/ Puts([Rec(a) EXCEPT !.status = "recommended"]) /\ UNCHANGED p7c
        \/ /\ a \in Autonomous /\ m7c.used < NightCap
           /\ p7c' = "check" /\ m7c' = [m7c EXCEPT !.rec = Rec(a)]
  BY DEF JudgeItem
<1>5. a \in {"commit", "revert", "doc_fix", "patch"}
  BY DEF Menu
<1>6. CASE Puts([Rec(a) EXCEPT !.status = "held", !.action = "none"]) /\ UNCHANGED p7c
  <2> DEFINE r == [Rec(a) EXCEPT !.status = "held", !.action = "none"]
  <2>1. /\ r \in ItemRecord /\ r.file = f /\ r.id = ItemId(f, m7c.listed) /\ r.status = "held"
    BY <1>1, <1>3 DEF ItemRecord
  <2>2. Puts(r)
    BY <1>6
  <2> HIDE DEF r, Rec, f
  <2> QED  BY <1>1, <1>2, <1>6, <2>1, <2>2, RecordKept DEF Executed, Ledger, f
<1>7. CASE Puts([Rec(a) EXCEPT !.status = "recommended"]) /\ UNCHANGED p7c
  <2> DEFINE r == [Rec(a) EXCEPT !.status = "recommended"]
  <2>1. /\ r \in ItemRecord /\ r.file = f /\ r.id = ItemId(f, m7c.listed) /\ r.status = "recommended" /\ r.action = a
    BY <1>1, <1>3, <1>5 DEF ItemRecord
  <2>2. Puts(r)
    BY <1>7
  <2> HIDE DEF r, Rec, f
  <2> QED  BY <1>1, <1>2, <1>5, <1>7, <2>1, <2>2, RecordKept DEF Executed, Ledger, f
<1>8. CASE /\ a \in Autonomous /\ m7c.used < NightCap
           /\ p7c' = "check" /\ m7c' = [m7c EXCEPT !.rec = Rec(a)]
  <2>1. /\ Rec(a) \in ItemRecord /\ Rec(a).file = f /\ Rec(a).id = ItemId(f, m7c.listed)
        /\ Rec(a).status = "acting" /\ Rec(a).action = a
    BY <1>1, <1>3, <1>5 DEF ItemRecord
  <2>2. /\ m7c' \in Memory /\ m7c'.listed = m7c.listed /\ m7c'.todo = m7c.todo /\ m7c'.out = m7c.out
        /\ m7c'.used = m7c.used /\ m7c'.rec = Rec(a)
    BY <1>1, <1>8, <2>1 DEF Memory
  <2> HIDE DEF Rec, f
  <2>3. ResolverTypeOK'
    BY <1>2, <1>8, <2>2 DEF ResolverInv, ResolverTypeOK, Memory, Home7, Ledger, Approval, Ghosts7
  <2>4. RecordsOK' /\ NightOK' /\ AttemptOK'
    BY <1>1, <1>2, <1>8, <2>2 DEF ResolverInv, ResolverSound, RecordsOK, Recorded, Executed, NightOK, AttemptOK, Has,
         SlugsDiffer, ItemId, Home7, Ledger, Ghosts7
  <2>5. ActingOK'
    BY <1>1, <1>2, <1>8, <2>1, <2>2 DEF ActingOK, ItemId, Autonomous, Ledger, f
  <2>6. ApprovalOK' /\ ExactlyAsJudged'
    BY <1>1, <1>2, <1>8 DEF ResolverInv, ResolverSound, ApprovalOK, ExactlyAsJudged, Copy, Home7, Ledger, Approval, Ghosts7
  <2> QED  BY <2>3, <2>4, <2>5, <2>6 DEF ResolverInv, ResolverSound
<1> QED  BY <1>4, <1>6, <1>7, <1>8

LEMMA CheckKeeps == ResolverInv /\ CheckItem => ResolverInv'
<1> SUFFICES ASSUME ResolverInv, CheckItem PROVE ResolverInv'
  OBVIOUS
<1> DEFINE r == m7c.rec
<1>1. /\ p7c = "check" /\ m7c \in Memory
      /\ UNCHANGED <<Home7, Ledger, resolve, Approval, Ghosts7>>
  BY DEF CheckItem, ResolverInv, ResolverTypeOK, Memory
<1>2. /\ r \in ItemRecord /\ r.file \in m7c.todo /\ r.id = ItemId(r.file, m7c.listed) /\ r.action \in Autonomous
      /\ r.status = "acting" /\ m7c.used < NightCap
  <2>1. /\ r.file \in m7c.todo /\ r.id = ItemId(r.file, m7c.listed) /\ r.action \in Autonomous
        /\ r.status = "acting" /\ m7c.used < NightCap
    BY <1>1 DEF ResolverInv, ResolverSound, ActingOK
  <2>2. r \in ItemRecord \cup {NoRecord} /\ NoRecord.status = "none"
    BY <1>1 DEF Memory, NoRecord
  <2> QED  BY <2>1, <2>2
<1>3. CASE /\ CheckHashes(r)
           /\ p7c' = CASE r.action = "commit" -> "commit" [] r.action = "revert" -> "save" [] OTHER -> "fix"
           /\ UNCHANGED m7c
  <2>1. /\ p7c' = "commit" => r.action = "commit"
        /\ p7c' = "save" => r.action = "revert"
        /\ p7c' = "fix" => r.action = "doc_fix"
        /\ p7c' \in {"commit", "save", "fix"}
    BY <1>2, <1>3 DEF Autonomous
  <2>2. text[r.file] = r.content
    BY <1>3 DEF CheckHashes
  <2>3. ResolverTypeOK'
    BY <1>1, <1>3, <2>1 DEF ResolverInv, ResolverTypeOK, Home7, Ledger, Approval, Ghosts7
  <2>4. RecordsOK' /\ NightOK' /\ AttemptOK'
    BY <1>1, <1>3, <2>1 DEF ResolverInv, ResolverSound, RecordsOK, Recorded, Executed, NightOK, AttemptOK, Has,
         SlugsDiffer, ItemId, Home7, Ledger, Ghosts7
  <2>5. ActingOK'
    BY <1>1, <1>2, <1>3, <2>1, <2>2 DEF ActingOK, ItemId, Home7, Ledger
  <2>6. ApprovalOK' /\ ExactlyAsJudged'
    BY <1>1, <1>3 DEF ResolverInv, ResolverSound, ApprovalOK, ExactlyAsJudged, Copy, Home7, Ledger, Approval, Ghosts7
  <2> QED  BY <2>3, <2>4, <2>5, <2>6 DEF ResolverInv, ResolverSound
<1>4. CASE Puts([r EXCEPT !.status = "recommended"]) /\ p7c' = "judge"
  <2> DEFINE q == [r EXCEPT !.status = "recommended"]
  <2>1. /\ q \in ItemRecord /\ q.file = r.file /\ q.id = r.id /\ q.status = "recommended" /\ q.action = r.action
    BY <1>2 DEF ItemRecord
  <2>2. Puts(q)
    BY <1>4
  <2> HIDE DEF q, r
  <2> QED  BY <1>1, <1>2, <1>4, <2>1, <2>2, RecordKept DEF Executed, Ledger, Autonomous
<1> QED  BY <1>3, <1>4 DEF CheckItem

LEMMA JournalKeeps == ResolverInv /\ JournalItem => ResolverInv'
<1> SUFFICES ASSUME ResolverInv, JournalItem PROVE ResolverInv'
  OBVIOUS
<1>1. p7c = "journal" /\ m7c.rec \in spent /\ m7c.rec \in ItemRecord /\ Executed(m7c.rec)
  BY DEF JournalItem, ResolverInv, ResolverSound, ActingOK, NightOK, ResolverTypeOK
<1>2. /\ m7c.rec.file \in m7c.todo /\ m7c.rec.id = ItemId(m7c.rec.file, m7c.listed)
  BY <1>1 DEF ResolverInv, ResolverSound, ActingOK
<1>3. /\ Puts(m7c.rec) /\ p7c' = "judge"
      /\ actions' = actions \/ actions' = {a \in actions : a.id # m7c.rec.id} \cup {m7c.rec}
      /\ UNCHANGED <<Home7, slug, approvals, resolve, Approval, Ghosts7>>
  BY DEF JournalItem
<1> QED  BY <1>1, <1>2, <1>3, RecordKept DEF Executed

(* An action was taken: it is one of the night's, under an id that none of them has. *)
LEMMA TakenKeeps ==
    ASSUME ResolverInv, p7c \in {"commit", "checkout", "fix"}, NEW s \in {"done", "failed"}, Acted(s),
           text' \in [Files -> Texts], committed' \in [Files -> Texts],
           UNCHANGED <<saved, Ledger, resolve, Approval, unlogged, raced7, edits2, runs7>>
    PROVE  ResolverInv'
<1> DEFINE r == m7c.rec
           q == [m7c.rec EXCEPT !.status = s]
<1>1. /\ r.file \in m7c.todo /\ r.id = ItemId(r.file, m7c.listed) /\ r.action \in Autonomous
      /\ r.status = "acting" /\ m7c.used < NightCap
  BY DEF ResolverInv, ResolverSound, ActingOK
<1>2. m7c \in Memory /\ r \in ItemRecord
  <2>1. m7c \in Memory
    BY DEF ResolverInv, ResolverTypeOK, Memory
  <2>2. r \in ItemRecord \cup {NoRecord} /\ NoRecord.status = "none"
    BY <2>1 DEF Memory, NoRecord
  <2> QED  BY <1>1, <2>1, <2>2
<1>3. /\ q \in ItemRecord /\ q.file = r.file /\ q.id = r.id /\ q.action = r.action /\ q.status = s
      /\ q.content = r.content
  BY <1>2 DEF ItemRecord
<1>4. /\ m7c' \in Memory /\ m7c'.listed = m7c.listed /\ m7c'.todo = m7c.todo /\ m7c'.out = m7c.out
      /\ m7c'.used = m7c.used + 1 /\ m7c'.rec = q
  <2>1. m7c' = [m7c EXCEPT !.rec = q, !.used = m7c.used + 1]
    BY DEF Acted
  <2> HIDE DEF q, r
  <2>2. /\ m7c'.listed = m7c.listed /\ m7c'.todo = m7c.todo /\ m7c'.out = m7c.out
        /\ m7c'.used = m7c.used + 1 /\ m7c'.rec = q
    BY <1>2, <2>1 DEF Memory
  <2>3. m7c.used + 1 \in Nat
    BY <1>2 DEF Memory
  <2>4. m7c' \in Memory
    BY <1>2, <1>3, <2>1, <2>3 DEF Memory
  <2> QED  BY <2>2, <2>4
<1>5. spent' = spent \cup {q} /\ p7c' = "journal"
  BY DEF Acted
<1> HIDE DEF q, r
<1>6. ResolverTypeOK'
  BY <1>3, <1>4, <1>5 DEF ResolverInv, ResolverTypeOK, Memory, Ledger, Approval
<1>7. RecordsOK'
  BY <1>4, <1>5 DEF ResolverInv, ResolverSound, RecordsOK, Recorded, Executed, Ledger
<1>8. NightOK'
  <2>1. IsFiniteSet(spent) /\ Cardinality(spent) \in Nat
    BY FS_CardinalityType DEF ResolverInv, ResolverSound, NightOK
  <2>2. IsFiniteSet(spent') /\ Cardinality(spent') <= Cardinality(spent) + 1
    BY <1>5, <2>1, FS_AddElement
  <2>3. ~unlogged => Cardinality(spent) <= m7c.used /\ spent \subseteq m7c.out
    BY DEF ResolverInv, ResolverSound, NightOK
  <2>4. ~unlogged => Cardinality(spent') <= m7c'.used /\ Cardinality(spent') <= NightCap
    <3>1. Cardinality(spent') \in Nat /\ m7c.used \in Nat /\ NightCap \in Nat
      BY <1>2, <2>2, FS_CardinalityType, ResolverAssumption DEF Memory
    <3> QED  BY <1>1, <1>4, <2>1, <2>2, <2>3, <3>1
  <2>5. ~unlogged => \A x \in spent : x.id # q.id
    BY <1>1, <1>3, <2>3 DEF ResolverInv, ResolverSound, AttemptOK
  <2>6. ~unlogged => \A x, y \in spent' : x.id = y.id => x = y
    BY <1>5, <2>5 DEF ResolverInv, ResolverSound, NightOK
  <2>7. \A x \in spent' : Executed(x)
    BY <1>3, <1>5 DEF ResolverInv, ResolverSound, NightOK, Executed
  <2>8. actions' \subseteq spent' /\ resolve'.run <= runs7' /\ resolve'.run < runs7'
    BY <1>5 DEF ResolverInv, ResolverSound, NightOK, Ledger
  <2>9. resolve'.run # runs7'
    BY <2>8 DEF ResolverInv, ResolverTypeOK
  <2> QED  BY <1>4, <1>5, <2>2, <2>3, <2>4, <2>6, <2>7, <2>8, <2>9 DEF NightOK, Executed
<1>9. AttemptOK'
  BY <1>4, <1>5 DEF ResolverInv, ResolverSound, AttemptOK, Has, SlugsDiffer, ItemId, Ledger
<1>10. ActingOK'
  <2>1. ~raced7 /\ r.action = "revert" => Copy(r) \in saved
    BY DEF ResolverInv, ResolverSound, ActingOK, r
  <2>2. Copy(q) = Copy(r)
    BY <1>3 DEF Copy
  <2>3. slug' = slug
    BY DEF Ledger
  <2> QED  BY <1>1, <1>3, <1>4, <1>5, <2>1, <2>2, <2>3 DEF ActingOK, ItemId, Autonomous
<1>11. ApprovalOK' /\ ExactlyAsJudged'
  BY <1>5 DEF ResolverInv, ResolverSound, ApprovalOK, ExactlyAsJudged, Copy, Ledger, Approval
<1> QED  BY <1>6, <1>7, <1>8, <1>9, <1>10, <1>11 DEF ResolverInv, ResolverSound

LEMMA ActKeeps == ResolverInv /\ (CommitItem \/ CheckoutItem \/ FixDoc) => ResolverInv'
<1>1. ASSUME ResolverInv, p7c \notin {"idle", "judge"} PROVE m7c.rec.file \in Files /\ m7c.rec \in ItemRecord
  <2>1. m7c \in Memory /\ m7c.rec.file \in m7c.todo
    BY <1>1 DEF ResolverInv, ResolverTypeOK, Memory, ResolverSound, ActingOK
  <2>2. m7c.rec.status # "none"
    BY <1>1 DEF ResolverInv, ResolverSound, ActingOK, NightOK, Executed
  <2> QED  BY <2>1, <2>2 DEF Memory, NoRecord
<1>2. ASSUME ResolverInv, CommitItem PROVE ResolverInv'
  <2>1. p7c = "commit" /\ text' = text /\ (committed' = committed \/ committed' = [committed EXCEPT ![m7c.rec.file] = m7c.rec.content])
    BY <1>2 DEF CommitItem
  <2>2. \E s \in {"done", "failed"} : Acted(s)
    BY <1>2 DEF CommitItem
  <2>3. text' \in [Files -> Texts] /\ committed' \in [Files -> Texts]
    BY <1>1, <1>2, <2>1 DEF ResolverInv, ResolverTypeOK, ItemRecord
  <2> QED  BY <1>2, <2>1, <2>2, <2>3, TakenKeeps DEF CommitItem
<1>3. ASSUME ResolverInv, CheckoutItem PROVE ResolverInv'
  <2>1. p7c = "checkout" /\ committed' = committed
        /\ (text' = text \/ text' = [text EXCEPT ![m7c.rec.file] = committed[m7c.rec.file]])
    BY <1>3 DEF CheckoutItem
  <2>2. \E s \in {"done", "failed"} : Acted(s)
    BY <1>3 DEF CheckoutItem
  <2>3. text' \in [Files -> Texts] /\ committed' \in [Files -> Texts]
    BY <1>1, <1>3, <2>1 DEF ResolverInv, ResolverTypeOK
  <2> QED  BY <1>3, <2>1, <2>2, <2>3, TakenKeeps DEF CheckoutItem
<1>4. ASSUME ResolverInv, FixDoc PROVE ResolverInv'
  <2>1. p7c = "fix" /\ (committed' = committed \/ committed' = [committed EXCEPT ![m7c.rec.file] = Fixed])
        /\ (text' = text \/ text' = [text EXCEPT ![m7c.rec.file] = Fixed])
    BY <1>4 DEF FixDoc
  <2>2. \E s \in {"done", "failed"} : Acted(s)
    BY <1>4 DEF FixDoc
  <2>3. text' \in [Files -> Texts] /\ committed' \in [Files -> Texts]
    BY <1>4, <2>1 DEF ResolverInv, ResolverTypeOK, Texts, Fixed
  <2> QED  BY <1>4, <2>1, <2>2, <2>3, TakenKeeps DEF FixDoc
<1> QED  BY <1>2, <1>3, <1>4

(* What the attempt is about to discard is saved under its own id, over no copy of an action. *)
LEMMA SaveKeeps == ResolverInv /\ SaveItem => ResolverInv'
<1> SUFFICES ASSUME ResolverInv, SaveItem PROVE ResolverInv'
  OBVIOUS
<1> DEFINE r == m7c.rec
           copy == [Copy(r) EXCEPT !.content = text[r.file]]
<1>1. /\ p7c = "save" /\ p7c' = "checkout" /\ Saves(copy)
      /\ UNCHANGED <<text, committed, Ledger, resolve, m7c, Approval, Ghosts7>>
  BY DEF SaveItem
<1>2. /\ r.file \in m7c.todo /\ r.id = ItemId(r.file, m7c.listed) /\ r.action = "revert" /\ r.status = "acting"
      /\ (~raced7 => text[r.file] = r.content) /\ m7c.used < NightCap
  BY <1>1 DEF ResolverInv, ResolverSound, ActingOK
<1>3. r \in ItemRecord /\ m7c.todo \subseteq Files
  BY <1>2 DEF ResolverInv, ResolverTypeOK, NoRecord
<1>4. copy = [id |-> r.id, file |-> r.file, content |-> text[r.file]]
  BY DEF Copy
<1>5. saved' = {x \in saved : x.id # r.id \/ x.file # r.file} \cup {copy}
  BY <1>1, <1>4 DEF Saves
<1>6. ResolverTypeOK'
  <2>1. copy \in [id : ItemKey, file : Files, content : Texts]
    BY <1>2, <1>3, <1>4 DEF ItemRecord, ResolverInv, ResolverTypeOK
  <2> QED  BY <1>1, <1>5, <2>1 DEF ResolverInv, ResolverTypeOK, Ledger, Approval, Ghosts7
<1>7. RecordsOK' /\ NightOK' /\ AttemptOK'
  BY <1>1 DEF ResolverInv, ResolverSound, RecordsOK, Recorded, Executed, NightOK, AttemptOK, Has, SlugsDiffer, ItemId,
       Ledger, Ghosts7
<1>8. ActingOK'
  <2>1. ~raced7 => Copy(r) \in saved'
    BY <1>2, <1>4, <1>5 DEF Copy
  <2> QED  BY <1>1, <1>2, <2>1 DEF ActingOK, ItemId, Ledger, Ghosts7, Copy, Autonomous
<1>9. ApprovalOK'
  BY <1>1 DEF ResolverInv, ResolverSound, ApprovalOK, Ledger, Approval, Ghosts7
<1>10. ExactlyAsJudged'
  <2>1. \A a \in actions : a.id # r.id
    BY <1>1, <1>2 DEF ResolverInv, ResolverSound, AttemptOK
  <2>2. \A a \in actions : Copy(a) \in saved => Copy(a) \in saved'
    BY <1>5, <2>1 DEF Copy
  <2> QED  BY <1>1, <2>2 DEF ResolverInv, ExactlyAsJudged, Ledger, Ghosts7, Copy
<1> QED  BY <1>6, <1>7, <1>8, <1>9, <1>10 DEF ResolverInv, ResolverSound

(* An attempt starts from what the artifact and the journal hold: every action of the night, *)
(* if none of them was lost.                                                                   *)
LEMMA StartKeeps == ResolverInv /\ StartResolve => ResolverInv'
<1> SUFFICES ASSUME ResolverInv, StartResolve PROVE ResolverInv'
  OBVIOUS
<1> DEFINE listed == (Edited \cap Dirty7) \cup Found
           ids == {r.id : r \in PriorDone}
<1>1. /\ p7c = "idle" /\ runs7' = runs7 + 1 /\ raced7' = (raced7 \/ approver # "idle")
      /\ UNCHANGED <<Home7, Ledger, Approval, spent, edits2>>
      /\ m7c' = [NoM7 EXCEPT !.listed = listed, !.out = PriorDone, !.used = Cardinality(PriorDone),
                             !.todo = {f \in listed : ItemId(f, listed) \notin ids}]
      /\ \/ p7c' = "judge" /\ UNCHANGED <<resolve, unlogged>>
         \/ /\ p7c' = "idle" /\ resolve' = [NoArtifact EXCEPT !.state = "degraded", !.run = runs7']
            /\ unlogged' = (unlogged \/ ~(spent \subseteq actions))
  BY DEF StartResolve
<1>2. listed \in SUBSET Files
  BY DEF Files
<1>3. PriorDone \subseteq ItemRecord /\ PriorDone \subseteq spent /\ actions \subseteq PriorDone
      /\ \A r \in PriorDone : r.id[1] = slug[r.file] /\ Executed(r)
  BY DEF PriorDone, ResolverInv, ResolverTypeOK, ResolverSound, RecordsOK, Recorded, NightOK
<1>4. IsFiniteSet(PriorDone) /\ Cardinality(PriorDone) \in Nat
  BY <1>3, FS_Subset, FS_CardinalityType DEF ResolverInv, ResolverSound, NightOK
<1>5. ~unlogged => spent \subseteq PriorDone /\ Cardinality(spent) = Cardinality(PriorDone)
  <2> SUFFICES ASSUME ~unlogged PROVE spent \subseteq PriorDone
    BY <1>3
  <2>1. /\ spent \subseteq actions \cup resolve.items /\ actions \subseteq spent
        /\ \A r, s \in spent : r.id = s.id => r = s
        /\ \A r \in spent : Executed(r)
    BY <1>1 DEF ResolverInv, ResolverSound, NightOK
  <2> QED  BY <2>1 DEF PriorDone
<1>6. /\ m7c'.listed = listed /\ m7c'.out = PriorDone /\ m7c'.used = Cardinality(PriorDone) /\ m7c'.rec = NoRecord
      /\ m7c'.todo = {f \in listed : ItemId(f, listed) \notin ids}
  BY <1>1 DEF NoM7
<1>7. m7c' \in Memory
  BY <1>1, <1>2, <1>3, <1>4 DEF NoM7, Memory
<1>8. runs7' \in Nat /\ resolve.run \in Nat /\ runs7 \in Nat /\ resolve.run <= runs7 /\ resolve.run < runs7' /\ resolve.run # runs7'
  BY <1>1 DEF ResolverInv, ResolverTypeOK, ResolverSound, NightOK
<1>9. p7c' = "judge" => UNCHANGED <<resolve, unlogged>>
  BY <1>1
<1>10. p7c' = "idle" => /\ resolve'.state = "degraded" /\ resolve'.run = runs7' /\ resolve'.items = {} /\ resolve'.listed = {}
                        /\ (~unlogged' => ~unlogged /\ spent \subseteq actions)
                        /\ unlogged' \in BOOLEAN
                        /\ resolve' \in [state : {"none", "degraded", "whole"}, run : Nat, listed : SUBSET Files, items : SUBSET ItemRecord]
  BY <1>1, <1>8 DEF NoArtifact, ResolverInv, ResolverTypeOK
<1>11. p7c' \in {"judge", "idle"}
  BY <1>1
<1> HIDE DEF listed, ids
<1>12. ResolverTypeOK'
  BY <1>1, <1>7, <1>8, <1>9, <1>10, <1>11 DEF ResolverInv, ResolverTypeOK, Memory, Home7, Ledger, Approval
<1>13. RecordsOK'
  <2>1. Recorded' \subseteq Recorded \cup PriorDone
    BY <1>1, <1>6, <1>9, <1>10, <1>11 DEF Recorded, Ledger
  <2>2. slug' = slug /\ spent' = spent
    BY <1>1 DEF Ledger
  <2>3. \A r \in PriorDone : r.status # "recommended"
    BY <1>3 DEF Executed
  <2> QED  BY <1>3, <2>1, <2>2, <2>3 DEF ResolverInv, ResolverSound, RecordsOK, Executed
<1>14. NightOK'
  <2>1. actions' = actions /\ spent' = spent
    BY <1>1 DEF Ledger
  <2>2. CASE p7c' = "judge"
    <3>1. ~unlogged' => spent' \subseteq m7c'.out /\ Cardinality(spent') <= m7c'.used
      BY <1>4, <1>5, <1>6, <1>9, <2>1, <2>2
    <3> QED  BY <1>8, <1>9, <2>1, <2>2, <3>1 DEF ResolverInv, ResolverSound, NightOK, Executed
  <2>3. CASE p7c' = "idle"
    <3>1. ~unlogged' => ~unlogged /\ spent' \subseteq actions'
      BY <1>10, <2>1, <2>3
    <3> QED  BY <1>8, <1>10, <2>1, <2>3, <3>1 DEF ResolverInv, ResolverSound, NightOK, Executed
  <2> QED  BY <1>11, <2>2, <2>3
<1>15. AttemptOK'
  <2>1. slug' = slug /\ actions' = actions
    BY <1>1 DEF Ledger
  <2>2. m7c'.todo \subseteq m7c'.listed /\ actions' \subseteq m7c'.out
    BY <1>3, <1>6, <2>1
  <2>3. \A f \in m7c'.todo, r \in m7c'.out : r.id # ItemId(f, m7c'.listed)
    BY <1>6 DEF ids
  <2>4. SlugsDiffer => Has(m7c'.listed \ m7c'.todo, m7c'.out)
    <3> SUFFICES ASSUME SlugsDiffer, NEW f \in listed, ItemId(f, listed) \in ids
                 PROVE  \E r \in PriorDone : r.file = f
      BY <1>6 DEF Has
    <3>1. PICK r \in PriorDone : r.id = ItemId(f, listed)
      BY DEF ids
    <3>2. slug[f] = slug[r.file] /\ f \in Files /\ r.file \in Files
      BY <1>2, <1>3, <3>1, IdsDiffer DEF ResolverInv, ItemRecord
    <3> QED  BY <3>2 DEF SlugsDiffer
  <2> QED  BY <1>9, <1>10, <1>11, <2>1, <2>2, <2>3, <2>4 DEF ResolverInv, ResolverSound, AttemptOK, ItemId, SlugsDiffer, Has
<1>16. ActingOK'
  BY <1>11 DEF ActingOK
<1>17. ApprovalOK' /\ ExactlyAsJudged'
  BY <1>1 DEF ResolverInv, ResolverSound, ApprovalOK, ExactlyAsJudged, Copy, Home7, Ledger, Approval
<1> QED  BY <1>12, <1>13, <1>14, <1>15, <1>16, <1>17 DEF ResolverInv, ResolverSound

LEMMA EndKeeps == ResolverInv /\ EndResolve => ResolverInv'
<1> SUFFICES ASSUME ResolverInv, EndResolve PROVE ResolverInv'
  OBVIOUS
<1> DEFINE Unjudged(f) == [NoRecord EXCEPT !.id = ItemId(f, m7c.listed), !.file = f, !.status = "unknown"]
           unknown == {Unjudged(f) : f \in m7c.todo}
<1>1. /\ p7c = "judge" /\ p7c' = "idle" /\ m7c' = NoM7 /\ UNCHANGED <<Home7, Ledger, Approval, Ghosts7>>
      /\ resolve' = [state |-> "whole", run |-> runs7, listed |-> m7c.listed, items |-> m7c.out \cup unknown]
  BY DEF EndResolve
<1>2. m7c \in Memory /\ m7c.todo \subseteq m7c.listed /\ m7c.listed \in SUBSET Files
  BY <1>1 DEF ResolverInv, ResolverTypeOK, Memory, ResolverSound, AttemptOK
<1>3. ASSUME NEW f \in m7c.todo
      PROVE  /\ Unjudged(f).file = f /\ Unjudged(f).id = ItemId(f, m7c.listed) /\ Unjudged(f).status = "unknown"
             /\ Unjudged(f).action = "none" /\ Unjudged(f) \in ItemRecord
  <2>1. ItemId(f, m7c.listed) \in ItemKey /\ f \in Files
    BY <1>2, IdsDiffer DEF ResolverInv
  <2>2. NoRecord \in [id : ItemKey, file : {0}, action : {"none"}, content : Texts, status : {"none"}]
    BY DEF NoRecord, ItemKey, Texts, Fixed
  <2> HIDE DEF NoRecord
  <2> QED  BY <2>1, <2>2 DEF ItemRecord
<1> HIDE DEF Unjudged
<1>4. \A u \in unknown : \E f \in m7c.todo : /\ u.file = f /\ u.id = ItemId(f, m7c.listed) /\ u.status = "unknown"
                                             /\ u.action = "none" /\ u \in ItemRecord
  BY <1>3
<1>5. \A f \in m7c.todo : \E u \in unknown : u.file = f
  BY <1>3
<1> HIDE DEF unknown
<1>6. resolve'.state = "whole" /\ resolve'.run = runs7 /\ resolve'.listed = m7c.listed /\ resolve'.items = m7c.out \cup unknown
  BY <1>1
<1>7. ResolverTypeOK'
  <2>1. m7c' \in Memory
    BY <1>1 DEF NoM7, Memory
  <2>2. resolve' \in [state : {"none", "degraded", "whole"}, run : Nat, listed : SUBSET Files, items : SUBSET ItemRecord]
    BY <1>1, <1>2, <1>4 DEF ResolverInv, ResolverTypeOK, Memory
  <2> QED  BY <1>1, <2>1, <2>2 DEF ResolverInv, ResolverTypeOK, Memory, Home7, Ledger, Approval, Ghosts7
<1>8. RecordsOK'
  <2>1. Recorded' \subseteq Recorded \cup unknown
    BY <1>1, <1>6 DEF Recorded, Ledger
  <2>2. slug' = slug /\ spent' = spent
    BY <1>1 DEF Ledger, Ghosts7
  <2>3. \A u \in unknown : u.id[1] = slug[u.file] /\ u.status = "unknown"
    BY <1>2, <1>4, IdsDiffer DEF ResolverInv
  <2> QED  BY <2>1, <2>2, <2>3 DEF ResolverInv, ResolverSound, RecordsOK, Executed
<1>9. NightOK'
  <2>1. UNCHANGED <<actions, spent, unlogged, runs7>>
    BY <1>1 DEF Ledger, Ghosts7
  <2>2. ~unlogged => spent \subseteq m7c.out
    BY <1>1 DEF ResolverInv, ResolverSound, NightOK
  <2>3. resolve'.run <= runs7
    BY <1>6 DEF ResolverInv, ResolverTypeOK
  <2> QED  BY <1>1, <1>6, <2>1, <2>2, <2>3 DEF ResolverInv, ResolverSound, NightOK, Executed
<1>10. AttemptOK'
  <2>1. SlugsDiffer' = SlugsDiffer
    BY <1>1 DEF SlugsDiffer, Ledger
  <2>2. SlugsDiffer => Has(resolve'.listed, resolve'.items)
    BY <1>1, <1>5, <1>6 DEF ResolverInv, ResolverSound, AttemptOK, Has
  <2> QED  BY <1>1, <2>1, <2>2 DEF AttemptOK, Has
<1>11. ActingOK' /\ ApprovalOK' /\ ExactlyAsJudged'
  BY <1>1 DEF ResolverInv, ResolverSound, ActingOK, ApprovalOK, ExactlyAsJudged, Copy, Home7, Ledger, Approval, Ghosts7
<1> QED  BY <1>7, <1>8, <1>9, <1>10, <1>11 DEF ResolverInv, ResolverSound

LEMMA KilledKeeps == ResolverInv /\ ResolveKilled => ResolverInv'
<1> SUFFICES ASSUME ResolverInv, ResolveKilled PROVE ResolverInv'
  OBVIOUS
<1>1. /\ p7c' = "idle" /\ m7c' = NoM7 /\ unlogged' = (unlogged \/ ~(spent \subseteq actions \cup resolve.items))
      /\ UNCHANGED <<Home7, Ledger, resolve, Approval, spent, raced7, edits2, runs7>>
  BY DEF ResolveKilled
<1>2. ResolverTypeOK'
  <2>1. m7c' \in Memory
    BY <1>1 DEF NoM7, Memory
  <2> QED  BY <1>1, <2>1 DEF ResolverInv, ResolverTypeOK, Memory, Home7, Ledger, Approval
<1>3. unlogged \in BOOLEAN
  BY DEF ResolverInv, ResolverTypeOK
<1>4. RecordsOK' /\ NightOK' /\ AttemptOK'
  BY <1>1, <1>3 DEF ResolverInv, ResolverSound, RecordsOK, Recorded, Executed, NightOK, AttemptOK, Has, SlugsDiffer, Ledger
<1>5. ActingOK' /\ ApprovalOK' /\ ExactlyAsJudged'
  BY <1>1 DEF ResolverInv, ResolverSound, ActingOK, ApprovalOK, ExactlyAsJudged, Copy, Home7, Ledger, Approval
<1> QED  BY <1>2, <1>4, <1>5 DEF ResolverInv, ResolverSound

LEMMA ApproveKeeps == ASSUME ResolverInv, NEW r \in resolve.items, Approve(r) PROVE ResolverInv'
<1>1. /\ approver = "idle" /\ p7c = "idle" /\ r.status = "recommended" /\ mine' = r /\ approver' = "check"
      /\ raced7' = (raced7 \/ \E a \in actions : a.id = r.id)
      /\ UNCHANGED <<Home7, Ledger, resolve, p7c, m7c, spent, unlogged, edits2, runs7>>
  BY DEF Approve
<1>2. r \in ItemRecord /\ r.action # "none"
  BY <1>1 DEF ResolverInv, ResolverTypeOK, ResolverSound, RecordsOK, Recorded
<1>3. ResolverTypeOK'
  BY <1>1, <1>2 DEF ResolverInv, ResolverTypeOK, Home7, Ledger
<1>4. RecordsOK' /\ NightOK' /\ AttemptOK'
  BY <1>1 DEF ResolverInv, ResolverSound, RecordsOK, Recorded, Executed, NightOK, AttemptOK, Has, SlugsDiffer, ItemId, Ledger
<1>5. ActingOK' /\ ExactlyAsJudged'
  BY <1>1 DEF ResolverInv, ResolverSound, ActingOK, ExactlyAsJudged, Copy, Home7, Ledger
<1>6. ApprovalOK'
  BY <1>1, <1>2 DEF ApprovalOK, Ledger
<1> QED  BY <1>3, <1>4, <1>5, <1>6 DEF ResolverInv, ResolverSound

(* A step of an approval leaves the phase's records alone, and no attempt runs beside it *)
(* unless they raced.                                                                      *)
LEMMA ApprovalApart ==
    ASSUME ResolverInv, approver # "idle", UNCHANGED <<actions, slug, Phase7>>
    PROVE  RecordsOK' /\ NightOK' /\ AttemptOK' /\ ActingOK'
<1>1. UNCHANGED <<actions, slug, resolve, p7c, m7c, spent, unlogged, raced7, runs7>>
  BY DEF Phase7, Ghosts7
<1>2. ~raced7 => p7c = "idle"
  BY DEF ResolverInv, ResolverSound, ApprovalOK
<1>3. RecordsOK' /\ NightOK' /\ AttemptOK'
  BY <1>1 DEF ResolverInv, ResolverSound, RecordsOK, Recorded, Executed, NightOK, AttemptOK, Has, SlugsDiffer, ItemId
<1>4. ActingOK'
  BY <1>1, <1>2 DEF ResolverInv, ResolverSound, ActingOK, ItemId
<1> QED  BY <1>3, <1>4

(* What an approval saves is no action's. *)
LEMMA CopiesStay ==
    ASSUME ResolverInv, approver # "idle", NEW copy, copy.id = mine.id, Saves(copy), UNCHANGED <<actions, raced7>>
    PROVE  ~raced7 => \A r \in actions : r.action = "revert" /\ r.status = "done" => Copy(r) \in saved'
<1> SUFFICES ASSUME ~raced7, NEW r \in actions, r.action = "revert", r.status = "done" PROVE Copy(r) \in saved'
  OBVIOUS
<1>1. r.id # mine.id /\ Copy(r) \in saved
  BY DEF ResolverInv, ResolverSound, ApprovalOK, ExactlyAsJudged
<1>2. Copy(r).id = r.id
  BY DEF Copy
<1> QED  BY <1>1, <1>2 DEF Saves

LEMMA ApprovalKeeps ==
    ResolverInv /\ (ApprovalCheck \/ ApprovalCommit \/ ApprovalSave \/ ApprovalCheckout \/ ApprovalReplace \/ ApprovalDies)
    => ResolverInv'
<1>0. ASSUME ResolverInv, approver # "idle"
      PROVE  mine \in ItemRecord /\ mine.action \in {"commit", "revert", "doc_fix", "patch"}
  BY <1>0 DEF ResolverInv, ResolverSound, ApprovalOK, ItemRecord
<1>1. ASSUME ResolverInv, ApprovalCheck PROVE ResolverInv'
  <2>1. approver = "check" /\ UNCHANGED <<Home7, Ledger, Phase7>>
    BY <1>1 DEF ApprovalCheck
  <2>2. RecordsOK' /\ NightOK' /\ AttemptOK' /\ ActingOK'
    BY <1>1, <2>1, ApprovalApart DEF Ledger
  <2>3. \/ /\ UNCHANGED mine /\ text[mine.file] = mine.content
           /\ \/ approver' = "commit" /\ mine.action = "commit"
              \/ approver' = "save" /\ mine.action = "revert"
              \/ approver' = "replace" /\ mine.action \in {"doc_fix", "patch"}
        \/ approver' = "idle" /\ mine' = NoRecord
    BY <1>0, <1>1, <2>1 DEF ApprovalCheck, CheckHashes, Ends7
  <2>4. ResolverTypeOK'
    BY <1>1, <2>1, <2>3 DEF ResolverInv, ResolverTypeOK, Home7, Ledger, Phase7, Ghosts7
  <2>5. ApprovalOK'
    BY <1>0, <1>1, <2>1, <2>3 DEF ResolverInv, ResolverSound, ApprovalOK, Home7, Ledger, Phase7, Ghosts7
  <2>6. ExactlyAsJudged'
    BY <1>1, <2>1 DEF ResolverInv, ExactlyAsJudged, Copy, Home7, Ledger, Phase7, Ghosts7
  <2> QED  BY <2>2, <2>4, <2>5, <2>6 DEF ResolverInv, ResolverSound
<1>2. ASSUME ResolverInv, ApprovalCommit PROVE ResolverInv'
  <2>1. approver = "commit" /\ approver' = "idle" /\ mine' = NoRecord /\ UNCHANGED <<saved, actions, slug, Phase7>>
    BY <1>2 DEF ApprovalCommit, Ends7
  <2>2. RecordsOK' /\ NightOK' /\ AttemptOK' /\ ActingOK'
    BY <1>2, <2>1, ApprovalApart
  <2>3. /\ text' = text \/ text' = [text EXCEPT ![mine.file] = mine.content]
        /\ committed' = committed \/ committed' = [committed EXCEPT ![mine.file] = text[mine.file]]
        /\ \/ UNCHANGED approvals
           \/ Row(text[mine.file]) /\ (mine.action = "commit" => text[mine.file] = mine.content)
    BY <1>2 DEF ApprovalCommit, CheckHashes
  <2> DEFINE told == [id |-> mine.id, action |-> mine.action, content |-> mine.content, did |-> text[mine.file]]
  <2>4. approvals' = approvals \/ approvals' = approvals \cup {told}
    BY <2>3 DEF Row
  <2>5. mine \in ItemRecord /\ mine.action \in {"commit", "revert", "doc_fix", "patch"} /\ mine.action # "revert"
    BY <1>0, <1>2, <2>1 DEF ResolverInv, ResolverSound, ApprovalOK
  <2>6. told \in [id : ItemKey, action : {"commit", "revert", "doc_fix", "patch"}, content : Texts, did : Texts]
    BY <1>2, <2>5 DEF ItemRecord, ResolverInv, ResolverTypeOK
  <2>7. /\ text' \in [Files -> Texts] /\ committed' \in [Files -> Texts]
    BY <1>2, <2>3, <2>5 DEF ItemRecord, ResolverInv, ResolverTypeOK
  <2>8. ResolverTypeOK'
    <3> HIDE DEF told
    <3> QED  BY <1>2, <2>1, <2>4, <2>6, <2>7 DEF ResolverInv, ResolverTypeOK, Phase7, Ghosts7
  <2>9. ApprovalOK'
    BY <2>1 DEF ApprovalOK
  <2>10. ExactlyAsJudged'
    <3>1. ~raced7 /\ mine.action # "commit" => text[mine.file] = Fixed
      BY <1>2, <2>1 DEF ResolverInv, ResolverSound, ApprovalOK
    <3>2. ~raced7 /\ approvals' # approvals =>
             told.did = IF told.action \in {"patch", "doc_fix"} THEN Fixed ELSE told.content
      BY <2>3, <2>5, <3>1
    <3> HIDE DEF told
    <3> QED  BY <1>2, <2>1, <2>4, <3>2 DEF ResolverInv, ExactlyAsJudged, Copy, Phase7, Ghosts7
  <2> QED  BY <2>2, <2>8, <2>9, <2>10 DEF ResolverInv, ResolverSound
<1>3. ASSUME ResolverInv, ApprovalSave \/ ApprovalReplace PROVE ResolverInv'
  <2> DEFINE save == [Copy(mine) EXCEPT !.content = text[mine.file]]
             replace == Copy(mine)
  <2>1. /\ UNCHANGED <<committed, Ledger, mine, Phase7>>
        /\ \/ approver = "save" /\ approver' = "checkout" /\ text' = text /\ Saves(save)
           \/ approver = "replace" /\ approver' = "commit" /\ text' = [text EXCEPT ![mine.file] = Fixed] /\ Saves(replace)
    BY <1>3 DEF ApprovalSave, ApprovalReplace
  <2>2. RecordsOK' /\ NightOK' /\ AttemptOK' /\ ActingOK'
    BY <1>3, <2>1, ApprovalApart DEF Ledger
  <2>3. mine \in ItemRecord
    BY <1>0, <1>3, <2>1
  <2>4. /\ save.id = mine.id /\ save \in [id : ItemKey, file : Files, content : Texts]
        /\ replace.id = mine.id /\ replace \in [id : ItemKey, file : Files, content : Texts]
    BY <1>3, <2>3 DEF Copy, ItemRecord, ResolverInv, ResolverTypeOK
  <2> HIDE DEF save, replace
  <2>5. ResolverTypeOK'
    <3>1. saved' \subseteq [id : ItemKey, file : Files, content : Texts]
      BY <1>3, <2>1, <2>4 DEF Saves, ResolverInv, ResolverTypeOK
    <3>2. text' \in [Files -> Texts]
      BY <1>3, <2>1 DEF ResolverInv, ResolverTypeOK, Texts, Fixed
    <3> QED  BY <1>3, <2>1, <3>1, <3>2 DEF ResolverInv, ResolverTypeOK, Ledger, Phase7, Ghosts7
  <2>6. ApprovalOK'
    <3>1. mine.file \in DOMAIN text
      BY <1>3, <2>3 DEF ItemRecord, ResolverInv, ResolverTypeOK
    <3> QED  BY <1>3, <2>1, <3>1 DEF ResolverInv, ResolverSound, ApprovalOK, Ledger, Phase7, Ghosts7
  <2>7. ExactlyAsJudged'
    <3>1. actions' = actions /\ approvals' = approvals /\ raced7' = raced7
      BY <2>1 DEF Ledger, Phase7, Ghosts7
    <3>2. ~raced7 => \A r \in actions : r.action = "revert" /\ r.status = "done" => Copy(r) \in saved'
      BY <1>3, <2>1, <2>4, <3>1, CopiesStay
    <3> QED  BY <1>3, <3>1, <3>2 DEF ResolverInv, ExactlyAsJudged, Copy
  <2> QED  BY <2>2, <2>5, <2>6, <2>7 DEF ResolverInv, ResolverSound
<1>4. ASSUME ResolverInv, ApprovalCheckout PROVE ResolverInv'
  <2>1. approver = "checkout" /\ approver' = "idle" /\ mine' = NoRecord /\ UNCHANGED <<committed, saved, actions, slug, Phase7>>
    BY <1>4 DEF ApprovalCheckout, Ends7
  <2>2. RecordsOK' /\ NightOK' /\ AttemptOK' /\ ActingOK'
    BY <1>4, <2>1, ApprovalApart
  <2> DEFINE told == [id |-> mine.id, action |-> mine.action, content |-> mine.content, did |-> text[mine.file]]
  <2>3. /\ text' = text \/ text' = [text EXCEPT ![mine.file] = committed[mine.file]]
        /\ approvals' = approvals \/ approvals' = approvals \cup {told}
    BY <1>4 DEF ApprovalCheckout, Row
  <2>4. mine \in ItemRecord /\ mine.action = "revert" /\ (~raced7 => text[mine.file] = mine.content)
    BY <1>0, <1>4, <2>1 DEF ResolverInv, ResolverSound, ApprovalOK
  <2>5. told \in [id : ItemKey, action : {"commit", "revert", "doc_fix", "patch"}, content : Texts, did : Texts]
        /\ text' \in [Files -> Texts]
    BY <1>4, <2>3, <2>4 DEF ItemRecord, ResolverInv, ResolverTypeOK
  <2>6. ~raced7 => told.did = IF told.action \in {"patch", "doc_fix"} THEN Fixed ELSE told.content
    BY <2>4
  <2> HIDE DEF told
  <2>7. ResolverTypeOK'
    BY <1>4, <2>1, <2>3, <2>5 DEF ResolverInv, ResolverTypeOK, Phase7, Ghosts7
  <2>8. ApprovalOK'
    BY <2>1 DEF ApprovalOK
  <2>9. ExactlyAsJudged'
    BY <1>4, <2>1, <2>3, <2>6 DEF ResolverInv, ExactlyAsJudged, Copy, Phase7, Ghosts7
  <2> QED  BY <2>2, <2>7, <2>8, <2>9 DEF ResolverInv, ResolverSound
<1>5. ASSUME ResolverInv, ApprovalDies PROVE ResolverInv'
  <2>1. approver # "idle" /\ approver' = "idle" /\ mine' = NoRecord /\ UNCHANGED <<Home7, Ledger, Phase7>>
    BY <1>5 DEF ApprovalDies, Ends7
  <2>2. RecordsOK' /\ NightOK' /\ AttemptOK' /\ ActingOK'
    BY <1>5, <2>1, ApprovalApart DEF Ledger
  <2>3. ResolverTypeOK' /\ ApprovalOK' /\ ExactlyAsJudged'
    BY <1>5, <2>1 DEF ResolverInv, ResolverTypeOK, ApprovalOK, ExactlyAsJudged, Copy, Home7, Ledger, Phase7, Ghosts7
  <2> QED  BY <2>2, <2>3 DEF ResolverInv, ResolverSound
<1> QED  BY <1>1, <1>2, <1>3, <1>4, <1>5

(* The operator's edit of a file that is being acted on races with the action. *)
LEMMA OperatorKeeps == ASSUME ResolverInv, NEW f \in Files, NEW c \in {1, 2}, OperatorEdits(f, c) PROVE ResolverInv'
<1>1. /\ text' = [text EXCEPT ![f] = c] /\ edits2' = edits2 + 1 /\ raced7' = (raced7 \/ f \in Exposed)
      /\ UNCHANGED <<committed, saved, Ledger, resolve, p7c, m7c, Approval, spent, unlogged, runs7>>
  BY DEF OperatorEdits
<1>2. ResolverTypeOK'
  BY <1>1 DEF ResolverInv, ResolverTypeOK, Ledger, Approval, Texts, Fixed
<1>3. RecordsOK' /\ NightOK' /\ AttemptOK'
  BY <1>1 DEF ResolverInv, ResolverSound, RecordsOK, Recorded, Executed, NightOK, AttemptOK, Has, SlugsDiffer, ItemId, Ledger
<1>4. \A g \in Files : ~raced7' /\ g \in Exposed => text'[g] = text[g]
  BY <1>1 DEF ResolverInv, ResolverTypeOK
<1>5. ActingOK'
  <2>1. ~raced7' => ~raced7
    BY <1>1
  <2>2. p7c = "save" => m7c.rec.file \in Files /\ m7c.rec.file \in Exposed
    BY DEF ResolverInv, ResolverTypeOK, ResolverSound, ActingOK, Exposed
  <2>3. ~raced7' /\ p7c = "save" => text'[m7c.rec.file] = m7c.rec.content
    BY <1>4, <2>1, <2>2 DEF ResolverInv, ResolverSound, ActingOK
  <2> QED  BY <1>1, <2>1, <2>3 DEF ResolverInv, ResolverSound, ActingOK, ItemId, Ledger
<1>6. ApprovalOK'
  <2>1. ~raced7' => ~raced7
    BY <1>1
  <2>2. approver \in {"save", "checkout", "commit"} => mine.file \in Files /\ mine.file \in Exposed
    BY DEF ResolverInv, ResolverSound, ApprovalOK, Exposed, ItemRecord
  <2>3. ~raced7' /\ approver \in {"save", "checkout", "commit"} => text'[mine.file] = text[mine.file]
    BY <1>4, <2>2
  <2> QED  BY <1>1, <2>1, <2>3 DEF ResolverInv, ResolverSound, ApprovalOK, Ledger, Approval
<1>7. ExactlyAsJudged'
  BY <1>1 DEF ResolverInv, ExactlyAsJudged, Copy, Ledger
<1> QED  BY <1>2, <1>3, <1>5, <1>6, <1>7 DEF ResolverInv, ResolverSound

LEMMA ResolverKeeps == ResolverInv /\ [ResolverNext]_resolverVars => ResolverInv'
<1>1. ASSUME ResolverInv, UNCHANGED resolverVars PROVE ResolverInv'
  <2>1. ResolverTypeOK' /\ RecordsOK' /\ NightOK' /\ ExactlyAsJudged'
    BY <1>1 DEF resolverVars, ResolverInv, ResolverTypeOK, ResolverSound, RecordsOK, Recorded, Executed, NightOK,
         ExactlyAsJudged, Copy
  <2>2. AttemptOK' /\ ActingOK' /\ ApprovalOK'
    BY <1>1 DEF resolverVars, ResolverInv, ResolverSound, AttemptOK, ActingOK, ApprovalOK, Copy, Has, SlugsDiffer, ItemId
  <2> QED  BY <2>1, <2>2 DEF ResolverInv, ResolverSound
<1> QED  BY <1>1, JudgeKeeps, CheckKeeps, JournalKeeps, ActKeeps, SaveKeeps, StartKeeps, EndKeeps, KilledKeeps, ApproveKeeps,
            ApprovalKeeps, OperatorKeeps DEF ResolverNext

-----------------------------------------------------------------------------
(* What the phase, its attempts and the approvals keep of each other's records, whichever of *)
(* them dies, however often the phase is repeated and whatever the operator edits.             *)
THEOREM ResolverInvariance == ResolverSpec => []ResolverInv
<1>1. ResolverInit => ResolverInv
  BY ResolverBegins
<1>2. ResolverInv /\ [ResolverNext]_resolverVars => ResolverInv'
  BY ResolverKeeps
<1> QED  BY <1>1, <1>2, PTL DEF ResolverSpec

LEMMA ResolverTrue == ResolverInv => ActionsCarried /\ ItemsAccounted /\ ExactlyAsJudged
BY DEF ResolverInv, ResolverSound, NightOK, AttemptOK, ActionsCarried, ItemsAccounted

(* No more than the cap is done in a night, however often the phase is repeated, and the artifact *)
(* of an attempt has every action of the night (resolver.py: _prior_done, _journal).               *)
THEOREM NightIsCarried == ResolverSpec => []ActionsCarried
<1>1. ResolverInv => ActionsCarried
  BY ResolverTrue
<1> QED  BY <1>1, ResolverInvariance, PTL

(* An edit that was discarded is saved, and an approval does what was judged to what was judged. *)
THEOREM ApprovalsExact == ResolverSpec => []ExactlyAsJudged
<1>1. ResolverInv => ExactlyAsJudged
  BY ResolverTrue
<1> QED  BY <1>1, ResolverInvariance, PTL

-----------------------------------------------------------------------------
(* The machines side by side *)

(* Whichever of them moves, each of the three behaves as its own specification says. *)
THEOREM MachinesApart == MCSpec => CodeSpec /\ RunSpec /\ ResolverSpec
<1>1. MCInit => CodeInit /\ RunInit /\ ResolverInit
  BY DEF MCInit
<1>2. [MCNext]_mcVars => [CodeNext]_codeVars /\ [RunNext]_runVars /\ [ResolverNext]_resolverVars
  BY DEF MCNext, mcVars
<1> QED  BY <1>1, <1>2, PTL DEF MCSpec, CodeSpec, RunSpec, ResolverSpec

(* What the steward keeps of its trees, its rows and its records has its type and its sense. *)
THEOREM StewardTyped == MCSpec => []TypesOK
<1>1. CodeInv /\ RunInv /\ ResolverInv /\ HalfRestoreNoticed => TypesOK
  BY DEF CodeInv, RunInv, ResolverInv, TypesOK
<1> QED  BY <1>1, MachinesApart, CodeInvariance, RunInvariance, ResolverInvariance, HalfRestoreKnown, PTL

(* What the steward did is told: the merge it took back, and every action it took. *)
THEOREM AccountsAreTrue == MCSpec => []AccountsTrue
<1>1. ResolverInv /\ UnpickedMergeReported => AccountsTrue
  BY ResolverTrue DEF AccountsTrue
<1> QED  BY <1>1, MachinesApart, ResolverInvariance, MergeReported, PTL
===============================================================================
