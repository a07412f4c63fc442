-------------------------- MODULE MaintenanceProofs --------------------------
(* What each transaction of P1 keeps, whatever the number of rows, releases,   *)
(* nights, starts and boots, and what the side-by-side composition of them     *)
(* therefore shows.                                                            *)
EXTENDS MCMaintenance, FiniteSetTheorems, SequenceTheorems, WellFoundedInduction, TLAPS

(* A set of numbers has a least one. *)
LEMMA LeastOf ==
  ASSUME NEW S \in SUBSET Nat, S # {}
  PROVE  \E n \in S : \A m \in S : n <= m
<1>1. PICK n \in S : \A m \in S : <<m, n>> \notin OpToRel(<, Nat)
  BY NatLessThanWellFounded, WFMin
<1>2. \A m \in S : ~(m < n)
  BY <1>1 DEF OpToRel
<1> QED  BY <1>2

(* What holds of 0 and passes to the next number holds of every number.        *)
LEMMA CountingUp ==
  ASSUME NEW S \in SUBSET Nat, 0 \in S, \A n \in S : n + 1 \in S
  PROVE  S = Nat
<1> SUFFICES ASSUME Nat \ S # {} PROVE FALSE
  OBVIOUS
<1>1. PICK n \in Nat \ S : \A m \in Nat \ S : n <= m
  BY LeastOf
<1>2. n # 0 /\ n - 1 \in Nat
  BY <1>1
<1>3. n - 1 \in S
  BY <1>1, <1>2
<1>4. (n - 1) + 1 \in S
  BY <1>3
<1> QED  BY <1>1, <1>2, <1>4

(* What holds of a number when it holds of all smaller ones holds of all.      *)
LEMMA FromSmaller ==
  ASSUME NEW S \in SUBSET Nat, \A n \in Nat : (\A m \in Nat : m < n => m \in S) => n \in S
  PROVE  S = Nat
<1> SUFFICES ASSUME Nat \ S # {} PROVE FALSE
  OBVIOUS
<1>1. PICK n \in Nat \ S : \A m \in Nat \ S : n <= m
  BY LeastOf
<1>2. \A m \in Nat : m < n => m \in S
  BY <1>1
<1> QED  BY <1>1, <1>2

(* What the definition G says of an argument depends on arguments of lower     *)
(* rank only; and v is as G says.                                              *)
LooksLower(D, V, rank, G) ==
    \A r \in D : \A g, h \in [D -> V] :
        (\A k \in D : rank[k] < rank[r] => g[k] = h[k]) => G[r][g] = G[r][h]
Solves(v, D, G) == \A r \in D : v[r] = G[r][v]

(* A function may be defined by what it is of arguments of lower rank, when the *)
(* ranks are bounded: such a function exists.                                  *)
LEMMA Recursion ==
  ASSUME NEW D, NEW V, V # {}, NEW N \in Nat, NEW rank \in [D -> 0..N],
         NEW G \in [D -> [[D -> V] -> V]], LooksLower(D, V, rank, G)
  PROVE  \E v \in [D -> V] : Solves(v, D, G)
<1> DEFINE Good(n, v) == \A r \in D : rank[r] < n => v[r] = G[r][v]
           S == {n \in Nat : \E v \in [D -> V] : Good(n, v)}
<1>1. 0 \in S
  <2>1. PICK a \in V : TRUE
    OBVIOUS
  <2>2. [r \in D |-> a] \in [D -> V]
    OBVIOUS
  <2>3. Good(0, [r \in D |-> a])
    <3>1. \A r \in D : ~(rank[r] < 0)
      OBVIOUS
    <3> QED  BY <3>1
  <2> HIDE DEF Good
  <2> QED  BY <2>2, <2>3
<1>2. ASSUME NEW n \in S PROVE n + 1 \in S
  <2>1. PICK v \in [D -> V] : Good(n, v)
    OBVIOUS
  <2> DEFINE w == [r \in D |-> IF rank[r] < n THEN v[r] ELSE G[r][v]]
  <2>2. w \in [D -> V]
    OBVIOUS
  <2>3. \A r \in D : w[r] = IF rank[r] < n THEN v[r] ELSE G[r][v]
    OBVIOUS
  <2> HIDE DEF w
  <2>4. ASSUME NEW r \in D, rank[r] < n + 1 PROVE w[r] = G[r][w]
    <3>1. \A k \in D : rank[k] < rank[r] => w[k] = v[k]
      BY <2>3, <2>4
    <3>2. G[r][w] = G[r][v]
      BY <3>1, <2>2 DEF LooksLower
    <3>3. w[r] = G[r][v]
      BY <2>1, <2>3
    <3> QED  BY <3>2, <3>3
  <2>5. Good(n + 1, w)
    BY <2>4
  <2> HIDE DEF Good
  <2> QED  BY <2>2, <2>5
<1> HIDE DEF S
<1>3. S \in SUBSET Nat
  BY DEF S
<1>4. N + 1 \in S
  BY <1>1, <1>2, <1>3, CountingUp
<1>5. PICK v \in [D -> V] : Good(N + 1, v)
  BY <1>4 DEF S
<1>6. \A r \in D : rank[r] < N + 1
  OBVIOUS
<1> QED  BY <1>5, <1>6 DEF Solves

-----------------------------------------------------------------------------
(* The build cache is pruned by whole chains, whatever its size.               *)

(* A record is below r when it is r or its parent is below r.                  *)
LEMMA BelowStep ==
  ASSUME CacheRecords \in Nat, NEW f \in Forest, NEW r \in Record
  PROVE  /\ Below(f, r) \subseteq Record
         /\ \A k \in Record : k \in Below(f, r) <=> (k = r \/ f[k] \in Below(f, r))
<1> DEFINE D == 0..CacheRecords
           Body(k, u) == k = r \/ (k > 0 /\ u[f[k]])
           G == [k \in D |-> [u \in [D -> BOOLEAN] |-> Body(k, u)]]
           under[k \in D] == Body(k, under)
           rank == [k \in D |-> k]
<1>1. f \in [Record -> D] /\ \A k \in Record : f[k] < k
  BY DEF Forest
<1>2. G \in [D -> [[D -> BOOLEAN] -> BOOLEAN]]
  OBVIOUS
<1>3. rank \in [D -> 0..CacheRecords] /\ \A k \in D : rank[k] = k
  OBVIOUS
<1>4. \A k \in D : \A u \in [D -> BOOLEAN] : G[k][u] = Body(k, u)
  OBVIOUS
<1>5. ASSUME NEW k \in D, NEW g \in [D -> BOOLEAN], NEW h \in [D -> BOOLEAN],
             \A m \in D : rank[m] < rank[k] => g[m] = h[m]
      PROVE  G[k][g] = G[k][h]
  <2>1. CASE k = 0
    BY <2>1, <1>4
  <2>2. CASE k # 0
    <3>1. k \in Record /\ f[k] \in D /\ f[k] < k
      BY <2>2, <1>1 DEF Record
    <3>2. g[f[k]] = h[f[k]]
      BY <3>1, <1>3, <1>5
    <3> QED  BY <3>2, <1>4
  <2> QED  BY <2>1, <2>2
<1>6. LooksLower(D, BOOLEAN, rank, G)
  BY <1>5 DEF LooksLower
<1>7. PICK v \in [D -> BOOLEAN] : Solves(v, D, G)
  <2> HIDE DEF D, G, rank
  <2> QED  BY <1>2, <1>3, <1>6, Recursion
<1>8. under = [k \in D |-> Body(k, under)]
  <2>1. v = [k \in D |-> Body(k, v)]
    BY <1>4, <1>7 DEF Solves
  <2> HIDE DEF Body
  <2> QED  BY <2>1
<1> HIDE DEF under
<1>9. Below(f, r) = {k \in Record : under[k]}
  BY DEF Below, under
<1>10. \A k \in D : under[k] <=> Body(k, under)
  <2> HIDE DEF Body
  <2> QED  BY <1>8
<1>11. ~under[0]
  BY <1>10 DEF Record
<1>12. ASSUME NEW k \in Record PROVE k \in Below(f, r) <=> (k = r \/ f[k] \in Below(f, r))
  <2>1. under[k] <=> (k = r \/ under[f[k]])
    BY <1>10 DEF Record
  <2>2. under[f[k]] <=> f[k] \in Below(f, r)
    <3>1. CASE f[k] = 0
      BY <3>1, <1>9, <1>11 DEF Record
    <3>2. CASE f[k] # 0
      BY <3>2, <1>1, <1>9 DEF Record
    <3> QED  BY <3>1, <3>2
  <2> QED  BY <1>9, <2>1, <2>2
<1> QED  BY <1>9, <1>12

(* A record that something is below of is smaller.                             *)
LEMMA BelowIsMore ==
  ASSUME CacheRecords \in Nat, NEW f \in Forest, NEW r \in Record
  PROVE  \A k \in Below(f, r) : k >= r
<1> DEFINE S == {n \in Nat : n \in Below(f, r) => n >= r}
<1>1. ASSUME NEW n \in Nat, \A m \in Nat : m < n => m \in S PROVE n \in S
  <2> SUFFICES ASSUME n \in Below(f, r), n # r PROVE n >= r
    BY DEF Record
  <2>1. n \in Record /\ f[n] \in Below(f, r)
    BY BelowStep
  <2>2. f[n] < n /\ f[n] \in Nat
    BY <2>1 DEF Forest
  <2> QED  BY <1>1, <2>1, <2>2 DEF Record
<1> HIDE DEF S
<1>2. S = Nat
  <2>1. S \in SUBSET Nat
    BY DEF S
  <2> QED  BY <1>1, <2>1, FromSmaller
<1>3. Below(f, r) \subseteq Nat
  BY BelowStep DEF Record
<1> QED  BY <1>2, <1>3 DEF S

(* What is below a child is below its parent.                                  *)
LEMMA BelowPasses ==
  ASSUME CacheRecords \in Nat, NEW f \in Forest, NEW r \in Record, NEW c \in Children(f, r)
  PROVE  Below(f, c) \subseteq Below(f, r)
<1> DEFINE S == {n \in Nat : n \in Below(f, c) => n \in Below(f, r)}
<1>0. c \in Record /\ f[c] = r
  BY DEF Children
<1>1. ASSUME NEW n \in Nat, \A m \in Nat : m < n => m \in S PROVE n \in S
  <2> SUFFICES ASSUME n \in Below(f, c) PROVE n \in Below(f, r)
    OBVIOUS
  <2>1. n \in Record
    BY <1>0, BelowStep
  <2>2. CASE n = c
    BY <2>1, <2>2, <1>0, BelowStep
  <2>3. CASE n # c
    <3>1. f[n] \in Below(f, c)
      BY <2>1, <2>3, <1>0, BelowStep
    <3>2. f[n] < n /\ f[n] \in Nat
      BY <2>1 DEF Forest
    <3>3. f[n] \in Below(f, r)
      BY <1>1, <3>1, <3>2
    <3> QED  BY <2>1, <3>3, BelowStep
  <2> QED  BY <2>2, <2>3
<1> HIDE DEF S
<1>2. S = Nat
  <2>1. S \in SUBSET Nat
    BY DEF S
  <2> QED  BY <1>1, <2>1, FromSmaller
<1>3. Below(f, c) \subseteq Nat
  BY <1>0, BelowStep DEF Record
<1> QED  BY <1>2, <1>3 DEF S

(* What is below a record, itself apart, is below a child of it; and every     *)
(* record is below one that has no parent.                                     *)
LEMMA BelowSplits ==
  ASSUME CacheRecords \in Nat, NEW f \in Forest
  PROVE  /\ \A r \in Record : \A k \in Below(f, r) \ {r} : \E c \in Children(f, r) : k \in Below(f, c)
         /\ \A k \in Record : \E c \in Children(f, 0) : k \in Below(f, c)
<1>1. ASSUME NEW r \in Record
      PROVE  \A k \in Below(f, r) \ {r} : \E c \in Children(f, r) : k \in Below(f, c)
  <2> DEFINE P(k) == k \in Below(f, r) \ {r} => \E c \in Children(f, r) : k \in Below(f, c)
             S == {n \in Nat : P(n)}
  <2>1. ASSUME NEW n \in Nat, \A m \in Nat : m < n => m \in S PROVE n \in S
    <3> SUFFICES ASSUME n \in Below(f, r) \ {r}
                 PROVE  \E c \in Children(f, r) : n \in Below(f, c)
      OBVIOUS
    <3>1. n \in Record /\ f[n] \in Below(f, r)
      BY BelowStep
    <3>2. CASE f[n] = r
      <4>1. n \in Children(f, r)
        BY <3>1, <3>2 DEF Children
      <4>2. n \in Below(f, n)
        BY <3>1, BelowStep
      <4> QED  BY <4>1, <4>2
    <3>3. CASE f[n] # r
      <4>1. f[n] < n /\ f[n] \in Nat
        BY <3>1 DEF Forest
      <4>2. P(f[n])
        BY <2>1, <4>1
      <4>3. PICK c \in Children(f, r) : f[n] \in Below(f, c)
        BY <3>1, <3>3, <4>2
      <4>4. n \in Below(f, c)
        BY <3>1, <4>3, BelowStep DEF Children
      <4> QED  BY <4>4
    <3> QED  BY <3>2, <3>3
  <2> HIDE DEF P
  <2>2. S = Nat
    <3> HIDE DEF S
    <3>1. S \in SUBSET Nat
      BY DEF S
    <3> QED  BY <2>1, <3>1, FromSmaller
  <2>3. Below(f, r) \subseteq Nat
    BY BelowStep DEF Record
  <2>4. \A k \in Nat : P(k)
    BY <2>2
  <2> QED  BY <2>3, <2>4 DEF P
<1>2. \A k \in Record : \E c \in Children(f, 0) : k \in Below(f, c)
  <2> DEFINE P(k) == k \in Record => \E c \in Children(f, 0) : k \in Below(f, c)
             S == {n \in Nat : P(n)}
  <2>1. ASSUME NEW n \in Nat, \A m \in Nat : m < n => m \in S PROVE n \in S
    <3> SUFFICES ASSUME n \in Record
                 PROVE  \E c \in Children(f, 0) : n \in Below(f, c)
      OBVIOUS
    <3>1. f[n] < n /\ f[n] \in 0..CacheRecords
      BY DEF Forest
    <3>2. CASE f[n] = 0
      <4>1. n \in Children(f, 0)
        BY <3>2 DEF Children
      <4>2. n \in Below(f, n)
        BY BelowStep
      <4> QED  BY <4>1, <4>2
    <3>3. CASE f[n] # 0
      <4>1. f[n] \in Record /\ f[n] \in Nat
        BY <3>1, <3>3 DEF Record
      <4>2. P(f[n])
        BY <2>1, <3>1, <4>1
      <4>3. PICK c \in Children(f, 0) : f[n] \in Below(f, c)
        BY <4>1, <4>2
      <4>4. n \in Below(f, c)
        BY <4>3, BelowStep DEF Children
      <4> QED  BY <4>4
    <3> QED  BY <3>2, <3>3
  <2> HIDE DEF P
  <2>2. S = Nat
    <3> HIDE DEF S
    <3>1. S \in SUBSET Nat
      BY DEF S
    <3> QED  BY <2>1, <3>1, FromSmaller
  <2>3. \A k \in Nat : P(k)
    BY <2>2
  <2>4. Record \subseteq Nat
    BY DEF Record
  <2> QED  BY <2>3, <2>4 DEF P
<1> QED  BY <1>1, <1>2

(* Nothing is below two records of one parent.                                 *)
LEMMA BelowApart ==
  ASSUME CacheRecords \in Nat, NEW f \in Forest, NEW p \in 0..CacheRecords,
         NEW c \in Children(f, p), NEW d \in Children(f, p), c # d
  PROVE  Below(f, c) \cap Below(f, d) = {}
<1> DEFINE S == {n \in Nat : n \notin Below(f, c) \cap Below(f, d)}
<1>0. c \in Record /\ f[c] = p /\ d \in Record /\ f[d] = p /\ p < c /\ p < d
  BY DEF Children, Forest
<1>1. p \notin Below(f, c) /\ p \notin Below(f, d)
  BY <1>0, BelowIsMore DEF Record
<1>2. ASSUME NEW n \in Nat, \A m \in Nat : m < n => m \in S PROVE n \in S
  <2> SUFFICES ASSUME n \in Below(f, c), n \in Below(f, d) PROVE FALSE
    OBVIOUS
  <2>1. n \in Record
    BY <1>0, BelowStep
  <2>2. n # c /\ n # d
    BY <1>0, <1>1, BelowStep
  <2>3. f[n] \in Below(f, c) /\ f[n] \in Below(f, d)
    BY <1>0, <2>1, <2>2, BelowStep
  <2>4. f[n] < n /\ f[n] \in Nat
    BY <2>1 DEF Forest
  <2> QED  BY <1>2, <2>3, <2>4
<1> HIDE DEF S
<1>3. S = Nat
  <2>1. S \in SUBSET Nat
    BY DEF S
  <2> QED  BY <1>2, <2>1, FromSmaller
<1>4. Below(f, c) \subseteq Nat
  BY <1>0, BelowStep DEF Record
<1> QED  BY <1>3, <1>4 DEF S

(* In a sequence of records, no child comes after its parent.                  *)
ChildFirst(f, p) == \A i, j \in 1..Len(p) : f[p[i]] = p[j] => i < j

(* Two such sequences make one when no child of the second is of the first.    *)
LEMMA ChildFirstJoins ==
  ASSUME NEW R, NEW f, NEW s \in Seq(R), NEW t \in Seq(R), ChildFirst(f, s), ChildFirst(f, t),
         \A x \in ToSet(t), y \in ToSet(s) : f[x] # y
  PROVE  /\ s \o t \in Seq(R)
         /\ ToSet(s \o t) = ToSet(s) \cup ToSet(t)
         /\ ChildFirst(f, s \o t)
<1> DEFINE p == s \o t
<1>1. /\ p \in Seq(R) /\ Len(p) = Len(s) + Len(t) /\ Len(s) \in Nat /\ Len(t) \in Nat
      /\ \A i \in 1..Len(p) : p[i] = IF i <= Len(s) THEN s[i] ELSE t[i - Len(s)]
  OBVIOUS
<1> HIDE DEF p
<1>2. DOMAIN p = 1..Len(p) /\ DOMAIN s = 1..Len(s) /\ DOMAIN t = 1..Len(t)
  BY <1>1
<1>3. ToSet(p) = ToSet(s) \cup ToSet(t)
  <2>1. ASSUME NEW i \in 1..Len(p) PROVE p[i] \in ToSet(s) \cup ToSet(t)
    <3>1. CASE i <= Len(s)
      BY <1>1, <1>2, <3>1 DEF ToSet
    <3>2. CASE ~(i <= Len(s))
      <4>1. i - Len(s) \in 1..Len(t)
        BY <1>1, <3>2
      <4> QED  BY <1>1, <1>2, <3>2, <4>1 DEF ToSet
    <3> QED  BY <3>1, <3>2
  <2>2. ASSUME NEW i \in 1..Len(s) PROVE s[i] \in ToSet(p)
    <3>1. i \in 1..Len(p) /\ p[i] = s[i]
      BY <1>1
    <3> QED  BY <1>2, <3>1 DEF ToSet
  <2>3. ASSUME NEW i \in 1..Len(t) PROVE t[i] \in ToSet(p)
    <3>1. i + Len(s) \in 1..Len(p) /\ ~(i + Len(s) <= Len(s)) /\ (i + Len(s)) - Len(s) = i
      BY <1>1
    <3>2. p[i + Len(s)] = t[i]
      BY <1>1, <3>1
    <3> QED  BY <1>2, <3>1, <3>2 DEF ToSet
  <2> QED  BY <1>2, <2>1, <2>2, <2>3 DEF ToSet
<1>4. ASSUME NEW i \in 1..Len(p), NEW j \in 1..Len(p), f[p[i]] = p[j], ~(i < j) PROVE FALSE
  <2>1. CASE i <= Len(s)
    <3>1. i \in 1..Len(s) /\ j \in 1..Len(s) /\ p[i] = s[i] /\ p[j] = s[j]
      BY <1>1, <1>4, <2>1
    <3> QED  BY <1>4, <3>1 DEF ChildFirst
  <2>2. CASE ~(i <= Len(s)) /\ j <= Len(s)
    <3>1. i - Len(s) \in 1..Len(t) /\ j \in 1..Len(s) /\ p[i] = t[i - Len(s)] /\ p[j] = s[j]
      BY <1>1, <2>2
    <3>2. p[i] \in ToSet(t) /\ p[j] \in ToSet(s)
      BY <1>2, <3>1 DEF ToSet
    <3> QED  BY <1>4, <3>2
  <2>3. CASE ~(i <= Len(s)) /\ ~(j <= Len(s))
    <3>1. i - Len(s) \in 1..Len(t) /\ j - Len(s) \in 1..Len(t) /\ p[i] = t[i - Len(s)] /\ p[j] = t[j - Len(s)]
      BY <1>1, <2>3
    <3>2. ~(i - Len(s) < j - Len(s))
      BY <1>1, <1>4
    <3> QED  BY <1>4, <3>1, <3>2 DEF ChildFirst
  <2> QED  BY <2>1, <2>2, <2>3
<1>5. ChildFirst(f, p)
  BY <1>4 DEF ChildFirst
<1> QED  BY <1>1, <1>3, <1>5 DEF p

Visited == [prune : BOOLEAN, order : Seq(Record)]

(* Joined goes through the records in the order of the listing.                *)
JoinedAlong(u, S, answers) ==
    /\ u[0] = <<>> /\ Joined(answers) = u[CacheRecords]
    /\ \A n \in 1..CacheRecords :
          u[n] = IF n \in S THEN u[n - 1] \o answers[n].order ELSE u[n - 1]

LEMMA JoinedBySteps ==
  ASSUME CacheRecords \in Nat, NEW S \in SUBSET Record, NEW answers \in [S -> Visited]
  PROVE  \E u \in [0..CacheRecords -> Seq(Record)] : JoinedAlong(u, S, answers)
<1> DEFINE D == 0..CacheRecords
           Body(n, u) == IF n = 0 THEN <<>>
                         ELSE IF n \in DOMAIN answers THEN u[n - 1] \o answers[n].order ELSE u[n - 1]
           V == Seq(Record)
           G == [n \in D |-> [u \in [D -> V] |-> Body(n, u)]]
           upto[n \in D] == Body(n, upto)
           rank == [k \in D |-> k]
<1>1. rank \in [D -> 0..CacheRecords] /\ \A k \in D : rank[k] = k
  OBVIOUS
<1>2. ASSUME NEW n \in D, NEW u \in [D -> V] PROVE Body(n, u) \in V
  <2>1. CASE n = 0
    BY <2>1
  <2>2. CASE n # 0
    <3>1. n - 1 \in D
      BY <2>2
    <3>2. n \in S => answers[n].order \in V
      BY DEF Visited
    <3> QED  BY <2>2, <3>1, <3>2
  <2> QED  BY <2>1, <2>2
<1>3. ASSUME NEW n \in D, NEW g \in [D -> V], NEW h \in [D -> V],
             \A m \in D : rank[m] < rank[n] => g[m] = h[m]
      PROVE  Body(n, g) = Body(n, h)
  <2>1. CASE n = 0
    BY <2>1
  <2>2. CASE n # 0
    <3>1. n - 1 \in D /\ n - 1 < n
      BY <2>2
    <3>2. g[n - 1] = h[n - 1]
      BY <1>1, <1>3, <3>1
    <3> QED  BY <2>2, <3>2
  <2> QED  BY <2>1, <2>2
<1> HIDE DEF Body
<1>4. G \in [D -> [[D -> V] -> V]] /\ \A n \in D : \A u \in [D -> V] : G[n][u] = Body(n, u)
  BY <1>2
<1>5. LooksLower(D, V, rank, G)
  BY <1>3, <1>4 DEF LooksLower
<1>6. PICK v \in [D -> V] : Solves(v, D, G)
  <2>1. <<>> \in V
    OBVIOUS
  <2> HIDE DEF D, V, G, rank
  <2> QED  BY <1>1, <1>4, <1>5, <2>1, Recursion
<1>7. upto = [n \in D |-> Body(n, upto)]
  <2>1. v = [n \in D |-> Body(n, v)]
    BY <1>4, <1>6 DEF Solves
  <2> QED  BY <2>1
<1>8. Joined(answers) = upto[CacheRecords]
  BY DEF Joined, Body
<1> HIDE DEF upto
<1>9. \A n \in D : upto[n] = Body(n, upto)
  BY <1>7
<1> DEFINE T == {n \in Nat : n \in D => upto[n] \in V}
<1>10. ASSUME NEW n \in Nat, \A m \in Nat : m < n => m \in T PROVE n \in T
  <2> SUFFICES ASSUME n \in D PROVE upto[n] \in V
    OBVIOUS
  <2>1. CASE n = 0
    <3>1. Body(0, upto) = <<>>
      BY DEF Body
    <3>2. <<>> \in Seq(Record)
      OBVIOUS
    <3> QED  BY <1>9, <2>1, <3>1, <3>2
  <2>2. CASE n # 0
    <3>1. n - 1 \in D /\ n - 1 \in Nat /\ n - 1 < n
      BY <2>2
    <3>2. upto[n - 1] \in V
      BY <1>10, <3>1
    <3>3. n \in S => answers[n].order \in V
      BY DEF Visited
    <3>4. upto[n] = IF n \in DOMAIN answers THEN upto[n - 1] \o answers[n].order ELSE upto[n - 1]
      BY <1>9, <2>2 DEF Body
    <3> QED  BY <3>2, <3>3, <3>4
  <2> QED  BY <2>1, <2>2
<1>11. T = Nat
  <2> HIDE DEF T
  <2>1. T \in SUBSET Nat
    BY DEF T
  <2> QED  BY <1>10, <2>1, FromSmaller
<1>12. upto \in [D -> V]
  <2>1. \A n \in D : upto[n] \in V
    BY <1>11
  <2>2. \A n \in D : Body(n, upto) \in V
    BY <1>9, <2>1
  <2> HIDE DEF D, V
  <2> QED  BY <1>7, <2>2
<1>13. upto[0] = <<>>
  <2>1. Body(0, upto) = <<>>
    BY DEF Body
  <2> QED  BY <1>9, <2>1
<1>14. ASSUME NEW n \in 1..CacheRecords
       PROVE  upto[n] = IF n \in S THEN upto[n - 1] \o answers[n].order ELSE upto[n - 1]
  <2>1. n \in D /\ n # 0
    OBVIOUS
  <2> QED  BY <1>9, <2>1 DEF Body
<1> QED  BY <1>8, <1>12, <1>13, <1>14 DEF JoinedAlong

(* So the records it joins are those of the answers, children still first.      *)
LEMMA JoinedSound ==
  ASSUME CacheRecords \in Nat, NEW S \in SUBSET Record, NEW answers \in [S -> Visited], NEW f,
         \A k \in S : ChildFirst(f, answers[k].order),
         \A k, l \in S : k # l => \A x \in ToSet(answers[k].order), y \in ToSet(answers[l].order) : f[x] # y
  PROVE  /\ Joined(answers) \in Seq(Record) /\ ChildFirst(f, Joined(answers))
         /\ ToSet(Joined(answers)) = UNION {ToSet(answers[k].order) : k \in S}
<1>0. PICK u \in [0..CacheRecords -> Seq(Record)] : JoinedAlong(u, S, answers)
  BY JoinedBySteps
<1>1. /\ u[0] = <<>> /\ Joined(answers) = u[CacheRecords]
      /\ \A n \in 1..CacheRecords :
            u[n] = IF n \in S THEN u[n - 1] \o answers[n].order ELSE u[n - 1]
  BY <1>0 DEF JoinedAlong
<1> DEFINE Part(n) == UNION {ToSet(answers[k].order) : k \in {l \in S : l <= n}}
           T == {n \in Nat : n <= CacheRecords => ChildFirst(f, u[n]) /\ ToSet(u[n]) = Part(n)}
<1>2. 0 \in T
  <2>1. Part(0) = {}
    <3>1. \A l \in S : ~(l <= 0)
      BY DEF Record
    <3>2. {l \in S : l <= 0} = {}
      BY <3>1, Zenon
    <3> QED  BY <3>2
  <2>2. ToSet(u[0]) = {} /\ ChildFirst(f, u[0])
    BY <1>1 DEF ToSet, ChildFirst
  <2> QED  BY <2>1, <2>2
<1>3. ASSUME NEW m \in T PROVE m + 1 \in T
  <2> SUFFICES ASSUME m + 1 <= CacheRecords
               PROVE  ChildFirst(f, u[m + 1]) /\ ToSet(u[m + 1]) = Part(m + 1)
    OBVIOUS
  <2>1. m + 1 \in 1..CacheRecords /\ m \in 0..CacheRecords /\ (m + 1) - 1 = m
    OBVIOUS
  <2>2. ChildFirst(f, u[m]) /\ ToSet(u[m]) = Part(m) /\ u[m] \in Seq(Record)
    BY <1>1, <2>1
  <2>3. CASE m + 1 \notin S
    <3>1. Part(m + 1) = Part(m)
      <4>1. {l \in S : l <= m + 1} = {l \in S : l <= m}
        BY <2>3, <2>1 DEF Record
      <4> QED  BY <4>1
    <3>2. u[m + 1] = u[m]
      BY <1>1, <2>1, <2>3
    <3> QED  BY <2>2, <3>1, <3>2
  <2>4. CASE m + 1 \in S
    <3> DEFINE t == answers[m + 1].order
    <3>1. t \in Seq(Record) /\ ChildFirst(f, t)
      BY <2>4 DEF Visited
    <3>2. u[m + 1] = u[m] \o t
      BY <1>1, <2>1, <2>4
    <3>3. \A x \in ToSet(t), y \in ToSet(u[m]) : f[x] # y
      <4> TAKE x \in ToSet(t), y \in ToSet(u[m])
      <4>1. PICK k \in S : k <= m /\ y \in ToSet(answers[k].order)
        BY <2>2
      <4>2. k # m + 1
        BY <4>1 DEF Record
      <4> QED  BY <2>4, <4>1, <4>2
    <3>4. Part(m + 1) = Part(m) \cup ToSet(t)
      <4>1. {l \in S : l <= m + 1} = {l \in S : l <= m} \cup {m + 1}
        BY <2>4, <2>1 DEF Record
      <4> QED  BY <4>1
    <3> HIDE DEF t, Part
    <3>5. ChildFirst(f, u[m] \o t) /\ ToSet(u[m] \o t) = ToSet(u[m]) \cup ToSet(t)
      BY <2>2, <3>1, <3>3, ChildFirstJoins
    <3> QED  BY <2>2, <3>2, <3>4, <3>5
  <2> QED  BY <2>3, <2>4
<1>4. T = Nat
  <2> HIDE DEF T
  <2>1. T \in SUBSET Nat
    BY DEF T
  <2> QED  BY <1>2, <1>3, <2>1, CountingUp
<1>5. Part(CacheRecords) = UNION {ToSet(answers[k].order) : k \in S}
  <2>1. \A l \in S : l <= CacheRecords
    BY DEF Record
  <2>2. {l \in S : l <= CacheRecords} = S
    BY <2>1, Zenon
  <2> QED  BY <2>2
<1>6. CacheRecords \in T
  BY <1>4
<1> HIDE DEF Part
<1> QED  BY <1>1, <1>5, <1>6

(* A visit is decided by those of the children.                                *)
LEMMA VisitsByChildren ==
  ASSUME CacheRecords \in Nat, NEW f \in Forest, NEW stale
  PROVE  /\ RecordVisits(f, stale) \in [Record -> Visited]
         /\ \A r \in Record :
              RecordVisits(f, stale)[r] = VisitRecord(r, [k \in Children(f, r) |-> RecordVisits(f, stale)[k]], stale)
<1> DEFINE Body(r, v) == VisitRecord(r, [k \in Children(f, r) |-> v[k]], stale)
           V == Visited
           G == [r \in Record |-> [v \in [Record -> V] |-> Body(r, v)]]
           each[r \in Record] == Body(r, each)
           rank == [r \in Record |-> CacheRecords - r]
<1>1. rank \in [Record -> 0..CacheRecords] /\ \A r \in Record : rank[r] = CacheRecords - r
  BY DEF Record
<1>2. ASSUME NEW r \in Record
      PROVE  Children(f, r) \in SUBSET Record /\ \A k \in Children(f, r) : k > r
  BY DEF Children, Forest
<1>3. ASSUME NEW r \in Record, NEW S \in SUBSET Record, NEW kids \in [S -> V]
      PROVE  VisitRecord(r, kids, stale) \in V
  <2>0. PICK u \in [0..CacheRecords -> Seq(Record)] : JoinedAlong(u, S, kids)
    BY JoinedBySteps
  <2>1. Joined(kids) \in Seq(Record)
    BY <2>0 DEF JoinedAlong
  <2>2. Append(Joined(kids), r) \in Seq(Record)
    BY <2>1
  <2> DEFINE goes == r \in stale /\ \A k \in DOMAIN kids : kids[k].prune
  <2>3. goes \in BOOLEAN
    OBVIOUS
  <2>4. VisitRecord(r, kids, stale) = [prune |-> goes, order |-> IF goes THEN Append(Joined(kids), r) ELSE Joined(kids)]
    BY DEF VisitRecord
  <2> HIDE DEF goes
  <2> QED  BY <2>1, <2>2, <2>3, <2>4 DEF Visited
<1>4. ASSUME NEW r \in Record, NEW v \in [Record -> V] PROVE Body(r, v) \in V
  <2>1. [k \in Children(f, r) |-> v[k]] \in [Children(f, r) -> V]
    BY <1>2
  <2> HIDE DEF V
  <2> QED  BY <1>2, <1>3, <2>1
<1>5. ASSUME NEW r \in Record, NEW g \in [Record -> V], NEW h \in [Record -> V],
             \A m \in Record : rank[m] < rank[r] => g[m] = h[m]
      PROVE  Body(r, g) = Body(r, h)
  <2>1. \A k \in Children(f, r) : g[k] = h[k]
    <3> TAKE k \in Children(f, r)
    <3>1. k \in Record /\ k > r
      BY <1>2
    <3>2. rank[k] < rank[r]
      BY <1>1, <3>1 DEF Record
    <3> QED  BY <1>5, <3>1, <3>2
  <2>2. [k \in Children(f, r) |-> g[k]] = [k \in Children(f, r) |-> h[k]]
    BY <2>1
  <2> QED  BY <2>2
<1> HIDE DEF Body
<1>6. G \in [Record -> [[Record -> V] -> V]] /\ \A r \in Record : \A v \in [Record -> V] : G[r][v] = Body(r, v)
  BY <1>4
<1>7. LooksLower(Record, V, rank, G)
  BY <1>5, <1>6 DEF LooksLower
<1>8. PICK v \in [Record -> V] : Solves(v, Record, G)
  <2>1. [prune |-> TRUE, order |-> <<>>] \in V
    BY DEF Visited
  <2> HIDE DEF V, G, rank
  <2> QED  BY <1>1, <1>6, <1>7, <2>1, Recursion
<1>9. each = [r \in Record |-> Body(r, each)]
  <2>1. v = [r \in Record |-> Body(r, v)]
    BY <1>6, <1>8 DEF Solves
  <2> QED  BY <2>1
<1>10. RecordVisits(f, stale) = each
  BY DEF RecordVisits, Body
<1> HIDE DEF each
<1>11. \A r \in Record : each[r] = Body(r, each)
  BY <1>9
<1> DEFINE T == {n \in Nat : \A r \in Record : CacheRecords - r = n => each[r] \in V}
<1>12. ASSUME NEW n \in Nat, \A m \in Nat : m < n => m \in T PROVE n \in T
  <2> SUFFICES ASSUME NEW r \in Record, CacheRecords - r = n PROVE each[r] \in V
    OBVIOUS
  <2>1. ASSUME NEW k \in Children(f, r) PROVE each[k] \in V
    <3>1. k \in Record /\ k > r /\ CacheRecords - k \in Nat /\ CacheRecords - k < n
      BY <1>2 DEF Record
    <3> QED  BY <1>12, <3>1
  <2>2. [k \in Children(f, r) |-> each[k]] \in [Children(f, r) -> V]
    BY <2>1
  <2> HIDE DEF V
  <2> QED  BY <1>2, <1>3, <1>11, <2>2 DEF Body
<1>13. T = Nat
  <2> HIDE DEF T
  <2>1. T \in SUBSET Nat
    BY DEF T
  <2> QED  BY <1>12, <2>1, FromSmaller
<1>14. \A r \in Record : each[r] \in V
  <2> TAKE r \in Record
  <2>1. CacheRecords - r \in Nat
    BY DEF Record
  <2> QED  BY <1>13, <2>1
<1> HIDE DEF T, V
<1>15. each \in [Record -> V]
  <2>1. \A r \in Record : Body(r, each) \in V
    BY <1>11, <1>14
  <2> QED  BY <1>9, <2>1
<1> QED  BY <1>10, <1>11, <1>15 DEF Body, V

(* What a visit answers and appends is right for all that is below its record. *)
VisitRight(f, stale, r) ==
    LET v == RecordVisits(f, stale)[r] IN
    /\ v.prune <=> Below(f, r) \subseteq stale
    /\ ToSet(v.order) = {k \in Below(f, r) : Below(f, k) \subseteq stale}
    /\ ChildFirst(f, v.order)

(* What the answers of the children of one record append, put together.         *)
LEMMA SiblingsRight ==
  ASSUME CacheRecords \in Nat, NEW f \in Forest, NEW stale, NEW p \in 0..CacheRecords,
         \A k \in Children(f, p) : VisitRight(f, stale, k)
  PROVE  LET order == Joined([k \in Children(f, p) |-> RecordVisits(f, stale)[k]]) IN
         /\ order \in Seq(Record) /\ ChildFirst(f, order)
         /\ ToSet(order) = {k \in UNION {Below(f, c) : c \in Children(f, p)} : Below(f, k) \subseteq stale}
<1> DEFINE S == Children(f, p)
           answers == [k \in S |-> RecordVisits(f, stale)[k]]
<1>1. S \in SUBSET Record /\ \A k \in S : f[k] = p /\ k > p
  BY DEF Children, Forest
<1>2. answers \in [S -> Visited] /\ \A k \in S : answers[k] = RecordVisits(f, stale)[k]
  BY <1>1, VisitsByChildren
<1> HIDE DEF answers
<1>3. \A k \in S : /\ ChildFirst(f, answers[k].order)
                    /\ ToSet(answers[k].order) = {x \in Below(f, k) : Below(f, x) \subseteq stale}
  BY <1>2 DEF VisitRight
<1>4. \A k, l \in S : k # l => \A x \in ToSet(answers[k].order), y \in ToSet(answers[l].order) : f[x] # y
  <2> TAKE k, l \in S
  <2> HAVE k # l
  <2> TAKE x \in ToSet(answers[k].order), y \in ToSet(answers[l].order)
  <2>1. x \in Below(f, k) /\ y \in Below(f, l) /\ x \in Record /\ y \in Record
    BY <1>1, <1>3, BelowStep
  <2>2. Below(f, k) \cap Below(f, l) = {}
    BY BelowApart
  <2>3. CASE x = k
    <3>1. y >= l /\ l > p /\ f[x] = p
      BY <1>1, <2>1, <2>3, BelowIsMore
    <3> QED  BY <3>1, <2>1, <1>1 DEF Record
  <2>4. CASE x # k
    <3>1. f[x] \in Below(f, k)
      BY <1>1, <2>1, <2>4, BelowStep
    <3> QED  BY <3>1, <2>1, <2>2
  <2> QED  BY <2>3, <2>4
<1>5. /\ Joined(answers) \in Seq(Record) /\ ChildFirst(f, Joined(answers))
      /\ ToSet(Joined(answers)) = UNION {ToSet(answers[k].order) : k \in S}
  <2> HIDE DEF S
  <2> QED  BY <1>1, <1>2, <1>3, <1>4, JoinedSound
<1>6. UNION {ToSet(answers[k].order) : k \in S}
        = {x \in UNION {Below(f, c) : c \in S} : Below(f, x) \subseteq stale}
  <2> HIDE DEF S
  <2> QED  BY <1>3
<1> QED  BY <1>5, <1>6 DEF answers

LEMMA VisitsRight ==
  ASSUME CacheRecords \in Nat, NEW f \in Forest, NEW stale
  PROVE  \A r \in Record : VisitRight(f, stale, r)
<1> DEFINE T == {n \in Nat : \A r \in Record : CacheRecords - r = n => VisitRight(f, stale, r)}
<1>1. ASSUME NEW n \in Nat, \A m \in Nat : m < n => m \in T PROVE n \in T
  <2> SUFFICES ASSUME NEW r \in Record, CacheRecords - r = n PROVE VisitRight(f, stale, r)
    OBVIOUS
  <2> DEFINE K == Children(f, r)
             kids == [k \in K |-> RecordVisits(f, stale)[k]]
             goes == r \in stale /\ \A k \in DOMAIN kids : kids[k].prune
             order == Joined(kids)
             all == UNION {Below(f, c) : c \in K}
             v == RecordVisits(f, stale)[r]
  <2>1. \A k \in K : k \in Record /\ k > r /\ f[k] = r /\ VisitRight(f, stale, k)
    <3> TAKE k \in K
    <3>1. k \in Record /\ k > r /\ f[k] = r
      BY DEF Children, Forest
    <3>2. CacheRecords - k \in Nat /\ CacheRecords - k < n
      BY <3>1 DEF Record
    <3> QED  BY <1>1, <3>1, <3>2
  <2>2. r \in 0..CacheRecords
    BY DEF Record
  <2>3. /\ order \in Seq(Record) /\ ChildFirst(f, order)
        /\ ToSet(order) = {k \in all : Below(f, k) \subseteq stale}
    BY <2>1, <2>2, SiblingsRight
  <2>4. v = [prune |-> goes, order |-> IF goes THEN Append(order, r) ELSE order]
    BY VisitsByChildren DEF VisitRecord
  <2>5. Below(f, r) = {r} \cup all /\ r \notin all
    <3>1. r \in Below(f, r)
      BY BelowStep
    <3>2. all \subseteq Below(f, r)
      BY BelowPasses
    <3>3. Below(f, r) \ {r} \subseteq all
      BY BelowSplits
    <3>4. r \notin all
      <4> SUFFICES ASSUME NEW c \in K, r \in Below(f, c) PROVE FALSE
        OBVIOUS
      <4>1. r >= c
        BY <2>1, BelowIsMore
      <4> QED  BY <4>1, <2>1 DEF Record
    <3> HIDE DEF all
    <3> QED  BY <3>1, <3>2, <3>3, <3>4
  <2>6. goes <=> Below(f, r) \subseteq stale
    <3>1. \A k \in K : kids[k].prune <=> Below(f, k) \subseteq stale
      BY <2>1 DEF VisitRight
    <3>2. DOMAIN kids = K
      OBVIOUS
    <3>3. goes <=> (r \in stale /\ all \subseteq stale)
      <4> HIDE DEF kids, K
      <4> QED  BY <3>1, <3>2
    <3> HIDE DEF goes, all
    <3> QED  BY <2>5, <3>3
  <2> HIDE DEF goes, kids, order, all, v, K
  <2>7. v.prune = goes /\ v.order = IF goes THEN Append(order, r) ELSE order
    BY <2>4
  <2>8. CASE ~goes
    <3>1. {k \in Below(f, r) : Below(f, k) \subseteq stale} = {k \in all : Below(f, k) \subseteq stale}
      BY <2>5, <2>6, <2>8
    <3> QED  BY <2>3, <2>6, <2>7, <2>8, <3>1 DEF VisitRight, v
  <2>9. CASE goes
    <3>1. {k \in Below(f, r) : Below(f, k) \subseteq stale} = {k \in all : Below(f, k) \subseteq stale} \cup {r}
      BY <2>5, <2>6, <2>9
    <3>2. <<r>> \in Seq(Record) /\ ToSet(<<r>>) = {r} /\ ChildFirst(f, <<r>>)
      <4>1. f[r] # r
        BY DEF Forest, Record
      <4>2. Len(<<r>>) = 1 /\ <<r>>[1] = r /\ DOMAIN <<r>> = 1..1 /\ <<r>> \in Seq(Record)
        OBVIOUS
      <4>3. ToSet(<<r>>) = {r}
        BY <4>2 DEF ToSet
      <4>4. ChildFirst(f, <<r>>)
        BY <4>1, <4>2 DEF ChildFirst
      <4> QED  BY <4>2, <4>3, <4>4
    <3>3. \A x \in ToSet(<<r>>), y \in ToSet(order) : f[x] # y
      <4> SUFFICES ASSUME f[r] \in ToSet(order) PROVE FALSE
        BY <3>2
      <4>1. PICK c \in K : f[r] \in Below(f, c)
        BY <2>3 DEF all
      <4>2. f[r] >= c /\ c > r /\ c \in Nat
        BY <2>1, <4>1, BelowIsMore DEF Record
      <4>3. f[r] < r /\ f[r] \in Nat
        BY DEF Forest
      <4> QED  BY <4>2, <4>3 DEF Record
    <3>4. Append(order, r) = order \o <<r>>
      BY <2>3
    <3>5. ChildFirst(f, order \o <<r>>) /\ ToSet(order \o <<r>>) = ToSet(order) \cup ToSet(<<r>>)
      <4> DEFINE t == <<r>>
      <4>1. t \in Seq(Record) /\ ChildFirst(f, t) /\ \A x \in ToSet(t), y \in ToSet(order) : f[x] # y
        BY <3>2, <3>3
      <4> HIDE DEF t
      <4>2. ChildFirst(f, order \o t) /\ ToSet(order \o t) = ToSet(order) \cup ToSet(t)
        BY <2>3, <4>1, ChildFirstJoins
      <4> QED  BY <4>2 DEF t
    <3> QED  BY <2>3, <2>6, <2>7, <2>9, <3>1, <3>2, <3>4, <3>5 DEF VisitRight, v
  <2> QED  BY <2>8, <2>9
<1>2. T = Nat
  <2> HIDE DEF T
  <2>1. T \in SUBSET Nat
    BY DEF T
  <2> QED  BY <1>1, <2>1, FromSmaller
<1> QED
  <2> TAKE r \in Record
  <2>1. CacheRecords - r \in Nat
    BY DEF Record
  <2> QED  BY <1>2, <2>1

(* Exactly the records whose whole chain below is stale go, children first.    *)
THEOREM WholeChainsPruned ==
  ASSUME NEW f \in Forest, NEW stale \in SUBSET Record
  PROVE  PruneWholeChains(f, stale)
<1> DEFINE p == Prunable(f, stale)
<1>0. CacheRecords \in Nat
  BY ApplyAssumption
<1>1. /\ p \in Seq(Record) /\ ChildFirst(f, p)
      /\ ToSet(p) = {k \in UNION {Below(f, c) : c \in Children(f, 0)} : Below(f, k) \subseteq stale}
  <2>1. \A k \in Children(f, 0) : VisitRight(f, stale, k)
    BY <1>0, VisitsRight DEF Children
  <2>2. 0 \in 0..CacheRecords
    BY <1>0
  <2> QED  BY <1>0, <2>1, <2>2, SiblingsRight DEF Prunable
<1>2. UNION {Below(f, c) : c \in Children(f, 0)} = Record
  <2>1. \A c \in Children(f, 0) : Below(f, c) \subseteq Record
    BY <1>0, BelowStep DEF Children
  <2>2. \A k \in Record : \E c \in Children(f, 0) : k \in Below(f, c)
    BY <1>0, BelowSplits
  <2> QED  BY <2>1, <2>2
<1> HIDE DEF p
<1>3. ToSet(p) = {r \in Record : Below(f, r) \subseteq stale}
  BY <1>1, <1>2
<1> QED  BY <1>1, <1>3 DEF PruneWholeChains, ChildFirst, p

-----------------------------------------------------------------------------
(* The guarded update of Open WebUI keeps every row, whatever the number of    *)
(* rows and nights and wherever it is killed.                                  *)

USE DEF Version, Gone, Steps, Reports, Nothing, Unseen, Serving, Database, Rests

(* Counts of rows are numbers. *)
LEMMA CountType == ASSUME NEW S, S \subseteq Row PROVE Cardinality(S) \in Nat
<1>1. IsFiniteSet(Row) BY OwuiAssumption, FS_Interval DEF Row
<1> QED BY <1>1, FS_Subset, FS_CardinalityType

LEMMA OwuiInitially == OwuiInit => OwuiIInv
<1> SUFFICES ASSUME OwuiInit PROVE OwuiIInv
    OBVIOUS
<1> USE DEF OwuiInit
<1>1. OwuiTypeOK
  <2>1. Unseen \in [old : {0} \cup Version, online : Nat, offline : Nat]
        OBVIOUS
  <2>2. data \in [schema : {Gone} \cup Version, rows : SUBSET Row]
        OBVIOUS
  <2>3. archive \in [schema : {Gone} \cup Version, rows : SUBSET Row]
        OBVIOUS
  <2>4. box \in [image : Version, state : {"healthy", "unhealthy", "stopped"}]
        OBVIOUS
  <2>5. seen \in [old : {0} \cup Version, online : Nat, offline : Nat]
        BY <2>1
  <2>6. pin \in Version /\ proven \in {0} \cup Version
        OBVIOUS
  <2>7. step \in Steps /\ report \in Reports
        OBVIOUS
  <2>8. saved \subseteq Row /\ acked \subseteq Row
        OBVIOUS
  <2>9. cut \in BOOLEAN
        OBVIOUS
  <2> QED BY <2>2, <2>3, <2>4, <2>5, <2>6, <2>7, <2>8, <2>9 DEF OwuiTypeOK
<1>2. PinOfStep /\ SchemaOfImage /\ SavedBefore
      BY DEF PinOfStep, SchemaOfImage, SavedBefore
<1>3. OwuiRowsKept /\ OwuiNotHalfApplied
      BY DEF OwuiRowsKept, OwuiNotHalfApplied
<1> QED BY <1>1, <1>2, <1>3 DEF OwuiIInv

USE DEF OwuiIInv, OwuiTypeOK, PinOfStep, SchemaOfImage, SavedBefore, OwuiRowsKept, OwuiNotHalfApplied

LEMMA PreflightStep == OwuiIInv /\ Preflight => OwuiIInv'
<1> SUFFICES ASSUME OwuiIInv, Preflight PROVE OwuiIInv'
    OBVIOUS
<1> USE DEF Preflight
<1>1. seen' \in [old : {0} \cup Version, online : Nat, offline : Nat]
      OBVIOUS
<1>2. archive' \in [schema : {Gone} \cup Version, rows : SUBSET Row]
  <2>1. Nothing \in [schema : {Gone} \cup Version, rows : SUBSET Row]
        OBVIOUS
  <2> QED BY <2>1
<1>3. OwuiTypeOK'
      BY <1>1, <1>2
<1>4. PinOfStep' /\ SchemaOfImage' /\ SavedBefore'
      OBVIOUS
<1>5. OwuiRowsKept' /\ OwuiNotHalfApplied'
      OBVIOUS
<1> QED BY <1>3, <1>4, <1>5

LEMMA OnlineBackupStep == OwuiIInv /\ OnlineBackup => OwuiIInv'
BY CountType DEF OnlineBackup

LEMMA StopOldStep == OwuiIInv /\ StopOld => OwuiIInv'
BY DEF StopOld

LEMMA SnapshotGateStep == OwuiIInv /\ SnapshotGate => OwuiIInv'
BY CountType DEF SnapshotGate

LEMMA RestartUnchangedStep == OwuiIInv /\ RestartUnchanged => OwuiIInv'
BY DEF RestartUnchanged, Up

LEMMA RecheckOldStep == OwuiIInv /\ RecheckOld => OwuiIInv'
BY DEF RecheckOld, Passes

LEMMA WritePinStep == OwuiIInv /\ WritePin => OwuiIInv'
BY DEF WritePin

LEMMA UpTargetStep == OwuiIInv /\ UpTarget => OwuiIInv'
BY DEF UpTarget, Up

LEMMA VerifyTargetStep == OwuiIInv /\ VerifyTarget => OwuiIInv'
BY DEF VerifyTarget, Passes

LEMMA UndoStep == OwuiIInv /\ (UndoStop \/ UndoPin) => OwuiIInv'
BY DEF UndoStop, UndoPin

LEMMA MoveAsideStep == OwuiIInv /\ MoveAside => OwuiIInv'
BY DEF MoveAside

LEMMA ExtractStep == OwuiIInv /\ Extract => OwuiIInv'
BY DEF Extract

LEMMA UpOldStep == OwuiIInv /\ UpOld => OwuiIInv'
BY DEF UpOld, Up

LEMMA VerifyOldStep == OwuiIInv /\ VerifyOld => OwuiIInv'
BY DEF VerifyOld, Passes

LEMMA KilledStep == OwuiIInv /\ Killed => OwuiIInv'
BY DEF Killed

LEMMA PeopleStep == ASSUME NEW r \in Row PROVE OwuiIInv /\ (Write(r) \/ Delete(r)) => OwuiIInv'
BY DEF Write, Delete

LEMMA StutteringStep == OwuiIInv /\ UNCHANGED owuiVars => OwuiIInv'
BY DEF owuiVars

HIDE DEF OwuiIInv, OwuiTypeOK, PinOfStep, SchemaOfImage, SavedBefore, OwuiRowsKept, OwuiNotHalfApplied,
    Serving

(* Every step keeps the inductive invariant of the update. *)
LEMMA OwuiStep == OwuiIInv /\ [OwuiNext]_owuiVars => OwuiIInv'
<1> QED BY PreflightStep, OnlineBackupStep, StopOldStep, SnapshotGateStep, RestartUnchangedStep,
       RecheckOldStep, WritePinStep, UpTargetStep, VerifyTargetStep, UndoStep, MoveAsideStep,
       ExtractStep, UpOldStep, VerifyOldStep, KilledStep, PeopleStep, StutteringStep
       DEF OwuiNext

(* The invariant of the update (_p1_openwebui) holds always: its pins, steps   *)
(* and records of what was saved go together.                                  *)
THEOREM OwuiInvariance == OwuiSpec => []OwuiIInv
BY OwuiInitially, OwuiStep, PTL DEF OwuiSpec

(* "Nothing is deleted": a row that was written and not deleted is always in   *)
(* the volume, an archive, a backup or a directory moved aside.                *)
THEOREM RowsKept == OwuiSpec => []OwuiRowsKept
<1>1. OwuiIInv => OwuiRowsKept
      BY DEF OwuiIInv
<1> QED BY <1>1, OwuiInvariance, PTL

(* "never a half-applied update": a night that ends well leaves the pinned     *)
(* release, proven, on data of its own schema.                                 *)
THEOREM NotHalfApplied == OwuiSpec => []OwuiNotHalfApplied
<1>1. OwuiIInv => OwuiNotHalfApplied
      BY DEF OwuiIInv
<1> QED BY <1>1, OwuiInvariance, PTL

(* _owui_rollback: the rollback replaces the volume only while no container    *)
(* serves from it.                                                             *)
THEOREM DataStill == OwuiSpec => OwuiDataStill
<1>1. OwuiIInv => (step \in {"move", "extract"} => ~Serving)
      BY DEF OwuiIInv, SavedBefore
<1> QED BY <1>1, OwuiInvariance, PTL DEF OwuiDataStill

HIDE DEF Version, Gone, Steps, Reports, Nothing, Unseen, Database, Rests

-----------------------------------------------------------------------------
(* The pins of FreshRSS, SearXNG and omp.                                      *)

(* The greatest of some releases is one of them. *)
LEMMA MaxOfReleases == ASSUME NEW S \in SUBSET Release, S # {} PROVE Max(S) \in S
<1> DEFINE below == {Releases - r : r \in S}
<1>1. Releases \in Nat /\ \A r \in S : r \in 1..Releases
  BY PinnedAssumption DEF Release
<1>2. below \in SUBSET Nat /\ below # {}
  BY <1>1
<1>3. PICK n \in below : \A m \in below : n <= m
  BY <1>2, LeastOf
<1>4. PICK r \in S : n = Releases - r
  OBVIOUS
<1>5. \A q \in S : Releases - r <= Releases - q
  BY <1>3, <1>4
<1>6. \A q \in S : r >= q
  BY <1>1, <1>5
<1> QED  BY <1>6 DEF Max

(* The oldest and the newest of at most two snapshots. *)
LEMMA MaxOfShelf ==
  ASSUME NEW S, IsFiniteSet(S), Cardinality(S) <= 2, S # {}, \A s \in S : s.age \in Nat
  PROVE  \E s \in S : \A t \in S : t.age <= s.age
<1>1. PICK a \in S : TRUE
  OBVIOUS
<1>2. IsFiniteSet(S \ {a}) /\ Cardinality(S \ {a}) = Cardinality(S) - 1 /\ Cardinality(S) \in Nat
  BY FS_RemoveElement, FS_CardinalityType
<1>3. CASE S \ {a} = {}
  BY <1>1, <1>3
<1>4. CASE S \ {a} # {}
  <2>1. PICK b \in S \ {a} : TRUE
    BY <1>4
  <2>2. /\ IsFiniteSet((S \ {a}) \ {b}) /\ Cardinality((S \ {a}) \ {b}) = Cardinality(S \ {a}) - 1
        /\ Cardinality((S \ {a}) \ {b}) \in Nat
    BY <1>2, <2>1, FS_RemoveElement, FS_CardinalityType
  <2>3. (S \ {a}) \ {b} = {}
    BY <1>2, <2>2, FS_EmptySet
  <2>4. \A t \in S : t = a \/ t = b
    BY <2>3
  <2> QED  BY <2>1, <2>4
<1> QED  BY <1>3, <1>4

(* The age the next shelved binary gets, and the shelf without and with the present one. *)
AgeNext == IF shelf = {} THEN 1 ELSE Max({s.age : s \in shelf}) + 1
Others == {s \in shelf : s.file.release # omp.release}
Fresh2 == [file |-> omp, age |-> AgeNext]

(* The new snapshot is younger than those on the shelf. *)
LEMMA Younger == ASSUME PinTypeOK PROVE AgeNext \in Nat /\ \A s \in shelf : s.age < AgeNext
<1>1. IsFiniteSet(shelf) /\ Cardinality(shelf) <= 2 /\ \A s \in shelf : s.age \in Nat
  BY DEF PinTypeOK, OMP_ROLLBACK_KEEP
<1>2. CASE shelf = {}
  BY <1>2 DEF AgeNext
<1>3. CASE shelf # {}
  <2> DEFINE ages == {s.age : s \in shelf}
  <2>1. PICK s \in shelf : \A t \in shelf : t.age <= s.age
    BY <1>1, <1>3, MaxOfShelf
  <2>2. \E m \in ages : \A n \in ages : m >= n
    BY <1>1, <2>1
  <2>3. Max(ages) \in ages /\ \A n \in ages : Max(ages) >= n
    BY <2>2 DEF Max
  <2>4. ages \subseteq Nat /\ \A t \in shelf : t.age \in ages
    BY <1>1
  <2> HIDE DEF ages
  <2>5. Max(ages) \in Nat /\ \A t \in shelf : t.age <= Max(ages)
    BY <2>3, <2>4
  <2>6. AgeNext = Max(ages) + 1
    BY <1>3 DEF AgeNext, ages
  <2> QED  BY <1>1, <2>5, <2>6
<1> QED  BY <1>2, <1>3

(* Of the shelf and the new snapshot the two youngest stay: the new one, and the youngest of the *)
(* other releases, when there is one.                                                             *)
LEMMA Shelved ==
  ASSUME PinTypeOK, ShelfSound
  PROVE  /\ Shelve(omp) \subseteq Others \cup {Fresh2} /\ Fresh2 \in Shelve(omp)
         /\ Others # {} => \E s \in Others : s \in Shelve(omp)
         /\ IsFiniteSet(Shelve(omp)) /\ Cardinality(Shelve(omp)) <= 2
<1> DEFINE all == Others \cup {Fresh2}
           Above(s) == {t \in all : t.age > s.age}
<1>1. Shelve(omp) = {s \in all : Cardinality(Above(s)) < 2}
  BY DEF Shelve, Others, Fresh2, AgeNext, OMP_ROLLBACK_KEEP
<1>2. /\ IsFiniteSet(Others) /\ Others \subseteq shelf /\ \A s \in Others : s.age \in Nat /\ s.age < Fresh2.age
      /\ Fresh2.age \in Nat
  BY Younger, FS_Subset DEF PinTypeOK, Others, Fresh2
<1>3. IsFiniteSet(all)
  BY <1>2, FS_AddElement
<1>4. Fresh2 \in Shelve(omp)
  <2>1. Above(Fresh2) = {}
    BY <1>2
  <2>2. Cardinality(Above(Fresh2)) = 0
    BY <2>1, FS_EmptySet
  <2> QED  BY <1>1, <2>2
<1>5. ASSUME NEW s \in Others, NEW t \in Others, t.age > s.age
      PROVE  s \notin Shelve(omp)
  <2>1. {t} \cup {Fresh2} \subseteq Above(s)
    BY <1>2, <1>5
  <2>2. IsFiniteSet({t} \cup {Fresh2}) /\ Cardinality({t} \cup {Fresh2}) = 2
    <3>1. IsFiniteSet({t}) /\ Cardinality({t}) = 1
      BY FS_Singleton
    <3>2. Fresh2 # t
      <4>1. t.age < Fresh2.age /\ t.age \in Nat
        BY <1>2
      <4> HIDE DEF Fresh2
      <4> QED  BY <4>1
    <3> QED  BY <3>1, <3>2, FS_AddElement
  <2>3. IsFiniteSet(Above(s)) /\ Cardinality(Above(s)) \in Nat
    BY <1>3, FS_Subset, FS_CardinalityType
  <2>4. Cardinality(Above(s)) >= 2
    BY <2>1, <2>2, <2>3, FS_Subset
  <2> QED  BY <1>1, <2>3, <2>4
<1>6. ASSUME Others # {}
      PROVE  \E n \in Others : n \in Shelve(omp) /\ \A s \in Others \ {n} : s \notin Shelve(omp)
  <2>1. Cardinality(Others) <= 2
    <3>1. Cardinality(Others) <= Cardinality(shelf) /\ Cardinality(shelf) \in Nat /\ Cardinality(Others) \in Nat
          /\ Cardinality(shelf) <= 2
      BY <1>2, FS_Subset, FS_CardinalityType DEF PinTypeOK, OMP_ROLLBACK_KEEP
    <3> QED  BY <3>1
  <2>2. PICK n \in Others : \A t \in Others : t.age <= n.age
    BY <1>2, <1>6, <2>1, MaxOfShelf
  <2>3. Above(n) \subseteq {Fresh2}
    BY <1>2, <2>2
  <2>4. Cardinality(Above(n)) < 2
    <3>1. IsFiniteSet({Fresh2}) /\ Cardinality({Fresh2}) = 1
      BY FS_Singleton
    <3>2. Cardinality(Above(n)) <= 1 /\ Cardinality(Above(n)) \in Nat
      BY <2>3, <3>1, FS_Subset, FS_CardinalityType
    <3> QED  BY <3>2
  <2>5. \A s \in Others \ {n} : n.age > s.age
    <3>1. \A s \in Others : s.age = n.age => s = n
      BY <1>2 DEF ShelfSound
    <3> QED  BY <1>2, <2>2, <3>1
  <2> QED  BY <1>1, <1>5, <2>4, <2>5
<1>7. Shelve(omp) \subseteq all
  BY <1>1
<1>8. IsFiniteSet(Shelve(omp)) /\ Cardinality(Shelve(omp)) <= 2
  <2>1. CASE Others = {}
    <3>1. Shelve(omp) \subseteq {Fresh2}
      BY <1>7, <2>1
    <3>2. IsFiniteSet({Fresh2}) /\ Cardinality({Fresh2}) = 1
      BY FS_Singleton
    <3>3. IsFiniteSet(Shelve(omp)) /\ Cardinality(Shelve(omp)) <= 1 /\ Cardinality(Shelve(omp)) \in Nat
      BY <3>1, <3>2, FS_Subset, FS_CardinalityType
    <3> QED  BY <3>3
  <2>2. CASE Others # {}
    <3>1. PICK n \in Others : \A s \in Others \ {n} : s \notin Shelve(omp)
      BY <1>6, <2>2
    <3>2. Shelve(omp) \subseteq {n} \cup {Fresh2}
      BY <1>7, <3>1
    <3>3. IsFiniteSet({n} \cup {Fresh2}) /\ Cardinality({n} \cup {Fresh2}) <= 2
      <4>1. IsFiniteSet({n}) /\ Cardinality({n}) = 1
        BY FS_Singleton
      <4>2. IsFiniteSet({n} \cup {Fresh2}) /\ Cardinality({n} \cup {Fresh2}) \in {1, 2}
        BY <4>1, FS_AddElement
      <4> QED  BY <4>2
    <3>4. IsFiniteSet(Shelve(omp)) /\ Cardinality(Shelve(omp)) <= Cardinality({n} \cup {Fresh2})
          /\ Cardinality(Shelve(omp)) \in Nat /\ Cardinality({n} \cup {Fresh2}) \in Nat
      BY <3>2, <3>3, FS_Subset, FS_CardinalityType
    <3> QED  BY <3>3, <3>4
  <2> QED  BY <2>1, <2>2
<1> QED  BY <1>4, <1>6, <1>7, <1>8

(* The inductive invariant of the pins and omp. *)
PinInv == PinTypeOK /\ PinSound /\ ShelfSound /\ PinIsRun /\ SoakRespected /\ OmpAtHand

LEMMA PinInitially == PinInit => PinInv
<1> SUFFICES ASSUME PinInit PROVE PinInv
    OBVIOUS
<1> USE DEF PinInit, File, Unit
<1>1. 1 \in Release /\ 1 \in 0..MaxPinNights /\ 0 \in 0..MaxPinNights /\ 1 \in 1..MaxPinNights
  BY PinnedAssumption DEF Release
<1>2. IsFiniteSet({}) /\ Cardinality({}) = 0
  BY FS_EmptySet
<1>3. PinTypeOK
  <2>1. [release |-> 1, healthy |-> TRUE] \in [release : Release, healthy : BOOLEAN]
    BY <1>1
  <2>2. omp \in [release : Release, works : BOOLEAN]
    BY <1>1
  <2> QED  BY <1>1, <1>2, <2>1, <2>2 DEF PinTypeOK, OMP_ROLLBACK_KEEP
<1>4. PinSound /\ SoakRespected /\ PinIsRun
  BY <1>1 DEF PinSound, SoakRespected, PinIsRun, Mature
<1>5. ShelfSound /\ OmpAtHand
  BY <1>1 DEF ShelfSound, OmpAtHand
<1> QED  BY <1>3, <1>4, <1>5 DEF PinInv

(* What holds of the units once pins, boxes, marks and memory are sound; and of the shelf. *)
LEMMA PinIsRunThen == PinTypeOK /\ PinSound => PinIsRun
  BY DEF PinTypeOK, PinSound, PinIsRun

(* A step of omp's update that goes on keeps the other units' invariant. *)
LEMMA OmpThen ==
  ASSUME PinTypeOK, ShelfSound, (job # "omp" /\ verdict["omp"] \in {"ok", "current", "reverted"}) => omp.works
  PROVE  OmpAtHand
<1>1. mishaps \in Nat
  BY DEF PinTypeOK
<1>2. mishaps > 1 \/ mishaps < 2
  BY <1>1
<1> QED  BY <1>2 DEF ShelfSound, OmpAtHand

(* The step of a unit leaves the shelf as it was. *)
LEMMA ShelfKept ==
  ASSUME ShelfSound, UNCHANGED <<omp, shelf, mishaps>>, job # "omp", job' # "omp"
  PROVE  ShelfSound'
  BY DEF ShelfSound

(* A verdict on omp tells what is installed. *)
LEMMA OmpSaysTrue ==
  ASSUME OmpAtHand, UNCHANGED omp, job # "omp", verdict'["omp"] \in {verdict["omp"], "none", "failed", "started"}
  PROVE  (job' # "omp" /\ verdict'["omp"] \in {"ok", "current", "reverted"}) => omp'.works
  BY DEF OmpAtHand

(* A unit's step keeps the invariant when it keeps the types and the units'.  *)
LEMMA UnitMoves ==
  ASSUME PinInv, PinTypeOK', PinSound', SoakRespected', UNCHANGED <<omp, shelf, mishaps>>, job # "omp", job' # "omp",
         verdict'["omp"] \in {verdict["omp"], "none", "failed", "started"}
  PROVE  PinInv'
<1>1. ShelfSound'
  BY ShelfKept DEF PinInv
<1>2. (job' # "omp" /\ verdict'["omp"] \in {"ok", "current", "reverted"}) => omp'.works
  BY OmpSaysTrue DEF PinInv
<1>3. \/ mishaps' > 1
      \/ omp'.works
      \/ \E s \in shelf' : s.file.works
  BY DEF PinInv, OmpAtHand
<1>4. OmpAtHand'
  BY <1>2, <1>3 DEF OmpAtHand
<1>5. PinIsRun'
  BY DEF PinTypeOK, PinSound, PinIsRun
<1> QED  BY <1>1, <1>4, <1>5 DEF PinInv

USE DEF PinTypeOK, Unit, Binary, Containers, Calendar, Goes, Ends

LEMMA PublishStep == ASSUME PinInv, NEW r \in Release, Publish(r) PROVE PinInv'
<1> USE DEF Publish
<1>1. PinTypeOK'
  BY DEF PinInv
<1>2. PinSound' /\ SoakRespected'
  BY PinnedAssumption DEF PinInv, PinSound, SoakRespected, Mature, Release
<1> QED  BY <1>1, <1>2, UnitMoves

LEMMA NextPinNightStep == ASSUME PinInv, NextPinNight PROVE PinInv'
<1> USE DEF NextPinNight
<1>1. PinTypeOK'
  <2>1. pinNight' \in 1..MaxPinNights
    BY PinnedAssumption DEF PinInv
  <2> QED  BY <2>1 DEF PinInv
<1>2. \A r \in Release : Mature(r) => Mature(r)'
  BY PinnedAssumption DEF PinInv, Mature
<1>3. PinSound'
  BY DEF PinInv, PinSound
<1>4. SoakRespected'
  BY <1>2 DEF PinInv, SoakRespected
<1> QED  BY <1>1, <1>3, <1>4, UnitMoves

LEMMA BeginPinStep == ASSUME PinInv, NEW u \in Unit, BeginPin(u) PROVE PinInv'
<1> USE DEF BeginPin
<1>1. Eligible(u) \in SUBSET Release
  BY DEF Eligible
<1>2. Eligible(u) # {} => Max(Eligible(u)) \in Eligible(u)
  BY <1>1, MaxOfReleases
<1>3. CASE verdict' = [verdict EXCEPT ![u] = "current"] /\ UNCHANGED <<job, at, want, was>>
  <2>1. PinTypeOK'
    BY <1>3 DEF PinInv
  <2>2. PinSound' /\ SoakRespected'
    BY <1>3 DEF PinInv, PinSound, SoakRespected, Mature
  <2>3. verdict'["omp"] = verdict["omp"] /\ job' # "omp"
    BY <1>3 DEF PinInv
  <2> QED  BY <2>1, <2>2, <2>3, UnitMoves
<1>4. CASE Eligible(u) # {} /\ job' = u /\ at' = "pull" /\ want' = Max(Eligible(u)) /\ was' = pins[u] /\ UNCHANGED verdict
  <2>1. want' \in Eligible(u)
    BY <1>2, <1>4
  <2>2. want' \in Release /\ published[want'] # 0 /\ (u = "searxng" => Mature(want')) /\ want' # 0 /\ was' \in Release
        /\ was' # 0
    <3>1. want' \in Release /\ published[want'] # 0 /\ (u = "searxng" => Mature(want'))
      BY <2>1, <1>4 DEF Eligible
    <3>2. was' \in Release
      BY <1>4 DEF PinInv
    <3>3. 0 \notin Release
      BY PinnedAssumption DEF Release
    <3> QED  BY <3>1, <3>2, <3>3
  <2>3. PinTypeOK'
    BY <1>4, <2>2 DEF PinInv
  <2>4. u = "searxng" => Mature(was') \/ was' = 1
    BY <1>4 DEF PinInv, SoakRespected
  <2>5. PinSound'
    BY <1>4, <2>2, <2>4 DEF PinInv, PinSound, Mature
  <2>6. SoakRespected'
    BY <1>4 DEF PinInv, SoakRespected, Mature
  <2> QED  BY <1>4, <2>3, <2>5, <2>6, UnitMoves
<1> QED  BY <1>3, <1>4

(* The update of a pinned container, step by step. *)
LEMMA PullStep == ASSUME PinInv, Pull PROVE PinInv'
<1> USE DEF Pull
<1>1. PinTypeOK'
  BY DEF PinInv
<1>2. PinSound' /\ SoakRespected'
  BY DEF PinInv, PinSound, SoakRespected, Mature
<1>3. verdict'["omp"] = verdict["omp"] /\ job' # "omp"
  BY DEF PinInv
<1> QED  BY <1>1, <1>2, <1>3, UnitMoves

LEMMA WriteTargetStep == ASSUME PinInv, WriteTarget PROVE PinInv'
<1> USE DEF WriteTarget
<1>1. PinTypeOK'
  BY DEF PinInv, PinSound
<1>2. PinSound' /\ SoakRespected'
  BY <1>1 DEF PinInv, PinSound, SoakRespected, Mature
<1> QED  BY <1>1, <1>2, UnitMoves

LEMMA RestorePinStep == ASSUME PinInv, RestorePin PROVE PinInv'
<1> USE DEF RestorePin
<1>1. PinTypeOK'
  BY DEF PinInv, PinSound
<1>2. PinSound' /\ SoakRespected'
  BY <1>1 DEF PinInv, PinSound, SoakRespected, Mature
<1> QED  BY <1>1, <1>2, UnitMoves

(* A start leaves the other unit's container alone. *)
LEMMA StartsOne ==
  ASSUME PinInv, NEW u \in Unit, Starts(u)
  PROVE  boxes' \in [Unit -> [release : Release, healthy : BOOLEAN]] /\ \A v \in Unit \ {u} : boxes'[v] = boxes[v]
<1>1. CASE boxes' = boxes
  BY <1>1 DEF PinInv
<1>2. ASSUME NEW h \in BOOLEAN, boxes' = [boxes EXCEPT ![u] = [release |-> pins[u], healthy |-> h]]
      PROVE  boxes' \in [Unit -> [release : Release, healthy : BOOLEAN]] /\ \A v \in Unit \ {u} : boxes'[v] = boxes[v]
  <2>1. [release |-> pins[u], healthy |-> h] \in [release : Release, healthy : BOOLEAN]
    BY DEF PinInv
  <2> QED  BY <1>2, <2>1 DEF PinInv
<1> QED  BY <1>1, <1>2 DEF Starts

LEMMA StartTargetStep == ASSUME PinInv, StartTarget PROVE PinInv'
<1> USE DEF StartTarget
<1>1. job \in Unit /\ boxes' \in [Unit -> [release : Release, healthy : BOOLEAN]]
      /\ \A v \in Unit \ {job} : boxes'[v] = boxes[v]
  BY StartsOne
<1>2. PinTypeOK'
  BY <1>1 DEF PinInv
<1>3. PinSound' /\ SoakRespected'
  BY <1>1 DEF PinInv, PinSound, SoakRespected, Mature, Served
<1>4. verdict'["omp"] = verdict["omp"] /\ job' # "omp"
  BY DEF PinInv
<1> QED  BY <1>2, <1>3, <1>4, UnitMoves

LEMMA StartRestoredStep == ASSUME PinInv, StartRestored PROVE PinInv'
<1> USE DEF StartRestored
<1>1. job \in Unit /\ boxes' \in [Unit -> [release : Release, healthy : BOOLEAN]]
      /\ \A v \in Unit \ {job} : boxes'[v] = boxes[v]
  BY StartsOne
<1>2. PinTypeOK'
  BY <1>1 DEF PinInv
<1>3. PinSound' /\ SoakRespected'
  BY <1>1 DEF PinInv, PinSound, SoakRespected, Mature, Served
<1>4. verdict'["omp"] = verdict["omp"] /\ job' # "omp"
  BY DEF PinInv
<1> QED  BY <1>2, <1>3, <1>4, UnitMoves

(* omp's steps leave the units alone. *)
LEMMA OmpMoves ==
  ASSUME PinInv, PinTypeOK', ShelfSound', UNCHANGED <<pins, boxes, published, pinNight, tainted>>,
         job \notin Unit, job' \notin Unit, job' = "none" <=> at' = "idle",
         job' = "omp" <=> at' \in {"update", "smoke", "restore"},
         (job' # "omp" /\ verdict'["omp"] \in {"ok", "current", "reverted"}) => omp'.works
  PROVE  PinInv'
<1>1. PinSound' /\ SoakRespected'
  BY DEF PinInv, PinSound, SoakRespected, Mature
<1>2. PinIsRun'
  BY <1>1 DEF PinSound, PinIsRun
<1>3. OmpAtHand'
  <2>1. mishaps' > 1 \/ mishaps' < 2
    OBVIOUS
  <2> QED  BY <2>1 DEF ShelfSound, OmpAtHand
<1> QED  BY <1>1, <1>2, <1>3 DEF PinInv

(* The update of omp, step by step. *)
LEMMA OmpUpdateStep == ASSUME PinInv, OmpUpdate PROVE PinInv'
<1> USE DEF OmpUpdate
<1>1. omp' = omp \/ \E r \in Release, works \in BOOLEAN : r > omp.release /\ omp' = [release |-> r, works |-> works]
  BY DEF File
<1>2. PinTypeOK'
  <2>1. omp' \in [release : Release, works : BOOLEAN]
    BY <1>1 DEF PinInv
  <2> QED  BY <2>1 DEF PinInv
<1>3. omp' = omp \/ omp'.release > omp.release
  BY <1>1
<1>4. ShelfSound'
  <2>1. \A s \in shelf : s.file.release \in Nat
    BY PinnedAssumption DEF PinInv, Release
  <2>2. omp.release \in Nat /\ omp'.release \in Nat /\ was \in Nat
    BY <1>2, PinnedAssumption DEF PinInv, Release
  <2>3. was <= omp.release /\ was <= omp'.release
    BY <1>3, <2>2 DEF PinInv, ShelfSound
  <2>4. \A s \in shelf : s.file.release <= was /\ (s.file.release = omp'.release => s.file = omp')
    BY <1>3, <2>1, <2>2, <2>3 DEF PinInv, ShelfSound
  <2> QED  BY <2>3, <2>4 DEF PinInv, ShelfSound
<1> QED  BY <1>2, <1>4, OmpMoves DEF PinInv

LEMMA OmpSmokeStep == ASSUME PinInv, OmpSmoke PROVE PinInv'
<1> USE DEF OmpSmoke
<1>1. PinTypeOK'
  BY DEF PinInv
<1>2. ShelfSound'
  <2>1. \A s \in shelf : s.file.release \in Nat
    BY PinnedAssumption DEF PinInv, Release
  <2>2. omp.release \in Nat /\ was \in Nat
    BY PinnedAssumption DEF PinInv, Release
  <2>3. CASE omp.works /\ job' = "none"
    BY <2>1, <2>2, <2>3 DEF PinInv, ShelfSound
  <2>4. CASE UNCHANGED <<job, was>>
    BY <2>4 DEF PinInv, ShelfSound
  <2> QED  BY <2>3, <2>4
<1>3. (job' # "omp" /\ verdict'["omp"] \in {"ok", "current", "reverted"}) => omp'.works
  OBVIOUS
<1>4. /\ job' \in {"none", "omp"} /\ (job' = "none" <=> at' = "idle")
      /\ job' = "omp" <=> at' \in {"update", "smoke", "restore"}
  OBVIOUS
<1> QED  BY <1>1, <1>2, <1>3, <1>4, OmpMoves

LEMMA OmpRestoreStep == ASSUME PinInv, OmpRestore PROVE PinInv'
<1> USE DEF OmpRestore
<1>1. omp' = omp \/ \E s \in shelf : s.file.release = was /\ omp' = s.file
  OBVIOUS
<1>2. omp' \in [release : Release, works : BOOLEAN]
  BY <1>1 DEF PinInv
<1>3. mishaps' \in Nat /\ mishaps' >= mishaps /\ (omp' = omp => mishaps' = mishaps + 1) /\ mishaps \in Nat
      /\ (omp' # omp => mishaps' = mishaps)
  BY DEF PinInv
<1>4. job' = "none" /\ at' = "idle" /\ was' = 0 /\ want' = 0 /\ shelf' = shelf
  OBVIOUS
<1>5. PinTypeOK'
  <2>1. verdict' \in [Unit \cup {"omp"} -> {"none", "started", "current", "ok", "reverted", "warning", "failed"}]
    BY DEF PinInv
  <2> QED  BY <1>2, <1>3, <1>4, <2>1 DEF PinInv
<1>6. ShelfSound'
  <2>1. /\ omp.release \in Nat /\ was \in Nat /\ was <= omp.release
        /\ \A s \in shelf : s.file.release \in Nat /\ s.file.release <= was
        /\ \A s, t \in shelf : s.age = t.age \/ s.file.release = t.file.release => s = t
        /\ \A s \in shelf : s.file.release = omp.release => s.file = omp
        /\ \E s \in shelf : s.file.release = was
        /\ mishaps = 0 => \A s \in shelf : s.file.works
        /\ mishaps < 2 =>
             \/ \E s \in shelf : s.file.release = was /\ s.file.works
             \/ (\E s \in shelf : s.file.works) /\ \A s \in shelf : s.file.works \/ s.file.release = was
    <3>1. omp.release \in Nat /\ was \in Nat /\ \A s \in shelf : s.file.release \in Nat
      BY PinnedAssumption DEF PinInv, Release
    <3>2. job = "omp" /\ ShelfSound
      BY DEF PinInv
    <3> QED  BY <3>1, <3>2, Zenon DEF ShelfSound
  <2>2. CASE omp' = omp
    <3>1. mishaps' # 0 /\ (mishaps' < 2 => mishaps = 0)
      BY <1>3, <2>2
    <3>2. \A s \in shelf : s.file.release <= omp.release
      BY <2>1
    <3>3. mishaps' < 2 => (\E s \in shelf : s.file.works) /\ \A s \in shelf : s.file.works
      BY <3>1, <2>1
    <3> QED  BY <1>4, <2>1, <2>2, <3>1, <3>2, <3>3 DEF ShelfSound
  <2>3. CASE omp' # omp
    <3>1. PICK s \in shelf : s.file.release = was /\ omp' = s.file
      BY <1>1, <2>3
    <3>2. \A t \in shelf : t.file.release = was => t = s
      BY <2>1, <3>1
    <3>3. mishaps' = mishaps
      BY <1>3, <2>3
    <3> QED  BY <1>4, <2>1, <3>1, <3>2, <3>3 DEF ShelfSound
  <2> QED  BY <2>2, <2>3
<1>7. (job' # "omp" /\ verdict'["omp"] \in {"ok", "current", "reverted"}) => omp'.works
  BY DEF PinInv
<1> QED  BY <1>4, <1>5, <1>6, <1>7, OmpMoves

LEMMA BeginOmpStep == ASSUME PinInv, BeginOmp PROVE PinInv'
<1> USE DEF BeginOmp
<1>1. CASE verdict' = [verdict EXCEPT !["omp"] = "failed"] /\ UNCHANGED <<shelf, job, at, want, was>>
  <2>1. PinTypeOK'
    BY <1>1 DEF PinInv
  <2>2. ShelfSound'
    BY <1>1 DEF PinInv, ShelfSound
  <2>3. verdict'["omp"] = "failed"
    BY <1>1 DEF PinInv
  <2>4. at = "idle"
    BY DEF PinInv, PinSound
  <2> QED  BY <1>1, <2>1, <2>2, <2>3, <2>4, OmpMoves
<1>2. CASE shelf' = Shelve(omp) /\ job' = "omp" /\ at' = "update" /\ want' = 0 /\ was' = omp.release /\ UNCHANGED verdict
  <2>1. /\ shelf' \subseteq Others \cup {Fresh2} /\ Fresh2 \in shelf'
        /\ Others # {} => \E s \in Others : s \in shelf'
        /\ IsFiniteSet(shelf') /\ Cardinality(shelf') <= 2
    BY <1>2, Shelved DEF PinInv
  <2>2. AgeNext \in Nat /\ \A s \in shelf : s.age < AgeNext
    BY Younger DEF PinInv
  <2>3. Fresh2.file = omp /\ Fresh2.age = AgeNext
        /\ Fresh2 \in [file : [release : Release, works : BOOLEAN], age : Nat]
    BY <2>2 DEF Fresh2, PinInv
  <2>4. Others \subseteq shelf /\ \A s \in Others : s.file.release # omp.release
    BY DEF Others
  <2>5. omp.release \in Release /\ omp.release \in Nat /\ \A s \in shelf : s.age \in Nat /\ s.file.release \in Nat
    BY PinnedAssumption DEF PinInv, Release
  <2>6. PinTypeOK'
    BY <1>2, <2>1, <2>3, <2>4, <2>5 DEF PinInv, OMP_ROLLBACK_KEEP
  <2>7. ShelfSound'
    <3>1. /\ \A s, t \in shelf : s.age = t.age \/ s.file.release = t.file.release => s = t
          /\ \A s \in shelf : s.file.release <= omp.release /\ (s.file.release = omp.release => s.file = omp)
          /\ mishaps = 0 => (\A s \in shelf : s.file.works) /\ omp.works
          /\ mishaps < 2 =>
               \/ omp.works
               \/ (\E s \in shelf : s.file.works) /\ \A s \in shelf : s.file.works \/ s.file.release = omp.release
      BY DEF PinInv, ShelfSound
    <3>2. \A s \in shelf' : s = Fresh2 \/ s \in Others
      BY <2>1
    <3>3. \A s \in Others : s.age # Fresh2.age /\ s.file.release # Fresh2.file.release
      BY <2>2, <2>3, <2>4, <2>5
    <3>4. \A s, t \in shelf' : s.age = t.age \/ s.file.release = t.file.release => s = t
      BY <3>1, <3>2, <3>3, <2>4
    <3>5. \A s \in shelf' : s.file.release <= omp.release /\ (s.file.release = omp.release => s.file = omp)
      BY <3>1, <3>2, <2>3, <2>4, <2>5
    <3>6. mishaps = 0 => \A s \in shelf' : s.file.works
      BY <3>1, <3>2, <2>3, <2>4
    <3>7. omp.works => \E s \in shelf' : s.file.release = omp.release /\ s.file.works
      BY <2>1, <2>3
    <3>8. ASSUME mishaps < 2, ~omp.works
          PROVE  (\E s \in shelf' : s.file.works) /\ \A s \in shelf' : s.file.works \/ s.file.release = omp.release
      <4>1. PICK s \in shelf : s.file.works
        BY <3>1, <3>8
      <4>2. s.file.release # omp.release
        BY <3>1, <3>8, <4>1
      <4>3. s \in Others
        BY <4>2 DEF Others
      <4>4. PICK t \in Others : t \in shelf'
        BY <2>1, <4>3
      <4>5. \A x \in Others : x.file.works
        BY <3>1, <3>8, <2>4
      <4> QED  BY <3>2, <4>4, <4>5, <2>3
    <3>9. \E s \in shelf' : s.file.release = omp.release
      BY <2>1, <2>3
    <3>10. omp.release <= omp.release
      BY <2>5
    <3> QED  BY <1>2, <3>4, <3>5, <3>6, <3>7, <3>8, <3>9, <3>10 DEF ShelfSound
  <2> QED  BY <1>2, <2>6, <2>7, OmpMoves
<1> QED  BY <1>1, <1>2

LEMMA PinKilledStep == ASSUME PinInv, PinKilled PROVE PinInv'
<1> USE DEF PinKilled
<1>1. PinTypeOK'
  BY DEF PinInv
<1>2. PinSound' /\ SoakRespected'
  BY DEF PinInv, PinSound, SoakRespected, Mature
<1>3. PinIsRun'
  BY <1>2 DEF PinSound, PinIsRun
<1>4. ShelfSound'
  <2>1. /\ omp.release \in Nat /\ was \in Nat
        /\ \A s \in shelf : s.file.release \in Nat
    BY PinnedAssumption DEF PinInv, Release
  <2>2. mishaps' # 0 /\ (mishaps' < 2 => mishaps = 0)
    BY DEF PinInv
  <2>3. CASE job = "omp"
    <3>1. \A s \in shelf : s.file.release <= omp.release
      BY <2>1, <2>3 DEF PinInv, ShelfSound
    <3>2. (\E s \in shelf : s.file.release = was) /\ (mishaps = 0 => \A s \in shelf : s.file.works)
      BY <2>3 DEF PinInv, ShelfSound
    <3> QED  BY <2>1, <2>2, <2>3, <3>1, <3>2 DEF PinInv, ShelfSound
  <2>4. CASE job # "omp"
    BY <2>1, <2>2, <2>4 DEF PinInv, ShelfSound
  <2> QED  BY <2>3, <2>4
<1>5. OmpAtHand'
  <2>1. mishaps' > 1 \/ mishaps' < 2
    BY <1>1
  <2>2. (job' # "omp" /\ verdict'["omp"] \in {"ok", "current", "reverted"}) => omp'.works
    BY DEF PinInv, OmpAtHand
  <2> QED  BY <1>4, <2>1, <2>2 DEF ShelfSound, OmpAtHand
<1> QED  BY <1>1, <1>2, <1>3, <1>4, <1>5 DEF PinInv

(* Every step keeps the invariant. *)
LEMMA PinPreserved == PinInv /\ (PinNext \/ UNCHANGED pinVars) => PinInv'
<1>1. ASSUME PinInv, PinNext PROVE PinInv'
  BY <1>1, PublishStep, NextPinNightStep, BeginPinStep, PullStep, WriteTargetStep, StartTargetStep, RestorePinStep,
     StartRestoredStep, BeginOmpStep, OmpUpdateStep, OmpSmokeStep, OmpRestoreStep, PinKilledStep DEF PinNext
<1>2. ASSUME PinInv, UNCHANGED pinVars PROVE PinInv'
  BY <1>2 DEF pinVars, PinInv, PinSound, ShelfSound, PinIsRun, SoakRespected, OmpAtHand, Mature
<1> QED  BY <1>1, <1>2

(* _p1_freshrss, _p1_searxng and the omp update: a pin is what runs or is being put back, SearXNG's  *)
(* has soaked, and a working omp is at hand until two of its updates went wrong.                      *)
THEOREM PinInvariance == PinSpec => []PinInv
  BY PinInitially, PinPreserved, PTL DEF PinSpec

HIDE DEF PinTypeOK, Unit, Binary, Containers, Calendar, Goes, Ends

-----------------------------------------------------------------------------
(* The deployment of the own services and the merge of their bumps.            *)

(* A push leaves the ancestry of the older commits as it was. *)
LEMMA AncestryKept ==
  ASSUME NEW base \in Nat, DeployTypeOK, parent' = Append(parent, base), NEW c \in DOMAIN parent
  PROVE  Ancestry(c)' = Ancestry(c)
<1> DEFINE Climb(g) == [i \in 0..c |-> IF i = 0 THEN {} ELSE {i} \cup g[parent[i]]]
           Climb2(g) == [i \in 0..c |-> IF i = 0 THEN {} ELSE {i} \cup g[parent'[i]]]
<1>1. c \in Nat /\ \A i \in 1..c : parent'[i] = parent[i]
  BY DEF DeployTypeOK
<1>2. ASSUME NEW g PROVE Climb2(g) = Climb(g)
  <2>1. \A i \in 0..c : i = 0 \/ parent'[i] = parent[i]
    BY <1>1
  <2>2. \A i \in 0..c : (IF i = 0 THEN {} ELSE {i} \cup g[parent'[i]]) = (IF i = 0 THEN {} ELSE {i} \cup g[parent[i]])
    BY <2>1
  <2> QED  BY <2>2
<1>3. \A g : g = Climb2(g) <=> g = Climb(g)
  BY <1>2
<1>4. (CHOOSE g : g = Climb2(g)) = (CHOOSE g : g = Climb(g))
  <2> HIDE DEF Climb, Climb2
  <2> QED  BY <1>3
<1>5. Ancestry(c) = (CHOOSE g : g = Climb(g))[c]
  BY DEF Ancestry
<1>6. Ancestry(c)' = (CHOOSE g : g = Climb2(g))[c]
  BY DEF Ancestry
<1> QED  BY <1>4, <1>5, <1>6

(* The ancestry of a commit is defined: parents are older. *)
LEMMA AncestryHas ==
  ASSUME DeployTypeOK, NEW c \in DOMAIN parent
  PROVE  c \in Ancestry(c)
<1> DEFINE Body(g, i) == IF i = 0 THEN {} ELSE {i} \cup g[parent[i]]
           Climb(g, n) == [i \in 0..n |-> Body(g, i)]
           Lacks == {n \in 0..c : \A g : g # Climb(g, n)}
<1>1. c \in Nat /\ c # 0 /\ \A i \in 1..c : parent[i] \in 0..(i - 1)
  <2>1. DOMAIN parent = 1..Len(parent) /\ Len(parent) \in Nat
    BY DEF DeployTypeOK
  <2>2. \A i \in DOMAIN parent : parent[i] \in 0..MaxHistory /\ parent[i] < i
    <3>1. parent \in Seq(0..MaxHistory) /\ \A i \in DOMAIN parent : parent[i] < i
      BY DEF DeployTypeOK
    <3>2. \A i \in 1..Len(parent) : parent[i] \in 0..MaxHistory
      <4> DEFINE S == 0..MaxHistory
      <4>1. parent \in Seq(S)
        BY <3>1
      <4> HIDE DEF S
      <4>2. \A i \in 1..Len(parent) : parent[i] \in S
        BY <4>1
      <4> QED  BY <4>2 DEF S
    <3> QED  BY <2>1, <3>1, <3>2
  <2>3. c \in Nat /\ c # 0 /\ 1..c \subseteq DOMAIN parent
    BY <2>1
  <2> QED  BY <2>2, <2>3, AppDeployAssumption
<1>2. Lacks = {}
  <2>1. SUFFICES ASSUME Lacks # {} PROVE FALSE
    OBVIOUS
  <2>2. Lacks \in SUBSET Nat
    BY <1>1
  <2>3. PICK n \in Lacks : \A m \in Lacks : n <= m
    BY <2>1, <2>2, LeastOf
  <2>4. n \in 0..c
    OBVIOUS
  <2>5. CASE n = 0
    <3> DEFINE g == [i \in 0..0 |-> {}]
    <3>1. Climb(g, 0) = g
      OBVIOUS
    <3> QED  BY <2>5, <3>1
  <2>6. CASE n # 0
    <3>1. n - 1 \in 0..c /\ n - 1 \notin Lacks
      <4>1. n - 1 \in 0..c /\ ~(n <= n - 1)
        BY <2>4, <2>6, <1>1
      <4> HIDE DEF Lacks
      <4> QED  BY <2>3, <4>1
    <3>2. PICK g : g = Climb(g, n - 1)
      BY <3>1
    <3> DEFINE h == [i \in 0..n |-> IF i = n THEN Body(g, n) ELSE g[i]]
    <3>3. ASSUME NEW i \in 0..n PROVE Body(h, i) = h[i]
      <4>1. CASE i = 0
        BY <4>1, <3>2, <1>1, <2>4, <2>6
      <4>2. CASE i # 0
        <5>1. parent[i] \in 0..(i - 1) /\ parent[i] \in 0..(n - 1) /\ parent[i] \in 0..n /\ parent[i] # n
          BY <1>1, <2>4, <4>2
        <5>2. h[parent[i]] = g[parent[i]]
          BY <5>1
        <5>3. Body(h, i) = Body(g, i)
          BY <5>2
        <5>4. CASE i = n
          BY <5>3, <5>4
        <5>5. CASE i # n
          <6>1. i \in 0..(n - 1)
            BY <5>5, <2>4
          <6>2. g[i] = Body(g, i)
            BY <3>2, <6>1
          <6> QED  BY <5>3, <5>5, <6>2
        <5> QED  BY <5>4, <5>5
      <4> QED  BY <4>1, <4>2
    <3>4. h = Climb(h, n)
      <4> HIDE DEF Body
      <4> QED  BY <3>3
    <3> QED  BY <3>4, <2>3
  <2> QED  BY <2>5, <2>6
<1>3. \E g : g = Climb(g, c)
  <2>1. c \in 0..c
    BY <1>1
  <2> HIDE DEF Climb
  <2> QED  BY <1>2, <2>1
<1> DEFINE up == CHOOSE g : g = Climb(g, c)
<1>4. up = Climb(up, c)
  <2> HIDE DEF Climb
  <2> QED  BY <1>3
<1>5. up[c] = Body(up, c)
  <2> HIDE DEF up, Body
  <2> QED  BY <1>1, <1>4
<1>6. Ancestry(c) = up[c]
  BY DEF Ancestry
<1> HIDE DEF up
<1> QED  BY <1>1, <1>5, <1>6

(* The inductive invariant of a deployment. *)
DeployInv == DeployTypeOK /\ TargetSound /\ OnlyGreenDeployed /\ DeployReported /\ NoMajorMerged

LEMMA DeployInitially == DeployInit => DeployInv
<1> SUFFICES ASSUME DeployInit PROVE DeployInv
    OBVIOUS
<1> USE DEF DeployInit
<1>1. MaxHistory \in Nat \ {0} /\ Len(parent) = 1 /\ Len(ci) = 1 /\ DOMAIN parent = {1} /\ parent[1] = 0 /\ ci[1] = "green"
  BY AppDeployAssumption
<1>2. parent \in Seq(0..MaxHistory) /\ ci \in Seq(Verdicts)
  BY <1>1 DEF Verdicts
<1>3. held \in [pre : {0} \cup DOMAIN parent, target : {0} \cup DOMAIN parent, over : SUBSET DOMAIN parent,
                tries : Nat, recent : BOOLEAN]
  BY <1>1 DEF NothingHeld
<1>4. result \in [status : {"none", "skipped", "ok", "rolled_back", "failed"}, pre : {0} \cup DOMAIN parent,
                  target : {0} \cup DOMAIN parent]
  BY <1>1
<1>5. \A p \in PullRequest : bumps[p] \in [state : {"open", "queued", "merged"}, pr : Bumps] /\ bumps[p].state = "open"
  <2>1. \A p \in PullRequest : bumps[p] \in [state : {"open"}, pr : Bumps]
    OBVIOUS
  <2> HIDE DEF Bumps, PullRequest
  <2> QED  BY <2>1
<1>6. bumps \in [PullRequest -> [state : {"open", "queued", "merged"}, pr : Bumps]]
  <2>1. bumps = [p \in PullRequest |-> bumps[p]]
    OBVIOUS
  <2> QED  BY <1>5, <2>1
<1>7. DeployTypeOK
  BY <1>1, <1>2, <1>3, <1>4, <1>6 DEF DeployTypeOK, DeployPhases
<1>8. TargetSound /\ OnlyGreenDeployed /\ DeployReported /\ NoMajorMerged
  BY <1>5 DEF TargetSound, OnlyGreenDeployed, DeployReported, NoMajorMerged
<1> QED  BY <1>7, <1>8 DEF DeployInv

(* A commit more: what was typed stays so, the old ancestries stay, and nothing green is lost. *)
LEMMA PushedTyped ==
  ASSUME DeployInv, NEW base \in DOMAIN parent, PushedOn(base)
  PROVE  /\ parent' \in Seq(0..MaxHistory) /\ Len(parent') <= MaxHistory /\ \A c \in DOMAIN parent' : parent'[c] < c
         /\ ci' \in Seq(Verdicts) /\ Len(ci') = Len(parent')
         /\ DOMAIN parent \subseteq DOMAIN parent' /\ upstream' \in DOMAIN parent'
         /\ \A c \in DOMAIN parent : ci[c] = "green" => ci'[c] = "green"
<1>1. /\ parent \in Seq(0..MaxHistory) /\ Len(parent) \in Nat /\ DOMAIN parent = 1..Len(parent) /\ MaxHistory \in Nat
      /\ ci \in Seq(Verdicts) /\ Len(ci) = Len(parent) /\ DOMAIN ci = 1..Len(parent)
      /\ \A c \in DOMAIN parent : parent[c] < c
  <2>1. parent \in Seq(0..MaxHistory) /\ ci \in Seq(Verdicts) /\ Len(ci) = Len(parent)
        /\ \A c \in DOMAIN parent : parent[c] < c
    BY DEF DeployInv, DeployTypeOK
  <2> QED  BY <2>1, AppDeployAssumption
<1>2. parent' = Append(parent, base) /\ Len(parent) < MaxHistory /\ upstream' = Len(parent')
  BY DEF PushedOn
<1>3. base \in 0..MaxHistory
  BY <1>1, <1>2
<1>4. /\ parent' \in Seq(0..MaxHistory) /\ Len(parent') = Len(parent) + 1 /\ parent'[Len(parent) + 1] = base
      /\ \A c \in 1..Len(parent) : parent'[c] = parent[c]
  BY <1>1, <1>2, <1>3
<1>5. DOMAIN parent' = 1..(Len(parent) + 1)
  BY <1>4, <1>1
<1>6. \A c \in DOMAIN parent' : parent'[c] < c
  <2>1. \A c \in 1..(Len(parent) + 1) : c \in 1..Len(parent) \/ c = Len(parent) + 1
    BY <1>1
  <2>2. base < Len(parent) + 1
    BY <1>1
  <2> QED  BY <1>1, <1>4, <1>5, <2>1, <2>2
<1> DEFINE older == [c \in DOMAIN ci |-> IF ci[c] \in {"none", "pending"} /\ c = upstream THEN "cancelled" ELSE ci[c]]
<1>7. older \in Seq(Verdicts) /\ Len(older) = Len(parent) /\ \A c \in DOMAIN parent : ci[c] = "green" => older[c] = "green"
  <2>1. \A c \in 1..Len(parent) : ci[c] \in Verdicts
    BY <1>1
  <2>2. older \in [1..Len(parent) -> Verdicts]
    BY <1>1, <2>1 DEF Verdicts
  <2>3. older \in Seq(Verdicts) /\ Len(older) = Len(parent)
    <3> HIDE DEF older
    <3> QED  BY <1>1, <2>2
  <2> QED  BY <1>1, <2>3
<1>8. ci' = Append(older, "none")
  BY DEF PushedOn
<1>9. ci' \in Seq(Verdicts) /\ Len(ci') = Len(parent) + 1 /\ \A c \in DOMAIN parent : ci'[c] = older[c]
  <2>1. "none" \in Verdicts
    BY DEF Verdicts
  <2> HIDE DEF older
  <2>2. older \in Seq(Verdicts) /\ Len(older) = Len(parent) /\ Len(parent) \in Nat
    BY <1>1, <1>7
  <2>3. Append(older, "none") \in Seq(Verdicts) /\ Len(Append(older, "none")) = Len(older) + 1
    BY <2>1, <2>2
  <2>4. \A c \in 1..Len(older) : Append(older, "none")[c] = older[c]
    BY <2>2
  <2> QED  BY <1>1, <1>8, <2>2, <2>3, <2>4
<1>10. DOMAIN parent \subseteq DOMAIN parent' /\ upstream' \in DOMAIN parent'
  BY <1>1, <1>2, <1>4, <1>5
<1> QED  BY <1>2, <1>4, <1>6, <1>7, <1>9, <1>10, <1>1

(* The rest of the invariant then stays, whoever pushed. *)
LEMMA PushedKeeps ==
  ASSUME DeployInv, NEW base \in DOMAIN parent, PushedOn(base),
         UNCHANGED <<canonical, production, phase, held, result, handed, deploys>>,
         bumps' \in [PullRequest -> [state : {"open", "queued", "merged"}, pr : Bumps]], NoMajorMerged'
  PROVE  DeployInv'
<1>1. /\ parent' \in Seq(0..MaxHistory) /\ Len(parent') <= MaxHistory /\ \A c \in DOMAIN parent' : parent'[c] < c
      /\ ci' \in Seq(Verdicts) /\ Len(ci') = Len(parent')
      /\ DOMAIN parent \subseteq DOMAIN parent' /\ upstream' \in DOMAIN parent'
      /\ \A c \in DOMAIN parent : ci[c] = "green" => ci'[c] = "green"
  BY PushedTyped
<1>2. /\ held \in [pre : {0} \cup DOMAIN parent', target : {0} \cup DOMAIN parent', over : SUBSET DOMAIN parent',
                  tries : Nat, recent : BOOLEAN]
      /\ result \in [status : {"none", "skipped", "ok", "rolled_back", "failed"}, pre : {0} \cup DOMAIN parent',
                     target : {0} \cup DOMAIN parent']
      /\ canonical \in DOMAIN parent' /\ production \in DOMAIN parent' /\ handed \subseteq DOMAIN parent'
  BY <1>1 DEF DeployInv, DeployTypeOK
<1>3. DeployTypeOK'
  BY <1>1, <1>2 DEF DeployInv, DeployTypeOK
<1>4. base \in Nat /\ parent' = Append(parent, base)
  BY DEF PushedOn, DeployInv, DeployTypeOK
<1>5. TargetSound'
  <2>1. phase \in {"gate", "wait", "supersede", "forward", "deploy"} => held.target \in DOMAIN parent
    BY DEF DeployInv, DeployTypeOK, TargetSound
  <2>2. \A c \in DOMAIN parent : Ancestry(c)' = Ancestry(c)
    BY <1>4, AncestryKept DEF DeployInv
  <2>3. \A c \in DOMAIN parent : Descends(c, held.pre)' <=> Descends(c, held.pre)
    BY <2>2 DEF Descends
  <2> QED  BY <1>1, <2>1, <2>3 DEF DeployInv, TargetSound, Descends
<1>6. OnlyGreenDeployed' /\ DeployReported'
  BY <1>1 DEF DeployInv, DeployTypeOK, OnlyGreenDeployed, DeployReported
<1> QED  BY <1>3, <1>5, <1>6 DEF DeployInv

(* What GitHub and the own pull requests do meanwhile. *)
LEMMA PushCommitStep == ASSUME DeployInv, NEW c \in DOMAIN parent, PushCommit(c) PROVE DeployInv'
  BY PushedKeeps DEF PushCommit, DeployInv, DeployTypeOK, NoMajorMerged

LEMMA AutoMergeStep == ASSUME DeployInv, NEW p \in PullRequest, AutoMerge(p) PROVE DeployInv'
<1>1. bumps \in [PullRequest -> [state : {"open", "queued", "merged"}, pr : Bumps]] /\ NoMajorMerged
  BY DEF DeployInv, DeployTypeOK
<1>2. bumps' = [bumps EXCEPT ![p].state = "merged"] /\ bumps[p].state = "queued"
  BY DEF AutoMerge
<1>3. bumps' \in [PullRequest -> [state : {"open", "queued", "merged"}, pr : Bumps]] /\ NoMajorMerged'
  BY <1>1, <1>2 DEF NoMajorMerged
<1>4. upstream \in DOMAIN parent
  BY DEF DeployInv, DeployTypeOK
<1> QED  BY <1>3, <1>4, PushedKeeps DEF AutoMerge

LEMMA ChecksStep == ASSUME DeployInv, NEW c \in DOMAIN parent, NEW v \in Verdicts, Checks(c, v) PROVE DeployInv'
<1> USE DEF Checks
<1>1. ci \in Seq(Verdicts) /\ Len(ci) = Len(parent) /\ parent \in Seq(0..MaxHistory)
  BY DEF DeployInv, DeployTypeOK
<1>2. DOMAIN ci = DOMAIN parent /\ Len(ci) \in Nat
  BY <1>1, AppDeployAssumption
<1>3. ci' \in Seq(Verdicts) /\ Len(ci') = Len(ci)
  BY <1>1, <1>2
<1>4. \A d \in DOMAIN parent : ci[d] = "green" => ci'[d] = "green"
  BY <1>1, <1>2
<1>5. DeployTypeOK'
  BY <1>3 DEF DeployInv, DeployTypeOK
<1>6. Ancestry(held.target)' = Ancestry(held.target)
  BY DEF Ancestry
<1>7. TargetSound'
  <2>1. phase \in {"gate", "wait", "supersede", "forward", "deploy"} => held.target \in DOMAIN parent
    BY DEF DeployInv, DeployTypeOK, TargetSound
  <2> QED  BY <1>4, <1>6, <2>1 DEF DeployInv, TargetSound, Descends
<1>8. OnlyGreenDeployed' /\ DeployReported' /\ NoMajorMerged'
  BY <1>4 DEF DeployInv, DeployTypeOK, OnlyGreenDeployed, DeployReported, NoMajorMerged
<1> QED  BY <1>5, <1>7, <1>8 DEF DeployInv

(* The steward's own steps leave GitHub's commits and checks as they are. *)
LEMMA StewardTyped ==
  ASSUME DeployInv, UNCHANGED GitHub, canonical' \in DOMAIN parent, production' \in DOMAIN parent,
         bumps' \in [PullRequest -> [state : {"open", "queued", "merged"}, pr : Bumps]],
         phase' \in DeployPhases, handed' \subseteq DOMAIN parent, deploys' \in Nat,
         held' \in [pre : {0} \cup DOMAIN parent, target : {0} \cup DOMAIN parent, over : SUBSET DOMAIN parent,
                    tries : Nat, recent : BOOLEAN],
         result' \in [status : {"none", "skipped", "ok", "rolled_back", "failed"}, pre : {0} \cup DOMAIN parent,
                      target : {0} \cup DOMAIN parent]
  PROVE  DeployTypeOK'
  BY DEF GitHub, DeployInv, DeployTypeOK

LEMMA NothingTyped == NothingHeld \in [pre : {0} \cup DOMAIN parent, target : {0} \cup DOMAIN parent,
                                       over : SUBSET DOMAIN parent, tries : Nat, recent : BOOLEAN]
  BY DEF NothingHeld

(* What ends a step without moving anything. *)
LEMMA SaysSkipped ==
  ASSUME DeployInv, UNCHANGED <<GitHub, canonical, production, bumps, handed, deploys>>, Says("skipped")
  PROVE  DeployInv'
<1> USE DEF DeployInv, Says, GitHub
<1>1. result' \in [status : {"none", "skipped", "ok", "rolled_back", "failed"}, pre : {0} \cup DOMAIN parent,
                   target : {0} \cup DOMAIN parent]
  BY DEF DeployTypeOK
<1>2. DeployTypeOK'
  BY <1>1, NothingTyped DEF DeployTypeOK, DeployPhases
<1>3. TargetSound' /\ DeployReported'
  BY DEF TargetSound, DeployReported
<1>4. OnlyGreenDeployed' /\ NoMajorMerged'
  BY DEF OnlyGreenDeployed, NoMajorMerged
<1> QED  BY <1>2, <1>3, <1>4

(* What goes on with the target it holds. *)
LEMMA MovesOn ==
  ASSUME DeployInv, UNCHANGED <<GitHub, canonical, production, bumps, handed, deploys, result>>,
         phase' \in DeployPhases \ {"idle"}, TargetSound',
         held' \in [pre : {0} \cup DOMAIN parent, target : {0} \cup DOMAIN parent, over : SUBSET DOMAIN parent,
                    tries : Nat, recent : BOOLEAN]
  PROVE  DeployInv'
<1> USE DEF DeployInv, GitHub
<1>1. DeployTypeOK'
  BY DEF DeployTypeOK
<1>2. DeployReported' /\ OnlyGreenDeployed' /\ NoMajorMerged'
  BY DEF OnlyGreenDeployed, NoMajorMerged, DeployReported
<1> QED  BY <1>1, <1>2

(* Lineage depends on the commits alone. *)
LEMMA DescendsSame == ASSUME UNCHANGED GitHub, NEW a, NEW b PROVE Descends(a, b)' <=> Descends(a, b)
  BY DEF GitHub, Descends, Ancestry

(* The deployment, step by step. *)
LEMMA StartRunStep == ASSUME DeployInv, StartRun PROVE DeployInv'
<1> USE DEF StartRun, DeployInv
<1>1. result' \in [status : {"none", "skipped", "ok", "rolled_back", "failed"}, pre : {0} \cup DOMAIN parent,
                   target : {0} \cup DOMAIN parent]
  BY DEF DeployTypeOK
<1>2. DeployTypeOK'
  BY <1>1 DEF DeployTypeOK, DeployPhases, GitHub
<1>3. TargetSound' /\ DeployReported' /\ OnlyGreenDeployed' /\ NoMajorMerged'
  BY DEF TargetSound, DeployReported, OnlyGreenDeployed, NoMajorMerged, GitHub
<1> QED  BY <1>2, <1>3

LEMMA QueueBumpsStep == ASSUME DeployInv, QueueBumps PROVE DeployInv'
<1> USE DEF QueueBumps, DeployInv, Moves, GitHub
<1>1. PICK S \in SUBSET {p \in PullRequest : bumps[p].state = "open" /\ Disposition(bumps[p].pr) = "queue"} :
         bumps' = [p \in PullRequest |-> IF p \in S THEN [bumps[p] EXCEPT !.state = "queued"] ELSE bumps[p]]
  OBVIOUS
<1>2. \A p \in PullRequest : bumps[p] \in [state : {"open", "queued", "merged"}, pr : Bumps]
  BY DEF DeployTypeOK
<1>3. \A p \in PullRequest : [bumps[p] EXCEPT !.state = "queued"] \in [state : {"open", "queued", "merged"}, pr : Bumps]
  BY <1>2
<1>4. bumps' \in [PullRequest -> [state : {"open", "queued", "merged"}, pr : Bumps]]
  BY <1>1, <1>2, <1>3
<1>5. DeployTypeOK'
  BY <1>4 DEF DeployTypeOK, DeployPhases
<1>6. NoMajorMerged'
  <2>1. \A p \in S : bumps[p].pr.kind # "major"
    BY DEF Disposition
  <2>2. \A p \in PullRequest : bumps'[p].pr = bumps[p].pr /\ (p \notin S => bumps'[p].state = bumps[p].state)
    BY <1>1, <1>2
  <2> QED  BY <2>1, <2>2 DEF NoMajorMerged
<1>7. TargetSound' /\ DeployReported' /\ OnlyGreenDeployed'
  BY DEF TargetSound, DeployReported, OnlyGreenDeployed
<1> QED  BY <1>5, <1>6, <1>7

LEMMA ResolveStep == ASSUME DeployInv, Resolve PROVE DeployInv'
<1> USE DEF Resolve
<1>1. CASE Says("skipped")
  BY <1>1, SaysSkipped
<1>2. ASSUME held'.pre = production, held'.target = upstream, phase' = "gate" /\ UNCHANGED result,
             held' \in [pre : {0} \cup DOMAIN parent, target : {0} \cup DOMAIN parent, over : SUBSET DOMAIN parent,
                        tries : Nat, recent : BOOLEAN]
      PROVE  DeployInv'
  <2>1. production \in DOMAIN parent /\ upstream \in DOMAIN parent /\ DOMAIN parent \subseteq Nat \ {0}
    BY DEF DeployInv, DeployTypeOK
  <2>2. TargetSound'
    BY <1>2, <2>1 DEF TargetSound
  <2> QED  BY <1>2, <2>2, MovesOn DEF DeployPhases
<1>3. production \in DOMAIN parent /\ upstream \in DOMAIN parent
  BY DEF DeployInv, DeployTypeOK
<1>4. CASE held' = [NothingHeld EXCEPT !.pre = production, !.target = upstream, !.recent = TRUE]
           /\ phase' = "gate" /\ UNCHANGED result
  BY <1>2, <1>3, <1>4, NothingTyped DEF NothingHeld
<1>5. CASE held' = [NothingHeld EXCEPT !.pre = production, !.target = upstream] /\ phase' = "gate" /\ UNCHANGED result
  BY <1>2, <1>3, <1>5, NothingTyped DEF NothingHeld
<1> QED  BY <1>1, <1>4, <1>5

(* What a deployment holds in memory are commits, once it resolved its target. *)
LEMMA HeldTyped ==
  ASSUME DeployInv
  PROVE  /\ held \in [pre : {0} \cup DOMAIN parent, target : {0} \cup DOMAIN parent, over : SUBSET DOMAIN parent,
                      tries : Nat, recent : BOOLEAN]
         /\ phase \in {"gate", "wait", "supersede", "forward", "deploy"} =>
              held.pre = production /\ held.target # 0 /\ held.target \in DOMAIN parent
  BY DEF DeployInv, DeployTypeOK, TargetSound

LEMMA FirstVerdictStep == ASSUME DeployInv, FirstVerdict PROVE DeployInv'
<1> USE DEF FirstVerdict
<1>1. CASE Says("skipped")
  BY <1>1, SaysSkipped
<1>2. ASSUME AncestryGate(held.target), NEW p \in {"forward", "wait"}, Moves(p),
             p = "forward" => ci[held.target] = "green"
      PROVE  DeployInv'
  <2>1. TargetSound'
    BY <1>2, HeldTyped, DescendsSame DEF Moves, AncestryGate, TargetSound, GitHub
  <2> QED  BY <1>2, <2>1, HeldTyped, MovesOn DEF Moves, DeployPhases
<1>3. CiGreen(held.target, held.recent) = "green" => ci[held.target] = "green"
  BY DEF CiGreen
<1>4. CiGreen(held.target, held.recent) \in {"green", "red", "pending"}
  BY DEF CiGreen
<1>5. CASE ~AncestryGate(held.target)
  BY <1>1, <1>5
<1>6. CASE AncestryGate(held.target) /\ CiGreen(held.target, held.recent) = "green"
  <2>1. Moves("forward")
    BY <1>6
  <2> QED  BY <1>2, <1>3, <1>6, <2>1
<1>7. CASE AncestryGate(held.target) /\ CiGreen(held.target, held.recent) = "red"
  <2>1. Says("skipped")
    BY <1>7
  <2> QED  BY <1>1, <2>1
<1>8. CASE AncestryGate(held.target) /\ CiGreen(held.target, held.recent) = "pending"
  <2>1. Moves("wait")
    BY <1>8
  <2> QED  BY <1>2, <1>8, <2>1
<1> QED  BY <1>4, <1>5, <1>6, <1>7, <1>8

LEMMA ReadAgainStep == ASSUME DeployInv, ReadAgain PROVE DeployInv'
<1> USE DEF ReadAgain
<1>1. CASE Says("skipped")
  BY <1>1, SaysSkipped
<1>2. CASE CiGreen(held.target, TRUE) = "green" /\ Moves("forward")
  <2>1. ci[held.target] = "green"
    BY <1>2 DEF CiGreen
  <2>2. Descends(held.target, held.pre)
    BY DEF DeployInv, TargetSound
  <2>3. TargetSound'
    BY <1>2, <2>1, <2>2, HeldTyped, DescendsSame DEF Moves, TargetSound, GitHub
  <2> QED  BY <1>2, <2>3, HeldTyped, MovesOn DEF Moves, DeployPhases
<1>3. CASE phase' = "supersede" /\ held' = [held EXCEPT !.tries = @ + 1] /\ UNCHANGED result
  <2>1. /\ held' \in [pre : {0} \cup DOMAIN parent, target : {0} \cup DOMAIN parent, over : SUBSET DOMAIN parent,
                      tries : Nat, recent : BOOLEAN]
        /\ held'.pre = held.pre /\ held'.target = held.target
    BY <1>3, HeldTyped
  <2>2. Descends(held.target, held.pre)
    BY DEF DeployInv, TargetSound
  <2>3. TargetSound'
    BY <1>3, <2>1, <2>2, HeldTyped, DescendsSame DEF TargetSound, GitHub
  <2> QED  BY <1>3, <2>1, <2>3, MovesOn DEF DeployPhases
<1> QED  BY <1>1, <1>2, <1>3

LEMMA SupersedeStep == ASSUME DeployInv, Supersede PROVE DeployInv'
<1> USE DEF Supersede
<1>1. CASE Says("skipped")
  BY <1>1, SaysSkipped
<1>2. CASE Moves("wait")
  <2>1. Descends(held.target, held.pre)
    BY DEF DeployInv, TargetSound
  <2>2. TargetSound'
    BY <1>2, <2>1, HeldTyped, DescendsSame DEF Moves, TargetSound, GitHub
  <2> QED  BY <1>2, <2>2, HeldTyped, MovesOn DEF Moves, DeployPhases
<1>3. CASE /\ AncestryGate(upstream)
           /\ held' = [held EXCEPT !.target = upstream, !.over = @ \cup {held.target}]
           /\ UNCHANGED result
           /\ phase' = CASE CiGreen(upstream, TRUE) = "green" -> "forward" [] OTHER -> "wait"
  <2>1. upstream \in DOMAIN parent /\ upstream # 0
    BY DEF DeployInv, DeployTypeOK
  <2>2. /\ held' \in [pre : {0} \cup DOMAIN parent, target : {0} \cup DOMAIN parent, over : SUBSET DOMAIN parent,
                      tries : Nat, recent : BOOLEAN]
        /\ held'.pre = held.pre /\ held'.target = upstream
    BY <1>3, <2>1, HeldTyped
  <2>3. phase' \in {"forward", "wait"} /\ (phase' = "forward" => ci[upstream] = "green")
    BY <1>3 DEF CiGreen
  <2>4. Descends(upstream, held.pre)
    BY <1>3 DEF AncestryGate
  <2>5. TargetSound'
    BY <2>1, <2>2, <2>3, <2>4, HeldTyped, DescendsSame DEF TargetSound, GitHub
  <2> QED  BY <1>3, <2>2, <2>3, <2>5, MovesOn DEF DeployPhases
<1> QED  BY <1>1, <1>2, <1>3

LEMMA FastForwardCanonicalStep == ASSUME DeployInv, FastForwardCanonical PROVE DeployInv'
<1> USE DEF FastForwardCanonical
<1>1. CASE Says("skipped") /\ UNCHANGED <<canonical, handed>>
  BY <1>1, SaysSkipped
<1>2. CASE canonical' = held.target /\ handed' = handed \cup {held.target} /\ Moves("deploy")
  <2> USE DEF DeployInv, Moves, GitHub
  <2>1. DeployTypeOK'
    BY <1>2, HeldTyped DEF DeployTypeOK, DeployPhases
  <2>2. Descends(held.target, held.pre) /\ ci[held.target] = "green"
    BY DEF TargetSound
  <2>3. TargetSound'
    BY <1>2, <2>2, HeldTyped, DescendsSame DEF TargetSound
  <2>4. OnlyGreenDeployed' /\ NoMajorMerged' /\ DeployReported'
    BY <1>2, <2>2 DEF OnlyGreenDeployed, NoMajorMerged, DeployReported
  <2> QED  BY <2>1, <2>3, <2>4
<1> QED  BY <1>1, <1>2

(* The packet of a deploy, by what became of production. *)
LEMMA DeploySays ==
  ASSUME DeployInv, Deploy
  PROVE  /\ production' \in DOMAIN parent
         /\ \/ Says("ok") /\ production' = held.target
            \/ Says("rolled_back") /\ production' = held.pre
            \/ Says("failed")
<1> USE DEF Deploy
<1>1. held.pre = production /\ held.target \in DOMAIN parent
  BY HeldTyped
<1>2. {production, canonical, upstream} \subseteq DOMAIN parent
  BY DEF DeployInv, DeployTypeOK
<1> QED  BY <1>1, <1>2

LEMMA DeployStep == ASSUME DeployInv, Deploy PROVE DeployInv'
<1> USE DEF DeployInv, GitHub
<1>1. PICK s \in {"ok", "rolled_back", "failed"} :
        Says(s) /\ (s = "ok" => production' = held.target) /\ (s = "rolled_back" => production' = held.pre)
  BY DeploySays
<1>2. /\ result' = [status |-> s, pre |-> held.pre, target |-> held.target]
      /\ phase' = "idle" /\ held' = NothingHeld
  BY <1>1 DEF Says
<1>3. result' \in [status : {"none", "skipped", "ok", "rolled_back", "failed"}, pre : {0} \cup DOMAIN parent,
                   target : {0} \cup DOMAIN parent]
  BY <1>2, HeldTyped
<1>4. DeployTypeOK'
  BY <1>2, <1>3, NothingTyped, DeploySays DEF Deploy, DeployTypeOK, DeployPhases
<1>5. DeployReported'
  BY <1>1, <1>2 DEF DeployReported
<1>6. TargetSound' /\ OnlyGreenDeployed' /\ NoMajorMerged'
  BY <1>2 DEF Deploy, TargetSound, OnlyGreenDeployed, NoMajorMerged
<1> QED  BY <1>4, <1>5, <1>6

LEMMA DeployKilledStep == ASSUME DeployInv, DeployKilled PROVE DeployInv'
<1> USE DEF DeployInv, GitHub, DeployKilled
<1>1. production' \in DOMAIN parent
  BY HeldTyped DEF DeployTypeOK
<1>2. result' \in [status : {"none", "skipped", "ok", "rolled_back", "failed"}, pre : {0} \cup DOMAIN parent,
                   target : {0} \cup DOMAIN parent] /\ result'.status = "none"
  BY DEF DeployTypeOK
<1>3. DeployTypeOK'
  BY <1>1, <1>2, NothingTyped DEF DeployTypeOK, DeployPhases
<1>4. TargetSound' /\ DeployReported' /\ OnlyGreenDeployed' /\ NoMajorMerged'
  BY <1>2 DEF TargetSound, DeployReported, OnlyGreenDeployed, NoMajorMerged
<1> QED  BY <1>3, <1>4

(* Every step keeps the invariant. *)
LEMMA DeployPreserved == DeployInv /\ (DeployNext \/ UNCHANGED deployVars) => DeployInv'
<1>1. ASSUME DeployInv, DeployNext PROVE DeployInv'
  BY <1>1, PushCommitStep, ChecksStep, AutoMergeStep, StartRunStep, QueueBumpsStep, ResolveStep, FirstVerdictStep,
     ReadAgainStep, SupersedeStep, FastForwardCanonicalStep, DeployStep, DeployKilledStep DEF DeployNext
<1>2. ASSUME DeployInv, UNCHANGED deployVars PROVE DeployInv'
  BY <1>2 DEF deployVars, DeployInv, DeployTypeOK, TargetSound, OnlyGreenDeployed, DeployReported, NoMajorMerged,
              Descends, Ancestry
<1> QED  BY <1>1, <1>2

(* A step that ends well moves production forward. *)
LEMMA DeployForward ==
  DeployInv /\ [DeployNext]_deployVars => [result'.status = "ok" => Descends(production', production)]_deployVars
<1> SUFFICES ASSUME DeployInv, DeployNext, result'.status = "ok"
             PROVE  Descends(production', production)
  BY DEF deployVars
<1>1. production \in Ancestry(production)
  BY AncestryHas DEF DeployInv, DeployTypeOK
<1>2. CASE Deploy
  <2>1. Says("ok") /\ production' = held.target
    BY <1>2, DeploySays DEF Says
  <2>2. held.pre = production /\ Descends(held.target, held.pre)
    BY <1>2 DEF Deploy, DeployInv, TargetSound
  <2> QED  BY <2>1, <2>2
<1>3. CASE DeployKilled
  BY <1>3 DEF DeployKilled, DeployInv, DeployTypeOK
<1>4. CASE ~Deploy /\ ~DeployKilled
  <2>1. production' = production
    BY <1>4 DEF DeployNext, PushCommit, Checks, AutoMerge, StartRun, QueueBumps, Resolve, FirstVerdict, ReadAgain,
                Supersede, FastForwardCanonical
  <2> QED  BY <1>1, <2>1 DEF Descends
<1> QED  BY <1>2, <1>3, <1>4

(* _p1_app_deploy: what an application runs had green checks of its own, and its packet says where it is. *)
THEOREM DeployInvariance == DeploySpec => []DeployInv
  BY DeployInitially, DeployPreserved, PTL DEF DeploySpec

(* Production only moves forward with an update that succeeds. *)
THEOREM ForwardOnly == DeploySpec => ProductionMovesForward
<1>1. DeployInv /\ [DeployNext]_deployVars => [result'.status = "ok" => Descends(production', production)]_deployVars
  BY DeployForward
<1> QED  BY <1>1, DeployInvariance, PTL DEF DeploySpec, ProductionMovesForward


-----------------------------------------------------------------------------
(* Phase 1: its steps, its stop boundary, its verdict and its clean-up.        *)

(* The steps of the phase by their position. *)
LEMMA Positions ==
  /\ Len(AllSteps) = 18 /\ Past = 19
  /\ \A i \in 1..18 : AllSteps[i] = "apt_upgrade" <=> i = 3
  /\ \A i \in 1..18 : AllSteps[i] = "auto_docker" <=> i = 4
  /\ \A i \in 1..18 : AllSteps[i] = "auto_cloudflared" <=> i = 5
<1>1. Len(AllSteps) = 18
  BY DEF AllSteps
<1>2. \A i \in 1..18 : i = 1 \/ i = 2 \/ i = 3 \/ i = 4 \/ i = 5 \/ i = 6 \/ i = 7 \/ i = 8 \/ i = 9 \/ i = 10 \/ i = 11
        \/ i = 12 \/ i = 13 \/ i = 14 \/ i = 15 \/ i = 16 \/ i = 17 \/ i = 18
  OBVIOUS
<1> QED  BY <1>1, <1>2 DEF AllSteps, Past

(* No step comes twice. *)
LEMMA NoStepTwice == ASSUME NEW i \in 1..18, NEW j \in 1..18, AllSteps[i] = AllSteps[j] PROVE i = j
<1>2. \A n \in 1..18 : n = 1 \/ n = 2 \/ n = 3 \/ n = 4 \/ n = 5 \/ n = 6 \/ n = 7 \/ n = 8 \/ n = 9 \/ n = 10 \/ n = 11
        \/ n = 12 \/ n = 13 \/ n = 14 \/ n = 15 \/ n = 16 \/ n = 17 \/ n = 18
  OBVIOUS
<1> QED  BY <1>2 DEF AllSteps

(* What is here is a position, of a step of the instance. *)
LEMMA HereIs == Here \subseteq 1..18 /\ \A i \in Here : AllSteps[i] \in P1Steps
  BY Positions DEF Here

(* The next position is later, and none of the instance lies between. *)
LEMMA AfterIs ==
  ASSUME NEW i \in 0..18
  PROVE  After(i) \in Here \cup {Past} /\ After(i) \in 1..19 /\ After(i) > i /\ \A k \in Here : k > i => k >= After(i)
<1> DEFINE later == {j \in Here : j > i}
<1>1. later \in SUBSET Nat
  <2>1. \A k \in 1..18 : k \in Nat
    OBVIOUS
  <2> QED  BY <2>1, HereIs
<1>2. CASE later = {}
  <2>1. After(i) = Past /\ Past = 19
    BY <1>2, Positions DEF After
  <2>2. \A k \in Here : ~(k > i)
    BY <1>2
  <2> QED  BY <2>1, <2>2
<1>3. CASE later # {}
  <2>1. PICK n \in later : \A m \in later : n <= m
    BY <1>1, <1>3, LeastOf
  <2>2. \E x \in later : \A m \in later : m >= x
    BY <1>1, <2>1
  <2>3. Min(later) \in later /\ \A m \in later : m >= Min(later)
    BY <2>2 DEF Min
  <2>4. After(i) = Min(later)
    BY <1>3 DEF After
  <2>5. Min(later) \in Here /\ Min(later) \in 1..18
    BY <2>3, HereIs
  <2>6. Min(later) \in 1..19
    BY <2>5
  <2> QED  BY <2>3, <2>4, <2>5, <2>6
<1>4. \A k \in Here \cup {Past} : k \in 1..19
  <2>1. \A k \in 1..18 : k \in 1..19
    OBVIOUS
  <2> QED  BY <2>1, HereIs, Positions
<1> QED  BY <1>2, <1>3, <1>4

(* What a packet may say of a step that ended. *)
Known == {"ok", "bumped", "skipped", "reverted", "rolled_back", "warning", "failed", "timeout"}

(* A packet says no other words than these. *)
LEMMA OutcomesKnown == ASSUME NEW s PROVE Outcomes(s) \subseteq Known
  BY DEF Outcomes, Known

(* What the clean-up itself says. *)
LEMMA CleanupSays == {"ok", "skipped", "warning"} \subseteq Outcomes("docker_cleanup")
  BY DEF Outcomes

(* A packet entered in the table. *)
LEMMA RowSet ==
  ASSUME rows \in Table, NEW s \in P1Steps, NEW v \in Said(s), rows' = [rows EXCEPT ![s] = v]
  PROVE  rows' \in Table /\ rows'[s] = v /\ \A q \in P1Steps : q # s => rows'[q] = rows[q]
<1>1. rows \in [P1Steps -> UNION {Said(q) : q \in P1Steps}] /\ \A q \in P1Steps : rows[q] \in Said(q)
  BY DEF Table
<1>2. v \in UNION {Said(q) : q \in P1Steps}
  OBVIOUS
<1>3. rows' \in [P1Steps -> UNION {Said(q) : q \in P1Steps}]
  BY <1>1, <1>2
<1>4. rows'[s] = v /\ \A q \in P1Steps : q # s => rows'[q] = rows[q]
  BY <1>1
<1>5. \A q \in P1Steps : rows'[q] \in Said(q)
  BY <1>1, <1>4
<1> QED  BY <1>3, <1>4, <1>5 DEF Table

(* The empty table. *)
LEMMA AbsentTyped == Absent \in Table /\ \A s \in P1Steps : Absent[s] = "absent"
<1>1. \A s \in P1Steps : "absent" \in Said(s)
  BY DEF Said
<1>2. \A s \in P1Steps : "absent" \in UNION {Said(q) : q \in P1Steps}
  BY <1>1
<1> QED  BY <1>1, <1>2 DEF Absent, Table

(* The artifact has every step that changed the host. *)
Recorded == \A s \in touched : artifact.rows[s] # "absent"

(* The inductive invariant of phase 1. *)
ApplyInv == ApplyTypeOK /\ PhaseSound /\ Recorded /\ VerdictTrue

LEMMA ApplyInitially == ApplyInit => ApplyInv
<1> SUFFICES ASSUME ApplyInit PROVE ApplyInv
    OBVIOUS
<1> USE DEF ApplyInit
<1>1. ApplyTypeOK
  <2>1. rows \in Table /\ artifact.rows \in Table
    BY AbsentTyped
  <2>2. dockerHit \in BOOLEAN
    BY Zenon
  <2>3. attempts \in Nat /\ images \subseteq Image /\ inUse \subseteq images
    OBVIOUS
  <2> QED  BY <2>1, <2>2, <2>3 DEF ApplyTypeOK
<1>2. \A i \in Here : rows[AllSteps[i]] = "absent"
  BY AbsentTyped, HereIs
<1>3. PhaseSound
  BY <1>2 DEF PhaseSound
<1>4. Recorded /\ VerdictTrue
  BY <1>2 DEF Recorded, VerdictTrue
<1> QED  BY <1>1, <1>3, <1>4 DEF ApplyInv

USE DEF ApplyInv, Docker, Save

(* What is recorded after the stop boundary follows from where the phase stopped. *)
LEMMA AppliedHolds == ASSUME ApplyInv PROVE AppliedRecorded
<1>0. SUFFICES \A i, j \in Here :
           (i < j /\ AllSteps[i] \in {"apt_upgrade"} \cup Packages /\ rows[AllSteps[i]] \in {"failed", "timeout"}
              /\ AllSteps[j] \notin Packages) => AllSteps[j] \notin touched
  BY DEF AppliedRecorded, Recorded
<1> SUFFICES ASSUME NEW i \in Here, NEW j \in Here, i < j, AllSteps[i] \in {"apt_upgrade"} \cup Packages,
                    rows[AllSteps[i]] \in {"failed", "timeout"}, AllSteps[j] \notin Packages
             PROVE  AllSteps[j] \notin touched
    OBVIOUS
<1>1. i \in 1..18 /\ j \in 1..18
  BY HereIs
<1>2. \A k \in Here : k > idx => AllSteps[k] \notin touched
  BY DEF PhaseSound
<1>3. CASE AllSteps[i] = "apt_upgrade"
  <2>1. i = idx
    BY <1>3 DEF PhaseSound
  <2> QED  BY <1>1, <1>2, <2>1
<1>4. CASE AllSteps[i] \in Packages
  <2>1. idx \in Here /\ AllSteps[idx] \in Packages
    BY <1>4 DEF PhaseSound
  <2>2. i \in {4, 5} /\ idx \in {4, 5}
    BY <1>1, <1>4, <2>1, HereIs, Positions DEF Packages
  <2>3. j # idx
    BY <2>1
  <2>4. j > idx
    BY <1>1, <2>2, <2>3
  <2> QED  BY <1>2, <2>4
<1> QED  BY <1>3, <1>4

(* The step at a position of the instance. *)
LEMMA NowIs == ASSUME ApplyInv, idx \in Here PROVE Now \in P1Steps /\ idx \in 1..18 /\ AllSteps[idx] = Now
  BY HereIs DEF Now

(* When nothing but the place of the process changes, towards no new step. *)
LEMMA StartApplyStep == ASSUME ApplyInv, StartApply PROVE ApplyInv'
<1> USE DEF StartApply
<1>1. After(0) \in Here \cup {Past} /\ After(0) > 0 /\ \A k \in Here : k > 0 => k >= After(0)
  BY AfterIs
<1>2. ApplyTypeOK'
  <2>1. rows' \in Table /\ artifact'.rows \in Table /\ artifact'.verdict = "none"
    BY AbsentTyped
  <2>2. dockerHit' \in BOOLEAN
    BY Zenon
  <2> QED  BY <1>1, <2>1, <2>2 DEF ApplyTypeOK
<1>3. \A i \in Here : rows'[AllSteps[i]] = "absent"
  BY AbsentTyped, HereIs
<1>4. PhaseSound'
  BY <1>1, <1>3 DEF PhaseSound
<1>5. Recorded'
  BY DEF Recorded
<1>6. VerdictTrue'
  BY DEF VerdictTrue
<1> QED  BY <1>2, <1>4, <1>5, <1>6

LEMMA PassOverStep == ASSUME ApplyInv, PassOver PROVE ApplyInv'
<1> USE DEF PassOver
<1>1. Now \in P1Steps /\ idx \in 1..18 /\ AllSteps[idx] = Now
  BY NowIs
<1>2. After(idx) \in Here \cup {Past} /\ After(idx) \in 1..19 /\ After(idx) > idx /\ \A k \in Here : k > idx => k >= After(idx)
  BY <1>1, AfterIs
<1>3. ApplyTypeOK'
  BY <1>2 DEF ApplyTypeOK
<1>4. Now \notin Packages /\ Now # "apt_upgrade"
  BY DEF Wanted, Packages
<1>5. rows[Now] = "absent" /\ \A k \in Here : k >= idx => AllSteps[k] \notin touched /\ rows[AllSteps[k]] = "absent"
  <2>1. \A k \in Here : k \in 1..18
    BY HereIs
  <2>2. \A k \in Here : k > idx \/ k = idx => AllSteps[k] \notin touched /\ rows[AllSteps[k]] = "absent"
    BY DEF PhaseSound
  <2>3. \A k \in 1..18 : k >= idx => k > idx \/ k = idx
    BY <1>1
  <2> QED  BY <1>1, <2>1, <2>2, <2>3
<1>6. \A i \in Here : rows[AllSteps[i]] \in {"failed", "timeout"} => AllSteps[i] # "apt_upgrade" /\ AllSteps[i] \notin Packages
  <2>1. \A i \in Here : rows[AllSteps[i]] \in {"failed", "timeout"} /\ AllSteps[i] = "apt_upgrade" => i = idx
    BY DEF PhaseSound
  <2>2. \A i \in Here : rows[AllSteps[i]] \in {"failed", "timeout"} /\ AllSteps[i] \in Packages => AllSteps[idx] \in Packages
    BY DEF PhaseSound
  <2> QED  BY <1>1, <1>4, <2>1, <2>2
<1>7. \A k \in Here : k > After(idx) \/ k = After(idx) => k >= idx
  <2>1. \A k \in Here : k \in 1..18
    BY HereIs
  <2> QED  BY <1>1, <1>2, <2>1, Positions
<1>8. idx' # 0
  BY <1>1, <1>2, HereIs, Positions
<1>9. PhaseSound'
  BY <1>5, <1>6, <1>7, <1>8 DEF PhaseSound
<1>10. Recorded'
  BY DEF Recorded
<1>11. VerdictTrue'
  BY DEF VerdictTrue
<1> QED  BY <1>3, <1>9, <1>10, <1>11

(* A step begins: its row, saved before the operation. *)
LEMMA StartStepStep == ASSUME ApplyInv, StartStep PROVE ApplyInv'
<1> USE DEF StartStep
<1>1. Now \in P1Steps /\ idx \in 1..18 /\ AllSteps[idx] = Now
  BY NowIs
<1>2. "started" \in Said(Now) /\ rows \in Table
  BY DEF Said, ApplyTypeOK
<1>3. rows' \in Table /\ rows'[Now] = "started" /\ \A q \in P1Steps : q # Now => rows'[q] = rows[q]
  <2>1. rows' = [rows EXCEPT ![Now] = "started"]
    OBVIOUS
  <2> HIDE DEF StartStep
  <2> QED  BY <1>1, <1>2, <2>1, RowSet
<1>4. artifact'.rows = rows' /\ artifact'.verdict = "none"
  OBVIOUS
<1>5. ApplyTypeOK'
  BY <1>3, <1>4 DEF ApplyTypeOK
<1>6. \A k \in Here : k > idx => AllSteps[k] # Now /\ AllSteps[k] \notin touched /\ rows[AllSteps[k]] = "absent"
  <2>1. \A k \in Here : k > idx => AllSteps[k] \notin touched /\ rows[AllSteps[k]] = "absent"
    BY DEF PhaseSound
  <2>2. ASSUME NEW k \in Here, k > idx PROVE AllSteps[k] # Now
    <3>1. k \in 1..18 /\ k # idx
      BY <1>1, <2>2, HereIs
    <3> QED  BY <1>1, <3>1, NoStepTwice
  <2> QED  BY <2>1, <2>2
<1>7. \A i \in Here : rows'[AllSteps[i]] \in {"failed", "timeout"} => rows[AllSteps[i]] \in {"failed", "timeout"}
  BY <1>3, HereIs
<1>8. Now' = Now /\ idx' = idx /\ touched' = touched
  BY DEF Now
<1>9. PhaseSound'
  <2>1. \A k \in Here : k > idx' \/ (k = idx' /\ p1' = "next") => AllSteps[k] \notin touched' /\ rows'[AllSteps[k]] = "absent"
    BY <1>3, <1>6, HereIs
  <2>2. \A i \in Here : rows'[AllSteps[i]] \in {"failed", "timeout"} =>
         /\ AllSteps[i] = "apt_upgrade" => i = idx'
         /\ AllSteps[i] \in Packages => idx' \in Here /\ AllSteps[idx'] \in Packages
    BY <1>7, <1>8 DEF PhaseSound
  <2>3. p1' \in {"work", "survey"} /\ (p1' = "survey" => Now = "docker_cleanup")
    OBVIOUS
  <2>4. idx # 0 /\ idx \in Here
    BY <1>1
  <2> HIDE DEF StartStep
  <2> QED  BY <1>3, <1>4, <1>8, <2>1, <2>2, <2>3, <2>4 DEF PhaseSound
<1>10. Recorded'
  <2>1. artifact.rows = rows /\ touched \subseteq P1Steps
    BY DEF PhaseSound, ApplyTypeOK
  <2> QED  BY <1>3, <1>4, <1>8, <2>1 DEF Recorded
<1>11. VerdictTrue'
  BY <1>4 DEF VerdictTrue
<1> QED  BY <1>5, <1>9, <1>10, <1>11

LEMMA WorkStep == ASSUME ApplyInv, Work PROVE ApplyInv'
<1> USE DEF Work
<1>1. idx \in Here
  BY DEF PhaseSound
<1>2. Now \in P1Steps /\ idx \in 1..18 /\ AllSteps[idx] = Now
  BY <1>1, NowIs
<1>3. dockerHit' \in BOOLEAN
  BY Zenon DEF ApplyTypeOK
<1>4. ApplyTypeOK'
  BY <1>2, <1>3 DEF ApplyTypeOK
<1>5. \A k \in Here : k > idx => AllSteps[k] \notin touched'
  <2>1. \A k \in Here : k > idx => AllSteps[k] \notin touched
    BY DEF PhaseSound
  <2>2. ASSUME NEW k \in Here, k > idx PROVE AllSteps[k] # Now
    <3>1. k \in 1..18 /\ k # idx
      BY <1>2, <2>2, HereIs
    <3> QED  BY <1>2, <3>1, NoStepTwice
  <2> QED  BY <2>1, <2>2
<1>6. PhaseSound'
  BY <1>1, <1>5 DEF PhaseSound, Now
<1>7. Recorded'
  BY <1>2 DEF Recorded, PhaseSound
<1>8. VerdictTrue'
  BY DEF VerdictTrue
<1> QED  BY <1>4, <1>6, <1>7, <1>8

(* The clean-up. *)
LEMMA SurveyStep == ASSUME ApplyInv, Survey PROVE ApplyInv'
<1> USE DEF Survey
<1>1. idx \in Here /\ Now = "docker_cleanup" /\ artifact.rows = rows /\ rows[Now] = "started"
  BY DEF PhaseSound
<1>2. Now \in P1Steps
  BY <1>1, NowIs
<1>3. CASE seenInUse' = inUse /\ p1' = "remove" /\ UNCHANGED rows
  <2>1. ApplyTypeOK'
    BY <1>3 DEF ApplyTypeOK
  <2>2. PhaseSound' /\ Recorded' /\ VerdictTrue'
    BY <1>1, <1>3 DEF PhaseSound, Now, Recorded, VerdictTrue
  <2> QED  BY <2>1, <2>2
<1>4. CASE p1' = "swept" /\ rows' = [rows EXCEPT !["docker_cleanup"] = "warning"] /\ UNCHANGED seenInUse
  <2>1. rows \in Table /\ "warning" \in Said(Now)
    BY <1>1, CleanupSays DEF ApplyTypeOK, Said
  <2>2. rows' \in Table /\ rows'[Now] = "warning" /\ \A q \in P1Steps : q # Now => rows'[q] = rows[q]
    <3>1. rows' = [rows EXCEPT ![Now] = "warning"]
      BY <1>1, <1>4
    <3> HIDE DEF Survey
    <3> QED  BY <1>2, <2>1, <3>1, RowSet
  <2>3. ApplyTypeOK'
    BY <1>4, <2>2 DEF ApplyTypeOK
  <2>4. \A k \in Here : AllSteps[k] \in P1Steps /\ (rows'[AllSteps[k]] = rows[AllSteps[k]] \/ AllSteps[k] = Now)
    BY <2>2, HereIs
  <2>5. PhaseSound'
    <3>1. \A k \in Here : k > idx => AllSteps[k] \notin touched /\ rows'[AllSteps[k]] = "absent"
      BY <1>1, <2>4 DEF PhaseSound
    <3>2. \A i \in Here : rows'[AllSteps[i]] \in {"failed", "timeout"} =>
           /\ AllSteps[i] = "apt_upgrade" => i = idx
           /\ AllSteps[i] \in Packages => idx \in Here /\ AllSteps[idx] \in Packages
      BY <2>2, <2>4 DEF PhaseSound
    <3>3. \A q \in P1Steps : IF q = Now THEN rows'[q] # "absent" /\ artifact.rows[q] # "absent" ELSE artifact.rows[q] = rows'[q]
      BY <1>1, <2>2
    <3>4. Now' = Now /\ idx # 0
      BY DEF Now, PhaseSound
    <3> QED  BY <1>1, <1>4, <3>1, <3>2, <3>3, <3>4 DEF PhaseSound
  <2>6. Recorded' /\ VerdictTrue'
    BY DEF Recorded, VerdictTrue
  <2> QED  BY <2>3, <2>5, <2>6
<1> QED  BY <1>3, <1>4

LEMMA RemoveImagesStep == ASSUME ApplyInv, RemoveImages PROVE ApplyInv'
<1> USE DEF RemoveImages
<1>1. idx \in Here /\ Now = "docker_cleanup" /\ artifact.rows = rows /\ rows[Now] = "started" /\ idx # 0
  BY DEF PhaseSound
<1>2. Now \in P1Steps /\ AllSteps[idx] = Now /\ idx \in 1..18
  BY <1>1, NowIs
<1>3. PICK v \in {"ok", "skipped", "warning"} : rows' = [rows EXCEPT !["docker_cleanup"] = v]
  <2> DEFINE refused == ((Superseded \cup {"dangling"}) \cap images \cap inUse) \ seenInUse
             gone == ((Superseded \cup {"dangling"}) \cap images) \ (inUse \cup seenInUse)
             v == IF refused # {} THEN "warning" ELSE IF gone # {} THEN "ok" ELSE "skipped"
  <2>1. rows' = [rows EXCEPT !["docker_cleanup"] = v]
    OBVIOUS
  <2>2. v \in {"ok", "skipped", "warning"}
    OBVIOUS
  <2> HIDE DEF v
  <2> QED  BY <2>1, <2>2
<1>4. rows \in Table /\ v \in Said(Now)
  BY <1>1, CleanupSays DEF ApplyTypeOK, Said
<1>5. rows' \in Table /\ rows'[Now] = v /\ \A q \in P1Steps : q # Now => rows'[q] = rows[q]
  <2>1. rows' = [rows EXCEPT ![Now] = v]
    BY <1>1, <1>3
  <2> HIDE DEF RemoveImages
  <2> QED  BY <1>2, <1>4, <2>1, RowSet
<1>6. images' \subseteq images /\ inUse \subseteq images' /\ touched' \in {touched, touched \cup {"docker_cleanup"}}
  BY DEF ApplyTypeOK
<1>7. ApplyTypeOK'
  BY <1>1, <1>2, <1>5, <1>6 DEF ApplyTypeOK
<1>8. \A k \in Here : AllSteps[k] \in P1Steps /\ (rows'[AllSteps[k]] = rows[AllSteps[k]] \/ AllSteps[k] = Now)
  BY <1>5, HereIs
<1>9. PhaseSound'
  <2>1. \A k \in Here : k > idx => AllSteps[k] \notin touched' /\ rows'[AllSteps[k]] = "absent"
    <3>1. \A k \in Here : k > idx => AllSteps[k] \notin touched /\ rows[AllSteps[k]] = "absent"
      BY DEF PhaseSound
    <3>2. \A k \in Here : k > idx => AllSteps[k] # Now
      BY <1>1, <3>1
    <3> QED  BY <1>1, <1>6, <1>8, <3>1, <3>2
  <2>2. \A i \in Here : rows'[AllSteps[i]] \in {"failed", "timeout"} =>
         /\ AllSteps[i] = "apt_upgrade" => i = idx
         /\ AllSteps[i] \in Packages => idx \in Here /\ AllSteps[idx] \in Packages
    BY <1>5, <1>8 DEF PhaseSound
  <2>3. \A q \in P1Steps : IF q = Now THEN rows'[q] # "absent" /\ artifact.rows[q] # "absent" ELSE artifact.rows[q] = rows'[q]
    BY <1>1, <1>5
  <2>4. Now' = Now /\ p1' = "swept" /\ idx' = idx /\ artifact' = artifact
    BY DEF Now
  <2> HIDE DEF RemoveImages
  <2> QED  BY <1>1, <2>1, <2>2, <2>3, <2>4 DEF PhaseSound
<1>10. Recorded' /\ VerdictTrue'
  BY <1>1, <1>6 DEF Recorded, VerdictTrue
<1> QED  BY <1>7, <1>9, <1>10

LEMMA UseImageStep == ASSUME ApplyInv, NEW i \in Image, UseImage(i) PROVE ApplyInv'
  BY DEF UseImage, ApplyTypeOK, PhaseSound, Now, Recorded, VerdictTrue

LEMMA ApplyDiesStep == ASSUME ApplyInv, ApplyDies PROVE ApplyInv'
  BY DEF ApplyDies, ApplyTypeOK, PhaseSound, Now, Recorded, VerdictTrue

LEMMA FinishApplyStep == ASSUME ApplyInv, FinishApply PROVE ApplyInv'
<1> USE DEF FinishApply
<1>1. artifact'.rows = rows /\ artifact'.verdict = Verdict(rows) /\ artifact.rows = rows
  BY DEF PhaseSound
<1>2. Verdict(rows) \in {"none", "succeeded", "degraded", "failed"}
  BY DEF Verdict
<1>3. ApplyTypeOK'
  BY <1>1, <1>2 DEF ApplyTypeOK
<1>4. PhaseSound' /\ Recorded'
  BY <1>1 DEF PhaseSound, Now, Recorded
<1>5. VerdictTrue'
  <2>1. \A s \in P1Steps : rows[s] \in Known \cup {"absent", "started"}
    BY OutcomesKnown DEF ApplyTypeOK, Table, Said
  <2>2. Verdict(rows) = "succeeded" => \A s \in P1Steps : rows[s] \notin Failure /\ rows[s] \notin Degraded
    BY DEF Verdict
  <2>3. \A o \in Known \cup {"absent", "started"} :
          o \notin Failure /\ o \notin Degraded => o \in {"ok", "bumped", "skipped", "absent"}
    BY DEF Known, Failure, Degraded
  <2> QED  BY <1>1, <2>1, <2>2, <2>3 DEF VerdictTrue
<1> QED  BY <1>3, <1>4, <1>5

LEMMA EndCleanupStep == ASSUME ApplyInv, EndCleanup PROVE ApplyInv'
<1> USE DEF EndCleanup
<1>1. idx \in Here /\ Now = "docker_cleanup"
  BY DEF PhaseSound
<1>2. Now \in P1Steps /\ idx \in 1..18 /\ AllSteps[idx] = Now
  BY <1>1, NowIs
<1>3. After(idx) \in Here \cup {Past} /\ After(idx) \in 1..19 /\ After(idx) > idx /\ \A k \in Here : k > idx => k >= After(idx)
  BY <1>2, AfterIs
<1>4. artifact'.rows = rows /\ artifact'.verdict = "none"
  OBVIOUS
<1>5. ApplyTypeOK'
  BY <1>3, <1>4 DEF ApplyTypeOK
<1>6. \A k \in Here : k > idx => AllSteps[k] \notin touched /\ rows[AllSteps[k]] = "absent"
  BY DEF PhaseSound
<1>7. \A i \in Here : rows[AllSteps[i]] \in {"failed", "timeout"} => AllSteps[i] # "apt_upgrade" /\ AllSteps[i] \notin Packages
  <2>1. \A i \in Here : rows[AllSteps[i]] \in {"failed", "timeout"} /\ AllSteps[i] = "apt_upgrade" => i = idx
    BY DEF PhaseSound
  <2>2. \A i \in Here : rows[AllSteps[i]] \in {"failed", "timeout"} /\ AllSteps[i] \in Packages => AllSteps[idx] \in Packages
    BY DEF PhaseSound
  <2>3. Now \notin Packages /\ Now # "apt_upgrade"
    BY <1>1 DEF Packages
  <2> QED  BY <1>2, <2>1, <2>2, <2>3
<1>8. \A k \in Here : k > After(idx) \/ k = After(idx) => k > idx
  <2>1. \A k \in Here : k \in 1..18
    BY HereIs
  <2> QED  BY <1>2, <1>3, <2>1, Positions
<1>9. idx' # 0
  BY <1>2, <1>3, HereIs, Positions
<1>10. PhaseSound'
  BY <1>4, <1>6, <1>7, <1>8, <1>9 DEF PhaseSound
<1>11. Recorded'
  BY <1>1, <1>2, <1>4 DEF Recorded, PhaseSound, ApplyTypeOK
<1>12. VerdictTrue'
  BY <1>4 DEF VerdictTrue
<1> QED  BY <1>5, <1>10, <1>11, <1>12


(* A step ends: no failure before the stop boundary is passed. *)
LEMMA EndStepStep == ASSUME ApplyInv, EndStep PROVE ApplyInv'
<1>1. idx \in Here /\ artifact.rows = rows /\ p1 = "work" /\ idx # 0
  BY DEF PhaseSound, EndStep
<1>2. Now \in P1Steps /\ idx \in 1..18 /\ AllSteps[idx] = Now
  BY <1>1, NowIs
<1>3. After(idx) \in Here \cup {Past} /\ After(idx) \in 1..19 /\ After(idx) > idx /\ \A k \in Here : k > idx => k >= After(idx)
  BY <1>2, AfterIs
<1>4. PICK o \in Outcomes(Now) : rows' = [rows EXCEPT ![Now] = o]
  BY DEF EndStep
<1>5. o \in Said(Now) /\ rows \in Table /\ o # "absent"
  BY OutcomesKnown DEF Said, ApplyTypeOK, Known
<1>6. rows' \in Table /\ rows'[Now] = o /\ \A q \in P1Steps : q # Now => rows'[q] = rows[q]
  BY <1>2, <1>4, <1>5, RowSet
<1>7. artifact'.rows = rows' /\ artifact'.verdict = "none"
  BY DEF EndStep
<1>8. \/ Boundary(rows') /\ p1' = "finish" /\ idx' = idx
      \/ ~Boundary(rows') /\ p1' = "next" /\ idx' = After(idx)
  BY DEF EndStep
<1>9. touched' = touched /\ dockerHit' = dockerHit /\ seenInUse' = seenInUse /\ attempts' = attempts
  BY DEF EndStep
<1>10. images' \subseteq Image /\ inUse' \subseteq images' /\ preImage' \subseteq Superseding
  <2> DEFINE replaced == Now \in Superseding /\ o \in {"ok", "bumped"}
  <2>0. PICK x \in Outcomes(Now) : LET rep == Now \in Superseding /\ x \in {"ok", "bumped"} IN
           /\ preImage' = IF rep THEN preImage \cup {Now} ELSE preImage
           /\ images' = IF rep THEN images \cup {Now} ELSE images
           /\ inUse' = IF rep THEN inUse \ {Now} ELSE IF Now \in Superseding THEN inUse \cup ({Now} \cap images) ELSE inUse
    BY DEF EndStep
  <2>1. images \subseteq Image /\ inUse \subseteq images /\ preImage \subseteq Superseding
    BY DEF ApplyTypeOK
  <2> QED  BY <2>0, <2>1 DEF Image
<1>11. ApplyTypeOK'
  <2>1. idx' \in {0, Past} \cup Here /\ p1' \in {"finish", "next"}
    BY <1>1, <1>3, <1>8
  <2>2. touched' \subseteq P1Steps /\ dockerHit' \in BOOLEAN /\ attempts' \in Nat /\ seenInUse' \subseteq Image
    BY <1>9 DEF ApplyTypeOK
  <2> QED  BY <1>6, <1>7, <1>10, <2>1, <2>2 DEF ApplyTypeOK
<1>12. \A k \in Here : k > idx => AllSteps[k] \notin touched /\ rows'[AllSteps[k]] = "absent"
  <2>1. \A k \in Here : k > idx => AllSteps[k] \notin touched /\ rows[AllSteps[k]] = "absent"
    BY DEF PhaseSound
  <2>2. ASSUME NEW k \in Here, k > idx PROVE AllSteps[k] # Now /\ AllSteps[k] \in P1Steps
    <3>1. k \in 1..18 /\ k # idx
      BY <1>2, <2>2, HereIs
    <3> QED  BY <1>2, <3>1, NoStepTwice, HereIs
  <2> QED  BY <1>6, <2>1, <2>2
<1>13. \A i \in Here : rows'[AllSteps[i]] \in {"failed", "timeout"} =>
         /\ AllSteps[i] = "apt_upgrade" => i = idx
         /\ AllSteps[i] \in Packages => AllSteps[idx] \in Packages
  <2>1. ASSUME NEW i \in Here, rows'[AllSteps[i]] \in {"failed", "timeout"}, i # idx
        PROVE  rows[AllSteps[i]] \in {"failed", "timeout"}
    <3>1. AllSteps[i] # Now /\ AllSteps[i] \in P1Steps
      BY <1>2, <2>1, NoStepTwice, HereIs
    <3> QED  BY <1>6, <2>1, <3>1
  <2>2. \A i \in Here : rows[AllSteps[i]] \in {"failed", "timeout"} =>
         /\ AllSteps[i] = "apt_upgrade" => i = idx
         /\ AllSteps[i] \in Packages => AllSteps[idx] \in Packages
    BY DEF PhaseSound
  <2> QED  BY <2>1, <2>2
<1>14. \A i \in Here : rows'[AllSteps[i]] \in {"failed", "timeout"} =>
         /\ AllSteps[i] = "apt_upgrade" => i = idx'
         /\ AllSteps[i] \in Packages => idx' \in Here /\ AllSteps[idx'] \in Packages
  <2>1. CASE idx' = idx
    BY <1>1, <1>13, <2>1
  <2>2. CASE ~Boundary(rows') /\ idx' = After(idx)
    <3> SUFFICES ASSUME NEW i \in Here, rows'[AllSteps[i]] \in {"failed", "timeout"}
                 PROVE  /\ AllSteps[i] # "apt_upgrade"
                        /\ AllSteps[i] \in Packages => idx' \in Here /\ AllSteps[idx'] \in Packages
        OBVIOUS
    <3>1. AllSteps[i] # "apt_upgrade"
      <4> SUFFICES ASSUME AllSteps[i] = "apt_upgrade" PROVE FALSE
          OBVIOUS
      <4>1. Now = "apt_upgrade" /\ rows'[Now] \in Failure
        BY <1>2, <1>13 DEF Failure
      <4> QED  BY <2>2, <4>1 DEF Boundary
    <3>2. ASSUME AllSteps[i] \in Packages PROVE idx' \in Here /\ AllSteps[idx'] \in Packages
      <4>1. Now \in Packages /\ rows'[AllSteps[i]] \in Failure
        BY <1>2, <1>13, <3>2 DEF Failure
      <4>2. Packages \cap {AllSteps[j] : j \in (idx + 1)..Len(AllSteps)} # {}
        BY <2>2, <3>2, <4>1 DEF Boundary
      <4>3. PICK j \in (idx + 1)..18 : AllSteps[j] \in Packages
        BY <4>2, Positions
      <4>4. j \in 1..18 /\ j > idx
        BY <1>2, <4>3
      <4>5. AllSteps[j] \in P1Steps /\ j \in {4, 5} /\ idx \in {4, 5}
        BY <1>2, <4>1, <4>3, <4>4, Positions DEF Packages
      <4>6. j = 5 /\ idx = 4 /\ 5 \in Here
        BY <4>4, <4>5, Positions DEF Here
      <4>7. After(idx) = 5
        BY <1>3, <4>6
      <4> QED  BY <2>2, <4>3, <4>6, <4>7
    <3> QED  BY <3>1, <3>2
  <2> QED  BY <1>8, <2>1, <2>2
<1>15. \A k \in Here : k > idx' \/ (k = idx' /\ p1' = "next") => k > idx
  <2>1. \A k \in Here : k \in 1..18
    BY HereIs
  <2> QED  BY <1>2, <1>3, <1>8, <2>1, Positions
<1>16. idx' # 0 /\ p1' \in {"finish", "next"}
  BY <1>1, <1>2, <1>3, <1>8
<1>17. PhaseSound'
  BY <1>7, <1>9, <1>12, <1>14, <1>15, <1>16 DEF PhaseSound
<1>18. Recorded'
  <2>1. \A s \in touched : s \in P1Steps /\ rows[s] # "absent"
    BY <1>1 DEF Recorded, ApplyTypeOK
  <2> QED  BY <1>5, <1>6, <1>7, <1>9, <2>1 DEF Recorded
<1>19. VerdictTrue'
  BY <1>7 DEF VerdictTrue
<1> QED  BY <1>11, <1>17, <1>18, <1>19

(* Every step keeps the invariant. *)
LEMMA ApplyPreserved == ApplyInv /\ [ApplyNext]_applyVars => ApplyInv'
<1> SUFFICES ASSUME ApplyInv, [ApplyNext]_applyVars PROVE ApplyInv'
    OBVIOUS
<1>1. CASE UNCHANGED applyVars
  BY <1>1 DEF applyVars, ApplyTypeOK, PhaseSound, Now, Recorded, VerdictTrue
<1> QED  BY <1>1, StartApplyStep, PassOverStep, StartStepStep, WorkStep, EndStepStep, SurveyStep, RemoveImagesStep,
            EndCleanupStep, FinishApplyStep, ApplyDiesStep, UseImageStep DEF ApplyNext

(* Only the clean-up removes images: none in use, and of the pins' only what this run replaced. *)
LEMMA ApplyKeepsImages ==
  ApplyInv /\ [ApplyNext]_applyVars
    => \A i \in images \ images' : i \notin inUse /\ (i \in Superseding => artifact.rows[i] \in {"ok", "bumped"})
<1> SUFFICES ASSUME ApplyInv, [ApplyNext]_applyVars, NEW i \in images \ images'
             PROVE  i \notin inUse /\ (i \in Superseding => artifact.rows[i] \in {"ok", "bumped"})
    OBVIOUS
<1>1. ~EndStep
  <2> SUFFICES ASSUME EndStep PROVE FALSE
      OBVIOUS
  <2>1. images \subseteq images'
    BY DEF EndStep
  <2> QED  BY <2>1
<1>2. RemoveImages
  BY <1>1 DEF ApplyNext, applyVars, StartApply, PassOver, StartStep, Work, Survey, EndCleanup, FinishApply,
     ApplyDies, UseImage
<1>3. artifact.rows = rows
  BY <1>2 DEF PhaseSound, RemoveImages
<1>4. i \in Superseded \cup {"dangling"} /\ i \notin inUse
  BY <1>2 DEF RemoveImages
<1>5. "dangling" \notin Superseding
  BY DEF Superseding
<1> QED  BY <1>3, <1>4, <1>5 DEF Superseded

(* phase_1_apply: the artifact has every step that was begun, and nothing beyond the stop boundary was touched. *)
THEOREM ApplyInvariance == ApplySpec => []ApplyInv
  BY ApplyInitially, ApplyPreserved, PTL DEF ApplySpec

(* _p1_docker_cleanup: it keeps every image a container uses, also one gained after the survey,     *)
(* and every image this run did not itself replace.                                                  *)
THEOREM ImagesAreKept == ApplySpec => ImagesKept
<1>1. ApplyInv /\ [ApplyNext]_applyVars
        => [\A i \in images \ images' : i \notin inUse /\ (i \in Superseding => artifact.rows[i] \in {"ok", "bumped"})]_applyVars
  BY ApplyKeepsImages
<1> QED  BY <1>1, ApplyInvariance, PTL DEF ApplySpec, ImagesKept

HIDE DEF ApplyInv, Docker, Save

-----------------------------------------------------------------------------
(* The maintenance of the gaming rig.                                          *)

(* The inductive invariant of a visit to the rig. *)
RigInv == RigTypeOK /\ RebootGated /\ VisitSound /\ RigReportTrue

LEMMA RigInitially == RigInit => RigInv
<1> SUFFICES ASSUME RigInit PROVE RigInv
    OBVIOUS
<1> USE RigAssumption DEF RigInit, NoMind, NoPacket
<1>1. RigTypeOK
  <2>1. mind \in [boot : Nat, requested : BOOLEAN, observed : BOOLEAN, passed : BOOLEAN]
    OBVIOUS
  <2>2. said \in [status : {"none", "skipped", "failed", "ok"}, requested : BOOLEAN, rebooted : BOOLEAN, from : Nat]
    OBVIOUS
  <2>3. visit \in Visits /\ subs \subseteq Visits \cup {"bootnext"}
    BY DEF Visits
  <2>5. boot \in 1..MaxBoots
    <3>1. 1 \in 1..MaxBoots
      BY RigAssumption
    <3> QED  BY <3>1
  <2>4. visits \in Nat /\ omp2 \in 1..3 /\ os \in {"linux", "windows", "down", "leaving"}
    OBVIOUS
  <2>6. meddled \in BOOLEAN /\ omp2good \in BOOLEAN /\ bootnext \in BOOLEAN /\ kernel \in BOOLEAN /\ gpu \in BOOLEAN
        /\ flag \in BOOLEAN
    BY Zenon
  <2> HIDE DEF NoMind, NoPacket, RigInit
  <2> QED  BY <2>1, <2>2, <2>3, <2>4, <2>5, <2>6 DEF RigTypeOK
<1>2. RebootGated /\ VisitSound /\ RigReportTrue
  BY DEF RebootGated, VisitSound, RigReportTrue
<1> QED  BY <1>1, <1>2 DEF RigInv

USE RigAssumption DEF RigInv, Visit, Failed, Machine, Omp2, Reachable

(* The visit, step by step. *)
LEMMA ProbeStep == ASSUME RigInv, Probe PROVE RigInv'
<1> USE DEF Probe, NoMind, NoPacket
<1>1. RigTypeOK'
  <2>1. visit' \in Visits
    BY DEF RigTypeOK, Visits
  <2>2. subs' \subseteq Visits \cup {"bootnext"}
    BY DEF RigTypeOK, Visits
  <2>3. mind' \in [boot : Nat, requested : BOOLEAN, observed : BOOLEAN, passed : BOOLEAN]
    BY DEF RigTypeOK
  <2>4. said' \in [status : {"none", "skipped", "failed", "ok"}, requested : BOOLEAN, rebooted : BOOLEAN, from : Nat]
    <3>1. NoPacket \in [status : {"none", "skipped", "failed", "ok"}, requested : BOOLEAN, rebooted : BOOLEAN, from : Nat]
      OBVIOUS
    <3>2. \A s \in {"skipped", "failed"} : [NoPacket EXCEPT !.status = s]
             \in [status : {"none", "skipped", "failed", "ok"}, requested : BOOLEAN, rebooted : BOOLEAN, from : Nat]
      OBVIOUS
    <3>3. said' = NoPacket \/ \E s \in {"skipped", "failed"} : said' = [NoPacket EXCEPT !.status = s]
      OBVIOUS
    <3> HIDE DEF NoPacket, Probe
    <3> QED  BY <3>1, <3>2, <3>3
  <2>5. visits' \in Nat /\ meddled' = FALSE /\ UNCHANGED <<Machine, Omp2>>
    BY DEF RigTypeOK
  <2> HIDE DEF Probe, NoPacket, NoMind
  <2> QED  BY <2>1, <2>2, <2>3, <2>4, <2>5 DEF RigTypeOK
<1>2. RebootGated'
  BY DEF RigTypeOK, RebootGated, VisitSound
<1>3. VisitSound' /\ RigReportTrue'
  BY DEF RigTypeOK, RebootGated, VisitSound, RigReportTrue
<1> QED  BY <1>1, <1>2, <1>3

LEMMA RigAptStep == ASSUME RigInv, RigApt PROVE RigInv'
<1> USE DEF RigApt
<1>1. RigTypeOK'
  <2>1. visit' \in Visits
    BY DEF RigTypeOK, Visits
  <2>2. subs' \subseteq Visits \cup {"bootnext"}
    BY DEF RigTypeOK, Visits
  <2>3. mind' \in [boot : Nat, requested : BOOLEAN, observed : BOOLEAN, passed : BOOLEAN]
    BY DEF RigTypeOK
  <2>4. said' \in [status : {"none", "skipped", "failed", "ok"}, requested : BOOLEAN, rebooted : BOOLEAN, from : Nat]
    BY DEF RigTypeOK
  <2> QED  BY <2>1, <2>2, <2>3, <2>4 DEF RigTypeOK
<1>2. RebootGated'
  BY DEF RigTypeOK, RebootGated, VisitSound
<1>3. VisitSound' /\ RigReportTrue'
  BY DEF RigTypeOK, RebootGated, VisitSound, RigReportTrue
<1> QED  BY <1>1, <1>2, <1>3

LEMMA RigHerdrStep == ASSUME RigInv, RigHerdr PROVE RigInv'
<1> USE DEF RigHerdr
<1>1. RigTypeOK'
  <2>1. visit' \in Visits
    BY DEF RigTypeOK, Visits
  <2>2. subs' \subseteq Visits \cup {"bootnext"}
    BY DEF RigTypeOK, Visits
  <2>3. mind' \in [boot : Nat, requested : BOOLEAN, observed : BOOLEAN, passed : BOOLEAN]
    BY DEF RigTypeOK
  <2>4. said' \in [status : {"none", "skipped", "failed", "ok"}, requested : BOOLEAN, rebooted : BOOLEAN, from : Nat]
    BY DEF RigTypeOK
  <2> QED  BY <2>1, <2>2, <2>3, <2>4 DEF RigTypeOK
<1>2. RebootGated'
  BY DEF RigTypeOK, RebootGated, VisitSound
<1>3. VisitSound' /\ RigReportTrue'
  BY DEF RigTypeOK, RebootGated, VisitSound, RigReportTrue
<1> QED  BY <1>1, <1>2, <1>3

LEMMA RigOmpStep == ASSUME RigInv, RigOmp PROVE RigInv'
<1> USE DEF RigOmp
<1>1. RigTypeOK'
  <2>1. visit' \in Visits
    BY DEF RigTypeOK, Visits
  <2>2. subs' \subseteq Visits \cup {"bootnext"}
    BY DEF RigTypeOK, Visits
  <2>3. mind' \in [boot : Nat, requested : BOOLEAN, observed : BOOLEAN, passed : BOOLEAN]
    BY DEF RigTypeOK
  <2>4. said' \in [status : {"none", "skipped", "failed", "ok"}, requested : BOOLEAN, rebooted : BOOLEAN, from : Nat]
    BY DEF RigTypeOK
  <2> QED  BY <2>1, <2>2, <2>3, <2>4 DEF RigTypeOK
<1>2. RebootGated'
  BY DEF RigTypeOK, RebootGated, VisitSound
<1>3. VisitSound' /\ RigReportTrue'
  BY DEF RigTypeOK, RebootGated, VisitSound, RigReportTrue
<1> QED  BY <1>1, <1>2, <1>3

LEMMA RigOmpCheckStep == ASSUME RigInv, RigOmpCheck PROVE RigInv'
<1> USE DEF RigOmpCheck, NoMind
<1>1. RigTypeOK'
  <2>1. visit' \in Visits
    BY DEF RigTypeOK, Visits
  <2>2. subs' \subseteq Visits \cup {"bootnext"}
    BY DEF RigTypeOK, Visits
  <2>3. mind' \in [boot : Nat, requested : BOOLEAN, observed : BOOLEAN, passed : BOOLEAN]
    BY DEF RigTypeOK
  <2>4. said' \in [status : {"none", "skipped", "failed", "ok"}, requested : BOOLEAN, rebooted : BOOLEAN, from : Nat]
    BY DEF RigTypeOK
  <2>5. omp2' \in 1..3 /\ omp2good' \in BOOLEAN /\ UNCHANGED <<Machine, meddled, visits>>
    <3>1. visit = "omp_check" => mind.boot \in 1..3
      BY DEF VisitSound
    <3> QED  BY <3>1 DEF RigTypeOK
  <2> HIDE DEF RigOmpCheck, NoMind
  <2> QED  BY <2>1, <2>2, <2>3, <2>4, <2>5 DEF RigTypeOK
<1>2. RebootGated'
  BY DEF RigTypeOK, RebootGated, VisitSound
<1>3. VisitSound' /\ RigReportTrue'
  BY DEF RigTypeOK, RebootGated, VisitSound, RigReportTrue
<1> QED  BY <1>1, <1>2, <1>3

LEMMA RebootRequiredStep == ASSUME RigInv, RebootRequired PROVE RigInv'
<1> USE DEF RebootRequired
<1>1. RigTypeOK'
  <2>1. visit' \in Visits
    BY DEF RigTypeOK, Visits
  <2>2. subs' \subseteq Visits \cup {"bootnext"}
    BY DEF RigTypeOK, Visits
  <2>3. mind' \in [boot : Nat, requested : BOOLEAN, observed : BOOLEAN, passed : BOOLEAN]
    BY DEF RigTypeOK
  <2>4. said' \in [status : {"none", "skipped", "failed", "ok"}, requested : BOOLEAN, rebooted : BOOLEAN, from : Nat]
    BY DEF RigTypeOK
  <2> QED  BY <2>1, <2>2, <2>3, <2>4 DEF RigTypeOK
<1>2. RebootGated'
  BY DEF RigTypeOK, RebootGated, VisitSound
<1>3. VisitSound' /\ RigReportTrue'
  BY DEF RigTypeOK, RebootGated, VisitSound, RigReportTrue
<1> QED  BY <1>1, <1>2, <1>3

LEMMA GpuReadyStep == ASSUME RigInv, GpuReady PROVE RigInv'
<1> USE DEF GpuReady
<1>1. RigTypeOK'
  <2>1. visit' \in Visits
    BY DEF RigTypeOK, Visits
  <2>2. subs' \subseteq Visits \cup {"bootnext"}
    BY DEF RigTypeOK, Visits
  <2>3. mind' \in [boot : Nat, requested : BOOLEAN, observed : BOOLEAN, passed : BOOLEAN]
    BY DEF RigTypeOK
  <2>4. said' \in [status : {"none", "skipped", "failed", "ok"}, requested : BOOLEAN, rebooted : BOOLEAN, from : Nat]
    BY DEF RigTypeOK
  <2> QED  BY <2>1, <2>2, <2>3, <2>4 DEF RigTypeOK
<1>2. RebootGated'
  BY DEF RigTypeOK, RebootGated, VisitSound
<1>3. VisitSound' /\ RigReportTrue'
  BY DEF RigTypeOK, RebootGated, VisitSound, RigReportTrue
<1> QED  BY <1>1, <1>2, <1>3

LEMMA BootIdStep == ASSUME RigInv, BootId PROVE RigInv'
<1> USE DEF BootId
<1>1. RigTypeOK'
  <2>1. visit' \in Visits
    BY DEF RigTypeOK, Visits
  <2>2. subs' \subseteq Visits \cup {"bootnext"}
    BY DEF RigTypeOK, Visits
  <2>3. mind' \in [boot : Nat, requested : BOOLEAN, observed : BOOLEAN, passed : BOOLEAN]
    BY DEF RigTypeOK
  <2>4. said' \in [status : {"none", "skipped", "failed", "ok"}, requested : BOOLEAN, rebooted : BOOLEAN, from : Nat]
    BY DEF RigTypeOK
  <2> QED  BY <2>1, <2>2, <2>3, <2>4 DEF RigTypeOK
<1>2. RebootGated'
  BY DEF RigTypeOK, RebootGated, VisitSound
<1>3. VisitSound' /\ RigReportTrue'
  BY DEF RigTypeOK, RebootGated, VisitSound, RigReportTrue
<1> QED  BY <1>1, <1>2, <1>3

LEMMA ArmBootNextStep == ASSUME RigInv, ArmBootNext PROVE RigInv'
<1> USE DEF ArmBootNext
<1>1. RigTypeOK'
  <2>1. visit' \in Visits
    BY DEF RigTypeOK, Visits
  <2>2. subs' \subseteq Visits \cup {"bootnext"}
    BY DEF RigTypeOK, Visits
  <2>3. mind' \in [boot : Nat, requested : BOOLEAN, observed : BOOLEAN, passed : BOOLEAN]
    BY DEF RigTypeOK
  <2>4. said' \in [status : {"none", "skipped", "failed", "ok"}, requested : BOOLEAN, rebooted : BOOLEAN, from : Nat]
    BY DEF RigTypeOK
  <2> QED  BY <2>1, <2>2, <2>3, <2>4 DEF RigTypeOK
<1>2. RebootGated'
  BY DEF RigTypeOK, RebootGated, VisitSound
<1>3. VisitSound' /\ RigReportTrue'
  BY DEF RigTypeOK, RebootGated, VisitSound, RigReportTrue
<1> QED  BY <1>1, <1>2, <1>3

LEMMA RequestRebootStep == ASSUME RigInv, RequestReboot PROVE RigInv'
<1> USE DEF RequestReboot
<1>1. RigTypeOK'
  <2>1. visit' \in Visits
    BY DEF RigTypeOK, Visits
  <2>2. subs' \subseteq Visits \cup {"bootnext"}
    BY DEF RigTypeOK, Visits
  <2>3. mind' \in [boot : Nat, requested : BOOLEAN, observed : BOOLEAN, passed : BOOLEAN]
    BY DEF RigTypeOK
  <2>4. said' \in [status : {"none", "skipped", "failed", "ok"}, requested : BOOLEAN, rebooted : BOOLEAN, from : Nat]
    BY DEF RigTypeOK
  <2> QED  BY <2>1, <2>2, <2>3, <2>4 DEF RigTypeOK
<1>2. RebootGated'
  BY DEF RigTypeOK, RebootGated, VisitSound
<1>3. VisitSound' /\ RigReportTrue'
  BY DEF RigTypeOK, RebootGated, VisitSound, RigReportTrue
<1> QED  BY <1>1, <1>2, <1>3

LEMMA WaitForLinuxStep == ASSUME RigInv, WaitForLinux PROVE RigInv'
<1> USE DEF WaitForLinux
<1>1. RigTypeOK'
  <2>1. visit' \in Visits
    BY DEF RigTypeOK, Visits
  <2>2. subs' \subseteq Visits \cup {"bootnext"}
    BY DEF RigTypeOK, Visits
  <2>3. mind' \in [boot : Nat, requested : BOOLEAN, observed : BOOLEAN, passed : BOOLEAN]
    BY DEF RigTypeOK
  <2>4. said' \in [status : {"none", "skipped", "failed", "ok"}, requested : BOOLEAN, rebooted : BOOLEAN, from : Nat]
    BY DEF RigTypeOK
  <2> QED  BY <2>1, <2>2, <2>3, <2>4 DEF RigTypeOK
<1>2. RebootGated'
  BY DEF RigTypeOK, RebootGated, VisitSound
<1>3. VisitSound' /\ RigReportTrue'
  BY DEF RigTypeOK, RebootGated, VisitSound, RigReportTrue
<1> QED  BY <1>1, <1>2, <1>3

LEMMA PostHealthStep == ASSUME RigInv, PostHealth PROVE RigInv'
<1> USE DEF PostHealth
<1>1. RigTypeOK'
  <2>1. visit' \in Visits
    BY DEF RigTypeOK, Visits
  <2>2. subs' \subseteq Visits \cup {"bootnext"}
    BY DEF RigTypeOK, Visits
  <2>3. mind' \in [boot : Nat, requested : BOOLEAN, observed : BOOLEAN, passed : BOOLEAN]
    BY DEF RigTypeOK
  <2>4. said' \in [status : {"none", "skipped", "failed", "ok"}, requested : BOOLEAN, rebooted : BOOLEAN, from : Nat]
    BY DEF RigTypeOK
  <2> QED  BY <2>1, <2>2, <2>3, <2>4 DEF RigTypeOK
<1>2. RebootGated'
  BY DEF RigTypeOK, RebootGated, VisitSound
<1>3. VisitSound' /\ RigReportTrue'
  BY DEF RigTypeOK, RebootGated, VisitSound, RigReportTrue
<1> QED  BY <1>1, <1>2, <1>3

LEMMA HealthStep == ASSUME RigInv, Health PROVE RigInv'
<1> USE DEF Health
<1>1. RigTypeOK'
  <2>1. visit' \in Visits
    BY DEF RigTypeOK, Visits
  <2>2. subs' \subseteq Visits \cup {"bootnext"}
    BY DEF RigTypeOK, Visits
  <2>3. mind' \in [boot : Nat, requested : BOOLEAN, observed : BOOLEAN, passed : BOOLEAN]
    BY DEF RigTypeOK
  <2>4. said' \in [status : {"none", "skipped", "failed", "ok"}, requested : BOOLEAN, rebooted : BOOLEAN, from : Nat]
    BY DEF RigTypeOK
  <2> QED  BY <2>1, <2>2, <2>3, <2>4 DEF RigTypeOK
<1>2. RebootGated'
  BY DEF RigTypeOK, RebootGated, VisitSound
<1>3. VisitSound' /\ RigReportTrue'
  BY DEF RigTypeOK, RebootGated, VisitSound, RigReportTrue
<1> QED  BY <1>1, <1>2, <1>3

LEMMA EndVisitStep == ASSUME RigInv, EndVisit PROVE RigInv'
<1> USE DEF EndVisit
<1>1. RigTypeOK'
  <2>1. visit' \in Visits
    BY DEF RigTypeOK, Visits
  <2>2. subs' \subseteq Visits \cup {"bootnext"}
    BY DEF RigTypeOK, Visits
  <2>3. mind' \in [boot : Nat, requested : BOOLEAN, observed : BOOLEAN, passed : BOOLEAN]
    BY DEF RigTypeOK
  <2>4. said' \in [status : {"none", "skipped", "failed", "ok"}, requested : BOOLEAN, rebooted : BOOLEAN, from : Nat]
    BY DEF RigTypeOK
  <2> QED  BY <2>1, <2>2, <2>3, <2>4 DEF RigTypeOK
<1>2. RebootGated'
  BY DEF RigTypeOK, RebootGated, VisitSound
<1>3. VisitSound' /\ RigReportTrue'
  BY DEF RigTypeOK, RebootGated, VisitSound, RigReportTrue
<1> QED  BY <1>1, <1>2, <1>3

(* What the rig's user and its machine do meanwhile. *)
LEMMA UserSleepsStep == ASSUME RigInv, UserSleeps PROVE RigInv'
<1> USE DEF UserSleeps
<1>1. RigTypeOK'
  <2>1. visit' \in Visits
    BY DEF RigTypeOK, Visits
  <2>2. subs' \subseteq Visits \cup {"bootnext"}
    BY DEF RigTypeOK, Visits
  <2>3. mind' \in [boot : Nat, requested : BOOLEAN, observed : BOOLEAN, passed : BOOLEAN]
    BY DEF RigTypeOK
  <2>4. said' \in [status : {"none", "skipped", "failed", "ok"}, requested : BOOLEAN, rebooted : BOOLEAN, from : Nat]
    BY DEF RigTypeOK
  <2> QED  BY <2>1, <2>2, <2>3, <2>4 DEF RigTypeOK
<1>2. RebootGated'
  BY DEF RigTypeOK, RebootGated, VisitSound
<1>3. VisitSound' /\ RigReportTrue'
  BY DEF RigTypeOK, RebootGated, VisitSound, RigReportTrue
<1> QED  BY <1>1, <1>2, <1>3

LEMMA ModulePublishedStep == ASSUME RigInv, ModulePublished PROVE RigInv'
<1> USE DEF ModulePublished
<1>1. RigTypeOK'
  <2>1. visit' \in Visits
    BY DEF RigTypeOK, Visits
  <2>2. subs' \subseteq Visits \cup {"bootnext"}
    BY DEF RigTypeOK, Visits
  <2>3. mind' \in [boot : Nat, requested : BOOLEAN, observed : BOOLEAN, passed : BOOLEAN]
    BY DEF RigTypeOK
  <2>4. said' \in [status : {"none", "skipped", "failed", "ok"}, requested : BOOLEAN, rebooted : BOOLEAN, from : Nat]
    BY DEF RigTypeOK
  <2> QED  BY <2>1, <2>2, <2>3, <2>4 DEF RigTypeOK
<1>2. RebootGated'
  BY DEF RigTypeOK, RebootGated, VisitSound
<1>3. VisitSound' /\ RigReportTrue'
  BY DEF RigTypeOK, RebootGated, VisitSound, RigReportTrue
<1> QED  BY <1>1, <1>2, <1>3

(* A boot is counted, and leaves what the steward remembers behind it. *)
LEMMA BootsKeep ==
  ASSUME RigInv, NEW system \in {"linux", "windows"}, Boots(system),
         UNCHANGED <<kernel, omp2, omp2good, visit, mind, subs, said, visits>>, meddled' \in BOOLEAN,
         os = "leaving" \/ meddled'
  PROVE  RigInv'
<1> USE DEF Boots
<1>1. boot \in 1..MaxBoots /\ boot' = boot + 1 /\ boot' \in 1..MaxBoots /\ bootnext' = FALSE /\ os' = system
  BY DEF RigTypeOK
<1>2. RigTypeOK'
  BY <1>1 DEF RigTypeOK
<1>3. RebootGated'
  BY <1>1 DEF RigTypeOK, RebootGated
<1>4. VisitSound' /\ RigReportTrue'
  BY <1>1 DEF RigTypeOK, VisitSound, RigReportTrue
<1> QED  BY <1>2, <1>3, <1>4

LEMMA RebootsStep == ASSUME RigInv, Reboots PROVE RigInv'
  BY BootsKeep DEF Reboots, RigTypeOK

LEMMA UserBootsStep == ASSUME RigInv, NEW s \in {"linux", "windows"}, UserBoots(s) PROVE RigInv'
  BY BootsKeep DEF UserBoots

(* Every step keeps the invariant. *)
LEMMA RigPreserved == RigInv /\ (RigNext \/ UNCHANGED rigVars) => RigInv'
<1>1. ASSUME RigInv, RigNext PROVE RigInv'
  BY <1>1, ProbeStep, RigAptStep, RigHerdrStep, RigOmpStep, RigOmpCheckStep, RebootRequiredStep, GpuReadyStep,
     BootIdStep, ArmBootNextStep, RequestRebootStep, WaitForLinuxStep, PostHealthStep, HealthStep, EndVisitStep,
     UserSleepsStep, ModulePublishedStep, RebootsStep, UserBootsStep DEF RigNext
<1>2. ASSUME RigInv, UNCHANGED rigVars PROVE RigInv'
  BY <1>2 DEF rigVars, RigTypeOK, RebootGated, VisitSound, RigReportTrue
<1> QED  BY <1>1, <1>2

(* A reboot the visit asked for comes back to Linux with its GPU. *)
LEMMA RigReboots ==
  RigInv /\ [RigNext]_rigVars
    => [(os = "leaving" /\ boot' # boot /\ ~meddled') => (os' = "linux" /\ gpu')]_rigVars
<1> SUFFICES ASSUME RigInv, RigNext, os = "leaving", boot' # boot, ~meddled'
             PROVE  os' = "linux" /\ gpu'
  BY DEF rigVars
<1>1. CASE Reboots
  BY <1>1 DEF Reboots, Boots, RebootGated, RigTypeOK
<1>2. CASE \E s \in {"linux", "windows"} : UserBoots(s)
  BY <1>2 DEF UserBoots
<1>3. CASE ~Reboots /\ ~\E s \in {"linux", "windows"} : UserBoots(s)
  BY <1>3 DEF RigNext, Probe, RigApt, RigHerdr, RigOmp, RigOmpCheck, RebootRequired, GpuReady, BootId,
     ArmBootNext, RequestReboot, WaitForLinux, PostHealth, Health, EndVisit, UserSleeps, ModulePublished
<1> QED  BY <1>1, <1>2, <1>3

(* _p1_gamingrig_maintenance: a reboot was gated, whether or not its answer came, and the packet of a visit tells what it saw. *)
THEOREM RigInvariance == RigSpec => []RigInv
  BY RigInitially, RigPreserved, PTL DEF RigSpec

(* A reboot that the steward asked for, answered or not, and nobody else touched comes back to Linux with its GPU. *)
THEOREM RebootsAreSafe == RigSpec => RigRebootsSafely
  BY RigReboots, RigInvariance, PTL DEF RigSpec, RigRebootsSafely

HIDE RigAssumption DEF RigInv, Visit, Failed, Machine, Omp2, Reachable

-----------------------------------------------------------------------------
(* The repair of OMP's databases.                                              *)

(* The inductive invariant of the repair. *)
OmpInv == OmpTypeOK /\ CopyStands /\ RepairReported

(* A database, and a packet of its repair. *)
DbState == [rows : SUBSET OmpRow, fragile : SUBSET OmpRow, corrupt : BOOLEAN]
MendedState == [status : {"none", "skipped", "warning", "ok"}, action : {"none", "failed", "blocked", "repaired"},
                rerun : {"none", "not_needed", "not_run", "passed", "failed"},
                note : {"none", "good", "unknown", "failed"}]
BackupState == [result : {"success", "failed"}, blames : SUBSET {"omp", "files"}]

LEMMA OmpTypeIs ==
  OmpTypeOK <=>
    /\ db \in DbState /\ db.fragile \subseteq db.rows /\ rehearsal \in DbState /\ rehearsal.fragile \subseteq rehearsal.rows
    /\ written \subseteq OmpRow /\ spread \in BOOLEAN /\ repairs \in Nat
    /\ mend \in {"idle", "copy", "rehearse", "apply", "check", "rerun"}
    /\ evidence \in Seq(DbState) /\ Len(evidence) <= 2
    /\ backup \in [result : {"success", "failed"}, blames : SUBSET {"omp", "files"}]
    /\ mended \in MendedState
  BY DEF OmpTypeOK, DbState, MendedState, OMP_DB_REPAIR_KEEP

LEMMA NoDbTyped == NoDb \in DbState /\ NoDb.fragile = {} /\ NoDb.rows = {}
  BY DEF NoDb, DbState

LEMMA NoPacketTyped == NoPacket2 \in MendedState /\ NoPacket2.status = "none"
  BY DEF NoPacket2, MendedState

LEMMA OmpInitially == OmpInit => OmpInv
<1> SUFFICES ASSUME OmpInit PROVE OmpInv
    OBVIOUS
<1> USE DEF OmpInit
<1>1. backup \in [result : {"success", "failed"}, blames : SUBSET {"omp", "files"}]
  OBVIOUS
<1>2. evidence \in Seq(DbState) /\ Len(evidence) <= 2
  OBVIOUS
<1>3. OmpTypeOK
  BY <1>1, <1>2, NoDbTyped, NoPacketTyped, OmpTypeIs
<1>4. CopyStands /\ RepairReported
  BY NoPacketTyped DEF CopyStands, RepairReported
<1> QED  BY <1>3, <1>4 DEF OmpInv

(* A rebuilt database is one. *)
LEMMA RebuiltTyped ==
  ASSUME NEW d \in DbState
  PROVE  Rebuilt(d) \in DbState /\ Rebuilt(d).fragile = {} /\ Rebuilt(d).rows = d.rows \ d.fragile
  BY DEF Rebuilt, DbState

(* What is rebuilt with as many rows had none to lose. *)
LEMMA NothingLost ==
  ASSUME NEW d \in DbState, d.fragile \subseteq d.rows, Lossless(d, Rebuilt(d))
  PROVE  d.fragile = {}
<1>1. IsFiniteSet(OmpRow)
  BY OmpAssumption, FS_Interval DEF OmpRow
<1>2. d.rows \subseteq OmpRow
  BY DEF DbState
<1>3. IsFiniteSet(d.rows)
  BY <1>1, <1>2, FS_Subset
<1>4. d.rows \ d.fragile \subseteq d.rows /\ Cardinality(d.rows) = Cardinality(d.rows \ d.fragile)
  BY RebuiltTyped DEF Lossless
<1>5. d.rows \ d.fragile = d.rows
  BY <1>3, <1>4, FS_Subset
<1> QED  BY <1>5

LEMMA UnresolvedTyped ==
  ASSUME NEW a \in {"failed", "blocked"}, Unresolved(a)
  PROVE  mended' \in MendedState /\ mended'.status = "warning" /\ mend' = "idle"
  BY DEF Unresolved, MendedState, NoPacket2

(* A run of the backup blames what it says, and nothing when it succeeds. *)
LEMMA BackupIs ==
  ASSUME NEW others \in SUBSET {"files"}
  PROVE  BackupOf(others) \in BackupState
BY DEF BackupOf, BackupState

(* What sessions and the disk do meanwhile. *)
LEMMA SessionWritesStep == ASSUME OmpInv, NEW r \in OmpRow, SessionWrites(r) PROVE OmpInv'
<1> USE DEF OmpInv, SessionWrites
<1>1. db' \in DbState /\ db'.fragile = db.fragile /\ db.rows \subseteq db'.rows
  <2>1. db \in DbState
    BY OmpTypeIs
  <2> QED  BY <2>1 DEF DbState
<1>2. OmpTypeOK'
  <2>1. /\ db' \in DbState /\ db'.fragile \subseteq db'.rows /\ written' \subseteq OmpRow
    BY <1>1, OmpTypeIs
  <2> QED  BY <2>1, OmpTypeIs DEF OmpTypeOK, DbState
<1>3. CopyStands' /\ RepairReported'
  BY <1>1 DEF CopyStands, RepairReported
<1> QED  BY <1>2, <1>3

LEMMA CorruptStep == ASSUME OmpInv, NEW lost \in SUBSET OmpRow, Corrupt(lost) PROVE OmpInv'
<1> USE DEF OmpInv, Corrupt
<1>1. db' \in DbState /\ db'.fragile \subseteq db'.rows
  <2>1. db \in DbState /\ db.fragile \subseteq db.rows
    BY OmpTypeIs
  <2> QED  BY <2>1 DEF DbState
<1>2. OmpTypeOK'
  BY <1>1 DEF OmpTypeOK, DbState
<1>3. CopyStands' /\ RepairReported'
  BY DEF CopyStands, RepairReported
<1> QED  BY <1>2, <1>3

(* The backup and the repair, step by step. *)
LEMMA BackupStep == ASSUME OmpInv, NEW others \in SUBSET {"files"}, Backup(others) PROVE OmpInv'
<1> USE DEF OmpInv, Backup
<1>1. backup' \in BackupState
  BY BackupIs
<1>2. mended' \in MendedState /\ (mend = "idle" => mended'.status = "none") /\ (mend # "idle" => mended' = mended)
  BY NoPacketTyped, OmpTypeIs
<1>3. OmpTypeOK'
  BY <1>1, <1>2 DEF OmpTypeOK, MendedState, BackupState
<1>4. CopyStands' /\ RepairReported'
  BY <1>2 DEF CopyStands, RepairReported
<1> QED  BY <1>3, <1>4

LEMMA CheckIntegrityStep == ASSUME OmpInv, CheckIntegrity PROVE OmpInv'
<1> USE DEF OmpInv, CheckIntegrity
<1>1. mended' \in MendedState /\ mended'.status \in {"none", "skipped"} /\ mend' \in {"copy", "idle"}
  BY NoPacketTyped DEF MendedState
<1>2. OmpTypeOK'
  <2>1. rehearsal' \in DbState /\ rehearsal'.fragile \subseteq rehearsal'.rows
    BY NoDbTyped
  <2>2. repairs' \in Nat /\ UNCHANGED <<db, written, evidence, backup>>
    BY DEF OmpTypeOK
  <2>3. spread' \in BOOLEAN
    BY Zenon
  <2> HIDE DEF CheckIntegrity
  <2> QED  BY <1>1, <2>1, <2>2, <2>3 DEF OmpTypeOK, MendedState, DbState
<1>3. CopyStands' /\ RepairReported'
  BY <1>1 DEF CopyStands, RepairReported
<1> QED  BY <1>2, <1>3

LEMMA CopyDbStep == ASSUME OmpInv, CopyDb PROVE OmpInv'
<1> USE DEF OmpInv, CopyDb
<1>1. CASE Unresolved("failed") /\ UNCHANGED <<evidence, rehearsal, spread>>
  <2>1. mended' \in MendedState /\ mended'.status = "warning" /\ mend' = "idle"
    BY <1>1, UnresolvedTyped
  <2> QED  BY <1>1, <2>1 DEF OmpTypeOK, MendedState, CopyStands, RepairReported
<1>2. CASE evidence' = Keep(<<db>> \o evidence) /\ rehearsal' = db /\ spread' = FALSE /\ mend' = "rehearse" /\ UNCHANGED mended
  <2>1. db \in DbState /\ evidence \in Seq(DbState)
    BY OmpTypeIs
  <2>2. <<db>> \o evidence \in Seq(DbState)
    <3> HIDE DEF DbState
    <3> QED  BY <2>1
  <2>3. evidence' \in Seq(DbState) /\ Len(evidence') <= 2
    <3> HIDE DEF DbState
    <3> DEFINE all == <<db>> \o evidence
    <3>1. all \in Seq(DbState) /\ Len(all) \in Nat
      BY <2>2
    <3>5. evidence' = Keep(all)
      BY <1>2
    <3> HIDE DEF all
    <3>2. Keep(all) = IF Len(all) > 2 THEN SubSeq(all, 1, 2) ELSE all
      BY DEF Keep, OMP_DB_REPAIR_KEEP
    <3>3. CASE Len(all) > 2
      <4>1. SubSeq(all, 1, 2) \in Seq(DbState) /\ Len(SubSeq(all, 1, 2)) = 2
        <5>1. \A i \in 1..2 : all[i] \in DbState
          BY <3>1, <3>3
        <5>2. 1 \in Int /\ 2 \in Int /\ 1 <= 2 /\ 2 - 1 + 1 = 2
          OBVIOUS
        <5>3. /\ SubSeq(all, 1, 2) \in Seq(DbState)
              /\ Len(SubSeq(all, 1, 2)) = IF 1 <= 2 THEN 2 - 1 + 1 ELSE 0
          BY ONLY <5>1, <5>2, SubSeqProperties
        <5> QED  BY <5>2, <5>3
      <4> QED  BY <3>2, <3>3, <3>5, <4>1
    <3>4. CASE ~(Len(all) > 2)
      BY <3>1, <3>2, <3>4, <3>5
    <3> QED  BY <3>3, <3>4
  <2>4. OmpTypeOK'
    BY <1>2, <2>3 DEF OmpTypeOK, DbState, OMP_DB_REPAIR_KEEP
  <2>5. CopyStands' /\ RepairReported'
    BY <1>2 DEF CopyStands, RepairReported
  <2> QED  BY <2>4, <2>5
<1> QED  BY <1>1, <1>2

LEMMA RehearseStep == ASSUME OmpInv, Rehearse PROVE OmpInv'
<1> USE DEF OmpInv, Rehearse
<1>1. CASE Unresolved("blocked")
  <2>1. mended' \in MendedState /\ mended'.status = "warning" /\ mend' = "idle"
    BY <1>1, UnresolvedTyped
  <2> QED  BY <1>1, <2>1, NoDbTyped DEF OmpTypeOK, DbState, MendedState, CopyStands, RepairReported
<1>2. CASE Lossless(rehearsal, Rebuilt(rehearsal)) /\ mend' = "apply" /\ UNCHANGED mended
  <2>1. rehearsal.fragile = {}
    BY <1>2, OmpTypeIs, NothingLost
  <2> QED  BY <1>2, <2>1, NoDbTyped DEF OmpTypeOK, DbState, CopyStands, RepairReported
<1> QED  BY <1>1, <1>2

LEMMA ApplyLiveStep == ASSUME OmpInv, ApplyLive PROVE OmpInv'
<1> USE DEF OmpInv, ApplyLive
<1>1. CASE Unresolved("failed") /\ UNCHANGED db
  <2>1. mended' \in MendedState /\ mended'.status = "warning" /\ mend' = "idle"
    BY <1>1, UnresolvedTyped
  <2> QED  BY <1>1, <2>1 DEF OmpTypeOK, MendedState, CopyStands, RepairReported
<1>2. CASE db' = Rebuilt(db) /\ mend' = "check" /\ UNCHANGED mended
  <2>1. db' \in DbState /\ db'.fragile = {}
    BY <1>2, OmpTypeIs, RebuiltTyped
  <2> QED  BY <1>2, <2>1 DEF OmpTypeOK, DbState, CopyStands, RepairReported
<1> QED  BY <1>1, <1>2

LEMMA CheckLiveStep == ASSUME OmpInv, CheckLive PROVE OmpInv'
<1> USE DEF OmpInv, CheckLive
<1>1. CASE Unresolved("failed")
  <2>1. mended' \in MendedState /\ mended'.status = "warning" /\ mend' = "idle"
    BY <1>1, UnresolvedTyped
  <2> QED  BY <1>1, <2>1 DEF OmpTypeOK, MendedState, CopyStands, RepairReported
<1>2. CASE mend' = "rerun" /\ mended' = [mended EXCEPT !.action = "repaired"]
  <2>1. mended' \in MendedState
    BY <1>2, OmpTypeIs DEF MendedState
  <2> QED  BY <1>2, <2>1 DEF OmpTypeOK, MendedState, CopyStands, RepairReported
<1> QED  BY <1>1, <1>2

(* What the rerun puts in the packet. *)
LEMMA RanAgain ==
  ASSUME mended \in MendedState, NEW status \in {"warning", "ok"},
         NEW rerun \in {"not_needed", "not_run", "passed", "failed"}, NEW note \in {"good", "unknown", "failed"},
         Reran(status, rerun, note)
  PROVE  /\ mended' \in MendedState /\ mended'.action = mended.action
         /\ mended'.status = status /\ mended'.rerun = rerun /\ mended'.note = note
BY DEF Reran, MendedState

LEMMA RerunStep == ASSUME OmpInv, Rerun PROVE OmpInv'
<1>1. /\ mended \in MendedState /\ mended.action = "repaired" /\ backup \in BackupState /\ mend' = "idle"
      /\ UNCHANGED <<db, written, evidence, rehearsal, spread, repairs>>
  BY OmpTypeIs DEF OmpInv, CopyStands, Rerun, BackupState
<1> DEFINE Told == /\ mended' \in MendedState /\ mended'.action = "repaired" /\ backup' \in BackupState
                   /\ mended'.status = "ok" =>
                        backup'.result = "success" \/ (mended'.rerun = "not_needed" /\ mended'.note = "unknown")
<1>2. Told
  <2>1. CASE backup.result = "success" /\ Reran("ok", "not_needed", "good") /\ UNCHANGED backup
    BY <1>1, <2>1, RanAgain
  <2>2. CASE Reran("ok", "not_needed", "unknown") /\ UNCHANGED backup
    BY <1>1, <2>2, RanAgain
  <2>3. CASE Reran("warning", "not_run", "failed") /\ UNCHANGED backup
    BY <1>1, <2>3, RanAgain
  <2>4. CASE Reran("warning", "failed", "failed") /\ UNCHANGED backup
    BY <1>1, <2>4, RanAgain
  <2>5. ASSUME NEW others \in SUBSET {"files"}, backup' = BackupOf(others),
               \/ BackupOf(others).result = "success" /\ Reran("ok", "passed", "failed")
               \/ Reran("warning", "failed", "failed")
        PROVE  Told
    BY <1>1, <2>5, RanAgain, BackupIs
  <2> QED  BY <2>1, <2>2, <2>3, <2>4, <2>5 DEF Rerun
<1>3. OmpTypeOK'
  BY <1>1, <1>2 DEF OmpInv, OmpTypeOK, MendedState, BackupState
<1> QED  BY <1>1, <1>2, <1>3 DEF OmpInv, CopyStands, RepairReported

LEMMA OmpDiesStep == ASSUME OmpInv, OmpDies PROVE OmpInv'
  BY NoPacketTyped, NoDbTyped DEF OmpInv, OmpDies, OmpTypeOK, MendedState, DbState, CopyStands, RepairReported

(* Every step keeps the invariant. *)
LEMMA OmpPreserved == OmpInv /\ (OmpNext \/ UNCHANGED ompVars) => OmpInv'
<1>1. ASSUME OmpInv, OmpNext PROVE OmpInv'
  BY <1>1, SessionWritesStep, CorruptStep, BackupStep, CheckIntegrityStep, CopyDbStep, RehearseStep, ApplyLiveStep,
     CheckLiveStep, RerunStep, OmpDiesStep DEF OmpNext
<1>2. ASSUME OmpInv, UNCHANGED ompVars PROVE OmpInv'
  BY <1>2 DEF ompVars, OmpInv, OmpTypeOK, CopyStands, RepairReported
<1> QED  BY <1>1, <1>2

(* A repair of a database that was not spread keeps its rows. *)
LEMMA OmpLossless ==
  OmpInv /\ [OmpNext]_ompVars => [(mend = "apply" /\ mend' = "check" /\ ~spread) => db'.rows = db.rows]_ompVars
<1> SUFFICES ASSUME OmpInv, OmpNext, mend = "apply", mend' = "check", ~spread PROVE db'.rows = db.rows
  BY DEF ompVars
<1>1. db' = Rebuilt(db)
  BY DEF OmpNext, SessionWrites, Corrupt, Backup, CheckIntegrity, CopyDb, Rehearse, ApplyLive, CheckLive, Rerun,
         OmpDies, Unresolved
<1>2. db.fragile = {} /\ db \in DbState
  BY OmpTypeIs DEF OmpInv, CopyStands
<1> QED  BY <1>1, <1>2, RebuiltTyped

(* _p1_omp_db_repair: the rehearsed copy stands for the database, and what is called repaired was, after a backup   *)
(* whose failure was not read and passed over.                                                                      *)
THEOREM OmpInvariance == OmpSpec => []OmpInv
  BY OmpInitially, OmpPreserved, PTL DEF OmpSpec

(* _ompdb_repair_one: a repair loses no row of a database whose damage was not spread.                    *)
THEOREM RepairsAreLossless == OmpSpec => RepairLossless
  BY OmpLossless, OmpInvariance, PTL DEF OmpSpec, RepairLossless

-----------------------------------------------------------------------------
(* The toolchains.                                                             *)

(* The greatest of some bounded numbers is one of them. *)
LEMMA MaxOf == ASSUME NEW N \in Nat, NEW S \in SUBSET (1..N), S # {} PROVE Max(S) \in S
<1> DEFINE below == {N - r : r \in S}
<1>1. \A r \in S : r \in 1..N /\ N - r \in Nat
  OBVIOUS
<1>2. below \in SUBSET Nat /\ below # {}
  BY <1>1
<1>3. PICK n \in below : \A m \in below : n <= m
  BY <1>2, LeastOf
<1>4. PICK r \in S : n = N - r
  OBVIOUS
<1>5. \A q \in S : N - r <= N - q
  BY <1>3, <1>4
<1>6. \A q \in S : r >= q
  BY <1>1, <1>5
<1> QED  BY <1>6 DEF Max

(* The inductive invariant of the toolchains. *)
ToolInv == ToolTypeOK /\ MemorySound /\ DiskSound /\ WorkingKept /\ ReplacedKept

(* What an update of a toolchain holds in memory. *)
MemState == [book : SUBSET SavedRecord, cur : {0} \cup Line, target : {0} \cup Line, created : BOOLEAN]

(* The line of releases: numbers from 1, before the one that is not out. *)
LEMMA LineNat == Line \subseteq Nat \ {0} /\ Line \subseteq ToolVersion /\ Newest \notin Line /\ 0 \notin Line /\ 1 \in Line
  BY ToolAssumption DEF Line, ToolVersion

(* What a saved record is made of. *)
LEMMA RecordIs ==
  ASSUME NEW v, NEW i, NEW a, NEW s
  PROVE  /\ Record2(v, i, a, s).version = v /\ Record2(v, i, a, s).installed = i
         /\ Record2(v, i, a, s).at = a /\ Record2(v, i, a, s).state = s
         /\ (v \in Line /\ i \in Line /\ a \in Nat /\ s \in {"pending", "replaced", "rollback_unverified"})
              => Record2(v, i, a, s) \in SavedRecord
  BY DEF Record2, SavedRecord

LEMMA NoMemTyped == NoMem \in MemState /\ NoMem.book = {} /\ NoMem.cur = 0 /\ NoMem.target = 0 /\ NoMem.created = FALSE
  BY DEF NoMem, MemState

(* What the types say of a record, and of the memory. *)
LEMMA Typed ==
  ASSUME ToolTypeOK
  PROVE  /\ mem \in MemState /\ book \subseteq SavedRecord /\ mem.book \subseteq SavedRecord
         /\ mem.cur \in {0} \cup Line /\ mem.target \in {0} \cup Line /\ evening \in Nat /\ active \in Line
         /\ \A r \in SavedRecord : r.version \in Line /\ r.installed \in Line /\ r.at \in Nat
                                   /\ r.state \in {"pending", "replaced", "rollback_unverified"}
  BY DEF ToolTypeOK, MemState, SavedRecord

(* The release a run selects is newer than what it has. *)
LEMMA Selected ==
  ASSUME ToolTypeOK, mem.cur # 0, SelectSameLine(mem.cur) # NoVersion
  PROVE  SelectSameLine(mem.cur) \in Line /\ mem.cur < SelectSameLine(mem.cur)
<1> DEFINE newer == {v \in upstreamReleases : SameLine(v, mem.cur) /\ v > mem.cur}
<1>1. newer \in SUBSET (1..Newest) /\ Newest \in Nat
  BY ToolAssumption DEF ToolTypeOK, ToolVersion
<1>2. newer # {}
  BY DEF SelectSameLine, NewestOf
<1>3. Max(newer) \in newer
  BY <1>1, <1>2, MaxOf
<1>4. SelectSameLine(mem.cur) = Max(newer)
  BY <1>2 DEF SelectSameLine, NewestOf
<1>5. SameLine(Max(newer), mem.cur) /\ Max(newer) > mem.cur /\ Max(newer) \in ToolVersion
  BY <1>3 DEF ToolTypeOK
<1>6. mem.cur # Newest /\ mem.cur \in Nat
  BY Typed, LineNat
<1>7. Max(newer) # Newest
  BY <1>5, <1>6 DEF SameLine
<1>8. Max(newer) \in Nat
  BY <1>5, ToolAssumption DEF ToolVersion
<1> QED  BY <1>4, <1>5, <1>6, <1>7, <1>8 DEF Line

(* Settling turns tonight's record, and no other. *)
LEMMA SettledIs ==
  ASSUME ToolInv, tool \in Switching, NEW s \in {"replaced", "rollback_unverified"}, Settle(s)
  PROVE  /\ mem' \in MemState /\ mem'.cur = mem.cur /\ mem'.target = mem.target /\ mem'.created = mem.created
         /\ mem'.book = (book \ {Tonight}) \cup {Record2(mem.cur, mem.target, evening, s)} /\ book' = mem'.book
         /\ book' \subseteq SavedRecord
<1> DEFINE done == Record2(mem.cur, mem.target, evening, s)
<1>1. mem.book = book /\ Tonight \in book /\ \A r \in book : r.state = "pending" => r = Tonight
  BY DEF ToolInv, MemorySound
<1>2. /\ Tonight.state = "pending" /\ Tonight.at = evening /\ [Tonight EXCEPT !.state = s] = done
  BY DEF Tonight, Record2
<1>3. \A r \in book : Settled(s)[r] = IF r = Tonight THEN done ELSE r
  BY <1>1, <1>2 DEF Settled
<1>4. {Settled(s)[r] : r \in mem.book} = (book \ {Tonight}) \cup {done}
  BY <1>1, <1>3
<1>5. mem.cur # 0 /\ mem.target # 0
  BY DEF ToolInv, MemorySound, Switching
<1>6. done \in SavedRecord
  BY <1>5, Typed, RecordIs DEF ToolInv
<1>7. mem \in MemState /\ book \subseteq SavedRecord
  BY Typed DEF ToolInv
<1>8. mem' = [mem EXCEPT !.book = (book \ {Tonight}) \cup {done}] /\ book' = mem'.book
  BY <1>4 DEF Settle
<1> HIDE DEF done
<1> QED  BY <1>6, <1>7, <1>8 DEF done, MemState

(* An interrupted switch is dropped, or counted. *)
LEMMA ReconciledIs ==
  ASSUME NEW B \in SUBSET SavedRecord
  PROVE  /\ ReconciledPending(B) \subseteq SavedRecord
         /\ \A r \in B : r.state # "pending" => r \in ReconciledPending(B)
         /\ \A r \in ReconciledPending(B) : r.state # "pending" /\ \E p \in B :
              /\ r.version = p.version /\ r.installed = p.installed /\ r.at = p.at
              /\ r = p \/ (p.state = "pending" /\ r.state = "replaced" /\ p.installed = active)
<1>1. ASSUME NEW r \in ReconciledPending(B)
      PROVE  r \in SavedRecord /\ r.state # "pending" /\ \E p \in B :
              /\ r.version = p.version /\ r.installed = p.installed /\ r.at = p.at
              /\ r = p \/ (p.state = "pending" /\ r.state = "replaced" /\ p.installed = active)
  <2>1. CASE r \in B /\ r.state # "pending"
    BY <2>1
  <2>2. ASSUME NEW p \in B, p.state = "pending", p.installed = active, r = [p EXCEPT !.state = "replaced"]
        PROVE  r \in SavedRecord /\ r.state = "replaced" /\ r.version = p.version /\ r.installed = p.installed /\ r.at = p.at
    BY <2>2 DEF SavedRecord
  <2> QED  BY <2>1, <2>2 DEF ReconciledPending
<1> QED  BY <1>1 DEF ReconciledPending

LEMMA ToolInitially == ToolInit => ToolInv
<1> SUFFICES ASSUME ToolInit PROVE ToolInv
    OBVIOUS
<1> USE DEF ToolInit
<1>1. ToolTypeOK
  <2>1. mem \in MemState
    BY NoMemTyped
  <2>2. fitness \in [ToolVersion -> {"bad", "shy", "good"}] /\ fitness[1] = "good"
    OBVIOUS
  <2>3. staged \in [ToolVersion -> {NoVersion} \cup Line]
    OBVIOUS
  <2>4. /\ active \in Line /\ have \subseteq ToolVersion /\ upstreamReleases \subseteq ToolVersion
        /\ pinnedVersions \subseteq ToolVersion
    BY LineNat
  <2>5. torn \in BOOLEAN /\ meddled2 \in BOOLEAN
    BY Zenon
  <2> QED  BY <2>1, <2>2, <2>3, <2>4, <2>5 DEF ToolTypeOK, MemState
<1>2. MemorySound /\ DiskSound /\ WorkingKept /\ ReplacedKept
  BY NoMemTyped DEF MemorySound, DiskSound, WorkingKept, ReplacedKept, Switching
<1> QED  BY <1>1, <1>2 DEF ToolInv

USE DEF ToolInv, World2, Disk, Ghosts, Switching

(* The update of a toolchain, step by step. *)
LEMMA StartToolchainStep == ASSUME ToolInv, StartToolchain PROVE ToolInv'
<1> USE DEF StartToolchain, NoMem
<1>1. ToolTypeOK'
  <2>1. mem' \in MemState
    BY ReconciledIs, Typed, RecordIs, NoMemTyped DEF MemState
  <2>2. book' \subseteq SavedRecord
    BY ReconciledIs, <2>1, Typed, RecordIs DEF MemState
  <2> QED  BY <2>1, <2>2, LineNat DEF ToolTypeOK, MemState, MemorySound, DiskSound
<1>2. MemorySound'
  BY ReconciledIs, <1>1, Typed, LineNat, RecordIs, NoMemTyped DEF MemorySound, MemState, Tonight, DiskSound
<1>3. DiskSound'
  BY ReconciledIs, <1>1, Typed, LineNat, NoMemTyped DEF MemorySound, DiskSound, MemState
<1>4. WorkingKept'
  BY ReconciledIs, <1>1, Typed, NoMemTyped, RecordIs DEF MemorySound, WorkingKept, MemState, Tonight
<1>5. ReplacedKept'
  <2> SUFFICES ASSUME ~torn', ~meddled2' PROVE ReplacedKept'
    BY DEF ReplacedKept
  <2>1. ~torn /\ ~meddled2
    BY DEF ToolTypeOK
  <2>2. /\ \A r \in book \cup mem.book : r.state = "replaced" =>
             r.version < From /\ (evening - r.at < Retention => Kept(r))
        /\ \A r, q \in book \cup mem.book :
             r.state = "replaced" /\ q.state = "replaced" /\ r.version = q.version => r = q
        /\ tool \notin Switching => \A r \in book : r.state = "pending" => r.installed # active
    BY <2>1 DEF ReplacedKept
  <2>3. /\ mem'.book = ReconciledPending(book) /\ book' = book /\ active' = active /\ evening' = evening + 1
        /\ From = active /\ From' = active
    BY NoMemTyped DEF NoMem, From
  <2>4. book \in SUBSET SavedRecord /\ \A r \in book : r.installed = active => r.state # "pending"
    BY <2>2, Typed
  <2>5. \A r \in mem'.book : r \in book
    BY <2>3, <2>4, ReconciledIs
  <2>6. \A r \in book : evening' - r.at < Retention => evening - r.at < Retention
    BY <2>3, Typed, ToolAssumption
  <2>7. \A r : Kept(r)' <=> Kept(r)
    BY DEF Kept
  <2>9. tool \notin Switching
    OBVIOUS
  <2> HIDE DEF StartToolchain
  <2>8. \A r \in book' \cup mem'.book : r \in book
    BY <2>3, <2>5
  <2> QED  BY <2>2, <2>3, <2>6, <2>7, <2>8, <2>9 DEF ReplacedKept
<1> QED  BY <1>1, <1>2, <1>3, <1>4, <1>5

LEMMA SelectReleaseStep == ASSUME ToolInv, SelectRelease PROVE ToolInv'
<1> USE DEF SelectRelease, Warn
<1>1. ToolTypeOK'
  <2>3. mem.cur # 0
    BY DEF MemorySound
  <2>1. mem' \in MemState
    BY <2>3, Selected, Typed DEF MemState
  <2>2. book' \subseteq SavedRecord
    BY Selected, <2>1, Typed, RecordIs DEF MemState
  <2> QED  BY <2>1, <2>2, LineNat DEF ToolTypeOK, MemState, MemorySound, DiskSound
<1>2. MemorySound'
  BY Selected, <1>1, Typed, LineNat, RecordIs, NoMemTyped DEF MemorySound, MemState, Tonight, DiskSound
<1>3. DiskSound'
  BY Selected, <1>1, Typed, LineNat, NoMemTyped DEF MemorySound, DiskSound, MemState
<1>4. WorkingKept'
  BY Selected, <1>1, Typed, NoMemTyped, RecordIs DEF MemorySound, WorkingKept, MemState, Tonight
<1>5. ReplacedKept'
  BY Selected, <1>1, Typed, LineNat, NoMemTyped, RecordIs DEF MemorySound, DiskSound, ReplacedKept, MemState,
     Tonight, Kept, From
<1> QED  BY <1>1, <1>2, <1>3, <1>4, <1>5

LEMMA PointerStageStep == ASSUME ToolInv, PointerStage PROVE ToolInv'
<1> USE DEF PointerStage, Warn
<1>1. ToolTypeOK'
  <2>1. mem' \in MemState
    <3>1. (mem.target \notin have) \in BOOLEAN
      OBVIOUS
    <3>2. mem' = mem \/ mem' = [mem EXCEPT !.created = (mem.target \notin have)]
      OBVIOUS
    <3> HIDE DEF PointerStage
    <3> QED  BY <3>1, <3>2, Typed DEF MemState
  <2>2. book' \subseteq SavedRecord
    BY <2>1, Typed, RecordIs DEF MemState
  <2> QED  BY <2>1, <2>2, LineNat DEF ToolTypeOK, MemState, MemorySound, DiskSound
<1>2. MemorySound'
  BY <1>1, Typed, LineNat, RecordIs, NoMemTyped DEF MemorySound, MemState, Tonight, DiskSound
<1>3. DiskSound'
  BY <1>1, Typed, LineNat, NoMemTyped DEF MemorySound, DiskSound, MemState
<1>4. WorkingKept'
  BY <1>1, Typed, NoMemTyped, RecordIs DEF MemorySound, WorkingKept, MemState, Tonight
<1>5. ReplacedKept'
  BY <1>1, Typed, LineNat, NoMemTyped, RecordIs DEF MemorySound, DiskSound, ReplacedKept, MemState, Tonight,
     Kept, From
<1> QED  BY <1>1, <1>2, <1>3, <1>4, <1>5

LEMMA TreeStageStep == ASSUME ToolInv, TreeStage PROVE ToolInv'
<1> USE DEF TreeStage, Warn
<1>1. ToolTypeOK'
  <2>1. mem' \in MemState
    BY Typed, RecordIs, NoMemTyped DEF MemState
  <2>2. book' \subseteq SavedRecord
    BY <2>1, Typed, RecordIs DEF MemState
  <2> QED  BY <2>1, <2>2, LineNat DEF ToolTypeOK, MemState, MemorySound, DiskSound
<1>2. MemorySound'
  BY <1>1, Typed, LineNat, RecordIs, NoMemTyped DEF MemorySound, MemState, Tonight, DiskSound
<1>3. DiskSound'
  <2>1. mem.target \in ToolVersion /\ staged \in [ToolVersion -> {NoVersion} \cup Line]
    BY Typed, LineNat DEF MemorySound, ToolTypeOK
  <2> QED  BY <2>1 DEF MemorySound, DiskSound
<1>4. WorkingKept'
  BY <1>1, Typed, NoMemTyped, RecordIs DEF MemorySound, WorkingKept, MemState, Tonight
<1>5. ReplacedKept'
  BY <1>1, Typed, LineNat, NoMemTyped, RecordIs DEF MemorySound, DiskSound, ReplacedKept, MemState, Tonight,
     Kept, From
<1> QED  BY <1>1, <1>2, <1>3, <1>4, <1>5

LEMMA SmokeStagedStep == ASSUME ToolInv, SmokeStaged PROVE ToolInv'
<1> USE DEF SmokeStaged, Warn, Discard, PointerDiscard, TreeDiscard
<1>1. ToolTypeOK'
  <2>1. mem' \in MemState
    <3>1. mem.cur # 0 /\ mem.target # 0
      BY DEF MemorySound
    <3>2. Record2(mem.cur, mem.target, evening, "pending") \in SavedRecord
      BY <3>1, Typed, RecordIs
    <3> QED  BY <3>2, Typed DEF MemState
  <2>2. book' \subseteq SavedRecord
    BY <2>1, Typed, RecordIs DEF MemState
  <2> QED  BY <2>1, <2>2, LineNat DEF ToolTypeOK, MemState, MemorySound, DiskSound
<1>2. MemorySound'
  BY <1>1, Typed, LineNat, RecordIs, NoMemTyped DEF MemorySound, MemState, Tonight, DiskSound
<1>3. DiskSound'
  BY <1>1, Typed, LineNat, NoMemTyped DEF MemorySound, DiskSound, MemState
<1>4. WorkingKept'
  BY <1>1, Typed, NoMemTyped, RecordIs DEF MemorySound, WorkingKept, MemState, Tonight
<1>5. ReplacedKept'
  BY <1>1, Typed, LineNat, NoMemTyped, RecordIs DEF MemorySound, DiskSound, ReplacedKept, MemState, Tonight,
     Kept, From
<1> QED  BY <1>1, <1>2, <1>3, <1>4, <1>5

LEMMA PointerSwitchStep == ASSUME ToolInv, PointerSwitch PROVE ToolInv'
<1> USE DEF PointerSwitch
<1>1. ToolTypeOK'
  <2>1. mem' \in MemState
    BY Typed, RecordIs, NoMemTyped DEF MemState
  <2>2. book' \subseteq SavedRecord
    BY <2>1, Typed, RecordIs DEF MemState
  <2> QED  BY <2>1, <2>2, LineNat DEF ToolTypeOK, MemState, MemorySound, DiskSound
<1>2. MemorySound'
  BY <1>1, Typed, LineNat, RecordIs, NoMemTyped DEF MemorySound, MemState, Tonight, DiskSound
<1>3. DiskSound'
  BY <1>1, Typed, LineNat, NoMemTyped DEF MemorySound, DiskSound, MemState
<1>4. WorkingKept'
  BY <1>1, Typed, NoMemTyped, RecordIs DEF MemorySound, WorkingKept, MemState, Tonight
<1>5. ReplacedKept'
  BY <1>1, Typed, LineNat, NoMemTyped, RecordIs DEF MemorySound, DiskSound, ReplacedKept, MemState, Tonight,
     Kept, From
<1> QED  BY <1>1, <1>2, <1>3, <1>4, <1>5

LEMMA TreeExchangeStep == ASSUME ToolInv, TreeExchange PROVE ToolInv'
<1> USE DEF TreeExchange
<1>1. ToolTypeOK'
  <2>1. mem' \in MemState
    BY Typed, RecordIs, NoMemTyped DEF MemState
  <2>2. book' \subseteq SavedRecord
    BY <2>1, Typed, RecordIs DEF MemState
  <2> QED  BY <2>1, <2>2, LineNat DEF ToolTypeOK, MemState, MemorySound, DiskSound
<1>2. MemorySound'
  BY <1>1, Typed, LineNat, RecordIs, NoMemTyped DEF MemorySound, MemState, Tonight, DiskSound
<1>3. DiskSound'
  <2>1. mem.target \in ToolVersion /\ staged \in [ToolVersion -> {NoVersion} \cup Line]
    BY Typed, LineNat DEF MemorySound, ToolTypeOK
  <2>2. active = mem.cur /\ staged[mem.target] = mem.target
    BY DEF MemorySound, DiskSound
  <2> QED  BY <2>1, <2>2 DEF DiskSound
<1>4. WorkingKept'
  BY <1>1, Typed, NoMemTyped, RecordIs DEF MemorySound, WorkingKept, MemState, Tonight
<1>5. ReplacedKept'
  BY <1>1, Typed, LineNat, NoMemTyped, RecordIs DEF MemorySound, DiskSound, ReplacedKept, MemState, Tonight,
     Kept, From
<1> QED  BY <1>1, <1>2, <1>3, <1>4, <1>5

LEMMA TreeKeepStep == ASSUME ToolInv, TreeKeep PROVE ToolInv'
<1> USE DEF TreeKeep, TreeDiscard
<1>1. ToolTypeOK'
  <2>1. mem' \in MemState
    BY Typed, RecordIs, NoMemTyped DEF MemState
  <2>2. book' \subseteq SavedRecord
    BY <2>1, Typed, RecordIs DEF MemState
  <2> QED  BY <2>1, <2>2, LineNat DEF ToolTypeOK, MemState, MemorySound, DiskSound
<1>2. MemorySound'
  BY <1>1, Typed, LineNat, RecordIs, NoMemTyped DEF MemorySound, MemState, Tonight, DiskSound
<1>3. DiskSound'
  BY <1>1, Typed, LineNat, NoMemTyped DEF MemorySound, DiskSound, MemState
<1>4. WorkingKept'
  BY <1>1, Typed, NoMemTyped, RecordIs DEF MemorySound, WorkingKept, MemState, Tonight
<1>5. ReplacedKept'
  BY <1>1, Typed, LineNat, NoMemTyped, RecordIs DEF MemorySound, DiskSound, ReplacedKept, MemState, Tonight,
     Kept, From
<1> QED  BY <1>1, <1>2, <1>3, <1>4, <1>5

LEMMA VerifyActiveStep == ASSUME ToolInv, VerifyActive PROVE ToolInv'
<1> USE DEF VerifyActive
<1>1. ToolTypeOK'
  <2>1. mem' \in MemState
    BY SettledIs, Typed, RecordIs, NoMemTyped DEF MemState
  <2>2. book' \subseteq SavedRecord
    BY SettledIs, <2>1, Typed, RecordIs DEF MemState
  <2> QED  BY <2>1, <2>2, LineNat DEF ToolTypeOK, MemState, MemorySound, DiskSound
<1>2. MemorySound'
  BY SettledIs, <1>1, Typed, LineNat, RecordIs, NoMemTyped DEF MemorySound, MemState, Tonight, DiskSound
<1>3. DiskSound'
  BY SettledIs, <1>1, Typed, LineNat, NoMemTyped DEF MemorySound, DiskSound, MemState
<1>4. WorkingKept'
  BY SettledIs, <1>1, Typed, NoMemTyped, RecordIs DEF MemorySound, WorkingKept, MemState, Tonight
<1>5. ReplacedKept'
  <2> SUFFICES ASSUME ~torn', ~meddled2' PROVE ReplacedKept'
    BY DEF ReplacedKept
  <2>1. ~torn /\ ~meddled2
    BY DEF ToolTypeOK
  <2>2. /\ \A r \in book \cup mem.book : r.state = "replaced" =>
             r.version < From /\ (evening - r.at < Retention => Kept(r))
        /\ \A r, q \in book \cup mem.book :
             r.state = "replaced" /\ q.state = "replaced" /\ r.version = q.version => r = q
        /\ tool \notin Switching => \A r \in book : r.state = "pending" => r.installed # active
    BY <2>1 DEF ReplacedKept
  <2>3. /\ mem.book = book /\ From = mem.cur /\ mem.cur < mem.target /\ mem.cur \in Nat /\ mem.target \in Nat
        /\ active \in {mem.cur, mem.target}
        /\ \A r \in book : r.state = "pending" => r = Tonight
    BY Typed, LineNat DEF MemorySound, From
  <2>4. \A r : Kept(r)' <=> Kept(r)
    BY DEF Kept
  <2>0. \A r \in book : r.version \in Nat
    BY Typed, LineNat
  <2>5. CASE tool' = "undo" /\ UNCHANGED <<mem, book, told>>
    BY <2>2, <2>4, <2>5 DEF ReplacedKept, From
  <2>6. CASE active = mem.target /\ Settle("replaced") /\ tool' = "prune"
    <3> DEFINE done == Record2(mem.cur, mem.target, evening, "replaced")
    <3>1. book' = (book \ {Tonight}) \cup {done} /\ mem'.book = book'
      BY <2>6, SettledIs
    <3>2. done.version = mem.cur /\ done.at = evening /\ done.state = "replaced"
      BY RecordIs
    <3>3. From' = mem.target /\ evening' = evening
      BY <2>6 DEF From
    <3>4. Kept(done)
      BY <3>2 DEF DiskSound, Kept, ToolTypeOK
    <3> HIDE DEF done
    <3>5. \A r \in book' \cup mem'.book : r = done \/ (r \in book /\ r # Tonight)
      BY <3>1
    <3>6. \A r \in book : r.state = "replaced" => r.version < mem.cur /\ r.version < mem.target /\ r.version # mem.cur
      <4>1. \A r \in book : r.state = "replaced" => r.version < mem.cur
        BY <2>2, <2>3
      <4>2. \A v \in Nat : v < mem.cur => v < mem.target /\ v # mem.cur
        BY <2>3
      <4> QED  BY <2>0, <4>1, <4>2
    <3>7. \A r \in book' \cup mem'.book : r.state = "replaced" =>
             r.version < From' /\ (evening' - r.at < Retention => Kept(r)')
      BY <2>2, <2>3, <2>4, <3>2, <3>3, <3>4, <3>5, <3>6
    <3>8. \A r, q \in book' \cup mem'.book :
             r.state = "replaced" /\ q.state = "replaced" /\ r.version = q.version => r = q
      BY <2>2, <3>2, <3>5, <3>6
    <3>9. \A r \in book' : r.state # "pending"
      BY <2>3, <3>2, <3>5
    <3> QED  BY <3>7, <3>8, <3>9 DEF ReplacedKept
  <2> QED  BY <2>5, <2>6
<1> QED  BY <1>1, <1>2, <1>3, <1>4, <1>5

LEMMA PointerUnswitchStep == ASSUME ToolInv, PointerUnswitch PROVE ToolInv'
<1> USE DEF PointerUnswitch
<1>1. ToolTypeOK'
  <2>1. mem' \in MemState
    BY Typed, RecordIs, NoMemTyped DEF MemState
  <2>2. book' \subseteq SavedRecord
    BY <2>1, Typed, RecordIs DEF MemState
  <2> QED  BY <2>1, <2>2, LineNat DEF ToolTypeOK, MemState, MemorySound, DiskSound
<1>2. MemorySound'
  BY <1>1, Typed, LineNat, RecordIs, NoMemTyped DEF MemorySound, MemState, Tonight, DiskSound
<1>3. DiskSound'
  BY <1>1, Typed, LineNat, NoMemTyped DEF MemorySound, DiskSound, MemState
<1>4. WorkingKept'
  BY <1>1, Typed, NoMemTyped, RecordIs DEF MemorySound, WorkingKept, MemState, Tonight
<1>5. ReplacedKept'
  BY <1>1, Typed, LineNat, NoMemTyped, RecordIs DEF MemorySound, DiskSound, ReplacedKept, MemState, Tonight,
     Kept, From
<1> QED  BY <1>1, <1>2, <1>3, <1>4, <1>5

LEMMA TreeUnswitchStep == ASSUME ToolInv, TreeUnswitch PROVE ToolInv'
<1> USE DEF TreeUnswitch
<1>1. ToolTypeOK'
  <2>1. mem' \in MemState
    BY Typed, RecordIs, NoMemTyped DEF MemState
  <2>2. book' \subseteq SavedRecord
    BY <2>1, Typed, RecordIs DEF MemState
  <2> QED  BY <2>1, <2>2, LineNat DEF ToolTypeOK, MemState, MemorySound, DiskSound
<1>2. MemorySound'
  BY <1>1, Typed, LineNat, RecordIs, NoMemTyped DEF MemorySound, MemState, Tonight, DiskSound
<1>3. DiskSound'
  BY <1>1, Typed, LineNat, NoMemTyped DEF MemorySound, DiskSound, MemState
<1>4. WorkingKept'
  BY <1>1, Typed, NoMemTyped, RecordIs DEF MemorySound, WorkingKept, MemState, Tonight
<1>5. ReplacedKept'
  BY <1>1, Typed, LineNat, NoMemTyped, RecordIs DEF MemorySound, DiskSound, ReplacedKept, MemState, Tonight,
     Kept, From
<1> QED  BY <1>1, <1>2, <1>3, <1>4, <1>5

LEMMA RevertedStep == ASSUME ToolInv, Reverted PROVE ToolInv'
<1> USE DEF Reverted, Discard, PointerDiscard, TreeDiscard
<1>1. ToolTypeOK'
  <2>1. mem' \in MemState
    BY Typed, RecordIs, NoMemTyped DEF MemState
  <2>2. book' \subseteq SavedRecord
    BY <2>1, Typed, RecordIs DEF MemState
  <2> QED  BY <2>1, <2>2, LineNat DEF ToolTypeOK, MemState, MemorySound, DiskSound
<1>2. MemorySound'
  BY <1>1, Typed, LineNat, RecordIs, NoMemTyped DEF MemorySound, MemState, Tonight, DiskSound
<1>3. DiskSound'
  BY <1>1, Typed, LineNat, NoMemTyped DEF MemorySound, DiskSound, MemState
<1>4. WorkingKept'
  BY <1>1, Typed, NoMemTyped, RecordIs DEF MemorySound, WorkingKept, MemState, Tonight
<1>5. ReplacedKept'
  BY <1>1, Typed, LineNat, NoMemTyped, RecordIs DEF MemorySound, DiskSound, ReplacedKept, MemState, Tonight,
     Kept, From
<1> QED  BY <1>1, <1>2, <1>3, <1>4, <1>5

LEMMA RollbackUnverifiedStep == ASSUME ToolInv, RollbackUnverified PROVE ToolInv'
<1> USE DEF RollbackUnverified
<1>1. ToolTypeOK'
  <2>1. mem' \in MemState
    BY SettledIs, Typed, RecordIs, NoMemTyped DEF MemState
  <2>2. book' \subseteq SavedRecord
    BY SettledIs, <2>1, Typed, RecordIs DEF MemState
  <2> QED  BY <2>1, <2>2, LineNat DEF ToolTypeOK, MemState, MemorySound, DiskSound
<1>2. MemorySound'
  BY SettledIs, <1>1, Typed, LineNat, RecordIs, NoMemTyped DEF MemorySound, MemState, Tonight, DiskSound
<1>3. DiskSound'
  BY SettledIs, <1>1, Typed, LineNat, NoMemTyped DEF MemorySound, DiskSound, MemState
<1>4. WorkingKept'
  BY SettledIs, <1>1, Typed, NoMemTyped, RecordIs DEF MemorySound, WorkingKept, MemState, Tonight
<1>5. ReplacedKept'
  <2> SUFFICES ASSUME ~torn', ~meddled2' PROVE ReplacedKept'
    BY DEF ReplacedKept
  <2>1. ~torn /\ ~meddled2
    BY DEF ToolTypeOK
  <2>2. /\ \A r \in book \cup mem.book : r.state = "replaced" =>
             r.version < From /\ (evening - r.at < Retention => Kept(r))
        /\ \A r, q \in book \cup mem.book :
             r.state = "replaced" /\ q.state = "replaced" /\ r.version = q.version => r = q
        /\ tool \notin Switching => \A r \in book : r.state = "pending" => r.installed # active
    BY <2>1 DEF ReplacedKept
  <2>3. /\ mem.book = book /\ From = mem.cur /\ mem.cur < mem.target /\ mem.cur \in Nat /\ mem.target \in Nat
        /\ active \in {mem.cur, mem.target}
        /\ \A r \in book : r.state = "pending" => r = Tonight
    BY Typed, LineNat DEF MemorySound, From
  <2>4. \A r : Kept(r)' <=> Kept(r)
    BY DEF Kept
  <2>0. \A r \in book : r.version \in Nat
    BY Typed, LineNat
  <2> DEFINE done == Record2(mem.cur, mem.target, evening, "rollback_unverified")
  <2>5. book' = (book \ {Tonight}) \cup {done} /\ mem'.book = book'
    BY SettledIs
  <2>6. done.version = mem.cur /\ done.at = evening /\ done.state = "rollback_unverified"
    BY RecordIs
  <2>7. From' = active /\ evening' = evening
    BY DEF From
  <2> HIDE DEF done
  <2>8. \A r \in book' \cup mem'.book : r = done \/ (r \in book /\ r # Tonight)
    BY <2>5
  <2>9. \A r \in book : r.state = "replaced" => r.version < active
    <3>1. \A r \in book : r.state = "replaced" => r.version < mem.cur
      BY <2>2, <2>3
    <3>2. \A v \in Nat : v < mem.cur => v < active
      BY <2>3
    <3> QED  BY <2>0, <3>1, <3>2
  <2>10. \A r \in book' : r.state # "pending"
    BY <2>3, <2>6, <2>8
  <2>11. \A r \in book' \cup mem'.book : r.state = "replaced" => r \in book
    BY <2>6, <2>8
  <2> QED  BY <2>2, <2>4, <2>7, <2>9, <2>10, <2>11 DEF ReplacedKept
<1> QED  BY <1>1, <1>2, <1>3, <1>4, <1>5

LEMMA PruneStep == ASSUME ToolInv, Prune PROVE ToolInv'
<1> USE DEF Prune, DueRecord, Removable
<1>1. ToolTypeOK'
  <2>1. mem' \in MemState
    BY Typed, RecordIs, NoMemTyped DEF MemState
  <2>2. book' \subseteq SavedRecord
    BY <2>1, Typed, RecordIs DEF MemState
  <2> QED  BY <2>1, <2>2, LineNat DEF ToolTypeOK, MemState, MemorySound, DiskSound
<1>2. MemorySound'
  BY <1>1, Typed, LineNat, RecordIs, NoMemTyped DEF MemorySound, MemState, Tonight, DiskSound
<1>3. DiskSound'
  BY <1>1, Typed, LineNat, NoMemTyped DEF MemorySound, DiskSound, MemState
<1>4. WorkingKept'
  BY <1>1, Typed, NoMemTyped, RecordIs DEF MemorySound, WorkingKept, MemState, Tonight
<1>5. ReplacedKept'
  <2> SUFFICES ASSUME ~torn', ~meddled2' PROVE ReplacedKept'
    BY DEF ReplacedKept
  <2>1. ~torn /\ ~meddled2
    BY DEF ToolTypeOK
  <2>2. /\ \A r \in book \cup mem.book : r.state = "replaced" =>
             r.version < From /\ (evening - r.at < Retention => Kept(r))
        /\ \A r, q \in book \cup mem.book :
             r.state = "replaced" /\ q.state = "replaced" /\ r.version = q.version => r = q
        /\ tool \notin Switching => \A r \in book : r.state = "pending" => r.installed # active
    BY <2>1 DEF ReplacedKept
  <2>3. From' = From /\ book' = book /\ active' = active /\ evening' = evening /\ \A r \in mem'.book : r \in mem.book
    BY Typed DEF From, MemState
  <2>4. \A r \in book \cup mem.book : r.state = "replaced" /\ evening - r.at < Retention /\ Kept(r) => Kept(r)'
    <3>1. CASE UNCHANGED <<have, aside, mem>>
      BY <3>1 DEF Kept
    <3>2. ASSUME NEW gone \in SUBSET {r \in mem.book : DueRecord(r) /\ Removable(r)},
                 IF driver = "pointer"
                  THEN have' = have \ {r.version : r \in gone} /\ UNCHANGED aside
                  ELSE aside' = aside \ {[version |-> r.version, at |-> r.at] : r \in gone} /\ UNCHANGED have,
                 NEW r \in book \cup mem.book, r.state = "replaced", evening - r.at < Retention, Kept(r)
          PROVE  Kept(r)'
      <4>1. \A g \in gone : g \in mem.book /\ g.state = "replaced" /\ evening - g.at >= Retention /\ g.at \in Nat
        BY <3>2, Typed
      <4>2. r.at \in Nat /\ r \notin gone
        BY <3>2, <4>1, Typed, ToolAssumption
      <4>3. \A g \in gone : g.version # r.version
        BY <2>2, <3>2, <4>1, <4>2
      <4>4. \A g \in gone : [version |-> g.version, at |-> g.at] # [version |-> r.version, at |-> r.at]
        BY <4>3
      <4> QED  BY <3>2, <4>3, <4>4 DEF Kept
    <3> QED  BY <3>1, <3>2
  <2>5. tool \notin Switching /\ tool' \notin Switching
    OBVIOUS
  <2> HIDE DEF Prune
  <2> QED  BY <2>2, <2>3, <2>4, <2>5 DEF ReplacedKept
<1> QED  BY <1>1, <1>2, <1>3, <1>4, <1>5

LEMMA EndToolchainStep == ASSUME ToolInv, EndToolchain PROVE ToolInv'
<1> USE DEF EndToolchain, NoMem
<1>1. ToolTypeOK'
  <2>1. mem' \in MemState
    BY Typed, RecordIs, NoMemTyped DEF MemState
  <2>2. book' \subseteq SavedRecord
    BY <2>1, Typed, RecordIs DEF MemState
  <2> QED  BY <2>1, <2>2, LineNat DEF ToolTypeOK, MemState, MemorySound, DiskSound
<1>2. MemorySound'
  BY <1>1, Typed, LineNat, RecordIs, NoMemTyped DEF MemorySound, MemState, Tonight, DiskSound
<1>3. DiskSound'
  BY <1>1, Typed, LineNat, NoMemTyped DEF MemorySound, DiskSound, MemState
<1>4. WorkingKept'
  BY <1>1, Typed, NoMemTyped, RecordIs DEF MemorySound, WorkingKept, MemState, Tonight
<1>5. ReplacedKept'
  BY <1>1, Typed, LineNat, NoMemTyped, RecordIs DEF MemorySound, DiskSound, ReplacedKept, MemState, Tonight,
     Kept, From
<1> QED  BY <1>1, <1>2, <1>3, <1>4, <1>5

LEMMA ToolchainKilledStep == ASSUME ToolInv, ToolchainKilled PROVE ToolInv'
<1> USE DEF ToolchainKilled, NoMem
<1>1. ToolTypeOK'
  <2>1. mem' \in MemState
    BY Typed, RecordIs, NoMemTyped DEF MemState
  <2>2. book' \subseteq SavedRecord
    BY <2>1, Typed, RecordIs DEF MemState
  <2> QED  BY <2>1, <2>2, LineNat DEF ToolTypeOK, MemState, MemorySound, DiskSound
<1>2. MemorySound'
  BY <1>1, Typed, LineNat, RecordIs, NoMemTyped DEF MemorySound, MemState, Tonight, DiskSound
<1>3. DiskSound'
  BY <1>1, Typed, LineNat, NoMemTyped DEF MemorySound, DiskSound, MemState
<1>4. WorkingKept'
  BY <1>1, Typed, NoMemTyped, RecordIs DEF MemorySound, WorkingKept, MemState, Tonight
<1>5. ReplacedKept'
  <2> SUFFICES ASSUME ~torn', ~meddled2' PROVE ReplacedKept'
    BY DEF ReplacedKept
  <2>1. ~torn /\ ~meddled2
    BY DEF ToolTypeOK
  <2>2. /\ \A r \in book \cup mem.book : r.state = "replaced" =>
             r.version < From /\ (evening - r.at < Retention => Kept(r))
        /\ \A r, q \in book \cup mem.book :
             r.state = "replaced" /\ q.state = "replaced" /\ r.version = q.version => r = q
        /\ tool \notin Switching => \A r \in book : r.state = "pending" => r.installed # active
    BY <2>1 DEF ReplacedKept
  <2>3. tool = "switch" \/ tool \notin Switching
    BY DEF ToolTypeOK
  <2>4. From' = From /\ mem'.book = {} /\ book' = book /\ active' = active /\ evening' = evening
    BY <2>3, NoMemTyped DEF From, MemorySound
  <2>5. \A r \in book : r.state = "pending" => r.installed # active
    <3>1. CASE tool = "switch"
      <4>1. \A r \in book : r.state = "pending" => r = Tonight
        BY <3>1 DEF MemorySound
      <4>2. Tonight.installed = mem.target /\ active = mem.cur /\ mem.cur < mem.target /\ mem.cur \in Nat
        <5>1. Tonight.installed = mem.target
          BY RecordIs DEF Tonight
        <5> QED  BY <3>1, <5>1, Typed, LineNat DEF MemorySound
      <4> QED  BY <4>1, <4>2
    <3> QED  BY <2>2, <2>3, <3>1
  <2>6. \A r : Kept(r)' <=> Kept(r)
    BY DEF Kept
  <2> QED  BY <2>2, <2>4, <2>5, <2>6 DEF ReplacedKept
<1> QED  BY <1>1, <1>2, <1>3, <1>4, <1>5

(* A release comes out, and the operator takes an update back. *)
LEMMA PublishReleaseStep == ASSUME ToolInv, NEW v \in ToolVersion, PublishRelease(v) PROVE ToolInv'
<1> USE DEF PublishRelease
<1>1. ToolTypeOK'
  BY DEF ToolTypeOK
<1>2. MemorySound' /\ DiskSound' /\ WorkingKept'
  BY DEF MemorySound, DiskSound, WorkingKept, Tonight
<1>3. ReplacedKept'
  BY DEF ReplacedKept, Kept, From
<1> QED  BY <1>1, <1>2, <1>3

LEMMA UndoVersionStep == ASSUME ToolInv, NEW r \in book, Undo(r) PROVE ToolInv'
<1> USE DEF Undo
<1>1. active' = r.version /\ active' \in Line /\ r \in SavedRecord
  BY Typed
<1>2. ToolTypeOK'
  BY <1>1 DEF ToolTypeOK
<1>3. MemorySound'
  BY DEF MemorySound, Tonight
<1>4. DiskSound'
  BY <1>1 DEF DiskSound
<1>5. WorkingKept' /\ ReplacedKept'
  BY <1>1 DEF WorkingKept, ReplacedKept
<1> QED  BY <1>2, <1>3, <1>4, <1>5

(* Every step keeps the invariant. *)
LEMMA ToolPreserved == ToolInv /\ (ToolNext \/ UNCHANGED toolVars) => ToolInv'
<1>1. ASSUME ToolInv, ToolNext PROVE ToolInv'
  BY <1>1, StartToolchainStep, SelectReleaseStep, PointerStageStep, TreeStageStep, SmokeStagedStep,
     PointerSwitchStep, TreeExchangeStep, TreeKeepStep, VerifyActiveStep, PointerUnswitchStep, TreeUnswitchStep,
     RevertedStep, RollbackUnverifiedStep, PruneStep, EndToolchainStep, ToolchainKilledStep, PublishReleaseStep,
     UndoVersionStep DEF ToolNext
<1>2. ASSUME ToolInv, UNCHANGED toolVars PROVE ToolInv'
  BY <1>2 DEF toolVars, ToolTypeOK, MemorySound, DiskSound, WorkingKept, ReplacedKept, Tonight, Kept, From
<1> QED  BY <1>1, <1>2

(* What the invariant says of the versions on disk. *)
LEMMA ToolsKept == ToolInv => ToolsWork /\ UndoAtHand
<1> SUFFICES ASSUME ToolInv PROVE ToolsWork /\ UndoAtHand
    OBVIOUS
<1>1. ToolsWork
  BY LineNat, Typed DEF ToolsWork, WorkingKept, DiskSound
<1>2. UndoAtHand
  BY DEF UndoAtHand, ReplacedKept, Kept
<1> QED  BY <1>1, <1>2

(* toolchains.py: the version that works, and the one it replaced, stay on disk, whatever is killed. *)
THEOREM ToolInvariance == ToolSpec => []ToolInv
  BY ToolInitially, ToolPreserved, PTL DEF ToolSpec

HIDE DEF ToolInv, World2, Disk, Ghosts, Switching

-----------------------------------------------------------------------------
(* The transactions side by side.                                              *)

(* Each transaction moves as its own specification says, or stands still. *)
LEMMA PartsStep ==
  ASSUME [MaintenanceNext]_mcVars
  PROVE  /\ [OwuiNext]_owuiVars /\ [PinNext]_pinVars /\ [DeployNext]_deployVars /\ [ApplyNext]_applyVars
         /\ [RigNext]_rigVars /\ [OmpNext]_ompVars /\ [ToolNext]_toolVars
  BY DEF MaintenanceNext, mcVars

(* Side by side each transaction of P1 behaves as its own specification says. *)
THEOREM TransactionsApart ==
  MaintenanceSpec => OwuiSpec /\ PinSpec /\ DeploySpec /\ ApplySpec /\ RigSpec /\ OmpSpec /\ ToolSpec
<1>1. MaintenanceInit => OwuiInit /\ PinInit /\ DeployInit /\ ApplyInit /\ RigInit /\ OmpInit /\ ToolInit
  BY DEF MaintenanceInit
<1>2. [MaintenanceNext]_mcVars =>
         /\ [OwuiNext]_owuiVars /\ [PinNext]_pinVars /\ [DeployNext]_deployVars /\ [ApplyNext]_applyVars
         /\ [RigNext]_rigVars /\ [OmpNext]_ompVars /\ [ToolNext]_toolVars
  BY PartsStep
<1> QED  BY <1>1, <1>2, PTL DEF MaintenanceSpec, OwuiSpec, PinSpec, DeploySpec, ApplySpec, RigSpec, OmpSpec, ToolSpec

(* The inductive invariants of all of them at once. *)
LEMMA AllInvariant ==
  MaintenanceSpec => [](OwuiIInv /\ PinInv /\ DeployInv /\ ApplyInv /\ RigInv /\ OmpInv /\ ToolInv)
  BY TransactionsApart, OwuiInvariance, PinInvariance, DeployInvariance, ApplyInvariance, RigInvariance,
     OmpInvariance,
     ToolInvariance, PTL

(* What every transaction keeps has its type, and agrees with the host between any two steps, for    *)
(* every value of the constants.                                                                      *)
THEOREM MaintenanceTyped == MaintenanceSpec => []TypesOK
<1>1. OwuiIInv /\ PinInv /\ DeployInv /\ ApplyInv /\ RigInv /\ OmpInv /\ ToolInv => TypesOK
  BY DEF TypesOK, OwuiIInv, PinInv, DeployInv, ApplyInv, RigInv, OmpInv, ToolInv
<1> QED  BY <1>1, AllInvariant, PTL

(* What an update leaves behind was fit to run, with nothing lost on the way.                         *)
THEOREM UpdatesFinish == MaintenanceSpec => []UpdatesFinished
<1>1. OwuiIInv /\ PinInv /\ DeployInv /\ ToolInv => UpdatesFinished
  BY ToolsKept DEF UpdatesFinished, OwuiIInv, PinInv, DeployInv
<1> QED  BY <1>1, AllInvariant, PTL

(* The packets of P1 and its artifact say what became of the host.                                    *)
THEOREM ReportsHold == MaintenanceSpec => []ReportsTrue
<1>1. ApplyInv => AppliedRecorded /\ VerdictTrue
  BY AppliedHolds DEF ApplyInv
<1>2. DeployInv /\ ApplyInv /\ RigInv /\ OmpInv => ReportsTrue
  BY <1>1 DEF ReportsTrue, DeployInv, RigInv, OmpInv
<1> QED  BY <1>2, AllInvariant, PTL

(* What is pruned of the build cache is exactly the chains that are stale as a whole, children first, *)
(* whatever the cache.                                                                                *)
THEOREM CacheIsPruned == MaintenanceSpec => []CachePruned
<1> DEFINE Inv == cache.parent \in Forest /\ cache.stale \in SUBSET Record
<1>0. Flat \in Forest
  BY ApplyAssumption DEF Flat, Forest, Record
<1>1. MaintenanceInit => Inv
  BY <1>0 DEF MaintenanceInit
<1>2. Inv /\ [MaintenanceNext]_mcVars => Inv'
  BY DEF MaintenanceNext, mcVars
<1>3. Inv => CachePruned
  BY WholeChainsPruned DEF CachePruned
<1> QED  BY <1>1, <1>2, <1>3, PTL DEF MaintenanceSpec

(* No step of a transaction breaks what the next one relies on: data under a running container,      *)
(* production's line, images in use, the rig's GPU, the rows of omp's database.                       *)
THEOREM NothingBreaks == MaintenanceSpec => NoStepBreaks
  BY TransactionsApart, DataStill, ForwardOnly, ImagesAreKept, RebootsAreSafe, RepairsAreLossless, PTL DEF
     NoStepBreaks
=============================================================================
