----------------------------- MODULE LearningProofs -----------------------------
(* What is learned from a user.                                                 *)
(* Cortex: the properties of the store of learned instructions, for every set of *)
(* texts, every size and every threshold.                                       *)
(* Persona, for every vocabulary, configuration, draft, text that is well        *)
(* received, sample and answer: what passes the filter is fit to be sent, no     *)
(* phrase has a twin or is lost to a weaker one, the examples of a persona       *)
(* belong to it, and its scores and warnings agree.                             *)
EXTENDS Cortex, Persona, SequenceLemmas, FiniteSetTheorems

--------------------------------------------------------------------------------
(* Cortex                                                                  *)

\* No two of the instructions resemble each other.
Distinct(store) ==
  \A i, j \in DOMAIN store : i # j => ~ Duplicate(store[i].words, store[j].words)

\* The counts of what came in, against those of what is there.
Accounted(store, came) ==
  Total(store) <= came /\ (Len(store) < MaxSize => Total(store) = came)

--------------------------------------------------------------------------------
(* Resemblance and strength                                                *)

\* Resemblance does not depend on the order.
LEMMA DuplicateSymmetric ==
  ASSUME NEW a \in Texts, NEW b \in Texts, Duplicate(a, b)
  PROVE  Duplicate(b, a)
<1>1. Cardinality(a) \in Nat /\ Cardinality(b) \in Nat
  BY ConstantsAssumption, FS_CardinalityType
<1>2. Larger(a, b) = Larger(b, a) /\ a \cap b = b \cap a
  BY <1>1 DEF Larger
<1> QED BY <1>2 DEF Duplicate

\* Strength is a strict order in which two are equally strong or one is stronger.
LEMMA StrongerOrder ==
  ASSUME NEW a \in Instruction, NEW b \in Instruction, NEW c \in Instruction
  PROVE  /\ ~ Stronger(a, a)
         /\ Stronger(a, b) => ~ Stronger(b, a)
         /\ Stronger(a, b) /\ Stronger(b, c) => Stronger(a, c)
         /\ ~ Stronger(a, b) /\ ~ Stronger(b, c) => ~ Stronger(a, c)
<1>1. /\ a.source_count \in Nat /\ a.added \in Nat /\ b.source_count \in Nat /\ b.added \in Nat
      /\ c.source_count \in Nat /\ c.added \in Nat
  BY DEF Instruction
<1> QED BY <1>1 DEF Stronger

--------------------------------------------------------------------------------
(* The stable sort                                                         *)

\* One of two instructions precedes the other, and what precedes it precedes that.
LEMMA PrecedesOrder ==
  ASSUME NEW store \in Seq(Instruction), NEW i \in DOMAIN store, NEW j \in DOMAIN store,
         NEW k \in DOMAIN store
  PROVE  /\ ~ Precedes(store, i, i)
         /\ i # j => Precedes(store, i, j) \/ Precedes(store, j, i)
         /\ Precedes(store, i, j) => ~ Precedes(store, j, i)
         /\ Precedes(store, i, j) /\ Precedes(store, j, k) => Precedes(store, i, k)
<1>1. store[i] \in Instruction /\ store[j] \in Instruction /\ store[k] \in Instruction
  BY ElementOfSeq
<1>2. i \in Nat /\ j \in Nat /\ k \in Nat
  BY LenProperties
<1>3. /\ ~ Stronger(store[i], store[i])
      /\ Stronger(store[i], store[j]) => ~ Stronger(store[j], store[i])
  BY <1>1, StrongerOrder
<1>4. /\ Stronger(store[i], store[j]) /\ Stronger(store[j], store[k]) => Stronger(store[i], store[k])
      /\ ~ Stronger(store[k], store[j]) /\ ~ Stronger(store[j], store[i]) => ~ Stronger(store[k], store[i])
  BY <1>1, StrongerOrder
<1>5. /\ Stronger(store[i], store[j]) /\ ~ Stronger(store[k], store[j]) => Stronger(store[i], store[k])
      /\ ~ Stronger(store[j], store[i]) /\ Stronger(store[j], store[k]) => Stronger(store[i], store[k])
  <2>1. ~ Stronger(store[i], store[k]) /\ ~ Stronger(store[k], store[j]) => ~ Stronger(store[i], store[j])
    BY <1>1, StrongerOrder
  <2>2. ~ Stronger(store[j], store[i]) /\ ~ Stronger(store[i], store[k]) => ~ Stronger(store[j], store[k])
    BY <1>1, StrongerOrder
  <2> QED BY <2>1, <2>2
<1>6. /\ ~ (i < i) /\ (i # j => i < j \/ j < i) /\ (i < j => ~ (j < i))
      /\ (i < j /\ j < k => i < k)
  BY <1>2
<1> QED BY <1>3, <1>4, <1>5, <1>6 DEF Precedes

\* The place of an instruction is one of the store's, and no two share one.
LEMMA PlacesDiffer ==
  ASSUME NEW store \in Seq(Instruction), NEW i \in DOMAIN store
  PROVE  /\ Place(store, i) \in DOMAIN store
         /\ \A j \in DOMAIN store : Precedes(store, i, j) => Place(store, i) < Place(store, j)
<1> DEFINE Ahead(k) == {j \in DOMAIN store : Precedes(store, j, k)}
<1>1. /\ DOMAIN store = 1..Len(store) /\ Len(store) \in Nat
      /\ IsFiniteSet(DOMAIN store) /\ Cardinality(DOMAIN store) = Len(store)
  <2>1. Len(store) \in Nat /\ DOMAIN store = 1..Len(store)
    BY LenProperties
  <2>2. IsFiniteSet(1..Len(store)) /\ Cardinality(1..Len(store)) = Len(store)
    <3>1. PICK n \in Nat : n = Len(store)
      BY <2>1
    <3>2. IsFiniteSet(1..n) /\ Cardinality(1..n) = IF 1 > n THEN 0 ELSE n - 1 + 1
      BY FS_Interval
    <3>3. (IF 1 > n THEN 0 ELSE n - 1 + 1) = n
      OBVIOUS
    <3> QED BY <3>1, <3>2, <3>3
  <2> QED BY <2>1, <2>2
<1>2. \A k \in DOMAIN store : IsFiniteSet(Ahead(k)) /\ Cardinality(Ahead(k)) \in Nat
  BY <1>1, FS_Subset, FS_CardinalityType
<1>3. i \notin Ahead(i) /\ Ahead(i) \in SUBSET DOMAIN store
  BY PrecedesOrder
<1>4. Cardinality(Ahead(i)) < Len(store)
  <2>1. Ahead(i) # DOMAIN store
    BY <1>3
  <2>2. /\ Cardinality(Ahead(i)) <= Cardinality(DOMAIN store)
        /\ Cardinality(DOMAIN store) = Cardinality(Ahead(i)) => DOMAIN store = Ahead(i)
    BY <1>1, <1>3, FS_Subset
  <2> HIDE DEF Ahead
  <2> QED BY <1>1, <1>2, <2>1, <2>2
<1>5. ASSUME NEW j \in DOMAIN store, Precedes(store, i, j)
      PROVE  Cardinality(Ahead(i)) < Cardinality(Ahead(j))
  <2>1. Ahead(i) \in SUBSET Ahead(j)
    BY <1>5, PrecedesOrder
  <2>2. i \in Ahead(j)
    BY <1>5
  <2>3. /\ Cardinality(Ahead(i)) <= Cardinality(Ahead(j))
        /\ Cardinality(Ahead(j)) = Cardinality(Ahead(i)) => Ahead(j) = Ahead(i)
    <3> HIDE DEF Ahead
    <3> QED BY <1>2, <2>1, FS_Subset
  <2> HIDE DEF Ahead
  <2> QED BY <1>2, <1>3, <2>2, <2>3
<1>6. \A k \in DOMAIN store : Place(store, k) = 1 + Cardinality(Ahead(k))
  BY DEF Place
<1> HIDE DEF Ahead
<1>7. Place(store, i) \in DOMAIN store
  BY <1>1, <1>2, <1>4, <1>6
<1>8. ASSUME NEW j \in DOMAIN store, Precedes(store, i, j)
      PROVE  Place(store, i) < Place(store, j)
  BY <1>2, <1>5, <1>6, <1>8
<1> QED BY <1>7, <1>8

\* What a sorted store is: the same instructions, each once, none before a stronger
\* one.
LEMMA SortedStore ==
  ASSUME NEW store \in Seq(Instruction)
  PROVE  \E from \in [DOMAIN store -> DOMAIN store] :
           /\ \A k, l \in DOMAIN store : from[k] = from[l] => k = l
           /\ \A i \in DOMAIN store : \E k \in DOMAIN store : from[k] = i
           /\ Sorted(store) = [k \in DOMAIN store |-> store[from[k]]]
           /\ \A k, l \in DOMAIN store :
                k < l => ~ Stronger(store[from[l]], store[from[k]])
<1> DEFINE D == DOMAIN store
           place == [i \in D |-> Place(store, i)]
           from == [k \in D |-> CHOOSE i \in D : Place(store, i) = k]
<1>1. /\ D = 1..Len(store) /\ Len(store) \in Nat /\ IsFiniteSet(D)
  <2>1. Len(store) \in Nat /\ DOMAIN store = 1..Len(store)
    BY LenProperties
  <2> QED BY <2>1, FS_Interval
<1>2. \A i \in D : Place(store, i) \in D
  BY PlacesDiffer
<1>3. ASSUME NEW i \in D, NEW j \in D, Place(store, i) = Place(store, j) PROVE i = j
  <2>1. Precedes(store, i, j) => Place(store, i) < Place(store, j)
    BY PlacesDiffer
  <2>2. Precedes(store, j, i) => Place(store, j) < Place(store, i)
    BY PlacesDiffer
  <2>3. Place(store, i) \in Nat /\ Place(store, j) \in Nat
    BY <1>1, <1>2
  <2> QED BY <1>3, <2>1, <2>2, <2>3, PrecedesOrder
<1>4. place \in Injection(D, D)
  BY <1>2, <1>3 DEF Injection, IsInjective
<1>5. place \in Surjection(D, D)
  BY <1>1, <1>4, FS_Injection
<1>6. \A k \in D : \E i \in D : Place(store, i) = k
  BY <1>5 DEF Surjection
<1>7. \A k \in D : from[k] \in D /\ Place(store, from[k]) = k
  BY <1>6
<1>8. from \in [D -> D]
  BY <1>7
<1>9. Sorted(store) = [k \in D |-> store[from[k]]]
  BY DEF Sorted
<1> HIDE DEF from
<1>10. ASSUME NEW k \in D, NEW l \in D, k < l
       PROVE  ~ Stronger(store[from[l]], store[from[k]])
  <2>1. /\ from[k] \in D /\ from[l] \in D /\ k \in Nat /\ l \in Nat
        /\ Place(store, from[k]) = k /\ Place(store, from[l]) = l
    BY <1>1, <1>7
  <2>2. ~ Precedes(store, from[l], from[k])
    <3>1. Precedes(store, from[l], from[k]) => l < k
      BY <2>1, PlacesDiffer
    <3> QED BY <1>10, <2>1, <3>1
  <2> QED BY <2>2 DEF Precedes
<1>11. \A k, l \in D : from[k] = from[l] => k = l
  BY <1>7
<1>12. \A i \in D : \E k \in D : from[k] = i
  <2>1. ASSUME NEW i \in D PROVE from[Place(store, i)] = i
    BY <1>2, <1>3, <1>7
  <2> QED BY <1>2, <2>1
<1> QED BY <1>8, <1>9, <1>10, <1>11, <1>12

--------------------------------------------------------------------------------
(* The sum of the counts                                                   *)

\* The sum is the last of the sums of the first instructions.
LEMMA TotalIsLast ==
  ASSUME NEW store \in Seq(Instruction)
  PROVE  \E f \in [0..Len(store) -> Nat] :
           /\ f[0] = 0
           /\ \A k \in 1..Len(store) : f[k] = f[k - 1] + store[k].source_count
           /\ Total(store) = f[Len(store)]
<1> DEFINE D == DOMAIN store
           n == Len(store)
           step == [k \in 1..n |-> [sum \in Nat |-> sum + store[k].source_count]]
           IsFold(iter) ==
             iter = [s \in SUBSET D |->
                       IF s = {} THEN 0 ELSE iter[s \ {Max(s)}] + store[Max(s)].source_count]
           fold == CHOOSE iter : IsFold(iter)
           f == [k \in 0..n |-> fold[1..k]]
<1>1. D = 1..n /\ n \in Nat /\ \A k \in 1..n : store[k].source_count \in Nat
  <2>1. D = 1..n /\ n \in Nat
    BY LenProperties
  <2>2. \A k \in 1..n : store[k] \in Instruction
    BY ElementOfSeq
  <2> QED BY <2>1, <2>2 DEF Instruction
<1>2. step \in [1..n -> [Nat -> Nat]]
  BY <1>1
<1>3. PICK g \in [SUBSET (1..n) -> Nat] :
        \A s \in SUBSET (1..n) : g[s] = IF s = {} THEN 0 ELSE step[Max(s)][g[s \ {Max(s)}]]
  <2>1. PICK g : IsFoldOver(g, Nat, n, 0, step)
    <3>1. 0 \in Nat
      OBVIOUS
    <3> HIDE DEF step, n
    <3> QED BY <1>1, <1>2, <3>1, FoldExists
  <2> HIDE DEF step, n
  <2> QED BY <2>1 DEF IsFoldOver
<1>4. ASSUME NEW s \in SUBSET (1..n), s # {}
      PROVE  Max(s) \in 1..n /\ s \ {Max(s)} \in SUBSET (1..n)
  <2>1. Max(s) \in s
    BY <1>1, <1>4, Greatest
  <2> QED BY <2>1
<1>5. IsFold(g)
  <2>1. \A s \in SUBSET (1..n) :
          g[s] = IF s = {} THEN 0 ELSE g[s \ {Max(s)}] + store[Max(s)].source_count
    BY <1>3, <1>4
  <2> QED BY <1>1, <1>3, <2>1
<1>6. IsFold(fold)
  <2> HIDE DEF IsFold
  <2> QED BY <1>5
<1>7. Total(store) = fold[D]
  BY DEF Total, FoldLeft, MapThenFoldSet
<1> HIDE DEF fold
<1>8. f[0] = 0 /\ Total(store) = f[n]
  <2>1. 1..0 = {} /\ 0 \in 0..n /\ n \in 0..n
    BY <1>1
  <2>2. fold[{}] = 0
    BY <1>6
  <2> QED BY <1>1, <1>7, <2>1, <2>2
<1>9. ASSUME NEW k \in 1..n PROVE f[k] = f[k - 1] + store[k].source_count
  <2>1. 1..k # {} /\ Max(1..k) = k /\ (1..k) \ {Max(1..k)} = 1..(k - 1)
    BY <1>1, FoldPrefix
  <2>2. 1..k \in SUBSET D /\ k \in 0..n /\ k - 1 \in 0..n
    BY <1>1
  <2>3. fold[1..k] = fold[(1..k) \ {Max(1..k)}] + store[Max(1..k)].source_count
    BY <1>6, <2>1, <2>2
  <2> QED BY <2>1, <2>2, <2>3
<1> DEFINE Odd == {k \in Nat : k <= n /\ f[k] \notin Nat}
<1> HIDE DEF f
<1>10. CASE Odd # {}
  <2>1. PICK k \in Odd : \A l \in Odd : k <= l
    BY <1>10, Least, Zenon
  <2>2. k \in Nat /\ k <= n /\ k # 0 /\ f[k] \notin Nat
    BY <1>8, <2>1
  <2>3. k - 1 \in Nat /\ k - 1 <= n /\ ~ (k <= k - 1) /\ k \in 1..n
    BY <1>1, <2>2
  <2>4. f[k - 1] \in Nat
    BY <2>1, <2>3
  <2>5. f[k] \in Nat
    BY <1>1, <1>9, <2>3, <2>4
  <2> QED BY <2>2, <2>5
<1>11. CASE Odd = {}
  <2>1. \A k \in 0..n : k \in Nat /\ k <= n
    BY <1>1
  <2>2. \A k \in 0..n : f[k] \in Nat
    BY <1>11, <2>1
  <2>3. DOMAIN f = 0..n /\ f = [k \in 0..n |-> f[k]]
    BY DEF f
  <2>4. f \in [0..n -> Nat]
    BY <2>2, <2>3
  <2> QED BY <1>8, <1>9, <2>4
<1> QED BY <1>10, <1>11

\* The sum is a natural number.
LEMMA TotalNat ==
  ASSUME NEW s \in Seq(Instruction)
  PROVE  Total(s) \in Nat
<1>1. PICK n \in Nat : n = Len(s)
  BY LenProperties
<1>2. PICK f \in [0..n -> Nat] : Total(s) = f[n]
  BY <1>1, TotalIsLast
<1>3. n \in 0..n
  OBVIOUS
<1> QED BY <1>2, <1>3

\* Where one count is larger by c, so is the sum.
LEMMA TotalMore ==
  ASSUME NEW s \in Seq(Instruction), NEW t \in Seq(Instruction), Len(t) = Len(s),
         NEW i \in 1..Len(s), NEW c \in Nat,
         t[i].source_count = s[i].source_count + c,
         \A j \in 1..Len(s) : j # i => t[j].source_count = s[j].source_count
  PROVE  Total(t) = Total(s) + c
<1>1. PICK n \in Nat : n = Len(s)
  BY LenProperties
<1>2. PICK f \in [0..n -> Nat] :
        /\ f[0] = 0
        /\ \A k \in 1..n : f[k] = f[k - 1] + s[k].source_count
        /\ Total(s) = f[n]
  BY <1>1, TotalIsLast
<1>3. PICK g \in [0..n -> Nat] :
        /\ g[0] = 0
        /\ \A k \in 1..n : g[k] = g[k - 1] + t[k].source_count
        /\ Total(t) = g[n]
  BY <1>1, TotalIsLast
<1>4. i \in Nat /\ 1 <= i /\ i <= n
  BY <1>1
<1>a. \A k \in 1..n : s[k].source_count \in Nat /\ t[k].source_count \in Nat
  <2>1. \A k \in 1..n : s[k] \in Instruction /\ t[k] \in Instruction
    BY <1>1, ElementOfSeq
  <2> QED BY <2>1 DEF Instruction
<1> DEFINE Fits(k) == g[k] = IF k < i THEN f[k] ELSE f[k] + c
           Odd == {k \in Nat : k <= n /\ ~ Fits(k)}
<1>5. Fits(0)
  BY <1>2, <1>3, <1>4
<1>6. CASE Odd # {}
  <2>1. PICK k \in Odd : \A l \in Odd : k <= l
    BY <1>6, Least, Zenon
  <2>2. k \in Nat /\ k <= n /\ k # 0 /\ ~ Fits(k)
    <3> HIDE DEF Fits
    <3> QED BY <1>5, <2>1
  <2>3. k - 1 \in Nat /\ k - 1 <= n /\ ~ (k <= k - 1) /\ k \in 1..n /\ k - 1 \in 0..n
    <3> HIDE DEF Fits
    <3> QED BY <1>1, <2>2
  <2>4. Fits(k - 1)
    <3> HIDE DEF Fits
    <3> QED BY <2>1, <2>3
  <2> HIDE DEF Odd, Fits
  <2>5. /\ f[k] = f[k - 1] + s[k].source_count /\ g[k] = g[k - 1] + t[k].source_count
        /\ f[k - 1] \in Nat /\ g[k - 1] \in Nat
        /\ s[k].source_count \in Nat /\ t[k].source_count \in Nat
    BY <1>2, <1>3, <1>a, <2>3
  <2>6. k < i \/ k = i \/ k > i
    BY <1>4, <2>2
  <2>7. CASE k < i
    <3>1. k - 1 < i /\ k # i
      BY <1>4, <2>2, <2>7
    <3>2. t[k].source_count = s[k].source_count
      BY <1>1, <2>3, <3>1
    <3> QED BY <2>2, <2>4, <2>5, <2>7, <3>1, <3>2 DEF Fits
  <2>8. CASE k = i
    <3>1. k - 1 < i /\ ~ (k < i)
      BY <1>4, <2>8
    <3>2. t[k].source_count = s[k].source_count + c
      BY <2>8
    <3>3. g[k - 1] = f[k - 1]
      BY <2>4, <3>1 DEF Fits
    <3>4. g[k] = f[k] + c
      BY <2>5, <3>2, <3>3, SMTT(30)
    <3> QED BY <2>2, <3>1, <3>4 DEF Fits
  <2>9. CASE k > i
    <3>1. ~ (k - 1 < i) /\ ~ (k < i) /\ k # i
      BY <1>4, <2>3, <2>9
    <3>2. t[k].source_count = s[k].source_count
      BY <1>1, <2>3, <3>1
    <3>3. g[k - 1] = f[k - 1] + c
      BY <2>4, <3>1 DEF Fits
    <3>4. g[k] = f[k] + c
      BY <2>5, <3>2, <3>3, SMTT(30)
    <3> QED BY <2>2, <3>1, <3>4 DEF Fits
  <2> QED BY <2>6, <2>7, <2>8, <2>9
<1>7. CASE Odd = {}
  <2>1. n <= n /\ ~ (n < i)
    BY <1>4
  <2>2. Fits(n)
    <3> HIDE DEF Fits
    <3> QED BY <1>7, <2>1
  <2> QED BY <1>2, <1>3, <2>1, <2>2
<1> QED BY <1>6, <1>7

\* The sum of no instruction, and of one more.
LEMMA TotalAppend ==
  ASSUME NEW s \in Seq(Instruction), NEW inst \in Instruction
  PROVE  /\ Total(<< >>) = 0 /\ Total(s) \in Nat
         /\ Total(Append(s, inst)) = Total(s) + inst.source_count
<1>1. Total(<< >>) = 0
  <2>1. << >> \in Seq(Instruction) /\ Len(<< >>) = 0
    OBVIOUS
  <2> QED BY <2>1, TotalIsLast
<1> DEFINE n == Len(s)
           t == Append(s, inst)
<1>2. /\ n \in Nat /\ t \in Seq(Instruction) /\ Len(t) = n + 1 /\ t[n + 1] = inst
      /\ \A k \in 1..n : t[k] = s[k]
  BY AppendProperties, LenProperties
<1> HIDE DEF t
<1>3. PICK f \in [0..n -> Nat] :
        /\ f[0] = 0
        /\ \A k \in 1..n : f[k] = f[k - 1] + s[k].source_count
        /\ Total(s) = f[n]
  BY TotalIsLast
<1>4. PICK g \in [0..(n + 1) -> Nat] :
        /\ g[0] = 0
        /\ \A k \in 1..(n + 1) : g[k] = g[k - 1] + t[k].source_count
        /\ Total(t) = g[n + 1]
  BY <1>2, TotalIsLast
<1> HIDE DEF n
<1> DEFINE Odd == {k \in Nat : k <= n /\ g[k] # f[k]}
<1>5. CASE Odd # {}
  <2>1. PICK k \in Odd : \A l \in Odd : k <= l
    BY <1>5, Least, Zenon
  <2>2. k \in Nat /\ k <= n /\ k # 0 /\ g[k] # f[k]
    BY <1>3, <1>4, <2>1
  <2>3. k - 1 \in Nat /\ k - 1 <= n /\ ~ (k <= k - 1) /\ k \in 1..n /\ k \in 1..(n + 1)
    BY <1>2, <2>2
  <2>4. g[k - 1] = f[k - 1]
    BY <2>1, <2>3
  <2>5. /\ f[k] = f[k - 1] + s[k].source_count
        /\ g[k] = g[k - 1] + s[k].source_count
    BY <1>2, <1>3, <1>4, <2>3
  <2> QED BY <2>2, <2>4, <2>5
<1>6. CASE Odd = {}
  <2>1. n <= n /\ n + 1 \in 1..(n + 1) /\ (n + 1) - 1 = n /\ n \in 0..n
    BY <1>2
  <2>2. g[n] = f[n]
    BY <1>6, <2>1
  <2>3. g[n + 1] = g[(n + 1) - 1] + t[n + 1].source_count
    BY <1>4, <2>1
  <2>4. Total(t) = Total(s) + inst.source_count
    BY <1>2, <1>3, <1>4, <2>1, <2>2, <2>3 DEF n
  <2>5. Total(s) \in Nat
    BY <1>3, <2>1
  <2> QED BY <1>1, <2>4, <2>5 DEF t
<1> QED BY <1>5, <1>6

\* Each count of c is one of s, taken once.
Draws(c, s, from) ==
  /\ from \in [1..Len(c) -> 1..Len(s)]
  /\ \A k, l \in 1..Len(c) : from[k] = from[l] => k = l
  /\ \A k \in 1..Len(c) : c[k].source_count = s[from[k]].source_count

\* The sum of some of the counts is at most that of all.
LEMMA TotalOfSome ==
  ASSUME NEW c \in Seq(Instruction), NEW s \in Seq(Instruction), NEW from, Draws(c, s, from)
  PROVE  Total(c) <= Total(s)
<1> DEFINE Fails(m) == \E d, u \in Seq(Instruction) : \E q :
                         Len(d) = m /\ Draws(d, u, q) /\ ~ (Total(d) <= Total(u))
           Odd == {m \in Nat : Fails(m)}
<1>1. CASE Odd # {}
  <2>1. PICK m \in Odd : \A l \in Odd : m <= l
    BY <1>1, Least, Zenon
  <2>2. PICK d \in Seq(Instruction), u \in Seq(Instruction) :
          m \in Nat /\ Len(d) = m /\ \E q : Draws(d, u, q) /\ ~ (Total(d) <= Total(u))
    BY <2>1
  <2>a. PICK q : m \in Nat /\ Len(d) = m /\ Draws(d, u, q) /\ ~ (Total(d) <= Total(u))
    BY <2>2
  <2>3. \A l \in Nat : l < m => ~ Fails(l)
    <3> HIDE DEF Fails
    <3>1. \A l \in Nat : l < m => ~ (m <= l)
      BY <2>a
    <3> QED BY <2>1, <3>1
  <2>4. Total(u) \in Nat
    BY TotalNat
  <2>5. CASE m = 0
    <3>1. d = << >>
      BY <2>a, <2>5, EmptySeq
    <3>2. Total(<< >>) = 0
      <4>1. << >> \in Seq(Instruction) /\ Len(<< >>) = 0
        OBVIOUS
      <4> QED BY <4>1, TotalIsLast
    <3> QED BY <2>a, <2>4, <3>1, <3>2
  <2>6. CASE m # 0
    <3> DEFINE front == [k \in 1..(m - 1) |-> d[k]]
               i == q[m]
               less == [u[i] EXCEPT !.source_count = 0]
               v == [u EXCEPT ![i] = less]
    <3>1. /\ m - 1 \in Nat /\ m \in 1..m /\ m - 1 < m /\ (m - 1) + 1 = m
          /\ \A k \in 1..(m - 1) : k \in 1..m /\ k # m
      BY <2>a, <2>6
    <3>2. /\ i \in 1..Len(u) /\ d[m].source_count = u[i].source_count
          /\ \A k \in 1..(m - 1) : q[k] # i /\ q[k] \in 1..Len(u)
                /\ d[k].source_count = u[q[k]].source_count
      BY <2>a, <3>1 DEF Draws
    <3>3. u[i] \in Instruction /\ d[m] \in Instruction /\ \A k \in 1..(m - 1) : d[k] \in Instruction
      BY <2>a, <3>1, <3>2, ElementOfSeq
    <3>4. /\ less \in Instruction /\ less.source_count = 0
          /\ d[m].source_count \in Nat /\ u[i].source_count = less.source_count + d[m].source_count
      <4>1. PICK r \in Instruction : r = u[i]
        BY <3>3
      <4>2. [r EXCEPT !.source_count = 0] \in Instruction
        BY DEF Instruction
      <4>3. [r EXCEPT !.source_count = 0].source_count = 0
        BY DEF Instruction
      <4>4. less \in Instruction /\ less.source_count = 0
        BY <4>1, <4>2, <4>3
      <4>5. \A x \in Instruction : x.source_count \in Nat
        BY DEF Instruction
      <4>6. d[m].source_count \in Nat
        BY <3>3, <4>5
      <4> HIDE DEF less
      <4> QED BY <3>2, <4>4, <4>6
    <3> HIDE DEF less
    <3>5. /\ v \in Seq(Instruction) /\ Len(v) = Len(u) /\ v[i] = less
          /\ \A j \in 1..Len(u) : j # i => v[j] = u[j]
      BY <3>2, <3>4, ExceptSeq
    <3> HIDE DEF v
    <3>6. Total(u) = Total(v) + d[m].source_count
      <4>1. PICK c0 \in Nat : c0 = d[m].source_count
        BY <3>4
      <4>2. /\ u \in Seq(Instruction) /\ v \in Seq(Instruction)
            /\ Len(u) = Len(v) /\ i \in 1..Len(v)
        BY <3>2, <3>5
      <4>3. u[i].source_count = v[i].source_count + c0
        BY <3>4, <3>5, <4>1
      <4>4. \A j \in 1..Len(v) : j # i => u[j].source_count = v[j].source_count
        BY <3>5
      <4> HIDE DEF i
      <4>5. Total(u) = Total(v) + c0
        BY <4>2, <4>3, <4>4, TotalMore
      <4> QED BY <4>1, <4>5
    <3>7. front \in Seq(Instruction) /\ Len(front) = m - 1
      <4>1. PICK n \in Nat : n = m - 1
        BY <3>1
      <4>2. [k \in 1..n |-> d[k]] \in [1..n -> Instruction]
        BY <3>3, <4>1
      <4>3. [k \in 1..n |-> d[k]] \in Seq(Instruction) /\ Len([k \in 1..n |-> d[k]]) = n
        BY <4>2
      <4> QED BY <4>1, <4>3
    <3>8. d = Append(front, d[m])
      <4>1. /\ Append(front, d[m]) \in Seq(Instruction) /\ Len(Append(front, d[m])) = m
            /\ \A k \in 1..(m - 1) : Append(front, d[m])[k] = front[k]
            /\ Append(front, d[m])[m] = d[m]
        BY <3>1, <3>3, <3>7, AppendProperties
      <4>2. \A k \in 1..m : k \in 1..(m - 1) \/ k = m
        BY <2>a
      <4>3. \A k \in 1..m : Append(front, d[m])[k] = d[k]
        BY <4>1, <4>2
      <4> HIDE DEF front
      <4> QED BY <2>a, <4>1, <4>3, SeqEqual
    <3>9. Draws(front, v, [k \in 1..(m - 1) |-> q[k]])
      <4>1. \A k \in 1..(m - 1) : front[k].source_count = v[q[k]].source_count
        BY <3>2, <3>5
      <4>2. \A k, l \in 1..(m - 1) : q[k] = q[l] => k = l
        BY <2>a, <3>1 DEF Draws
      <4> QED BY <3>2, <3>5, <3>7, <4>1, <4>2 DEF Draws
    <3> HIDE DEF front
    <3>10. Total(front) <= Total(v)
      BY <2>3, <3>1, <3>5, <3>7, <3>9
    <3>11. Total(front) \in Nat /\ Total(v) \in Nat /\ Total(d) = Total(front) + d[m].source_count
      BY <3>3, <3>5, <3>7, <3>8, TotalAppend
    <3> QED BY <2>a, <3>4, <3>6, <3>10, <3>11
  <2> QED BY <2>5, <2>6
<1>2. CASE Odd = {}
  <2>1. Len(c) \in Nat
    BY LenProperties
  <2>a. ~ Fails(Len(c))
    <3> HIDE DEF Fails
    <3> QED BY <1>2, <2>1
  <2> QED BY <2>a
<1> QED BY <1>1, <1>2

--------------------------------------------------------------------------------
(* Adding to the store                                                     *)

\* A store one too large is sorted and loses its last, which is no stronger than
\* any that stays.
LEMMA CappedStore ==
  ASSUME NEW store \in Seq(Instruction), Len(store) = MaxSize + 1
  PROVE  /\ Capped(store) \in Seq(Instruction) /\ Len(Capped(store)) = MaxSize
         /\ \E from \in [1..MaxSize -> DOMAIN store], out \in DOMAIN store :
              /\ \A k, l \in 1..MaxSize : from[k] # out /\ (from[k] = from[l] => k = l)
              /\ \A i \in DOMAIN store : i = out \/ \E k \in 1..MaxSize : from[k] = i
              /\ \A k \in 1..MaxSize :
                   Capped(store)[k] = store[from[k]] /\ ~ Stronger(store[out], store[from[k]])
<1> DEFINE D == DOMAIN store
<1>1. MaxSize \in Nat /\ D = 1..(MaxSize + 1) /\ \A i \in D : store[i] \in Instruction
  BY ConstantsAssumption, LenProperties, ElementOfSeq
<1>2. PICK from \in [D -> D] :
        /\ \A k, l \in D : from[k] = from[l] => k = l
        /\ \A i \in D : \E k \in D : from[k] = i
        /\ Sorted(store) = [k \in D |-> store[from[k]]]
        /\ \A k, l \in D : k < l => ~ Stronger(store[from[l]], store[from[k]])
  BY SortedStore
<1>3. Sorted(store) \in Seq(Instruction) /\ Len(Sorted(store)) = MaxSize + 1
  BY <1>1, <1>2, SMTT(30)
<1>4. Capped(store) = SubSeq(Sorted(store), 1, MaxSize)
  BY <1>1 DEF Capped
<1>5. /\ SubSeq(Sorted(store), 1, MaxSize) \in Seq(Instruction)
      /\ Len(SubSeq(Sorted(store), 1, MaxSize)) = MaxSize
      /\ \A k \in 1..MaxSize : SubSeq(Sorted(store), 1, MaxSize)[k] = Sorted(store)[k]
  BY <1>1, <1>3
<1>6. /\ MaxSize + 1 \in D
      /\ \A k \in 1..MaxSize : k \in D /\ k < MaxSize + 1 /\ k # MaxSize + 1
      /\ \A k \in D : k \in 1..MaxSize \/ k = MaxSize + 1
  BY <1>1
<1> DEFINE first == [k \in 1..MaxSize |-> from[k]]
           out == from[MaxSize + 1]
<1>7. first \in [1..MaxSize -> D] /\ out \in D
  BY <1>2, <1>6
<1>8. /\ \A k, l \in 1..MaxSize : first[k] # out /\ (first[k] = first[l] => k = l)
      /\ \A i \in D : i = out \/ \E k \in 1..MaxSize : first[k] = i
      /\ \A k \in 1..MaxSize :
           Capped(store)[k] = store[first[k]] /\ ~ Stronger(store[out], store[first[k]])
  BY <1>2, <1>4, <1>5, <1>6
<1> HIDE DEF first, out
<1> QED BY <1>4, <1>5, <1>7, <1>8

\* What the store may be.
Stores == {store \in Seq(Instruction) : Len(store) <= MaxSize /\ Distinct(store)}

\* An instruction that is at hand in its own words and no weaker, or that the store,
\* full of instructions no weaker, had no room for.
HoldsNoWeaker(store, old) ==
  \E i \in DOMAIN store : store[i].words = old.words /\ ~ Stronger(old, store[i])

Spared(store, old) ==
  \/ HoldsNoWeaker(store, old)
  \/ Len(store) = MaxSize /\ \A j \in DOMAIN store : ~ Stronger(old, store[j])

\* A store that took in the counts c: it is no smaller, still one without near
\* duplicates, has the counts unless it is full, and forgot no more than it may.
Grew(store, t, c) ==
  /\ t \in Stores /\ Len(store) <= Len(t)
  /\ Total(t) <= Total(store) + c
  /\ Len(t) < MaxSize => Total(t) = Total(store) + c
  /\ \A old \in Instruction : Spared(store, old) => Spared(t, old)

\* What is no stronger than something is no stronger than what has its age and more
\* counts.
LEMMA StrongerKept ==
  ASSUME NEW old \in Instruction, NEW a \in Instruction, NEW b \in Instruction,
         b.added = a.added, b.source_count >= a.source_count, ~ Stronger(old, a)
  PROVE  ~ Stronger(old, b)
<1>1. \A r \in Instruction : r.source_count \in Nat /\ r.added \in Nat
  BY DEF Instruction
<1>2. /\ old.source_count \in Nat /\ a.source_count \in Nat /\ b.source_count \in Nat
      /\ old.added \in Nat /\ a.added \in Nat
  BY <1>1
<1> QED BY <1>2 DEF Stronger

\* A near duplicate is added to the count of the instruction it resembles.
LEMMA ReinforcedStore ==
  ASSUME NEW store \in Stores, NEW inst \in Instruction, NEW i \in DOMAIN store
  PROVE  /\ Grew(store, Reinforced(store, i, inst), inst.source_count)
         /\ DOMAIN Reinforced(store, i, inst) = DOMAIN store
         /\ \A j \in DOMAIN store : Reinforced(store, i, inst)[j].words = store[j].words
<1> DEFINE more == [store[i] EXCEPT !.source_count = @ + inst.source_count]
           t == Reinforced(store, i, inst)
<1>1. /\ store \in Seq(Instruction) /\ Len(store) <= MaxSize /\ Distinct(store)
      /\ Len(store) \in Nat /\ DOMAIN store = 1..Len(store)
  BY LenProperties DEF Stores
<1>2. \A j \in DOMAIN store : store[j] \in Instruction
  BY <1>1, ElementOfSeq
<1>3. \A r \in Instruction : r.source_count \in Nat
  BY DEF Instruction
<1>4. /\ more \in Instruction /\ more.source_count = store[i].source_count + inst.source_count
      /\ more.words = store[i].words /\ more.added = store[i].added
  <2>1. PICK r \in Instruction : r = store[i]
    BY <1>2
  <2>2. PICK c \in Nat : c = inst.source_count
    BY <1>3
  <2>3. /\ [r EXCEPT !.source_count = @ + c] \in Instruction
        /\ [r EXCEPT !.source_count = @ + c].source_count = r.source_count + c
        /\ [r EXCEPT !.source_count = @ + c].words = r.words
        /\ [r EXCEPT !.source_count = @ + c].added = r.added
    BY DEF Instruction
  <2> QED BY <2>1, <2>2, <2>3
<1>5. t = [store EXCEPT ![i] = more]
  BY DEF Reinforced
<1> HIDE DEF more, t
<1>6. /\ t \in Seq(Instruction) /\ Len(t) = Len(store) /\ t[i] = more
      /\ \A j \in 1..Len(store) : j # i => t[j] = store[j]
  BY <1>1, <1>4, <1>5, ExceptSeq
<1>7. DOMAIN t = DOMAIN store
  BY <1>5
<1>8. \A j \in DOMAIN store : t[j].words = store[j].words /\ t[j].added = store[j].added
  BY <1>1, <1>4, <1>6
<1>9. \A j \in DOMAIN store : t[j] \in Instruction /\ t[j].source_count >= store[j].source_count
  <2>1. \A j \in DOMAIN store : t[j] \in Instruction
    BY <1>6, <1>7, ElementOfSeq
  <2>2. store[i].source_count \in Nat /\ inst.source_count \in Nat
    BY <1>2, <1>3
  <2>3. t[i].source_count >= store[i].source_count
    BY <1>4, <1>6, <2>2
  <2>4. ASSUME NEW j \in DOMAIN store, j # i PROVE t[j].source_count >= store[j].source_count
    <3>1. t[j] = store[j] /\ store[j].source_count \in Nat
      BY <1>1, <1>2, <1>3, <1>6, <2>4
    <3> QED BY <3>1
  <2> QED BY <2>1, <2>3, <2>4
<1>10. t \in Stores
  <2>1. Distinct(t)
    BY <1>1, <1>7, <1>8 DEF Distinct
  <2> QED BY <1>1, <1>6, <2>1 DEF Stores
<1>11. Total(t) = Total(store) + inst.source_count
  <2>1. PICK c \in Nat : c = inst.source_count
    BY <1>3
  <2>2. t[i].source_count = store[i].source_count + c
    BY <1>4, <1>6, <2>1
  <2>3. \A j \in 1..Len(store) : j # i => t[j].source_count = store[j].source_count
    BY <1>6
  <2>4. i \in 1..Len(store)
    BY <1>1
  <2>5. Total(t) = Total(store) + c
    BY <1>1, <1>6, <2>2, <2>3, <2>4, TotalMore
  <2> QED BY <2>1, <2>5
<1>12. ASSUME NEW old \in Instruction, Spared(store, old) PROVE Spared(t, old)
  <2>1. \A j \in DOMAIN store : ~ Stronger(old, store[j]) => ~ Stronger(old, t[j])
    BY <1>2, <1>8, <1>9, StrongerKept
  <2> QED BY <1>6, <1>7, <1>8, <1>12, <2>1 DEF Spared, HoldsNoWeaker
<1>13. Total(t) \in Nat /\ Len(t) \in Nat
  BY <1>6, LenProperties, TotalNat
<1> QED BY <1>1, <1>6, <1>7, <1>8, <1>10, <1>11, <1>12, <1>13 DEF Grew, t

\* An instruction that resembles none of the store's is pushed where there is room.
LEMMA PushedStore ==
  ASSUME NEW store \in Stores, NEW inst \in Instruction,
         Resembling(store, inst) = {}, Len(store) < MaxSize
  PROVE  /\ Capped(Append(store, inst)) = Append(store, inst)
         /\ Grew(store, Append(store, inst), inst.source_count)
         /\ HoldsNoWeaker(Append(store, inst), inst)
<1> DEFINE t == Append(store, inst)
<1>1. /\ store \in Seq(Instruction) /\ Distinct(store) /\ Len(store) \in Nat
      /\ DOMAIN store = 1..Len(store) /\ MaxSize \in Nat
  BY LenProperties, ConstantsAssumption DEF Stores
<1>2. /\ t \in Seq(Instruction) /\ Len(t) = Len(store) + 1 /\ t[Len(store) + 1] = inst
      /\ \A j \in 1..Len(store) : t[j] = store[j]
  BY <1>1, AppendProperties
<1>3. Total(t) = Total(store) + inst.source_count
  BY <1>1, TotalAppend
<1> HIDE DEF t
<1>4. DOMAIN t = 1..Len(t) /\ \A j \in DOMAIN t : t[j] \in Instruction
  BY <1>2, LenProperties, ElementOfSeq
<1>5. /\ Len(store) + 1 \in DOMAIN t /\ Len(t) <= MaxSize /\ Len(store) <= Len(t)
      /\ \A j \in DOMAIN store : j \in DOMAIN t
      /\ \A j \in DOMAIN t : j = Len(store) + 1 \/ j \in DOMAIN store
  BY <1>1, <1>2, <1>4
<1>6. Distinct(t)
  <2>1. \A j \in DOMAIN store : ~ Duplicate(inst.words, store[j].words)
    BY DEF Resembling
  <2>2. \A j \in DOMAIN t : t[j].words \in Texts
    BY <1>4 DEF Instruction
  <2>3. ASSUME NEW j \in DOMAIN store
        PROVE  ~ Duplicate(t[j].words, inst.words) /\ ~ Duplicate(inst.words, t[j].words)
    BY <1>1, <1>2, <1>5, <2>1, <2>2, <2>3, DuplicateSymmetric
  <2>4. ASSUME NEW j \in DOMAIN store, NEW k \in DOMAIN store, j # k
        PROVE  ~ Duplicate(t[j].words, t[k].words)
    BY <1>1, <1>2, <2>4 DEF Distinct
  <2> QED BY <1>2, <1>5, <2>3, <2>4 DEF Distinct
<1>7. ASSUME NEW old \in Instruction, Spared(store, old) PROVE Spared(t, old)
  <2>1. HoldsNoWeaker(store, old)
    <3>1. Len(store) # MaxSize
      <4>1. \A m, n \in Nat : m < n => m # n
        OBVIOUS
      <4> QED BY <1>1, <4>1, Zenon
    <3> QED BY <1>7, <3>1 DEF Spared
  <2> QED BY <1>1, <1>2, <1>5, <2>1 DEF Spared, HoldsNoWeaker
<1>8. HoldsNoWeaker(t, inst)
  BY <1>2, <1>5, StrongerOrder DEF HoldsNoWeaker
<1>9. Capped(t) = t
  <2>1. ~ (Len(t) > MaxSize)
    BY <1>1, <1>2
  <2> QED BY <2>1 DEF Capped
<1>10. Total(t) <= Total(store) + inst.source_count
  <2>1. Total(t) \in Nat
    BY <1>2, TotalNat
  <2> QED BY <1>3, <2>1
<1> QED BY <1>2, <1>3, <1>5, <1>6, <1>7, <1>8, <1>9, <1>10 DEF Grew, Stores, t

\* And pushed out, or pushes a weaker one out, where there is none.
LEMMA EvictedStore ==
  ASSUME NEW store \in Stores, NEW inst \in Instruction,
         Resembling(store, inst) = {}, Len(store) = MaxSize
  PROVE  /\ Grew(store, Capped(Append(store, inst)), inst.source_count)
         /\ Spared(Capped(Append(store, inst)), inst)
<1> DEFINE s == Append(store, inst)
           t == Capped(s)
<1>1. /\ store \in Seq(Instruction) /\ Distinct(store) /\ MaxSize \in Nat
      /\ DOMAIN store = 1..MaxSize
  BY LenProperties, ConstantsAssumption DEF Stores
<1>2. /\ s \in Seq(Instruction) /\ Len(s) = MaxSize + 1 /\ s[MaxSize + 1] = inst
      /\ \A j \in 1..MaxSize : s[j] = store[j]
  BY <1>1, AppendProperties
<1>3. Total(s) = Total(store) + inst.source_count
  BY <1>1, TotalAppend
<1> HIDE DEF s
<1>4. /\ t \in Seq(Instruction) /\ Len(t) = MaxSize
      /\ \E from \in [1..MaxSize -> DOMAIN s], out \in DOMAIN s :
           /\ \A k, l \in 1..MaxSize : from[k] # out /\ (from[k] = from[l] => k = l)
           /\ \A i \in DOMAIN s : i = out \/ \E k \in 1..MaxSize : from[k] = i
           /\ \A k \in 1..MaxSize : t[k] = s[from[k]] /\ ~ Stronger(s[out], s[from[k]])
  BY <1>2, CappedStore
<1> HIDE DEF t
<1>5. PICK from \in [1..MaxSize -> DOMAIN s], out \in DOMAIN s :
        /\ \A k, l \in 1..MaxSize : from[k] # out /\ (from[k] = from[l] => k = l)
        /\ \A i \in DOMAIN s : i = out \/ \E k \in 1..MaxSize : from[k] = i
        /\ \A k \in 1..MaxSize : t[k] = s[from[k]] /\ ~ Stronger(s[out], s[from[k]])
  BY <1>4
<1>6. /\ DOMAIN s = 1..(MaxSize + 1) /\ DOMAIN t = 1..MaxSize
      /\ \A j \in DOMAIN s : s[j] \in Instruction
      /\ \A j \in DOMAIN t : t[j] \in Instruction
  BY <1>2, <1>4, LenProperties, ElementOfSeq
<1>7. /\ MaxSize + 1 \in DOMAIN s
      /\ \A j \in DOMAIN s : j \in 1..MaxSize \/ j = MaxSize + 1
      /\ \A j \in 1..MaxSize : j \in DOMAIN s
  BY <1>1, <1>6
<1>8. \A j, k \in DOMAIN s : j # k => ~ Duplicate(s[j].words, s[k].words)
  <2>1. \A j \in 1..MaxSize : ~ Duplicate(inst.words, s[j].words)
    BY <1>1, <1>2 DEF Resembling
  <2>2. \A j \in DOMAIN s : s[j].words \in Texts
    BY <1>6 DEF Instruction
  <2>3. ASSUME NEW j \in 1..MaxSize
        PROVE  ~ Duplicate(s[j].words, inst.words)
    BY <1>2, <1>7, <2>1, <2>2, <2>3, DuplicateSymmetric
  <2>4. ASSUME NEW j \in 1..MaxSize, NEW k \in 1..MaxSize, j # k
        PROVE  ~ Duplicate(s[j].words, s[k].words)
    BY <1>1, <1>2, <2>4 DEF Distinct
  <2> QED BY <1>2, <1>7, <2>1, <2>3, <2>4
<1>9. Distinct(t)
  BY <1>5, <1>6, <1>8 DEF Distinct
<1>10. Total(t) <= Total(s)
  <2>1. Draws(t, s, from)
    BY <1>2, <1>4, <1>5, <1>6 DEF Draws
  <2> QED BY <1>2, <1>4, <2>1, TotalOfSome
\* What s holds is held on to, or was no stronger than all that is.
<1>11. ASSUME NEW old \in Instruction, NEW i \in DOMAIN s,
              s[i].words = old.words, ~ Stronger(old, s[i])
       PROVE  Spared(t, old)
  <2>1. CASE i = out
    <3>1. \A k \in 1..MaxSize : ~ Stronger(s[i], t[k]) /\ t[k] \in Instruction
      BY <1>5, <1>6, <2>1
    <3>2. \A k \in 1..MaxSize : ~ Stronger(old, t[k])
      BY <1>6, <1>11, <3>1, StrongerOrder
    <3> QED BY <1>4, <1>6, <3>2 DEF Spared
  <2>2. CASE i # out
    <3>1. PICK k \in 1..MaxSize : from[k] = i
      BY <1>5, <2>2
    <3>2. t[k] = s[i]
      BY <1>5, <3>1
    <3> QED BY <1>6, <1>11, <3>2 DEF Spared, HoldsNoWeaker
  <2> QED BY <2>1, <2>2
<1>12. ASSUME NEW old \in Instruction, Spared(store, old) PROVE Spared(t, old)
  <2>1. CASE HoldsNoWeaker(store, old)
    <3>1. PICK i \in DOMAIN store : store[i].words = old.words /\ ~ Stronger(old, store[i])
      BY <2>1 DEF HoldsNoWeaker
    <3>2. i \in DOMAIN s /\ s[i] = store[i]
      BY <1>1, <1>2, <1>7
    <3> QED BY <1>11, <3>1, <3>2
  <2>2. CASE \A j \in DOMAIN store : ~ Stronger(old, store[j])
    <3>1. ASSUME NEW k \in 1..MaxSize PROVE ~ Stronger(old, t[k])
      <4>1. /\ t[k] = s[from[k]] /\ from[k] \in DOMAIN s /\ from[k] # out
            /\ ~ Stronger(s[out], s[from[k]])
        BY <1>5
      <4>2. CASE from[k] \in 1..MaxSize
        BY <1>1, <1>2, <2>2, <4>1, <4>2
      <4>3. CASE from[k] = MaxSize + 1
        <5>1. out \in 1..MaxSize
          BY <1>7, <4>1, <4>3
        <5>2. ~ Stronger(old, s[out])
          BY <1>1, <1>2, <2>2, <5>1
        <5> QED BY <1>6, <4>1, <5>2, StrongerOrder
      <4> QED BY <1>7, <4>1, <4>2, <4>3
    <3> QED BY <1>4, <1>6, <3>1 DEF Spared
  <2> QED BY <1>12, <2>1, <2>2 DEF Spared
<1>13. Spared(t, inst)
  <2>1. ~ Stronger(inst, s[MaxSize + 1])
    BY <1>2, StrongerOrder
  <2> QED BY <1>2, <1>7, <1>11, <2>1
<1>14. ~ (Len(t) < MaxSize) /\ Len(store) <= Len(t) /\ Len(t) <= MaxSize
  BY <1>1, <1>4
<1>15. Total(t) <= Total(store) + inst.source_count
  BY <1>3, <1>10
<1>16. Grew(store, t, inst.source_count)
  BY <1>4, <1>9, <1>12, <1>14, <1>15 DEF Grew, Stores
<1> QED BY <1>13, <1>16 DEF s, t

\* Whatever is added, the store grows as it may, and has the instruction, one that
\* resembles it, or nothing weaker.
LEMMA AddedStore ==
  ASSUME NEW store \in Stores, NEW inst \in Instruction
  PROVE  /\ Grew(store, Added(store, inst), inst.source_count)
         /\ Kept(Added(store, inst), inst) \/ Spared(Added(store, inst), inst)
<1>1. store \in Seq(Instruction) /\ Len(store) \in Nat /\ Len(store) <= MaxSize /\ MaxSize \in Nat
  BY LenProperties, ConstantsAssumption DEF Stores
<1>2. CASE Resembling(store, inst) # {}
  <2> DEFINE i == Min(Resembling(store, inst))
  <2>1. i \in DOMAIN store /\ i \in Resembling(store, inst)
    <3>1. Resembling(store, inst) \in SUBSET Nat
      BY <1>1, LenProperties DEF Resembling
    <3>2. PICK x \in Resembling(store, inst) : \A y \in Resembling(store, inst) : x <= y
      BY <1>2, <3>1, Least
    <3>3. i \in Resembling(store, inst)
      BY <3>2 DEF Min
    <3> QED BY <3>3 DEF Resembling
  <2>2. Added(store, inst) = Reinforced(store, i, inst)
    BY <1>2 DEF Added
  <2> HIDE DEF i
  <2>3. /\ Grew(store, Reinforced(store, i, inst), inst.source_count)
        /\ DOMAIN Reinforced(store, i, inst) = DOMAIN store
        /\ \A j \in DOMAIN store : Reinforced(store, i, inst)[j].words = store[j].words
    BY <2>1, ReinforcedStore
  <2>4. i \in Resembling(Reinforced(store, i, inst), inst)
    BY <2>1, <2>3 DEF Resembling
  <2> QED BY <2>2, <2>3, <2>4 DEF Kept
<1>3. CASE Resembling(store, inst) = {}
  <2>1. Added(store, inst) = Capped(Append(store, inst))
    BY <1>3 DEF Added
  <2>2. CASE Len(store) < MaxSize
    BY <1>3, <2>1, <2>2, PushedStore DEF Spared
  <2>3. CASE Len(store) = MaxSize
    BY <1>3, <2>1, <2>3, EvictedStore
  <2> QED BY <1>1, <2>2, <2>3
<1> QED BY <1>2, <1>3

--------------------------------------------------------------------------------
(* Adding a list                                                           *)

\* The stores on the way from one to the one a list makes of it.
IsGrowth(f, store, list) ==
  /\ f \in [0..Len(list) -> Stores]
  /\ f[0] = store
  /\ \A k \in 1..Len(list) : f[k] = Added(f[k - 1], list[k])
  /\ AddedAll(store, list) = f[Len(list)]

\* The instructions of a list are added one after the other.
LEMMA AddedAllIsLast ==
  ASSUME NEW store \in Stores, NEW list \in Seq(Instruction)
  PROVE  \E f : IsGrowth(f, store, list)
<1> DEFINE D == DOMAIN list
           n == Len(list)
           step == [k \in 1..n |-> [st \in Stores |-> Added(st, list[k])]]
           IsFold(iter) ==
             iter = [s \in SUBSET D |->
                       IF s = {} THEN store ELSE Added(iter[s \ {Max(s)}], list[Max(s)])]
           fold == CHOOSE iter : IsFold(iter)
           f == [k \in 0..n |-> fold[1..k]]
<1>1. D = 1..n /\ n \in Nat /\ \A k \in 1..n : list[k] \in Instruction
  BY LenProperties, ElementOfSeq
<1>2. step \in [1..n -> [Stores -> Stores]]
  <2>1. ASSUME NEW k \in 1..n, NEW st \in Stores PROVE Added(st, list[k]) \in Stores
    BY <1>1, AddedStore DEF Grew
  <2> QED BY <2>1
<1>3. PICK g \in [SUBSET (1..n) -> Stores] :
        \A s \in SUBSET (1..n) : g[s] = IF s = {} THEN store ELSE step[Max(s)][g[s \ {Max(s)}]]
  <2>1. PICK g : IsFoldOver(g, Stores, n, store, step)
    <3> HIDE DEF step, n
    <3> QED BY <1>1, <1>2, FoldExists
  <2> HIDE DEF step, n
  <2> QED BY <2>1 DEF IsFoldOver
<1>4. ASSUME NEW s \in SUBSET (1..n), s # {}
      PROVE  Max(s) \in 1..n /\ s \ {Max(s)} \in SUBSET (1..n)
  <2>1. Max(s) \in s
    BY <1>1, <1>4, Greatest
  <2> QED BY <2>1
<1>5. IsFold(g)
  <2>1. \A s \in SUBSET (1..n) :
          g[s] = IF s = {} THEN store ELSE Added(g[s \ {Max(s)}], list[Max(s)])
    BY <1>3, <1>4
  <2> QED BY <1>1, <1>3, <2>1
<1>6. IsFold(fold)
  <2> HIDE DEF IsFold
  <2> QED BY <1>5
<1>7. AddedAll(store, list) = fold[D]
  BY DEF AddedAll, FoldLeft, MapThenFoldSet
<1> HIDE DEF fold
<1>8. f[0] = store /\ AddedAll(store, list) = f[n]
  <2>1. 1..0 = {} /\ 0 \in 0..n /\ n \in 0..n
    BY <1>1
  <2>2. fold[{}] = store
    BY <1>6
  <2> QED BY <1>1, <1>7, <2>1, <2>2
<1>9. ASSUME NEW k \in 1..n PROVE f[k] = Added(f[k - 1], list[k])
  <2>1. 1..k # {} /\ Max(1..k) = k /\ (1..k) \ {Max(1..k)} = 1..(k - 1)
    BY <1>1, FoldPrefix
  <2>2. 1..k \in SUBSET D /\ k \in 0..n /\ k - 1 \in 0..n
    BY <1>1
  <2>3. fold[1..k] = Added(fold[(1..k) \ {Max(1..k)}], list[Max(1..k)])
    BY <1>6, <2>1, <2>2
  <2> QED BY <2>1, <2>2, <2>3
<1> DEFINE Odd == {k \in Nat : k <= n /\ f[k] \notin Stores}
<1>10. DOMAIN f = 0..n /\ f = [k \in 0..n |-> f[k]]
  OBVIOUS
<1> HIDE DEF f
<1>11. CASE Odd # {}
  <2>1. PICK k \in Odd : \A l \in Odd : k <= l
    BY <1>11, Least, Zenon
  <2>2. k \in Nat /\ k <= n /\ k # 0 /\ f[k] \notin Stores
    BY <1>8, <2>1
  <2>3. k - 1 \in Nat /\ k - 1 <= n /\ ~ (k <= k - 1) /\ k \in 1..n
    BY <1>1, <2>2
  <2>4. f[k - 1] \in Stores
    BY <2>1, <2>3
  <2>5. f[k] \in Stores
    BY <1>1, <1>9, <2>3, <2>4, AddedStore DEF Grew
  <2> QED BY <2>2, <2>5
<1>12. CASE Odd = {}
  <2>1. \A k \in 0..n : k \in Nat /\ k <= n
    BY <1>1
  <2>2. \A k \in 0..n : f[k] \in Stores
    BY <1>12, <2>1
  <2>3. f \in [0..n -> Stores]
    BY <1>10, <2>2
  <2>4. IsGrowth(f, store, list)
    BY <1>8, <1>9, <2>3 DEF IsGrowth
  <2> QED BY <2>4
<1> QED BY <1>11, <1>12

\* A list grows a store as one addition does, by all its counts.
LEMMA AddedAllStore ==
  ASSUME NEW store \in Stores, NEW list \in Seq(Instruction)
  PROVE  Grew(store, AddedAll(store, list), Total(list))
<1>1. PICK n \in Nat : n = Len(list)
  BY LenProperties
<1>2. PICK f : IsGrowth(f, store, list)
  BY AddedAllIsLast
<1>3. /\ f \in [0..n -> Stores] /\ f[0] = store
      /\ \A k \in 1..n : f[k] = Added(f[k - 1], list[k])
      /\ AddedAll(store, list) = f[n]
  BY <1>1, <1>2 DEF IsGrowth
<1>4. PICK sum \in [0..n -> Nat] :
        /\ sum[0] = 0
        /\ \A k \in 1..n : sum[k] = sum[k - 1] + list[k].source_count
        /\ Total(list) = sum[n]
  BY <1>1, TotalIsLast
<1>5. \A st \in Stores : Total(st) \in Nat /\ Len(st) \in Nat
  BY TotalNat, LenProperties DEF Stores
<1> DEFINE Fits(k) == Grew(store, f[k], sum[k])
           Odd == {k \in Nat : k <= n /\ ~ Fits(k)}
<1>6. Fits(0)
  BY <1>3, <1>4, <1>5 DEF Grew, Stores
<1>7. CASE Odd # {}
  <2>1. PICK k \in Odd : \A l \in Odd : k <= l
    BY <1>7, Least, Zenon
  <2>2. k \in Nat /\ k <= n /\ k # 0 /\ ~ Fits(k)
    <3> HIDE DEF Fits
    <3> QED BY <1>6, <2>1
  <2>3. k - 1 \in Nat /\ k - 1 <= n /\ ~ (k <= k - 1) /\ k \in 1..n /\ k - 1 \in 0..n
    <3> HIDE DEF Fits
    <3> QED BY <1>1, <2>2
  <2>4. Fits(k - 1)
    <3> HIDE DEF Fits
    <3> QED BY <2>1, <2>3
  <2> HIDE DEF Odd, Fits
  <2>5. PICK inst \in Instruction : inst = list[k]
    BY <1>1, <2>3, ElementOfSeq
  <2>6. PICK before \in Stores : before = f[k - 1]
    BY <1>3, <2>3
  <2>7. PICK after : after = f[k]
    OBVIOUS
  <2>8. Grew(before, after, inst.source_count)
    <3>1. after = Added(before, inst)
      BY <1>3, <2>3, <2>5, <2>6, <2>7
    <3> QED BY <3>1, AddedStore
  <2>9. PICK had \in Nat, got \in Nat :
          had = sum[k - 1] /\ got = inst.source_count /\ sum[k] = had + got
    <3>1. inst.source_count \in Nat
      BY DEF Instruction
    <3> QED BY <1>4, <2>3, <2>5, <3>1
  <2>10. Grew(store, before, had)
    BY <2>4, <2>6, <2>9 DEF Fits
  <2>11. Grew(before, after, got)
    BY <2>8, <2>9
  <2>12. /\ Total(store) \in Nat /\ Total(before) \in Nat /\ Total(after) \in Nat
         /\ Len(store) \in Nat /\ Len(before) \in Nat /\ Len(after) \in Nat /\ MaxSize \in Nat
    BY <1>5, <2>11, ConstantsAssumption DEF Grew
  <2>13. Len(store) <= Len(after) /\ Len(before) <= Len(after)
    BY <2>10, <2>11, <2>12 DEF Grew
  <2>14. Total(after) <= Total(store) + (had + got)
    <3>1. Total(before) <= Total(store) + had /\ Total(after) <= Total(before) + got
      BY <2>10, <2>11 DEF Grew
    <3> QED BY <2>12, <3>1, SMTT(30)
  <2>15. ASSUME Len(after) < MaxSize PROVE Total(after) = Total(store) + (had + got)
    <3>1. Len(before) < MaxSize
      BY <2>12, <2>13, <2>15
    <3>2. Total(before) = Total(store) + had /\ Total(after) = Total(before) + got
      BY <2>10, <2>11, <2>15, <3>1 DEF Grew
    <3> QED BY <2>12, <3>2
  <2>16. \A old \in Instruction : Spared(store, old) => Spared(after, old)
    BY <2>10, <2>11 DEF Grew
  <2>17. after \in Stores
    BY <2>11 DEF Grew
  <2>18. Grew(store, after, had + got)
    BY <2>13, <2>14, <2>15, <2>16, <2>17 DEF Grew
  <2>19. Fits(k)
    BY <2>7, <2>9, <2>18 DEF Fits
  <2> QED BY <2>2, <2>19
<1>8. CASE Odd = {}
  <2>1. n <= n
    OBVIOUS
  <2>2. Fits(n)
    <3> HIDE DEF Fits
    <3> QED BY <1>8, <2>1
  <2> QED BY <1>3, <1>4, <2>2
<1> QED BY <1>7, <1>8

\* A store added to an empty one is that store.
LEMMA ReloadedSame ==
  ASSUME NEW store \in Stores
  PROVE  AddedAll(<< >>, store) = store
<1>1. store \in Seq(Instruction) /\ Distinct(store) /\ Len(store) <= MaxSize /\ MaxSize \in Nat
  BY ConstantsAssumption DEF Stores
<1>2. PICK n \in Nat : n = Len(store) /\ DOMAIN store = 1..n
  BY <1>1, LenProperties
<1>3. << >> \in Stores
  BY <1>1 DEF Stores, Distinct
<1>4. PICK f : IsGrowth(f, << >>, store)
  BY <1>1, <1>3, AddedAllIsLast
<1>5. /\ f[0] = << >>
      /\ \A k \in 1..n : f[k] = Added(f[k - 1], store[k])
      /\ AddedAll(<< >>, store) = f[n]
  BY <1>2, <1>4 DEF IsGrowth
<1>6. \A k \in 1..n : store[k] \in Instruction
  BY <1>1, <1>2, ElementOfSeq
<1> DEFINE First(k) == [j \in 1..k |-> store[j]]
           Odd == {k \in Nat : k <= n /\ f[k] # First(k)}
<1>7. ASSUME NEW k \in Nat, k <= n
      PROVE  First(k) \in Seq(Instruction) /\ Len(First(k)) = k
  <2>1. First(k) \in [1..k -> Instruction]
    BY <1>6, <1>7
  <2> QED BY <2>1
<1>8. First(0) = << >>
  <2>1. First(0) \in Seq(Instruction) /\ Len(First(0)) = 0
    BY <1>7
  <2> HIDE DEF First
  <2> QED BY <2>1, EmptySeq
<1>9. CASE Odd # {}
  <2>1. PICK k \in Odd : \A l \in Odd : k <= l
    BY <1>9, Least, Zenon
  <2>2. k \in Nat /\ k <= n /\ k # 0 /\ f[k] # First(k)
    <3> HIDE DEF First
    <3> QED BY <1>5, <1>8, <2>1
  <2>3. k - 1 \in Nat /\ k - 1 <= n /\ ~ (k <= k - 1) /\ k \in 1..n
    <3> HIDE DEF First
    <3> QED BY <2>2
  <2>4. f[k - 1] = First(k - 1)
    <3> HIDE DEF First
    <3> QED BY <2>1, <2>3
  <2>5. Resembling(First(k - 1), store[k]) = {}
    <3>1. \A j \in 1..(k - 1) : j \in 1..n /\ j # k
      BY <2>3
    <3>2. \A j \in 1..(k - 1) : ~ Duplicate(store[k].words, store[j].words)
      BY <1>1, <1>2, <2>3, <3>1 DEF Distinct
    <3> QED BY <3>2 DEF Resembling
  <2>6. Append(First(k - 1), store[k]) = First(k)
    <3>1. /\ First(k - 1) \in Seq(Instruction) /\ Len(First(k - 1)) = k - 1
          /\ First(k) \in Seq(Instruction) /\ Len(First(k)) = k
      BY <1>7, <2>2, <2>3
    <3>2. PICK front \in Seq(Instruction) : front = First(k - 1)
      BY <3>1
    <3>3. /\ Append(front, store[k]) \in Seq(Instruction)
          /\ Len(Append(front, store[k])) = k
          /\ Append(front, store[k])[k] = store[k]
          /\ \A j \in 1..(k - 1) : Append(front, store[k])[j] = front[j]
      <4>1. /\ Append(front, store[k]) \in Seq(Instruction)
            /\ Len(Append(front, store[k])) = Len(front) + 1
            /\ Append(front, store[k])[Len(front) + 1] = store[k]
            /\ \A j \in 1..Len(front) : Append(front, store[k])[j] = front[j]
        BY <1>6, <2>3, AppendProperties
      <4>2. Len(front) = k - 1 /\ (k - 1) + 1 = k
        BY <2>2, <3>1, <3>2
      <4> QED BY <4>1, <4>2
    <3>4. \A j \in 1..k : j = k \/ j \in 1..(k - 1)
      BY <2>2
    <3>5. \A j \in 1..k : Append(front, store[k])[j] = store[j] /\ First(k)[j] = store[j]
      BY <3>2, <3>3, <3>4
    <3> HIDE DEF First
    <3>6. PICK longer \in Seq(Instruction) : longer = First(k)
      BY <3>1
    <3>7. Len(longer) = k /\ \A j \in 1..k : longer[j] = Append(front, store[k])[j]
      BY <3>1, <3>5, <3>6
    <3>8. PICK pushed \in Seq(Instruction) : pushed = Append(front, store[k])
      BY <3>3
    <3>9. pushed = longer
      <4>1. Len(pushed) = Len(longer) /\ \A j \in 1..Len(pushed) : pushed[j] = longer[j]
        BY <3>3, <3>7, <3>8
      <4> QED BY <4>1, SeqEqual
    <3> QED BY <3>2, <3>6, <3>8, <3>9
  <2>7. Capped(First(k)) = First(k)
    <3>1. Len(First(k)) = k
      BY <1>7, <2>2
    <3>2. ~ (k > MaxSize)
      BY <1>1, <1>2, <2>2
    <3> HIDE DEF First
    <3> QED BY <3>1, <3>2 DEF Capped
  <2> HIDE DEF First
  <2>8. f[k] = First(k)
    BY <1>5, <2>3, <2>4, <2>5, <2>6, <2>7 DEF Added
  <2> QED BY <2>2, <2>8
<1>10. CASE Odd = {}
  <2>1. n <= n
    OBVIOUS
  <2>2. f[n] = First(n)
    <3> HIDE DEF First
    <3> QED BY <1>10, <2>1
  <2>3. /\ First(n) \in Seq(Instruction) /\ Len(First(n)) = n
        /\ \A j \in 1..n : First(n)[j] = store[j]
    BY <1>7, <2>1
  <2> HIDE DEF First
  <2>4. First(n) = store
    BY <1>1, <1>2, <2>3, SeqEqual
  <2> QED BY <1>5, <2>2, <2>4
<1> QED BY <1>9, <1>10

--------------------------------------------------------------------------------
(* The inductive invariant: the store is one it may be, the ghosts are         *)
(* numbers, the counts are accounted for, and what was just learned is at hand *)
(* or weak.                                                                    *)

LearnedInv ==
  /\ learned \in Seq(Instruction) /\ Len(learned) <= 1
  /\ \A i \in DOMAIN learned :
       Kept(instructions, learned[i]) \/ Spared(instructions, learned[i])

EditRecord ==
  [was_edited : BOOLEAN, matched : SUBSET UNION Range(Matched), severed : BOOLEAN]

IInv ==
  /\ instructions \in Stores
  /\ adds \in Nat /\ weight \in Nat
  /\ Accounted(instructions, weight)
  /\ LearnedInv
  /\ edits \in Seq(EditRecord)

\* The invariant holds initially.
LEMMA InitIInv == Init => IInv
<1>1. SUFFICES ASSUME Init PROVE IInv
  OBVIOUS
<1>2. << >> \in Stores
  BY ConstantsAssumption DEF Stores, Distinct
<1>3. Total(<< >>) = 0 /\ << >> \in Seq(Instruction) /\ Len(<< >>) = 0
  <2>1. << >> \in Seq(Instruction) /\ Len(<< >>) = 0
    OBVIOUS
  <2> QED BY <2>1, TotalIsLast
<1>4. LearnedInv
  BY <1>1 DEF Init, LearnedInv
<1>5. Accounted(instructions, weight)
  BY <1>1, <1>3 DEF Init, Accounted
<1> QED BY <1>1, <1>2, <1>4, <1>5 DEF Init, IInv

\* A store that grew accounts for its counts and those that came.
LEMMA AccountedGrew ==
  ASSUME NEW store \in Stores, NEW t, NEW c \in Nat, NEW came \in Nat,
         Grew(store, t, c), Accounted(store, came)
  PROVE  Accounted(t, came + c)
<1>1. t \in Stores
  BY DEF Grew
<1>2. /\ Total(store) \in Nat /\ Total(t) \in Nat /\ Len(store) \in Nat /\ Len(t) \in Nat
      /\ MaxSize \in Nat
  BY <1>1, TotalNat, LenProperties, ConstantsAssumption DEF Stores
<1>3. Total(t) <= came + c
  <2>1. Total(t) <= Total(store) + c /\ Total(store) <= came
    BY DEF Grew, Accounted
  <2> QED BY <1>2, <2>1
<1>4. ASSUME Len(t) < MaxSize PROVE Total(t) = came + c
  <2>1. Len(store) < MaxSize
    <3>1. Len(store) <= Len(t)
      BY DEF Grew
    <3> QED BY <1>2, <1>4, <3>1
  <2>2. Total(t) = Total(store) + c /\ Total(store) = came
    BY <1>4, <2>1 DEF Grew, Accounted
  <2> QED BY <2>2
<1> QED BY <1>3, <1>4 DEF Accounted

\* What is spared is forgotten only if it is no stronger than what is kept.
LEMMA SparedIsWeak ==
  ASSUME NEW store, NEW old, Spared(store, old), ~ Kept(store, old)
  PROVE  \A j \in DOMAIN store : ~ Stronger(old, store[j])
BY DEF Spared, HoldsNoWeaker, Kept

\* What a step keeps of the instructions it may forget.
ForgetsOnlyWeak ==
  \A old \in ToSet(instructions \o learned') :
    ~ Kept(instructions', old) => \A j \in DOMAIN instructions' : ~ Stronger(old, instructions'[j])

\* A step that grows the store by c, and says what it learned, keeps the invariant
\* and forgets only what is weak.
LEMMA GrowthStep ==
  ASSUME IInv, NEW c \in Nat, Grew(instructions, instructions', c),
         LearnedInv', adds' \in Nat, weight' = weight + c, edits' \in Seq(EditRecord)
  PROVE  IInv' /\ ForgetsOnlyWeak
<1> USE DEF IInv
<1>1. instructions' \in Stores
  BY DEF Grew
<1>2. weight' \in Nat
  OBVIOUS
<1>3. Accounted(instructions', weight')
  BY AccountedGrew
<1>4. ForgetsOnlyWeak
  <2>1. /\ instructions \in Seq(Instruction) /\ learned' \in Seq(Instruction)
        /\ \A i \in DOMAIN instructions : instructions[i] \in Instruction
        /\ \A i \in DOMAIN learned' : learned'[i] \in Instruction
    BY ElementOfSeq DEF Stores, LearnedInv
  <2>2. ASSUME NEW old \in ToSet(instructions \o learned')
        PROVE  Kept(instructions', old) \/ Spared(instructions', old)
    <3>1. PICK i \in DOMAIN (instructions \o learned') : old = (instructions \o learned')[i]
      BY DEF ToSet
    <3>2. CASE i \in DOMAIN instructions
      <4>1. old = instructions[i] /\ old \in Instruction
        BY <2>1, <3>1, <3>2, InConcat
      <4>2. Spared(instructions, old)
        BY <3>2, <4>1, StrongerOrder DEF Spared, HoldsNoWeaker
      <4> QED BY <4>1, <4>2 DEF Grew
    <3>3. CASE i \notin DOMAIN instructions
      <4>1. PICK j \in DOMAIN learned' : old = learned'[j]
        BY <2>1, <3>1, <3>3, InConcat
      <4> QED BY <4>1 DEF LearnedInv
    <3> QED BY <3>2, <3>3
  <2> QED BY <2>2, SparedIsWeak DEF ForgetsOnlyWeak
<1> QED BY <1>1, <1>2, <1>3, <1>4

\* A store that stays as it is has grown by nothing.
LEMMA GrewNot ==
  ASSUME NEW store \in Stores
  PROVE  Grew(store, store, 0)
<1>1. Total(store) \in Nat /\ Len(store) \in Nat
  BY TotalNat, LenProperties DEF Stores
<1> QED BY <1>1 DEF Grew

--------------------------------------------------------------------------------
(* One lemma per action                                                    *)

\* The instruction the model made of an edit is added or counts for one it is
\* alike to, and only the weakest makes room for it.
LEMMA LearnStep ==
  ASSUME IInv, NEW words \in Texts, NEW time \in 1..MaxTime, Learn(words, time)
  PROVE  IInv' /\ ForgetsOnlyWeak
<1> DEFINE inst == [words |-> words, source_count |-> 1, added |-> time]
<1>1. inst \in Instruction /\ inst.source_count = 1
  <2>1. time \in Nat
    BY ConstantsAssumption
  <2> QED BY <2>1 DEF Instruction
<1>2. /\ instructions' = Added(instructions, inst) /\ learned' = <<inst>>
      /\ adds' = adds + Len(<<inst>>) /\ weight' = weight + Total(<<inst>>)
      /\ UNCHANGED edits
  BY DEF Learn, Account
<1> HIDE DEF inst
<1>3. /\ Grew(instructions, instructions', 1)
      /\ Kept(instructions', inst) \/ Spared(instructions', inst)
  BY <1>1, <1>2, AddedStore DEF IInv
<1>4. Total(<<inst>>) = 1 /\ Len(<<inst>>) = 1
  <2>1. Append(<< >>, inst) = <<inst>> /\ << >> \in Seq(Instruction)
    BY <1>1
  <2>2. Total(Append(<< >>, inst)) = Total(<< >>) + inst.source_count /\ Total(<< >>) = 0
    BY <1>1, <2>1, TotalAppend
  <2> QED BY <1>1, <2>1, <2>2
<1>5. LearnedInv'
  BY <1>1, <1>2, <1>3 DEF LearnedInv
<1>6. adds' \in Nat /\ weight' = weight + 1 /\ edits' \in Seq(EditRecord)
  BY <1>2, <1>4 DEF IInv
<1> QED BY <1>3, <1>5, <1>6, GrowthStep

\* What leaves the store as it is and learns nothing.
LEMMA QuietStep ==
  ASSUME IInv, UNCHANGED <<instructions, adds, weight>>, edits' \in Seq(EditRecord),
         learned' \in {<< >>, learned}
  PROVE  IInv' /\ ForgetsOnlyWeak
<1>1. Grew(instructions, instructions', 0)
  BY GrewNot DEF IInv
<1>2. LearnedInv'
  <2>1. CASE learned' = << >>
    BY <2>1 DEF LearnedInv
  <2>2. CASE learned' = learned
    BY <2>2 DEF IInv, LearnedInv
  <2> QED BY <2>1, <2>2
<1>3. adds' \in Nat /\ weight' = weight + 0
  BY DEF IInv
<1> QED BY <1>1, <1>2, <1>3, GrowthStep

\* An answer that makes no instruction changes nothing.
LEMMA LearnNothingStep ==
  ASSUME IInv, LearnNothing
  PROVE  IInv' /\ ForgetsOnlyWeak
<1>1. edits' \in Seq(EditRecord)
  BY DEF IInv, LearnNothing
<1> QED BY <1>1, QuietStep DEF LearnNothing

\* A list that is imported is added instruction by instruction.
LEMMA WithInstructionsStep ==
  ASSUME IInv, NEW list \in Imported, WithInstructions(list)
  PROVE  IInv' /\ ForgetsOnlyWeak
<1>1. list \in Seq(Instruction) /\ Len(list) \in Nat /\ Total(list) \in Nat
  BY ConstantsAssumption, TotalNat, LenProperties
<1>2. Grew(instructions, instructions', Total(list))
  BY <1>1, AddedAllStore DEF WithInstructions, IInv
<1>3. LearnedInv'
  BY DEF WithInstructions, LearnedInv
<1>4. adds' \in Nat /\ weight' = weight + Total(list) /\ edits' \in Seq(EditRecord)
  BY <1>1 DEF WithInstructions, Account, IInv
<1> QED BY <1>1, <1>2, <1>3, <1>4, GrowthStep

\* What was saved is read back as it was.
LEMMA RestartStep ==
  ASSUME IInv, Restart
  PROVE  IInv' /\ ForgetsOnlyWeak /\ instructions' = instructions
<1>1. instructions' = instructions
  BY ReloadedSame DEF Restart, Reloaded, IInv
<1>2. edits' \in Seq(EditRecord)
  <2>1. << >> \in Seq(EditRecord)
    OBVIOUS
  <2> QED BY <2>1 DEF Restart, IInv
<1> QED BY <1>1, <1>2, QuietStep DEF Restart

\* An edit that is tracked changes the edits only.
LEMMA TrackEditStep ==
  ASSUME IInv, NEW edit \in Edits, TrackEdit(edit)
  PROVE  IInv' /\ ForgetsOnlyWeak
<1>1. Matched[edit] \in SUBSET UNION Range(Matched)
  BY DEF Matched, Range
<1>2. /\ WasEdited(edit) \in BOOLEAN
      /\ (Severed(edit.original) \/ Severed(edit.edited)) \in BOOLEAN
  BY DEF WasEdited
<1>3. edits' \in Seq(EditRecord)
  BY <1>1, <1>2, AppendProperties DEF TrackEdit, IInv, EditRecord
<1> QED BY <1>3, QuietStep DEF TrackEdit

\* The invariant is inductive, and no step forgets what is not weak.
LEMMA NextIInv ==
  ASSUME IInv, Next
  PROVE  IInv' /\ ForgetsOnlyWeak
BY LearnStep, LearnNothingStep, WithInstructionsStep, RestartStep, TrackEditStep DEF Next

\* The invariant holds of every execution.
LEMMA Inductive == Spec => []IInv
<1>1. ASSUME IInv, UNCHANGED vars PROVE IInv'
  <2>1. edits' \in Seq(EditRecord)
    BY <1>1 DEF IInv, vars
  <2> QED BY <1>1, <2>1, QuietStep DEF vars
<1>2. IInv /\ [Next]_vars => IInv'
  BY <1>1, NextIInv
<1> QED BY <1>2, InitIInv, PTL DEF Spec

--------------------------------------------------------------------------------
(* The theorems                                                            *)

\* The store holds instructions and no more of them than its size, of every edit a
\* record is kept, and at most one instruction is learned at a time.
THEOREM TypeCorrect == Spec => []TypeOK
<1>1. IInv => TypeOK
  <2>1. SUFFICES ASSUME IInv PROVE TypeOK
    OBVIOUS
  <2>2. \A i \in DOMAIN edits : edits[i] \in EditRecord
    BY <2>1, ElementOfSeq DEF IInv
  <2> QED BY <2>1, <2>2 DEF IInv, Stores, LearnedInv, EditRecord, TypeOK
<1> QED BY <1>1, Inductive, PTL

\* No two instructions of the store ever resemble each other: InstructionStore::add
\* reinforces the first that resembles the new one, and neither the cut nor a reload
\* brings two together.
THEOREM NoTwoAlike == Spec => []NoNearDuplicates
<1>1. IInv => NoNearDuplicates
  BY DEF IInv, Stores, Distinct, NoNearDuplicates
<1> QED BY <1>1, Inductive, PTL

\* The counts of the store are those that came in until it is full, and never more.
THEOREM AccountsKept == Spec => []CountsAccountedFor
<1>1. IInv => CountsAccountedFor
  BY DEF IInv, Accounted, CountsAccountedFor
<1> QED BY <1>1, Inductive, PTL

\* What the store forgets is no stronger than anything it keeps, whatever its size
\* and the threshold.
THEOREM WeakestForgotten == Spec => ForgetsWeakest
<1>1. IInv /\ [Next]_vars => [ForgetsOnlyWeak]_vars
  BY NextIInv
<1> DEFINE Weak == \A old \in ToSet(instructions \o learned') :
                     ~ Kept(instructions', old) =>
                       \A j \in DOMAIN instructions' : ~ Stronger(old, instructions'[j])
<1>2. IInv /\ [Next]_vars => [Weak]_vars
  BY <1>1 DEF ForgetsOnlyWeak
<1>3. Spec => [][Weak]_vars
  <2> HIDE DEF Weak
  <2> QED BY <1>2, Inductive, PTL DEF Spec
<1> QED BY <1>3 DEF ForgetsWeakest

\* A session that starts from the saved instructions has them all, in their order.
THEOREM RestartHarmless == Spec => RestartKeepsStore
<1>1. IInv /\ [Next]_vars => [Restart => instructions' = instructions]_vars
  BY RestartStep
<1> QED BY <1>1, Inductive, PTL DEF Spec, RestartKeepsStore

\* One more record of a text the user left as it was: everything that counted for a
\* pattern still does, and nothing else.
LEMMA UneditedAdded ==
  ASSUME NEW records \in Seq(EditRecord), NEW r \in EditRecord, ~ r.was_edited
  PROVE  Detected(records) \subseteq Detected(Append(records, r))
<1> DEFINE longer == Append(records, r)
<1>1. /\ Len(records) \in Nat /\ DOMAIN records = 1..Len(records)
      /\ Len(longer) = Len(records) + 1 /\ DOMAIN longer = 1..(Len(records) + 1)
      /\ longer[Len(records) + 1] = r
      /\ \A i \in 1..Len(records) : longer[i] = records[i]
  BY AppendProperties, LenProperties
<1> HIDE DEF longer
<1>2. Edited(longer) = Edited(records)
  <2>1. \A i \in 1..(Len(records) + 1) : i = Len(records) + 1 \/ i \in 1..Len(records)
    BY <1>1
  <2>2. \A i \in 1..Len(records) : i \in 1..(Len(records) + 1)
    BY <1>1
  <2> QED BY <1>1, <2>1, <2>2 DEF Edited
<1>3. \A i \in Edited(records) : longer[i] = records[i]
  BY <1>1 DEF Edited
<1>4. Len(records) >= MinEdits => Len(longer) >= MinEdits
  BY <1>1, ConstantsAssumption
<1>5. Base(longer) = Base(records)
  BY <1>2 DEF Base
<1>6. ASSUME Len(records) >= MinEdits PROVE Detected(longer) = Detected(records)
  <2>1. ~ (Len(records) < MinEdits) /\ ~ (Len(longer) < MinEdits)
    BY <1>1, <1>4, <1>6, ConstantsAssumption
  <2>2. \A p : Matching(longer, p) = Matching(records, p)
    BY <1>2, <1>3 DEF Matching
  <2>3. {longer[i].matched : i \in Edited(records)} = {records[i].matched : i \in Edited(records)}
    BY <1>3
  <2>4. Frequent(longer) = Frequent(records)
    <3>1. PICK ms : /\ ms = {longer[i].matched : i \in Edited(longer)}
                    /\ ms = {records[i].matched : i \in Edited(records)}
      BY <1>2, <2>3
    <3>2. \A p : (100 * Cardinality(Matching(longer, p)) >= MinFrequency * Base(longer))
                   <=> (100 * Cardinality(Matching(records, p)) >= MinFrequency * Base(records))
      BY <1>5, <2>2
    <3>3. \A p : p \in Frequent(longer) <=> p \in Frequent(records)
      BY <3>1, <3>2, Zenon DEF Frequent
    <3> QED BY <3>3 DEF Frequent
  <2>5. ASSUME NEW p PROVE Examples(longer, p) = Examples(records, p)
    <3>1. PICK m : m = Matching(longer, p) /\ m = Matching(records, p)
      BY <2>2
    <3> QED BY <3>1 DEF Examples
  <2>6. \A p : \A i \in Examples(records, p) : longer[i] = records[i]
    BY <1>3 DEF Examples, Matching
  <2>7. (\E p \in Frequent(longer) : \E i \in Examples(longer, p) : longer[i].severed)
          <=> (\E p \in Frequent(records) : \E i \in Examples(records, p) : records[i].severed)
    BY <2>4, <2>5, <2>6
  <2> QED BY <2>1, <2>4, <2>7, Zenon DEF Detected
<1>7. ASSUME ~ (Len(records) >= MinEdits) PROVE Detected(records) = {}
  <2>1. Len(records) < MinEdits
    BY <1>1, <1>7, ConstantsAssumption
  <2> QED BY <2>1 DEF Detected
<1> QED BY <1>6, <1>7 DEF longer

\* A pattern that was detected still is when the user leaves a text as it was.
THEOREM UneditedHarmless == Spec => UneditedHidesNothing
<1> DEFINE Shown == Len(edits') = Len(edits) + 1 /\ ~ Last(edits').was_edited =>
                      Detected(edits) \subseteq Detected(edits')
<1>1. ASSUME IInv, [Next]_vars PROVE [Shown]_vars
  <2>1. SUFFICES ASSUME Next, Len(edits') = Len(edits) + 1, ~ Last(edits').was_edited
                 PROVE  Detected(edits) \subseteq Detected(edits')
    BY <1>1
  <2>2. PICK n \in Nat : n = Len(edits)
    BY <1>1, LenProperties DEF IInv
  <2>3. n + 1 # n /\ n + 1 # 0 /\ (n + 1) - 1 = n
    OBVIOUS
  <2>4. PICK edit \in Edits : TrackEdit(edit)
    <3>1. edits' # edits /\ edits' # << >>
      BY <2>1, <2>2, <2>3
    <3> QED BY <2>1, <3>1 DEF Next, Learn, LearnNothing, WithInstructions, Restart
  <2>5. PICK r \in EditRecord : edits' = Append(edits, r)
    <3>1. /\ Matched[edit] \in SUBSET UNION Range(Matched) /\ WasEdited(edit) \in BOOLEAN
          /\ (Severed(edit.original) \/ Severed(edit.edited)) \in BOOLEAN
      BY DEF Matched, Range, WasEdited
    <3> QED BY <2>4, <3>1 DEF TrackEdit, EditRecord
  <2>6. ~ r.was_edited
    <3>1. Append(edits, r)[Len(edits) + 1] = r /\ Len(Append(edits, r)) = Len(edits) + 1
      BY <1>1, AppendProperties DEF IInv
    <3> QED BY <2>1, <2>5, <3>1 DEF Last
  <2>7. edits \in Seq(EditRecord)
    BY <1>1 DEF IInv
  <2>8. Detected(edits) \subseteq Detected(Append(edits, r))
    BY <2>6, <2>7, UneditedAdded
  <2> QED BY <2>5, <2>8
<1>2. Spec => [][Shown]_vars
  <2> HIDE DEF Shown
  <2> QED BY <1>1, Inductive, PTL DEF Spec
<1> QED BY <1>2 DEF UneditedHidesNothing

--------------------------------------------------------------------------------
(* Persona: what is cut, filtered and sorted                               *)

\* The places of a sequence are a finite set.
LEMMA Places ==
  ASSUME NEW S, NEW s \in Seq(S)
  PROVE  /\ Len(s) \in Nat /\ DOMAIN s = 1..Len(s)
         /\ IsFiniteSet(DOMAIN s) /\ Cardinality(DOMAIN s) = Len(s)
         /\ \A i \in DOMAIN s : s[i] \in S
<1>1. PICK n \in Nat : n = Len(s) /\ DOMAIN s = 1..n /\ \A i \in 1..n : s[i] \in S
  BY LenProperties, ElementOfSeq
<1>2. IsFiniteSet(1..n) /\ Cardinality(1..n) = IF 1 > n THEN 0 ELSE n - 1 + 1
  BY FS_Interval
<1>3. (IF 1 > n THEN 0 ELSE n - 1 + 1) = n
  OBVIOUS
<1> QED BY <1>1, <1>2, <1>3

\* The lower of two numbers.
LEMMA MinOfTwo ==
  ASSUME NEW m \in Nat, NEW n \in Nat
  PROVE  Min({m, n}) = IF m <= n THEN m ELSE n
<1>1. {m, n} \in SUBSET Nat /\ {m, n} # {}
  OBVIOUS
<1>2. Min({m, n}) \in {m, n} /\ \A y \in {m, n} : Min({m, n}) <= y
  BY <1>1, MinIsLeast, Zenon
<1>3. PICK least \in {m, n} : least = Min({m, n}) /\ least <= m /\ least <= n
  BY <1>2
<1> QED BY <1>3

\* The higher of two numbers.
LEMMA MaxOfTwo ==
  ASSUME NEW m \in Nat, NEW n \in Nat
  PROVE  Max({m, n}) = IF m >= n THEN m ELSE n
<1>1. \E x \in {m, n} : \A y \in {m, n} : x >= y
  <2>1. CASE m >= n
    BY <2>1
  <2>2. CASE ~ (m >= n)
    BY <2>2
  <2> QED BY <2>1, <2>2
<1>2. Max({m, n}) = CHOOSE x \in {m, n} : \A y \in {m, n} : x >= y
  BY DEF Max
<1>3. PICK most \in {m, n} : most = Max({m, n}) /\ most >= m /\ most >= n
  BY <1>1, <1>2
<1> QED BY <1>3

\* A sequence that is cut keeps its first elements.
LEMMA FirstOfSeq ==
  ASSUME NEW S, NEW s \in Seq(S), NEW n \in Nat
  PROVE  /\ FirstOf(s, n) \in Seq(S)
         /\ Len(FirstOf(s, n)) = IF n <= Len(s) THEN n ELSE Len(s)
         /\ \A i \in DOMAIN FirstOf(s, n) :
              i \in DOMAIN s /\ i <= n /\ FirstOf(s, n)[i] = s[i]
<1>1. PICK l \in Nat : l = Len(s) /\ DOMAIN s = 1..l /\ \A i \in 1..l : s[i] \in S
  BY LenProperties, ElementOfSeq
<1>2. PICK m \in Nat : m = Min({n, l}) /\ m = IF n <= l THEN n ELSE l
  BY <1>1, MinOfTwo
<1>3. \A i \in 1..m : i \in 1..l /\ i <= n
  <2>1. m = IF n <= l THEN n ELSE l
    BY <1>2
  <2> QED BY <2>1
<1>4. /\ SubSeq(s, 1, m) \in Seq(S) /\ Len(SubSeq(s, 1, m)) = m
      /\ \A i \in 1..m : SubSeq(s, 1, m)[i] = s[i]
  <2>1. \A i \in 1..m : s[i] \in S
    BY <1>1, <1>3
  <2> QED BY <2>1
<1>5. DOMAIN SubSeq(s, 1, m) = 1..m
  BY <1>4, LenProperties
<1>6. FirstOf(s, n) = SubSeq(s, 1, m)
  BY <1>1, <1>2 DEF FirstOf
<1> QED BY <1>1, <1>2, <1>3, <1>4, <1>5, <1>6

\* What is chosen of a sequence is what is at the chosen places.
LEMMA ChosenElements ==
  ASSUME NEW S, NEW s \in Seq(S), NEW chosen
  PROVE  /\ Chosen(s, chosen) \in Seq(S)
         /\ \A x : x \in ToSet(Chosen(s, chosen)) <=> \E i \in DOMAIN s : i \in chosen /\ x = s[i]
<1> DEFINE ss == [i \in DOMAIN s |-> IF i \in chosen THEN <<s[i]>> ELSE << >>]
<1>1. DOMAIN s = 1..Len(s) /\ Len(s) \in Nat /\ \A i \in DOMAIN s : s[i] \in S
  BY LenProperties, ElementOfSeq
<1>2. \A i \in DOMAIN s : ss[i] \in Seq(S)
  BY <1>1
<1>3. ss \in Seq(Seq(S))
  BY <1>1, <1>2
<1>4. DOMAIN ss = DOMAIN s /\ \A i \in DOMAIN s : ss[i] = IF i \in chosen THEN <<s[i]>> ELSE << >>
  OBVIOUS
<1>5. \A a : ToSet(<<a>>) = {a}
  BY DEF ToSet
<1>6. ToSet(<< >>) = {}
  BY DEF ToSet
<1> HIDE DEF ss
<1>7. /\ FlattenSeq(ss) \in Seq(S)
      /\ \A x : x \in ToSet(FlattenSeq(ss)) <=> \E k \in DOMAIN ss : x \in ToSet(ss[k])
  BY <1>3, FlattenedElements
<1>8. FlattenSeq(ss) = Chosen(s, chosen)
  BY DEF Chosen, ss
<1>9. \A k \in DOMAIN s : \A x : x \in ToSet(ss[k]) <=> k \in chosen /\ x = s[k]
  BY <1>4, <1>5, <1>6
<1> QED BY <1>4, <1>7, <1>8, <1>9

\* One of two places comes before the other, and what is before it is before that.
LEMMA BeforeOrder ==
  ASSUME NEW n \in Nat, NEW key \in [1..n -> Nat], NEW i \in 1..n, NEW j \in 1..n, NEW k \in 1..n
  PROVE  /\ ~ Before(key, i, i)
         /\ i # j => Before(key, i, j) \/ Before(key, j, i)
         /\ Before(key, i, j) => ~ Before(key, j, i)
         /\ Before(key, i, j) /\ Before(key, j, k) => Before(key, i, k)
<1>1. key[i] \in Nat /\ key[j] \in Nat /\ key[k] \in Nat /\ i \in Nat /\ j \in Nat /\ k \in Nat
  OBVIOUS
<1> QED BY <1>1 DEF Before

\* A place has as many before it as its rank says, and what is before it a lower rank.
LEMMA RanksDiffer ==
  ASSUME NEW n \in Nat, NEW key \in [1..n -> Nat], NEW i \in 1..n
  PROVE  /\ Rank(key, i) \in 1..n
         /\ \A j \in 1..n : Before(key, i, j) => Rank(key, i) < Rank(key, j)
<1> DEFINE Ahead(k) == {j \in 1..n : Before(key, j, k)}
<1>1. IsFiniteSet(1..n) /\ Cardinality(1..n) = n
  <2>1. IsFiniteSet(1..n) /\ Cardinality(1..n) = IF 1 > n THEN 0 ELSE n - 1 + 1
    BY FS_Interval
  <2>2. (IF 1 > n THEN 0 ELSE n - 1 + 1) = n
    OBVIOUS
  <2> QED BY <2>1, <2>2
<1>2. \A k \in 1..n : IsFiniteSet(Ahead(k)) /\ Cardinality(Ahead(k)) \in Nat
  BY <1>1, FS_Subset, FS_CardinalityType
<1>3. i \notin Ahead(i) /\ Ahead(i) \in SUBSET (1..n)
  BY BeforeOrder
<1>4. Cardinality(Ahead(i)) < n
  <2>1. Ahead(i) # 1..n
    BY <1>3
  <2>2. /\ Cardinality(Ahead(i)) <= Cardinality(1..n)
        /\ Cardinality(1..n) = Cardinality(Ahead(i)) => 1..n = Ahead(i)
    BY <1>1, <1>3, FS_Subset
  <2> HIDE DEF Ahead
  <2> QED BY <1>1, <1>2, <2>1, <2>2
<1>5. ASSUME NEW j \in 1..n, Before(key, i, j)
      PROVE  Cardinality(Ahead(i)) < Cardinality(Ahead(j))
  <2>1. Ahead(i) \in SUBSET Ahead(j)
    BY <1>5, BeforeOrder
  <2>2. i \in Ahead(j)
    BY <1>5
  <2>3. /\ Cardinality(Ahead(i)) <= Cardinality(Ahead(j))
        /\ Cardinality(Ahead(j)) = Cardinality(Ahead(i)) => Ahead(j) = Ahead(i)
    <3> HIDE DEF Ahead
    <3> QED BY <1>2, <2>1, FS_Subset
  <2> HIDE DEF Ahead
  <2> QED BY <1>2, <1>3, <2>2, <2>3
<1>6. \A k \in 1..n : Rank(key, k) = 1 + Cardinality(Ahead(k))
  <2>1. DOMAIN key = 1..n
    OBVIOUS
  <2> QED BY <2>1 DEF Rank
<1> HIDE DEF Ahead
<1>7. Rank(key, i) \in 1..n
  BY <1>2, <1>4, <1>6
<1>8. ASSUME NEW j \in 1..n, Before(key, i, j) PROVE Rank(key, i) < Rank(key, j)
  BY <1>2, <1>5, <1>6, <1>8
<1> QED BY <1>7, <1>8

\* Where each element of the sorted sequence was.
IsOrder(from, n, key) ==
  /\ from \in [1..n -> 1..n]
  /\ \A k \in 1..n : Rank(key, from[k]) = k
  /\ \A k, l \in 1..n : from[k] = from[l] => k = l
  /\ \A i \in 1..n : \E k \in 1..n : from[k] = i
  /\ \A k, l \in 1..n : k < l => key[from[k]] >= key[from[l]]

\* The sorted sequence, when its elements come from there.
IsSorting(from, s, n, key) ==
  /\ IsOrder(from, n, key)
  /\ Descending(s, key) = [k \in 1..n |-> s[from[k]]]

\* Sorting by keys moves every element to the place of its rank.
LEMMA SortedBy ==
  ASSUME NEW S, NEW s \in Seq(S), NEW n \in Nat, n = Len(s), NEW key \in [1..n -> Nat]
  PROVE  /\ \E from : IsSorting(from, s, n, key)
         /\ Descending(s, key) \in Seq(S) /\ Len(Descending(s, key)) = n
<1> DEFINE D == 1..n
           rank == [i \in D |-> Rank(key, i)]
           from == [k \in D |-> CHOOSE i \in D : Rank(key, i) = k]
<1>1. IsFiniteSet(D) /\ DOMAIN s = D /\ \A i \in D : s[i] \in S
  BY Places
<1>2. \A i \in D : Rank(key, i) \in D /\ Rank(key, i) \in Nat
  <2>1. \A i \in D : Rank(key, i) \in D
    BY RanksDiffer
  <2>2. D \subseteq Nat
    OBVIOUS
  <2> HIDE DEF D
  <2> QED BY <2>1, <2>2, Zenon
<1>3. ASSUME NEW i \in D, NEW j \in D, Rank(key, i) = Rank(key, j) PROVE i = j
  <2>1. Before(key, i, j) => Rank(key, i) < Rank(key, j)
    BY RanksDiffer
  <2>2. Before(key, j, i) => Rank(key, j) < Rank(key, i)
    BY RanksDiffer
  <2>3. Rank(key, i) \in Nat /\ Rank(key, j) \in Nat
    BY <1>2, Zenon
  <2>4. i # j => Before(key, i, j) \/ Before(key, j, i)
    BY BeforeOrder
  <2> QED BY <1>3, <2>1, <2>2, <2>3, <2>4
<1>4. rank \in Injection(D, D)
  BY <1>2, <1>3 DEF Injection, IsInjective
<1>5. rank \in Surjection(D, D)
  BY <1>1, <1>4, FS_Injection
<1>6. \A k \in D : \E i \in D : Rank(key, i) = k
  BY <1>5 DEF Surjection
<1>7. \A k \in D : from[k] \in D /\ Rank(key, from[k]) = k
  BY <1>6
<1>8. from \in [D -> D]
  BY <1>7
<1>9. Descending(s, key) = [k \in D |-> s[from[k]]]
  BY <1>1 DEF Descending
<1> HIDE DEF from
<1>10. ASSUME NEW k \in D, NEW l \in D, k < l PROVE key[from[k]] >= key[from[l]]
  <2>1. /\ from[k] \in D /\ from[l] \in D
        /\ Rank(key, from[k]) = k /\ Rank(key, from[l]) = l
    BY <1>7
  <2>2. Before(key, from[l], from[k]) => Rank(key, from[l]) < Rank(key, from[k])
    BY <2>1, RanksDiffer
  <2>3. PICK a \in Nat, b \in Nat : a = key[from[k]] /\ b = key[from[l]]
    BY <2>1
  <2>4. ~ (b > a)
    BY <1>10, <2>1, <2>2, <2>3 DEF Before
  <2> QED BY <2>3, <2>4
<1>11. \A k, l \in D : from[k] = from[l] => k = l
  BY <1>7
<1>12. \A i \in D : \E k \in D : from[k] = i
  <2>1. ASSUME NEW i \in D PROVE from[Rank(key, i)] = i
    BY <1>2, <1>3, <1>7
  <2> QED BY <1>2, <2>1
<1>13. IsOrder(from, n, key)
  BY <1>7, <1>8, <1>10, <1>11, <1>12 DEF IsOrder
<1>14. [k \in D |-> s[from[k]]] \in Seq(S) /\ Len([k \in D |-> s[from[k]]]) = n
  <2>1. \A k \in D : s[from[k]] \in S
    BY <1>1, <1>8
  <2> QED BY <2>1
<1>15. IsSorting(from, s, n, key)
  BY <1>9, <1>13 DEF IsSorting
<1> QED BY <1>9, <1>14, <1>15

--------------------------------------------------------------------------------
(* What the layers do to a result                                          *)

IsResult(r) ==
  \E text, violations : \E severity \in Nat :
    r = [cleaned |-> text, severity |-> severity, violations |-> violations]

\* A layer that raises the severity leaves the text, and one that mends the text the
\* severity.
LEMMA Flagged ==
  ASSUME NEW r, IsResult(r), NEW n \in Nat, NEW v
  PROVE  /\ IsResult(Flag(r, n, v)) /\ Flag(r, n, v).cleaned = r.cleaned
         /\ r.severity \in Nat /\ Flag(r, n, v).severity \in Nat
         /\ r.severity <= Flag(r, n, v).severity /\ n <= Flag(r, n, v).severity
<1>1. PICK text, violations : \E severity \in Nat :
        r = [cleaned |-> text, severity |-> severity, violations |-> violations]
  BY DEF IsResult
<1>2. PICK severity \in Nat :
        r = [cleaned |-> text, severity |-> severity, violations |-> violations]
  BY <1>1
<1>3. PICK m \in Nat : m = Max({severity, n}) /\ severity <= m /\ n <= m
  <2>1. Max({severity, n}) = IF severity >= n THEN severity ELSE n
    BY MaxOfTwo
  <2>2. PICK m \in Nat : m = IF severity >= n THEN severity ELSE n
    OBVIOUS
  <2> QED BY <2>1, <2>2
<1>4. PICK more : more = Append(violations, v)
  OBVIOUS
<1>5. Flag(r, n, v) = [cleaned |-> text, severity |-> m, violations |-> more]
  <2>1. r.severity = severity /\ r.violations = violations
    BY <1>2
  <2>2. Flag(r, n, v) = [r EXCEPT !.severity = m, !.violations = more]
    BY <1>3, <1>4, <2>1 DEF Flag
  <2> QED BY <1>2, <2>2
<1>6. IsResult(Flag(r, n, v))
  BY <1>5 DEF IsResult
<1> QED BY <1>2, <1>3, <1>5, <1>6

LEMMA Mended ==
  ASSUME NEW r, IsResult(r), NEW text
  PROVE  /\ IsResult([r EXCEPT !.cleaned = text])
         /\ [r EXCEPT !.cleaned = text].cleaned = text
         /\ [r EXCEPT !.cleaned = text].severity = r.severity /\ r.severity \in Nat
<1>1. PICK old, violations : \E severity \in Nat :
        r = [cleaned |-> old, severity |-> severity, violations |-> violations]
  BY DEF IsResult
<1>2. PICK severity \in Nat :
        r = [cleaned |-> old, severity |-> severity, violations |-> violations]
  BY <1>1
<1>3. [r EXCEPT !.cleaned = text] = [cleaned |-> text, severity |-> severity, violations |-> violations]
  BY <1>2
<1>4. IsResult([r EXCEPT !.cleaned = text])
  BY <1>3 DEF IsResult
<1> QED BY <1>2, <1>3, <1>4

\* No later layer takes back the severity of an earlier one.
Raises(r, s) == IsResult(s) /\ r.severity \in Nat /\ s.severity \in Nat /\ r.severity <= s.severity

\* A text without a phrase of the vocabulary stays; any other is rejected.
LEMMA VocabularyLayer ==
  ASSUME NEW c, NEW r, IsResult(r)
  PROVE  /\ Raises(r, check_ai_vocabulary(c, r))
         /\ check_ai_vocabulary(c, r).severity < 2 =>
              /\ check_ai_vocabulary(c, r).cleaned = r.cleaned
              /\ \A phrase \in AI_VOCABULARY \cup c.extra_ai_phrases : phrase \notin SubSeqs(r.cleaned)
<1>1. PICK f : f = Flag(r, 2, "ai vocabulary")
  OBVIOUS
<1>2. /\ IsResult(f) /\ r.severity \in Nat /\ f.severity \in Nat
      /\ r.severity <= f.severity /\ 2 <= f.severity
  BY <1>1, Flagged
<1>3. r.severity <= r.severity
  BY <1>2
<1>4. CASE \E phrase \in AI_VOCABULARY \cup c.extra_ai_phrases : phrase \in SubSeqs(r.cleaned)
  <2>1. check_ai_vocabulary(c, r) = f
    BY <1>1, <1>4 DEF check_ai_vocabulary
  <2> QED BY <1>2, <2>1 DEF Raises
<1>5. CASE ~ \E phrase \in AI_VOCABULARY \cup c.extra_ai_phrases : phrase \in SubSeqs(r.cleaned)
  <2>1. check_ai_vocabulary(c, r) = r
    BY <1>5 DEF check_ai_vocabulary
  <2> QED BY <1>2, <1>3, <1>5, <2>1 DEF Raises
<1> QED BY <1>4, <1>5

\* A text without an opener stays; any other is rejected.
LEMMA OpenerLayer ==
  ASSUME NEW c, NEW r, IsResult(r)
  PROVE  /\ Raises(r, check_meta_commentary(c, r))
         /\ check_meta_commentary(c, r).severity < 2 =>
              /\ check_meta_commentary(c, r).cleaned = r.cleaned
              /\ r.cleaned = << >> \/ Head(r.cleaned) \notin Openers
<1>1. PICK f : f = Flag(r, 2, "meta commentary")
  OBVIOUS
<1>2. /\ IsResult(f) /\ r.severity \in Nat /\ f.severity \in Nat
      /\ r.severity <= f.severity /\ 2 <= f.severity
  BY <1>1, Flagged
<1>3. r.severity <= r.severity
  BY <1>2
<1>4. PICK g : g = [f EXCEPT !.cleaned = TrimStart(Tail(f.cleaned))]
  OBVIOUS
<1>5. IsResult(g) /\ g.severity = f.severity
  BY <1>2, <1>4, Mended
<1>6. CASE r.cleaned # << >> /\ Head(r.cleaned) \in Openers
  <2>1. check_meta_commentary(c, r) = g
    BY <1>1, <1>4, <1>6 DEF check_meta_commentary
  <2> QED BY <1>2, <1>5, <2>1 DEF Raises
<1>7. CASE ~ (r.cleaned # << >> /\ Head(r.cleaned) \in Openers)
  <2>1. check_meta_commentary(c, r) = r
    BY <1>7 DEF check_meta_commentary
  <2> QED BY <1>2, <1>3, <1>7, <2>1 DEF Raises
<1> QED BY <1>6, <1>7

\* Where paragraphs are rejected a text without them stays; any other is rejected.
LEMMA ParagraphLayer ==
  ASSUME NEW c, NEW r, IsResult(r)
  PROVE  /\ Raises(r, check_multi_paragraph(c, r))
         /\ check_multi_paragraph(c, r).severity < 2 =>
              /\ check_multi_paragraph(c, r).cleaned = r.cleaned
              /\ c.reject_multi_paragraph => ~ Contains(r.cleaned, "para")
<1>1. PICK f : f = Flag(r, 2, "paragraphs")
  OBVIOUS
<1>2. /\ IsResult(f) /\ r.severity \in Nat /\ f.severity \in Nat
      /\ r.severity <= f.severity /\ 2 <= f.severity
  BY <1>1, Flagged
<1>3. r.severity <= r.severity
  BY <1>2
<1>4. PICK g : g = [f EXCEPT !.cleaned = Remove(f.cleaned, "para")]
  OBVIOUS
<1>5. IsResult(g) /\ g.severity = f.severity
  BY <1>2, <1>4, Mended
<1>6. CASE c.reject_multi_paragraph /\ Contains(r.cleaned, "para")
  <2>1. check_multi_paragraph(c, r) = g
    BY <1>1, <1>4, <1>6 DEF check_multi_paragraph
  <2> QED BY <1>2, <1>5, <2>1 DEF Raises
<1>7. CASE ~ (c.reject_multi_paragraph /\ Contains(r.cleaned, "para"))
  <2>1. check_multi_paragraph(c, r) = r
    BY <1>7 DEF check_multi_paragraph
  <2> QED BY <1>2, <1>3, <1>7, <2>1 DEF Raises
<1> QED BY <1>6, <1>7

\* What is left of a text when a question at its end is cut.
Unquestioned(text) ==
  Trim(SubSeq(Trim(text), 1, Max({i \in DOMAIN Trim(text) : Trim(text)[i] \in {".", "!"}})))

\* A question at the end is told, and cut where there is something before it.
LEMMA QuestionLayer ==
  ASSUME NEW c, NEW r, IsResult(r)
  PROVE  /\ Raises(r, check_trailing_questions(c, r))
         /\ \/ check_trailing_questions(c, r).cleaned = r.cleaned
            \/ /\ check_trailing_questions(c, r).cleaned = Unquestioned(r.cleaned)
               /\ {i \in DOMAIN Trim(r.cleaned) : Trim(r.cleaned)[i] \in {".", "!"}} # {}
<1>1. PICK text : text = Trim(r.cleaned)
  OBVIOUS
<1>2. PICK n \in Nat : n = IF Generic(text) THEN 2 ELSE 1
  OBVIOUS
<1>3. PICK f : f = Flag(r, n, "trailing question")
  OBVIOUS
<1>4. /\ IsResult(f) /\ r.severity \in Nat /\ f.severity \in Nat
      /\ r.severity <= f.severity /\ f.cleaned = r.cleaned
  BY <1>3, Flagged
<1>5. r.severity <= r.severity
  BY <1>4
<1>6. PICK g : g = [f EXCEPT !.cleaned = Unquestioned(r.cleaned)]
  OBVIOUS
<1>7. IsResult(g) /\ g.severity = f.severity /\ g.cleaned = Unquestioned(r.cleaned)
  BY <1>4, <1>6, Mended
<1>8. \/ check_trailing_questions(c, r) = r
      \/ /\ {i \in DOMAIN text : text[i] \in {".", "!"}} # {}
         /\ check_trailing_questions(c, r) = g
      \/ check_trailing_questions(c, r) = f
  BY <1>1, <1>2, <1>3, <1>6 DEF check_trailing_questions, Unquestioned
<1> QED BY <1>1, <1>4, <1>5, <1>7, <1>8 DEF Raises

\* Dashes become full stops where they are mended, and nowhere else.
LEMMA DashLayer ==
  ASSUME NEW c, NEW r, IsResult(r)
  PROVE  /\ Raises(r, check_em_dashes(c, r))
         /\ \/ check_em_dashes(c, r).cleaned = r.cleaned
            \/ /\ c.fix_em_dashes
               /\ check_em_dashes(c, r).cleaned = ReplaceAll(r.cleaned, "dash", ".")
<1>1. PICK f : f = Flag(r, 1, "em-dash")
  OBVIOUS
<1>2. /\ IsResult(f) /\ r.severity \in Nat /\ f.severity \in Nat
      /\ r.severity <= f.severity /\ f.cleaned = r.cleaned
  BY <1>1, Flagged
<1>3. r.severity <= r.severity
  BY <1>2
<1>4. PICK g : g = [f EXCEPT !.cleaned = ReplaceAll(f.cleaned, "dash", ".")]
  OBVIOUS
<1>5. IsResult(g) /\ g.severity = f.severity /\ g.cleaned = ReplaceAll(f.cleaned, "dash", ".")
  BY <1>2, <1>4, Mended
<1>6. CASE c.fix_em_dashes /\ Contains(r.cleaned, "dash")
  <2>1. check_em_dashes(c, r) = g
    BY <1>1, <1>4, <1>6 DEF check_em_dashes
  <2> QED BY <1>2, <1>5, <1>6, <2>1 DEF Raises
<1>7. CASE ~ (c.fix_em_dashes /\ Contains(r.cleaned, "dash"))
  <2>1. check_em_dashes(c, r) = r
    BY <1>7 DEF check_em_dashes
  <2> QED BY <1>2, <1>3, <2>1 DEF Raises
<1> QED BY <1>6, <1>7

\* Where a text is cut that has more than so many sentences.
Ends(text) == {i \in DOMAIN text : text[i] \in Terminators}
KeptEnd(text, most) ==
  Max({i \in Ends(text) : Cardinality({j \in Ends(text) : j <= i}) <= most} \cup {0})

\* A text of too many sentences is cut where it can be.
LEMMA LengthLayer ==
  ASSUME NEW c, NEW r, IsResult(r)
  PROVE  LET after == check_length(c, r)
             end == KeptEnd(r.cleaned, c.max_sentences) IN
         /\ Raises(r, after)
         /\ \/ /\ after.cleaned = r.cleaned
               /\ \/ c.max_sentences = 0 \/ Sentences(r.cleaned) <= c.max_sentences
                  \/ end \notin 1..(Len(r.cleaned) - 1)
            \/ /\ end \in 1..(Len(r.cleaned) - 1)
               /\ after.cleaned = Trim(SubSeq(r.cleaned, 1, end))
<1>1. PICK told : /\ Raises(r, told) /\ told.cleaned = r.cleaned
                  /\ told = IF c.max_chars > 0 /\ Len(r.cleaned) > c.max_chars
                              THEN Flag(r, 1, "characters") ELSE r
  <2>1. PICK g : g = Flag(r, 1, "characters")
    OBVIOUS
  <2>2. Raises(r, g) /\ g.cleaned = r.cleaned /\ r.severity \in Nat
    BY <2>1, Flagged DEF Raises
  <2>3. Raises(r, r)
    BY <2>2 DEF Raises
  <2> QED BY <2>1, <2>2, <2>3
<1>2. PICK f : f = Flag(told, 1, "sentences")
  OBVIOUS
<1>3. Raises(told, f) /\ f.cleaned = r.cleaned
  BY <1>1, <1>2, Flagged DEF Raises
<1>4. PICK end : end = KeptEnd(r.cleaned, c.max_sentences)
  OBVIOUS
<1>5. PICK text : text = IF end \in 1..(Len(f.cleaned) - 1)
                           THEN Trim(SubSeq(f.cleaned, 1, end)) ELSE f.cleaned
  OBVIOUS
<1>6. PICK g : g = [f EXCEPT !.cleaned = text]
  OBVIOUS
<1>7. g.cleaned = text /\ Raises(r, g)
  <2>1. IsResult(f)
    BY <1>3 DEF Raises
  <2>2. IsResult(g) /\ g.cleaned = text /\ g.severity = f.severity
    BY <1>6, <2>1, Mended
  <2> QED BY <1>1, <1>3, <2>2 DEF Raises
<1>8. CASE c.max_sentences = 0 \/ Sentences(r.cleaned) <= c.max_sentences
  <2>1. check_length(c, r) = told
    BY <1>1, <1>8 DEF check_length
  <2> QED BY <1>1, <1>8, <2>1
<1>9. CASE ~ (c.max_sentences = 0 \/ Sentences(r.cleaned) <= c.max_sentences)
  <2>1. check_length(c, r) = g
    BY <1>1, <1>2, <1>4, <1>5, <1>6, <1>9 DEF check_length, KeptEnd, Ends
  <2> QED BY <1>3, <1>4, <1>5, <1>7, <2>1
<1> QED BY <1>8, <1>9

--------------------------------------------------------------------------------
(* Parts of a text                                                         *)

Token == STRING \cup Marks

\* p is what s has after its first o tokens, up to some other.
IsWindow(p, s, o) ==
  /\ p \in Seq(Token) /\ o \in Nat /\ o + Len(p) <= Len(s)
  /\ \A i \in 1..Len(p) : p[i] = s[o + i]

\* The places of a text.
LEMMA TextPlaces ==
  ASSUME NEW s \in Seq(Token)
  PROVE  Len(s) \in Nat /\ DOMAIN s = 1..Len(s) /\ \A i \in 1..Len(s) : s[i] \in Token
BY LenProperties, ElementOfSeq

\* A part of a part is a part.
LEMMA WindowOfWindow ==
  ASSUME NEW p, NEW q, NEW s \in Seq(Token), NEW o, NEW u, IsWindow(p, q, o), IsWindow(q, s, u)
  PROVE  IsWindow(p, s, u + o)
<1>1. PICK l \in Nat, m \in Nat, n \in Nat : l = Len(p) /\ m = Len(q) /\ n = Len(s)
  BY TextPlaces DEF IsWindow
<1>2. /\ p \in Seq(Token) /\ o \in Nat /\ u \in Nat /\ o + l <= m /\ u + m <= n
      /\ \A i \in 1..l : p[i] = q[o + i]
      /\ \A i \in 1..m : q[i] = s[u + i]
  BY <1>1 DEF IsWindow
<1>3. ASSUME NEW i \in 1..l PROVE p[i] = s[(u + o) + i]
  <2>1. o + i \in 1..m /\ u + (o + i) = (u + o) + i
    BY <1>2
  <2> QED BY <1>2, <2>1
<1>4. u + o \in Nat /\ (u + o) + l <= n
  BY <1>2
<1> QED BY <1>1, <1>2, <1>3, <1>4 DEF IsWindow

\* What is cut out of a text is a part of it.
LEMMA CutIsWindow ==
  ASSUME NEW s \in Seq(Token), NEW a \in 1..(Len(s) + 1), NEW b \in 0..Len(s)
  PROVE  /\ IsWindow(SubSeq(s, a, b), s, a - 1)
         /\ Len(SubSeq(s, a, b)) = IF a <= b THEN b - a + 1 ELSE 0
<1>1. PICK n \in Nat : n = Len(s) /\ \A i \in 1..n : s[i] \in Token
  BY TextPlaces
<1>2. a \in Int /\ b \in Int /\ \A i \in a..b : s[i] \in Token
  BY <1>1
<1>3. PICK p : p = SubSeq(s, a, b)
  OBVIOUS
<1>4. /\ p \in Seq(Token) /\ Len(p) = IF a <= b THEN b - a + 1 ELSE 0
      /\ \A i \in 1..(b - a + 1) : p[i] = s[a + i - 1]
  BY <1>2, <1>3, SubSeqProperties
<1>5. PICK l \in Nat : l = Len(p) /\ l = IF a <= b THEN b - a + 1 ELSE 0
  BY <1>4, TextPlaces
<1>6. a - 1 \in Nat /\ (a - 1) + l <= n
  BY <1>1, <1>5
<1>7. ASSUME NEW i \in 1..l PROVE p[i] = s[(a - 1) + i]
  <2>1. i \in 1..(b - a + 1) /\ a + i - 1 = (a - 1) + i
    BY <1>5
  <2> QED BY <1>4, <2>1
<1> QED BY <1>1, <1>3, <1>4, <1>5, <1>6, <1>7 DEF IsWindow

\* The consecutive parts of a text are those of the library.
LEMMA WindowsAreSubSeqs ==
  ASSUME NEW s \in Seq(Token), NEW p
  PROVE  p \in SubSeqs(s) <=> \E o : IsWindow(p, s, o)
<1>1. PICK n \in Nat : n = Len(s) /\ \A i \in 1..n : s[i] \in Token
  BY TextPlaces
<1>2. ASSUME p \in SubSeqs(s) PROVE \E o : IsWindow(p, s, o)
  <2>1. PICK i \in 0..n, j \in 0..n : p = SubSeq(s, i + 1, j)
    BY <1>1, <1>2 DEF SubSeqs
  <2>2. i + 1 \in 1..(Len(s) + 1) /\ j \in 0..Len(s)
    BY <1>1
  <2> QED BY <2>1, <2>2, CutIsWindow
<1>3. ASSUME NEW o, IsWindow(p, s, o) PROVE p \in SubSeqs(s)
  <2>1. PICK l \in Nat : l = Len(p) /\ p \in Seq(Token) /\ o \in Nat /\ o + l <= n
                         /\ \A i \in 1..l : p[i] = s[o + i]
    BY <1>1, <1>3, TextPlaces DEF IsWindow
  <2>2. PICK j \in 0..n : j = o + l /\ o \in 0..n /\ o + 1 \in 1..(n + 1)
    BY <2>1
  <2>3. PICK q : q = SubSeq(s, o + 1, j)
    OBVIOUS
  <2>4. IsWindow(q, s, (o + 1) - 1) /\ Len(q) = IF o + 1 <= j THEN j - (o + 1) + 1 ELSE 0
    BY <1>1, <2>2, <2>3, CutIsWindow
  <2>5. Len(q) = l /\ q \in Seq(Token)
    BY <2>1, <2>2, <2>4 DEF IsWindow
  <2>6. \A i \in 1..l : q[i] = p[i]
    <3>1. (o + 1) - 1 = o
      BY <2>1
    <3> QED BY <2>1, <2>4, <2>5, <3>1 DEF IsWindow
  <2>7. q = p
    BY <2>1, <2>5, <2>6, SeqEqual
  <2> QED BY <1>1, <2>2, <2>3, <2>7 DEF SubSeqs
<1> QED BY <1>2, <1>3

\* The greatest of some places, or zero.
LEMMA GreatestOrNone ==
  ASSUME NEW n \in Nat, NEW T \in SUBSET (1..n)
  PROVE  /\ Max(T \cup {0}) \in 0..n /\ (Max(T \cup {0}) \in T \/ (T = {} /\ Max(T \cup {0}) = 0))
         /\ \A y \in T : y <= Max(T \cup {0})
<1>1. \E x \in T \cup {0} : \A y \in T \cup {0} : x >= y
  <2>1. CASE T = {}
    BY <2>1
  <2>2. CASE T # {}
    <3>1. PICK x \in 1..n : x \in T /\ \A y \in T : y <= x
      BY <2>2, Greatest
    <3>2. \A y \in T \cup {0} : x >= y
      BY <3>1
    <3> QED BY <3>1, <3>2
  <2> QED BY <2>1, <2>2
<1>2. Max(T \cup {0}) = CHOOSE x \in T \cup {0} : \A y \in T \cup {0} : x >= y
  BY DEF Max
<1>3. PICK x \in T \cup {0} : x = Max(T \cup {0}) /\ \A y \in T \cup {0} : x >= y
  BY <1>1, <1>2
<1>4. x \in 0..n /\ \A y \in T : y <= x
  BY <1>3
<1>5. x \in T \/ (T = {} /\ x = 0)
  <2>1. \A y \in T : y \in Nat /\ y >= 1
    OBVIOUS
  <2> QED BY <1>3, <1>4, <2>1
<1> QED BY <1>3, <1>4, <1>5

\* The text without the white space before it ends where it did.
LEMMA StartTrimmed ==
  ASSUME NEW s \in Seq(Token)
  PROVE  \E o : /\ IsWindow(TrimStart(s), s, o) /\ o + Len(TrimStart(s)) = Len(s)
                /\ s # << >> /\ Head(s) \notin Blanks => o = 0
<1>1. PICK n \in Nat : n = Len(s) /\ DOMAIN s = 1..n
  BY TextPlaces
<1> DEFINE T == {i \in DOMAIN s : s[i] \notin Blanks} \cup {Len(s) + 1}
<1>2. T \in SUBSET Nat /\ n + 1 \in T /\ \A x \in T : x \in 1..(n + 1)
  BY <1>1
<1>3. PICK a \in T : a = Min(T) /\ \A y \in T : a <= y
  <2> HIDE DEF T
  <2> QED BY <1>2, MinIsLeast
<1>4. a \in 1..(n + 1) /\ TrimStart(s) = SubSeq(s, a, n)
  BY <1>1, <1>2, <1>3 DEF TrimStart
<1>5. PICK p : p = SubSeq(s, a, n)
  OBVIOUS
<1>6. IsWindow(p, s, a - 1) /\ Len(p) = IF a <= n THEN n - a + 1 ELSE 0
  BY <1>1, <1>4, <1>5, CutIsWindow
<1>7. (a - 1) + Len(p) = n
  BY <1>4, <1>6
<1>8. s # << >> /\ Head(s) \notin Blanks => a - 1 = 0
  <2>1. ASSUME s # << >>, Head(s) \notin Blanks PROVE a - 1 = 0
    <3>1. n # 0 /\ Head(s) = s[1]
      BY <1>1, <2>1, EmptySeq, HeadTailProperties
    <3>2. 1 \in T
      BY <1>1, <2>1, <3>1
    <3>3. a <= 1
      BY <1>3, <3>2
    <3> QED BY <1>4, <3>3
  <2> QED BY <2>1
<1> QED BY <1>1, <1>4, <1>5, <1>6, <1>7, <1>8

\* What is trimmed of a text is white space at its ends.
LEMMA Trimmed ==
  ASSUME NEW s \in Seq(Token)
  PROVE  \E o : /\ IsWindow(Trim(s), s, o)
                /\ s # << >> /\ Head(s) \notin Blanks => o = 0
                /\ s # << >> /\ s[Len(s)] \notin Blanks => o + Len(Trim(s)) = Len(s)
<1>1. PICK n \in Nat : n = Len(s) /\ DOMAIN s = 1..n
  BY TextPlaces
<1>2. PICK t : t = TrimStart(s)
  OBVIOUS
<1>3. PICK o : /\ IsWindow(t, s, o) /\ o + Len(t) = n
               /\ s # << >> /\ Head(s) \notin Blanks => o = 0
  BY <1>1, <1>2, StartTrimmed
<1>4. t \in Seq(Token) /\ o \in Nat
  BY <1>3 DEF IsWindow
<1>5. PICK m \in Nat : m = Len(t) /\ DOMAIN t = 1..m
  BY <1>4, TextPlaces
<1> DEFINE T == {i \in DOMAIN t : t[i] \notin Blanks}
<1>6. T \in SUBSET (1..m)
  BY <1>5
<1>7. PICK b \in 0..m : b = Max(T \cup {0}) /\ \A y \in T : y <= b
  <2> HIDE DEF T
  <2> QED BY <1>6, GreatestOrNone
<1>8. PICK p : p = Trim(s)
  OBVIOUS
<1>9. p = SubSeq(t, 1, b)
  BY <1>2, <1>7, <1>8 DEF Trim
<1>10. IsWindow(p, t, 1 - 1) /\ Len(p) = IF 1 <= b THEN b - 1 + 1 ELSE 0
  BY <1>4, <1>5, <1>7, <1>9, CutIsWindow
<1>11. IsWindow(p, s, o + (1 - 1))
  BY <1>3, <1>10, WindowOfWindow
<1>12. o + (1 - 1) = o /\ Len(p) = b
  BY <1>4, <1>10
<1>13. ASSUME s # << >>, s[Len(s)] \notin Blanks PROVE o + Len(p) = n
  <2>1. n \in 1..n
    BY <1>1, <1>13, EmptySeq
  <2>2. CASE m = 0
    BY <1>3, <1>5, <1>7, <1>12, <2>2
  <2>3. CASE m # 0
    <3>1. m \in 1..m /\ t[m] = s[o + m] /\ o + m = n
      BY <1>3, <1>5, <2>3 DEF IsWindow
    <3>2. m \in T
      BY <1>1, <1>5, <1>13, <3>1
    <3>3. b = m
      <4>1. m <= b
        <5> HIDE DEF T
        <5> QED BY <1>7, <3>2
      <4> QED BY <1>7, <4>1
    <3> QED BY <1>12, <3>1, <3>3
  <2> QED BY <2>2, <2>3
<1>14. IsWindow(p, s, o)
  BY <1>11, <1>12
<1> QED BY <1>1, <1>3, <1>8, <1>13, <1>14

--------------------------------------------------------------------------------
(* Sentences                                                               *)

\* The tokens that are the first of a sentence.
Starts(text) ==
  {i \in DOMAIN text :
    /\ text[i] \notin Terminators \cup Blanks
    /\ \A j \in 1..(i - 1) :
         text[j] \notin Terminators \cup Blanks => \E k \in j..i : text[k] \in Terminators}

\* Between the beginnings of two sentences is the end of one.
LEMMA EndBetween ==
  ASSUME NEW s \in Seq(Token), NEW i \in Starts(s), NEW j \in Starts(s), i < j
  PROVE  \E k \in Ends(s) : i < k /\ k < j
<1>1. PICK n \in Nat : n = Len(s) /\ DOMAIN s = 1..n
  BY TextPlaces
<1>2. i \in 1..n /\ j \in 1..n /\ i \in 1..(j - 1)
  BY <1>1 DEF Starts
<1>3. s[i] \notin Terminators \cup Blanks /\ s[j] \notin Terminators
  BY DEF Starts
<1>4. PICK k \in i..j : s[k] \in Terminators
  BY <1>2, <1>3 DEF Starts
<1>5. k # i /\ k # j /\ k \in 1..n
  BY <1>2, <1>3, <1>4
<1>6. i < k /\ k < j /\ k \in Ends(s)
  BY <1>1, <1>2, <1>4, <1>5 DEF Ends
<1> QED BY <1>6

\* A text that ends with the end of a sentence has no more sentences than ends.
LEMMA SentencesEnd ==
  ASSUME NEW s \in Seq(Token), s # << >> => s[Len(s)] \in Terminators
  PROVE  /\ IsFiniteSet(Ends(s)) /\ Cardinality(Ends(s)) \in Nat
         /\ Sentences(s) \in Nat /\ Sentences(s) <= Cardinality(Ends(s))
<1>1. PICK n \in Nat : n = Len(s) /\ DOMAIN s = 1..n
  BY TextPlaces
<1>2. Ends(s) \in SUBSET (1..n) /\ Starts(s) \in SUBSET (1..n)
  BY <1>1 DEF Ends, Starts
<1>3. IsFiniteSet(Ends(s)) /\ Cardinality(Ends(s)) \in Nat
  <2>1. IsFiniteSet(1..n)
    BY FS_Interval
  <2> QED BY <1>2, <2>1, FS_Subset, FS_CardinalityType
<1> DEFINE After(i) == {k \in Ends(s) : i < k}
           next == [i \in Starts(s) |-> Min(After(i))]
<1>4. ASSUME NEW i \in Starts(s)
      PROVE  Min(After(i)) \in After(i) /\ \A k \in After(i) : Min(After(i)) <= k
  <2>1. i \in 1..n /\ s[i] \notin Terminators
    BY <1>1 DEF Starts
  <2>2. s[n] \in Terminators
    <3>1. n # 0
      BY <2>1
    <3> QED BY <1>1, <3>1, EmptySeq
  <2>3. n \in After(i)
    BY <1>1, <2>1, <2>2 DEF Ends
  <2>4. After(i) # {} /\ After(i) \in SUBSET Nat
    BY <1>2, <2>3
  <2> HIDE DEF After
  <2> QED BY <2>4, MinIsLeast
<1>5. next \in [Starts(s) -> Ends(s)]
  BY <1>4
<1>6. ASSUME NEW i \in Starts(s), NEW j \in Starts(s), i < j PROVE next[i] # next[j]
  <2>1. PICK k \in Ends(s) : i < k /\ k < j
    BY <1>6, EndBetween
  <2>2. k \in After(i)
    BY <2>1
  <2>3. PICK x \in Ends(s), y \in Ends(s) : x = next[i] /\ y = next[j] /\ x <= k /\ j < y
    BY <1>4, <2>2
  <2>4. x \in Nat /\ y \in Nat /\ j \in Nat /\ k \in Nat
    BY <1>2, <2>1, <2>3
  <2> QED BY <2>1, <2>3, <2>4
<1>7. ASSUME NEW i \in Starts(s), NEW j \in Starts(s), next[i] = next[j] PROVE i = j
  <2>1. i \in Nat /\ j \in Nat
    BY <1>2
  <2>2. ~ (i < j) /\ ~ (j < i)
    BY <1>6, <1>7
  <2> QED BY <2>1, <2>2
<1> HIDE DEF next
<1>8. next \in Injection(Starts(s), Ends(s))
  BY <1>5, <1>7 DEF Injection, IsInjective
<1>9. IsFiniteSet(Starts(s)) /\ Cardinality(Starts(s)) <= Cardinality(Ends(s))
  BY <1>3, <1>8, FS_Injection
<1>10. Sentences(s) = Cardinality(Starts(s))
  BY DEF Sentences, Starts
<1> QED BY <1>3, <1>9, <1>10, FS_CardinalityType

\* A text without the end of a sentence is one sentence at most.
LEMMA NoEnd ==
  ASSUME NEW s \in Seq(Token), Ends(s) = {}
  PROVE  Sentences(s) \in Nat /\ Sentences(s) <= 1
<1>1. PICK n \in Nat : n = Len(s) /\ DOMAIN s = 1..n
  BY TextPlaces
<1>2. Starts(s) \in SUBSET (1..n)
  BY <1>1 DEF Starts
<1>3. ASSUME NEW i \in Starts(s), NEW j \in Starts(s) PROVE i = j
  <2>1. ~ (i < j) /\ ~ (j < i)
    BY EndBetween
  <2> QED BY <1>2, <2>1
<1>4. Sentences(s) = Cardinality(Starts(s))
  BY DEF Sentences, Starts
<1>5. CASE Starts(s) = {}
  BY <1>4, <1>5, FS_EmptySet
<1>6. CASE Starts(s) # {}
  <2>1. PICK i : Starts(s) = {i}
    BY <1>3, <1>6
  <2>2. Cardinality({i}) = 1
    BY FS_Singleton
  <2> QED BY <1>4, <2>1, <2>2
<1> QED BY <1>5, <1>6

\* What is kept of a text of too many sentences has no more than are allowed.
LEMMA KeptIsShort ==
  ASSUME NEW s \in Seq(Token), NEW most \in Nat \ {0}
  PROVE  LET end == KeptEnd(s, most) IN
         /\ end \in 0..Len(s)
         /\ end \notin 1..(Len(s) - 1) => Sentences(s) <= most
         /\ end \in 1..(Len(s) - 1) => Sentences(Trim(SubSeq(s, 1, end))) <= most
<1>1. PICK n \in Nat : n = Len(s) /\ DOMAIN s = 1..n
  BY TextPlaces
<1> DEFINE E == Ends(s)
           UpTo(i) == {j \in E : j <= i}
           Fitting == {i \in E : Cardinality(UpTo(i)) <= most}
<1>2. E \in SUBSET (1..n) /\ \A i \in 1..n : i \in E <=> s[i] \in Terminators
  BY <1>1 DEF Ends
<1> HIDE DEF E
<1>3. IsFiniteSet(E) /\ \A i \in E : IsFiniteSet(UpTo(i)) /\ Cardinality(UpTo(i)) \in Nat
  <2>1. IsFiniteSet(1..n)
    BY FS_Interval
  <2>2. IsFiniteSet(E)
    BY <1>2, <2>1, FS_Subset
  <2>3. \A i \in E : UpTo(i) \in SUBSET E
    OBVIOUS
  <2> HIDE DEF UpTo
  <2> QED BY <2>2, <2>3, FS_Subset, FS_CardinalityType
<1>4. Fitting \in SUBSET (1..n)
  BY <1>2
<1>5. PICK end \in 0..n : /\ end = KeptEnd(s, most)
                          /\ end \in Fitting \/ (Fitting = {} /\ end = 0)
  <2>1. KeptEnd(s, most) = Max(Fitting \cup {0})
    BY DEF KeptEnd, E
  <2> HIDE DEF Fitting
  <2> QED BY <1>4, <2>1, GreatestOrNone
<1>6. CASE Fitting = {}
  <2>1. CASE E # {}
    <3>1. E \in SUBSET Nat
      BY <1>2
    <3>2. PICK i \in E : \A j \in E : i <= j
      BY <2>1, <3>1, Least, Zenon
    <3>3. UpTo(i) = {i}
      <4>1. \A j \in E : j <= i => j = i
        BY <3>1, <3>2
      <4>2. i <= i
        BY <3>1
      <4> QED BY <4>1, <4>2
    <3>4. Cardinality({i}) = 1
      BY FS_Singleton
    <3>5. i \in Fitting
      BY <3>3, <3>4
    <3> QED BY <1>6, <3>5
  <2>2. CASE E = {}
    <3>1. Sentences(s) \in Nat /\ Sentences(s) <= 1
      BY <2>2, NoEnd DEF E
    <3>2. Sentences(s) <= most
      BY <3>1
    <3>3. end = 0
      BY <1>5, <1>6
    <3> QED BY <1>1, <1>5, <3>2, <3>3
  <2> QED BY <2>1, <2>2
<1>7. CASE Fitting # {}
  <2>1. end \in E /\ Cardinality(UpTo(end)) <= most /\ end \in 1..n /\ s[end] \in Terminators
    BY <1>2, <1>5, <1>7
  <2>2. CASE end = n
    <3>1. UpTo(end) = E
      <4>1. \A j \in E : j <= end
        BY <1>2, <2>2
      <4> QED BY <4>1
    <3>2. s # << >> => s[Len(s)] \in Terminators
      BY <1>1, <2>1, <2>2
    <3>3. Sentences(s) \in Nat /\ Cardinality(E) \in Nat /\ Sentences(s) <= Cardinality(E)
      BY <3>2, SentencesEnd DEF E
    <3>4. Sentences(s) <= most
      <4>1. Cardinality(E) <= most
        BY <2>1, <3>1
      <4> QED BY <3>3, <4>1
    <3> QED BY <1>1, <1>5, <2>2, <3>4
  <2>3. CASE end # n
    <3>1. PICK t : t = SubSeq(s, 1, end)
      OBVIOUS
    <3>2. IsWindow(t, s, 1 - 1) /\ Len(t) = IF 1 <= end THEN end - 1 + 1 ELSE 0
      BY <1>1, <1>5, <3>1, CutIsWindow
    <3>3. Len(t) = end /\ t \in Seq(Token) /\ \A i \in 1..end : t[i] = s[(1 - 1) + i]
      BY <2>1, <3>2 DEF IsWindow
    <3>4. t[end] \in Terminators /\ t[end] \notin Blanks /\ t # << >>
      <4>1. (1 - 1) + end = end /\ Len(t) # 0
        BY <2>1, <3>3
      <4>2. t[end] \in Terminators
        BY <2>1, <3>3, <4>1
      <4> QED BY <4>1, <4>2, EmptySeq DEF Terminators, Blanks
    <3>5. PICK p : p = Trim(t)
      OBVIOUS
    <3>6. PICK o : IsWindow(p, t, o) /\ o + Len(p) = end
      BY <3>3, <3>4, <3>5, Trimmed
    <3>7. PICK l \in Nat : /\ l = Len(p) /\ p \in Seq(Token) /\ o \in Nat /\ o + l = end
                           /\ \A i \in 1..l : p[i] = t[o + i]
      BY <3>6, TextPlaces DEF IsWindow
    <3>8. \A i \in 1..l : o + i \in 1..end /\ p[i] = s[o + i]
      <4>1. \A i \in 1..l : o + i \in 1..end /\ (1 - 1) + (o + i) = o + i
        BY <3>7
      <4> QED BY <3>3, <3>7, <4>1
    <3>9. p # << >> => p[Len(p)] \in Terminators
      <4>1. p # << >> => l \in 1..l
        BY <3>7, EmptySeq
      <4> QED BY <2>1, <3>7, <3>8, <4>1
    <3>10. Sentences(p) \in Nat /\ Cardinality(Ends(p)) \in Nat /\ Sentences(p) <= Cardinality(Ends(p))
      BY <3>7, <3>9, SentencesEnd
    <3>11. DOMAIN p = 1..l
      BY <3>7, TextPlaces
    <3> DEFINE moved == [i \in Ends(p) |-> o + i]
    <3>12. \A i \in Ends(p) : i \in 1..l /\ o + i \in UpTo(end)
      <4>1. \A i \in Ends(p) : i \in 1..l /\ p[i] \in Terminators
        BY <3>11 DEF Ends
      <4>2. \A i \in 1..l : o + i \in 1..n /\ o + i <= end
        BY <1>5, <3>8
      <4> QED BY <1>2, <3>8, <4>1, <4>2
    <3>13. moved \in Injection(Ends(p), UpTo(end))
      <4>1. moved \in [Ends(p) -> UpTo(end)]
        BY <3>12
      <4>2. \A i, j \in Ends(p) : moved[i] = moved[j] => i = j
        BY <3>7, <3>12
      <4> HIDE DEF moved, UpTo
      <4> QED BY <4>1, <4>2 DEF Injection, IsInjective
    <3>14. Cardinality(Ends(p)) <= Cardinality(UpTo(end))
      <4> HIDE DEF moved, UpTo
      <4> QED BY <1>3, <2>1, <3>13, FS_Injection
    <3>15. Sentences(p) <= most
      <4>1. Cardinality(UpTo(end)) \in Nat
        BY <1>3, <2>1
      <4> HIDE DEF UpTo
      <4> QED BY <2>1, <3>10, <3>14, <4>1
    <3>16. end \in 1..(n - 1)
      BY <2>1, <2>3
    <3> QED BY <1>1, <1>5, <3>1, <3>5, <3>15, <3>16
  <2> QED BY <2>2, <2>3
<1> QED BY <1>6, <1>7

--------------------------------------------------------------------------------
(* What passes                                                             *)

\* A question is cut off the end of a text, never off its beginning.
LEMMA QuestionCut ==
  ASSUME NEW s \in Seq(Token), {i \in DOMAIN Trim(s) : Trim(s)[i] \in {".", "!"}} # {}
  PROVE  \E o : /\ IsWindow(Unquestioned(s), s, o)
                /\ s # << >> /\ Head(s) \notin Blanks => o = 0
<1>1. PICK t : t = Trim(s)
  OBVIOUS
<1>2. PICK o : IsWindow(t, s, o) /\ (s # << >> /\ Head(s) \notin Blanks => o = 0)
  BY <1>1, Trimmed
<1>3. PICK n \in Nat : n = Len(t) /\ DOMAIN t = 1..n /\ t \in Seq(Token) /\ o \in Nat
  BY <1>2, TextPlaces DEF IsWindow
<1> DEFINE E == {i \in DOMAIN t : t[i] \in {".", "!"}}
<1>4. PICK m \in 1..n : m = Max(E)
  <2>1. E # {} /\ E \in SUBSET (1..n)
    BY <1>1, <1>3
  <2> HIDE DEF E
  <2> QED BY <2>1, Greatest
<1>5. PICK u : u = SubSeq(t, 1, m)
  OBVIOUS
<1>6. IsWindow(u, t, 1 - 1) /\ Len(u) = IF 1 <= m THEN m - 1 + 1 ELSE 0
  BY <1>3, <1>4, <1>5, CutIsWindow
<1>7. Len(u) = m /\ u \in Seq(Token) /\ u # << >>
  <2>1. Len(u) = m /\ u \in Seq(Token) /\ Len(u) # 0
    BY <1>4, <1>6 DEF IsWindow
  <2> QED BY <2>1, EmptySeq
<1>8. PICK p : p = Trim(u)
  OBVIOUS
<1>9. PICK q : IsWindow(p, u, q) /\ (u # << >> /\ Head(u) \notin Blanks => q = 0)
  BY <1>7, <1>8, Trimmed
<1>10. IsWindow(p, s, o + ((1 - 1) + q))
  BY <1>2, <1>3, <1>6, <1>9, WindowOfWindow
<1>11. p = Unquestioned(s)
  BY <1>1, <1>4, <1>5, <1>8 DEF Unquestioned
<1>12. ASSUME s # << >>, Head(s) \notin Blanks PROVE o + ((1 - 1) + q) = 0
  <2>1. o = 0
    BY <1>2, <1>12
  <2>2. u[1] = t[1] /\ t[1] = s[1]
    <3>1. 1 \in 1..Len(u) /\ 1 \in 1..Len(t) /\ (1 - 1) + 1 = 1
      BY <1>3, <1>4, <1>7
    <3> QED BY <1>2, <1>6, <2>1, <3>1 DEF IsWindow
  <2>3. Head(u) = u[1] /\ Head(s) = s[1]
    BY <1>7, <1>12, HeadTailProperties
  <2>4. q = 0
    BY <1>7, <1>9, <1>12, <2>2, <2>3
  <2> QED BY <2>1, <2>4
<1> QED BY <1>10, <1>11, <1>12

\* A text that was cut at the end of a sentence is a part of what it was, and begins
\* as that did.
LEMMA LengthCut ==
  ASSUME NEW s \in Seq(Token), NEW end \in 1..(Len(s) - 1)
  PROVE  \E o : /\ IsWindow(Trim(SubSeq(s, 1, end)), s, o)
                /\ s # << >> /\ Head(s) \notin Blanks => o = 0
<1>1. PICK n \in Nat : n = Len(s) /\ end \in 1..n
  BY TextPlaces
<1>2. PICK u : u = SubSeq(s, 1, end)
  OBVIOUS
<1>3. IsWindow(u, s, 1 - 1) /\ Len(u) = IF 1 <= end THEN end - 1 + 1 ELSE 0
  BY <1>1, <1>2, CutIsWindow
<1>4. Len(u) = end /\ u \in Seq(Token) /\ u # << >>
  <2>1. Len(u) = end /\ u \in Seq(Token) /\ Len(u) # 0
    BY <1>1, <1>3 DEF IsWindow
  <2> QED BY <2>1, EmptySeq
<1>5. PICK p : p = Trim(u)
  OBVIOUS
<1>6. PICK q : IsWindow(p, u, q) /\ (u # << >> /\ Head(u) \notin Blanks => q = 0)
  BY <1>4, <1>5, Trimmed
<1>7. IsWindow(p, s, (1 - 1) + q)
  BY <1>3, <1>6, WindowOfWindow
<1>8. ASSUME s # << >>, Head(s) \notin Blanks PROVE (1 - 1) + q = 0
  <2>1. u[1] = s[1]
    <3>1. 1 \in 1..Len(u) /\ (1 - 1) + 1 = 1
      BY <1>1, <1>4
    <3> QED BY <1>3, <3>1 DEF IsWindow
  <2>2. Head(u) = u[1] /\ Head(s) = s[1]
    BY <1>4, <1>8, HeadTailProperties
  <2>3. q = 0
    BY <1>4, <1>6, <1>8, <2>1, <2>2
  <2> QED BY <2>3
<1> QED BY <1>2, <1>5, <1>7, <1>8

\* The same tokens, but for dashes that have become full stops where they are mended.
IsAlike(d, b, mended) ==
  /\ d \in Seq(Token) /\ Len(d) = Len(b)
  /\ \A i \in 1..Len(d) : d[i] = b[i] \/ (mended /\ d[i] = ".")

\* What becomes of a text that passes: it goes through the first three layers as it
\* is; one part of it is left by the fourth; the fifth mends the dashes in that; and
\* the last one leaves a part of what it finds.
WentThrough(c, text, b, d, e, o, u) ==
  /\ \A phrase \in AI_VOCABULARY \cup c.extra_ai_phrases : phrase \notin SubSeqs(text)
  /\ text = << >> \/ Head(text) \notin Openers
  /\ c.reject_multi_paragraph => ~ Contains(text, "para")
  /\ IsWindow(b, text, o) /\ (text # << >> /\ Head(text) \notin Blanks => o = 0)
  /\ IsAlike(d, b, c.fix_em_dashes)
  /\ IsWindow(e, d, u) /\ (d # << >> /\ Head(d) \notin Blanks => u = 0)
  /\ c.max_sentences > 0 => Sentences(e) <= c.max_sentences

\* Every text is a part of itself.
LEMMA WholeIsWindow ==
  ASSUME NEW s \in Seq(Token)
  PROVE  IsWindow(s, s, 0)
<1>1. PICK n \in Nat : n = Len(s)
  BY TextPlaces
<1>2. 0 + n <= n /\ \A i \in 1..n : 0 + i = i
  OBVIOUS
<1> QED BY <1>1, <1>2 DEF IsWindow

LEMMA PassedWentThrough ==
  ASSUME NEW c \in VoiceFilterConfig, NEW text \in Seq(Token), Passed(check(c, text))
  PROVE  \E b, d, o, u : WentThrough(c, text, b, d, check(c, text).cleaned, o, u)
<1>1. PICK r0 : r0 = Clean(text)
  OBVIOUS
<1>2. PICK r1 : r1 = check_ai_vocabulary(c, r0)
  OBVIOUS
<1>3. PICK r2 : r2 = check_meta_commentary(c, r1)
  OBVIOUS
<1>4. PICK r3 : r3 = check_multi_paragraph(c, r2)
  OBVIOUS
<1>5. PICK r4 : r4 = check_trailing_questions(c, r3)
  OBVIOUS
<1>6. PICK r5 : r5 = check_em_dashes(c, r4)
  OBVIOUS
<1>7. PICK r6 : r6 = check_length(c, r5)
  OBVIOUS
<1>8. check(c, text) = r6 /\ r6.severity < 2
  BY <1>1, <1>2, <1>3, <1>4, <1>5, <1>6, <1>7 DEF check, Passed
<1>9. IsResult(r0) /\ r0.cleaned = text
  BY <1>1 DEF Clean, IsResult
<1>10. Raises(r0, r1)
  BY <1>2, <1>9, VocabularyLayer
<1>11. Raises(r1, r2)
  BY <1>3, <1>10, OpenerLayer DEF Raises
<1>12. Raises(r2, r3)
  BY <1>4, <1>11, ParagraphLayer DEF Raises
<1>13. Raises(r3, r4)
  BY <1>5, <1>12, QuestionLayer DEF Raises
<1>14. Raises(r4, r5)
  BY <1>6, <1>13, DashLayer DEF Raises
<1>15. PICK most \in Nat : most = c.max_sentences
  BY DEF VoiceFilterConfig
<1>16. PICK end : end = KeptEnd(r5.cleaned, most)
  OBVIOUS
<1>17. /\ Raises(r5, r6)
       /\ \/ /\ r6.cleaned = r5.cleaned
             /\ most = 0 \/ Sentences(r5.cleaned) <= most \/ end \notin 1..(Len(r5.cleaned) - 1)
          \/ /\ end \in 1..(Len(r5.cleaned) - 1)
             /\ r6.cleaned = Trim(SubSeq(r5.cleaned, 1, end))
  <2>1. IsResult(r5)
    BY <1>14 DEF Raises
  <2> QED BY <1>7, <1>15, <1>16, <2>1, LengthLayer
<1>18. r1.severity < 2 /\ r2.severity < 2 /\ r3.severity < 2
  BY <1>8, <1>11, <1>12, <1>13, <1>14, <1>17 DEF Raises
<1>19. /\ r1.cleaned = text
       /\ \A phrase \in AI_VOCABULARY \cup c.extra_ai_phrases : phrase \notin SubSeqs(text)
  BY <1>2, <1>9, <1>18, VocabularyLayer
<1>20. r2.cleaned = text /\ (text = << >> \/ Head(text) \notin Openers)
  BY <1>3, <1>10, <1>18, <1>19, OpenerLayer DEF Raises
<1>21. r3.cleaned = text /\ (c.reject_multi_paragraph => ~ Contains(text, "para"))
  BY <1>4, <1>11, <1>18, <1>20, ParagraphLayer DEF Raises
<1>22. PICK b : b = r4.cleaned
  OBVIOUS
<1>23. PICK o : IsWindow(b, text, o) /\ (text # << >> /\ Head(text) \notin Blanks => o = 0)
  <2>1. IsResult(r3)
    BY <1>12 DEF Raises
  <2>2. \/ b = text
        \/ /\ b = Unquestioned(text)
           /\ {i \in DOMAIN Trim(text) : Trim(text)[i] \in {".", "!"}} # {}
    BY <1>5, <1>21, <1>22, <2>1, QuestionLayer
  <2> QED BY <2>2, WholeIsWindow, QuestionCut
<1>24. PICK d : d = r5.cleaned
  OBVIOUS
<1>25. IsAlike(d, b, c.fix_em_dashes)
  <2>1. IsResult(r4)
    BY <1>13 DEF Raises
  <2>2. d = b \/ (c.fix_em_dashes /\ d = ReplaceAll(b, "dash", "."))
    BY <1>6, <1>22, <1>24, <2>1, DashLayer
  <2>3. PICK n \in Nat : n = Len(b) /\ b \in Seq(Token) /\ \A i \in 1..n : b[i] \in Token
    BY <1>23, TextPlaces DEF IsWindow
  <2>4. CASE d = b
    BY <2>3, <2>4 DEF IsAlike
  <2>5. CASE c.fix_em_dashes /\ d = ReplaceAll(b, "dash", ".")
    <3>1. "." \in Token
      BY DEF Token, Marks
    <3>2. d = [i \in 1..n |-> IF b[i] = "dash" THEN "." ELSE b[i]]
      BY <2>3, <2>5 DEF ReplaceAll
    <3>3. \A i \in 1..n : (IF b[i] = "dash" THEN "." ELSE b[i]) \in Token
      BY <2>3, <3>1
    <3>4. d \in Seq(Token) /\ Len(d) = n
      BY <3>2, <3>3
    <3>5. \A i \in 1..n : d[i] = b[i] \/ d[i] = "."
      BY <3>2
    <3> QED BY <2>3, <2>5, <3>4, <3>5 DEF IsAlike
  <2> QED BY <2>2, <2>4, <2>5
<1>26. d \in Seq(Token)
  BY <1>25 DEF IsAlike
<1>27. PICK e : e = r6.cleaned
  OBVIOUS
<1>28. PICK u : IsWindow(e, d, u) /\ (d # << >> /\ Head(d) \notin Blanks => u = 0)
  BY <1>17, <1>24, <1>26, <1>27, WholeIsWindow, LengthCut
<1>29. ASSUME most > 0 PROVE Sentences(e) <= most
  <2>1. /\ end \notin 1..(Len(d) - 1) => Sentences(d) <= most
        /\ end \in 1..(Len(d) - 1) => Sentences(Trim(SubSeq(d, 1, end))) <= most
    BY <1>16, <1>24, <1>26, <1>29, KeptIsShort
  <2> QED BY <1>17, <1>24, <1>27, <1>29, <2>1
<1>30. WentThrough(c, text, b, d, e, o, u)
  BY <1>15, <1>19, <1>20, <1>21, <1>23, <1>25, <1>28, <1>29 DEF WentThrough
<1> QED BY <1>8, <1>27, <1>30

\* A token that is not a full stop stood where it stands before the dashes were
\* mended, and a part of what is left was there before.
LEMMA PassedFits ==
  ASSUME NEW c \in VoiceFilterConfig, NEW text \in Seq(Token), Passed(check(c, text))
  PROVE  LET cleaned == check(c, text).cleaned IN
         /\ \A phrase \in AI_VOCABULARY \cup c.extra_ai_phrases :
              phrase \in SubSeqs(cleaned) => c.fix_em_dashes /\ Contains(phrase, ".")
         /\ Opens(cleaned) => text # << >> /\ Head(text) \in Blanks
         /\ c.reject_multi_paragraph => ~ Contains(cleaned, "para")
         /\ c.max_sentences > 0 => Sentences(cleaned) <= c.max_sentences
<1>1. PICK e : e = check(c, text).cleaned
  OBVIOUS
<1>2. PICK b, d, o, u : WentThrough(c, text, b, d, e, o, u)
  BY <1>1, PassedWentThrough
<1>3. /\ IsWindow(b, text, o) /\ IsAlike(d, b, c.fix_em_dashes) /\ IsWindow(e, d, u)
      /\ text # << >> /\ Head(text) \notin Blanks => o = 0
      /\ d # << >> /\ Head(d) \notin Blanks => u = 0
      /\ c.max_sentences > 0 => Sentences(e) <= c.max_sentences
  BY <1>2 DEF WentThrough
<1>4. PICK k \in Nat, l \in Nat, m \in Nat :
        /\ k = Len(text) /\ l = Len(b) /\ l = Len(d) /\ m = Len(e)
        /\ b \in Seq(Token) /\ d \in Seq(Token) /\ e \in Seq(Token)
        /\ o \in Nat /\ u \in Nat /\ o + l <= k /\ u + m <= l
  BY <1>3, TextPlaces DEF IsWindow, IsAlike
<1>5. /\ \A i \in 1..l : b[i] = text[o + i] /\ (d[i] = b[i] \/ (c.fix_em_dashes /\ d[i] = "."))
      /\ \A i \in 1..m : e[i] = d[u + i]
  BY <1>3, <1>4 DEF IsWindow, IsAlike
<1>6. ASSUME NEW phrase \in AI_VOCABULARY \cup c.extra_ai_phrases, phrase \in SubSeqs(e),
             ~ (c.fix_em_dashes /\ Contains(phrase, "."))
      PROVE  FALSE
  <2>1. PICK q : IsWindow(phrase, e, q)
    BY <1>4, <1>6, WindowsAreSubSeqs
  <2>2. IsWindow(phrase, d, u + q)
    BY <1>3, <1>4, <2>1, WindowOfWindow
  <2>3. PICK x, n \in Nat : /\ x = u + q /\ x \in Nat /\ n = Len(phrase) /\ x + n <= l
                            /\ phrase \in Seq(Token) /\ \A i \in 1..n : phrase[i] = d[x + i]
    <3>1. phrase \in Seq(Token)
      BY <2>2 DEF IsWindow
    <3> QED BY <1>4, <2>2, <3>1, TextPlaces DEF IsWindow
  <2>4. ASSUME NEW i \in 1..n PROVE phrase[i] = b[x + i]
    <3>1. x + i \in 1..l
      BY <2>3
    <3>2. c.fix_em_dashes => phrase[i] # "."
      BY <1>6, <2>3 DEF Contains
    <3> QED BY <1>5, <2>3, <3>1, <3>2
  <2>5. IsWindow(phrase, b, x)
    BY <1>4, <2>3, <2>4 DEF IsWindow
  <2>6. IsWindow(phrase, text, o + x)
    BY <1>3, <2>5, WindowOfWindow
  <2>7. phrase \in SubSeqs(text)
    BY <2>6, WindowsAreSubSeqs
  <2> QED BY <1>2, <2>7 DEF WentThrough
<1>7. ASSUME Opens(e), text = << >> \/ Head(text) \notin Blanks PROVE FALSE
  <2>0. PICK first \in 1..m : e[first] \in Openers /\ \A j \in 1..(first - 1) : e[j] \in Blanks
    <3>1. DOMAIN e = 1..m
      BY <1>4, TextPlaces
    <3> QED BY <1>7, <3>1 DEF Opens
  <2>1. m # 0 /\ l # 0 /\ k # 0
    BY <1>4, <2>0
  <2>2. text # << >> /\ d # << >>
    BY <1>4, <2>1, EmptySeq
  <2>3. /\ Head(d) = d[1] /\ Head(text) = text[1]
    BY <1>4, <2>2, HeadTailProperties
  <2>4. o = 0 /\ b[1] = text[1]
    <3>1. o = 0
      BY <1>3, <1>7, <2>2
    <3>2. 1 \in 1..l /\ 0 + 1 = 1
      BY <2>1
    <3> QED BY <1>5, <3>1, <3>2
  <2>5. d[1] = text[1] \/ d[1] = "."
    <3>1. 1 \in 1..l
      BY <2>1
    <3> QED BY <1>5, <2>4, <3>1
  <2>6. u = 0 /\ e[1] = d[1]
    <3>1. d[1] \notin Blanks
      BY <1>7, <2>2, <2>3, <2>5 DEF Blanks
    <3>2. u = 0
      BY <1>3, <2>2, <2>3, <3>1
    <3>3. 1 \in 1..m /\ 0 + 1 = 1
      BY <2>1
    <3> QED BY <1>5, <3>2, <3>3
  <2>7. "." \notin Openers
    BY FilterAssumption DEF Marks
  <2>8. first = 1
    <3>1. e[1] \notin Blanks
      BY <1>7, <2>2, <2>3, <2>5, <2>6 DEF Blanks
    <3>2. 1 \in 1..(first - 1) \/ first = 1
      BY <2>0
    <3> QED BY <2>0, <3>1, <3>2
  <2>9. Head(text) \in Openers
    BY <2>0, <2>3, <2>5, <2>6, <2>7, <2>8
  <2> QED BY <1>2, <2>2, <2>9 DEF WentThrough
<1>8. ASSUME c.reject_multi_paragraph, Contains(e, "para") PROVE FALSE
  <2>1. PICK i \in 1..m : e[i] = "para"
    BY <1>4, <1>8 DEF Contains
  <2>2. u + i \in 1..l /\ o + (u + i) \in 1..k
    BY <1>4
  <2>3. d[u + i] = "para"
    BY <1>5, <2>1
  <2>4. b[u + i] = "para"
    BY <1>5, <2>2, <2>3
  <2>5. text[o + (u + i)] = "para"
    BY <1>5, <2>2, <2>4
  <2>6. Contains(text, "para")
    BY <1>4, <2>2, <2>5 DEF Contains
  <2> QED BY <1>2, <1>8, <2>6 DEF WentThrough
<1> QED BY <1>1, <1>3, <1>6, <1>7, <1>8

--------------------------------------------------------------------------------
(* The phrases                                                             *)

\* Phrases of which no two are the same in lower case.
Dna == {d \in Seq(DnaPhrase) :
          \A i, j \in DOMAIN d : lowercase(d[i].phrase) = lowercase(d[j].phrase) => i = j}

\* The phrases that were there still are, in their places, confirmed no less often.
Confirmed(d, e) ==
  /\ d \in Dna /\ e \in Dna /\ Len(d) <= Len(e)
  /\ \A i \in DOMAIN d : e[i].phrase = d[i].phrase /\ d[i].confirmed_by <= e[i].confirmed_by

\* The places of phrases, and what they are.
LEMMA DnaPlaces ==
  ASSUME NEW d \in Dna
  PROVE  /\ d \in Seq(DnaPhrase) /\ Len(d) \in Nat /\ DOMAIN d = 1..Len(d)
         /\ \A i \in DOMAIN d : /\ d[i] \in DnaPhrase
                                /\ d[i].confirmed_by \in Nat /\ d[i].phrase \in Seq(DOMAIN Word)
<1>1. d \in Seq(DnaPhrase)
  BY DEF Dna
<1>2. Len(d) \in Nat /\ DOMAIN d = 1..Len(d) /\ \A i \in DOMAIN d : d[i] \in DnaPhrase
  BY <1>1, LenProperties, ElementOfSeq
<1> QED BY <1>1, <1>2 DEF DnaPhrase

\* Phrases have grown from themselves, and what grew of what has grown has grown.
LEMMA GrownOrder ==
  ASSUME NEW c \in Dna, NEW d \in Dna, NEW e \in Dna
  PROVE  Confirmed(c, c) /\ (Confirmed(c, d) /\ Confirmed(d, e) => Confirmed(c, e))
<1>1. PICK l \in Nat, m \in Nat, n \in Nat :
        /\ l = Len(c) /\ m = Len(d) /\ n = Len(e)
        /\ DOMAIN c = 1..l /\ DOMAIN d = 1..m /\ DOMAIN e = 1..n
  BY DnaPlaces
<1>2. /\ \A i \in 1..l : c[i].confirmed_by \in Nat
      /\ \A i \in 1..m : d[i].confirmed_by \in Nat
      /\ \A i \in 1..n : e[i].confirmed_by \in Nat
  BY <1>1, DnaPlaces
<1>3. Confirmed(c, c)
  BY <1>1, <1>2 DEF Confirmed
<1>4. ASSUME Confirmed(c, d), Confirmed(d, e) PROVE Confirmed(c, e)
  <2>1. l <= m /\ m <= n
    BY <1>1, <1>4 DEF Confirmed
  <2>2. \A i \in 1..l : i \in 1..m /\ i \in 1..n
    BY <2>1
  <2>3. ASSUME NEW i \in 1..l
        PROVE  e[i].phrase = c[i].phrase /\ c[i].confirmed_by <= e[i].confirmed_by
    <3>1. /\ d[i].phrase = c[i].phrase /\ c[i].confirmed_by <= d[i].confirmed_by
          /\ e[i].phrase = d[i].phrase /\ d[i].confirmed_by <= e[i].confirmed_by
      BY <1>1, <1>4, <2>2 DEF Confirmed
    <3>2. PICK x \in Nat, y \in Nat, z \in Nat :
            x = c[i].confirmed_by /\ y = d[i].confirmed_by /\ z = e[i].confirmed_by
      BY <1>2, <2>2
    <3> QED BY <3>1, <3>2
  <2> QED BY <1>1, <2>1, <2>3 DEF Confirmed
<1> QED BY <1>3, <1>4

\* A phrase that is confirmed is counted where it is, or comes after the others.
LEMMA ConfirmGrows ==
  ASSUME NEW d \in Dna, NEW phrase \in Seq(DOMAIN Word)
  PROVE  Confirm(d, phrase) \in Dna /\ Confirmed(d, Confirm(d, phrase))
<1> DEFINE same == {i \in DOMAIN d : lowercase(d[i].phrase) = lowercase(phrase)}
<1>1. PICK n \in Nat : n = Len(d) /\ DOMAIN d = 1..n
  BY DnaPlaces
<1>2. /\ d \in Seq(DnaPhrase)
      /\ \A i \in 1..n : d[i] \in DnaPhrase /\ d[i].confirmed_by \in Nat /\ d[i].phrase \in Seq(DOMAIN Word)
      /\ \A i, j \in 1..n : lowercase(d[i].phrase) = lowercase(d[j].phrase) => i = j
  BY <1>1, DnaPlaces DEF Dna
<1>3. CASE same = {}
  <2> DEFINE new == [phrase |-> phrase, confirmed_by |-> 1]
             e == Append(d, new)
  <2>1. new \in DnaPhrase /\ new.phrase = phrase
    BY DEF DnaPhrase
  <2>2. Confirm(d, phrase) = e
    BY <1>3 DEF Confirm
  <2> HIDE DEF new
  <2>3. /\ e \in Seq(DnaPhrase) /\ Len(e) = n + 1 /\ \A i \in 1..n : e[i] = d[i]
        /\ e[n + 1] = new
    BY <1>1, <1>2, <2>1, AppendProperties
  <2>4. DOMAIN e = 1..(n + 1)
    BY <2>3, LenProperties
  <2> HIDE DEF e
  <2>5. ASSUME NEW i \in 1..(n + 1), NEW j \in 1..(n + 1),
               lowercase(e[i].phrase) = lowercase(e[j].phrase)
        PROVE  i = j
    <3>1. \A k \in 1..n : lowercase(d[k].phrase) # lowercase(phrase)
      BY <1>1, <1>3
    <3>2. i \in 1..n \/ i = n + 1
      OBVIOUS
    <3>3. j \in 1..n \/ j = n + 1
      OBVIOUS
    <3> QED BY <1>2, <2>1, <2>3, <2>5, <3>1, <3>2, <3>3
  <2>6. e \in Dna
    BY <2>3, <2>4, <2>5 DEF Dna
  <2>7. n <= n + 1
    OBVIOUS
  <2>8. Confirmed(d, e)
    BY <1>1, <1>2, <2>3, <2>6, <2>7 DEF Confirmed
  <2> QED BY <2>2, <2>6, <2>8
<1>4. CASE same # {}
  <2>1. Min(same) \in same
    <3>1. same \in SUBSET Nat
      BY <1>1
    <3> QED BY <1>4, <3>1, MinIsLeast
  <2>2. PICK m \in 1..n : m = Min(same)
    BY <1>1, <2>1
  <2> DEFINE e == [d EXCEPT ![m].confirmed_by = @ + 1]
  <2>3. Confirm(d, phrase) = e
    BY <1>4, <2>2 DEF Confirm
  <2>4. d \in [1..n -> DnaPhrase]
    BY <1>1, <1>2, LenProperties
  <2>5. [d[m] EXCEPT !.confirmed_by = @ + 1] \in DnaPhrase
    <3>1. PICK c \in Nat : c = d[m].confirmed_by
      BY <1>2
    <3>2. c + 1 \in Nat /\ d[m] \in [phrase : Seq(DOMAIN Word), confirmed_by : Nat]
      BY <1>2 DEF DnaPhrase
    <3>3. [d[m] EXCEPT !.confirmed_by = c + 1] \in [phrase : Seq(DOMAIN Word), confirmed_by : Nat]
      BY <3>2
    <3> QED BY <3>1, <3>3 DEF DnaPhrase
  <2>6. /\ e \in [1..n -> DnaPhrase]
        /\ \A i \in 1..n : e[i] = IF i = m THEN [d[m] EXCEPT !.confirmed_by = @ + 1] ELSE d[i]
    BY <2>4, <2>5
  <2>7. \A i \in 1..n : /\ e[i].phrase = d[i].phrase
                        /\ e[i].confirmed_by = IF i = m THEN d[i].confirmed_by + 1 ELSE d[i].confirmed_by
    BY <1>2, <2>6 DEF DnaPhrase
  <2> HIDE DEF e
  <2>8. e \in Seq(DnaPhrase) /\ Len(e) = n /\ DOMAIN e = 1..n
    BY <2>6
  <2>9. e \in Dna
    BY <1>2, <2>7, <2>8 DEF Dna
  <2>10. ASSUME NEW i \in 1..n PROVE d[i].confirmed_by <= e[i].confirmed_by
    <3>1. PICK c \in Nat : c = d[i].confirmed_by
      BY <1>2
    <3>2. e[i].confirmed_by = c + 1 \/ e[i].confirmed_by = c
      BY <2>7, <3>1
    <3> QED BY <3>1, <3>2
  <2>11. Confirmed(d, e)
    BY <1>1, <2>7, <2>8, <2>9, <2>10 DEF Confirmed
  <2> QED BY <2>3, <2>9, <2>11
<1> QED BY <1>3, <1>4

\* The phrases on the way from some to those that a list makes of them.
IsConfirming(f, d, list) ==
  /\ f \in [0..Len(list) -> Dna]
  /\ f[0] = d
  /\ \A k \in 1..Len(list) : f[k] = Confirm(f[k - 1], list[k])
  /\ FoldLeft(Confirm, d, list) = f[Len(list)]

\* The phrases of a list are confirmed one after the other.
LEMMA ConfirmedIsLast ==
  ASSUME NEW d \in Dna, NEW list \in Seq(Seq(DOMAIN Word))
  PROVE  \E f : IsConfirming(f, d, list)
<1> DEFINE D == DOMAIN list
           n == Len(list)
           step == [k \in 1..n |-> [e \in Dna |-> Confirm(e, list[k])]]
           IsFold(iter) ==
             iter = [s \in SUBSET D |->
                       IF s = {} THEN d ELSE Confirm(iter[s \ {Max(s)}], list[Max(s)])]
           fold == CHOOSE iter : IsFold(iter)
           f == [k \in 0..n |-> fold[1..k]]
<1>1. D = 1..n /\ n \in Nat /\ \A k \in 1..n : list[k] \in Seq(DOMAIN Word)
  BY LenProperties, ElementOfSeq
<1>2. step \in [1..n -> [Dna -> Dna]]
  <2>1. ASSUME NEW k \in 1..n, NEW e \in Dna PROVE Confirm(e, list[k]) \in Dna
    BY <1>1, ConfirmGrows
  <2> QED BY <2>1
<1>3. PICK g \in [SUBSET (1..n) -> Dna] :
        \A s \in SUBSET (1..n) : g[s] = IF s = {} THEN d ELSE step[Max(s)][g[s \ {Max(s)}]]
  <2>1. PICK g : IsFoldOver(g, Dna, n, d, step)
    <3> HIDE DEF step, n
    <3> QED BY <1>1, <1>2, FoldExists
  <2> HIDE DEF step, n
  <2> QED BY <2>1 DEF IsFoldOver
<1>4. ASSUME NEW s \in SUBSET (1..n), s # {}
      PROVE  Max(s) \in 1..n /\ s \ {Max(s)} \in SUBSET (1..n)
  <2>1. Max(s) \in s
    BY <1>1, <1>4, Greatest
  <2> QED BY <2>1
<1>5. IsFold(g)
  <2>1. \A s \in SUBSET (1..n) :
          g[s] = IF s = {} THEN d ELSE Confirm(g[s \ {Max(s)}], list[Max(s)])
    BY <1>3, <1>4
  <2> QED BY <1>1, <1>3, <2>1
<1>6. IsFold(fold)
  <2> HIDE DEF IsFold
  <2> QED BY <1>5
<1>7. FoldLeft(Confirm, d, list) = fold[D]
  BY DEF FoldLeft, MapThenFoldSet
<1> HIDE DEF fold
<1>8. f[0] = d /\ FoldLeft(Confirm, d, list) = f[n]
  <2>1. 1..0 = {} /\ 0 \in 0..n /\ n \in 0..n
    BY <1>1
  <2>2. fold[{}] = d
    BY <1>6
  <2> QED BY <1>1, <1>7, <2>1, <2>2
<1>9. ASSUME NEW k \in 1..n PROVE f[k] = Confirm(f[k - 1], list[k])
  <2>1. 1..k # {} /\ Max(1..k) = k /\ (1..k) \ {Max(1..k)} = 1..(k - 1)
    BY <1>1, FoldPrefix
  <2>2. 1..k \in SUBSET D /\ k \in 0..n /\ k - 1 \in 0..n
    BY <1>1
  <2>3. fold[1..k] = Confirm(fold[(1..k) \ {Max(1..k)}], list[Max(1..k)])
    BY <1>6, <2>1, <2>2
  <2> QED BY <2>1, <2>2, <2>3
<1> DEFINE Odd == {k \in Nat : k <= n /\ f[k] \notin Dna}
<1>10. DOMAIN f = 0..n /\ f = [k \in 0..n |-> f[k]]
  OBVIOUS
<1> HIDE DEF f
<1>11. CASE Odd # {}
  <2>1. PICK k \in Odd : \A l \in Odd : k <= l
    BY <1>11, Least, Zenon
  <2>2. k \in Nat /\ k <= n /\ k # 0 /\ f[k] \notin Dna
    BY <1>8, <2>1
  <2>3. k - 1 \in Nat /\ k - 1 <= n /\ ~ (k <= k - 1) /\ k \in 1..n
    BY <1>1, <2>2
  <2>4. f[k - 1] \in Dna
    BY <2>1, <2>3
  <2>5. f[k] \in Dna
    BY <1>1, <1>9, <2>3, <2>4, ConfirmGrows
  <2> QED BY <2>2, <2>5
<1>12. CASE Odd = {}
  <2>1. \A k \in 0..n : k \in Nat /\ k <= n
    BY <1>1
  <2>2. \A k \in 0..n : f[k] \in Dna
    BY <1>12, <2>1
  <2>3. f \in [0..n -> Dna]
    BY <1>10, <2>2
  <2>4. IsConfirming(f, d, list)
    BY <1>8, <1>9, <2>3 DEF IsConfirming
  <2> QED BY <2>4
<1> QED BY <1>11, <1>12

\* After a list, too, every phrase is where it was, confirmed no less often.
LEMMA ListGrows ==
  ASSUME NEW d \in Dna, NEW list \in Seq(Seq(DOMAIN Word))
  PROVE  Confirmed(d, FoldLeft(Confirm, d, list))
<1>1. PICK n \in Nat : n = Len(list) /\ \A k \in 1..n : list[k] \in Seq(DOMAIN Word)
  BY LenProperties, ElementOfSeq
<1>2. PICK f : IsConfirming(f, d, list)
  BY ConfirmedIsLast
<1>3. /\ f \in [0..n -> Dna] /\ f[0] = d
      /\ \A k \in 1..n : f[k] = Confirm(f[k - 1], list[k])
      /\ FoldLeft(Confirm, d, list) = f[n]
  BY <1>1, <1>2 DEF IsConfirming
<1> DEFINE Odd == {k \in Nat : k <= n /\ ~ Confirmed(d, f[k])}
<1>4. CASE Odd # {}
  <2>1. PICK k \in Odd : \A l \in Odd : k <= l
    BY <1>4, Least, Zenon
  <2>2. Confirmed(d, f[0])
    BY <1>3, GrownOrder
  <2>3. k \in Nat /\ k <= n /\ k # 0 /\ ~ Confirmed(d, f[k])
    BY <2>1, <2>2
  <2>4. k - 1 \in Nat /\ k - 1 <= n /\ ~ (k <= k - 1) /\ k \in 1..n /\ k - 1 \in 0..n
    BY <1>1, <2>3
  <2>5. Confirmed(d, f[k - 1])
    BY <2>1, <2>4
  <2>6. f[k - 1] \in Dna /\ f[k] = Confirm(f[k - 1], list[k]) /\ list[k] \in Seq(DOMAIN Word)
    BY <1>1, <1>3, <2>4
  <2>7. f[k] \in Dna /\ Confirmed(f[k - 1], f[k])
    BY <2>6, ConfirmGrows
  <2>8. Confirmed(d, f[k])
    BY <2>5, <2>6, <2>7, GrownOrder
  <2> QED BY <2>3, <2>8
<1>5. CASE Odd = {}
  <2>1. n <= n
    OBVIOUS
  <2> QED BY <1>1, <1>3, <1>5, <2>1
<1> QED BY <1>4, <1>5

\* What a phrase that was written down can rely on: it is still there, confirmed no
\* less often, or as many as there is room for are there that are no weaker.
Relies(p, d) ==
  \/ \E i \in DOMAIN d : d[i].phrase = p.phrase /\ p.confirmed_by <= d[i].confirmed_by
  \/ Len(d) = MAX_DNA_PHRASES /\ \A i \in DOMAIN d : p.confirmed_by <= d[i].confirmed_by

\* The phrases kept are those the most confirmed, each from a place of its own.
IsCap(e, n, key, from) ==
  /\ key \in [1..n -> Nat] /\ from \in [1..n -> 1..n]
  /\ \A i \in 1..n : key[i] = e[i].confirmed_by
  /\ IsOrder(from, n, key)
  /\ CappedPhrases(e) \in Seq(DnaPhrase) /\ Len(CappedPhrases(e)) = MAX_DNA_PHRASES
  /\ DOMAIN CappedPhrases(e) = 1..MAX_DNA_PHRASES
  /\ \A k \in 1..MAX_DNA_PHRASES : k \in 1..n /\ CappedPhrases(e)[k] = e[from[k]]

\* More phrases than there is room for are sorted and cut.
LEMMA CappedFrom ==
  ASSUME NEW e \in Dna, NEW n \in Nat, n = Len(e), n > MAX_DNA_PHRASES
  PROVE  \E key, from : IsCap(e, n, key, from)
<1>1. /\ e \in Seq(DnaPhrase) /\ DOMAIN e = 1..n
      /\ \A i \in 1..n : e[i].confirmed_by \in Nat
  BY DnaPlaces
<1>2. PICK key : key = [i \in DOMAIN e |-> e[i].confirmed_by]
  OBVIOUS
<1>3. key \in [1..n -> Nat] /\ \A i \in 1..n : key[i] = e[i].confirmed_by
  BY <1>1, <1>2
<1>4. /\ \E from : IsSorting(from, e, n, key)
      /\ Descending(e, key) \in Seq(DnaPhrase) /\ Len(Descending(e, key)) = n
  BY <1>1, <1>3, SortedBy, SMTT(30)
<1>5. PICK from, s : /\ IsOrder(from, n, key) /\ s = Descending(e, key)
                     /\ s = [k \in 1..n |-> e[from[k]]] /\ s \in Seq(DnaPhrase) /\ Len(s) = n
  BY <1>4 DEF IsSorting
<1>6. PICK most \in Nat : most = MAX_DNA_PHRASES
  BY DnaAssumption
<1>7. Len(e) > MAX_DNA_PHRASES
  OBVIOUS
<1>8. CappedPhrases(e) = FirstOf(s, most)
  BY <1>2, <1>5, <1>6, <1>7 DEF CappedPhrases
<1>9. /\ FirstOf(s, most) \in Seq(DnaPhrase)
      /\ Len(FirstOf(s, most)) = IF most <= Len(s) THEN most ELSE Len(s)
      /\ \A i \in DOMAIN FirstOf(s, most) :
           i \in DOMAIN s /\ i <= most /\ FirstOf(s, most)[i] = s[i]
  <2>1. s \in Seq(DnaPhrase)
    BY <1>5
  <2> QED BY <2>1, FirstOfSeq
<1>10. PICK c : c = CappedPhrases(e) /\ c = FirstOf(s, most)
  BY <1>8
<1>11. most <= Len(s)
  BY <1>5, <1>6
<1>12. c \in Seq(DnaPhrase) /\ Len(c) = most
  BY <1>9, <1>10, <1>11
<1>13. DOMAIN c = 1..most
  BY <1>12, LenProperties
<1>14. \A k \in 1..most : k \in 1..n /\ c[k] = e[from[k]]
  <2>1. \A k \in 1..most : k \in 1..n
    BY <1>6
  <2>2. \A k \in 1..most : c[k] = s[k]
    BY <1>9, <1>10, <1>13
  <2> QED BY <1>5, <2>1, <2>2
<1>15. from \in [1..n -> 1..n]
  BY <1>5 DEF IsOrder
<1>16. IsCap(e, n, key, from)
  BY <1>3, <1>5, <1>6, <1>10, <1>12, <1>13, <1>14, <1>15 DEF IsCap
<1> QED BY <1>16

\* Phrases that are capped have no twins, and no more than there is room for.
LEMMA CappedDna ==
  ASSUME NEW e \in Dna
  PROVE  CappedPhrases(e) \in Dna /\ Len(CappedPhrases(e)) <= MAX_DNA_PHRASES
<1>1. PICK n \in Nat : n = Len(e) /\ DOMAIN e = 1..n
  BY DnaPlaces
<1>2. MAX_DNA_PHRASES \in Nat
  BY DnaAssumption
<1>3. CASE n > MAX_DNA_PHRASES
  <2>0. PICK key, from : IsCap(e, n, key, from)
    BY <1>1, <1>3, CappedFrom, Zenon
  <2>1. /\ key \in [1..n -> Nat] /\ from \in [1..n -> 1..n]
        /\ \A i \in 1..n : key[i] = e[i].confirmed_by
        /\ IsOrder(from, n, key)
        /\ CappedPhrases(e) \in Seq(DnaPhrase) /\ Len(CappedPhrases(e)) = MAX_DNA_PHRASES
        /\ \A k \in 1..MAX_DNA_PHRASES : k \in 1..n /\ CappedPhrases(e)[k] = e[from[k]]
    BY <1>1, <2>0 DEF IsCap
  <2>2. DOMAIN CappedPhrases(e) = 1..MAX_DNA_PHRASES
    BY <1>1, <2>0 DEF IsCap
  <2>3. ASSUME NEW k \in 1..MAX_DNA_PHRASES, NEW l \in 1..MAX_DNA_PHRASES,
               lowercase(CappedPhrases(e)[k].phrase) = lowercase(CappedPhrases(e)[l].phrase)
        PROVE  k = l
    <3>1. k \in 1..n /\ l \in 1..n /\ CappedPhrases(e)[k] = e[from[k]] /\ CappedPhrases(e)[l] = e[from[l]]
      BY <2>1
    <3>2. from[k] = from[l]
      <4>1. from[k] \in 1..n /\ from[l] \in 1..n
        BY <2>1, <3>1
      <4>2. lowercase(e[from[k]].phrase) = lowercase(e[from[l]].phrase)
        BY <2>3, <3>1
      <4>3. \A i, j \in 1..n : lowercase(e[i].phrase) = lowercase(e[j].phrase) => i = j
        BY <1>1 DEF Dna
      <4> QED BY <4>1, <4>2, <4>3
    <3> QED BY <2>1, <3>1, <3>2 DEF IsOrder
  <2>4. CappedPhrases(e) \in Dna
    BY <2>1, <2>2, <2>3 DEF Dna
  <2> QED BY <1>2, <2>1, <2>4
<1>4. CASE ~ (n > MAX_DNA_PHRASES)
  BY <1>1, <1>2, <1>4 DEF CappedPhrases
<1> QED BY <1>3, <1>4

\* What a phrase relies on outlasts the growth of the phrases and their cap.
LEMMA CapKeepsFaith ==
  ASSUME NEW d \in Dna, NEW e \in Dna, Confirmed(d, e), Len(d) <= MAX_DNA_PHRASES,
         NEW p \in DnaPhrase, Relies(p, d)
  PROVE  Relies(p, CappedPhrases(e))
<1>1. PICK m \in Nat, n \in Nat, most \in Nat, c \in Nat :
        /\ m = Len(d) /\ DOMAIN d = 1..m /\ n = Len(e) /\ DOMAIN e = 1..n
        /\ most = MAX_DNA_PHRASES /\ c = p.confirmed_by
  BY DnaPlaces, DnaAssumption DEF DnaPhrase
<1>2. /\ \A i \in 1..m : d[i].confirmed_by \in Nat
      /\ \A i \in 1..n : e[i].confirmed_by \in Nat
  BY <1>1, DnaPlaces
<1>3. m <= n /\ m <= most
  BY <1>1 DEF Confirmed
<1>4. ASSUME NEW i \in 1..m PROVE i \in 1..n /\ e[i].phrase = d[i].phrase
        /\ (c <= d[i].confirmed_by => c <= e[i].confirmed_by)
  <2>1. i \in 1..n
    BY <1>3
  <2>2. e[i].phrase = d[i].phrase /\ d[i].confirmed_by <= e[i].confirmed_by
    BY <1>1 DEF Confirmed
  <2>3. PICK x \in Nat, y \in Nat : x = d[i].confirmed_by /\ y = e[i].confirmed_by
    BY <1>2, <2>1
  <2> QED BY <2>1, <2>2, <2>3
<1>5. CASE n <= most
  <2>1. CappedPhrases(e) = e
    BY <1>1, <1>5 DEF CappedPhrases
  <2>2. CASE \E i \in 1..m : d[i].phrase = p.phrase /\ c <= d[i].confirmed_by
    BY <1>1, <1>4, <2>1, <2>2 DEF Relies
  <2>3. CASE m = most /\ \A i \in 1..m : c <= d[i].confirmed_by
    <3>1. n = m
      BY <1>3, <1>5, <2>3
    <3> QED BY <1>1, <1>4, <2>1, <2>3, <3>1 DEF Relies
  <2> QED BY <1>1, <2>2, <2>3 DEF Relies
<1>6. CASE n > most
  <2>0. PICK key, from : IsCap(e, n, key, from)
    BY <1>1, <1>6, CappedFrom, Zenon
  <2>1. /\ key \in [1..n -> Nat] /\ from \in [1..n -> 1..n]
        /\ \A i \in 1..n : key[i] = e[i].confirmed_by
        /\ IsOrder(from, n, key)
        /\ CappedPhrases(e) \in Seq(DnaPhrase) /\ Len(CappedPhrases(e)) = most
        /\ \A k \in 1..most : k \in 1..n /\ CappedPhrases(e)[k] = e[from[k]]
    BY <1>1, <2>0 DEF IsCap
  <2>2. DOMAIN CappedPhrases(e) = 1..most
    BY <1>1, <2>0 DEF IsCap
  <2>3. \A k \in 1..most : /\ k \in 1..n /\ from[k] \in 1..n
                           /\ CappedPhrases(e)[k].phrase = e[from[k]].phrase
                           /\ CappedPhrases(e)[k].confirmed_by = key[from[k]]
    BY <2>1
  <2>4. CASE \E i \in 1..m : d[i].phrase = p.phrase /\ c <= d[i].confirmed_by
    <3>1. PICK i \in 1..n : e[i].phrase = p.phrase /\ c <= key[i]
      <4>1. PICK i \in 1..m : d[i].phrase = p.phrase /\ c <= d[i].confirmed_by
        BY <2>4
      <4>2. i \in 1..n /\ e[i].phrase = p.phrase /\ c <= e[i].confirmed_by
        BY <1>4, <4>1
      <4> QED BY <2>1, <4>2
    <3>2. PICK k \in 1..n : from[k] = i
      BY <2>1 DEF IsOrder
    <3>3. CASE k \in 1..most
      BY <1>1, <2>2, <2>3, <3>1, <3>2, <3>3 DEF Relies
    <3>4. CASE k \notin 1..most
      <4>1. ASSUME NEW l \in 1..most PROVE c <= CappedPhrases(e)[l].confirmed_by
        <5>1. l < k /\ l \in 1..n
          BY <2>3, <3>4
        <5>2. key[from[l]] >= key[from[k]]
          BY <2>1, <5>1 DEF IsOrder
        <5>3. PICK x \in Nat, y \in Nat : x = key[from[l]] /\ y = key[from[k]]
          BY <2>1, <2>3, <3>2
        <5> QED BY <2>3, <3>1, <3>2, <5>2, <5>3
      <4> QED BY <1>1, <2>1, <2>2, <4>1 DEF Relies
    <3> QED BY <3>3, <3>4
  <2>5. CASE m = most /\ \A i \in 1..m : c <= d[i].confirmed_by
    <3>1. \A i \in 1..most : i \in 1..n /\ c <= key[i]
      BY <1>4, <2>1, <2>5
    <3>2. ASSUME NEW k \in 1..most, ~ (c <= key[from[k]]) PROVE FALSE
      <4>1. PICK j \in 1..n : j = from[k] /\ Rank(key, j) = k
        BY <2>1, <2>3, ZenonT(30) DEF IsOrder
      <4> DEFINE Ahead == {i \in 1..n : Before(key, i, j)}
      <4>2. 1..most \in SUBSET Ahead
        <5>1. ASSUME NEW i \in 1..most PROVE key[i] > key[j]
          <6>1. PICK x \in Nat, y \in Nat : x = key[i] /\ y = key[j]
            BY <2>1, <3>1
          <6> QED BY <3>1, <3>2, <4>1, <6>1
        <5> QED BY <3>1, <5>1 DEF Before
      <4>3. IsFiniteSet(1..n) /\ Ahead \in SUBSET (1..n)
        BY FS_Interval
      <4>4. IsFiniteSet(Ahead) /\ Cardinality(Ahead) \in Nat
        BY <4>3, FS_Subset, FS_CardinalityType
      <4>5. Cardinality(1..most) = most
        <5>1. Cardinality(1..most) = IF 1 > most THEN 0 ELSE most - 1 + 1
          BY FS_Interval
        <5>2. (IF 1 > most THEN 0 ELSE most - 1 + 1) = most
          OBVIOUS
        <5> QED BY <5>1, <5>2
      <4>6. Cardinality(1..most) <= Cardinality(Ahead)
        <5> HIDE DEF Ahead
        <5> QED BY <4>2, <4>4, FS_Subset
      <4>7. Rank(key, j) = 1 + Cardinality(Ahead)
        <5>1. DOMAIN key = 1..n
          BY <2>1
        <5> QED BY <5>1 DEF Rank
      <4> HIDE DEF Ahead
      <4> QED BY <4>1, <4>4, <4>5, <4>6, <4>7
    <3>3. \A k \in 1..most : c <= CappedPhrases(e)[k].confirmed_by
      BY <2>3, <3>2
    <3> QED BY <1>1, <2>1, <2>2, <3>3 DEF Relies
  <2> QED BY <1>1, <2>4, <2>5 DEF Relies
<1> QED BY <1>5, <1>6

\* The runs of words that a text confirms are in words that Word knows.
LEMMA PhrasesAreWords ==
  ASSUME NEW text \in Seq(DOMAIN Word)
  PROVE  extract_distinctive_phrases(text) \in Seq(Seq(DOMAIN Word))
<1> DEFINE P == Seq(DOMAIN Word)
<1>1. PICK n \in Nat : n = Len(text) /\ DOMAIN text = 1..n /\ \A i \in 1..n : text[i] \in DOMAIN Word
  BY LenProperties, ElementOfSeq
<1>2. PICK m \in Nat : m = Min({MAX_PHRASE_WORDS, n}) /\ m <= n
  <2>1. PICK x \in Nat : x = MAX_PHRASE_WORDS
    BY DnaAssumption
  <2>2. Min({x, n}) = IF x <= n THEN x ELSE n
    BY MinOfTwo
  <2>3. PICK y \in Nat : y = IF x <= n THEN x ELSE n
    OBVIOUS
  <2> QED BY <2>1, <2>2, <2>3
<1>3. ASSUME NEW k \in 1..(m - 1) PROVE Windows(text, k + 1) \in Seq(P)
  <2>1. PICK l \in Nat : l = n - (k + 1) + 1
    BY <1>2
  <2>2. ASSUME NEW i \in 1..l PROVE SubSeq(text, i, i + (k + 1) - 1) \in P
    <3>1. PICK j \in Nat : j = i + (k + 1) - 1 /\ j <= n
      BY <2>1
    <3>2. i \in Nat \ {0} /\ \A x \in i..j : text[x] \in DOMAIN Word
      BY <1>1, <3>1
    <3> QED BY <3>1, <3>2
  <2> DEFINE W(i) == SubSeq(text, i, i + (k + 1) - 1)
  <2>3. Windows(text, k + 1) = [i \in 1..l |-> W(i)]
    BY <1>1, <2>1 DEF Windows
  <2>4. \A i \in 1..l : W(i) \in P
    BY <2>2
  <2> HIDE DEF P, W
  <2>5. [i \in 1..l |-> W(i)] \in Seq(P)
    BY <2>4
  <2> QED BY <2>3, <2>5
<1> DEFINE ws == [k \in 1..(m - 1) |-> Windows(text, k + 1)]
<1> HIDE DEF P
<1>4. ws \in Seq(Seq(P))
  <2>1. CASE m = 0
    <3>1. 1..(m - 1) = 1..0
      BY <2>1
    <3> QED BY <3>1
  <2>2. CASE m # 0
    <3>1. m - 1 \in Nat
      BY <2>2
    <3> QED BY <1>3, <3>1
  <2> QED BY <2>1, <2>2
<1>5. PICK windows : windows = FlattenSeq(ws)
  OBVIOUS
<1> HIDE DEF ws
<1>6. windows \in Seq(P)
  BY <1>4, <1>5, FlattenedElements
<1>7. PICK some : some = Chosen(windows, {i \in DOMAIN windows : Distinctive(windows[i])})
  OBVIOUS
<1>8. some \in Seq(P)
  BY <1>6, <1>7, ChosenElements
<1>9. dedup(some) \in Seq(P)
  BY <1>8, ChosenElements DEF dedup
<1>10. FirstOf(dedup(some), MaxPerText) \in Seq(P)
  BY <1>9, FirstOfSeq, DnaAssumption
<1>11. extract_distinctive_phrases(text) = FirstOf(dedup(some), MaxPerText)
  BY <1>1, <1>2, <1>5, <1>7 DEF extract_distinctive_phrases, ws
<1> QED BY <1>10, <1>11 DEF P

\* A text that was well received leaves the phrases without twins and within their
\* cap, and what a phrase relies on.
LEMMA SuccessKeepsFaith ==
  ASSUME NEW d \in Dna, Len(d) <= MAX_DNA_PHRASES, NEW text \in Seq(DOMAIN Word)
  PROVE  /\ record_success(d, text) \in Dna /\ Len(record_success(d, text)) <= MAX_DNA_PHRASES
         /\ \A p \in DnaPhrase : Relies(p, d) => Relies(p, record_success(d, text))
<1>1. PICK e : e = FoldLeft(Confirm, d, extract_distinctive_phrases(text))
  OBVIOUS
<1>2. record_success(d, text) = CappedPhrases(e)
  BY <1>1 DEF record_success
<1>3. Confirmed(d, e) /\ e \in Dna
  BY <1>1, PhrasesAreWords, ListGrows DEF Confirmed
<1>4. CappedPhrases(e) \in Dna /\ Len(CappedPhrases(e)) <= MAX_DNA_PHRASES
  BY <1>3, CappedDna
<1>5. ASSUME NEW p \in DnaPhrase, Relies(p, d) PROVE Relies(p, CappedPhrases(e))
  BY <1>3, <1>5, CapKeepsFaith
<1> QED BY <1>2, <1>4, <1>5

--------------------------------------------------------------------------------
(* The samples and the examples                                            *)

\* What is analyzed are samples.
LEMMA AnalyzedAreSamples ==
  ASSUME NEW samples \in Seq(WeightedSample)
  PROVE  Analyzed(samples) \in Seq(WeightedSample)
<1>1. PICK n \in Nat : n = Len(samples) /\ DOMAIN samples = 1..n
                       /\ \A i \in 1..n : samples[i].weight \in Nat
  <2>1. PICK n \in Nat : n = Len(samples) /\ DOMAIN samples = 1..n
                         /\ \A i \in 1..n : samples[i] \in WeightedSample
    BY LenProperties, ElementOfSeq
  <2> QED BY <2>1 DEF WeightedSample
<1>2. PICK key : key = [i \in DOMAIN samples |-> samples[i].weight]
  OBVIOUS
<1>3. key \in [1..n -> Nat] /\ \A i \in 1..n : key[i] = samples[i].weight
  BY <1>1, <1>2
<1>4. /\ \E from : IsSorting(from, samples, n, key)
      /\ Descending(samples, key) \in Seq(WeightedSample) /\ Len(Descending(samples, key)) = n
  BY <1>1, <1>3, SortedBy
<1>5. PICK from, s : /\ IsOrder(from, n, key) /\ s = Descending(samples, key)
                     /\ s = [k \in 1..n |-> samples[from[k]]]
                     /\ s \in Seq(WeightedSample) /\ Len(s) = n
  BY <1>4 DEF IsSorting
<1>6. PICK most \in Nat : most = MaxSamples
  BY ExtractorAssumption
<1>7. FirstOf(s, most) \in Seq(WeightedSample)
  <2>1. s \in Seq(WeightedSample)
    BY <1>5
  <2> QED BY <2>1, FirstOfSeq
<1>8. Analyzed(samples) = FirstOf(s, most)
  BY <1>2, <1>5, <1>6 DEF Analyzed
<1> QED BY <1>7, <1>8

\* The examples that are kept are texts, whatever the model claims.
LEMMA ExamplesAreTexts ==
  ASSUME NEW claimed \in Seq(Seq(STRING)), NEW samples \in Seq(WeightedSample)
  PROVE  validate_examples(claimed, samples) \in Seq(Seq(STRING))
<1> DEFINE chosen == {i \in DOMAIN claimed : \E j \in DOMAIN samples : Real(samples[j], claimed[i])}
<1>1. PICK real : real = Chosen(claimed, chosen)
  OBVIOUS
<1>2. real \in Seq(Seq(STRING))
  BY <1>1, ChosenElements
<1>3. PICK first : first = FirstOf(samples, FallbackCount)
  OBVIOUS
<1>4. first \in Seq(WeightedSample)
  <2>1. FallbackCount \in Nat
    BY ExtractorAssumption
  <2> QED BY <1>3, <2>1, FirstOfSeq
<1>5. PICK long : long = Chosen(first, {i \in DOMAIN first : first[i].len >= FallbackLen})
  OBVIOUS
<1>6. long \in Seq(WeightedSample)
  BY <1>4, <1>5, ChosenElements
<1>7. PICK l \in Nat : DOMAIN long = 1..l /\ \A i \in 1..l : long[i] \in WeightedSample
  BY <1>6, LenProperties, ElementOfSeq
<1>8. PICK fallback : fallback = [i \in DOMAIN long |-> long[i].text]
  OBVIOUS
<1>9. fallback = Fallback(samples)
  BY <1>3, <1>5, <1>8 DEF Fallback
<1>10. fallback \in Seq(Seq(STRING))
  <2>1. \A i \in 1..l : long[i].text \in Seq(STRING)
    BY <1>7 DEF WeightedSample
  <2> QED BY <1>7, <1>8, <2>1
<1>11. PICK all \in Seq(Seq(STRING)) : all = IF real = << >> THEN fallback ELSE real
  BY <1>2, <1>10
<1>12. validate_examples(claimed, samples) = FirstOf(all, MaxExamples)
  BY <1>1, <1>9, <1>11 DEF validate_examples
<1>13. MaxExamples \in Nat
  BY ExtractorAssumption
<1> QED BY <1>12, <1>13, FirstOfSeq

--------------------------------------------------------------------------------
(* The scores                                                              *)

\* What a quotient that is rounded down says of what was divided.
LEMMA Quotient ==
  ASSUME NEW a \in Nat, NEW b \in Nat \ {0}, NEW k \in Nat
  PROVE  /\ a \div b \in Nat
         /\ a \div b >= k <=> a >= k * b
<1>1. PICK q \in Nat : q = a \div b
  OBVIOUS
<1>2. q * b <= a /\ a < (q + 1) * b
  BY <1>1
<1>3. q >= k => q * b >= k * b
  OBVIOUS
<1>4. q < k => (q + 1) * b <= k * b
  OBVIOUS
<1> QED BY <1>1, <1>2, <1>3, <1>4

\* The texts of the samples, and how many words they have.
LEMMA Wording ==
  ASSUME NEW samples \in Seq(WeightedSample)
  PROVE  Diversity(samples) \in 0..100
<1>1. PICK n \in Nat : n = Len(samples) /\ DOMAIN samples = 1..n
                       /\ \A i \in 1..n : samples[i] \in WeightedSample
  BY LenProperties, ElementOfSeq
<1> DEFINE ts == [i \in DOMAIN samples |-> samples[i].text]
<1>2. ts \in Seq(Seq(STRING))
  <2>1. \A i \in 1..n : samples[i].text \in Seq(STRING)
    BY <1>1 DEF WeightedSample
  <2> QED BY <1>1, <2>1
<1> HIDE DEF ts
<1>3. PICK read : read = FlattenSeq(ts) /\ read \in Seq(STRING)
  BY <1>2, FlattenedElements
<1>a. PICK kept : kept = {k \in DOMAIN read : Cleaned[read[k]] # ""}
  OBVIOUS
<1>b. PICK counted : counted = Chosen(read, kept)
  OBVIOUS
<1>c. counted \in Seq(STRING)
  BY <1>3, <1>b, ChosenElements
<1> DEFINE Words == {Cleaned[w] : w \in STRING}
<1>d. PICK words : words = [k \in DOMAIN counted |-> Cleaned[counted[k]]]
  OBVIOUS
<1>e. words \in Seq(Words)
  <2>1. PICK m \in Nat : m = Len(counted) /\ DOMAIN counted = 1..m
                         /\ \A k \in 1..m : counted[k] \in STRING
    BY <1>c, LenProperties, ElementOfSeq
  <2>2. \A k \in 1..m : Cleaned[counted[k]] \in Words
    BY <2>1
  <2> HIDE DEF Words
  <2> QED BY <1>d, <2>1, <2>2
<1> HIDE DEF Words
<1>4. words = AllWords(samples)
  BY <1>3, <1>a, <1>b, <1>d DEF AllWords, ts
<1>5. CASE words = << >>
  BY <1>4, <1>5 DEF Diversity
<1>6. CASE words # << >>
  <2>1. PICK l \in Nat : l = Len(words) /\ l # 0 /\ DOMAIN words = 1..l
    BY <1>e, <1>6, LenProperties, EmptySeq
  <2>2. PICK c \in Nat : c = Cardinality(ToSet(words))
    <3>1. IsFiniteSet(1..l)
      BY FS_Interval
    <3>2. words \in [1..l -> Words] /\ ToSet(words) = {words[i] : i \in 1..l}
      BY <1>e, <2>1, LenProperties DEF ToSet
    <3>3. words \in [1..l -> ToSet(words)]
      BY <3>2
    <3>4. words \in Surjection(1..l, ToSet(words))
      BY <3>2, <3>3 DEF Surjection
    <3>5. IsFiniteSet(ToSet(words))
      BY <3>1, <3>4, FS_Surjection
    <3> QED BY <3>5, FS_CardinalityType
  <2>3. PICK q \in Nat : q = (200 * c) \div l
    BY <2>1, Quotient
  <2>4. Diversity(samples) = Min({100, q})
    BY <1>4, <1>6, <2>1, <2>2, <2>3 DEF Diversity
  <2>5. Min({100, q}) = IF 100 <= q THEN 100 ELSE q
    BY MinOfTwo
  <2>6. (IF 100 <= q THEN 100 ELSE q) \in 0..100
    OBVIOUS
  <2> QED BY <2>4, <2>5, <2>6
<1> QED BY <1>5, <1>6

\* How many samples there are and how many of them are short, and what the scores
\* make of that.
Counted(samples, n, r, short, diversity, count, lost) ==
  /\ n = Len(samples) /\ r = RECOMMENDED_SAMPLES /\ r \in 1..6
  /\ short = Short(samples) /\ diversity = Diversity(samples) /\ diversity \in 0..100
  /\ count \in 0..100 /\ (n >= r => count = 100)
  /\ n < r => count * r <= 100 * n
  /\ n > 0 => (lost <= 16 <=> short * 100 < 17 * n) /\ (lost > 50 <=> short * 100 >= 51 * n)
  /\ n = 0 => short = 0 /\ lost = 0
  /\ Confidence(samples) = (30 * count + 40 * diversity + 30 * (100 - lost)) \div 100

LEMMA Counts ==
  ASSUME NEW samples \in Seq(WeightedSample)
  PROVE  \E n, r, short, diversity, count, lost \in Nat :
           Counted(samples, n, r, short, diversity, count, lost)
<1>1. PICK n \in Nat : n = Len(samples) /\ DOMAIN samples = 1..n
  BY LenProperties
<1>2. PICK r \in 1..6 : r = RECOMMENDED_SAMPLES
  BY ExtractorAssumption, RecommendedAssumption
<1>3. PICK diversity \in 0..100 : diversity = Diversity(samples)
  BY Wording
<1> DEFINE few == {i \in 1..n : Len(samples[i].text) < MIN_SAMPLE_WORDS}
<1>4. IsFiniteSet(1..n) /\ few \in SUBSET (1..n)
  BY FS_Interval
<1>5. few = {i \in DOMAIN samples : Len(samples[i].text) < MIN_SAMPLE_WORDS}
  BY <1>1
<1> HIDE DEF few
<1>6. PICK short \in Nat : short = Short(samples) /\ (n = 0 => short = 0)
  <2>1. IsFiniteSet(few) /\ Cardinality(few) \in Nat
    BY <1>4, FS_Subset, FS_CardinalityType
  <2>2. n = 0 => few = {}
    BY <1>4
  <2>3. few = {} => Cardinality(few) = 0
    BY FS_EmptySet
  <2>4. Short(samples) = Cardinality(few)
    BY <1>5 DEF Short
  <2> QED BY <2>1, <2>2, <2>3, <2>4
<1>7. PICK q \in Nat : q = (100 * n) \div r /\ (n >= r => q >= 100) /\ q * r <= 100 * n
  <2>1. PICK q \in Nat : q = (100 * n) \div r
    BY Quotient
  <2>2. q >= 100 <=> 100 * n >= 100 * r
    BY <2>1, Quotient
  <2>3. q >= q <=> 100 * n >= q * r
    BY <2>1, Quotient
  <2> QED BY <2>1, <2>2, <2>3
<1>8. PICK count \in 0..100 : /\ count = Min({100, q})
                              /\ (n >= r => count = 100) /\ (n < r => count * r <= 100 * n)
  <2>1. Min({100, q}) = IF 100 <= q THEN 100 ELSE q
    BY MinOfTwo
  <2>2. CASE 100 <= q
    <3>1. 100 * r <= q * r
      BY <2>2
    <3> QED BY <1>7, <2>1, <2>2, <3>1
  <2>3. CASE ~ (100 <= q)
    <3>1. q \in 0..100 /\ q = Min({100, q}) /\ ~ (n >= r)
      BY <1>7, <2>1, <2>3
    <3> QED BY <1>7, <3>1
  <2> QED BY <2>2, <2>3
<1>9. PICK most \in Nat \ {0} : most = Max({1, n}) /\ (n > 0 => most = n)
  <2>1. Max({1, n}) = IF 1 >= n THEN 1 ELSE n
    BY MaxOfTwo
  <2> QED BY <2>1
<1>10. PICK lost \in Nat : lost = (100 * short) \div most
  <2>1. 100 * short \in Nat /\ most \in Nat \ {0} /\ 0 \in Nat
    OBVIOUS
  <2> QED BY <2>1, Quotient
<1>11. (lost >= 17 <=> 100 * short >= 17 * most) /\ (lost >= 51 <=> 100 * short >= 51 * most)
  BY <1>10, Quotient
<1>12. n > 0 => (lost <= 16 <=> short * 100 < 17 * n) /\ (lost > 50 <=> short * 100 >= 51 * n)
  BY <1>9, <1>11
<1>13. n = 0 => lost = 0
  <2>1. lost >= 1 <=> 100 * short >= 1 * most
    BY <1>10, Quotient
  <2> QED BY <1>6, <2>1
<1>14. Confidence(samples) = (30 * count + 40 * diversity + 30 * (100 - lost)) \div 100
  BY <1>1, <1>2, <1>3, <1>6, <1>7, <1>8, <1>9, <1>10, ZenonT(30) DEF Confidence
<1>15. /\ n \in Nat /\ r \in Nat /\ short \in Nat /\ diversity \in Nat /\ count \in Nat /\ lost \in Nat
  OBVIOUS
<1>16. Counted(samples, n, r, short, diversity, count, lost)
  BY <1>1, <1>2, <1>3, <1>6, <1>8, <1>12, <1>13, <1>14, Zenon DEF Counted
<1> QED BY <1>15, <1>16, Zenon

\* Nearly sure is never warned about, and without a warning it is likelier than not.
LEMMA ConfidenceFits ==
  ASSUME NEW samples \in Seq(WeightedSample)
  PROVE  /\ Confidence(samples) \in Int
         /\ Confidence(samples) >= 95 => Warnings(samples) = {}
         /\ Warnings(samples) = {} => Confidence(samples) > 50
<1>1. PICK n \in Nat, r \in Nat, short \in Nat, diversity \in Nat, count \in Nat, lost \in Nat :
        Counted(samples, n, r, short, diversity, count, lost)
  BY Counts
<1>2. PICK total \in Int : total = 30 * count + 40 * diversity + 30 * (100 - lost)
  OBVIOUS
<1>3. PICK c \in Int : c = Confidence(samples) /\ (c >= 95 <=> total >= 9500) /\ (c > 50 <=> total >= 5100)
  <2>1. Confidence(samples) = total \div 100
    BY <1>1, <1>2 DEF Counted
  <2>2. total \div 100 \in Int /\ (total \div 100 >= 95 <=> total >= 9500)
        /\ (total \div 100 > 50 <=> total >= 5100)
    OBVIOUS
  <2> QED BY <2>1, <2>2
<1>4. Warnings(samples) = {} <=> ~ (short > n \div 2) /\ ~ (diversity < 30) /\ ~ (n < r)
  BY <1>1 DEF Warnings, Counted
<1>5. short > n \div 2 <=> 2 * short > n
  <2>1. PICK h \in Nat : h = n \div 2 /\ (2 * h = n \/ 2 * h + 1 = n)
    OBVIOUS
  <2> QED BY <2>1
<1>6. ASSUME total >= 9500 PROVE ~ (2 * short > n) /\ ~ (diversity < 30) /\ ~ (n < r)
  <2>1. count \in 0..100 /\ diversity \in 0..100
    BY <1>1, Zenon DEF Counted
  <2>2. count >= 84 /\ diversity >= 85 /\ lost <= 16
    BY <1>2, <1>6, <2>1
  <2>3. ~ (n < r)
    <3>1. n < r => count * r <= 100 * n
      BY <1>1 DEF Counted
    <3>2. r \in 1..6
      BY <1>1 DEF Counted
    <3>3. 84 * r <= count * r
      BY <2>2
    <3>4. n < r => 84 * r <= 100 * n
      BY <3>1, <3>2, <3>3
    <3> QED BY <3>2, <3>4
  <2>4. n > 0 /\ (lost <= 16 => short * 100 < 17 * n)
    BY <1>1, <2>3, SMTT(30) DEF Counted
  <2> QED BY <2>2, <2>3, <2>4
<1>7. ASSUME ~ (2 * short > n), ~ (diversity < 30), ~ (n < r) PROVE total >= 5100
  <2>1. count = 100
    BY <1>1, <1>7 DEF Counted
  <2>2. n > 0 /\ (lost > 50 => short * 100 >= 51 * n)
    <3>1. (n >= r => count = 100) /\ r \in 1..6
          /\ (n > 0 => (lost <= 16 <=> short * 100 < 17 * n) /\ (lost > 50 <=> short * 100 >= 51 * n))
      BY <1>1, Zenon DEF Counted
    <3>2. n > 0
      BY <1>7, <3>1
    <3> QED BY <3>1, <3>2, Zenon
  <2>3. lost <= 50
    <3>1. ~ (short * 100 >= 51 * n)
      BY <1>7, <2>2
    <3> QED BY <2>2, <3>1
  <2> QED BY <1>2, <1>7, <2>1, <2>3
<1> QED BY <1>3, <1>4, <1>5, <1>6, <1>7

\* A share is all of it, or less, but never more.
LEMMA ShareFits ==
  ASSUME NEW part \in Nat, NEW whole \in Nat, part <= whole
  PROVE  /\ Share(part, whole) \in 0..100
         /\ Share(part, whole) = 100 <=> part = whole
<1>1. CASE whole = 0
  BY <1>1 DEF Share
<1>2. CASE whole # 0
  <2>1. PICK q \in Nat : q = (100 * part) \div whole
    BY <1>2, Quotient
  <2>2. q >= 100 <=> 100 * part >= 100 * whole
    BY <1>2, <2>1, Quotient
  <2>3. q >= 101 <=> 100 * part >= 101 * whole
    BY <1>2, <2>1, Quotient
  <2>4. Share(part, whole) = q
    BY <1>2, <2>1 DEF Share
  <2> QED BY <1>2, <2>2, <2>3, <2>4
<1> QED BY <1>1, <1>2

\* Two finite sets have as much in common as both hold only when they are the same.
LEMMA InCommon ==
  ASSUME NEW a, NEW b, IsFiniteSet(a), IsFiniteSet(b)
  PROVE  /\ Cardinality(a) \in Nat /\ Cardinality(b) \in Nat
         /\ Cardinality(a \cap b) \in Nat /\ Cardinality(a \cup b) \in Nat
         /\ Cardinality(a \cap b) <= Cardinality(a) /\ Cardinality(a \cap b) <= Cardinality(b)
         /\ Cardinality(a \cap b) <= Cardinality(a \cup b)
         /\ Cardinality(a \cap b) = Cardinality(a \cup b) <=> a = b
         /\ Cardinality(a \cap b) = Cardinality(a) /\ Cardinality(a \cap b) = Cardinality(b) <=> a = b
<1>1. IsFiniteSet(a \cup b)
  BY FS_Union
<1>2. PICK both : both = a \cap b
  OBVIOUS
<1>3. PICK all : all = a \cup b
  OBVIOUS
<1>4. both \in SUBSET a /\ both \in SUBSET b /\ both \in SUBSET all /\ IsFiniteSet(all)
  BY <1>1, <1>2, <1>3
<1>5. IsFiniteSet(both) /\ Cardinality(both) <= Cardinality(a)
      /\ (Cardinality(a) = Cardinality(both) => a = both)
  BY <1>4, FS_Subset
<1>6. Cardinality(both) <= Cardinality(b) /\ (Cardinality(b) = Cardinality(both) => b = both)
  BY <1>4, FS_Subset
<1>7. Cardinality(both) <= Cardinality(all) /\ (Cardinality(all) = Cardinality(both) => all = both)
  BY <1>4, FS_Subset
<1>8. /\ Cardinality(a) \in Nat /\ Cardinality(b) \in Nat
      /\ Cardinality(both) \in Nat /\ Cardinality(all) \in Nat
  BY <1>4, <1>5, FS_CardinalityType
<1>9. (all = both => a = b) /\ (a = b => both = a /\ all = a /\ both = b)
  BY <1>2, <1>3
<1> QED BY <1>2, <1>3, <1>5, <1>6, <1>7, <1>8, <1>9

\* Only the very same voice scores all.
LEMMA SimilarityFits ==
  ASSUME NEW a, NEW b, IsFiniteSet(a.tone), IsFiniteSet(a.style),
         IsFiniteSet(b.tone), IsFiniteSet(b.style)
  PROVE  Similarity(a, b) = 100 <=> a.tone = b.tone /\ a.style = b.style
<1>1. PICK x \in 0..100 :
        x = Share(Cardinality(a.tone \cap b.tone), Cardinality(a.tone \cup b.tone))
        /\ (x = 100 <=> a.tone = b.tone)
  <2>1. PICK p \in Nat, w \in Nat :
          p = Cardinality(a.tone \cap b.tone) /\ w = Cardinality(a.tone \cup b.tone)
          /\ p <= w /\ (p = w <=> a.tone = b.tone)
    <3>1. PICK t, u : t = a.tone /\ u = b.tone
      OBVIOUS
    <3>2. /\ Cardinality(t \cap u) \in Nat /\ Cardinality(t \cup u) \in Nat
          /\ Cardinality(t \cap u) <= Cardinality(t \cup u)
          /\ Cardinality(t \cap u) = Cardinality(t \cup u) <=> t = u
      BY <3>1, InCommon
    <3> QED BY <3>1, <3>2
  <2>2. Share(p, w) \in 0..100 /\ (Share(p, w) = 100 <=> p = w)
    BY <2>1, ShareFits
  <2> QED BY <2>1, <2>2
<1>2. PICK y \in 0..100 :
        y = Share(Cardinality(a.style \cap b.style), Max({Cardinality(a.style), Cardinality(b.style)}))
        /\ (y = 100 <=> a.style = b.style)
  <2>1. PICK p \in Nat, m \in Nat, n \in Nat :
          p = Cardinality(a.style \cap b.style) /\ m = Cardinality(a.style) /\ n = Cardinality(b.style)
          /\ p <= m /\ p <= n /\ (p = m /\ p = n <=> a.style = b.style)
    <3>1. PICK t, u : t = a.style /\ u = b.style
      OBVIOUS
    <3>2. /\ Cardinality(t) \in Nat /\ Cardinality(u) \in Nat /\ Cardinality(t \cap u) \in Nat
          /\ Cardinality(t \cap u) <= Cardinality(t) /\ Cardinality(t \cap u) <= Cardinality(u)
          /\ Cardinality(t \cap u) = Cardinality(t) /\ Cardinality(t \cap u) = Cardinality(u) <=> t = u
      <4>1. IsFiniteSet(t) /\ IsFiniteSet(u)
        BY <3>1
      <4> QED BY <4>1, InCommon, Zenon
    <3> QED BY <3>1, <3>2
  <2>2. PICK w \in Nat : w = Max({m, n}) /\ w = IF m >= n THEN m ELSE n
    BY MaxOfTwo
  <2>3. p <= w /\ (p = w <=> p = m /\ p = n)
    BY <2>1, <2>2
  <2>4. Share(p, w) \in 0..100 /\ (Share(p, w) = 100 <=> p = w)
    BY <2>3, ShareFits
  <2> QED BY <2>1, <2>2, <2>3, <2>4
<1>3. Similarity(a, b) = (x + y) \div 2
  BY <1>1, <1>2 DEF Similarity
<1>4. (x + y) \div 2 = 100 <=> x = 100 /\ y = 100
  OBVIOUS
<1> QED BY <1>1, <1>2, <1>3, <1>4

--------------------------------------------------------------------------------
(* The invariant                                                           *)

Personas ==
  [source : {"extracted", "refreshed"}, tone : SUBSET STRING, style : SUBSET STRING,
   examples : Seq(Seq(STRING)), voice_dna : Dna, confidence : Int,
   warnings : SUBSET {"short", "diversity", "few"}]

\* A persona is what was made of the samples it was given, and the phrases of the
\* open VoiceDna are those written to it or better ones.
PersonaInv ==
  persona # NoPersona =>
    /\ persona \in Personas /\ IsFiniteSet(persona.tone) /\ IsFiniteSet(persona.style)
    /\ given \in Seq(WeightedSample)
    /\ persona.confidence = Confidence(Analyzed(given))
    /\ persona.warnings = Warnings(Analyzed(given))
    /\ Len(persona.voice_dna) <= MAX_DNA_PHRASES
    /\ \A i \in DOMAIN persona.voice_dna : Relies(persona.voice_dna[i], dna)

\* What the last call returned is what it computed.
ReturnedInv ==
  \/ returned = Nothing
  \/ \E text \in Seq(STRING) :
       returned = [of |-> "check", draft |-> text, result |-> check(user.config, text)]
  \/ \E a, b :
       /\ IsFiniteSet(a.tone) /\ IsFiniteSet(a.style) /\ IsFiniteSet(b.tone) /\ IsFiniteSet(b.style)
       /\ returned = [of |-> "refresh", similarity |-> Similarity(a, b),
                      voices |-> <<a.tone, a.style, b.tone, b.style>>]

Inv ==
  /\ user \in Users
  /\ dna \in Dna /\ Len(dna) <= MAX_DNA_PHRASES
  /\ PersonaInv
  /\ ReturnedInv

--------------------------------------------------------------------------------
(* What it implies                                                         *)

LEMMA InvNoTwins ==
  ASSUME Inv
  PROVE  NoTwins
<1>1. \A d \in Dna : \A i, j \in DOMAIN d : lowercase(d[i].phrase) = lowercase(d[j].phrase) => i = j
  BY DEF Dna
<1>2. dna \in Dna /\ (persona # NoPersona => persona.voice_dna \in Dna)
  BY DEF Inv, PersonaInv, Personas
<1> QED BY <1>1, <1>2 DEF NoTwins

LEMMA InvScores ==
  ASSUME Inv
  PROVE  ScoresHonest
<1> SUFFICES ASSUME persona # NoPersona
             PROVE  /\ persona.confidence >= 95 => persona.warnings = {}
                    /\ persona.warnings = {} => persona.confidence > 50
                    /\ returned.of = "refresh" =>
                         ((returned.similarity = 100) <=>
                           (returned.voices[1] = returned.voices[3] /\ returned.voices[2] = returned.voices[4]))
  BY DEF ScoresHonest
<1>1. PICK samples \in Seq(WeightedSample) :
        persona.confidence = Confidence(samples) /\ persona.warnings = Warnings(samples)
  <2>1. given \in Seq(WeightedSample)
    BY DEF Inv, PersonaInv
  <2>2. Analyzed(given) \in Seq(WeightedSample)
    BY <2>1, AnalyzedAreSamples
  <2> QED BY <2>2 DEF Inv, PersonaInv
<1>2. /\ persona.confidence >= 95 => persona.warnings = {}
      /\ persona.warnings = {} => persona.confidence > 50
  BY <1>1, ConfidenceFits
<1>3. ASSUME returned.of = "refresh"
      PROVE  (returned.similarity = 100) <=>
               (returned.voices[1] = returned.voices[3] /\ returned.voices[2] = returned.voices[4])
  <2>1. ReturnedInv
    BY DEF Inv
  <2>2. PICK a, b :
          /\ IsFiniteSet(a.tone) /\ IsFiniteSet(a.style) /\ IsFiniteSet(b.tone) /\ IsFiniteSet(b.style)
          /\ returned = [of |-> "refresh", similarity |-> Similarity(a, b),
                         voices |-> <<a.tone, a.style, b.tone, b.style>>]
    BY <1>3, <2>1 DEF ReturnedInv, Nothing
  <2>3. Similarity(a, b) = 100 <=> a.tone = b.tone /\ a.style = b.style
    BY <2>2, SimilarityFits
  <2>4. /\ returned.similarity = Similarity(a, b)
        /\ returned.voices = <<a.tone, a.style, b.tone, b.style>>
    BY <2>2
  <2> QED BY <2>3, <2>4
<1> QED BY <1>2, <1>3

LEMMA InvPassed ==
  ASSUME Inv
  PROVE  PassedIsFit
<1> SUFFICES ASSUME returned.of = "check", Passed(returned.result)
             PROVE  LET cleaned == returned.result.cleaned
                        c == user.config IN
                    /\ \A phrase \in AI_VOCABULARY \cup c.extra_ai_phrases :
                         phrase \in SubSeqs(cleaned) => c.fix_em_dashes /\ Contains(phrase, ".")
                    /\ Opens(cleaned) => Head(returned.draft) \in Blanks
                    /\ c.reject_multi_paragraph => ~ Contains(cleaned, "para")
                    /\ c.max_sentences > 0 => Sentences(cleaned) <= c.max_sentences
  BY DEF PassedIsFit
<1>1. ReturnedInv
  BY DEF Inv
<1>2. PICK text \in Seq(STRING) :
        returned = [of |-> "check", draft |-> text, result |-> check(user.config, text)]
  BY <1>1 DEF ReturnedInv, Nothing
<1>3. PICK c \in VoiceFilterConfig : c = user.config
  BY UsersAssumption DEF Inv
<1>4. text \in Seq(Token)
  <2>1. PICK n \in Nat : n = Len(text) /\ text \in [1..n -> STRING]
    BY LenProperties
  <2>2. text \in [1..n -> Token]
    BY <2>1 DEF Token
  <2> QED BY <2>2
<1>5. returned.draft = text /\ returned.result = check(c, text)
  BY <1>2, <1>3
<1>6. Passed(check(c, text))
  BY <1>5
<1>7. LET cleaned == check(c, text).cleaned IN
         /\ \A phrase \in AI_VOCABULARY \cup c.extra_ai_phrases :
              phrase \in SubSeqs(cleaned) => c.fix_em_dashes /\ Contains(phrase, ".")
         /\ Opens(cleaned) => text # << >> /\ Head(text) \in Blanks
         /\ c.reject_multi_paragraph => ~ Contains(cleaned, "para")
         /\ c.max_sentences > 0 => Sentences(cleaned) <= c.max_sentences
  BY <1>4, <1>6, PassedFits
<1> QED BY <1>3, <1>5, <1>7

--------------------------------------------------------------------------------
(* That it is inductive                                                    *)

LEMMA InvInit ==
  ASSUME PersonaInit
  PROVE  Inv
<1>1. << >> \in Dna /\ Len(<< >>) <= MAX_DNA_PHRASES
  BY DnaAssumption DEF Dna
<1> QED BY <1>1 DEF PersonaInit, Inv, PersonaInv, ReturnedInv

\* The persona of an answer that can be read.
LEMMA ExtractedPersonas ==
  ASSUME NEW samples \in Seq(WeightedSample), NEW answer \in Answers
  PROVE  /\ extract(samples, answer) \in Personas
         /\ extract(samples, answer).tone = answer.tone /\ IsFiniteSet(answer.tone)
         /\ extract(samples, answer).style = answer.style /\ IsFiniteSet(answer.style)
         /\ extract(samples, answer).voice_dna = << >>
         /\ extract(samples, answer).confidence = Confidence(Analyzed(samples))
         /\ extract(samples, answer).warnings = Warnings(Analyzed(samples))
<1>1. /\ answer.tone \in SUBSET STRING /\ answer.style \in SUBSET STRING
      /\ answer.examples \in Seq(Seq(STRING))
      /\ IsFiniteSet(answer.tone) /\ IsFiniteSet(answer.style)
  BY AnswersAssumption DEF ExtractedPersona
<1>2. PICK analyzed \in Seq(WeightedSample) : analyzed = Analyzed(samples)
  BY AnalyzedAreSamples
<1>3. PICK examples \in Seq(Seq(STRING)) : examples = validate_examples(answer.examples, analyzed)
  BY <1>1, ExamplesAreTexts
<1>4. PICK confidence \in Int : confidence = Confidence(analyzed)
  BY ConfidenceFits
<1>5. PICK warnings \in SUBSET {"short", "diversity", "few"} : warnings = Warnings(analyzed)
  BY DEF Warnings
<1>6. << >> \in Dna
  BY DEF Dna
<1>7. extract(samples, answer) =
        [source |-> "extracted", tone |-> answer.tone, style |-> answer.style, examples |-> examples,
         voice_dna |-> << >>, confidence |-> confidence, warnings |-> warnings]
  BY <1>2, <1>3, <1>4, <1>5 DEF extract
<1> QED BY <1>1, <1>2, <1>3, <1>4, <1>5, <1>6, <1>7 DEF Personas

LEMMA RelyOnThemselves ==
  ASSUME NEW d \in Dna
  PROVE  \A i \in DOMAIN d : Relies(d[i], d)
<1>1. \A i \in DOMAIN d : d[i].confirmed_by \in Nat
  BY DnaPlaces
<1>2. \A i \in DOMAIN d : d[i].confirmed_by <= d[i].confirmed_by
  BY <1>1
<1> QED BY <1>2 DEF Relies

\* Every step keeps it.
LEMMA InvNext ==
  ASSUME Inv, [PersonaNext]_personaVars
  PROVE  Inv'
<1> USE DEF Inv
<1>1. /\ user.samples \subseteq Seq(WeightedSample) /\ user.drafts \subseteq Seq(STRING)
      /\ user.liked \subseteq Seq(DOMAIN Word)
  BY UsersAssumption
<1>2. NoPersona.source = "none" /\ \A p \in Personas : p # NoPersona
  BY DEF NoPersona, Personas
<1>3. << >> \in Dna /\ Len(<< >>) <= MAX_DNA_PHRASES /\ DOMAIN << >> = {}
  BY DnaAssumption DEF Dna
<1>4. ASSUME NEW samples \in user.samples, NEW answer \in Answers, Extract(samples, answer)
      PROVE  Inv'
  <2>1. /\ persona' = extract(samples, answer) /\ given' = samples /\ dna' = << >>
        /\ returned' = Nothing /\ user' = user /\ samples \in Seq(WeightedSample)
    BY <1>1, <1>4 DEF Extract
  <2>2. persona'.voice_dna = << >>
    BY <2>1, ExtractedPersonas
  <2>3. PersonaInv'
    <3>1. /\ persona' \in Personas /\ IsFiniteSet(persona'.tone) /\ IsFiniteSet(persona'.style)
          /\ persona'.confidence = Confidence(Analyzed(samples))
          /\ persona'.warnings = Warnings(Analyzed(samples))
      BY <2>1, ExtractedPersonas
    <3>2. Len(persona'.voice_dna) <= MAX_DNA_PHRASES /\ DOMAIN persona'.voice_dna = {}
      BY <1>3, <2>2
    <3> QED BY <2>1, <3>1, <3>2 DEF PersonaInv
  <2> QED BY <1>3, <2>1, <2>3 DEF ReturnedInv
<1>5. ASSUME NEW samples \in user.samples, NEW answer \in Answers, Refresh(samples, answer)
      PROVE  Inv'
  <2>1. /\ persona # NoPersona /\ persona' = Refreshed(samples, answer) /\ given' = samples
        /\ UNCHANGED <<user, dna>> /\ samples \in Seq(WeightedSample)
        /\ returned' = [of |-> "refresh", similarity |-> Similarity(persona, answer),
                        voices |-> <<persona.tone, persona.style, answer.tone, answer.style>>]
    BY <1>1, <1>5 DEF Refresh
  <2>2. PICK fresh : fresh = extract(samples, answer)
    OBVIOUS
  <2>3. /\ fresh \in Personas /\ IsFiniteSet(fresh.tone) /\ IsFiniteSet(fresh.style)
        /\ fresh.confidence = Confidence(Analyzed(samples))
        /\ fresh.warnings = Warnings(Analyzed(samples))
        /\ IsFiniteSet(answer.tone) /\ IsFiniteSet(answer.style)
    BY <2>1, <2>2, ExtractedPersonas
  <2>4. PICK old \in Dna : old = persona.voice_dna
    BY <2>1 DEF PersonaInv, Personas
  <2>5. persona' = [fresh EXCEPT !.source = "refreshed", !.voice_dna = old]
    BY <2>1, <2>2, <2>4 DEF Refreshed
  <2>6. /\ persona' \in Personas /\ persona'.tone = fresh.tone /\ persona'.style = fresh.style
        /\ persona'.examples = fresh.examples /\ persona'.voice_dna = old
        /\ persona'.confidence = fresh.confidence /\ persona'.warnings = fresh.warnings
    BY <2>3, <2>5 DEF Personas
  <2>7. Len(old) <= MAX_DNA_PHRASES /\ \A i \in DOMAIN old : Relies(old[i], dna)
    BY <2>1, <2>4 DEF PersonaInv
  <2>8. PersonaInv'
    BY <2>1, <2>3, <2>6, <2>7 DEF PersonaInv
  <2>9. ReturnedInv'
    <3>1. IsFiniteSet(persona.tone) /\ IsFiniteSet(persona.style)
      BY <2>1 DEF PersonaInv
    <3> QED BY <2>1, <2>3, <3>1 DEF ReturnedInv
  <2> QED BY <2>1, <2>8, <2>9
<1>6. ASSUME Reopened PROVE Inv'
  <2>1. /\ UNCHANGED <<user, persona, given>> /\ returned' = Nothing
        /\ dna' = IF persona = NoPersona THEN << >> ELSE persona.voice_dna
    BY <1>6 DEF Reopened
  <2>2. CASE persona = NoPersona
    BY <1>3, <2>1, <2>2 DEF PersonaInv, ReturnedInv
  <2>3. CASE persona # NoPersona
    <3>1. PICK old \in Dna : old = persona.voice_dna
      BY <2>3 DEF PersonaInv, Personas
    <3>2. Len(old) <= MAX_DNA_PHRASES /\ \A i \in DOMAIN old : Relies(old[i], old)
      BY <2>3, <3>1, RelyOnThemselves DEF PersonaInv
    <3>3. dna' = old
      BY <2>1, <2>3, <3>1
    <3> QED BY <2>1, <2>3, <3>1, <3>2, <3>3 DEF PersonaInv, ReturnedInv
  <2> QED BY <2>2, <2>3
<1>7. ASSUME NEW text \in user.drafts, Check(text) PROVE Inv'
  <2>1. /\ UNCHANGED <<user, persona, given, dna>> /\ text \in Seq(STRING)
        /\ returned' = [of |-> "check", draft |-> text, result |-> check(user.config, text)]
    BY <1>1, <1>7 DEF Check
  <2>2. PersonaInv'
    BY <2>1 DEF PersonaInv
  <2>3. ReturnedInv'
    BY <2>1 DEF ReturnedInv
  <2> QED BY <2>1, <2>2, <2>3
<1>8. ASSUME NEW text \in user.liked, Success(text) PROVE Inv'
  <2>1. /\ UNCHANGED <<user, persona, given>> /\ text \in Seq(DOMAIN Word)
        /\ dna' = record_success(dna, text) /\ returned' = Nothing /\ persona # NoPersona
    BY <1>1, <1>8 DEF Success
  <2>2. /\ dna' \in Dna /\ Len(dna') <= MAX_DNA_PHRASES
        /\ \A p \in DnaPhrase : Relies(p, dna) => Relies(p, dna')
    BY <2>1, SuccessKeepsFaith
  <2>3. \A i \in DOMAIN persona.voice_dna : persona.voice_dna[i] \in DnaPhrase
    <3>1. persona.voice_dna \in Dna
      BY <2>1 DEF PersonaInv, Personas
    <3> QED BY <3>1, DnaPlaces
  <2>4. PersonaInv'
    BY <2>1, <2>2, <2>3 DEF PersonaInv
  <2> QED BY <2>1, <2>2, <2>4 DEF ReturnedInv
<1>9. ASSUME Export PROVE Inv'
  <2>1. /\ persona # NoPersona /\ persona' = [persona EXCEPT !.voice_dna = dna]
        /\ UNCHANGED <<user, given, dna>> /\ returned' = Nothing
    BY <1>9 DEF Export
  <2>2. persona \in Personas
    BY <2>1 DEF PersonaInv
  <2>3. /\ persona' \in Personas /\ persona'.tone = persona.tone /\ persona'.style = persona.style
        /\ persona'.examples = persona.examples /\ persona'.voice_dna = dna
        /\ persona'.confidence = persona.confidence /\ persona'.warnings = persona.warnings
    BY <2>1, <2>2 DEF Personas
  <2>4. PersonaInv'
    BY <2>1, <2>3, RelyOnThemselves DEF PersonaInv
  <2> QED BY <2>1, <2>4 DEF ReturnedInv
<1>10. CASE UNCHANGED personaVars
  BY <1>10 DEF personaVars, PersonaInv, ReturnedInv
<1> QED BY <1>4, <1>5, <1>6, <1>7, <1>8, <1>9, <1>10 DEF PersonaNext, Panic

\* A phrase that is relied on where no two are the same leaves only for stronger ones.
LEMMA LeftForStronger ==
  ASSUME NEW p \in DnaPhrase, NEW after \in Dna, Relies(p, after)
  PROVE  OnlyCut(p, after)
<1>1. \A i, j \in DOMAIN after : after[i].phrase = after[j].phrase => i = j
  BY DEF Dna
<1> QED BY <1>1 DEF Relies, Weaker, OnlyCut

LEMMA StepOnlyCuts ==
  ASSUME Inv, [PersonaNext]_personaVars
  PROVE  [persona # NoPersona =>
            \A i \in DOMAIN persona.voice_dna :
              OnlyCut(persona.voice_dna[i], persona'.voice_dna)]_personaVars
<1> SUFFICES ASSUME persona # NoPersona, NEW i \in DOMAIN persona.voice_dna
             PROVE  OnlyCut(persona.voice_dna[i], persona'.voice_dna)
  OBVIOUS
<1>1. PICK old \in Dna : old = persona.voice_dna
  BY DEF Inv, PersonaInv, Personas
<1>2. /\ old[i] \in DnaPhrase /\ Relies(old[i], old) /\ Relies(old[i], dna) /\ dna \in Dna
      /\ persona \in Personas
  BY <1>1, DnaPlaces, RelyOnThemselves DEF Inv, PersonaInv
<1>3. persona'.voice_dna = old \/ persona'.voice_dna = dna
  <2>1. ASSUME NEW samples \in user.samples, NEW answer \in Answers, Refresh(samples, answer)
        PROVE  persona'.voice_dna = old
    <3>1. samples \in Seq(WeightedSample)
      BY UsersAssumption DEF Inv
    <3>2. PICK fresh \in Personas : fresh = extract(samples, answer)
      BY <3>1, ExtractedPersonas
    <3>3. persona' = [fresh EXCEPT !.source = "refreshed", !.voice_dna = old]
      BY <1>1, <2>1, <3>2 DEF Refresh, Refreshed
    <3> QED BY <3>2, <3>3 DEF Personas
  <2>2. ASSUME Export PROVE persona'.voice_dna = dna
    <3>1. persona' = [persona EXCEPT !.voice_dna = dna]
      BY <2>2 DEF Export
    <3> QED BY <1>2, <3>1 DEF Personas
  <2>3. ASSUME NEW samples \in user.samples, NEW answer \in Answers, Extract(samples, answer)
        PROVE  FALSE
    BY <2>3 DEF Extract
  <2>4. ASSUME NEW text, Check(text) PROVE persona' = persona
    BY <2>4 DEF Check
  <2>5. ASSUME NEW text, Success(text) PROVE persona' = persona
    BY <2>5 DEF Success
  <2>6. ASSUME Reopened PROVE persona' = persona
    BY <2>6 DEF Reopened
  <2>7. ASSUME UNCHANGED personaVars PROVE persona' = persona
    BY <2>7 DEF personaVars
  <2> QED BY <1>1, <2>1, <2>2, <2>3, <2>4, <2>5, <2>6, <2>7 DEF PersonaNext, Panic
<1>4. PICK after \in Dna : after = persona'.voice_dna /\ Relies(old[i], after)
  BY <1>2, <1>3
<1> QED BY <1>1, <1>2, <1>4, LeftForStronger

--------------------------------------------------------------------------------

\* The invariant holds in every behaviour.
THEOREM Invariant == PersonaSpec => []Inv
<1>1. PersonaInit => Inv
  BY InvInit
<1>2. Inv /\ [PersonaNext]_personaVars => Inv'
  BY InvNext
<1> QED BY <1>1, <1>2, PTL DEF PersonaSpec

\* What passes the voice filter is fit to be sent, whatever the vocabulary, the
\* configuration and the draft.
THEOREM PassedFit == PersonaSpec => []PassedIsFit
<1>1. Inv => PassedIsFit
  BY InvPassed
<1> QED BY <1>1, Invariant, PTL

\* No phrase has two entries, whatever texts are well received.
THEOREM TwinsNever == PersonaSpec => []NoTwins
<1>1. Inv => NoTwins
  BY InvNoTwins
<1> QED BY <1>1, Invariant, PTL

\* A phrase that was written to the persona leaves it only for stronger ones.
THEOREM DnaKept == PersonaSpec => DnaOnlyCut
<1>1. Inv /\ [PersonaNext]_personaVars =>
        [persona # NoPersona =>
           \A i \in DOMAIN persona.voice_dna :
             OnlyCut(persona.voice_dna[i], persona'.voice_dna)]_personaVars
  BY StepOnlyCuts
<1> QED BY <1>1, Invariant, PTL DEF PersonaSpec, DnaOnlyCut

\* The scores say what the warnings say, and only the same voice scores all.
THEOREM ScoresHold == PersonaSpec => []ScoresHonest
<1>1. Inv => ScoresHonest
  BY InvScores
<1> QED BY <1>1, Invariant, PTL
================================================================================
