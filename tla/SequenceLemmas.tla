----------------------------- MODULE SequenceLemmas -----------------------------
(* What the proofs need of sequences, of natural numbers and of folds over     *)
(* them, and the library does not state.                                       *)
EXTENDS SequencesExt, FiniteSetsExt, SequenceTheorems, WellFoundedInduction, TLAPS

\* An element that moves from the head of one sequence to the end of the one before
\* it leaves what the two say together.
LEMMA MoveHead ==
  ASSUME NEW S, NEW s \in Seq(S), NEW t \in Seq(S), t # << >>
  PROVE  Append(s, Head(t)) \o Tail(t) = s \o t
<1>1. /\ Head(t) \in S /\ Tail(t) \in Seq(S) /\ Head(t) = t[1]
      /\ Len(Tail(t)) = Len(t) - 1 /\ Len(t) \in Nat \ {0} /\ Len(s) \in Nat
      /\ \A i \in 1..Len(Tail(t)) : Tail(t)[i] = t[i + 1]
  BY HeadTailProperties, EmptySeq, LenProperties
<1>2. /\ Append(s, Head(t)) \in Seq(S) /\ Len(Append(s, Head(t))) = Len(s) + 1
      /\ \A i \in 1..Len(s) : Append(s, Head(t))[i] = s[i]
      /\ Append(s, Head(t))[Len(s) + 1] = t[1]
  BY <1>1, AppendProperties
<1> DEFINE left == Append(s, Head(t)) \o Tail(t)
<1>3. /\ left \in Seq(S) /\ Len(left) = Len(s) + Len(t)
      /\ \A i \in 1..(Len(s) + Len(t)) :
           left[i] = IF i <= Len(s) + 1 THEN Append(s, Head(t))[i] ELSE Tail(t)[i - (Len(s) + 1)]
  BY <1>1, <1>2, ConcatProperties
<1>4. /\ s \o t \in Seq(S) /\ Len(s \o t) = Len(s) + Len(t)
      /\ \A i \in 1..(Len(s) + Len(t)) : (s \o t)[i] = IF i <= Len(s) THEN s[i] ELSE t[i - Len(s)]
  BY ConcatProperties
<1>5. ASSUME NEW i \in 1..(Len(s) + Len(t)) PROVE left[i] = (s \o t)[i]
  <2>1. CASE i <= Len(s)
    BY <1>1, <1>2, <1>3, <1>4, <2>1
  <2>2. CASE i = Len(s) + 1
    BY <1>1, <1>2, <1>3, <1>4, <2>2
  <2>3. CASE i > Len(s) + 1
    <3>1. i - (Len(s) + 1) \in 1..Len(Tail(t)) /\ (i - (Len(s) + 1)) + 1 = i - Len(s)
      BY <1>1, <2>3
    <3> QED BY <1>1, <1>3, <1>4, <2>3, <3>1
  <2> QED BY <1>1, <2>1, <2>2, <2>3
<1> HIDE DEF left
<1>6. left = s \o t
  BY <1>3, <1>4, <1>5, SeqEqual
<1> QED BY <1>6 DEF left

\* The elements of two sequences that follow one another.
LEMMA InConcat ==
  ASSUME NEW S, NEW s \in Seq(S), NEW t \in Seq(S)
  PROVE  /\ \A i \in DOMAIN s : i \in DOMAIN (s \o t) /\ (s \o t)[i] = s[i]
         /\ \A i \in DOMAIN t : Len(s) + i \in DOMAIN (s \o t) /\ (s \o t)[Len(s) + i] = t[i]
         /\ \A i \in DOMAIN (s \o t) :
              i \in DOMAIN s \/ \E j \in DOMAIN t : i = Len(s) + j
<1> DEFINE st == s \o t
<1>1. /\ Len(s) \in Nat /\ DOMAIN s = 1..Len(s) /\ Len(t) \in Nat /\ DOMAIN t = 1..Len(t)
      /\ DOMAIN st = 1..(Len(s) + Len(t))
      /\ \A i \in DOMAIN st : st[i] = IF i <= Len(s) THEN s[i] ELSE t[i - Len(s)]
  BY ConcatProperties, LenProperties
<1> HIDE DEF st
<1>2. \A i \in DOMAIN s : i \in DOMAIN st /\ st[i] = s[i]
  BY <1>1
<1>3. ASSUME NEW i \in DOMAIN t PROVE Len(s) + i \in DOMAIN st /\ st[Len(s) + i] = t[i]
  <2>1. Len(s) + i \in DOMAIN st /\ ~ (Len(s) + i <= Len(s)) /\ (Len(s) + i) - Len(s) = i
    BY <1>1
  <2> QED BY <1>1, <2>1
<1>4. ASSUME NEW i \in DOMAIN st, i \notin DOMAIN s PROVE \E j \in DOMAIN t : i = Len(s) + j
  <2>1. i - Len(s) \in DOMAIN t /\ i = Len(s) + (i - Len(s))
    BY <1>1, <1>4
  <2> QED BY <2>1
<1> QED BY <1>2, <1>3, <1>4 DEF st

\* The same by the lengths.
LEMMA ConcatPlaces ==
  ASSUME NEW S, NEW s \in Seq(S), NEW t \in Seq(S), NEW m \in Nat, NEW n \in Nat,
         m = Len(s), n = Len(t)
  PROVE  /\ \A k \in 1..m : (s \o t)[k] = s[k]
         /\ \A k \in 1..n : (s \o t)[m + k] = t[k]
<1>1. DOMAIN s = 1..m /\ DOMAIN t = 1..n
  BY LenProperties
<1>2. PICK st : st = s \o t
  OBVIOUS
<1>3. /\ \A i \in DOMAIN s : st[i] = s[i]
      /\ \A i \in DOMAIN t : st[Len(s) + i] = t[i]
  BY <1>2, InConcat
<1> QED BY <1>1, <1>2, <1>3

\* A set of natural numbers that is not empty has a least element.
LEMMA Least ==
  ASSUME NEW T \in SUBSET Nat, T # {}
  PROVE  \E x \in T : \A y \in T : x <= y
<1>1. PICK x \in T : \A y \in T : <<y, x>> \notin OpToRel(<, Nat)
  BY WFMin, NatLessThanWellFounded
<1>2. \A y, z \in Nat : y < z => <<y, z>> \in OpToRel(<, Nat)
  BY Zenon DEF OpToRel
<1>3. \A y \in T : ~ (y < x)
  BY <1>1, <1>2
<1> QED BY <1>3

\* A set of natural numbers that is not empty has its least element for its Min.
LEMMA MinIsLeast ==
  ASSUME NEW T \in SUBSET Nat, T # {}
  PROVE  Min(T) \in T /\ \A y \in T : Min(T) <= y
<1>1. PICK z \in T : \A y \in T : z <= y
  BY Least
<1>2. Min(T) = CHOOSE x \in T : \A y \in T : x <= y
  BY DEF Min
<1> QED BY <1>1, <1>2

--------------------------------------------------------------------------------
(* Sequences of sequences laid end to end                                  *)

\* What FlattenSeq returns is the last of its partial results: each is the one
\* before it and the next of the sequences.
LEMMA Flattened ==
  ASSUME NEW S, NEW ss \in Seq(Seq(S))
  PROVE  \E f \in [0..Len(ss) -> Seq(S)] :
           /\ f[0] = << >>
           /\ \A i \in 1..Len(ss) : f[i] = f[i - 1] \o ss[i]
           /\ FlattenSeq(ss) = f[Len(ss)]
<1>1. Len(ss) \in Nat /\ \A i \in 1..Len(ss) : ss[i] \in Seq(S)
  BY ElementOfSeq
<1>2. << >> \in Seq(S)
  OBVIOUS
<1>3. CASE Len(ss) = 0
  <2>1. ss = << >> /\ FlattenSeq(ss) = << >>
    BY <1>3, EmptySeq DEF FlattenSeq
  <2>2. /\ [i \in 0..Len(ss) |-> << >>] \in [0..Len(ss) -> Seq(S)]
        /\ [i \in 0..Len(ss) |-> << >>][0] = << >>
        /\ [i \in 0..Len(ss) |-> << >>][Len(ss)] = << >>
        /\ 1..Len(ss) = {}
    BY <1>2, <1>3
  <2> QED BY <2>1, <2>2
<1>4. CASE Len(ss) > 0
  <2> DEFINE Next(g, i) == IF i = 1 THEN ss[i] ELSE g[i - 1] \o ss[i]
             Upto(g, n) == DOMAIN g = 1..n /\ \A i \in 1..n : g[i] = Next(g, i) /\ g[i] \in Seq(S)
             Bad == {n \in Nat : n <= Len(ss) /\ ~ \E g : Upto(g, n)}
  <2>1. Bad = {}
    <3>1. SUFFICES ASSUME Bad # {} PROVE FALSE
      OBVIOUS
    <3>2. PICK n \in Bad : \A m \in Bad : n <= m
      BY <3>1, Least, Zenon
    <3>3. Upto([i \in {} |-> 0], 0)
      OBVIOUS
    <3>4. n # 0 /\ n \in Nat /\ n <= Len(ss) /\ ~ \E g : Upto(g, n)
      BY <3>2, <3>3
    <3>5. n - 1 \in Nat /\ n - 1 <= Len(ss) /\ ~ (n <= n - 1)
      BY <1>1, <3>4
    <3>6. PICK g : Upto(g, n - 1)
      <4> HIDE DEF Upto
      <4>1. n - 1 \notin Bad
        BY <3>2, <3>5
      <4> QED BY <3>5, <4>1
    <3> DEFINE h == [i \in 1..n |-> IF i = n THEN Next(g, n) ELSE g[i]]
    <3>7. Next(g, n) \in Seq(S)
      <4>1. n \in 1..Len(ss)
        BY <3>4
      <4>2. CASE n = 1
        BY <1>1, <4>1, <4>2
      <4>3. CASE n # 1
        <5>1. n - 1 \in 1..(n - 1)
          BY <3>4, <4>3
        <5>2. g[n - 1] \in Seq(S) /\ ss[n] \in Seq(S)
          BY <1>1, <3>6, <4>1, <5>1
        <5> QED BY <4>3, <5>2, ConcatProperties
      <4> QED BY <4>2, <4>3
    <3>8. ASSUME NEW i \in 1..n PROVE h[i] = Next(h, i) /\ h[i] \in Seq(S)
      <4>1. CASE i = n
        <5>1. h[i] = Next(g, n)
          BY <4>1
        <5>2. n # 1 => n - 1 \in 1..n /\ n - 1 # n
          BY <3>4
        <5>3. n # 1 => h[n - 1] = g[n - 1]
          BY <5>2
        <5> QED BY <3>7, <4>1, <5>1, <5>3
      <4>2. CASE i # n
        <5>1. i \in 1..(n - 1) /\ h[i] = g[i]
          BY <3>4, <4>2
        <5>2. i # 1 => i - 1 \in 1..n /\ i - 1 # n
          BY <3>4
        <5>3. i # 1 => h[i - 1] = g[i - 1]
          BY <5>2
        <5> QED BY <3>6, <5>1, <5>3
      <4> QED BY <4>1, <4>2
    <3>9. DOMAIN h = 1..n
      OBVIOUS
    <3> HIDE DEF h
    <3>10. Upto(h, n)
      BY <3>8, <3>9
    <3> QED BY <3>4, <3>10
  <2> DEFINE flat == CHOOSE g : g = [i \in 1..Len(ss) |-> Next(g, i)]
  <2>2. PICK g : Upto(g, Len(ss))
    <3> HIDE DEF Upto
    <3>1. Len(ss) <= Len(ss)
      BY <1>1
    <3> QED BY <1>1, <2>1, <3>1
  <2>3. \E k : k = [i \in 1..Len(ss) |-> Next(k, i)]
    <3> DEFINE k == [i \in 1..Len(ss) |-> g[i]]
    <3>1. \A i \in 1..Len(ss) : k[i] = Next(k, i)
      <4>1. SUFFICES ASSUME NEW i \in 1..Len(ss) PROVE k[i] = Next(k, i)
        OBVIOUS
      <4>2. i # 1 => i - 1 \in 1..Len(ss)
        BY <1>1
      <4> QED BY <2>2, <4>2
    <3>2. k = [i \in 1..Len(ss) |-> k[i]]
      OBVIOUS
    <3> HIDE DEF k
    <3>3. k = [i \in 1..Len(ss) |-> Next(k, i)]
      BY <3>1, <3>2
    <3> QED BY <3>3
  <2>4. flat = [i \in 1..Len(ss) |-> Next(flat, i)]
    BY <2>3
  <2>5. FlattenSeq(ss) = flat[Len(ss)]
    BY <1>4 DEF FlattenSeq
  <2> HIDE DEF flat
  <2>6. \A i \in 1..Len(ss) : flat[i] = Next(flat, i)
    BY <2>4
  <2> DEFINE Odd == {i \in Nat : i \in 1..Len(ss) /\ flat[i] \notin Seq(S)}
  <2>7. Odd = {}
    <3>1. SUFFICES ASSUME Odd # {} PROVE FALSE
      OBVIOUS
    <3>2. PICK n \in Odd : \A m \in Odd : n <= m
      BY <3>1, Least, Zenon
    <3>3. n \in Nat /\ n \in 1..Len(ss) /\ ss[n] \in Seq(S)
      BY <1>1, <3>2
    <3>4. CASE n = 1
      BY <2>6, <3>2, <3>3, <3>4
    <3>5. CASE n # 1
      <4>1. n - 1 \in 1..Len(ss) /\ n - 1 \in Nat /\ ~ (n <= n - 1)
        BY <1>1, <3>3, <3>5
      <4>2. flat[n - 1] \in Seq(S)
        BY <3>2, <4>1
      <4>3. flat[n] = flat[n - 1] \o ss[n]
        BY <2>6, <3>3, <3>5
      <4>4. flat[n] \in Seq(S)
        BY <3>3, <4>2, <4>3, ConcatProperties
      <4> QED BY <3>2, <4>4
    <3> QED BY <3>4, <3>5
  <2> DEFINE f == [i \in 0..Len(ss) |-> IF i = 0 THEN << >> ELSE flat[i]]
  <2>8. \A i \in 1..Len(ss) : flat[i] \in Seq(S)
    <3>1. \A i \in 1..Len(ss) : i \in Nat
      BY <1>1
    <3> QED BY <2>7, <3>1
  <2>9. f \in [0..Len(ss) -> Seq(S)]
    BY <1>1, <1>2, <2>8
  <2>10. f[0] = << >> /\ FlattenSeq(ss) = f[Len(ss)]
    BY <1>1, <1>4, <2>5
  <2>11. ASSUME NEW i \in 1..Len(ss) PROVE f[i] = f[i - 1] \o ss[i]
    <3>1. f[i] = flat[i] /\ i - 1 \in 0..Len(ss)
      BY <1>1
    <3>2. CASE i = 1
      <4>1. f[i - 1] = << >> /\ f[i] = ss[i] /\ ss[i] \in Seq(S)
        BY <1>1, <2>6, <3>1, <3>2
      <4> QED BY <4>1, ConcatEmptySeq
    <3>3. CASE i # 1
      <4>1. f[i - 1] = flat[i - 1]
        BY <1>1, <3>1, <3>3
      <4> QED BY <2>6, <3>1, <3>3, <4>1
    <3> QED BY <3>2, <3>3
  <2> HIDE DEF f
  <2> QED BY <2>9, <2>10, <2>11
<1>5. Len(ss) = 0 \/ Len(ss) > 0
  BY <1>1
<1> QED BY <1>3, <1>4, <1>5

\* Empty sequences laid end to end are empty.
LEMMA FlattenedEmpty ==
  ASSUME NEW S, NEW ss \in Seq(Seq(S)), \A i \in 1..Len(ss) : ss[i] = << >>
  PROVE  FlattenSeq(ss) = << >>
<1>1. PICK f \in [0..Len(ss) -> Seq(S)] :
        /\ f[0] = << >>
        /\ \A i \in 1..Len(ss) : f[i] = f[i - 1] \o ss[i]
        /\ FlattenSeq(ss) = f[Len(ss)]
  BY Flattened
<1> DEFINE Odd == {i \in Nat : i <= Len(ss) /\ f[i] # << >>}
<1>2. CASE Odd # {}
  <2>1. PICK n \in Odd : \A m \in Odd : n <= m
    BY <1>2, Least, Zenon
  <2>2. n \in Nat /\ n # 0 /\ n <= Len(ss) /\ Len(ss) \in Nat /\ f[n] # << >>
    BY <1>1, <2>1
  <2>3. n - 1 \in Nat /\ n - 1 <= Len(ss) /\ ~ (n <= n - 1) /\ n \in 1..Len(ss)
    BY <2>2
  <2>4. f[n - 1] = << >>
    BY <2>1, <2>3
  <2>5. f[n] = << >> \o << >>
    BY <1>1, <2>3, <2>4
  <2>6. << >> \in Seq(S)
    OBVIOUS
  <2> QED BY <2>2, <2>5, <2>6, ConcatEmptySeq
<1>3. CASE Odd = {}
  <2>1. Len(ss) \in Nat /\ Len(ss) <= Len(ss)
    OBVIOUS
  <2>2. f[Len(ss)] = << >>
    BY <1>3, <2>1
  <2> QED BY <1>1, <2>2
<1> QED BY <1>2, <1>3

\* Where everything from the k-th sequence on is empty, putting another sequence
\* at the k-th place adds it to the end.
LEMMA FlattenedNext ==
  ASSUME NEW S, NEW ss \in Seq(Seq(S)), NEW tt \in Seq(Seq(S)), NEW k \in 1..Len(ss),
         Len(tt) = Len(ss),
         \A i \in 1..Len(ss) :
           /\ i < k => tt[i] = ss[i]
           /\ i >= k => ss[i] = << >>
           /\ i > k => tt[i] = << >>
  PROVE  FlattenSeq(tt) = FlattenSeq(ss) \o tt[k]
<1>1. PICK f \in [0..Len(ss) -> Seq(S)] :
        /\ f[0] = << >>
        /\ \A i \in 1..Len(ss) : f[i] = f[i - 1] \o ss[i]
        /\ FlattenSeq(ss) = f[Len(ss)]
  BY Flattened
<1>2. PICK g \in [0..Len(ss) -> Seq(S)] :
        /\ g[0] = << >>
        /\ \A i \in 1..Len(ss) : g[i] = g[i - 1] \o tt[i]
        /\ FlattenSeq(tt) = g[Len(ss)]
  <2>1. PICK g \in [0..Len(tt) -> Seq(S)] :
          /\ g[0] = << >>
          /\ \A i \in 1..Len(tt) : g[i] = g[i - 1] \o tt[i]
          /\ FlattenSeq(tt) = g[Len(tt)]
    BY Flattened
  <2> QED BY <2>1
<1> DEFINE Follows(i) == g[i] = IF i < k THEN f[i] ELSE f[i] \o tt[k]
           Odd == {i \in Nat : i <= Len(ss) /\ ~ Follows(i)}
<1>3. k \in Nat /\ 1 <= k /\ k <= Len(ss) /\ Len(ss) \in Nat
  OBVIOUS
<1>4. CASE Odd # {}
  <2>1. PICK n \in Odd : \A m \in Odd : n <= m
    BY <1>4, Least, Zenon
  <2>a. Follows(0)
    BY <1>1, <1>2, <1>3
  <2>2. n \in Nat /\ n # 0 /\ n <= Len(ss) /\ ~ Follows(n)
    <3> HIDE DEF Follows
    <3> QED BY <2>1, <2>a
  <2>3. n - 1 \in Nat /\ n - 1 <= Len(ss) /\ ~ (n <= n - 1) /\ n \in 1..Len(ss)
    <3> HIDE DEF Follows
    <3> QED BY <1>3, <2>2
  <2>4. Follows(n - 1)
    <3> HIDE DEF Follows
    <3> QED BY <2>1, <2>3
  <2> HIDE DEF Follows, Odd
  <2>5. /\ f[n] = f[n - 1] \o ss[n] /\ g[n] = g[n - 1] \o tt[n]
        /\ f[n - 1] \in Seq(S)
    <3>1. n - 1 \in 0..Len(ss)
      BY <1>3, <2>3
    <3>2. f[n] = f[n - 1] \o ss[n] /\ f[n - 1] \in Seq(S)
      BY <1>1, <2>3, <3>1
    <3>3. g[n] = g[n - 1] \o tt[n]
      BY <1>2, <2>3
    <3> QED BY <3>2, <3>3
  <2>6. CASE n < k
    <3>1. n - 1 < k
      BY <1>3, <2>2, <2>6
    <3> QED BY <2>2, <2>3, <2>4, <2>5, <2>6, <3>1 DEF Follows
  <2>7. CASE n = k
    <3>1. n - 1 < k /\ ss[n] = << >>
      BY <1>3, <2>3, <2>7, SMTT(30)
    <3>2. f[n] = f[n - 1]
      BY <2>5, <3>1, ConcatEmptySeq
    <3> QED BY <1>3, <2>2, <2>4, <2>5, <2>7, <3>1, <3>2 DEF Follows
  <2>8. CASE n > k
    <3>1. ~ (n < k) /\ ~ (n - 1 < k) /\ ss[n] = << >> /\ tt[n] = << >>
      <4>1. ~ (n < k) /\ ~ (n - 1 < k) /\ n >= k
        BY <1>3, <2>2, <2>8
      <4> QED BY <2>3, <2>8, <4>1
    <3>2. f[n] = f[n - 1]
      BY <2>5, <3>1, ConcatEmptySeq
    <3>3. g[n - 1] \in Seq(S)
      BY <1>2, <1>3, <2>3
    <3>4. g[n] = g[n - 1]
      BY <2>5, <3>1, <3>3, ConcatEmptySeq
    <3> QED BY <2>2, <2>4, <3>1, <3>2, <3>4 DEF Follows
  <2>9. n < k \/ n = k \/ n > k
    BY <1>3, <2>2
  <2> QED BY <2>2, <2>6, <2>7, <2>8, <2>9
<1>5. CASE Odd = {}
  <2>1. Len(ss) <= Len(ss) /\ ~ (Len(ss) < k)
    BY <1>3
  <2>2. Follows(Len(ss))
    <3> HIDE DEF Follows
    <3> QED BY <1>3, <1>5, <2>1
  <2> QED BY <1>1, <1>2, <2>1, <2>2
<1> QED BY <1>4, <1>5

\* What is in one sequence after another is in one of the two.
LEMMA ConcatElements ==
  ASSUME NEW S, NEW s \in Seq(S), NEW t \in Seq(S)
  PROVE  \A x : x \in ToSet(s \o t) <=> x \in ToSet(s) \/ x \in ToSet(t)
<1> DEFINE st == s \o t
<1>1. /\ \A i \in DOMAIN s : i \in DOMAIN st /\ st[i] = s[i]
      /\ \A i \in DOMAIN t : Len(s) + i \in DOMAIN st /\ st[Len(s) + i] = t[i]
      /\ \A i \in DOMAIN st : i \in DOMAIN s \/ \E j \in DOMAIN t : i = Len(s) + j
  BY InConcat
<1> HIDE DEF st
<1>2. ASSUME NEW x \in ToSet(st) PROVE x \in ToSet(s) \/ x \in ToSet(t)
  BY <1>1 DEF ToSet
<1>3. ASSUME NEW x \in ToSet(s) PROVE x \in ToSet(st)
  BY <1>1 DEF ToSet
<1>4. ASSUME NEW x \in ToSet(t) PROVE x \in ToSet(st)
  BY <1>1 DEF ToSet
<1>5. \A x : x \in ToSet(st) <=> x \in ToSet(s) \/ x \in ToSet(t)
  BY <1>2, <1>3, <1>4
<1> QED BY <1>5 DEF st

\* What is in a sequence of sequences is in one of them.
LEMMA FlattenedElements ==
  ASSUME NEW S, NEW ss \in Seq(Seq(S))
  PROVE  /\ FlattenSeq(ss) \in Seq(S)
         /\ \A x : x \in ToSet(FlattenSeq(ss)) <=> \E k \in DOMAIN ss : x \in ToSet(ss[k])
<1>1. PICK n \in Nat : n = Len(ss) /\ DOMAIN ss = 1..n /\ \A k \in 1..n : ss[k] \in Seq(S)
  BY LenProperties, ElementOfSeq
<1>2. PICK f \in [0..n -> Seq(S)] :
        /\ f[0] = << >>
        /\ \A k \in 1..n : f[k] = f[k - 1] \o ss[k]
        /\ FlattenSeq(ss) = f[n]
  BY <1>1, Flattened
<1> DEFINE Odd == {m \in Nat : m <= n /\ ~ \A x : x \in ToSet(f[m]) <=> \E k \in 1..m : x \in ToSet(ss[k])}
<1>3. CASE Odd # {}
  <2>1. PICK m \in Odd : \A l \in Odd : m <= l
    BY <1>3, Least, Zenon
  <2>2. m # 0
    <3>1. ToSet(f[0]) = {} /\ 1..0 = {}
      BY <1>2 DEF ToSet
    <3> QED BY <2>1, <3>1
  <2>3. m \in Nat /\ m <= n
    BY <2>1
  <2>4. /\ m - 1 \in Nat /\ m - 1 <= n /\ ~ (m <= m - 1) /\ m \in 1..n /\ m - 1 \in 0..n
        /\ m \in 1..m /\ \A k \in 1..m : k = m \/ k \in 1..(m - 1)
        /\ \A k \in 1..(m - 1) : k \in 1..m
    BY <2>2, <2>3
  <2>5. \A x : x \in ToSet(f[m - 1]) <=> \E k \in 1..(m - 1) : x \in ToSet(ss[k])
    BY <2>1, <2>4
  <2>6. f[m] = f[m - 1] \o ss[m] /\ f[m - 1] \in Seq(S) /\ ss[m] \in Seq(S)
    BY <1>1, <1>2, <2>4
  <2>7. \A x : x \in ToSet(f[m]) <=> x \in ToSet(f[m - 1]) \/ x \in ToSet(ss[m])
    BY <2>6, ConcatElements
  <2>8. \A x : x \in ToSet(f[m]) <=> \E k \in 1..m : x \in ToSet(ss[k])
    BY <2>4, <2>5, <2>7
  <2> QED BY <2>1, <2>8
<1>4. CASE Odd = {}
  <2>1. n <= n /\ n \in 0..n
    OBVIOUS
  <2> QED BY <1>1, <1>2, <1>4, <2>1
<1> QED BY <1>3, <1>4

\* Where in one sequence each of the sequences it was made of begins and ends.
IsOffsets(at, ss) ==
  /\ at \in [0..Len(ss) -> Nat] /\ at[0] = 0 /\ at[Len(ss)] = Len(FlattenSeq(ss))
  /\ \A i \in 1..Len(ss) :
       /\ at[i] = at[i - 1] + Len(ss[i]) /\ at[i] <= Len(FlattenSeq(ss))
       /\ \A j \in 1..Len(ss[i]) : FlattenSeq(ss)[at[i - 1] + j] = ss[i][j]

\* A sequence that is made of others has such a table.
LEMMA OffsetsExist ==
  ASSUME NEW S, NEW ss \in Seq(Seq(S))
  PROVE  FlattenSeq(ss) \in Seq(S) /\ \E at : IsOffsets(at, ss)
<1>1. PICK n \in Nat : n = Len(ss) /\ \A i \in 1..n : ss[i] \in Seq(S)
  BY LenProperties, ElementOfSeq
<1>2. PICK f \in [0..n -> Seq(S)] :
        /\ f[0] = << >>
        /\ \A i \in 1..n : f[i] = f[i - 1] \o ss[i]
        /\ FlattenSeq(ss) = f[n]
  BY <1>1, Flattened
<1> DEFINE at == [i \in 0..n |-> Len(f[i])]
           Begins(i, k) == /\ Len(f[i]) <= Len(f[k])
                           /\ \A j \in 1..Len(f[i]) : f[k][j] = f[i][j]
<1>3. ASSUME NEW i \in 1..n
      PROVE  /\ f[i - 1] \in Seq(S) /\ f[i] \in Seq(S) /\ ss[i] \in Seq(S)
             /\ Len(f[i - 1]) \in Nat /\ Len(ss[i]) \in Nat
             /\ Len(f[i]) = Len(f[i - 1]) + Len(ss[i])
             /\ \A j \in 1..Len(f[i - 1]) : f[i][j] = f[i - 1][j]
             /\ \A j \in 1..Len(ss[i]) : f[i][Len(f[i - 1]) + j] = ss[i][j]
  <2>1. i - 1 \in 0..n /\ i \in 0..n
    OBVIOUS
  <2>2. PICK s, t : s = f[i - 1] /\ t = ss[i] /\ s \in Seq(S) /\ t \in Seq(S) /\ f[i] = s \o t
    BY <1>1, <1>2, <2>1
  <2>3. s \o t \in Seq(S) /\ Len(s \o t) = Len(s) + Len(t)
    BY <2>2, ConcatProperties
  <2>4. /\ \A j \in DOMAIN s : (s \o t)[j] = s[j]
        /\ \A j \in DOMAIN t : (s \o t)[Len(s) + j] = t[j]
    <3>1. s \in Seq(S) /\ t \in Seq(S)
      BY <2>2
    <3>2. PICK u : u = s \o t
      OBVIOUS
    <3>3. /\ \A j \in DOMAIN s : j \in DOMAIN u /\ u[j] = s[j]
          /\ \A j \in DOMAIN t : Len(s) + j \in DOMAIN u /\ u[Len(s) + j] = t[j]
      BY <3>1, <3>2, InConcat, SMTT(30)
    <3> QED BY <3>2, <3>3
  <2>5. DOMAIN s = 1..Len(s) /\ DOMAIN t = 1..Len(t) /\ Len(s) \in Nat /\ Len(t) \in Nat
    BY <2>2, LenProperties
  <2> QED BY <2>2, <2>3, <2>4, <2>5
<1>4. ASSUME NEW i \in 0..n PROVE Begins(i, n)
  <2> DEFINE Odd == {k \in Nat : i <= k /\ k <= n /\ ~ Begins(i, k)}
  <2>1. Odd = {}
    <3>1. SUFFICES ASSUME Odd # {} PROVE FALSE
      OBVIOUS
    <3> HIDE DEF Begins
    <3>2. PICK k \in Odd : \A l \in Odd : k <= l
      BY <3>1, Least, Zenon
    <3>3. k \in Nat /\ i <= k /\ k <= n /\ ~ Begins(i, k)
      BY <3>2
    <3>4. Begins(i, i)
      <4>1. Len(f[i]) \in Nat
        BY <1>2, LenProperties
      <4> QED BY <4>1 DEF Begins
    <3>5. k - 1 \in Nat /\ i <= k - 1 /\ k - 1 <= n /\ ~ (k <= k - 1) /\ k \in 1..n
      BY <3>3, <3>4
    <3>6. Begins(i, k - 1)
      BY <3>2, <3>5
    <3>7. /\ Len(f[k - 1]) \in Nat /\ Len(ss[k]) \in Nat
          /\ Len(f[k]) = Len(f[k - 1]) + Len(ss[k])
          /\ \A j \in 1..Len(f[k - 1]) : f[k][j] = f[k - 1][j]
      BY <1>3, <3>5
    <3>8. Len(f[i]) \in Nat
      BY <1>2, LenProperties
    <3>9. Begins(i, k)
      <4>1. PICK a \in Nat, b \in Nat, c \in Nat :
              a = Len(f[i]) /\ b = Len(f[k - 1]) /\ c = Len(f[k]) /\ b <= c
        <5>1. PICK b \in Nat, d \in Nat : b = Len(f[k - 1]) /\ d = Len(ss[k])
          BY <3>7
        <5>2. b + d \in Nat /\ b <= b + d
          OBVIOUS
        <5>3. Len(f[k]) = b + d
          BY <3>7, <5>1
        <5> QED BY <3>8, <5>1, <5>2, <5>3
      <4>2. a <= b /\ \A j \in 1..a : f[k - 1][j] = f[i][j]
        BY <3>6, <4>1 DEF Begins
      <4>3. a <= c /\ \A j \in 1..a : j \in 1..b
        BY <4>1, <4>2
      <4>4. \A j \in 1..a : f[k][j] = f[i][j]
        BY <3>7, <4>1, <4>2, <4>3
      <4> QED BY <4>1, <4>3, <4>4 DEF Begins
    <3> QED BY <3>3, <3>9
  <2>2. n \in Nat /\ i <= n /\ n <= n
    OBVIOUS
  <2> HIDE DEF Begins
  <2> QED BY <2>1, <2>2
<1>5. at \in [0..n -> Nat]
  BY <1>2, LenProperties
<1>6. 0 \in 0..n /\ n \in 0..n
  OBVIOUS
<1>7. at[0] = 0 /\ at[n] = Len(FlattenSeq(ss)) /\ f[n] \in Seq(S)
  BY <1>2, <1>6
<1>8. ASSUME NEW i \in 1..n
      PROVE  /\ at[i] = at[i - 1] + Len(ss[i]) /\ at[i] <= Len(FlattenSeq(ss))
             /\ \A j \in 1..Len(ss[i]) : FlattenSeq(ss)[at[i - 1] + j] = ss[i][j]
  <2>1. i - 1 \in 0..n /\ i \in 0..n
    OBVIOUS
  <2>2. PICK p \in Nat, m \in Nat : /\ p = Len(f[i - 1]) /\ m = Len(ss[i])
                                    /\ Len(f[i]) = p + m /\ at[i] = p + m /\ at[i - 1] = p
    BY <1>3, <2>1
  <2>3. Begins(i, n) /\ \A j \in 1..m : f[i][p + j] = ss[i][j]
    BY <1>3, <1>4, <2>1, <2>2, ZenonT(30)
  <2>4. \A j \in 1..m : p + j \in 1..(p + m)
    OBVIOUS
  <2> HIDE DEF at
  <2> QED BY <1>2, <2>2, <2>3, <2>4
<1> HIDE DEF at
<1>9. IsOffsets(at, ss)
  BY <1>1, <1>5, <1>7, <1>8 DEF IsOffsets
<1> QED BY <1>2, <1>7, <1>9

--------------------------------------------------------------------------------
(* Folds                                                                   *)

\* A set of natural numbers that is not empty and has a bound has a greatest element.
LEMMA Greatest ==
  ASSUME NEW n \in Nat, NEW T \in SUBSET (1..n), T # {}
  PROVE  Max(T) \in T /\ \A y \in T : y <= Max(T)
<1> DEFINE Gaps == {g \in Nat : \E x \in T : g = n - x}
<1>1. PICK x \in T : TRUE
  OBVIOUS
<1>2. n - x \in Gaps
  BY <1>1
<1>3. Gaps # {} /\ Gaps \in SUBSET Nat
  BY <1>2
<1> HIDE DEF Gaps
<1>4. PICK g \in Gaps : \A h \in Gaps : g <= h
  BY <1>3, Least, Zenon
<1>5. PICK top \in T : g = n - top
  BY <1>4 DEF Gaps
<1>6. ASSUME NEW y \in T PROVE top >= y
  <2>1. n - y \in Gaps
    BY DEF Gaps
  <2>2. n - top <= n - y
    BY <1>4, <1>5, <2>1
  <2>3. top \in Nat /\ y \in Nat
    OBVIOUS
  <2> QED BY <2>2, <2>3
<1>7. Max(T) \in T /\ \A y \in T : Max(T) >= y
  BY <1>6 DEF Max
<1>8. \A y \in T : y \in Nat
  OBVIOUS
<1> QED BY <1>7, <1>8

\* The recursive function behind a fold: for each set of places, the steps of its
\* places applied to the base from the first to the last.
IsFoldOver(g, V, n, base, step) ==
  /\ g \in [SUBSET (1..n) -> V]
  /\ \A s \in SUBSET (1..n) :
       g[s] = IF s = {} THEN base ELSE step[Max(s)][g[s \ {Max(s)}]]

\* There is one for all steps on the values of a set.
LEMMA FoldExists ==
  ASSUME NEW V, NEW n \in Nat, NEW base \in V, NEW step \in [1..n -> [V -> V]]
  PROVE  \E g : IsFoldOver(g, V, n, base, step)
<1> USE DEF IsFoldOver
<1> DEFINE Folds(g, m) ==
             /\ g \in [SUBSET (1..m) -> V]
             /\ \A s \in SUBSET (1..m) :
                  g[s] = IF s = {} THEN base ELSE step[Max(s)][g[s \ {Max(s)}]]
           Odd == {m \in Nat : m <= n /\ ~ \E g : Folds(g, m)}
<1>1. Odd = {}
  <2>1. SUFFICES ASSUME Odd # {} PROVE FALSE
    OBVIOUS
  <2>2. PICK m \in Odd : \A k \in Odd : m <= k
    BY <2>1, Least, Zenon
  <2>3. \E g : Folds(g, 0)
    <3>1. 1..0 = {}
      OBVIOUS
    <3>2. SUBSET (1..0) = {{}}
      BY <3>1
    <3>3. Folds([s \in SUBSET (1..0) |-> base], 0)
      BY <3>2
    <3> QED BY <3>3
  <2>4. m \in Nat /\ m <= n /\ m # 0 /\ ~ \E g : Folds(g, m)
    <3> HIDE DEF Folds
    <3> QED BY <2>2, <2>3
  <2>5. m - 1 \in Nat /\ m - 1 <= n /\ ~ (m <= m - 1) /\ m \in 1..n
    <3> HIDE DEF Folds
    <3> QED BY <2>4
  <2>6. PICK g : Folds(g, m - 1)
    <3> HIDE DEF Folds
    <3>1. m - 1 \notin Odd
      BY <2>2, <2>5
    <3> QED BY <2>5, <3>1
  <2> DEFINE h == [s \in SUBSET (1..m) |-> IF m \in s THEN step[m][g[s \ {m}]] ELSE g[s]]
  <2>7. \A s \in SUBSET (1..m) : m \notin s => s \in SUBSET (1..(m - 1))
    <3>1. \A x \in 1..m : x # m => x \in 1..(m - 1)
      BY <2>4
    <3> QED BY <3>1
  <2>8. \A s \in SUBSET (1..m) : s \ {m} \in SUBSET (1..(m - 1))
    BY <2>7
  <2>9. \A s \in SUBSET (1..(m - 1)) : g[s] \in V
    BY <2>6
  <2>10. h \in [SUBSET (1..m) -> V]
    <3>1. \A v \in V : step[m][v] \in V
      BY <2>5
    <3> QED BY <2>7, <2>8, <2>9, <3>1
  <2>11. ASSUME NEW s \in SUBSET (1..m)
         PROVE  h[s] = IF s = {} THEN base ELSE step[Max(s)][h[s \ {Max(s)}]]
    <3>1. CASE m \in s
      <4>1. Max(s) = m
        <5>1. s # {} /\ m \in Nat
          BY <2>4, <3>1
        <5>2. Max(s) \in s /\ \A y \in s : y <= Max(s)
          BY <5>1, Greatest
        <5>3. Max(s) \in 1..m /\ m <= Max(s)
          BY <3>1, <5>2
        <5> QED BY <2>4, <5>3
      <4>2. h[s] = step[m][g[s \ {m}]]
        BY <3>1
      <4>3. h[s \ {m}] = g[s \ {m}]
        OBVIOUS
      <4> QED BY <3>1, <4>1, <4>2, <4>3
    <3>2. CASE m \notin s
      <4>1. s \in SUBSET (1..(m - 1)) /\ h[s] = g[s]
        BY <2>7, <3>2
      <4>2. CASE s = {}
        BY <2>6, <4>1, <4>2
      <4>3. CASE s # {}
        <5>1. g[s] = step[Max(s)][g[s \ {Max(s)}]]
          BY <2>6, <4>1, <4>3
        <5>2. h[s \ {Max(s)}] = g[s \ {Max(s)}]
          BY <3>2
        <5> QED BY <4>1, <4>3, <5>1, <5>2
      <4> QED BY <4>2, <4>3
    <3> QED BY <3>1, <3>2
  <2> HIDE DEF h
  <2>12. Folds(h, m)
    BY <2>10, <2>11
  <2> HIDE DEF Folds
  <2> QED BY <2>4, <2>12
<1>2. \E g : Folds(g, n)
  <2> HIDE DEF Folds
  <2>1. n <= n
    OBVIOUS
  <2> QED BY <1>1, <2>1
<1> QED BY <1>2

\* A fold from the left over the first places adds one place after the other.
LEMMA FoldPrefix ==
  ASSUME NEW n \in Nat, NEW k \in 1..n
  PROVE  1..k # {} /\ Max(1..k) = k /\ (1..k) \ {Max(1..k)} = 1..(k - 1)
<1>1. k \in Nat /\ k \in 1..k /\ 1..k \in SUBSET (1..k)
  OBVIOUS
<1>2. Max(1..k) \in 1..k /\ \A y \in 1..k : y <= Max(1..k)
  BY <1>1, Greatest
<1>3. Max(1..k) = k
  BY <1>1, <1>2
<1>4. (1..k) \ {k} = 1..(k - 1)
  BY <1>1
<1> QED BY <1>1, <1>3, <1>4

--------------------------------------------------------------------------------
(* Sequences end to end                                                    *)

\* How three sequences are bracketed does not matter.
Associates(S) == \A a, b, c \in Seq(S) : (a \o b) \o c = a \o (b \o c)

LEMMA Reassociated ==
  ASSUME NEW S
  PROVE  Associates(S)
BY ConcatAssociative DEF Associates

\* What has the elements of two sequences one after the other is the two end to end.
Joins(r, p, q) ==
  /\ Len(r) = Len(p) + Len(q)
  /\ \A k \in 1..Len(p) : r[k] = p[k]
  /\ \A k \in 1..Len(q) : r[Len(p) + k] = q[k]

LEMMA ConcatIs ==
  ASSUME NEW S, NEW p \in Seq(S), NEW q \in Seq(S), NEW r \in Seq(S), Joins(r, p, q)
  PROVE  r = p \o q
<1>0. PICK m \in Nat, n \in Nat : /\ m = Len(p) /\ n = Len(q) /\ Len(r) = m + n
                                  /\ \A k \in 1..m : r[k] = p[k]
                                  /\ \A k \in 1..n : r[m + k] = q[k]
  BY LenProperties DEF Joins
<1>1. PICK pq : pq = p \o q /\ pq \in Seq(S) /\ Len(pq) = m + n
  BY <1>0, ConcatProperties
<1>2. (\A k \in 1..m : pq[k] = p[k]) /\ (\A k \in 1..n : pq[m + k] = q[k])
  <2>1. /\ \A k \in 1..m : (p \o q)[k] = p[k]
        /\ \A k \in 1..n : (p \o q)[m + k] = q[k]
    BY <1>0, ConcatPlaces, SMTT(30)
  <2> QED BY <1>1, <2>1
<1>3. ASSUME NEW i \in 1..(m + n) PROVE r[i] = pq[i]
  <2>1. CASE i \in 1..m
    BY <1>0, <1>2, <2>1
  <2>2. CASE i \notin 1..m
    <3>1. PICK k \in 1..n : i = m + k
      <4>1. i - m \in 1..n /\ i = m + (i - m)
        BY <2>2
      <4> QED BY <4>1
    <3> QED BY <1>0, <1>2, <3>1
  <2> QED BY <2>1, <2>2
<1>4. r = pq
  BY <1>0, <1>1, <1>3, SeqEqual
<1> QED BY <1>1, <1>4

\* The two end to end have them.
LEMMA ConcatJoins ==
  ASSUME NEW S, NEW p \in Seq(S), NEW q \in Seq(S)
  PROVE  p \o q \in Seq(S) /\ Joins(p \o q, p, q)
<1>1. PICK m \in Nat, n \in Nat : m = Len(p) /\ n = Len(q)
  BY LenProperties
<1>2. PICK r \in Seq(S) : r = p \o q /\ Len(r) = m + n
  BY <1>1, ConcatProperties
<1>3. /\ \A k \in 1..m : (p \o q)[k] = p[k]
      /\ \A k \in 1..n : (p \o q)[m + k] = q[k]
  BY <1>1, ConcatPlaces, SMTT(30)
<1> QED BY <1>1, <1>2, <1>3 DEF Joins

\* One after the other they lie end to end as what each of them makes does.
LEMMA FlattenedConcat ==
  ASSUME NEW S, NEW ss \in Seq(Seq(S)), NEW tt \in Seq(Seq(S))
  PROVE  FlattenSeq(ss \o tt) = FlattenSeq(ss) \o FlattenSeq(tt)
<1>0. Associates(S)
  BY Reassociated
<1>1. PICK m \in Nat : m = Len(ss) /\ DOMAIN ss = 1..m
  BY LenProperties
<1>2. PICK n \in Nat : n = Len(tt) /\ DOMAIN tt = 1..n
  BY LenProperties
<1>3. PICK st : st = ss \o tt /\ st \in Seq(Seq(S)) /\ Len(st) = m + n
  BY <1>1, <1>2, ConcatProperties
<1>4. /\ \A k \in 1..m : st[k] = ss[k]
      /\ \A k \in 1..n : st[m + k] = tt[k] /\ tt[k] \in Seq(S)
  BY <1>1, <1>2, <1>3, InConcat, ElementOfSeq
<1>5. PICK f \in [0..m -> Seq(S)] : /\ f[0] = << >>
                                    /\ \A i \in 1..m : f[i] = f[i - 1] \o ss[i]
                                    /\ FlattenSeq(ss) = f[m]
  BY <1>1, Flattened
<1>6. PICK g \in [0..n -> Seq(S)] : /\ g[0] = << >>
                                    /\ \A i \in 1..n : g[i] = g[i - 1] \o tt[i]
                                    /\ FlattenSeq(tt) = g[n]
  BY <1>2, Flattened
<1>7. PICK h \in [0..(m + n) -> Seq(S)] : /\ h[0] = << >>
                                          /\ \A i \in 1..(m + n) : h[i] = h[i - 1] \o st[i]
                                          /\ FlattenSeq(st) = h[m + n]
  <2>1. PICK N : N = m + n
    OBVIOUS
  <2>2. st \in Seq(Seq(S)) /\ Len(st) = N
    BY <1>3, <2>1
  <2>3. \E h \in [0..N -> Seq(S)] : /\ h[0] = << >>
                                    /\ \A i \in 1..N : h[i] = h[i - 1] \o st[i]
                                    /\ FlattenSeq(st) = h[N]
    BY <2>2, Flattened
  <2> QED BY <2>1, <2>3
<1>8. \A k \in Nat : k <= m => h[k] = f[k]
  <2> DEFINE Odd == {k \in Nat : k <= m /\ h[k] # f[k]}
  <2>1. CASE Odd # {}
    <3>1. PICK k \in Odd : \A l \in Odd : k <= l
      BY <2>1, Least, Zenon
    <3>2. k \in Nat /\ k <= m /\ h[k] # f[k] /\ k # 0
      BY <1>5, <1>7, <3>1
    <3>3. k - 1 \in Nat /\ k - 1 <= m /\ ~ (k <= k - 1) /\ k \in 1..m /\ k \in 1..(m + n)
      BY <3>2
    <3>4. h[k - 1] = f[k - 1]
      BY <3>1, <3>3
    <3>5. h[k] = h[k - 1] \o st[k] /\ f[k] = f[k - 1] \o ss[k] /\ st[k] = ss[k]
      BY <1>4, <1>5, <1>7, <3>3
    <3> QED BY <3>2, <3>4, <3>5
  <2> QED BY <2>1
<1>9. f[m] \in Seq(S)
  <2>1. m \in 0..m
    OBVIOUS
  <2> QED BY <2>1
<1>10. \A k \in Nat : k <= n => h[m + k] = f[m] \o g[k]
  <2> DEFINE Odd == {k \in Nat : k <= n /\ h[m + k] # f[m] \o g[k]}
  <2>1. CASE Odd # {}
    <3>1. PICK k \in Odd : \A l \in Odd : k <= l
      BY <2>1, Least, Zenon
    <3>2. h[m + 0] = f[m] \o g[0]
      <4>1. m + 0 = m /\ m <= m
        OBVIOUS
      <4>2. f[m] \o << >> = f[m]
        BY <1>9, ConcatEmptySeq
      <4> QED BY <1>6, <1>8, <4>1, <4>2
    <3>3. k \in Nat /\ k <= n /\ h[m + k] # f[m] \o g[k] /\ k # 0
      BY <3>1, <3>2
    <3>4. /\ k - 1 \in Nat /\ k - 1 <= n /\ ~ (k <= k - 1) /\ k \in 1..n
          /\ m + k \in 1..(m + n) /\ (m + k) - 1 = m + (k - 1) /\ k - 1 \in 0..n
      BY <3>3
    <3>5. h[m + (k - 1)] = f[m] \o g[k - 1]
      BY <3>1, <3>4
    <3>6. h[m + k] = h[m + (k - 1)] \o st[m + k] /\ g[k] = g[k - 1] \o tt[k]
      BY <1>6, <1>7, <3>4
    <3>7. st[m + k] = tt[k] /\ tt[k] \in Seq(S)
      BY <1>4, <3>4
    <3>8. g[k - 1] \in Seq(S)
      BY <3>4
    <3>9. PICK a \in Seq(S), b \in Seq(S), c \in Seq(S) : a = f[m] /\ b = g[k - 1] /\ c = tt[k]
      BY <1>9, <3>7, <3>8
    <3>10. (a \o b) \o c = a \o (b \o c)
      <4>1. \A x, y, z \in Seq(S) : (x \o y) \o z = x \o (y \o z)
        BY <1>0 DEF Associates
      <4> QED BY <4>1, Zenon
    <3> QED BY <3>3, <3>5, <3>6, <3>7, <3>9, <3>10
  <2> QED BY <2>1
<1>11. h[m + n] = f[m] \o g[n]
  <2>1. n <= n
    OBVIOUS
  <2> QED BY <1>10, <2>1
<1> QED BY <1>3, <1>5, <1>6, <1>7, <1>11

\* One alone is what it is.
LEMMA FlattenedOne ==
  ASSUME NEW S, NEW s \in Seq(S)
  PROVE  FlattenSeq(<<s>>) = s
<1>1. <<s>> \in Seq(Seq(S)) /\ Len(<<s>>) = 1
  OBVIOUS
<1>2. PICK f \in [0..1 -> Seq(S)] : /\ f[0] = << >>
                                    /\ \A i \in 1..1 : f[i] = f[i - 1] \o <<s>>[i]
                                    /\ FlattenSeq(<<s>>) = f[1]
  BY <1>1, Flattened
<1>3. f[1] = f[0] \o s
  <2>1. 1 \in 1..1 /\ 1 - 1 = 0 /\ <<s>>[1] = s
    OBVIOUS
  <2> QED BY <1>2, <2>1
<1> QED BY <1>2, <1>3, ConcatEmptySeq

\* What h makes of each element, laid end to end.
PiecesBy(h, s) == [i \in DOMAIN s |-> h[s[i]]]
Spread(h, s) == FlattenSeq(PiecesBy(h, s))

IsPieces(p, h, s, T) ==
  p \in Seq(Seq(T)) /\ Len(p) = Len(s) /\ \A i \in 1..Len(s) : p[i] = h[s[i]]

\* It is a sequence of what h makes.
LEMMA SpreadType ==
  ASSUME NEW S, NEW T, NEW h \in [S -> Seq(T)], NEW s \in Seq(S)
  PROVE  IsPieces(PiecesBy(h, s), h, s, T) /\ Spread(h, s) \in Seq(T)
<1>1. PICK n \in Nat : n = Len(s) /\ DOMAIN s = 1..n /\ \A i \in 1..n : s[i] \in S
  BY LenProperties, ElementOfSeq
<1>2. PICK p : p = PiecesBy(h, s)
  OBVIOUS
<1>3. p \in [1..n -> Seq(T)] /\ \A i \in 1..n : p[i] = h[s[i]]
  BY <1>1, <1>2 DEF PiecesBy
<1>4. p \in Seq(Seq(T)) /\ Len(p) = n
  BY <1>3
<1>5. FlattenSeq(p) \in Seq(T)
  BY <1>4, FlattenedElements
<1> QED BY <1>1, <1>2, <1>3, <1>4, <1>5 DEF Spread, IsPieces

Distributes(h, S) == \A s, t \in Seq(S) : Spread(h, s \o t) = Spread(h, s) \o Spread(h, t)

\* Over two sequences end to end, it is spread over each.
LEMMA SpreadConcat ==
  ASSUME NEW S, NEW T, NEW h \in [S -> Seq(T)]
  PROVE  Distributes(h, S)
<1> SUFFICES ASSUME NEW s \in Seq(S), NEW t \in Seq(S)
             PROVE  Spread(h, s \o t) = Spread(h, s) \o Spread(h, t)
  BY DEF Distributes
<1>1. PICK m \in Nat : m = Len(s)
  BY LenProperties
<1>2. PICK n \in Nat : n = Len(t)
  BY LenProperties
<1>3. PICK st \in Seq(S) : st = s \o t /\ Len(st) = m + n
  BY <1>1, <1>2, ConcatProperties
<1>4. (\A k \in 1..m : st[k] = s[k]) /\ (\A k \in 1..n : st[m + k] = t[k])
  <2>1. /\ \A k \in 1..m : (s \o t)[k] = s[k]
        /\ \A k \in 1..n : (s \o t)[m + k] = t[k]
    BY <1>1, <1>2, ConcatPlaces, SMTT(30)
  <2> QED BY <1>3, <2>1
<1>5. PICK p \in Seq(Seq(T)) : p = PiecesBy(h, s) /\ Len(p) = m /\ \A i \in 1..m : p[i] = h[s[i]]
  <2>1. IsPieces(PiecesBy(h, s), h, s, T)
    BY SpreadType
  <2> QED BY <1>1, <2>1 DEF IsPieces
<1>6. PICK q \in Seq(Seq(T)) : q = PiecesBy(h, t) /\ Len(q) = n /\ \A i \in 1..n : q[i] = h[t[i]]
  <2>1. IsPieces(PiecesBy(h, t), h, t, T)
    BY SpreadType
  <2> QED BY <1>2, <2>1 DEF IsPieces
<1>7. PICK r \in Seq(Seq(T)) : /\ r = PiecesBy(h, st) /\ Len(r) = m + n
                               /\ \A i \in 1..(m + n) : r[i] = h[st[i]]
  <2>1. IsPieces(PiecesBy(h, st), h, st, T)
    BY SpreadType
  <2> QED BY <1>3, <2>1 DEF IsPieces
<1>8. /\ \A k \in 1..m : r[k] = p[k]
      /\ \A k \in 1..n : r[m + k] = q[k]
  <2>1. ASSUME NEW k \in 1..m PROVE r[k] = p[k]
    <3>1. r[k] = h[st[k]]
      BY <1>7
    <3>2. p[k] = h[s[k]] /\ st[k] = s[k]
      BY <1>4, <1>5
    <3> QED BY <3>1, <3>2
  <2>2. ASSUME NEW k \in 1..n PROVE r[m + k] = q[k]
    <3>1. m + k \in 1..(m + n)
      OBVIOUS
    <3>2. r[m + k] = h[st[m + k]]
      BY <1>7, <3>1
    <3>3. q[k] = h[t[k]] /\ st[m + k] = t[k]
      BY <1>4, <1>6
    <3> QED BY <3>2, <3>3
  <2> QED BY <2>1, <2>2
<1>9. r = p \o q
  <2>1. PICK W : W = Seq(T)
    OBVIOUS
  <2>2. p \in Seq(W) /\ q \in Seq(W) /\ r \in Seq(W)
    BY <2>1
  <2>3. Joins(r, p, q)
    BY <1>5, <1>6, <1>7, <1>8 DEF Joins
  <2> QED BY <2>2, <2>3, ConcatIs
<1>10. FlattenSeq(p \o q) = FlattenSeq(p) \o FlattenSeq(q)
  BY FlattenedConcat
<1> QED BY <1>3, <1>5, <1>6, <1>7, <1>9, <1>10 DEF Spread

\* Over nothing and over one element.
LEMMA SpreadOne ==
  ASSUME NEW S, NEW T, NEW h \in [S -> Seq(T)]
  PROVE  Spread(h, << >>) = << >> /\ \A x \in S : Spread(h, <<x>>) = h[x]
<1>1. ASSUME NEW x \in S PROVE Spread(h, <<x>>) = h[x]
  <2>1. <<x>> \in Seq(S) /\ PiecesBy(h, <<x>>) = <<h[x]>>
    BY DEF PiecesBy
  <2>2. PICK y \in Seq(T) : y = h[x]
    OBVIOUS
  <2>3. FlattenSeq(<<y>>) = y
    BY FlattenedOne
  <2> QED BY <2>1, <2>2, <2>3 DEF Spread
<1>2. << >> \in Seq(Seq(T)) /\ \A i \in 1..Len(<< >>) : << >>[i] = << >>
  BY EmptySeq
<1>3. PiecesBy(h, << >>) = << >>
  BY DEF PiecesBy
<1>4. FlattenSeq(<< >>) = << >>
  BY <1>2, FlattenedEmpty
<1> QED BY <1>1, <1>3, <1>4 DEF Spread

\* What it is spread over holds what h makes of the elements, and no more.
LEMMA SpreadElements ==
  ASSUME NEW S, NEW T, NEW h \in [S -> Seq(T)], NEW s \in Seq(S)
  PROVE  \A y : y \in ToSet(Spread(h, s)) <=> \E i \in DOMAIN s : y \in ToSet(h[s[i]])
<1>1. PICK n \in Nat : n = Len(s) /\ DOMAIN s = 1..n
  BY LenProperties
<1>2. PICK p \in Seq(Seq(T)) : p = PiecesBy(h, s) /\ Len(p) = n /\ \A i \in 1..n : p[i] = h[s[i]]
  <2>1. IsPieces(PiecesBy(h, s), h, s, T)
    BY SpreadType
  <2> QED BY <1>1, <2>1 DEF IsPieces
<1>3. DOMAIN p = 1..n
  BY <1>2, LenProperties
<1>4. \A x : x \in ToSet(FlattenSeq(p)) <=> \E k \in DOMAIN p : x \in ToSet(p[k])
  BY FlattenedElements
<1> QED BY <1>1, <1>2, <1>3, <1>4 DEF Spread

\* The beginnings of what h makes of a text.
IsSpreading(f, h, s, T) ==
  /\ f \in [0..Len(s) -> Seq(T)] /\ f[0] = << >> /\ f[Len(s)] = Spread(h, s)
  /\ \A i \in 1..Len(s) : f[i] = f[i - 1] \o h[s[i]]

\* There are such beginnings.
LEMMA SpreadTable ==
  ASSUME NEW S, NEW T, NEW h \in [S -> Seq(T)], NEW s \in Seq(S)
  PROVE  \E f : IsSpreading(f, h, s, T)
<1>1. PICK n \in Nat : n = Len(s)
  BY LenProperties
<1>2. PICK p \in Seq(Seq(T)) : p = PiecesBy(h, s) /\ Len(p) = n /\ \A i \in 1..n : p[i] = h[s[i]]
  <2>1. IsPieces(PiecesBy(h, s), h, s, T)
    BY SpreadType
  <2> QED BY <1>1, <2>1 DEF IsPieces
<1>3. PICK f \in [0..n -> Seq(T)] : /\ f[0] = << >>
                                    /\ \A i \in 1..n : f[i] = f[i - 1] \o p[i]
                                    /\ FlattenSeq(p) = f[n]
  BY <1>2, Flattened
<1>4. IsSpreading(f, h, s, T)
  BY <1>1, <1>2, <1>3 DEF IsSpreading, Spread
<1> QED BY <1>4

\* To spread what is spread is to spread once.
Composed(g, h, k, S, T, U) ==
  /\ h \in [S -> Seq(T)] /\ g \in [T -> Seq(U)] /\ k \in [S -> Seq(U)]
  /\ \A x \in S : k[x] = Spread(g, h[x])

\* What is spread over what h makes is spread over the elements.
LEMMA SpreadTwice ==
  ASSUME NEW S, NEW T, NEW U, NEW g, NEW h, NEW k, Composed(g, h, k, S, T, U), NEW s \in Seq(S)
  PROVE  Spread(g, Spread(h, s)) = Spread(k, s)
<1>0. /\ h \in [S -> Seq(T)] /\ g \in [T -> Seq(U)] /\ k \in [S -> Seq(U)]
      /\ \A x \in S : k[x] = Spread(g, h[x])
  BY DEF Composed
<1>1. PICK n \in Nat : n = Len(s) /\ \A i \in 1..n : s[i] \in S
  BY LenProperties, ElementOfSeq
<1>2. PICK f : IsSpreading(f, h, s, T)
  BY <1>0, SpreadTable
<1>3. /\ f \in [0..n -> Seq(T)] /\ f[0] = << >> /\ f[n] = Spread(h, s)
      /\ \A i \in 1..n : f[i] = f[i - 1] \o h[s[i]]
  BY <1>1, <1>2 DEF IsSpreading
<1>4. PICK e : IsSpreading(e, k, s, U)
  BY <1>0, SpreadTable
<1>5. /\ e[0] = << >> /\ e[n] = Spread(k, s)
      /\ \A i \in 1..n : e[i] = e[i - 1] \o k[s[i]]
  BY <1>1, <1>4 DEF IsSpreading
<1>6. Spread(g, << >>) = << >>
  BY <1>0, SpreadOne
<1>7. Distributes(g, T)
  BY <1>0, SpreadConcat
<1> DEFINE Odd == {i \in Nat : i <= n /\ Spread(g, f[i]) # e[i]}
<1>8. CASE Odd # {}
  <2>1. PICK i \in Odd : \A j \in Odd : i <= j
    BY <1>8, Least, Zenon
  <2>2. i \in Nat /\ i <= n /\ Spread(g, f[i]) # e[i] /\ i # 0
    BY <1>3, <1>5, <1>6, <2>1
  <2>3. i - 1 \in Nat /\ i - 1 <= n /\ ~ (i <= i - 1) /\ i \in 1..n /\ i - 1 \in 0..n
    BY <2>2
  <2>4. Spread(g, f[i - 1]) = e[i - 1]
    BY <2>1, <2>3
  <2>5. f[i] = f[i - 1] \o h[s[i]] /\ e[i] = e[i - 1] \o k[s[i]] /\ k[s[i]] = Spread(g, h[s[i]])
    BY <1>0, <1>1, <1>3, <1>5, <2>3
  <2>6. f[i - 1] \in Seq(T) /\ h[s[i]] \in Seq(T)
    BY <1>0, <1>1, <1>3, <2>3
  <2>7. Spread(g, f[i - 1] \o h[s[i]]) = Spread(g, f[i - 1]) \o Spread(g, h[s[i]])
    BY <1>7, <2>6 DEF Distributes
  <2> QED BY <2>2, <2>4, <2>5, <2>7
<1>9. CASE Odd = {}
  <2>1. n <= n
    OBVIOUS
  <2>2. Spread(g, f[n]) = e[n]
    BY <1>9, <2>1
  <2> QED BY <1>3, <1>5, <2>2
<1> QED BY <1>8, <1>9

\* With every element in it, a sequence is one over a set.
LEMMA SeqOver ==
  ASSUME NEW S, NEW T, NEW s \in Seq(S)
  PROVE  s \in Seq(T) <=> ToSet(s) \subseteq T
<1>1. PICK n \in Nat : n = Len(s) /\ DOMAIN s = 1..n /\ s \in [1..n -> S]
  BY LenProperties
<1>2. ASSUME s \in Seq(T) PROVE ToSet(s) \subseteq T
  BY <1>1, <1>2, LenProperties, ElementOfSeq DEF ToSet
<1>3. ASSUME ToSet(s) \subseteq T PROVE s \in Seq(T)
  <2>1. s \in [1..n -> T]
    BY <1>1, <1>3 DEF ToSet
  <2> QED BY <2>1
<1> QED BY <1>2, <1>3

\* A sequence whose elements another begins with is a prefix of it ...
LEMMA PrefixPlaces ==
  ASSUME NEW S, NEW p \in Seq(S), NEW q \in Seq(S), Len(p) <= Len(q), \A i \in 1..Len(p) : q[i] = p[i]
  PROVE  IsPrefix(p, q)
<1>1. PICK m \in Nat, n \in Nat : m = Len(p) /\ n = Len(q) /\ m <= n /\ \A i \in 1..m : q[i] = p[i]
  BY LenProperties
<1>2. SubSeq(p, 1, m) = p
  BY <1>1, SubSeqFull
<1>3. \A i \in 1..m : q[i] \in S
  BY <1>1, ElementOfSeq
<1>4. /\ SubSeq(q, 1, m) \in Seq(S)
      /\ Len(SubSeq(q, 1, m)) = IF 1 <= m THEN m - 1 + 1 ELSE 0
      /\ \A i \in 1 .. m - 1 + 1 : SubSeq(q, 1, m)[i] = q[1 + i - 1]
  BY <1>3, SubSeqProperties
<1>5. PICK r \in Seq(S) : r = SubSeq(q, 1, m) /\ Len(r) = m /\ \A i \in 1..m : r[i] = q[i]
  <2>1. (IF 1 <= m THEN m - 1 + 1 ELSE 0) = m /\ m - 1 + 1 = m /\ \A i \in 1..m : 1 + i - 1 = i
    OBVIOUS
  <2> QED BY <1>4, <2>1
<1>6. r = p
  BY <1>1, <1>5, SeqEqual
<1> QED BY <1>1, <1>2, <1>5, <1>6 DEF IsPrefix

\* ... and of itself with more behind it.
LEMMA PrefixConcat ==
  ASSUME NEW S, NEW p \in Seq(S), NEW q \in Seq(S)
  PROVE  IsPrefix(p, p \o q)
<1>1. PICK r \in Seq(S) : r = p \o q /\ Joins(r, p, q)
  BY ConcatJoins
<1>2. Len(p) \in Nat /\ Len(q) \in Nat
  BY LenProperties
<1>3. Len(p) <= Len(r) /\ \A i \in 1..Len(p) : r[i] = p[i]
  BY <1>1, <1>2 DEF Joins
<1> QED BY <1>1, <1>3, PrefixPlaces
================================================================================
