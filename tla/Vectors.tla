--------------------------------- MODULE Vectors ---------------------------------
(* What laminae-persona does with a Vec: cut it, filter it and sort it.         *)
EXTENDS Naturals, SequencesExt, FiniteSetsExt

\* truncate(n), or the first n that are taken.
FirstOf(s, n) == SubSeq(s, 1, Min({n, Len(s)}))

\* filter: what is at the chosen places, in its order.
Chosen(s, chosen) ==
  FlattenSeq([i \in DOMAIN s |-> IF i \in chosen THEN <<s[i]>> ELSE << >>])

\* Whether the place i comes before the place j: the higher key first, the earlier
\* of equals first.
Before(key, i, j) ==
  \/ key[i] > key[j]
  \/ key[i] = key[j] /\ i < j

Rank(key, i) == 1 + Cardinality({j \in DOMAIN key : Before(key, j, i)})

\* sort_by in descending order of the keys, which is stable.
Descending(s, key) ==
  [k \in DOMAIN s |-> s[CHOOSE i \in DOMAIN s : Rank(key, i) = k]]
================================================================================
