--------------------------------- MODULE Cortex ---------------------------------
(***************************************************************************)
(* The learning loop of laminae-cortex: tracked edits, the patterns found  *)
(* in them, and a bounded store of learned instructions in which a near    *)
(* duplicate reinforces the instruction it resembles.  Cortex is used      *)
(* through &mut self, so its operations do not overlap; what is hard is    *)
(* what long sequences of them, and sessions that save and reload the      *)
(* store, leave in it.                                                     *)
(***************************************************************************)
EXTENDS Integers, EditPatterns

CONSTANTS
  Texts,          (* the instruction texts, each the set of its words      *)
  Imported,       (* instruction lists a caller may load                   *)
  MaxSize,        (* max_instructions                                      *)
  OverlapNum, OverlapDen,  (* dedup_threshold = OverlapNum / OverlapDen    *)
  MinEdits,       (* min_edits_for_detection                               *)
  MinFrequency,   (* min_pattern_frequency, a percentage                   *)
  Edits,          (* what users make of texts: original and edited         *)
  MaxTime,        (* bound: readings of the wall clock are in 1..MaxTime   *)
  MaxAdds,        (* bound: instructions added                             *)
  MaxEdits        (* bound: edits tracked                                  *)

Instruction == [words : Texts, source_count : Nat, added : Nat]

ASSUME ConstantsAssumption ==
  /\ \A t \in Texts : IsFiniteSet(t)
  /\ Imported \subseteq Seq(Instruction)
  /\ {MaxSize, OverlapNum, OverlapDen, MinEdits, MinFrequency} \subseteq Nat
  /\ OverlapDen > 0
  /\ {MaxTime, MaxAdds, MaxEdits} \subseteq Nat

VARIABLES
  edits,          (* the tracked edits: was_edited, the patterns met, and  *)
                  (* whether showing the edit cuts a character             *)
  instructions,   (* InstructionStore.instructions                         *)
  learned,        (* ghost: what learn_from_edit last returned, << >> or   *)
                  (* <<instruction>>                                       *)
  adds,           (* ghost: how many instructions have been added          *)
  weight          (* ghost: the sum of the counts they came with           *)

vars == <<edits, instructions, learned, adds, weight>>

Init ==
  /\ edits = << >>
  /\ instructions = << >>
  /\ learned = << >>
  /\ adds = 0 /\ weight = 0

--------------------------------------------------------------------------------
(* The store                                                               *)

Larger(a, b) == IF Cardinality(a) >= Cardinality(b) THEN Cardinality(a) ELSE Cardinality(b)

\* word_overlap(a, b) > dedup_threshold, where two texts without words overlap
\* entirely.
Duplicate(a, b) ==
  IF a = {} /\ b = {}
    THEN OverlapDen > OverlapNum
    ELSE Cardinality(a \cap b) * OverlapDen > OverlapNum * Larger(a, b)

\* Mutant of Reinforced: an imported instruction counts once.
ReinforcedOnce(store, i, inst) == [store EXCEPT ![i].source_count = @ + 1]

Reinforced(store, i, inst) ==
  [store EXCEPT ![i].source_count = @ + inst.source_count]

\* Most reinforced first, the newer of two equals first.
Stronger(a, b) ==
  \/ a.source_count > b.source_count
  \/ a.source_count = b.source_count /\ a.added > b.added

\* A stable sort: equals keep their order.
Precedes(store, i, j) ==
  \/ Stronger(store[i], store[j])
  \/ ~ Stronger(store[j], store[i]) /\ i < j

Place(store, i) == 1 + Cardinality({j \in DOMAIN store : Precedes(store, j, i)})

Sorted(store) ==
  [k \in DOMAIN store |-> store[CHOOSE i \in DOMAIN store : Place(store, i) = k]]

\* Mutant of Capped: a full store is not sorted before it is cut.
CappedUnsorted(store) == IF Len(store) > MaxSize THEN SubSeq(store, 1, MaxSize) ELSE store

Capped(store) ==
  IF Len(store) > MaxSize
    THEN SubSeq(Sorted(store), 1, MaxSize)
    ELSE store

Resembling(store, inst) == {i \in DOMAIN store : Duplicate(inst.words, store[i].words)}

\* Mutant of Added: only a text already in the store is a duplicate.
AddedVerbatim(store, inst) ==
  LET same == {i \in DOMAIN store : store[i].words = inst.words}
  IN  IF same # {} THEN Reinforced(store, Min(same), inst)
                   ELSE Capped(Append(store, inst))

\* InstructionStore::add: the first instruction that resembles the new one is
\* reinforced, or the new one is pushed and the store capped.
Added(store, inst) ==
  LET same == Resembling(store, inst)
  IN  IF same # {} THEN Reinforced(store, Min(same), inst)
                   ELSE Capped(Append(store, inst))

Total(store) == FoldLeft(LAMBDA sum, inst : sum + inst.source_count, 0, store)

\* A list is added one instruction after the other.
AddedAll(store, list) == FoldLeft(Added, store, list)

Account(list) ==
  /\ adds' = adds + Len(list)
  /\ weight' = weight + Total(list)

\* learn_from_edit, when the model named a preference: the instruction is added
\* with the reading of the wall clock, which may have been set back.  Its text
\* is not empty.
Learn(words, time) ==
  LET inst == [words |-> words, source_count |-> 1, added |-> time] IN
  /\ adds < MaxAdds
  /\ words # {}
  /\ instructions' = Added(instructions, inst)
  /\ learned' = <<inst>>
  /\ Account(<<inst>>)
  /\ UNCHANGED edits

\* learn_from_edit, when the edit is trivial, the model says SKIP or fails, or the
\* prompt for it cannot be cut from the texts.
LearnNothing ==
  /\ learned' = << >>
  /\ UNCHANGED <<edits, instructions, adds, weight>>

\* with_instructions on a Cortex in use.
WithInstructions(list) ==
  /\ adds + Len(list) <= MaxAdds
  /\ instructions' = AddedAll(instructions, list)
  /\ learned' = << >>
  /\ Account(list)
  /\ UNCHANGED edits

\* Mutant of Reloaded: the list is added newest first.
ReloadedBackwards == AddedAll(<< >>, Reverse(instructions))

\* A new Cortex given what export_instructions saved.
Reloaded == AddedAll(<< >>, instructions)

\* The session ends; the next one starts from the saved instructions and the
\* saved edits, or without the edits.
Restart ==
  /\ instructions' = Reloaded
  /\ edits' \in {edits, << >>}
  /\ learned' = << >>
  /\ UNCHANGED <<adds, weight>>

--------------------------------------------------------------------------------
(* The edits                                                               *)

Matched == [edit \in Edits |-> PatternsOf(edit)]

\* Of an edit, what detect_patterns looks at is kept.
TrackEdit(edit) ==
  /\ Len(edits) < MaxEdits
  /\ edits' = Append(edits, [was_edited |-> WasEdited(edit), matched |-> Matched[edit],
                             severed |-> Severed(edit.original) \/ Severed(edit.edited)])
  /\ UNCHANGED <<instructions, learned, adds, weight>>

Edited(records) == {i \in DOMAIN records : records[i].was_edited}

\* Mutant of Base: the share is taken of everything tracked.
BaseAll(records) == Len(records)

\* What the frequency of a pattern is a share of.
Base(records) == Cardinality(Edited(records))

Matching(records, p) == {i \in Edited(records) : p \in records[i].matched}

Frequent(records) ==
  {p \in UNION {records[i].matched : i \in Edited(records)} :
     100 * Cardinality(Matching(records, p)) >= MinFrequency * Base(records)}

\* The first three edits that match are shown with the pattern.
Examples(records, p) ==
  {i \in Matching(records, p) : Cardinality({j \in Matching(records, p) : j < i}) < 3}

\* detect_patterns, which panics, and returns nothing at all, when one of the edits
\* it shows is cut inside a character.
Detected(records) ==
  IF \/ Len(records) < MinEdits
     \/ \E p \in Frequent(records) : \E i \in Examples(records, p) : records[i].severed
  THEN {} ELSE Frequent(records)

Next ==
  \/ \E words \in Texts, time \in 1..MaxTime : Learn(words, time)
  \/ LearnNothing
  \/ \E list \in Imported : WithInstructions(list)
  \/ Restart
  \/ \E edit \in Edits : TrackEdit(edit)

Spec == Init /\ [][Next]_vars

--------------------------------------------------------------------------------
(* Properties                                                              *)

\* The store holds instructions and no more of them than its size.
TypeOK ==
  /\ instructions \in Seq(Instruction) /\ Len(instructions) <= MaxSize
  /\ \A i \in DOMAIN edits : edits[i] \in [was_edited : BOOLEAN, matched : SUBSET UNION Range(Matched),
                                    severed : BOOLEAN]
  /\ learned \in Seq(Instruction) /\ Len(learned) <= 1
  /\ {adds, weight} \subseteq Nat

\* Resemblance is not transitive and only the first resembling instruction is
\* reinforced, yet after any sequence of additions, evictions and reloads no
\* two instructions in the store resemble each other.
NoNearDuplicates ==
  \A i, j \in DOMAIN instructions :
    i # j => ~ Duplicate(instructions[i].words, instructions[j].words)

\* Every edit that taught something is accounted for: whatever was learned,
\* loaded, merged and reloaded, the counts in a store that has never been full
\* add up to those that came in, and a full one never shows more.
CountsAccountedFor ==
  /\ Total(instructions) <= weight
  /\ Len(instructions) < MaxSize => Total(instructions) = weight

\* A store still has an instruction, in its own words or in ones that resemble them.
Kept(store, inst) ==
  inst.words \in {store[i].words : i \in DOMAIN store} \/ Resembling(store, inst) # {}

\* What the store forgets, an instruction it had or the one just learned, is
\* never stronger than anything it keeps.
ForgetsWeakest ==
  [][\A old \in ToSet(instructions \o learned') :
       ~ Kept(instructions', old) =>
         \A j \in DOMAIN instructions' :
           ~ Stronger(old, instructions'[j])]_vars

\* Saving the instructions and loading them in the next session changes
\* nothing, not even their order.
RestartKeepsStore == [][Restart => instructions' = instructions]_vars

\* A post the user left as it was never hides a pattern of the edits.
UneditedHidesNothing ==
  [][Len(edits') = Len(edits) + 1 /\ ~ Last(edits').was_edited =>
       Detected(edits) \subseteq Detected(edits')]_vars
================================================================================
