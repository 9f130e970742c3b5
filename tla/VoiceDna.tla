-------------------------------- MODULE VoiceDna --------------------------------
(* The voice DNA of laminae-persona: the distinctive phrases of texts that     *)
(* were well received, with how often each was confirmed.  A text is a        *)
(* sequence of words, each with the punctuation it carries.                   *)
EXTENDS Naturals, Vectors

CONSTANTS
  Word,               \* Word[w]: w in lower case, and what w is told by
  GenericPhrases,     \* phrases in lower case that say nothing
  MAX_DNA_PHRASES,    \* 30
  MAX_PHRASE_WORDS,   \* 5
  MaxPerText          \* the 10 phrases one text can confirm

ASSUME DnaAssumption ==
  MAX_DNA_PHRASES \in Nat \ {0} /\ MAX_PHRASE_WORDS \in Nat \ {0, 1} /\ MaxPerText \in Nat

\* A phrase is in words that Word knows.
DnaPhrase == [phrase : Seq(DOMAIN Word), confirmed_by : Nat]

lowercase(phrase) == [i \in DOMAIN phrase |-> Word[phrase[i]].lower]

\* A contraction or a bold word; in three words or more also a capital or a mark.
Distinctive(phrase) ==
  /\ lowercase(phrase) \notin GenericPhrases
  /\ \E i \in DOMAIN phrase :
       \/ Word[phrase[i]].contraction \/ Word[phrase[i]].bold
       \/ Len(phrase) >= 3 /\ ~ Word[phrase[i]].plain

Windows(text, size) == [i \in 1..(Len(text) - size + 1) |-> SubSeq(text, i, i + size - 1)]

\* Vec::dedup: only neighbours are compared.
dedup(s) == Chosen(s, {i \in DOMAIN s : i > 1 => s[i] # s[i - 1]})

\* The shorter phrases of the whole text come before the longer ones.
extract_distinctive_phrases(text) ==
  LET windows == FlattenSeq([k \in 1..(Min({MAX_PHRASE_WORDS, Len(text)}) - 1) |->
                               Windows(text, k + 1)]) IN
  FirstOf(dedup(Chosen(windows, {i \in DOMAIN windows : Distinctive(windows[i])})), MaxPerText)

--------------------------------------------------------------------------------

\* Mutant of Confirm: the case of the letters tells phrases apart.
ConfirmExact(dna, phrase) ==
  LET same == {i \in DOMAIN dna : dna[i].phrase = phrase} IN
  IF same = {} THEN Append(dna, [phrase |-> phrase, confirmed_by |-> 1])
  ELSE [dna EXCEPT ![Min(same)].confirmed_by = @ + 1]

\* The first phrase that is the same in lower case, or a new one at the end.
Confirm(dna, phrase) ==
  LET same == {i \in DOMAIN dna : lowercase(dna[i].phrase) = lowercase(phrase)} IN
  IF same = {} THEN Append(dna, [phrase |-> phrase, confirmed_by |-> 1])
  ELSE [dna EXCEPT ![Min(same)].confirmed_by = @ + 1]

\* The most confirmed are kept, of equals the older ones.
CappedPhrases(dna) ==
  IF Len(dna) > MAX_DNA_PHRASES
    THEN FirstOf(Descending(dna, [i \in DOMAIN dna |-> dna[i].confirmed_by]), MAX_DNA_PHRASES)
    ELSE dna

record_success(dna, text) ==
  CappedPhrases(FoldLeft(Confirm, dna, extract_distinctive_phrases(text)))
================================================================================
