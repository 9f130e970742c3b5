------------------------------ MODULE EditPatterns ------------------------------
(* What laminae-cortex sees in one edit: the patterns that the change from the *)
(* model's text to the user's matches.  A text is a sequence of tokens: words, *)
(* ".", "!" and "?".                                                           *)
EXTENDS Naturals, SequencesExt, FiniteSetsExt

CONSTANTS
  Size,            \* Size[t]: the length of the token t in bytes
  Folded,          \* Folded[t]: the token t in lower case
  Holds,           \* Holds[t]: the tone words found in the token t in lower case
  Inside,          \* Inside[t]: the bytes of the token t that begin no character
  ExampleLen,      \* the 80 bytes that are shown of a text
  AI_TELL_PHRASES, SOFTER_WORDS, STRONGER_WORDS

SizeOf(text) == FoldLeft(LAMBDA size, t : size + Size[t], 0, text)

\* truncate: the text is cut at a byte, which may lie inside a character.
Severed(text) ==
  /\ SizeOf(text) > ExampleLen
  /\ \E i \in DOMAIN text : ExampleLen - SizeOf(SubSeq(text, 1, i - 1)) \in Inside[text[i]]

WasEdited(edit) == edit.original # edit.edited

\* removal_pct and addition_pct: shares of the original, none of an empty one.
Removed(edit, percent) ==
  LET o == SizeOf(edit.original)  e == SizeOf(edit.edited)
  IN  e < o /\ 100 * (o - e) >= percent * o

Grown(edit, percent) ==
  LET o == SizeOf(edit.original)  e == SizeOf(edit.edited)
  IN  0 < o /\ o < e /\ 100 * (e - o) >= percent * o

EndsAsking(text) == text # << >> /\ Last(text) = "?"

first_sentence(text) ==
  SubSeq(text, 1, Min({i \in DOMAIN text : text[i] \in {".", "!", "?"}} \cup {Len(text) + 1}) - 1)

\* The overlap of the two beginnings is below 0.3; nothing and nothing overlap.
OtherOpener(edit) ==
  LET o == ToSet(first_sentence(edit.original))
      e == ToSet(first_sentence(edit.edited)) IN
  /\ o \cup e # {}
  /\ 10 * Cardinality(o \cap e) < 3 * Max({Cardinality(o), Cardinality(e)})

Phrases(text) == AI_TELL_PHRASES \cap SubSeqs([i \in DOMAIN text |-> Folded[text[i]]])

\* How many of the tone words a text holds, each counted once.
Tone(text, words) == Cardinality(words \cap UNION {Holds[t] : t \in ToSet(text)})

\* One tone has grown and the other has not.
Shifted(edit, to, other) ==
  /\ Tone(edit.edited, to) > Tone(edit.original, to)
  /\ Tone(edit.edited, other) <= Tone(edit.original, other)

\* PatternType also has SimplifiedLanguage, which nothing detects.
PatternsOf(edit) ==
  {p \in {"Shortened", "RemovedQuestion", "RemovedOpener", "RemovedAiPhrases", "AddedContent",
          "ChangedToneSofter", "ChangedToneStronger"} :
     CASE p = "Shortened" -> Removed(edit, 20)
       [] p = "RemovedQuestion" -> EndsAsking(edit.original) /\ ~ EndsAsking(edit.edited)
       [] p = "RemovedOpener" -> OtherOpener(edit)
       [] p = "RemovedAiPhrases" -> Phrases(edit.original) \ Phrases(edit.edited) # {}
       [] p = "AddedContent" -> Grown(edit, 30)
       [] p = "ChangedToneSofter" -> Shifted(edit, SOFTER_WORDS, STRONGER_WORDS)
       [] p = "ChangedToneStronger" -> Shifted(edit, STRONGER_WORDS, SOFTER_WORDS)}
================================================================================
