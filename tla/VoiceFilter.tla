------------------------------ MODULE VoiceFilter ------------------------------
(* The voice filter of laminae-persona: six layers over a text, each of which  *)
(* may raise the severity, name a violation and mend the text for the next.   *)
(* A text is a sequence of tokens: words, ".", "!", "?", "dash" (an em-dash   *)
(* with its blanks), "para" (an empty line) and "blank" (any other white space *)
(* that is more than the one blank between two words, or stands at an end).   *)
(* The single blanks that mending leaves at the ends of a text are not told.  *)
EXTENDS Naturals, SequencesExt, FiniteSetsExt

CONSTANTS
  AI_VOCABULARY,  \* the phrases: sequences of tokens
  Openers         \* tokens that stand for "The post shows" and its like

Marks == {".", "!", "?", "dash", "para", "blank"}
Blanks == {"para", "blank"}

ASSUME FilterAssumption ==
  /\ AI_VOCABULARY \subseteq Seq(STRING)
  /\ Openers \subseteq STRING /\ Openers \cap Marks = {}

VoiceFilterConfig ==
  [extra_ai_phrases : SUBSET Seq(STRING), max_sentences : Nat, max_chars : Nat,
   reject_trailing_questions : BOOLEAN, fix_em_dashes : BOOLEAN,
   reject_multi_paragraph : BOOLEAN]

Terminators == {".", "!", "?"}

TrimStart(text) ==
  SubSeq(text, Min({i \in DOMAIN text : text[i] \notin Blanks} \cup {Len(text) + 1}), Len(text))

Trim(text) ==
  SubSeq(TrimStart(text), 1,
         Max({i \in DOMAIN TrimStart(text) : TrimStart(text)[i] \notin Blanks} \cup {0}))

\* split(['.', '!', '?']) without its blank pieces: each is known by the place of
\* its first token that is not blank.
Sentences(text) ==
  Cardinality({i \in DOMAIN text :
    /\ text[i] \notin Terminators \cup Blanks
    /\ \A j \in 1..(i - 1) :
         text[j] \notin Terminators \cup Blanks => \E k \in j..i : text[k] \in Terminators})

Flag(r, severity, violation) ==
  [r EXCEPT !.severity = Max({@, severity}), !.violations = Append(@, violation)]

--------------------------------------------------------------------------------
(* The layers                                                              *)

check_ai_vocabulary(config, r) ==
  IF \E phrase \in AI_VOCABULARY \cup config.extra_ai_phrases : phrase \in SubSeqs(r.cleaned)
  THEN Flag(r, 2, "ai vocabulary") ELSE r

\* The pattern begins at the first character: white space before an opener hides it.
check_meta_commentary(config, r) ==
  IF r.cleaned # << >> /\ Head(r.cleaned) \in Openers
  THEN [Flag(r, 2, "meta commentary") EXCEPT !.cleaned = TrimStart(Tail(@))] ELSE r

\* Mutant: joined paragraphs are a minor fix.
check_multi_paragraphMinor(config, r) ==
  IF config.reject_multi_paragraph /\ Contains(r.cleaned, "para")
  THEN [Flag(r, 1, "paragraphs") EXCEPT !.cleaned = Remove(@, "para")]
  ELSE r

check_multi_paragraph(config, r) ==
  IF config.reject_multi_paragraph /\ Contains(r.cleaned, "para")
  THEN [Flag(r, 2, "paragraphs") EXCEPT !.cleaned = Remove(@, "para")]
  ELSE r

\* The text ends in "thoughts?" or "right?": the other generic questions of the
\* pattern have no question mark, with which the text ends here.
Generic(text) == Len(text) > 1 /\ text[Len(text) - 1] \in {"thoughts", "right"}

\* Everything after the last "." or "!" goes, when there is one and the text has
\* more than one sentence.
check_trailing_questions(config, r) ==
  LET text == Trim(r.cleaned)
      ends == {i \in DOMAIN text : text[i] \in {".", "!"}}
      flagged == Flag(r, IF Generic(text) THEN 2 ELSE 1, "trailing question") IN
  IF ~ config.reject_trailing_questions \/ text = << >> \/ Last(text) # "?" THEN r
  ELSE IF Sentences(text) > 1 /\ ends # {}
  THEN [flagged EXCEPT !.cleaned = Trim(SubSeq(text, 1, Max(ends)))]
  ELSE flagged

check_em_dashes(config, r) ==
  IF config.fix_em_dashes /\ Contains(r.cleaned, "dash")
  THEN [Flag(r, 1, "em-dash") EXCEPT
          !.cleaned = ReplaceAll(@, "dash", ".")]
  ELSE r

\* Too many characters are only told; of too many sentences the first are kept,
\* counted by their terminators.
check_length(config, r) ==
  LET long == config.max_chars > 0 /\ Len(r.cleaned) > config.max_chars
      told == IF long THEN Flag(r, 1, "characters") ELSE r
      ends == {i \in DOMAIN r.cleaned : r.cleaned[i] \in Terminators}
      kept == {i \in ends : Cardinality({j \in ends : j <= i}) <= config.max_sentences}
      end == Max(kept \cup {0}) IN
  IF config.max_sentences = 0 \/ Sentences(r.cleaned) <= config.max_sentences THEN told
  ELSE [Flag(told, 1, "sentences") EXCEPT
          !.cleaned = IF end \in 1..(Len(@) - 1) THEN Trim(SubSeq(@, 1, end)) ELSE @]

--------------------------------------------------------------------------------

Clean(text) == [cleaned |-> text, severity |-> 0, violations |-> << >>]

\* Mutant of check: the length is measured before the dashes are replaced.
checkLengthFirst(config, text) ==
  check_em_dashes(config, check_length(config, check_trailing_questions(config,
    check_multi_paragraph(config, check_meta_commentary(config,
      check_ai_vocabulary(config, Clean(text)))))))

check(config, text) ==
  check_length(config, check_em_dashes(config, check_trailing_questions(config,
    check_multi_paragraph(config, check_meta_commentary(config,
      check_ai_vocabulary(config, Clean(text)))))))

Passed(r) == r.severity < 2
================================================================================
