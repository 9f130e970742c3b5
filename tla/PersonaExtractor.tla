---------------------------- MODULE PersonaExtractor ----------------------------
(* The extraction of a persona from weighted samples: what is shown to the     *)
(* model, how its answer is read and held against the samples, how far the    *)
(* result can be trusted and how near it is to an older one.  A text is a     *)
(* sequence of words; scores are percentages of integers, rounded down.       *)
EXTENDS Integers, Vectors

CONSTANTS
  MIN_SAMPLES, RECOMMENDED_SAMPLES, MIN_SAMPLE_WORDS,
  MaxSamples,    \* max_samples
  PrefixLen,     \* the 30 bytes a text is known by
  Cleaned,       \* Cleaned[w]: w in small letters, of letters and digits; "" below two bytes
  Straddling,    \* words with a character of several bytes, across that boundary
  FallbackCount, \* 5
  FallbackLen,   \* 20
  MaxExamples    \* 10

ASSUME ExtractorAssumption ==
  {MIN_SAMPLES, RECOMMENDED_SAMPLES, MIN_SAMPLE_WORDS, MaxSamples, PrefixLen, FallbackCount,
   FallbackLen, MaxExamples} \subseteq Nat \ {0}

\* 5 in the code: with more, too few samples can still come near to certainty.
ASSUME RecommendedAssumption == RECOMMENDED_SAMPLES <= 6

WeightedSample == [text : Seq(STRING), weight : Nat, len : Nat]

\* What the model answers: its form, and the persona in it.
ExtractedPersona ==
  [form : {"failed", "backwards", "garbage", "json"},
   tone : SUBSET STRING, style : SUBSET STRING, examples : Seq(Seq(STRING))]

\* The heaviest samples, the earlier first among equals.
Analyzed(samples) ==
  FirstOf(Descending(samples, [i \in DOMAIN samples |-> samples[i].weight]), MaxSamples)

--------------------------------------------------------------------------------
(* compute_extraction_quality                                              *)

AllWords(samples) ==
  LET words == FlattenSeq([i \in DOMAIN samples |-> samples[i].text])
      counted == Chosen(words, {k \in DOMAIN words : Cleaned[words[k]] # ""}) IN
  [k \in DOMAIN counted |-> Cleaned[counted[k]]]

Short(samples) == Cardinality({i \in DOMAIN samples : Len(samples[i].text) < MIN_SAMPLE_WORDS})

\* min(1, 2 * unique / all)
Diversity(samples) ==
  LET words == AllWords(samples) IN
  IF words = << >> THEN 0
  ELSE Min({100, (200 * Cardinality(ToSet(words))) \div Len(words)})

\* Mutant of Confidence: short samples are not held against it.
ConfidenceLenient(samples) ==
  LET count == Min({100, (100 * Len(samples)) \div RECOMMENDED_SAMPLES}) IN
  (30 * count + 40 * Diversity(samples) + 30 * 100) \div 100

\* The weights .3, .4 and .3 of the number of samples, their diversity, and the
\* share of those long enough.
Confidence(samples) ==
  LET count == Min({100, (100 * Len(samples)) \div RECOMMENDED_SAMPLES})
      useful == 100 - (100 * Short(samples)) \div Max({1, Len(samples)}) IN
  (30 * count + 40 * Diversity(samples) + 30 * useful) \div 100

Warnings(samples) ==
  (IF Short(samples) > Len(samples) \div 2 THEN {"short"} ELSE {})
    \cup (IF Diversity(samples) < 30 THEN {"diversity"} ELSE {})
    \cup (IF Len(samples) < RECOMMENDED_SAMPLES THEN {"few"} ELSE {})

--------------------------------------------------------------------------------
(* validate_examples                                                       *)

Shorter(a, b) == IF Len(a) <= Len(b) THEN a ELSE b
Longer(a, b) == IF Len(a) <= Len(b) THEN b ELSE a

\* The beginning of the shorter text is somewhere in the longer one, or more than
\* 60 % of its words are.
fuzzy_match(a, b) ==
  LET words == ToSet(Shorter(a, b)) IN
  /\ Shorter(a, b) # << >>
  /\ \/ FirstOf(Shorter(a, b), PrefixLen) \in SubSeqs(Longer(a, b))
     \/ 100 * Cardinality(words \cap ToSet(Longer(a, b))) > 60 * Cardinality(words)

Real(sample, example) == sample.text = example \/ fuzzy_match(sample.text, example)

\* The beginning is cut at a byte: inside a character that is a panic.
Cut(sample, example) ==
  LET text == Shorter(sample.text, example) IN
  /\ sample.text # example
  /\ Len(text) > PrefixLen /\ text[PrefixLen] \in Straddling

\* The samples are tried in order, up to the first that agrees.
Panics(example, samples) ==
  \E i \in DOMAIN samples :
    Cut(samples[i], example) /\ \A j \in 1..(i - 1) : ~ Real(samples[j], example)

\* When no claimed example is real: the heaviest samples that are long enough.
Fallback(samples) ==
  LET first == FirstOf(samples, FallbackCount)
      long == Chosen(first, {i \in DOMAIN first : first[i].len >= FallbackLen}) IN
  [i \in DOMAIN long |-> long[i].text]

validate_examples(claimed, samples) ==
  LET real == Chosen(claimed, {i \in DOMAIN claimed :
                                 \E j \in DOMAIN samples : Real(samples[j], claimed[i])}) IN
  FirstOf(IF real = << >> THEN Fallback(samples) ELSE real, MaxExamples)

--------------------------------------------------------------------------------
(* compute_similarity                                                      *)

Share(part, whole) == IF whole = 0 THEN 100 ELSE (100 * part) \div whole

\* Jaccard for the tone words, the share of the larger vocabulary for the style.
Similarity(a, b) ==
  LET styles == {Cardinality(a.style), Cardinality(b.style)} IN
  (Share(Cardinality(a.tone \cap b.tone), Cardinality(a.tone \cup b.tone))
     + Share(Cardinality(a.style \cap b.style), Max(styles))) \div 2

--------------------------------------------------------------------------------

\* The answer with a fence around it is cut from the first "{" to the last "}":
\* when that is the wrong way round, it is a panic.
Fate(answer, samples) ==
  CASE answer.form = "failed" -> "error"
    [] answer.form = "backwards" -> "panic"
    [] answer.form = "garbage" -> "error"
    [] answer.form = "json" /\ \E i \in DOMAIN answer.examples :
         Panics(answer.examples[i], Analyzed(samples)) -> "panic"
    [] OTHER -> "ok"

extract(samples, answer) ==
  LET analyzed == Analyzed(samples) IN
  [source |-> "extracted",
   tone |-> answer.tone, style |-> answer.style,
   examples |-> validate_examples(answer.examples, analyzed),
   voice_dna |-> << >>,
   confidence |-> Confidence(analyzed), warnings |-> Warnings(analyzed)]
================================================================================
