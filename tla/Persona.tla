--------------------------------- MODULE Persona ---------------------------------
(* laminae-persona at work, in the order its documentation gives: a persona is *)
(* extracted, its voice filter checks what a model wrote, phrases of texts     *)
(* that were well received are recorded in an open VoiceDna and written back   *)
(* to the persona, and the persona is refreshed from new samples.  The user,   *)
(* the feedback and the language model are the environment.                    *)
EXTENDS VoiceFilter, VoiceDna, PersonaExtractor

CONSTANTS
  Users,        \* what a user brings: config, drafts, liked texts, samples
  Answers,      \* what the model may answer an extraction
  MaxSuccesses  \* bound: texts that are well received

ASSUME UsersAssumption ==
  \A u \in Users :
    /\ u.config \in VoiceFilterConfig
    /\ u.drafts \subseteq Seq(STRING)
    /\ u.liked \subseteq Seq(DOMAIN Word)
    /\ u.samples \subseteq Seq(WeightedSample)

ASSUME AnswersAssumption ==
  /\ Answers \subseteq ExtractedPersona
  /\ \A answer \in Answers : IsFiniteSet(answer.tone) /\ IsFiniteSet(answer.style)

ASSUME SuccessesAssumption == MaxSuccesses \in Nat

VARIABLES
  user,
  persona,   \* as it is stored
  given,     \* history: the samples it was extracted from
  dna,       \* the phrases of the open VoiceDna
  successes,
  returned   \* what the last call returned, with what it was called for

personaVars == <<user, persona, given, dna, successes, returned>>

NoPersona == [source |-> "none"]
Nothing == [of |-> "nothing"]

PersonaInit ==
  /\ user \in Users
  /\ persona = NoPersona /\ given = << >>
  /\ dna = << >> /\ successes = 0
  /\ returned = Nothing

Enough(samples) == Len(samples) >= MIN_SAMPLES

\* Mutant of Refreshed: the draft starts without phrases.
RefreshedBare(samples, answer) ==
  [extract(samples, answer) EXCEPT !.source = "refreshed"]

\* The phrases of the persona that is refreshed are carried forward.
Refreshed(samples, answer) ==
  [extract(samples, answer) EXCEPT !.source = "refreshed", !.voice_dna = persona.voice_dna]

\* Too few samples, a call that fails and an answer that cannot be read are errors.
Extract(samples, answer) ==
  /\ persona = NoPersona
  /\ Enough(samples) /\ Fate(answer, samples) = "ok"
  /\ persona' = extract(samples, answer)
  /\ given' = samples
  /\ dna' = << >>
  /\ returned' = Nothing
  /\ UNCHANGED <<user, successes>>

Refresh(samples, answer) ==
  /\ persona # NoPersona
  /\ Enough(samples) /\ Fate(answer, samples) = "ok"
  /\ persona' = Refreshed(samples, answer)
  /\ given' = samples
  /\ returned' = [of |-> "refresh", similarity |-> Similarity(persona, answer),
                  voices |-> <<persona.tone, persona.style, answer.tone, answer.style>>]
  /\ UNCHANGED <<user, dna, successes>>

\* VoiceDna::new from the stored persona: in another session, or after a panic has
\* ended this one.  What was not written back is gone.
Reopened ==
  /\ dna' = IF persona = NoPersona THEN << >> ELSE persona.voice_dna
  /\ returned' = Nothing
  /\ UNCHANGED <<user, persona, given, successes>>

Panic(samples, answer) ==
  /\ Enough(samples) /\ Fate(answer, samples) = "panic"
  /\ Reopened

\* A caller acts on one result before it asks for the next.
Check(text) ==
  /\ returned = Nothing
  /\ returned' = [of |-> "check", draft |-> text, result |-> check(user.config, text)]
  /\ UNCHANGED <<user, persona, given, dna, successes>>

Success(text) ==
  /\ persona # NoPersona
  /\ successes < MaxSuccesses
  /\ successes' = successes + 1
  /\ dna' = record_success(dna, text)
  /\ returned' = Nothing
  /\ UNCHANGED <<user, persona, given>>

\* into_phrases, and a new VoiceDna from what was written.
Export ==
  /\ persona # NoPersona
  /\ persona' = [persona EXCEPT !.voice_dna = dna]
  /\ returned' = Nothing
  /\ UNCHANGED <<user, given, dna, successes>>

PersonaNext ==
  \/ \E samples \in user.samples, answer \in Answers :
       Extract(samples, answer) \/ Refresh(samples, answer) \/ Panic(samples, answer)
  \/ \E text \in user.drafts : Check(text)
  \/ \E text \in user.liked : Success(text)
  \/ Export
  \/ Reopened

PersonaSpec == PersonaInit /\ [][PersonaNext]_personaVars

--------------------------------------------------------------------------------

\* The first token that is not white space is an opener.
Opens(text) ==
  \E i \in DOMAIN text : text[i] \in Openers /\ \A j \in 1..(i - 1) : text[j] \in Blanks

\* What passes the filter is fit to be sent: no phrase of the vocabulary, but one
\* with a full stop in it that mending has put there; no opener at its visible
\* beginning, unless the draft hid it behind white space; no paragraphs where they are
\* rejected; and it keeps the limit of sentences, also where mending has made more of
\* them.
PassedIsFit ==
  returned.of = "check" /\ Passed(returned.result) =>
    LET cleaned == returned.result.cleaned
        c == user.config IN
    /\ \A phrase \in AI_VOCABULARY \cup c.extra_ai_phrases :
         phrase \in SubSeqs(cleaned) => c.fix_em_dashes /\ Contains(phrase, ".")
    /\ Opens(cleaned) => Head(returned.draft) \in Blanks
    /\ c.reject_multi_paragraph => ~ Contains(cleaned, "para")
    /\ c.max_sentences > 0 => Sentences(cleaned) <= c.max_sentences

\* Whatever the case of the letters in each text, a phrase has one entry and one
\* count, in the open VoiceDna and in the persona.
NoTwins ==
  \A phrases \in {dna} \cup (IF persona = NoPersona THEN {} ELSE {persona.voice_dna}) :
    \A i, j \in DOMAIN phrases :
      lowercase(phrases[i].phrase) = lowercase(phrases[j].phrase) => i = j

Weaker(p, q) == p.confirmed_by <= q.confirmed_by

OnlyCut(p, after) ==
  LET same == {j \in DOMAIN after : after[j].phrase = p.phrase} IN
  IF same # {} THEN \A j \in same : Weaker(p, after[j])
  ELSE Len(after) = MAX_DNA_PHRASES /\ \A j \in DOMAIN after : Weaker(p, after[j])

\* A phrase that was written to the persona leaves it only for stronger ones: not
\* by a refresh, and not by a new session.
DnaOnlyCut ==
  [][persona # NoPersona =>
       \A i \in DOMAIN persona.voice_dna :
         OnlyCut(persona.voice_dna[i], persona'.voice_dna)]_personaVars

\* What the field promises: the examples are exact copies of samples.  The code also
\* keeps one that only resembles a sample.
ExamplesCopied ==
  persona # NoPersona =>
    \A e \in ToSet(persona.examples) : \E i \in DOMAIN given : given[i].text = e

\* The confidence and the warnings say the same: nearly sure is never warned
\* about, and what is not warned about is more likely right than wrong.  A refresh
\* that found the same tone words and the same words of style, and only such a one,
\* scores all: nothing else of the voice is compared.
ScoresHonest ==
  persona # NoPersona =>
    /\ persona.confidence >= 95 => persona.warnings = {}
    /\ persona.warnings = {} => persona.confidence > 50
    /\ returned.of = "refresh" =>
         LET v == returned.voices IN
         (returned.similarity = 100) <=> (v[1] = v[3] /\ v[2] = v[4])
================================================================================
