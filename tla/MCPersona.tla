-------------------------------- MODULE MCPersona --------------------------------
(* Three users who only have drafts checked, all short ones and some longer; one *)
(* whose texts are well received; one with new samples.                          *)
EXTENDS Persona

MCVocabulary == {<<"delve">>, <<"moving", "forward">>}

Tokens == {"ship", "moving", "forward", "shows", "thoughts", ".", "?", "dash", "para", "blank"}

ShortTexts == UNION {[1..n -> Tokens] : n \in 0..3}

LongTexts ==
  {<<"para", "shows", ".", "ship", "?">>, <<"ship", ".", "ship", "!", "ship", "?">>, <<"ship", "dash", "ship", "dash", "ship", ".">>,
   <<"ship", ".", "ship", "?", "ship", "?">>, <<"moving", "para", "forward", ".", "ship">>,
   <<"shows", "shows", "ship", ".">>, <<"shows", "para", "delve">>, <<"ship", "?", "ship", ".", "ship">>,
   <<"blank", "shows", "ship", ".", "ship", "?">>, <<"blank", "para", "shows", "ship", ".">>,
   <<"moving", "blank", "forward", "dash", "ship", "blank">>, <<"ship", "!", "thoughts", "?">>, <<"para", "ship", "dash", "ship", "?", "para">>}

Config(extra, sentences, chars, all) ==
  [extra_ai_phrases |-> extra, max_sentences |-> sentences, max_chars |-> chars,
   reject_trailing_questions |-> TRUE, fix_em_dashes |-> all, reject_multi_paragraph |-> all]

Strict == Config({<<"ship", "ship">>}, 2, 4, TRUE)
Lax == [Config({}, 0, 0, FALSE) EXCEPT !.reject_trailing_questions = FALSE]
One == Config({}, 1, 0, TRUE)
Default == [Config({<<"ship", ".", "ship">>}, 0, 0, TRUE) EXCEPT !.reject_multi_paragraph = FALSE]

W(lower, contraction, bold, plain) ==
  [lower |-> lower, contraction |-> contraction, bold |-> bold, plain |-> plain]

MCWord ==
  [never |-> W("never", FALSE, TRUE, TRUE), Never |-> W("never", FALSE, TRUE, FALSE),
   again |-> W("again", FALSE, FALSE, TRUE), dont |-> W("dont", TRUE, FALSE, FALSE),
   this |-> W("this", FALSE, FALSE, TRUE), is |-> W("is", FALSE, FALSE, TRUE),
   Rust |-> W("rust", FALSE, FALSE, FALSE)]

MCGeneric == {<<"this", "is">>}

Liked ==
  {<<"Never", "again">>, <<"never", "again", "never", "again">>, <<"dont", "again">>,
   <<"this", "is", "Rust">>, <<"dont", "dont", "dont">>, <<"again">>}

Sample(text, weight, len) == [text |-> text, weight |-> weight, len |-> len]

Samples ==
  {<<Sample(<<"a", "b", "c">>, 1, 9), Sample(<<"d", "-", "D">>, 2, 9)>>,
   <<Sample(<<"a", "a", "a", "a", "a", "a", "a", "a">>, 1, 9), Sample(<<"a">>, 1, 1)>>,
   <<Sample(<<"a">>, 2, 9), Sample(<<"d">>, 2, 9), Sample(<<"g">>, 3, 9), Sample(<<"a", "b", "c">>, 1, 9)>>,
   <<Sample(<<"x", "y">>, 0, 9), Sample(<<"a", "b", "g">>, 2, 9), Sample(<<"d", "e", "f">>, 1, 9),
     Sample(<<"e", "b", "h">>, 1, 1)>>,
   <<Sample(<<"a", "e2", "b">>, 1, 9), Sample(<<"d", "e", "f">>, 2, 9)>>,
   <<Sample(<<"a", "b">>, 1, 9)>>}

MCCleaned ==
  [w \in {"a", "b", "c", "d", "D", "-", "e", "e2", "f", "g", "h", "x", "y"} |->
     CASE w = "D" -> "d" [] w = "-" -> "" [] OTHER -> w]

Answer(form, tone, style, examples) ==
  [form |-> form, tone |-> tone, style |-> style, examples |-> examples]

MCAnswers ==
  {Answer("failed", {}, {}, << >>), Answer("backwards", {}, {}, << >>), Answer("garbage", {}, {}, << >>),
   Answer("json", {"dry"}, {"short", "plain"}, <<<<"a", "b", "c">>, <<"x", "y">>, <<"d", "e", "z">>>>),
   Answer("json", {"dry"}, {"short"}, <<<<"x", "y", "z">>>>),
   Answer("json", {"dry", "odd"}, {"short"}, <<<<"b", "e2", "x">>, <<"a", "b", "c">>>>),
   Answer("json", {}, {}, << >>)}

User(config, drafts, liked, samples) ==
  [config |-> config, drafts |-> drafts, liked |-> liked, samples |-> samples]

MCUsers ==
  {User(Strict, ShortTexts \cup LongTexts, {}, {}), User(One, ShortTexts \cup LongTexts, {}, {}),
   User(Default, ShortTexts \cup LongTexts, {}, {}),
   User(Lax, {<<"shows", "para", "delve">>}, Liked, {<<Sample(<<"a", "b", "c">>, 1, 9), Sample(<<"d", "e", "f">>, 2, 9)>>}),
   User(Strict, {}, {<<"Never", "again">>, <<"never", "again">>}, Samples)}
================================================================================
