------------------------------- MODULE MCCortex -------------------------------
(* Two places in the store, three texts of which the middle one resembles the *)
(* other two and they not each other, a fourth that resembles none, and one   *)
(* without a word; saved lists, one with counts other than one; four edits,   *)
(* one of them with a two-byte character where its example is cut.            *)
EXTENDS Cortex

A == {"short", "no", "hedging"}
B == {"short", "no", "emoji"}
C == {"short", "emoji", "bold"}
D == {"formal"}

MCTexts == {A, B, C, D, {}}
MCImported ==
  {<<[words |-> C, source_count |-> 2, added |-> 1],
     [words |-> A, source_count |-> 1, added |-> 2]>>,
   <<[words |-> {}, source_count |-> 1, added |-> 1]>>}

--------------------------------------------------------------------------------

Words == {"moving", "forward", "We", "we", "ship", "soon", "thoughts", "maybe", "Must", "go", "you",
          "cafe"}

MCFolded == [t \in Words \cup {".", "?"} |-> CASE t = "We" -> "we" [] t = "Must" -> "must" [] OTHER -> t]
MCSize == [t \in Words \cup {".", "?"} |-> IF t \in {".", "?"} THEN 1 ELSE 6]
MCInside == [t \in Words \cup {".", "?"} |-> IF t = "cafe" THEN {4} ELSE {}]
MCHolds == [t \in Words \cup {".", "?"} |-> {MCFolded[t]} \cap {"maybe", "must"}]
MCPhrases == {<<"moving", "forward">>}

Edit(original, edited) == [original |-> original, edited |-> edited]

MCEdits ==
  {Edit(<<"ship", ".">>, <<"ship", ".">>),
   Edit(<<"moving", "forward", "we", "ship", ".", "thoughts", "?">>, <<"We", "ship", ".">>),
   Edit(<<"maybe", "ship", "cafe", ".">>, <<"you", "Must", "go", ".">>),
   Edit(<<"Must", "ship", "?">>, <<"maybe", "we", "ship", "soon", ".">>)}
================================================================================
