-------------------------------- MODULE MCPsyche --------------------------------
(* One request with every text a Superego may say, messages on each side of    *)
(* every threshold of the classification, a channel of two events and at most  *)
(* two chunks.                                                                 *)
EXTENDS Psyche

MCAgents == {Id, Superego}

Msg(fast, factual, len, complex) ==
  [fast |-> fast, factual |-> factual, trimmed |-> len, len |-> len,
   complex |-> complex]

MCMessages ==
  {Msg(TRUE, FALSE, 500, TRUE), Msg(FALSE, TRUE, 79, FALSE),
   Msg(FALSE, TRUE, 80, FALSE), Msg(FALSE, FALSE, 99, TRUE),
   Msg(FALSE, FALSE, 100, TRUE), Msg(FALSE, FALSE, 299, FALSE),
   Msg(FALSE, FALSE, 300, FALSE)}

MCReplies ==
  [a \in MCAgents |->
     IF a = Id THEN {"idea"}
     ELSE {ReasonedBlock, BareBlock, MentionsBlock, VerdictBlock,
           BareVerdictBlock, Harmless}]
================================================================================
