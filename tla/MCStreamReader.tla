----------------------------- MODULE MCStreamReader -----------------------------
(* Bodies of two or three events with a two-byte character, an empty event, a  *)
(* comment, blank lines, something behind the end mark, and a last line that   *)
(* is not ended; chunks of up to five bytes; a channel of one text.            *)
EXTENDS StreamReader

MCBodies ==
  [openai |->
     {<<"open", "a", "u1", "u2", "close", "nl", "nl", "other", "nl",
        "open", "close", "nl", "open", "b", "close", "nl", "done", "nl",
        "open", "a", "close", "nl">>},
   anthropic |->
     {<<"open", "u1", "u2", "u1", "u2", "close", "nl",
        "open", "a", "b", "close", "nl", "other", "nl">>,
      <<"open", "a", "close", "nl", "open", "b", "close">>},
   ollama |->
     {<<"open", "a", "u1", "u2", "b", "close", "nl", "nl",
        "open", "u1", "u2", "last", "nl", "open", "a", "close", "nl">>,
      <<"open", "a", "close", "nl", "open", "b", "close">>}]
================================================================================
