----------------------------- MODULE MCShadowEngine -----------------------------
(* Two concurrent analyses, a channel of one event and a store of one report: *)
(* sends wait, receivers leave, reports are evicted, and the configuration is *)
(* reloaded while tasks run.                                                  *)
EXTENDS ShadowEngine

CONSTANTS s1, s2

MCSessions == {s1, s2}

Config(e, a) ==
  [enabled |-> e, aggressiveness |-> a, llm_review_enabled |-> TRUE,
   sandbox_enabled |-> TRUE]
MCConfigs == {Config(FALSE, 1), Config(TRUE, 1), Config(TRUE, 3)}

\* The reviewer repeats a finding of the static stage with another severity,
\* and adds one of its own.
MCResults ==
  [static  |-> {<<[key |-> 1, severity |-> 2]>>},
   llm     |-> {<<[key |-> 1, severity |-> 4], [key |-> 2, severity |-> 2]>>},
   sandbox |-> {<< >>}]
================================================================================
