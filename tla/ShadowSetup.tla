------------------------------ MODULE ShadowSetup ------------------------------
(* Where the configuration of a ShadowEngine comes from and what is built of  *)
(* it: the file on disk, edited by a user and written by save, the ways to    *)
(* make an engine, a crash of the process, and reload_config.                 *)
EXTENDS Naturals

CONSTANTS
  Servers,        \* the Ollama servers an application may name
  DefaultServer,  \* the one OllamaClient::new() asks
  GivenConfigs,   \* configurations handed to with_config
  EditedFiles     \* what a user may leave in the file

VARIABLES
  file,    \* the configuration on disk
  saving,  \* TRUE between the truncation and the writing of the file
  engine   \* the engine: its configuration and the parts built from it

setup == <<file, saving, engine>>

Default ==
  [enabled |-> TRUE, aggressiveness |-> 2, llm_review_enabled |-> TRUE,
   sandbox_enabled |-> FALSE, shadow_model |-> "qwen2.5", temperature |-> 5,
   max_tokens |-> 2048, sandbox_image |-> "python", sandbox_ttl_secs |-> 30,
   sandbox_min_code_len |-> 100, max_input_len |-> 4000]

\* The sane bounds, the least and the greatest; temperatures are hundredths.
Bounds ==
  [aggressiveness |-> <<1, 3>>, temperature |-> <<0, 100>>, max_tokens |-> <<256, 8192>>,
   sandbox_ttl_secs |-> <<5, 300>>, sandbox_min_code_len |-> <<20, 10000>>,
   max_input_len |-> <<500, 16000>>]

Within(x, b) == IF x < b[1] THEN b[1] ELSE IF x > b[2] THEN b[2] ELSE x

\* Mutant of clamp: the input length is forgotten.
clampMost(c) ==
  [f \in DOMAIN c |->
     IF f \in DOMAIN Bounds \ {"max_input_len"} THEN Within(c[f], Bounds[f]) ELSE c[f]]

clamp(c) ==
  [f \in DOMAIN c |-> IF f \in DOMAIN Bounds THEN Within(c[f], Bounds[f]) ELSE c[f]]

Missing == [kind |-> "missing"]
Unreadable == [kind |-> "unreadable"]   \* empty, cut short, or not this JSON
Written(fields) == [kind |-> "json", fields |-> fields]

\* load_from: fields the file leaves out, and files that say nothing, get the
\* defaults; what was read is clamped.
load_from(f) ==
  clamp([s \in DOMAIN Default |->
           IF f.kind = "json" /\ s \in DOMAIN f.fields THEN f.fields[s] ELSE Default[s]])

\* What LlmReviewer::new and SandboxManager::new keep of a configuration.
Reviewer(c, server) ==
  [server |-> server, model |-> c.shadow_model, temperature |-> c.temperature,
   max_tokens |-> c.max_tokens, max_input_len |-> c.max_input_len]

Sandbox(c) ==
  [enabled |-> c.sandbox_enabled, image |-> c.sandbox_image,
   ttl_secs |-> c.sandbox_ttl_secs, min_code_len |-> c.sandbox_min_code_len]

with_config(c, server) ==
  [config |-> c, llm_reviewer |-> Reviewer(c, server), sandbox |-> Sandbox(c),
   byHand |-> TRUE]   \* byHand is history

with_ollama(server) == [with_config(load_from(file), server) EXCEPT !.byHand = FALSE]

SetupInit ==
  /\ file \in EditedFiles \cup {Missing}
  /\ saving = FALSE
  /\ \E s \in Servers :
       \/ engine = with_ollama(s)
       \/ \E c \in GivenConfigs : engine = with_config(c, s)

--------------------------------------------------------------------------------

Edit(f) ==
  /\ ~ saving
  /\ file' = f
  /\ UNCHANGED <<saving, engine>>

\* Mutant of reload_config: the sandbox keeps the settings it was built with.
ReloadReviewerOnly ==
  LET new_config == load_from(file) IN
  /\ ~ saving
  /\ engine' = [engine EXCEPT !.config = new_config, !.byHand = FALSE,
                              !.llm_reviewer = Reviewer(new_config, DefaultServer)]
  /\ UNCHANGED <<file, saving>>

\* reload_config makes a client of its own, whatever the engine had been given.
reload_config ==
  LET new_config == load_from(file) IN
  /\ ~ saving
  /\ engine' = [engine EXCEPT !.config = new_config, !.byHand = FALSE,
                              !.llm_reviewer = Reviewer(new_config, DefaultServer),
                              !.sandbox = Sandbox(new_config)]
  /\ UNCHANGED <<file, saving>>

\* save: std::fs::write truncates the file, then fills it.
SaveTruncate ==
  /\ ~ saving
  /\ saving' = TRUE
  /\ file' = Unreadable
  /\ UNCHANGED engine

SaveWrite ==
  /\ saving
  /\ saving' = FALSE
  /\ file' = Written(engine.config)
  /\ UNCHANGED engine

\* The process dies and another one makes an engine from what is on disk.
Crash(s) ==
  /\ saving' = FALSE
  /\ engine' = with_ollama(s)
  /\ UNCHANGED file

Setup ==
  \/ \E f \in EditedFiles : Edit(f)
  \/ reload_config
  \/ SaveTruncate
  \/ SaveWrite
  \/ \E s \in Servers : Crash(s)

--------------------------------------------------------------------------------

\* An engine that read its configuration from the disk, whatever a user or an
\* interrupted save left there, has every setting within its bounds.
SaneWhenLoaded ==
  ~ engine.byHand => \A f \in DOMAIN Bounds : engine.config[f] = Within(engine.config[f], Bounds[f])

\* The reviewer and the sandbox never run with settings of another
\* configuration than the one whose stages the engine goes through.
PartsAgree ==
  /\ engine.sandbox = Sandbox(engine.config)
  /\ engine.llm_reviewer = Reviewer(engine.config, engine.llm_reviewer.server)
================================================================================
