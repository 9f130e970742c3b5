# Verification of the Laminae layers

TLA+ models of the layers of Laminae (`src/crates/`), TLC configurations that
check them on small instances, and TLAPS proofs for every value of the
constants. Every definition that stands for code is listed under `map` in
`PROJECT.json` with the lines it stands for; this file says what the parts are,
how the modules correspond to them, what is checked, what is proved, what is
not modelled and what comes next.

Run a check with `tlc -config MCWatchdog.cfg MCWatchdog`, a proof with
`tlapm WatchdogProofs.tla`.

## 1. Inventory

Laminae is a set of Rust crates that sit between an application and a language
model. Each is a library; the application composes them.

| component | state it keeps | operations | correct when |
|---|---|---|---|
| **Glassbox rate limiter** (`laminae-glassbox`) | a table of call times per tool behind one mutex | `check_rate_limit`, `record_tool_call` | limits hold over every window; the table neither forgets nor grows |
| **Glassbox validators** | none (configuration only) | `validate_input`, `_output`, `_command`, `_write_path` | zones and patterns match what is meant |
| **Shadow engine** (`laminae-shadow`) | configuration, analyzers, a bounded shared store of reports | `analyze_async` (spawns a task), `reload_config`, `recent_reports` | no answer is reported on twice, and none left out but for a panic or a runtime that does not answer; the stream and the report agree; Done comes last and after the store |
| **Shadow configuration** | a file, the engine's copy and the parts built from it | `load_from`, `save`, `clamp`, `with_config`, `with_ollama`, `reload_config` | settings are sane whatever is on disk; the parts agree |
| **Shadow analyzers and reviewer** | none | `extract`, `scan_content`, `StaticAnalyzer`, `DependencyAnalyzer`, `SecretsAnalyzer`, `LlmReviewer`, `dedup_findings` | a match is reported once; the reviewer sees the code |
| **Shadow container sandbox** | a process-wide cache of the container runtime; containers | `detect_runtime`, `execute_block`, `analyze` | one block's timeout takes nothing from another; an analysis ends |
| **Psyche** (`laminae-psyche`) | configuration; per request: two calls, a tier, a stream | `reply`, `reply_streaming` | a block is heeded; a caller is answered; nothing runs on behind |
| **Ollama client** (`laminae-ollama`) | an HTTP client | `complete` (with one retry), `complete_streaming`, `is_available`, `has_model` | retries when it says so; a stream loses nothing |
| OpenAI and Anthropic backends | an HTTP client; per stream a byte buffer | `complete`, `complete_streaming` | a stream loses nothing and ends |
| **Cortex** (`laminae-cortex`) | tracked edits, bounded store of instructions | `track_edit`, `detect_patterns`, `learn_from_edit`, `with_instructions`, `export_instructions`, `get_prompt_block` | no near duplicates, the weakest forgotten first, nothing lost over a restart |
| **Ironclad watchdog** (`laminae-ironclad`) | a task, a cancellation flag, the sustained-CPU clock | `spawn_watchdog` | reaction times bounded, no unjustified kill, every watchdog ends |
| **Ironclad command validation and OS sandbox** | none; the child process, on Windows handles | `validate_*`, `sandboxed_command`, a provider per platform, `assign_job_object_to_pid` | blocked binaries are found; what runs is restricted as promised; no handle is lost |
| **Persona** (`laminae-persona`) | a persona, DNA phrases, bounded | `extract`, `refresh`, `record_success`, `into_phrases`, `VoiceFilter::check` | what passes the filter is fit; phrases are lost to stronger ones only; scores are the samples' |
| Python bindings, umbrella crate, examples | wrapped objects | conversions | - |

**Interactions.** The Psyche calls the Ollama client twice at the same time
(`tokio::join!`, each under its own timeout in the Light tier) and then a
backend the application supplies; it tells the application everything through
an `mpsc` channel of 64. The Shadow is given the Ego's answer afterwards and
never holds it up: it spawns a task per answer, tells its findings through a
channel of 32, and shares only the report store (an `RwLock`) with other tasks.
Its reviewer stage calls the Ollama client, its sandbox stage a container
runtime. Glassbox is shared by reference between whoever runs tools. Ironclad
starts processes, on Linux through a closure that runs in the child between
fork and exec, and leaves a watchdog task with each; an application judges a
command with Glassbox and Ironclad before. Cortex and Persona are
used through `&mut self`; their state outlives a session as JSON the
application stores.

**Hard behaviours.** Two lock acquisitions that belong together (rate limiter);
concurrent tasks on one bounded store and channels that are full or dropped at
any await (Shadow, Psyche); independent timeouts, a retry and dropped futures
(Psyche, Ollama); a sample judged after an await, a kill and a cancellation that
race (watchdog); long sequences of legal calls on a store whose notion of
equality is not transitive, and reloads (Cortex, Persona); chunks that end
anywhere (stream readers); a slice of bytes that panics inside a character and
takes its task or call along (Shadow, Cortex, Persona); a daemon that stops, a start that
hangs, a program that ignores the signal and a timeout that leaves a container
behind (container sandbox); steps in a child, each of
which may fail, and a lock copied by a fork (OS sandbox); a file judged before it
is there (Glassbox); a save cut short (Shadow configuration); rewritings that
undo one another (voice filter). `hazards` in `PROJECT.json` lists each at its line
with the properties aimed at it.

## 2. Modules

`MC*` modules hold only the values of constants and symmetry sets. Definitions
that begin with "Mutant of" are plausible bugs; no specification uses them. They
are there so that every checked property can be shown to fail when the code is
changed that way (`mutants` in `PROJECT.json`).

### RateLimiter, SlidingWindow

`tool_calls` is the mutex's contents, one entry per timestamp; `admitted[c]`
remembers what caller `c` was told Ok for and has not recorded. `CheckOk` and
`CheckRefused` are `check_rate_limit`, which prunes the table whichever way it
answers; `Record` is `record_tool_call`; `Tick` is the clock. Each operation
holds the lock throughout, so each is one action, and everything may happen
between a caller's two operations. `history` is a ghost. `MaxTime` and
`MaxCalls` bound the clock and the calls (the run stops there, hence
`CHECK_DEADLOCK FALSE`); they guard the actions and limit no interleaving
before that.

`SlidingWindow` is the promise without table, lock or callers: a call is granted
only if each scope it belongs to has room in the window, up to `Slack`.
`RateLimiter` implements it with `Slack` the number of *other* callers, the
price of checking and recording separately. Its theorems are in
`ContainmentProofs`, the proofs about `laminae-glassbox` and `laminae-ironclad`.

### ShadowEngine, ReportLog, ShadowProofs

One `pc` per submission walks static, llm, sandbox, report, closing, ended. An
event the task is about to send is in its `outbox`; `Send` moves the head to the
channel when there is room and discards it when the receiver is gone, and no
stage begins before the outbox is empty, as every send is awaited. `StageOk`,
`StageErr`, `StageSkip` are the outcomes of a stage under the configuration
cloned at submission (`snapshot`), `Reload` is `reload_config`. A stage may also
panic (`StagePanic`): every stage cuts evidence at byte offsets somewhere. The
spawned task then dies with its sender and with what it had found; nobody is told,
nothing is stored. The sandbox stage may never come back (`AwaitsRuntime`), as it
awaits "docker info" and "rm -f" under no timer. `StoreReport`
deduplicates, pushes (evicting the oldest) and queues Done. `Receive` and
`DropReceiver` are the caller. What the analyzers find is an input (`Results`).

`ReportLog` is the promise to the reader of the store: every accepted submission
is reported on at most once, the store shows the latest, and none is left out but
those `lost` to a panic or `held` by a container runtime for ever.

### OllamaCall, Psyche, GatedReply, PsycheProofs

`OllamaCall` is one `complete` per agent: a request, and a second after a
backoff if `is_retryable` recognises the failure. A future dropped by its owner
(timeout, caller gone) goes to "cancelled" and does nothing more. `Psyche`
composes two of them: `Request` classifies and starts, `CopTimeout` fires per
agent, `Settle` is the moment `join!` returns, where the verdict is drawn from
the Superego's text (`Blocks` is `extract_block_reason` over the kinds of text
it tells apart), then the Ego. `reply` (mode "reply") is a future the caller may
`Abandon`; `reply_streaming` spawns a task with an `outbox` and channel as in
the Shadow. `GatedReply` is the promise both entry points keep.

### Watchdog, WatchdogProofs

The task is at "check" (top of the loop: `SeeCancel`, `SeeWallTime`,
`AskStats`), "asking" and "judging" (waiting for `ps`; it reads the process at
`ReadStats` and is judged at some later tick: `JudgeMemory`, `JudgeCpu`,
`KeepWatching`, `JudgeCool`), "sleeping" or "stopped". `due` is when the sleep
ends or `ps` must have answered. `figures` is what `ps` would print now: whether
each of its two figures is over its threshold. They move on their own (`Show`),
tied to no load: the %cpu of `ps` is an average, on Linux over the whole life of
the process, so that a process idle for an hour may use a core for long before
its figure shows it. `ReadStats` copies a figure or, where it does not parse, takes
it for 0 (`unwrap_or(0.0)`). The world moves at any time: figures, fork, exit,
reaping, reuse of the pid, cancellation. `Tick` advances the clock, never past
`due`: the sleep takes `Poll`, asking at most `MaxSample`, everything else no
time. `hot_since`, `big_since`, `last_cool` and `cancelled_at` are ghosts that
remember when something began; the first two say since when `ps` has shown too
much, and begin anew with a reading that fails.

### StreamReader, StreamReaderProofs

`complete_streaming` of the three backends, told apart by `backend`: strict or
lossy decoding (`Decoded`), server-sent events or one JSON object per line
(`EventOf`). The server's `body` comes in chunks of any size (`Read`) that may
end inside a line or a character; `TakeLine` is one turn of the inner loop, up to
the send, `SendText` the awaited send, `EndOfStream` everything that ends the
outer loop. A body is made of the few bytes the reader tells apart. `served` is
a ghost: the body read whole, character by character (`Served`, a fold of
`ReadChar`); `split` remembers that a chunk ended inside a character.

### ShadowSetup, ShadowRules, ShadowAnalysis

`ShadowSetup` is where an engine's configuration comes from: the file
(`file`: absent, unreadable or JSON with some of the fields), a user's `Edit`,
`SaveTruncate` and `SaveWrite` (the two halves of `std::fs::write`), a `Crash`
between any two steps, and `reload_config`, which rebuilds the reviewer and the
sandbox from what it loads. `ShadowRules` holds the rule tables and the two
mappings from scanner to report. `ShadowAnalysis` adds what the stages compute on
one output, line by line: `extract` is a fold over lines, `StaticAnalyzer` scans
the blocks and then matches the tables in the output and again in each block,
`Prompt` is what the reviewer is shown, `LlmReviewer` what is made of its answer,
`Report` the report. Which rules match a line is the constant `Hits`. The two
modules that are extended by `ShadowProofs` beside `ShadowEngine` name their
specification apart: `SetupInit`, `AnalysisInit`, `AnalysisNext`, `AnalysisSpec`.
A piece of evidence that is too long and has a character across the cut
(`CutInside`) is a panic: of the static stage or of the reviewer's, and the task
is then `Died`, without report or prompt. `DependencyAnalyzer` and
`SecretsAnalyzer` are public but run by no stage: of them there are the rules,
which `AllTablesReported` asks for.

### ContainerSandbox, ContainerSandboxProofs

Each analysis detects the runtime through the process-wide cell (`DetectStart`,
`Ask`, `Begin`; others wait while one asks), then takes its blocks one by one:
`Spawn` or, where the client cannot be started, `SpawnFails`; then `Exited` (which
starts "rm -f") and `Removed` (when that has ended: what the block shows, or
"died" where the evidence is cut inside a character), or `Timeout`, which returns
before the removal. The client, the daemon
and the programs are the environment: `Started`, `PullFails`, `ProgramEnds`,
`Flip` (a daemon starts or stops). `timeout(1)` sends SIGTERM and nothing after it,
so a program that takes notice of it ends at the time to live, and a `stubborn` one
in its own time (`Allowed`), whether a client still waits for it or not. `Tick`
passes no timer of a task, and none of a program. `Ask` and `Removed` await
commands of the runtime for which no timer is set (`Awaited`).

### CommandRules, GlassboxRules, Confinement, Containment, ContainmentProofs

`CommandRules` is Ironclad's validation over tokens: `Segments` is a fold of
`Split` over a line, `Opened` takes the three kinds of opening mark off in the
code's order (`Trimmed`, once each), `BinaryOf` passes over assignments. A line is
given as what a shell makes of it, any marks in any order between and before its
commands, line feeds and lone "&" among them, and substitutions within arguments;
the code sees its tokens. `Recognised` are the commands in a form it knows.
`GlassboxRules` is Glassbox's over words and over paths as sequences of names, with
the file system's resolution (`Walk`) as the environment's. `Confinement` takes a request to a
running process: `Judge` (the deep validation of a line), `Build` (the
configured entry point validates, a provider asked directly does not), `Fork`,
then on Linux `apply_prctl`, `apply_network_isolation`, `apply_rlimits`, each
with its failure, and `Exec`; on Windows `CreateJob`, `LimitJob`, `OpenProcess`,
`AssignJob` afterwards. `Log` is another thread that takes and releases the
lock of the log: a child forked while it is held never gets it. `Containment`
composes both crates: a line is judged by Glassbox, then by Ironclad; a write is
judged (`JudgeWrite`) and done later (`Write`), and changes what later paths
resolve to. A file that is not there is judged by its name and may be named through
a link; `ZonesStand` says what holds none the less, `ZonesSealed` what does not. `Confinement`'s own initial states and variables are named apart
(`ConfinementInit`, `confinement`), as `ContainmentProofs` extends both it and
`RateLimiter`.

### Vectors, VoiceFilter, VoiceDna, PersonaExtractor, Persona

Four modules of operators and one of actions. `Vectors` is what the crate does
with a `Vec`: `truncate`, `filter`, and the stable `sort_by` as ranks, which the
proofs can reason about. `VoiceFilter.check` applies the
six layers in the code's order to a sequence of tokens, among them two for white
space: an empty line ("para") and any other ("blank": a line feed, leading or
trailing blanks). Single blanks that mending leaves at an end are not told apart; `VoiceDna.record_success`
finds, counts and caps phrases; `PersonaExtractor.extract` orders and cuts the
samples, reads the answer (`Fate`: ok, error or a panic: the common prefix is cut
inside a character, `Straddling`, or the answer's "}" stands before its "{"), holds
its examples against the samples by the words as they are compared (`Cleaned`: lower
case, letters and digits, two bytes at least) and scores the result.
`Persona` puts them in the order the crate's documentation does: `Extract`,
`Check`, `Success`, `Export`, `Refresh`, and `Reopened` for a new session, which
starts from what was written back. Its specification is named apart
(`PersonaInit`, `PersonaNext`, `PersonaSpec`, `personaVars`), as `LearningProofs`
extends both it and `Cortex`.

### EditPatterns, Cortex, LearningProofs

`EditPatterns.PatternsOf` is what the detector sees in one edit (lengths, first
sentence, phrases, tone) over sequences of tokens; `TrackEdit` keeps it, and
`Detected` counts. An edit with a character across the 80th byte of one of its texts
(`Severed`) makes the detection panic when a frequent pattern would show it as an
example; nothing is detected then. `Learn` and `LearnNothing` are the outcomes of `learn_from_edit` (the wall clock
reading is an arbitrary time: `Utc::now` may be set back), `WithInstructions`
loads a list into a Cortex in use, `Restart` exports and reloads, `TrackEdit`
tracks an edit. `Added` is `InstructionStore::add`: the first resembling instruction is
reinforced, else push and cap. A text is its set of words, so `word_overlap` is
computed, not assumed. Operations need `&mut self`, so they do not overlap.

## 3. Runs

| run | instance | distinct states | shows |
|---|---|---|---|
| `rate_limiter` | 2 callers, 3 tools (one both write and shell), window 2, clock to 3, 5 calls | 36 000 | the pruned table stands for the whole history; every limit is exceeded by at most the other callers; implements `SlidingWindow` |
| `shadow_engine` | 2 submissions, 3 configurations, channel of 1, store of 1, a repeated finding with another severity, every stage may panic | 69 000 | stream and report agree, Done after the store, `ReportLog`, and Done is delivered unless a stage panics or a runtime never answers |
| `psyche` | both entry points, 7 messages on each side of every threshold, 6 kinds of verdict text, channel of 2, 2 chunks | 70 000 | a block is heeded, the stream is readable at any speed, `GatedReply`, callers answered |
| `watchdog` | poll 2, `ps` up to 1, sustained 4, wall time 9 | 487 000 | exact reaction times to what `ps` shows, no kill for spikes, a cancellation that holds |
| `cortex` | store of 2, 5 texts whose resemblance is not transitive, 2 lists to import, 5 additions, 4 edits of which 3 are tracked | 415 000 | no near duplicates, counts accounted for, weakest forgotten, a restart changes nothing, untouched texts hide no pattern |
| `stream_reader` | 5 bodies with two-byte characters, blank and skipped lines, text behind the end mark, an unfinished last line; chunks of up to 5 bytes; channel of 1 | 2 100 | the texts are told in order, none behind the end mark, none lost unless a chunk cut a character; the task ends |
| `shadow_analysis` | every output of up to two lines, and outputs of up to five around one block; evidence cut inside a character; 2 files, 2 given configurations, 2 servers, 2 answers | 34 000 | sane settings after any file, save or crash; parts that agree after any reload; a match of the static stage is reported once though seen three times; the reviewer sees every line of a block |
| `container_sandbox` | 2 analyses, 5 blocks, 2 runtimes, one daemon that starts or stops, a program that ignores SIGTERM and has its evidence cut inside a character; time to live 2, grace 1 | 103 000 | an analysis that ends has found what its programs show; one answer about the runtime; every analysis ends unless "rm -f" holds it for ever |
| `confinement` | 2 requests, 4 platforms, 32 command lines of one to four commands, 8 of them with forms the validation does not know, 9 ways to name a file around one zone with a link into it | 70 000 | what runs has what its platform promises; no blocked command in a recognised form is let through; handles are balanced; a file in a zone is not written to; a quiet spawn ends |
| `persona` | 3 configurations, the default one among them, with all drafts of up to 3 tokens and 13 longer ones; 2 users who record, write back, refresh and restart, with room for 3 phrases | 21 000 | what passes is fit, one count per phrase, phrases lost to stronger ones only, scores are the samples' |

Why these bounds suffice for the cases that matter. A second caller is enough
for the gap between check and record (the excess grows by one per caller, which
is proved for any number). Channels and stores of one or two entries are full,
evicting and empty within a few steps, so the rare case in production is the
common one here. The tools include one that is in both classes; the texts of
Cortex include a chain A-B-C in which A and C do not resemble; the messages sit
on both sides of 79/80, 99/100 and 299/300. The watchdog's wall time and
sustained time are no multiples of a turn of its loop, and each bound its
properties state is reached: with any of them one tick smaller the run fails.
The outputs of the analyzers hold a line both a scanner rule and a table match,
its repetition inside and outside a block, and blocks left open; the reviewer's
limit is one line or eight. A container's start may take less, all or more of the
client's time; a program may take less, all or more than its own. The command
lines hold each way to open a command, assignments,
upper case, each separator and a piped shell, and for each form that the validation
does not know a line with it, alone and beside commands that it does know; the
writes name a file in the zone plainly, by "..", through a link, before and after it
is there. White space of both kinds stands at every place of the short drafts.

The definitions `TypeOK` of the modules are not part of the runs where the other
properties would fail first; type correctness is proved for RateLimiter,
Watchdog, ShadowEngine, Psyche, ContainerSandbox and Cortex (`TypeCorrect`), for
the stream readers (`StreamTypeCorrect`), and for Confinement as the first
conjunct of its inductive invariant.

Two runs are expected to be violated; each states what a comment in the code says
and the code does not do (`findings` quotes them):

| run | what the comment says | what the code does |
|---|---|---|
| `ollama_retry` | transient connection errors are retried once | the test reads the outermost message only, so a refused connection is not |
| `stream_split` | the text is yielded as it arrives | in the OpenAI reader, and the Anthropic one alike, a chunk that ends or begins inside a character is skipped whole, its events are lost and half lines join (Ollama's replaces the character and loses no chunk) |

Six more statements of the documentation do not hold. Each is a definition beside the
properties it concerns, without a run of its own; TLC finds each violated when it
is given as the INVARIANT of its component's configuration:

| definition | what the text says | what the code does |
|---|---|---|
| `AllTablesReported` (ShadowAnalysis) | `README.md:26` lists "static", "secrets" and "dependency" in the Shadow's pipeline, `docs/src/layers/shadow.md:11` and `:17` put secrets and supply chain attacks into its first stage | the engine builds and runs the StaticAnalyzer alone; a line that only the other two tables match is in no report, and `EachMatchOnce` is about the static stage |
| `PromptWithinLimit` (ShadowAnalysis) | `laminae-shadow/src/config.rs:75`: "Maximum characters of output to send to LLM reviewer." | the output is cut to it, the code blocks taken from it are sent in full beside it, which is what `ReviewerSeesCode` rests on |
| `SubshellsJudged` (Confinement) | `laminae-ironclad/src/lib.rs:283`: "catches piped commands, subshells, etc.", and so `crates/laminae-ironclad/README.md:54` and `docs/src/layers/ironclad.md:23` | a blocked program in a subshell written tightly, `(curl)`, is let through; so are the forms listed below |
| `ZonesSealed` (Containment) | `laminae-glassbox/src/lib.rs:406`: "Canonicalizes the path first to prevent symlink bypass attacks.", and so `:11` and `crates/laminae-glassbox/README.md:12` | canonicalize fails for a file that is not there yet; one in a directory that is a link into a zone is judged by its name, and written into the zone |
| `ForceKilled` (ContainerSandbox) | `laminae-shadow/src/config.rs:67`: "TTL in seconds before sandbox container is force-killed.", and so `docs/src/layers/shadow.md:29` | the program is sent SIGTERM, once; one that ignores it runs on, and when the client is given up nothing removes the container |
| `ExamplesCopied` (Persona) | `laminae-persona/src/model.rs:106`: "Representative example texts (exact copies from samples).", and so `extractor.rs:125` and `:306` | one that shares its beginning or most of its words with a sample is kept as the model wrote it |

Other places where code and text differ, visible in the models:

- `laminae-glassbox/src/lib.rs:13` says rate limits cannot be exceeded by
  splitting calls; callers between check and record exceed them, one each
  (`Overshoot` proves that it is no more).
- `extract_block_reason` takes the word anywhere in the verdict, not as a prefix
  (`Blocks` of Psyche).
- `laminae-cortex/src/lib.rs:140` says a learned instruction is added to the
  store; a full store of reinforced ones drops it at once (`Capped`), and "drop
  oldest" (`store.rs:60`) is "drop the least reinforced, then the oldest".
- `sandbox/linux.rs:40` says only async-signal-safe functions run between fork and exec;
  a failing `unshare` is logged there (`apply_network_isolation`), which is why
  `QuietSpawnEnds` speaks of quiet spawns.
- `laminae-persona/README.md:89` says that the filter strips an opener ("The post
  highlights..."); its pattern is anchored at the first character, and white space
  of any kind before the opener hides it. Where a later layer trims the text, what
  passed then begins with the opener (`PassedIsFit` excepts the drafts that begin
  with white space).
- Beside `(curl)`, the command validation lets through a blocked program in a
  substitution among the arguments (`git $(curl x)`), behind a lone `&`, behind
  `|&`, on a second line, and behind marks in another order than the code strips
  them (`$( (curl`). `EveryCommandJudged` speaks of the commands in the forms the
  code knows (`Recognised`), in lines that may hold any of these forms as well.
- `laminae-ironclad/README.md:36` says that thresholds are exceeded "for a
  sustained period" before a kill; the memory threshold kills at one sample
  (`JudgeMemory`).
- The CPU threshold is held against the %cpu of `ps`, which is no present load, on
  Linux an average over the lifetime; and where the locale prints a comma the figure
  does not parse and counts as 0. `OveruseKilled` speaks of what `ps` shows.
- The watchdog kills "the process tree", which is the process group of the pid;
  nothing in the crate makes the process lead one.
- The Linux provider's restricted policy is best effort (a failed `unshare` of the
  network leaves the process connected), and on macOS the policy without network
  still admits local and whitelisted hosts. `RunsAsPromised` claims neither.
- Of the dangerous patterns, the ones with capital letters (a Perl one-liner's
  `use Socket`) are compared with a lower-cased text and match nothing; neither does
  a pattern of the Glassbox configuration that has capital letters (the tests call
  this a known limitation).
- `reload_config` asks the default server from then on, whatever the engine was
  given (`Reviewer(new_config, DefaultServer)`).
- The repository's `README.md:123` says that testing in containers is not wired; it is
  the engine's third stage, as configured.
- Nothing reads `auto_heal_threshold`; nothing detects `SimplifiedLanguage`.

`CHECK_DEADLOCK FALSE` is set where the system really stops: submissions,
requests, streams, analyses and watchdogs end, and the rate limiter's clock and
calls are bounded. `Cortex` and `Containment` never stop and are checked for
deadlock.

## 4. Fairness

- Shadow: a task that can take a step eventually does (the runtime polls it, the
  reviewer's HTTP client has a timeout), but for the sandbox stage
  (`~ AwaitsRuntime(s) /\ TaskStep(s)`): that one awaits a container runtime
  under no timer, and may stay for ever. `DoneDelivered` therefore speaks of
  tasks that come out of that stage whenever they are in it, and `ReportLog` of
  submissions that are not held. The caller that holds a receiver keeps receiving,
  which the property speaks of ("a caller that does not leave").
- Psyche: weak fairness of the task, of each agent's call (the HTTP client has a
  timeout, so a request ends), of the Ego's backend (assumed to answer: a
  backend is the application's) and of a caller that keeps its receiver. No
  fairness for `CopTimeout`, which may never be needed.
- Watchdog: weak fairness of the task's steps and of the clock, none of the world's; its
  properties are safety and need none. That a deadline is met is said by the
  clock, which does not pass it (`Tick`). For the sleep that is the runtime's
  promise. For `ps` it is an assumption on the environment: the code awaits it
  without a timeout (`laminae-ironclad/src/lib.rs:563`), and the bounds hold
  as far as it answers within `MaxSample`.
- Stream readers: weak fairness of the task, of the network (the HTTP client's
  timeout ends every body) and of a caller that keeps its receiver. None for the
  caller leaving.
- Container sandbox: weak fairness of a task's own steps (`Own`), of the end of a
  program whose time is over (`ProgramEnds`; a stubborn one has a long time) and of the
  clock; none of what is awaited under no timer (`Ask`, `Removed`) and none of the
  daemon's starts. `AnalysesEnd` speaks of analyses that do not hang in "rm -f".
- Confinement: weak fairness of a request's fork and of its steps in the child,
  which the kernel schedules; none of a caller, of `Log` or of the Job Object.
- Rate limiter, Cortex, Shadow analysis, Persona: safety only, no fairness.

## 5. Proofs

TLAPS checks all of the following, for every value of the constants that
satisfies the assumptions named in the modules; nothing else is assumed. TLC
evaluates each assumption on a run. What they say:

- `ConstantsAssumption` (six modules), `SandboxAssumption`: lengths, limits and
  durations are natural numbers (positive where the code's constant is), sets of
  inputs have the shape of their types, markers such as `Never` are no times.
- `HostsAssumption`: "elsewhere" is no whitelisted host.
- `FileSystemAssumption`, `WritePathsAssumption`: the working directory is a
  directory, a link leads to a directory, a zone is not the empty path, a path
  that is written to has a last component.
- `LinesAssumption`: a line matches finitely many rules, a blank one none.
- `LowerAssumption`: letters only have another case, so a mark is its own lower
  case and of nothing else, and "=" stays.
- `CommandLinesAssumption`: a command line is what a shell makes of it: commands,
  each of them assignments, a binary, arguments, with any marks between and before
  them, in any order. It rules out no form of command; which ones the
  validation knows is `Recognised`, a part of what is claimed.
- `FilterAssumption`: no opener is a mark. `UsersAssumption`, `AnswersAssumption`,
  `DnaAssumption`, `ExtractorAssumption`, `SuccessesAssumption`: types, and limits
  that are positive as in the code.
- `RecommendedAssumption`: no more than 6 samples are recommended (the code's 5).
  With more, two samples could pass for near certainty, and `ScoresHonest` fail.

**SequenceLemmas** holds what the proofs about sequences share. The least
element of a set of naturals (`Least`, from the library's well-founded
relations) does the work of induction, which the provers cannot apply: whoever
wants P for all n takes the least n for which it fails. With it `FoldExists` and
`FoldPrefix` unroll a left fold into its table of partial results,
`Flattened`, `FlattenedElements`, `OffsetsExist` do the same for sequences laid
end to end. Cortex, the analyzers, the path resolution, the command lines and
the stream readers are folds, and rest on these. That laying end to end commutes
with concatenation (`FlattenedConcat`, `SpreadConcat`), also twice over
(`SpreadTwice`), and what a prefix keeps (`PrefixPlaces`, `PrefixConcat`) is what
the stream readers need beyond that.

**ContainmentProofs**, the rate limiter. `TypeCorrect`; `TableExact` (`TableMatchesHistory`);
`Overshoot` (`OvershootBounded`); `TableSize` (`TableBounded`);
`SequentialExact` (one caller never exceeds a limit) and the refinement of
`SlidingWindow`. Neither bound is inductive: the table is compared with the
history through `TableInv` (window, table and history are nested), and what is
counted is entries *plus pending answers* (`ScopeInv`). An admission needs room
in the table but may find answers already pending, at most one per other caller;
recording turns a pending answer into an entry and leaves the sum alone. The
abstract window's guard follows from the sum.

**WatchdogProofs.** All safety properties of the `watchdog` run (`Overuse`, about
`OveruseKilled`, is `Runaway` and `Big` together) and type correctness. What they
say of CPU and memory they say of the figures of `ps`: how soon a load shows in a
figure is no matter of this code, and nothing is claimed of it. `IInv`
bounds, for each event of interest, how long ago it can have been *given where
the task stands in its turn* (`Within`): before the sleep, in the sleep, and
while asking and judging, each turn adding one sleep and one sample. For CPU,
`HotInv` has three parts: a figure that is high and not yet in a run became so at
most a turn ago; once in a run, the run began within a turn of that; and if the
sample under way is cool, the figure rose after it was read (`Unread`), which is
why a cool sample judged late costs one more `MaxSample`. `RunInv` bounds the
run itself by the sustained time and one turn. The bounds of the properties are
sums of these. `IInv` was also model-checked on several values of the constants.

**ShadowProofs**, the engine. `DoneIsStored` (`DoneMeansStored`) and
`StreamTold` (`StreamTellsReport`) for any number of tasks, any capacities and
whatever the stages return, and `Logged`: initial states and steps of the engine
are those of `ReportLog`, the safety half of `ImplementsReportLog`: at most one
report for each submission, none for one that a panic has taken. A Done is
about the store at the time it was sent, and may be anywhere on its way, so the
invariant speaks of outbox, channel and receiver alike (`BackedInv`: each Done
is about a report that was pushed) and of the store as the last part of all that
was pushed (`StoreInv`). For the stream, `TellsInv` follows the keys of the
findings: while a task works, what it has said is the keys it holds
(`Underway`); `StoreReport` drops repeated findings but no key (`KeysStay`), so
what it then queues concludes what was said (`Concluded`). That a send moves an
event from outbox to channel leaves the concatenation alone (`SentAlong`).

**ShadowProofs**, the configuration and the analyzers. `LoadedIsSane`
(`SaneWhenLoaded`) and `AgreeAlways` (`PartsAgree`) need no more than that an
engine always has its parts (`SetupInv`), but cover every file, crash and
reload. `CodeIsSeen` (`ReviewerSeesCode`) and `MatchedOnce` (`EachMatchOnce`) are
about what is computed, for outputs of any length, where the task has not died of
a slice. `MatchedOnce` is about the findings of the static stage, which are those
of the one analyzer that the engine runs on its own; the reviewer's and the
sandbox's are beside them. `Scanned` is the invariant of
`extract`'s loop: the reader is in a block exactly behind an odd number of
fences, what it holds is the lines since the last one, and every line of a closed
block that is not blank is in a block that was kept. `EachMatchOnce` then is
three equations of key sets: a table finds in the output and again in its
blocks what its rows say of the output's lines (`EachTargetYields`), the
scanner's rules find what they say of the lines of code (`BlocksYield`), and
`dedup_findings` keeps one finding per key and drops no key (`DedupKeys`).

**PsycheProofs.** `Heeded` (`VerdictHeeded`), `Readable` (`StreamReadable`),
and `Gated`, the steps of `GatedReply` for both entry points. That a block is
heeded follows from `JudgedInv` (the Ego is past only where there was no verdict
to wait for or one that does not block; a caller that stays and was not answered
was blocked), which needs `CallInv` (a call has a text only when it is over) and
`VerdictStands` (then its text stays). The stream needs to know what has been
told at *each* point of the task (`StreamInv`), over the concatenation of
receiver, channel and outbox (`Told`), as the events of a phase are queued before
the next one and received whenever the caller likes. In the refinement the mapped
verdict is that of the Superego's text when its call ended, although `Settle`
reads it later: `VerdictSteps` shows that it is given once.

**ContainmentProofs**, the two crates. `Promised` (`RunsAsPromised`) and `Balanced`
(`HandlesBalanced`): `ChildInv` says for each point between fork and exec what
the child has got by then, `JobInv` what the program holds at each point of an
assignment; the properties speak of the ends of these ways only and are not
inductive. `ZonesKept` (`ZonesStand`), for every file system with links to
directories: a path is judged in one state and written in a later one, so the
invariant keeps of the judgement what later files cannot change. Resolution is a
fold over the components; `ResolvedUpto` shows that it goes through directories
only, all of them there before, and `PlacePlain` that a plain path is where it
says. `HeadsJudged` (`EveryCommandJudged`), for the commands in recognised forms
of every line of `CommandLines`, of any length and with whatever else in it: what
follows a separator up to the next one is a stretch of the line
(`CommandIsStretch`), `Segments` has each such stretch for a piece
(`StretchIsPiece`, on the partial results of the fold), stripping the marks and
the assignments off it leaves the binary (`OpenedFrom`, `BinaryFrom`), so it is
among those looked at (`HeadsAreJudged`); lower case commutes with all of it.

**ContainerSandboxProofs.** `Agreed` (`AllAgree`), from `CellInv`: the cell is
settled once, before anybody starts a block; `FoundRight` (`FoundIsWhatRan`), from
`OrderInv` (blocks are taken in order and none that can be run is passed over),
`EndedInv` (while no daemon has started or stopped, a client that has ended did so
as its program does) and `FoundInv`, which relates what has been found to the
outcomes so far. `TypeCorrect` says no more than the types. No
theorem bounds the time of a program: the code does not (`ForceKilled`).

**LearningProofs**, Cortex. `NoTwoAlike`, `AccountsKept`, `WeakestForgotten`,
`RestartHarmless`, `UneditedHarmless` (an unedited text is never shown, so it brings
no panic either): all five properties of the run, for every
notion of resemblance `Duplicate` computes (which is not transitive), every size
and every imported list. The first is kept because `Added` reinforces the *first*
instruction that resembles the new one and only pushes one that resembles none.
What a full store then drops is its weakest, which may be the new one, so `Grew` states what a sequence of
additions does to a store (no smaller, no near duplicates, the counts unless it
is full, and nothing forgotten but for what is no weaker) and is shown of one
addition, then of a list (`IsGrowth`). The counts are sums over a fold;
`Draws` compares two of them by an injection between their indices, as reinforcing,
cutting and reordering permute or drop counts.

**LearningProofs**, Persona. All four properties of the run. `Inv` says that a persona is
what `extract` makes of the samples it was `given`, with phrases of its own, and
of each phrase written to it that it `Relies` on the open VoiceDna: the phrase is
there, confirmed no less often, or as many phrases as there may be are, none of
them confirmed less often. Only with the second half is `DnaOnlyCut` a matter of
one step (`Export` writes what is open), and only because the persona's own
phrases have it too does a refresh or a new session keep it.

- *Phrases* (`TwinsNever`, `DnaKept`). A text confirms a list of phrases one after
  the other (`IsConfirming`, the partial results of the fold): no phrase moves or
  loses a confirmation, new ones have no twin (`ListGrows`). Then they are sorted
  and cut (`CappedFrom`, on `SortedBy`: ranks by key and place are a permutation,
  so a stable sort is one), which drops only what is no stronger than all it
  keeps; `CapKeepsFaith` composes the two.
- *The filter* (`PassedFit`). A lemma per layer says what it does to the severity,
  which only grows (`Raises`), and to the text. What passes therefore went through
  with less than severity 2 at each layer (`PassedWentThrough`): no phrase of the
  vocabulary in the draft and no opener at its first character (`Opens`; behind white
  space one may be, and the exception is exactly that), and what is left is a
  stretch of the draft in which dashes were mended (`IsWindow`, `IsAlike`). A phrase in it
  that was not in the draft has a full stop that mending put there. The number
  of sentences is bounded by the number of terminators kept by an injection from
  sentences to their ends (`SentencesEnd`, `EndBetween`), with the case of a text
  that ends without one apart (`KeptIsShort`).
- *Scores* (`ScoresHold`). Percentages rounded down: `Quotient` turns each division
  into an inequality of products, `ConfidenceFits` and `SimilarityFits` are then
  linear. That similar means equal needs both parts of the mean to be full, and
  a full share that nothing lies outside the common part (`InCommon`).

**StreamReaderProofs.** `StreamTypeCorrect`, and `StreamCorrect` (`ToldIsServed`),
for every body, every way to cut it into chunks, every channel and all three
backends. The property says nothing of the buffer and the bytes to come, so it is
not inductive. What is, `StreamInv`, says that the texts told, the buffer and the
rest belong together: whoever has been told so much and reads on in what is
buffered and what is still to come is told the texts served (`Exact`). Three facts
keep it. Decoding a chunk that ends between characters commutes with cutting it
off (`LossyConcat`); reading one text and then another is reading both
(`ReadConcat`); and a turn of the reader's inner loop tells what the fold makes of
that line (`LineTold`). A chunk that ends inside a character breaks the first, so `Exact`
ends with the first such cut. Ollama's reader goes on, and there `Nearly` says the
same of a coarser reading: each character of two bytes is widened to the two
replacement characters a cut would make of it (`Wide`, `Plain`). So widened, cuts
make no difference at all (`WideLossy`, `PlainConcat`), and reading commutes with
widening (`WideRead`), as no such character is part of a line's frame; what is
told is then the texts served up to those characters (`LettersFollow`). `Turns` adds
where the end mark and the last line end stand when the task ends, so that
nothing complete is left behind (`NothingLeft`). TLC checked `StreamInv` on the
`stream_reader` instance before it was proved.

**Out of the prover's reach, and left to TLC:** liveness under fairness
(`Ends`, `Answered`, `DoneDelivered`, `QuietSpawnEnds`, `AnalysesEnd`, the fairness
part of `ImplementsReportLog` and `ImplementsGatedReply`). Every other property of
the passing runs has a theorem. The two runs that are expected to be violated
have none to have.

## 6. Not modelled

- Wording: prompts, log lines, `compile_persona`, building requests and parsing
  error bodies. Formatting without state.
- Bytes. Texts are sequences of words or lines, and lengths are counted in them.
  Slices at byte offsets panic inside a character, and each place is one of these:
  - modelled as an outcome: in the Shadow `analyzer.rs:719`, `scanner.rs:233`,
    `llm_reviewer.rs:174` and `sandbox.rs:355` (evidence cut to a length) are
    `StagePanic`, and one by one `CutInside` of the analyzers and `cut` of a
    container's block; in Cortex `detector.rs:268` (`Severed`); in Persona
    `extractor.rs:349` (`Straddling`) and `extractor.rs:391`, a range that ends
    before it begins ("backwards").
  - not modelled: `analyzer.rs:434` and `:436` (`redact_secret`, in the secrets
    analyzer, which nothing runs); `sandbox.rs:342` to `:347` and Psyche's
    `prompts.rs:261`, which apply an offset found in a lower-cased text to the text
    itself, and so may cut elsewhere or panic where lower case has another length;
    Cortex' `learner.rs:93`, which cuts the texts of the edits for the prompt.
  Every other slice of these crates is at an offset found in the same text, or at a
  boundary that is looked for first (`laminae-glassbox/src/lib.rs:565`).
  Regular expressions are constants that say what they match.
- Widths. `source_count` of an instruction is a `u32`, in the model a natural
  number; nobody confirms one four thousand million times.
- A limit of zero calls is in no run (a theorem, `Overshoot`, covers it). `PartsAgree`
  compares settings, not the server that is asked (see the list in section 3). A list
  of phrases that has twins already, handed to `VoiceDna::new`, keeps them;
  `NoTwins` is about what the operations make. A voice is "the same" to
  `ScoresHonest` as to the code: by its tone words and its style, not by the other
  fields.
- What the kernel, a container runtime, a file system or a language model does
  beyond the outcomes the code tells apart. What a restriction then achieves is
  the kernel's.
- `is_available`, `has_model` and the backends' `complete` without streaming:
  single requests without state or retry. `recent_reports` takes a copy under the
  read lock. `set_config` and `set_extra_context` of the Psyche need exclusive
  access and cannot overlap a request. `get_prompt_block` reads the store. A pid
  that does not fit the system call's type is only logged.
- A stream that is cut short ends like a complete one; the caller cannot tell,
  and no property says it should.
- The Python bindings, the umbrella crate, the examples and the benchmarks:
  conversions and re-exports.

## 7. State

Every component with state is modelled and checked, every safety property of the
passing runs is proved, and the steps of the three refinements are. What is left:

- One hazard has no property (`laminae-ironclad/src/lib.rs:542`): a `ps` that fails
  once is taken for the end of the process, and the watchdog stops. The bounds of
  the run hold while the process is watched; nothing says that it stays watched,
  because it does not.
- Liveness stays with TLC, on small instances.
- The thinner backends, `complete` without streaming and request building, would
  be worth a model if they came to retry or to keep state.
