------------------------------- MODULE Confinement -------------------------------
(* laminae-ironclad from a request to a running process: validation, the       *)
(* command a platform's provider builds, what the child does between fork and  *)
(* exec, and the Job Object a caller assigns afterwards on Windows.  Threads   *)
(* of the program that log at the same time, the kernel and the programs are   *)
(* the environment.  Containment puts these actions behind laminae-glassbox.   *)
EXTENDS CommandRules

CONSTANTS
  Requests,   \* concurrent requests for a process
  Binaries,   \* the binaries asked for
  Policy,     \* Policy[r]: "config" (validated), or the policy of a profile of its own
  Config,     \* the IroncladConfig
  CommandLines, \* each the sequence of its commands: what comes before a command,
              \* the marks that open it, its words and its binary
  Program,    \* Program[w]: the program a shell starts by the word w in lower case,
              \* without what is closed, quoted or redirected in the same word
  Platforms,
  Environment \* the variables of the program

\* "elsewhere" stands for every host that is not whitelisted.
Hosts == {"localhost", "api", "elsewhere"}
ASSUME HostsAssumption == Config.whitelisted_hosts \subseteq Hosts \ {"elsewhere"}

\* What a shell reads as one command: assignments, the binary, its arguments.
IsCommand(c) ==
  \E h \in DOMAIN c.words :
    c.words[h] = c.binary /\ \A j \in 1..(h - 1) : c.words[j] \in Assignments

\* A command line, of the marks a shell knows: one in the arguments of a command
\* begins the next.
ASSUME CommandLinesAssumption ==
  \A shell \in CommandLines :
    /\ shell \in Seq([before : Seq(Separators \cup OtherMarks), open : Seq(Openers \cup OtherMarks),
                      words : Seq(DOMAIN Lower \ CommandMarks),
                      binary : DOMAIN Lower \ (CommandMarks \cup Assignments)])
    /\ \A i \in DOMAIN shell : IsCommand(shell[i])

Paths == {"project", "temp", "home", "elsewhere"}

VARIABLES
  platform,
  pc,       \* where a request is
  child,    \* how its process is confined
  job,      \* Windows: the job of the process, and the handles the program holds
  logging,  \* another thread holds the lock of the log
  line      \* the command line a request was let through with

confinement == <<platform, pc, child, job, logging, line>>

Unconfined ==
  [binary |-> "none", no_new_privs |-> FALSE, isolated |-> FALSE, env |-> Environment, piped |-> FALSE,
   log_locked |-> FALSE, profile |-> FALSE, current_dir |-> "elsewhere"]

NoJob == [handles |-> {}, limited |-> FALSE]

ConfinementInit ==
  /\ platform \in Platforms
  /\ pc = [r \in Requests |-> "idle"]
  /\ child = [r \in Requests |-> Unconfined]
  /\ job = [r \in Requests |-> NoJob]
  /\ logging = FALSE
  /\ line = [r \in Requests |-> << >>]

Go(r, from, to) == pc[r] = from /\ pc' = [pc EXCEPT ![r] = to]

PolicyOf(r) == IF Policy[r] = "config" THEN "restricted" ELSE Policy[r]

--------------------------------------------------------------------------------
(* Validation                                                              *)

Flat(shell) ==
  FlattenSeq([i \in DOMAIN shell |-> shell[i].before \o shell[i].open \o shell[i].words])

\* A caller that has a whole command line asks about it before anything else.
Judge(r, shell) ==
  /\ pc[r] = "idle"
  /\ IF validate_command_deep(Flat(shell), Config) = "ok"
     THEN Go(r, "idle", "judged") /\ line' = [line EXCEPT ![r] = shell]
     ELSE Go(r, "idle", "refused") /\ UNCHANGED line
  /\ UNCHANGED <<platform, child, job, logging>>

--------------------------------------------------------------------------------
(* The command                                                             *)

apply_common(c) == [c EXCEPT !.piped = TRUE, !.env = @ \ Config.scrub_env_vars]

SeatbeltProvider(c) == apply_common([c EXCEPT !.profile = TRUE])
LinuxSandboxProvider(c) == apply_common(c)
WindowsSandboxProvider(c) == [apply_common(c) EXCEPT !.current_dir = "project"]
NoopProvider(c) == apply_common(c)

Sandboxed(c) ==
  CASE platform = "macos" -> SeatbeltProvider(c)
    [] platform = "linux" -> LinuxSandboxProvider(c)
    [] platform = "windows" -> WindowsSandboxProvider(c)
    [] OTHER -> NoopProvider(c)

\* sandboxed_command_with_config validates; a provider asked directly does not.
Build(r, binary) ==
  /\ pc[r] \in {"idle", "judged"}
  /\ line' = [line EXCEPT ![r] = << >>]
  /\ IF Policy[r] # "config" \/ validate_binary(binary, Config) = "ok"
     THEN /\ Go(r, pc[r], "built")
          /\ child' = [child EXCEPT ![r] = Sandboxed([@ EXCEPT !.binary = binary])]
     ELSE Go(r, pc[r], "refused") /\ UNCHANGED child
  /\ UNCHANGED <<platform, job, logging>>

\* Only the thread that forks lives on in the child: a lock held by another one is
\* held there for good.
Fork(r) ==
  /\ Go(r, "built", IF platform = "linux" THEN "prctl" ELSE "exec")
  /\ child' = [child EXCEPT ![r].log_locked = logging]
  /\ UNCHANGED <<platform, job, logging, line>>

--------------------------------------------------------------------------------
(* Linux: pre_exec                                                         *)

\* Mutant of apply_prctl: its failure is ignored.
apply_prctlLax(r) ==
  /\ Go(r, "prctl", "unshare")
  /\ \/ child' = [child EXCEPT ![r].no_new_privs = TRUE]
     \/ UNCHANGED child
  /\ UNCHANGED <<platform, job, logging, line>>

apply_prctl(r) ==
  /\ \/ Go(r, "prctl", "unshare") /\ child' = [child EXCEPT ![r].no_new_privs = TRUE]
     \/ Go(r, "prctl", "failed") /\ UNCHANGED child
  /\ UNCHANGED <<platform, job, logging, line>>

\* Mutant of AfterUnshareFails: everything is asked for again.
AfterUnshareFailsRetried(policy) == IF policy = "none" THEN "failed" ELSE "prctl"

\* Only the policy "none" insists.
AfterUnshareFails(policy) == IF policy = "none" THEN "failed" ELSE "rlimits"

\* The failure is logged by the child, which waits for a lock nobody will release.
apply_network_isolation(r) ==
  /\ \/ Go(r, "unshare", "rlimits") /\ child' = [child EXCEPT ![r].isolated = TRUE]
     \/ /\ ~ child[r].log_locked
        /\ Go(r, "unshare", AfterUnshareFails(PolicyOf(r)))
        /\ UNCHANGED child
     \/ child[r].log_locked /\ Go(r, "unshare", "hung") /\ UNCHANGED child
  /\ UNCHANGED <<platform, job, logging, line>>

\* setrlimit is not asked whether it worked.
apply_rlimits(r) ==
  /\ Go(r, "rlimits", "exec")
  /\ UNCHANGED <<platform, child, job, logging, line>>

\* The binary, or sandbox-exec on macOS, is there or the spawn fails.
Exec(r) ==
  /\ Go(r, "exec", "running") \/ Go(r, "exec", "failed")
  /\ UNCHANGED <<platform, child, job, logging, line>>

--------------------------------------------------------------------------------
(* Windows: assign_job_object_to_pid, called by whoever started the process *)

CreateJob(r) ==
  /\ platform = "windows" /\ pc[r] = "running" /\ job[r] = NoJob
  /\ job' = [job EXCEPT ![r].handles = {"job"}]
  /\ pc' = [pc EXCEPT ![r] = "limit"]
  /\ UNCHANGED <<platform, child, logging, line>>

\* Mutant of LimitJob: the job is kept when its limits cannot be set.
LimitJobLeaky(r) ==
  /\ Go(r, "limit", "open") \/ Go(r, "limit", "running")
  /\ UNCHANGED <<platform, child, job, logging, line>>

LimitJob(r) ==
  /\ \/ Go(r, "limit", "open") /\ UNCHANGED job
     \/ Go(r, "limit", "running") /\ job' = [job EXCEPT ![r] = NoJob]
  /\ UNCHANGED <<platform, child, logging, line>>

OpenProcess(r) ==
  /\ \/ Go(r, "open", "assign") /\ job' = [job EXCEPT ![r].handles = @ \cup {"process"}]
     \/ Go(r, "open", "running") /\ job' = [job EXCEPT ![r] = NoJob]
  /\ UNCHANGED <<platform, child, logging, line>>

\* The handle of the job is left open on purpose; a process that has ended cannot
\* be assigned.
AssignJob(r) ==
  /\ \/ Go(r, "assign", "running") /\ job' = [job EXCEPT ![r] = [handles |-> {"job"}, limited |-> TRUE]]
     \/ Go(r, "assign", "running") /\ job' = [job EXCEPT ![r] = NoJob]
  /\ UNCHANGED <<platform, child, logging, line>>

--------------------------------------------------------------------------------
(* The environment                                                         *)

Started(r) == pc[r] \in {"running", "limit", "open", "assign"}

Log ==
  /\ logging' = ~ logging
  /\ UNCHANGED <<platform, pc, child, job, line>>

Provider(r) == apply_prctl(r) \/ apply_network_isolation(r) \/ apply_rlimits(r) \/ Exec(r)
Job(r) == CreateJob(r) \/ LimitJob(r) \/ OpenProcess(r) \/ AssignJob(r)

Serve ==
  \/ \E r \in Requests, binary \in Binaries : Build(r, binary)
  \/ \E r \in Requests : Fork(r) \/ Provider(r) \/ Job(r)

--------------------------------------------------------------------------------

\* What a process can reach and write, from how it is confined.
Reaches(r) ==
  CASE child[r].isolated -> {}
    [] child[r].profile -> {"localhost"} \cup Config.whitelisted_hosts
    [] OTHER -> Hosts

MayWrite(r) == IF child[r].profile THEN {"project", "temp", "home"} ELSE Paths

\* Whatever fails on the way: a process that runs has what its platform's provider
\* promises without condition.
RunsAsPromised ==
  \A r \in Requests : Started(r) =>
    /\ child[r].piped /\ child[r].env \cap Config.scrub_env_vars = {}
    /\ platform = "linux" => child[r].no_new_privs
    /\ platform = "linux" /\ PolicyOf(r) = "none" => Reaches(r) = {}
    /\ platform = "windows" => child[r].current_dir = "project"
    /\ platform = "macos" => "elsewhere" \notin Reaches(r) \cup MayWrite(r)
    /\ Policy[r] = "config" => Bare[child[r].binary] \in Config.allowlist \ Blocked(Config)

\* Once an assignment is over, however it went, the program holds a job exactly for
\* the processes in one, and no handle of a process.
HandlesBalanced ==
  \A r \in Requests : pc[r] \in {"running", "failed"} =>
    job[r].handles = IF job[r].limited THEN {"job"} ELSE {}

\* The commands the validation knows for commands: the first, and what comes after a
\* separator; opened by parentheses, then substitutions, then ticks, with no white
\* space between them; by a word that ends where the name of the program does.
Recognised(shell, i) ==
  LET c == shell[i] IN
  /\ IF i = 1 THEN c.before = << >> ELSE c.before # << >> /\ Last(c.before) \in Separators
  /\ c.open \in Seq(Openers)
  /\ \A j, k \in DOMAIN c.open : j < k =>
       /\ c.open[j] = "tick" => c.open[k] = "tick"
       /\ c.open[j] = "dollar" => c.open[k] # "paren"
  /\ Program[Lower[c.binary]] = Bare[Lower[c.binary]]

\* A command line that is let through starts no blocked program by a command that is
\* known for one, wherever in the line it is, whatever is assigned before its binary
\* and in whatever case it is written, and whatever the other commands of the line are.
EveryCommandJudged ==
  \A r \in Requests : pc[r] = "judged" =>
    \A i \in DOMAIN line[r] :
      Recognised(line[r], i) => Program[Lower[line[r][i].binary]] \notin Blocked(Config)

\* What the documentation says, "catches piped commands, subshells": a line that is
\* let through starts no blocked program in a subshell or a substitution, or behind
\* a pipe.  The code lets several forms through.
SubshellsJudged ==
  \A r \in Requests : pc[r] = "judged" =>
    \A i \in DOMAIN line[r] :
      (ToSet(line[r][i].open) \cap Openers # {} \/ "|" \in ToSet(line[r][i].before)) =>
        Program[Lower[line[r][i].binary]] \notin Blocked(Config)

\* A spawn comes to an end when no other thread was logging as it forked: the only
\* thing a child waits for is the lock of the log, to say that isolation failed.
QuietSpawnEnds ==
  \A r \in Requests :
    (pc[r] = "prctl" /\ ~ child[r].log_locked) ~> (pc[r] = "failed" \/ Started(r))
================================================================================
