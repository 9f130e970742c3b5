--------------------------- MODULE ContainmentProofs ---------------------------
(* What a process runs with, what is left of its job and where a write goes,    *)
(* for every set of requests, binaries, command lines and paths, every file     *)
(* system, configuration and policy, on every platform; and how many requests   *)
(* the rate limiter in front of them admits, for every number of callers, every *)
(* set of tools, every limit and every window.                                  *)
EXTENDS Containment, RateLimiter, SequenceLemmas, FiniteSetTheorems

Child ==
  [binary : Binaries \cup {"none"}, no_new_privs : BOOLEAN, isolated : BOOLEAN,
   env : SUBSET Environment, piped : BOOLEAN, log_locked : BOOLEAN, profile : BOOLEAN,
   current_dir : Paths]

Before == {"idle", "judged", "refused", "writing"}
Spawning == {"built", "prctl", "unshare", "rlimits", "exec", "hung", "failed"}
Alive == {"running", "limit", "open", "assign"}

\* A type invariant of what this is about.
ConfinedTypeOK ==
  /\ platform \in Platforms
  /\ pc \in [Requests -> Before \cup Spawning \cup Alive]
  /\ child \in [Requests -> Child]
  /\ job \in [Requests -> [handles : SUBSET {"job", "process"}, limited : BOOLEAN]]
  /\ logging \in BOOLEAN

\* What a provider gives to every command it builds.
Provided(r) ==
  /\ child[r].piped /\ child[r].env \cap Config.scrub_env_vars = {}
  /\ platform = "windows" => child[r].current_dir = "project"
  /\ platform = "macos" => child[r].profile /\ ~ child[r].isolated
  /\ platform = "linux" => ~ child[r].profile
  /\ Policy[r] = "config" => Bare[child[r].binary] \in Config.allowlist \ Blocked(Config)

\* What the process of a request has got at each point of its way: what is promised
\* without condition is got before the next step is taken, and nothing is lost.
ChildInv ==
  \A r \in Requests :
    /\ pc[r] \in Before => child[r] = Unconfined
    /\ pc[r] \in Spawning \cup Alive => Provided(r)
    /\ pc[r] \in {"prctl", "unshare", "rlimits", "hung"} => platform = "linux"
    /\ platform = "linux" /\ pc[r] \in {"unshare", "rlimits", "exec"} \cup Alive =>
         child[r].no_new_privs
    /\ platform = "linux" /\ PolicyOf(r) = "none" /\ pc[r] \in {"rlimits", "exec"} \cup Alive =>
         child[r].isolated

\* What the program holds of a job at each point of an assignment.
JobInv ==
  \A r \in Requests :
    /\ pc[r] \in Before \cup Spawning => job[r] = NoJob
    /\ pc[r] = "running" => job[r].handles = IF job[r].limited THEN {"job"} ELSE {}
    /\ pc[r] \in {"limit", "open"} => job[r].handles = {"job"} /\ ~ job[r].limited
    /\ pc[r] = "assign" => job[r].handles = {"job", "process"} /\ ~ job[r].limited

IInv == ConfinedTypeOK /\ ChildInv /\ JobInv

--------------------------------------------------------------------------------

\* What the tuples of the variables stand for in UNCHANGED.
LEMMA Unchanged ==
  UNCHANGED contained <=> UNCHANGED <<platform, pc, child, job, logging, line, files, target>>
BY Zenon DEF contained, confinement

\* The types, and what the initial state has.
LEMMA InitInv == ContainmentInit => IInv
<1> SUFFICES ASSUME ContainmentInit PROVE IInv
  OBVIOUS
<1>1. Unconfined \in Child /\ NoJob \in [handles : SUBSET {"job", "process"}, limited : BOOLEAN]
  BY DEF Unconfined, Child, Paths, NoJob
<1>2. ConfinedTypeOK
  BY <1>1 DEF ContainmentInit, ConfinementInit, ConfinedTypeOK, Before
<1>3. ChildInv /\ JobInv
  BY DEF ContainmentInit, ConfinementInit, ChildInv, JobInv, Before, Spawning, Alive
<1> QED BY <1>2, <1>3 DEF IInv

\* What a provider builds is confined the way its platform can, and nothing else of
\* the child has changed.
LEMMA SandboxedProvides ==
  ASSUME NEW binary \in Binaries
  PROVE  LET c == Sandboxed([Unconfined EXCEPT !.binary = binary]) IN
         /\ c \in Child
         /\ c.piped /\ c.env \cap Config.scrub_env_vars = {}
         /\ platform = "windows" => c.current_dir = "project"
         /\ platform = "macos" => c.profile
         /\ platform = "linux" => ~ c.profile
         /\ c.binary = binary /\ ~ c.isolated
<1> DEFINE asked == [Unconfined EXCEPT !.binary = binary]
<1>1. asked \in Child /\ asked.binary = binary /\ ~ asked.profile /\ ~ asked.isolated
  BY DEF Unconfined, Child, Paths
<1> HIDE DEF asked
<1>2. ASSUME NEW c \in Child
      PROVE  /\ apply_common(c) \in Child /\ apply_common(c).piped
             /\ apply_common(c).env \cap Config.scrub_env_vars = {}
             /\ apply_common(c).binary = c.binary /\ apply_common(c).profile = c.profile
             /\ apply_common(c).isolated = c.isolated
  BY DEF apply_common, Child
<1>3. CASE platform = "macos"
  <2>1. /\ [asked EXCEPT !.profile = TRUE] \in Child
        /\ [asked EXCEPT !.profile = TRUE].profile
        /\ [asked EXCEPT !.profile = TRUE].binary = binary
        /\ ~ [asked EXCEPT !.profile = TRUE].isolated
    BY <1>1 DEF Child
  <2>2. Sandboxed(asked) = apply_common([asked EXCEPT !.profile = TRUE])
    BY <1>3 DEF Sandboxed, SeatbeltProvider
  <2> QED BY <1>2, <1>3, <2>1, <2>2 DEF asked
<1>4. CASE platform = "windows"
  <2>1. Sandboxed(asked) = [apply_common(asked) EXCEPT !.current_dir = "project"]
    BY <1>4 DEF Sandboxed, WindowsSandboxProvider
  <2>2. /\ apply_common(asked) \in Child /\ apply_common(asked).piped
        /\ apply_common(asked).env \cap Config.scrub_env_vars = {}
        /\ apply_common(asked).binary = binary /\ ~ apply_common(asked).isolated
    BY <1>1, <1>2
  <2> HIDE DEF asked
  <2>3. ASSUME NEW c \in Child, c.piped, c.env \cap Config.scrub_env_vars = {},
               c.binary = binary, ~ c.isolated
        PROVE  LET d == [c EXCEPT !.current_dir = "project"] IN
               /\ d \in Child /\ d.piped /\ d.env \cap Config.scrub_env_vars = {}
               /\ d.binary = binary /\ d.current_dir = "project" /\ ~ d.isolated
    BY <2>3 DEF Child, Paths
  <2>4. PICK c : c = apply_common(asked)
    OBVIOUS
  <2>5. /\ Sandboxed(asked) \in Child /\ Sandboxed(asked).piped
        /\ Sandboxed(asked).env \cap Config.scrub_env_vars = {}
        /\ Sandboxed(asked).binary = binary /\ Sandboxed(asked).current_dir = "project"
        /\ ~ Sandboxed(asked).isolated
    BY <2>1, <2>2, <2>3, <2>4
  <2> QED BY <1>4, <2>5 DEF asked
<1>5. CASE platform \notin {"macos", "windows"}
  <2>1. Sandboxed(asked) = apply_common(asked)
    BY <1>5 DEF Sandboxed, LinuxSandboxProvider, NoopProvider
  <2> QED BY <1>1, <1>2, <1>5, <2>1 DEF asked
<1> QED BY <1>3, <1>4, <1>5

\* Where a request is put is where it is.
LEMMA Gone ==
  ASSUME ConfinedTypeOK, NEW r \in Requests, NEW from, NEW to, Go(r, from, to)
  PROVE  pc[r] = from /\ \A q \in Requests : pc'[q] = IF q = r THEN to ELSE pc[q]
BY DEF Go, ConfinedTypeOK

\* Judging and writing happen before there is a process.
LEMMA BeforeStep ==
  ASSUME IInv, UNCHANGED <<platform, child, job, logging>>,
         NEW r \in Requests, NEW to \in Before, pc[r] \in Before, Go(r, pc[r], to)
  PROVE  IInv'
<1> USE DEF IInv
<1>1. \A q \in Requests : pc'[q] = IF q = r THEN to ELSE pc[q]
  BY Gone
<1>2. ConfinedTypeOK'
  BY DEF ConfinedTypeOK, Go, Before
<1>3. ChildInv'
  BY <1>1 DEF ChildInv, Provided, PolicyOf, Before, Spawning, Alive
<1>4. JobInv'
  BY <1>1 DEF JobInv, Before, Spawning
<1> QED BY <1>2, <1>3, <1>4

\* A provider is asked for a command.
LEMMA BuildStep ==
  ASSUME IInv, NEW r \in Requests, NEW binary \in Binaries, Build(r, binary)
  PROVE  IInv'
<1> USE DEF IInv
<1>0. pc[r] \in Before /\ child[r] = Unconfined
  BY DEF Build, ChildInv, Before
<1>1. CASE UNCHANGED child /\ Go(r, pc[r], "refused")
  BY <1>0, <1>1, BeforeStep DEF Build, Before
<1>2. CASE /\ Policy[r] # "config" \/ validate_binary(binary, Config) = "ok"
           /\ Go(r, pc[r], "built")
           /\ child' = [child EXCEPT ![r] = Sandboxed([@ EXCEPT !.binary = binary])]
  <2>1. PICK c : c = Sandboxed([Unconfined EXCEPT !.binary = binary])
    OBVIOUS
  <2>2. /\ c \in Child
        /\ c.piped /\ c.env \cap Config.scrub_env_vars = {}
        /\ platform = "windows" => c.current_dir = "project"
        /\ platform = "macos" => c.profile
        /\ platform = "linux" => ~ c.profile
        /\ c.binary = binary /\ ~ c.isolated
    BY <2>1, SandboxedProvides
  <2>3. child' = [child EXCEPT ![r] = c]
    BY <1>0, <1>2, <2>1
  <2>4. /\ \A q \in Requests : pc'[q] = IF q = r THEN "built" ELSE pc[q]
        /\ \A q \in Requests : child'[q] = IF q = r THEN c ELSE child[q]
        /\ UNCHANGED <<platform, job, logging>>
    BY <1>2, <2>3, Gone DEF Build, ConfinedTypeOK
  <2>5. Policy[r] = "config" => Bare[binary] \in Config.allowlist \ Blocked(Config)
    BY <1>2 DEF validate_binary
  <2>6. ConfinedTypeOK'
    BY <1>2, <2>2, <2>3, <2>4 DEF ConfinedTypeOK, Go, Spawning
  <2>7. Provided(r)'
    BY <2>2, <2>4, <2>5 DEF Provided
  <2>8. ChildInv'
    BY <2>4, <2>7 DEF ChildInv, Provided, PolicyOf, Before, Spawning, Alive
  <2>9. JobInv'
    BY <1>0, <2>4 DEF JobInv, Before, Spawning
  <2> QED BY <2>6, <2>8, <2>9
<1> QED BY <1>1, <1>2 DEF Build

\* What is got on the way from fork to the program.
LEMMA SpawnStep ==
  ASSUME IInv, NEW r \in Requests, Fork(r) \/ Provider(r)
  PROVE  IInv'
<1> USE DEF IInv
<1>1. CASE Fork(r)
  <2>1. /\ pc[r] = "built" /\ UNCHANGED <<platform, job, logging>>
        /\ \A q \in Requests :
             pc'[q] = IF q = r THEN (IF platform = "linux" THEN "prctl" ELSE "exec") ELSE pc[q]
        /\ child' = [child EXCEPT ![r].log_locked = logging]
    BY <1>1, Gone DEF Fork
  <2>3. \A q \in Requests :
          /\ q # r => child'[q] = child[q]
          /\ child'[r] = [child[r] EXCEPT !.log_locked = logging]
    BY <2>1 DEF ConfinedTypeOK
  <2>2. ConfinedTypeOK'
    <3>1. [child[r] EXCEPT !.log_locked = logging] \in Child
      BY SMTT(30) DEF ConfinedTypeOK, Child
    <3>2. child' \in [Requests -> Child]
      BY <2>1, <2>3, <3>1 DEF ConfinedTypeOK
    <3>3. pc' \in [Requests -> Before \cup Spawning \cup Alive]
      BY <1>1 DEF Fork, ConfinedTypeOK, Go, Spawning
    <3> QED BY <2>1, <3>2, <3>3 DEF ConfinedTypeOK
  <2>4. /\ child'[r].isolated = child[r].isolated
        /\ child'[r].piped = child[r].piped /\ child'[r].env = child[r].env
        /\ child'[r].current_dir = child[r].current_dir /\ child'[r].profile = child[r].profile
        /\ child'[r].binary = child[r].binary
    BY <2>3 DEF ConfinedTypeOK, Child
  <2>5. Provided(r)'
    BY <2>1, <2>4 DEF ChildInv, Provided, Spawning
  <2>6. ChildInv'
    BY <2>1, <2>3, <2>5 DEF ChildInv, Provided, PolicyOf, Before, Spawning, Alive
  <2>7. JobInv'
    BY <2>1 DEF JobInv, Before, Spawning
  <2> QED BY <2>2, <2>6, <2>7
<1>2. CASE apply_prctl(r) \/ apply_network_isolation(r)
  <2>1. PICK to \in {"unshare", "rlimits", "failed", "hung"} :
          /\ Go(r, pc[r], to) /\ pc[r] \in {"prctl", "unshare"}
          /\ UNCHANGED <<platform, job, logging>>
          /\ \/ UNCHANGED child
             \/ child' = [child EXCEPT ![r].no_new_privs = TRUE]
             \/ child' = [child EXCEPT ![r].isolated = TRUE]
          /\ to = "unshare" => child' = [child EXCEPT ![r].no_new_privs = TRUE]
          /\ to = "rlimits" /\ PolicyOf(r) = "none" => child' = [child EXCEPT ![r].isolated = TRUE]
          /\ to = "rlimits" => pc[r] = "unshare"
    BY <1>2 DEF apply_prctl, apply_network_isolation, AfterUnshareFails, Go
  <2>2. \A q \in Requests : pc'[q] = IF q = r THEN to ELSE pc[q]
    BY <2>1, Gone
  <2>3. ConfinedTypeOK'
    <3>1. /\ [child[r] EXCEPT !.no_new_privs = TRUE] \in Child
          /\ [child[r] EXCEPT !.isolated = TRUE] \in Child
      BY ZenonT(30) DEF ConfinedTypeOK, Child
    <3>2. child' \in [Requests -> Child]
      BY <2>1, <3>1 DEF ConfinedTypeOK
    <3>3. pc' \in [Requests -> Before \cup Spawning \cup Alive]
      BY <2>1 DEF ConfinedTypeOK, Go, Spawning
    <3> QED BY <2>1, <3>2, <3>3 DEF ConfinedTypeOK
  <2>0. platform = "linux"
    BY <2>1 DEF ChildInv
  <2>4. /\ \A q \in Requests : q # r => child'[q] = child[q]
        /\ \/ child'[r] = child[r]
           \/ child'[r] = [child[r] EXCEPT !.no_new_privs = TRUE]
           \/ child'[r] = [child[r] EXCEPT !.isolated = TRUE]
        /\ to = "unshare" => child'[r] = [child[r] EXCEPT !.no_new_privs = TRUE]
        /\ to = "rlimits" /\ PolicyOf(r) = "none" =>
             child'[r] = [child[r] EXCEPT !.isolated = TRUE]
    BY <2>1 DEF ConfinedTypeOK
  <2>5. /\ child'[r].piped = child[r].piped /\ child'[r].env = child[r].env
        /\ child'[r].current_dir = child[r].current_dir /\ child'[r].profile = child[r].profile
        /\ child'[r].binary = child[r].binary
        /\ child[r].no_new_privs => child'[r].no_new_privs
        /\ to = "unshare" => child'[r].no_new_privs
        /\ to = "rlimits" /\ PolicyOf(r) = "none" => child'[r].isolated
    BY <2>4 DEF ConfinedTypeOK, Child
  <2>6. Provided(r)'
    BY <2>0, <2>1, <2>5 DEF ChildInv, Provided, Spawning
  <2>7. ChildInv'
    BY <2>1, <2>2, <2>4, <2>5, <2>6 DEF ChildInv, Provided, PolicyOf, Before, Spawning, Alive
  <2>8. JobInv'
    BY <2>1, <2>2 DEF JobInv, Before, Spawning
  <2> QED BY <2>3, <2>7, <2>8
<1>3. CASE apply_rlimits(r) \/ Exec(r)
  <2>1. PICK to \in {"exec", "running", "failed"} :
          /\ Go(r, pc[r], to) /\ pc[r] \in {"rlimits", "exec"}
          /\ UNCHANGED <<platform, child, job, logging>>
    BY <1>3 DEF apply_rlimits, Exec, Go
  <2>2. \A q \in Requests : pc'[q] = IF q = r THEN to ELSE pc[q]
    BY <2>1, Gone
  <2>3. ConfinedTypeOK'
    BY <2>1 DEF ConfinedTypeOK, Go, Spawning, Alive
  <2>4. ChildInv'
    BY <2>1, <2>2 DEF ChildInv, Provided, PolicyOf, Before, Spawning, Alive
  <2>5. JobInv'
    <3>1. job[r] = NoJob /\ NoJob.handles = {} /\ ~ NoJob.limited
      BY <2>1 DEF JobInv, NoJob, Spawning
    <3> QED BY <2>1, <2>2, <3>1 DEF JobInv, Before, Spawning
  <2> QED BY <2>3, <2>4, <2>5
<1> QED BY <1>1, <1>2, <1>3 DEF Provider

\* A job is assigned, or the attempt is taken back.
LEMMA JobStep ==
  ASSUME IInv, NEW r \in Requests, Job(r)
  PROVE  IInv'
<1> USE DEF IInv
<1>1. PICK to \in Alive :
        /\ pc[r] \in Alive /\ pc' = [pc EXCEPT ![r] = to]
        /\ UNCHANGED <<platform, child, logging>>
        /\ \/ pc[r] = "running" /\ job[r] = NoJob /\ to = "limit"
                /\ job' = [job EXCEPT ![r].handles = {"job"}]
           \/ pc[r] = "limit" /\ to = "open" /\ UNCHANGED job
           \/ pc[r] = "open" /\ to = "assign"
                /\ job' = [job EXCEPT ![r].handles = @ \cup {"process"}]
           \/ pc[r] = "assign" /\ to = "running"
                /\ job' = [job EXCEPT ![r] = [handles |-> {"job"}, limited |-> TRUE]]
           \/ to = "running" /\ job' = [job EXCEPT ![r] = NoJob]
  BY DEF Job, CreateJob, LimitJob, OpenProcess, AssignJob, Go, Alive
<1>2. PICK j \in [handles : SUBSET {"job", "process"}, limited : BOOLEAN] :
        /\ job' = [job EXCEPT ![r] = j]
        /\ to \in {"limit", "open"} => j.handles = {"job"} /\ ~ j.limited
        /\ to = "assign" => j.handles = {"job", "process"} /\ ~ j.limited
        /\ to = "running" => j.handles = IF j.limited THEN {"job"} ELSE {}
  <2>1. /\ job[r] \in [handles : SUBSET {"job", "process"}, limited : BOOLEAN]
        /\ NoJob \in [handles : SUBSET {"job", "process"}, limited : BOOLEAN]
        /\ [NoJob EXCEPT !.handles = {"job"}]
              \in [handles : SUBSET {"job", "process"}, limited : BOOLEAN]
    BY DEF ConfinedTypeOK, NoJob
  <2>2. CASE /\ pc[r] = "running" /\ job[r] = NoJob /\ to = "limit"
             /\ job' = [job EXCEPT ![r].handles = {"job"}]
    <3> USE <2>1
    <3> WITNESS [NoJob EXCEPT !.handles = {"job"}]
          \in [handles : SUBSET {"job", "process"}, limited : BOOLEAN]
    <3> QED BY <2>2 DEF NoJob
  <2>3. CASE pc[r] = "limit" /\ to = "open" /\ UNCHANGED job
    <3> USE <2>1
    <3> WITNESS job[r] \in [handles : SUBSET {"job", "process"}, limited : BOOLEAN]
    <3> QED BY <2>3 DEF JobInv, ConfinedTypeOK
  <2>4. CASE /\ pc[r] = "open" /\ to = "assign"
             /\ job' = [job EXCEPT ![r].handles = @ \cup {"process"}]
    <3>1. job[r].handles = {"job"} /\ ~ job[r].limited
      BY <2>4 DEF JobInv
    <3>2. [job[r] EXCEPT !.handles = @ \cup {"process"}]
            \in [handles : SUBSET {"job", "process"}, limited : BOOLEAN]
      BY <2>1
    <3> WITNESS [job[r] EXCEPT !.handles = @ \cup {"process"}]
          \in [handles : SUBSET {"job", "process"}, limited : BOOLEAN]
    <3> QED BY <2>1, <2>4, <3>1
  <2>5. CASE /\ pc[r] = "assign" /\ to = "running"
             /\ job' = [job EXCEPT ![r] = [handles |-> {"job"}, limited |-> TRUE]]
    <3> WITNESS [handles |-> {"job"}, limited |-> TRUE]
          \in [handles : SUBSET {"job", "process"}, limited : BOOLEAN]
    <3> QED BY <2>5
  <2>6. CASE to = "running" /\ job' = [job EXCEPT ![r] = NoJob]
    <3> USE <2>1
    <3> WITNESS NoJob \in [handles : SUBSET {"job", "process"}, limited : BOOLEAN]
    <3> QED BY <2>6 DEF NoJob
  <2> QED BY <1>1, <2>2, <2>3, <2>4, <2>5, <2>6
<1>3. ConfinedTypeOK'
  BY <1>1, <1>2 DEF ConfinedTypeOK
<1>4. /\ \A q \in Requests : pc'[q] = IF q = r THEN to ELSE pc[q]
      /\ \A q \in Requests : job'[q] = IF q = r THEN j ELSE job[q]
  BY <1>1, <1>2 DEF ConfinedTypeOK
<1>5. ChildInv'
  BY <1>1, <1>4 DEF ChildInv, Provided, PolicyOf, Before, Spawning, Alive
<1>6. JobInv'
  <2>1. ASSUME NEW q \in Requests, q # r
        PROVE  pc'[q] = pc[q] /\ job'[q] = job[q]
    BY <1>4, <2>1
  <2>2. pc'[r] = to /\ job'[r] = j /\ to \notin Before \cup Spawning
    BY <1>1, <1>4 DEF Before, Spawning, Alive
  <2> DEFINE Fits(place, k) ==
               /\ place \in Before \cup Spawning => k = NoJob
               /\ place = "running" => k.handles = IF k.limited THEN {"job"} ELSE {}
               /\ place \in {"limit", "open"} => k.handles = {"job"} /\ ~ k.limited
               /\ place = "assign" => k.handles = {"job", "process"} /\ ~ k.limited
  <2>3. Fits(to, j)
    BY <1>2, <2>2
  <2>4. \A q \in Requests : Fits(pc[q], job[q])
    BY DEF JobInv
  <2> HIDE DEF Fits
  <2>5. \A q \in Requests : Fits(pc'[q], job'[q])
    BY <2>1, <2>2, <2>3, <2>4
  <2> QED BY <2>5 DEF JobInv, Fits
<1> QED BY <1>3, <1>5, <1>6

\* The invariant holds in every reachable state.
LEMMA Invariant == ContainmentSpec => []IInv
<1>1. IInv /\ [ContainmentNext]_contained => IInv'
  <2> SUFFICES ASSUME IInv, [ContainmentNext]_contained PROVE IInv'
    OBVIOUS
  <2>1. ASSUME NEW r \in Requests, NEW shell \in CommandLines, JudgeCommand(r, shell) PROVE IInv'
    <3>1. PICK to \in {"judged", "refused"} :
            Go(r, "idle", to) /\ UNCHANGED <<platform, child, job, logging>>
      BY <2>1 DEF JudgeCommand, Judge
    <3>2. pc[r] = "idle"
      BY <3>1 DEF Go
    <3> QED BY <3>1, <3>2, BeforeStep DEF Before
  <2>2. ASSUME NEW r \in Requests, NEW path \in WritePaths, JudgeWrite(r, path) PROVE IInv'
    <3>1. PICK to \in {"writing", "refused"} :
            Go(r, "idle", to) /\ UNCHANGED <<platform, child, job, logging>>
      BY <2>2 DEF JudgeWrite
    <3>2. pc[r] = "idle"
      BY <3>1 DEF Go
    <3> QED BY <3>1, <3>2, BeforeStep DEF Before
  <2>3. ASSUME NEW r \in Requests, Write(r) PROVE IInv'
    <3>1. Go(r, "writing", "idle") /\ UNCHANGED <<platform, child, job, logging>>
      BY <2>3 DEF Write
    <3>2. pc[r] = "writing"
      BY <3>1 DEF Go
    <3> QED BY <3>1, <3>2, BeforeStep DEF Before
  <2>4. CASE Serve
    BY <2>4, BuildStep, SpawnStep, JobStep DEF Serve
  <2>5. CASE Log \/ UNCHANGED contained
    <3>1. UNCHANGED <<platform, pc, child, job>> /\ logging' \in BOOLEAN
      BY <2>5, Unchanged DEF Log, IInv, ConfinedTypeOK
    <3> QED BY <3>1 DEF IInv, ConfinedTypeOK, ChildInv, Provided, PolicyOf, JobInv
  <2> QED BY <2>1, <2>2, <2>3, <2>4, <2>5 DEF ContainmentNext
<1> QED BY <1>1, InitInv, PTL DEF ContainmentSpec

\* Whatever fails between a request and its process, whoever logs meanwhile: a
\* process that runs has what its platform's provider promises without condition.
THEOREM Promised == ContainmentSpec => []RunsAsPromised
<1>1. IInv => RunsAsPromised
  <2> SUFFICES ASSUME IInv, NEW r \in Requests, Started(r)
               PROVE  /\ child[r].piped /\ child[r].env \cap Config.scrub_env_vars = {}
                      /\ platform = "linux" => child[r].no_new_privs
                      /\ platform = "linux" /\ PolicyOf(r) = "none" => Reaches(r) = {}
                      /\ platform = "windows" => child[r].current_dir = "project"
                      /\ platform = "macos" => "elsewhere" \notin Reaches(r) \cup MayWrite(r)
                      /\ Policy[r] = "config" =>
                           Bare[child[r].binary] \in Config.allowlist \ Blocked(Config)
    BY DEF RunsAsPromised
  <2>1. pc[r] \in Alive
    BY DEF Started, Alive
  <2>2. Provided(r)
    BY <2>1 DEF IInv, ChildInv
  <2>3. child[r].isolated \in BOOLEAN /\ child[r].profile \in BOOLEAN
    BY DEF IInv, ConfinedTypeOK, Child
  <2>4. platform = "macos" => "elsewhere" \notin Reaches(r) \cup MayWrite(r)
    BY <2>2, <2>3, HostsAssumption DEF Provided, Reaches, MayWrite, Hosts
  <2>5. platform = "linux" =>
          child[r].no_new_privs /\ (PolicyOf(r) = "none" => Reaches(r) = {})
    BY <2>1, <2>2, <2>3 DEF IInv, ChildInv, Provided, Reaches
  <2> QED BY <2>2, <2>4, <2>5 DEF Provided
<1> QED BY <1>1, Invariant, PTL

\* However the assignment of a job goes, when it is over the program holds a job
\* exactly for the process in it, and no handle of a process.
THEOREM Balanced == ContainmentSpec => []HandlesBalanced
<1>1. IInv => HandlesBalanced
  BY DEF IInv, JobInv, NoJob, HandlesBalanced, Spawning, Before
<1> QED BY <1>1, Invariant, PTL

--------------------------------------------------------------------------------
(* Paths                                                                   *)

\* The strings, some of them by name, which the provers know nothing of.
Names == STRING \cup {Root, "missing"}

Path == [absolute : BOOLEAN, parts : Seq(Names)]

\* The path of the first parts.
Upto(path, k) == [path EXCEPT !.parts = SubSeq(@, 1, k)]

\* The places on the way of a path.
Begin(path) == IF path.absolute THEN << >> ELSE Cwd

IsWay(f, path, taken) ==
  /\ f \in [0..Len(path.parts) -> Seq(Names)]
  /\ f[0] = Begin(path)
  /\ \A k \in 1..Len(path.parts) : f[k] = Walk(f[k - 1], path.parts[k], taken)
  /\ Resolved(path, taken) = f[Len(path.parts)]

\* All but the last of a sequence that is not empty.
LEMMA FrontProperties ==
  ASSUME NEW S, NEW s \in Seq(S), s # << >>
  PROVE  Front(s) \in Seq(S) /\ Last(s) \in S /\ s = Append(Front(s), Last(s))
<1>1. PICK n \in Nat : n = Len(s) /\ n # 0 /\ n - 1 \in Nat /\ (n - 1) + 1 = n
  <2>1. Len(s) \in Nat /\ Len(s) # 0
    BY EmptySeq, LenProperties
  <2> QED BY <2>1
<1>2. /\ Front(s) \in Seq(S) /\ Len(Front(s)) = n - 1
      /\ \A i \in 1..(n - 1) : Front(s)[i] = s[i]
  BY <1>1, SubSeqProperties DEF Front
<1>3. Last(s) = s[n] /\ n \in 1..n /\ s[n] \in S
  BY <1>1 DEF Last
<1> HIDE DEF Front
<1>4. /\ Append(Front(s), Last(s)) \in Seq(S) /\ Len(Append(Front(s), Last(s))) = n
      /\ \A i \in 1..(n - 1) : Append(Front(s), Last(s))[i] = s[i]
      /\ Append(Front(s), Last(s))[n] = s[n]
  BY <1>1, <1>2, <1>3, AppendProperties
<1>5. \A i \in 1..n : i = n \/ i \in 1..(n - 1)
  BY <1>1
<1>6. \A i \in 1..n : Append(Front(s), Last(s))[i] = s[i]
  BY <1>4, <1>5
<1>7. Append(Front(s), Last(s)) = s
  BY <1>1, <1>4, <1>6, SeqEqual
<1> QED BY <1>2, <1>3, <1>7

\* What is assumed of the file system, in these names.
LEMMA InNames ==
  /\ Missing \in Seq(Names) /\ Missing \notin Dirs
  /\ Dirs \subseteq Seq(Names) /\ Cwd \in Seq(Names) /\ << >> \in Seq(Names)
  /\ \A place \in DOMAIN Links : Links[place] \in Dirs
  /\ WritePaths \subseteq [absolute : BOOLEAN, parts : Seq(Names) \ {<< >>}]
  /\ immutable_zones \subseteq Seq(Names) \ {<< >>}
<1>1. ASSUME NEW s \in Seq(STRING) PROVE s \in Seq(Names)
  <2>1. PICK n \in Nat : s \in [1..n -> STRING]
    OBVIOUS
  <2>2. s \in [1..n -> Names]
    BY <2>1 DEF Names
  <2> QED BY <2>2
<1>2. "missing" \in Names
  BY DEF Names
<1>3. Missing \in Seq(Names)
  BY <1>2 DEF Missing
<1>4. Dirs \subseteq Seq(STRING) /\ Missing \notin Dirs /\ Cwd \in Dirs
  BY FileSystemAssumption DEF Missing
<1>5. Dirs \subseteq Seq(Names) /\ Cwd \in Seq(Names)
  BY <1>1, <1>4
<1>6. immutable_zones \subseteq Seq(Names) \ {<< >>}
  BY <1>1, FileSystemAssumption
<1>7. ASSUME NEW path \in WritePaths PROVE path \in [absolute : BOOLEAN, parts : Seq(Names) \ {<< >>}]
  <2>1. path \in [absolute : BOOLEAN, parts : Seq(STRING) \ {<< >>}]
    BY WritePathsAssumption
  <2>2. path.parts \in Seq(Names) \ {<< >>}
    BY <1>1, <2>1
  <2> QED BY <2>1, <2>2
<1>8. << >> \in Seq(Names) /\ \A place \in DOMAIN Links : Links[place] \in Dirs
  BY FileSystemAssumption
<1> QED BY <1>3, <1>4, <1>5, <1>6, <1>7, <1>8

\* The system gets from a place to a place.
LEMMA WalkType ==
  ASSUME NEW place \in Seq(Names), NEW part \in Names, NEW taken
  PROVE  Walk(place, part, taken) \in Seq(Names)
<1>1. Missing \in Seq(Names) /\ Append(place, part) \in Seq(Names)
  BY InNames, AppendProperties
<1>2. place # << >> => Front(place) \in Seq(Names)
  BY FrontProperties
<1>3. \A next \in DOMAIN Links : Links[next] \in Seq(Names)
  BY InNames
<1> QED BY <1>1, <1>2, <1>3 DEF Walk

\* A path is resolved one part after the other.
LEMMA ResolvedIsLast ==
  ASSUME NEW path \in Path, NEW taken
  PROVE  \E f : IsWay(f, path, taken)
<1> DEFINE list == path.parts
           base == Begin(path)
           V == Seq(Names)
           D == DOMAIN list
           n == Len(list)
           step == [k \in 1..n |-> [place \in V |-> Walk(place, list[k], taken)]]
           IsFold(iter) ==
             iter = [s \in SUBSET D |->
                       IF s = {} THEN base ELSE Walk(iter[s \ {Max(s)}], list[Max(s)], taken)]
           fold == CHOOSE iter : IsFold(iter)
           f == [k \in 0..n |-> fold[1..k]]
<1>0. list \in Seq(Names)
  BY DEF Path
<1>1. D = 1..n /\ n \in Nat /\ \A k \in 1..n : list[k] \in Names
  BY <1>0, LenProperties, ElementOfSeq
<1>a. base \in V
  BY InNames DEF Begin
<1>2. step \in [1..n -> [V -> V]]
  BY <1>1, WalkType
<1>3. PICK g \in [SUBSET (1..n) -> V] :
        \A s \in SUBSET (1..n) : g[s] = IF s = {} THEN base ELSE step[Max(s)][g[s \ {Max(s)}]]
  <2>1. PICK g : IsFoldOver(g, V, n, base, step)
    <3> HIDE DEF step, n, base, V
    <3> QED BY <1>1, <1>a, <1>2, FoldExists
  <2> HIDE DEF step, n
  <2> QED BY <2>1 DEF IsFoldOver
<1>4. ASSUME NEW s \in SUBSET (1..n), s # {}
      PROVE  Max(s) \in 1..n /\ s \ {Max(s)} \in SUBSET (1..n)
  <2>1. Max(s) \in s
    BY <1>1, <1>4, Greatest
  <2> QED BY <2>1
<1>5. IsFold(g)
  <2>1. \A s \in SUBSET (1..n) :
          g[s] = IF s = {} THEN base ELSE Walk(g[s \ {Max(s)}], list[Max(s)], taken)
    BY <1>3, <1>4
  <2> QED BY <1>1, <1>3, <2>1
<1>6. IsFold(fold)
  <2> HIDE DEF IsFold
  <2> QED BY <1>5
<1>7. Resolved(path, taken) = fold[D]
  BY DEF Resolved, FoldLeft, MapThenFoldSet, Begin
<1> HIDE DEF fold
<1>8. f[0] = base /\ Resolved(path, taken) = f[n]
  <2>1. 1..0 = {} /\ 0 \in 0..n /\ n \in 0..n
    BY <1>1
  <2>2. fold[{}] = base
    BY <1>6
  <2> QED BY <1>1, <1>7, <2>1, <2>2
<1>9. ASSUME NEW k \in 1..n PROVE f[k] = Walk(f[k - 1], list[k], taken)
  <2>1. 1..k # {} /\ Max(1..k) = k /\ (1..k) \ {Max(1..k)} = 1..(k - 1)
    BY <1>1, FoldPrefix
  <2>2. 1..k \in SUBSET D /\ k \in 0..n /\ k - 1 \in 0..n
    BY <1>1
  <2>3. fold[1..k] = Walk(fold[(1..k) \ {Max(1..k)}], list[Max(1..k)], taken)
    BY <1>6, <2>1, <2>2
  <2> QED BY <2>1, <2>2, <2>3
<1> DEFINE Odd == {k \in Nat : k <= n /\ f[k] \notin V}
<1>10. DOMAIN f = 0..n /\ f = [k \in 0..n |-> f[k]]
  OBVIOUS
<1> HIDE DEF f, V
<1>11. CASE Odd # {}
  <2>1. PICK k \in Odd : \A l \in Odd : k <= l
    BY <1>11, Least, Zenon
  <2>2. k \in Nat /\ k <= n /\ k # 0 /\ f[k] \notin V
    BY <1>8, <1>a, <2>1
  <2>3. k - 1 \in Nat /\ k - 1 <= n /\ ~ (k <= k - 1) /\ k \in 1..n
    BY <1>1, <2>2
  <2>4. f[k - 1] \in V
    BY <2>1, <2>3
  <2>5. f[k] \in V
    BY <1>1, <1>9, <2>3, <2>4, WalkType DEF V
  <2> QED BY <2>2, <2>5
<1>12. CASE Odd = {}
  <2>1. \A k \in 0..n : k \in Nat /\ k <= n
    BY <1>1
  <2>2. \A k \in 0..n : f[k] \in V
    BY <1>12, <2>1
  <2>3. f \in [0..n -> Seq(Names)]
    BY <1>10, <2>2 DEF V
  <2>4. IsWay(f, path, taken)
    BY <1>8, <1>9, <2>3 DEF IsWay
  <2> QED BY <2>4
<1> QED BY <1>11, <1>12

\* The first parts of a path.
LEMMA UptoProperties ==
  ASSUME NEW path \in Path, NEW n \in Nat, n = Len(path.parts), NEW k \in 0..n
  PROVE  /\ Upto(path, k) \in Path /\ Upto(path, k).absolute = path.absolute
         /\ Len(Upto(path, k).parts) = k
         /\ \A j \in 1..k : Upto(path, k).parts[j] = path.parts[j]
<1>1. path.parts \in Seq(Names) /\ k \in Nat /\ k <= n
  BY DEF Path
<1>2. /\ SubSeq(path.parts, 1, k) \in Seq(Names)
      /\ Len(SubSeq(path.parts, 1, k)) = k
      /\ \A j \in 1..k : SubSeq(path.parts, 1, k)[j] = path.parts[j]
  <2>1. \A j \in 1..k : path.parts[j] \in Names
    BY <1>1, ElementOfSeq
  <2> QED BY <1>1, <2>1, SubSeqProperties
<1>3. /\ Upto(path, k) \in Path /\ Upto(path, k).absolute = path.absolute
      /\ Upto(path, k).parts = SubSeq(path.parts, 1, k)
  BY <1>2 DEF Upto, Path
<1> QED BY <1>2, <1>3

\* They are resolved on the way of the whole path.
LEMMA ResolvedUpto ==
  ASSUME NEW path \in Path, NEW taken, NEW f, IsWay(f, path, taken),
         NEW n \in Nat, n = Len(path.parts), NEW k \in 0..n
  PROVE  Resolved(Upto(path, k), taken) = f[k]
<1> DEFINE part == Upto(path, k)
<1>1. /\ part \in Path /\ part.absolute = path.absolute /\ Len(part.parts) = k
      /\ \A j \in 1..k : part.parts[j] = path.parts[j]
  BY UptoProperties
<1> HIDE DEF part
<1>2. PICK g : IsWay(g, part, taken)
  BY <1>1, ResolvedIsLast
<1>3. /\ g[0] = f[0] /\ Resolved(part, taken) = g[k]
      /\ \A j \in 1..k : g[j] = Walk(g[j - 1], path.parts[j], taken)
  BY <1>1, <1>2 DEF IsWay, Begin
<1>4. \A j \in 1..n : f[j] = Walk(f[j - 1], path.parts[j], taken)
  BY DEF IsWay
<1> DEFINE Odd == {j \in Nat : j <= k /\ g[j] # f[j]}
<1>5. CASE Odd # {}
  <2>1. PICK j \in Odd : \A l \in Odd : j <= l
    BY <1>5, Least, Zenon
  <2>2. j \in Nat /\ j <= k /\ j # 0 /\ g[j] # f[j]
    BY <1>3, <2>1
  <2>3. j - 1 \in Nat /\ j - 1 <= k /\ ~ (j <= j - 1) /\ j \in 1..k /\ j \in 1..n
    BY <2>2
  <2>4. g[j - 1] = f[j - 1]
    BY <2>1, <2>3
  <2>5. g[j] = f[j]
    BY <1>3, <1>4, <2>3, <2>4
  <2> QED BY <2>2, <2>5
<1>6. CASE Odd = {}
  <2>1. k \in Nat /\ k <= k
    OBVIOUS
  <2>2. g[k] = f[k]
    BY <1>6, <2>1
  <2> QED BY <1>3, <2>2 DEF part
<1> QED BY <1>5, <1>6

\* A path that led somewhere when it was judged leads to the place it is written to,
\* whatever files have come since: on the way there are directories only.
LEMMA PlaceResolved ==
  ASSUME NEW path \in WritePaths, NEW taken, Resolved(path, taken) # Missing
  PROVE  Place(path) = Resolved(path, taken)
<1>1. path \in Path /\ path.parts \in Seq(Names) /\ path.parts # << >>
  <2>1. path \in [absolute : BOOLEAN, parts : Seq(Names) \ {<< >>}]
    BY InNames
  <2> QED BY <2>1 DEF Path
<1>2. PICK n \in Nat : n = Len(path.parts) /\ n # 0 /\ n - 1 \in 0..n /\ n \in 1..n /\ n <= n
  <2>1. Len(path.parts) \in Nat /\ Len(path.parts) # 0
    BY <1>1, EmptySeq, LenProperties
  <2> QED BY <2>1
<1>3. PICK f : IsWay(f, path, taken)
  BY <1>1, ResolvedIsLast
<1>4. PICK h : IsWay(h, path, {})
  BY <1>1, ResolvedIsLast
<1>5. /\ f[0] = h[0] /\ f[n] # Missing /\ Resolved(path, taken) = f[n]
      /\ \A k \in 1..n : f[k] = Walk(f[k - 1], path.parts[k], taken)
      /\ \A k \in 1..n : h[k] = Walk(h[k - 1], path.parts[k], {})
  BY <1>2, <1>3, <1>4 DEF IsWay
<1>6. ASSUME NEW k \in 0..(n - 1) PROVE f[k] \in Dirs
  <2>1. SUFFICES ASSUME f[k] \notin Dirs PROVE FALSE
    OBVIOUS
  <2> DEFINE Odd == {j \in Nat : k < j /\ j <= n /\ f[j] # Missing}
  <2>2. n \in Odd
    BY <1>2, <1>5
  <2>3. PICK j \in Odd : \A l \in Odd : j <= l
    BY <2>2, Least, Zenon
  <2>4. j \in Nat /\ k \in Nat /\ k < j /\ j <= n /\ f[j] # Missing
    BY <2>3
  <2>5. j - 1 \in Nat /\ j - 1 <= n /\ ~ (j <= j - 1) /\ j \in 1..n /\ (j - 1 = k \/ k < j - 1)
    BY <2>4
  <2>6. f[j - 1] \notin Dirs
    <3>1. CASE j - 1 = k
      BY <2>1, <3>1
    <3>2. CASE k < j - 1
      <4>1. f[j - 1] = Missing
        BY <2>3, <2>5, <3>2
      <4> QED BY <4>1, InNames
    <3> QED BY <2>5, <3>1, <3>2
  <2>7. f[j] = Missing
    BY <1>5, <2>5, <2>6 DEF Walk
  <2> QED BY <2>4, <2>7
<1>7. ASSUME NEW k \in 1..(n - 1), h[k - 1] = f[k - 1] PROVE h[k] = f[k]
  <2>1. k \in 1..n /\ k - 1 \in 0..(n - 1) /\ k \in 0..(n - 1)
    BY <1>2
  <2>2. /\ f[k] = Walk(f[k - 1], path.parts[k], taken)
        /\ h[k] = Walk(f[k - 1], path.parts[k], {})
    BY <1>5, <1>7, <2>1
  <2>3. f[k] \in Dirs /\ f[k - 1] \in Dirs /\ f[k] # Missing
    BY <1>6, <2>1, InNames
  <2> HIDE DEF Missing
  <2> QED BY <2>2, <2>3 DEF Walk
<1> DEFINE Odd == {k \in Nat : k <= n - 1 /\ h[k] # f[k]}
<1>8. Odd = {}
  <2>1. SUFFICES ASSUME Odd # {} PROVE FALSE
    OBVIOUS
  <2>2. PICK k \in Odd : \A l \in Odd : k <= l
    BY <2>1, Least, Zenon
  <2>3. k \in Nat /\ k <= n - 1 /\ k # 0 /\ h[k] # f[k]
    BY <1>5, <2>2
  <2>4. k - 1 \in Nat /\ k - 1 <= n - 1 /\ ~ (k <= k - 1) /\ k \in 1..(n - 1)
    BY <1>2, <2>3
  <2>5. h[k - 1] = f[k - 1]
    BY <2>2, <2>4
  <2> QED BY <1>7, <2>3, <2>4, <2>5
<1>9. h[n - 1] = f[n - 1] /\ f[n - 1] \in Dirs
  <2>1. n - 1 \in Nat /\ n - 1 <= n - 1 /\ n - 1 \in 0..(n - 1)
    BY <1>2
  <2> QED BY <1>6, <1>8, <2>1
<1>10. Resolved([path EXCEPT !.parts = Front(@)], {}) = h[n - 1]
  <2>1. Resolved(Upto(path, n - 1), {}) = h[n - 1]
    BY <1>1, <1>2, <1>4, ResolvedUpto
  <2>2. Upto(path, n - 1) = [path EXCEPT !.parts = Front(@)]
    BY <1>2 DEF Upto, Front
  <2> QED BY <2>1, <2>2
<1>11. Last(path.parts) = path.parts[n]
  BY <1>2 DEF Last
<1> DEFINE dir == f[n - 1]
           name == path.parts[n]
<1>12. Place(path) = Walk(dir, name, {Append(dir, name)})
  <2>1. h[n - 1] # Missing
    BY <1>9, InNames
  <2> HIDE DEF Missing
  <2> QED BY <1>9, <1>10, <1>11, <2>1 DEF Place
<1>13. f[n] = Walk(dir, name, taken)
  BY <1>2, <1>5
<1> HIDE DEF dir, name, Missing
<1>14. dir \in Dirs
  BY <1>9 DEF dir
<1> QED BY <1>5, <1>12, <1>13, <1>14 DEF Walk

\* The names on the way of a path as it is normalized.
Turn(done, c) ==
  CASE c = "." -> done
    [] c = ".." -> IF done = << >> THEN done ELSE Front(done)
    [] OTHER -> Append(done, c)

IsNormal(m, path) ==
  /\ m \in [0..Len(Components(path)) -> Seq(Names)]
  /\ m[0] = << >>
  /\ \A k \in 1..Len(Components(path)) : m[k] = Turn(m[k - 1], Components(path)[k])
  /\ normalize_path(path) = m[Len(Components(path))]

\* A path is normalized one component after the other.
LEMMA NormalIsLast ==
  ASSUME NEW path \in Path
  PROVE  \E m : IsNormal(m, path)
<1> DEFINE list == Components(path)
           V == Seq(Names)
           D == DOMAIN list
           n == Len(list)
           step == [k \in 1..n |-> [done \in V |-> Turn(done, list[k])]]
           IsFold(iter) ==
             iter = [s \in SUBSET D |->
                       IF s = {} THEN << >> ELSE Turn(iter[s \ {Max(s)}], list[Max(s)])]
           fold == CHOOSE iter : IsFold(iter)
           m == [k \in 0..n |-> fold[1..k]]
<1>1. list \in Seq(Names)
  <2>1. path.parts \in Seq(Names)
    BY DEF Path
  <2>2. <<Root>> \in Seq(Names) /\ << >> \in Seq(Names)
    BY DEF Names
  <2> QED BY <2>1, <2>2, ConcatProperties DEF Components
<1> HIDE DEF list
<1>2. D = 1..n /\ n \in Nat /\ \A k \in 1..n : list[k] \in Names
  BY <1>1, LenProperties, ElementOfSeq
<1>3. ASSUME NEW done \in V, NEW c \in Names PROVE Turn(done, c) \in V
  BY FrontProperties, AppendProperties DEF Turn
<1>4. step \in [1..n -> [V -> V]]
  BY <1>2, <1>3
<1>5. PICK g \in [SUBSET (1..n) -> V] :
        \A s \in SUBSET (1..n) : g[s] = IF s = {} THEN << >> ELSE step[Max(s)][g[s \ {Max(s)}]]
  <2>1. PICK g : IsFoldOver(g, V, n, << >>, step)
    <3>1. << >> \in V
      OBVIOUS
    <3> HIDE DEF step, n, V
    <3> QED BY <1>2, <1>4, <3>1, FoldExists
  <2> HIDE DEF step, n
  <2> QED BY <2>1 DEF IsFoldOver
<1>6. ASSUME NEW s \in SUBSET (1..n), s # {}
      PROVE  Max(s) \in 1..n /\ s \ {Max(s)} \in SUBSET (1..n)
  <2>1. Max(s) \in s
    BY <1>2, <1>6, Greatest
  <2> QED BY <2>1
<1>7. IsFold(g)
  <2>1. \A s \in SUBSET (1..n) :
          g[s] = IF s = {} THEN << >> ELSE Turn(g[s \ {Max(s)}], list[Max(s)])
    BY <1>5, <1>6
  <2> QED BY <1>2, <1>5, <2>1
<1>8. IsFold(fold)
  <2> HIDE DEF IsFold
  <2> QED BY <1>7
<1>9. normalize_path(path) = fold[D]
  BY DEF normalize_path, FoldLeft, MapThenFoldSet, Turn, list
<1> HIDE DEF fold
<1>10. m[0] = << >> /\ normalize_path(path) = m[n]
  <2>1. 1..0 = {} /\ 0 \in 0..n /\ n \in 0..n
    BY <1>2
  <2>2. fold[{}] = << >>
    BY <1>8
  <2> QED BY <1>2, <1>9, <2>1, <2>2
<1>11. ASSUME NEW k \in 1..n PROVE m[k] = Turn(m[k - 1], list[k])
  <2>1. 1..k # {} /\ Max(1..k) = k /\ (1..k) \ {Max(1..k)} = 1..(k - 1)
    BY <1>2, FoldPrefix
  <2>2. 1..k \in SUBSET D /\ k \in 0..n /\ k - 1 \in 0..n
    BY <1>2
  <2>3. fold[1..k] = Turn(fold[(1..k) \ {Max(1..k)}], list[Max(1..k)])
    BY <1>8, <2>1, <2>2
  <2> QED BY <2>1, <2>2, <2>3
<1> DEFINE Odd == {k \in Nat : k <= n /\ m[k] \notin V}
<1>12. DOMAIN m = 0..n /\ m = [k \in 0..n |-> m[k]]
  OBVIOUS
<1>13. << >> \in V
  OBVIOUS
<1> HIDE DEF m, V
<1>14. CASE Odd # {}
  <2>1. PICK k \in Odd : \A l \in Odd : k <= l
    BY <1>14, Least, Zenon
  <2>2. k \in Nat /\ k <= n /\ k # 0 /\ m[k] \notin V
    BY <1>10, <1>13, <2>1
  <2>3. k - 1 \in Nat /\ k - 1 <= n /\ ~ (k <= k - 1) /\ k \in 1..n
    BY <1>2, <2>2
  <2>4. m[k - 1] \in V
    BY <2>1, <2>3
  <2>5. m[k] \in V
    BY <1>2, <1>3, <1>11, <2>3, <2>4
  <2> QED BY <2>2, <2>5
<1>15. CASE Odd = {}
  <2>1. \A k \in 0..n : k \in Nat /\ k <= n
    BY <1>2
  <2>2. \A k \in 0..n : m[k] \in V
    BY <1>15, <2>1
  <2>3. m \in [0..n -> Seq(Names)]
    BY <1>12, <2>2 DEF V
  <2>4. IsNormal(m, path)
    BY <1>10, <1>11, <2>3 DEF IsNormal, list
  <2> QED BY <2>4
<1> QED BY <1>14, <1>15

\* The names an absolute path begins with.
LEMMA AbsoluteComponents ==
  ASSUME NEW path \in Path, path.absolute, NEW n \in Nat, n = Len(path.parts)
  PROVE  /\ Len(Components(path)) = n + 1 /\ Components(path)[1] = Root
         /\ \A k \in 1..n : Components(path)[k + 1] = path.parts[k]
<1>1. path.parts \in Seq(Names) /\ <<Root>> \in Seq(Names) /\ Len(<<Root>>) = 1
  BY DEF Path, Names
<1>2. Components(path) = <<Root>> \o path.parts
  BY DEF Components
<1>3. /\ Len(<<Root>> \o path.parts) = n + 1
      /\ \A k \in 1..(n + 1) :
           (<<Root>> \o path.parts)[k] = IF k <= 1 THEN <<Root>>[k] ELSE path.parts[k - 1]
  BY <1>1, ConcatProperties
<1>4. 1 \in 1..(n + 1) /\ \A k \in 1..n : k + 1 \in 1..(n + 1) /\ ~ (k + 1 <= 1) /\ (k + 1) - 1 = k
  OBVIOUS
<1> QED BY <1>2, <1>3, <1>4

\* The first parts of an absolute path are normalized on the way of the whole.
LEMMA NormalUpto ==
  ASSUME NEW path \in Path, path.absolute, NEW m, IsNormal(m, path),
         NEW n \in Nat, n = Len(path.parts), NEW k \in 0..n
  PROVE  normalize_path(Upto(path, k)) = m[k + 1]
<1> DEFINE part == Upto(path, k)
<1>1. /\ part \in Path /\ part.absolute /\ Len(part.parts) = k /\ k \in Nat /\ k <= n
      /\ \A j \in 1..k : part.parts[j] = path.parts[j]
  BY UptoProperties
<1> HIDE DEF part
<1>2. PICK g : IsNormal(g, part)
  BY <1>1, NormalIsLast
<1>3. /\ Len(Components(part)) = k + 1 /\ Len(Components(path)) = n + 1
      /\ \A j \in 1..(k + 1) : Components(part)[j] = Components(path)[j]
  <2>1. /\ Len(Components(part)) = k + 1 /\ Components(part)[1] = Root
        /\ \A j \in 1..k : Components(part)[j + 1] = part.parts[j]
    BY <1>1, AbsoluteComponents
  <2>2. /\ Len(Components(path)) = n + 1 /\ Components(path)[1] = Root
        /\ \A j \in 1..n : Components(path)[j + 1] = path.parts[j]
    BY AbsoluteComponents
  <2>3. \A j \in 1..k : j \in 1..n /\ Components(part)[j + 1] = Components(path)[j + 1]
    <3>1. \A j \in 1..k : j \in 1..n
      BY <1>1
    <3> QED BY <1>1, <2>1, <2>2, <3>1
  <2>4. ASSUME NEW j \in 1..(k + 1) PROVE Components(part)[j] = Components(path)[j]
    <3>1. CASE j = 1
      BY <2>1, <2>2, <3>1
    <3>2. CASE j # 1
      <4>1. PICK i \in 1..k : j = i + 1
        <5>1. j - 1 \in 1..k /\ j = (j - 1) + 1
          BY <1>1, <3>2
        <5> QED BY <5>1
      <4> QED BY <2>3, <4>1
    <3> QED BY <3>1, <3>2
  <2> QED BY <2>1, <2>2, <2>4
<1>4. /\ g[0] = m[0] /\ normalize_path(part) = g[k + 1]
      /\ \A j \in 1..(k + 1) : g[j] = Turn(g[j - 1], Components(path)[j])
  BY <1>2, <1>3 DEF IsNormal
<1>5. \A j \in 1..(n + 1) : m[j] = Turn(m[j - 1], Components(path)[j])
  BY <1>3 DEF IsNormal
<1> DEFINE Odd == {j \in Nat : j <= k + 1 /\ g[j] # m[j]}
<1>6. CASE Odd # {}
  <2>1. PICK j \in Odd : \A l \in Odd : j <= l
    BY <1>6, Least, Zenon
  <2>2. j \in Nat /\ j <= k + 1 /\ j # 0 /\ g[j] # m[j]
    BY <1>4, <2>1
  <2>3. j - 1 \in Nat /\ j - 1 <= k + 1 /\ ~ (j <= j - 1) /\ j \in 1..(k + 1) /\ j \in 1..(n + 1)
    BY <1>1, <2>2
  <2>4. g[j - 1] = m[j - 1]
    BY <2>1, <2>3
  <2>5. g[j] = m[j]
    BY <1>4, <1>5, <2>3, <2>4
  <2> QED BY <2>2, <2>5
<1>7. CASE Odd = {}
  <2>1. k + 1 \in Nat /\ k + 1 <= k + 1
    BY <1>1
  <2>2. g[k + 1] = m[k + 1]
    BY <1>7, <2>1
  <2> QED BY <1>4, <2>2 DEF part
<1> QED BY <1>6, <1>7

\* What follows the root can be taken back or go on.
LEMMA AfterRoot ==
  ASSUME NEW s \in Seq(Names), NEW x \in Names
  PROVE  /\ Append(<<Root>> \o s, x) = <<Root>> \o Append(s, x)
         /\ Front(Append(s, x)) = s
         /\ Tail(<<Root>> \o s) = s
         /\ Front(<<Root>>) = << >> /\ <<Root>> \o << >> = <<Root>>
<1>1. <<Root>> \in Seq(Names) /\ Len(<<Root>>) = 1 /\ << >> \in Seq(Names)
  BY DEF Names
<1>2. PICK n \in Nat : n = Len(s)
  BY LenProperties
<1>3. /\ Append(s, x) \in Seq(Names) /\ Len(Append(s, x)) = n + 1
      /\ \A i \in 1..n : Append(s, x)[i] = s[i]
      /\ Append(s, x)[n + 1] = x
  BY <1>2, AppendProperties
<1> DEFINE t == <<Root>> \o s
           u == <<Root>> \o Append(s, x)
<1>4. /\ t \in Seq(Names) /\ Len(t) = n + 1
      /\ \A i \in 1..(n + 1) : t[i] = IF i <= 1 THEN Root ELSE s[i - 1]
  <2>1. /\ t \in Seq(Names) /\ Len(t) = 1 + n
        /\ \A i \in 1..(1 + n) : t[i] = IF i <= 1 THEN <<Root>>[i] ELSE s[i - 1]
    BY <1>1, <1>2, ConcatProperties
  <2>2. 1 + n = n + 1 /\ \A i \in 1..(n + 1) : i <= 1 => i = 1
    OBVIOUS
  <2> HIDE DEF t
  <2> QED BY <2>1, <2>2
<1>5. /\ u \in Seq(Names) /\ Len(u) = n + 2
      /\ \A i \in 1..(n + 2) : u[i] = IF i <= 1 THEN Root ELSE Append(s, x)[i - 1]
  <2>1. PICK v \in Seq(Names) : v = Append(s, x) /\ Len(v) = n + 1
    BY <1>3
  <2>2. /\ <<Root>> \o v \in Seq(Names) /\ Len(<<Root>> \o v) = 1 + (n + 1)
        /\ \A i \in 1..(1 + (n + 1)) : (<<Root>> \o v)[i] = IF i <= 1 THEN <<Root>>[i] ELSE v[i - 1]
    BY <1>1, <2>1, ConcatProperties
  <2>3. 1 + (n + 1) = n + 2 /\ \A i \in 1..(n + 2) : i <= 1 => i = 1
    OBVIOUS
  <2> QED BY <2>1, <2>2, <2>3
<1> HIDE DEF t, u
<1>6. Append(t, x) = u
  <2>1. /\ Append(t, x) \in Seq(Names) /\ Len(Append(t, x)) = n + 2
        /\ \A i \in 1..(n + 1) : Append(t, x)[i] = t[i]
        /\ Append(t, x)[n + 2] = x
    <3>1. /\ Append(t, x) \in Seq(Names) /\ Len(Append(t, x)) = (n + 1) + 1
          /\ \A i \in 1..(n + 1) : Append(t, x)[i] = t[i]
          /\ Append(t, x)[(n + 1) + 1] = x
      BY <1>4, AppendProperties
    <3>2. (n + 1) + 1 = n + 2
      OBVIOUS
    <3> QED BY <3>1, <3>2
  <2>2. ASSUME NEW i \in 1..(n + 2) PROVE Append(t, x)[i] = u[i]
    <3>1. CASE i = n + 2
      <4>1. ~ (i <= 1) /\ i - 1 = n + 1
        BY <3>1
      <4> QED BY <1>3, <1>5, <2>1, <3>1, <4>1
    <3>2. CASE i # n + 2
      <4>1. i \in 1..(n + 1) /\ (~ (i <= 1) => i - 1 \in 1..n)
        BY <3>2
      <4>2. Append(t, x)[i] = t[i]
        BY <2>1, <4>1
      <4>3. CASE i <= 1
        BY <1>4, <1>5, <4>1, <4>2, <4>3
      <4>4. CASE ~ (i <= 1)
        <5>1. t[i] = s[i - 1]
          BY <1>4, <4>1, <4>4
        <5>2. u[i] = Append(s, x)[i - 1]
          BY <1>5, <4>4
        <5>3. Append(s, x)[i - 1] = s[i - 1]
          BY <1>3, <4>1, <4>4
        <5> QED BY <4>2, <5>1, <5>2, <5>3
      <4> QED BY <4>3, <4>4
    <3> QED BY <3>1, <3>2
  <2> QED BY <1>5, <2>1, <2>2, SeqEqual
<1>7. Front(Append(s, x)) = s
  <2>1. PICK v \in Seq(Names) : v = Append(s, x) /\ Len(v) = n + 1 /\ \A i \in 1..n : v[i] = s[i]
    BY <1>3
  <2>2. (n + 1) - 1 = n /\ \A i \in 1..n : i \in 1..(n + 1)
    OBVIOUS
  <2>3. \A i \in 1..n : v[i] \in Names
    BY <2>1, <2>2, ElementOfSeq
  <2>4. /\ SubSeq(v, 1, n) \in Seq(Names) /\ Len(SubSeq(v, 1, n)) = n
        /\ \A i \in 1..n : SubSeq(v, 1, n)[i] = v[i]
    BY <2>1, <2>3, SubSeqProperties
  <2>5. SubSeq(v, 1, n) = s
    BY <1>2, <2>1, <2>4, SeqEqual
  <2> QED BY <2>1, <2>2, <2>5 DEF Front
<1>8. Tail(t) = s
  <2>1. t # << >>
    BY <1>4
  <2>2. /\ Tail(t) \in Seq(Names) /\ Len(Tail(t)) = (n + 1) - 1
        /\ \A i \in 1..Len(Tail(t)) : Tail(t)[i] = t[i + 1]
    BY <1>4, <2>1, HeadTailProperties
  <2>3. (n + 1) - 1 = n /\ \A i \in 1..n : i + 1 \in 1..(n + 1) /\ ~ (i + 1 <= 1) /\ (i + 1) - 1 = i
    OBVIOUS
  <2>4. \A i \in 1..n : Tail(t)[i] = s[i]
    BY <1>4, <2>2, <2>3
  <2> QED BY <1>2, <2>2, <2>3, <2>4, SeqEqual
<1>9. Front(<<Root>>) = << >> /\ <<Root>> \o << >> = <<Root>>
  BY <1>1, ConcatEmptySeq DEF Front
<1> QED BY <1>6, <1>7, <1>8, <1>9 DEF t, u

\* One more part of a path that is written out: the system follows it to where it is
\* normalized to, or nowhere.
LEMMA PlainStep ==
  ASSUME NEW place \in Dirs, NEW part \in Names, NEW taken, Walk(place, part, taken) # Missing,
         NEW done, done = Turn(<<Root>> \o place, part), done # << >>, Tail(done) \notin DOMAIN Links
  PROVE  done = <<Root>> \o Walk(place, part, taken)
<1>1. place \in Seq(Names)
  BY InNames
<1> HIDE DEF Missing, Root
<1>2. CASE part = "."
  BY <1>2 DEF Walk, Turn
<1>3. CASE part = ".."
  <2>1. place # << >>
    <3>1. CASE place = << >>
      <4>1. <<Root>> \o place = <<Root>> /\ <<Root>> # << >> /\ Front(<<Root>>) = << >>
        BY <1>1, <3>1, AfterRoot
      <4>2. done = << >>
        BY <1>3, <4>1 DEF Turn
      <4> QED BY <4>2
    <3> QED BY <3>1
  <2>2. /\ Front(place) \in Seq(Names) /\ Last(place) \in Names
        /\ place = Append(Front(place), Last(place))
    BY <1>1, <2>1, FrontProperties
  <2>3. PICK s \in Seq(Names), x \in Names : s = Front(place) /\ place = Append(s, x)
    BY <2>2
  <2>4. <<Root>> \o s \in Seq(Names) /\ <<Root>> \o place = Append(<<Root>> \o s, x)
    <3>1. <<Root>> \in Seq(Names)
      BY DEF Names
    <3> QED BY <2>3, <3>1, AfterRoot, ConcatProperties
  <2>5. Front(<<Root>> \o place) = <<Root>> \o s
    BY <2>3, <2>4, AfterRoot, ZenonT(30)
  <2>6. <<Root>> \o place # << >>
    <3>1. PICK t \in Seq(Names) : t = <<Root>> \o s
      BY <2>4
    <3>2. Append(t, x) # << >>
      BY <3>1
    <3> QED BY <2>4, <3>1, <3>2
  <2> QED BY <1>3, <2>1, <2>3, <2>5, <2>6 DEF Walk, Turn
<1>4. CASE part \notin {".", ".."}
  <2>1. done = <<Root>> \o Append(place, part) /\ Append(place, part) \in Seq(Names)
    BY <1>1, <1>4, AfterRoot, AppendProperties DEF Turn
  <2>2. Tail(done) = Append(place, part)
    BY <2>1, AfterRoot
  <2>3. Walk(place, part, taken) = Append(place, part)
    BY <1>4, <2>2 DEF Walk
  <2> QED BY <2>1, <2>3
<1> QED BY <1>2, <1>3, <1>4

\* A path that is written out is normalized to the place it is written to.
LEMMA PlacePlain ==
  ASSUME NEW path \in WritePaths, Plain(path), Place(path) # Missing
  PROVE  normalize_path(path) = <<Root>> \o Place(path)
<1>1. path \in Path /\ path.parts \in Seq(Names) /\ path.parts # << >>
  <2>1. path \in [absolute : BOOLEAN, parts : Seq(Names) \ {<< >>}]
    BY InNames
  <2> QED BY <2>1 DEF Path
<1>2. PICK n \in Nat : n = Len(path.parts) /\ n # 0 /\ n - 1 \in 0..n /\ n \in 1..n /\ n <= n
  <2>1. Len(path.parts) \in Nat /\ Len(path.parts) # 0
    BY <1>1, EmptySeq, LenProperties
  <2> QED BY <2>1
<1>3. path.absolute
  BY DEF Plain
<1>4. PICK h : IsWay(h, path, {})
  BY <1>1, ResolvedIsLast
<1>5. /\ h[0] = << >>
      /\ \A k \in 1..n : h[k] = Walk(h[k - 1], path.parts[k], {}) /\ path.parts[k] \in Names
  <2>1. \A k \in 1..n : path.parts[k] \in Names
    BY <1>1, <1>2, ElementOfSeq
  <2> QED BY <1>2, <1>3, <1>4, <2>1 DEF IsWay, Begin
<1>6. PICK m : IsNormal(m, path)
  BY <1>1, NormalIsLast
<1>7. /\ Len(Components(path)) = n + 1 /\ Components(path)[1] = Root
      /\ \A k \in 1..n : Components(path)[k + 1] = path.parts[k]
  BY <1>1, <1>2, <1>3, AbsoluteComponents
<1>8. /\ m[0] = << >> /\ normalize_path(path) = m[n + 1]
      /\ \A k \in 1..(n + 1) : m[k] = Turn(m[k - 1], Components(path)[k])
  BY <1>6, <1>7 DEF IsNormal
<1>9. ASSUME NEW k \in 1..n
      PROVE  /\ m[k + 1] = Turn(m[k], path.parts[k])
             /\ m[k + 1] # << >> /\ Tail(m[k + 1]) \notin DOMAIN Links
  <2>1. k + 1 \in 1..(n + 1) /\ (k + 1) - 1 = k /\ k \in 0..n
    BY <1>2
  <2>2. m[k + 1] = Turn(m[k], path.parts[k])
    BY <1>7, <1>8, <2>1
  <2>3. normalize_path(Upto(path, k)) = m[k + 1]
    BY <1>1, <1>2, <1>3, <1>6, <2>1, NormalUpto
  <2>4. /\ normalize_path(Upto(path, k)) # << >>
        /\ Tail(normalize_path(Upto(path, k))) \notin DOMAIN Links
    BY <1>2 DEF Plain, Upto
  <2> QED BY <2>2, <2>3, <2>4
<1>10. m[1] = <<Root>>
  <2>1. 1 \in 1..(n + 1) /\ 1 - 1 = 0
    BY <1>2
  <2>2. m[1] = Turn(<< >>, Root)
    BY <1>7, <1>8, <2>1
  <2> QED BY <2>2 DEF Turn, Root
<1> DEFINE Odd == {k \in Nat : k <= n - 1 /\ h[k] \in Dirs /\ m[k + 1] # <<Root>> \o h[k]}
<1>11. Odd = {}
  <2>1. SUFFICES ASSUME Odd # {} PROVE FALSE
    OBVIOUS
  <2>2. PICK k \in Odd : \A l \in Odd : k <= l
    BY <2>1, Least, Zenon
  <2>3. <<Root>> \o << >> = <<Root>> /\ 0 + 1 = 1
    BY InNames, AfterRoot, ConcatEmptySeq DEF Names
  <2>4. k \in Nat /\ k <= n - 1 /\ k # 0 /\ h[k] \in Dirs /\ m[k + 1] # <<Root>> \o h[k]
    BY <1>5, <1>10, <2>2, <2>3
  <2>5. /\ k - 1 \in Nat /\ k - 1 <= n - 1 /\ ~ (k <= k - 1) /\ k \in 1..n
        /\ (k - 1) + 1 = k
    BY <1>2, <2>4
  <2>6. h[k] = Walk(h[k - 1], path.parts[k], {}) /\ path.parts[k] \in Names /\ h[k] # Missing
    BY <1>5, <2>4, <2>5, InNames
  <2>7. h[k - 1] \in Dirs
    BY <2>6 DEF Walk
  <2>8. m[k] = <<Root>> \o h[k - 1]
    BY <2>2, <2>5, <2>7
  <2>9. m[k + 1] = <<Root>> \o h[k]
    <3>1. /\ m[k + 1] = Turn(<<Root>> \o h[k - 1], path.parts[k])
          /\ m[k + 1] # << >> /\ Tail(m[k + 1]) \notin DOMAIN Links
      BY <1>9, <2>5, <2>8
    <3>2. m[k + 1] = <<Root>> \o Walk(h[k - 1], path.parts[k], {})
      BY <2>6, <2>7, <3>1, PlainStep
    <3> QED BY <2>6, <3>2
  <2> QED BY <2>4, <2>9
<1>12. Resolved([path EXCEPT !.parts = Front(@)], {}) = h[n - 1]
  <2>1. Resolved(Upto(path, n - 1), {}) = h[n - 1]
    BY <1>1, <1>2, <1>4, ResolvedUpto
  <2>2. Upto(path, n - 1) = [path EXCEPT !.parts = Front(@)]
    BY <1>2 DEF Upto, Front
  <2> QED BY <2>1, <2>2
<1>13. Last(path.parts) = path.parts[n]
  BY <1>2 DEF Last
<1> DEFINE dir == h[n - 1]
           name == path.parts[n]
<1>14. dir # Missing /\ Place(path) = Walk(dir, name, {Append(dir, name)})
  <2> HIDE DEF Missing
  <2> QED BY <1>12, <1>13 DEF Place
<1>15. dir \in Dirs
  <2> HIDE DEF dir, name
  <2> QED BY <1>14 DEF Walk
<1>16. m[n] = <<Root>> \o dir
  <2>1. n - 1 \in Nat /\ n - 1 <= n - 1 /\ (n - 1) + 1 = n
    BY <1>2
  <2> QED BY <1>11, <1>15, <2>1
<1>17. /\ m[n + 1] = Turn(<<Root>> \o dir, name)
       /\ m[n + 1] # << >> /\ Tail(m[n + 1]) \notin DOMAIN Links
  BY <1>2, <1>9, <1>16
<1>18. name \in Names
  BY <1>2, <1>5
<1> HIDE DEF dir, name
<1>19. m[n + 1] = <<Root>> \o Walk(dir, name, {Append(dir, name)})
  BY <1>14, <1>15, <1>17, <1>18, PlainStep
<1> QED BY <1>8, <1>14, <1>19

\* What begins with a zone is taken to.
LEMMA PrefixStarts ==
  ASSUME NEW zone \in Seq(Names), zone # << >>, NEW text \in Seq(Names), IsPrefix(zone, text)
  PROVE  starts_with(text, zone)
<1>1. PICK n \in Nat : n = Len(zone) /\ n \in 1..n /\ n - 1 \in Nat
  <2>1. Len(zone) \in Nat /\ Len(zone) # 0
    BY EmptySeq, LenProperties
  <2> QED BY <2>1
<1>2. n <= Len(text) /\ SubSeq(text, 1, n) = zone
  BY <1>1 DEF IsPrefix
<1>3. text[n] = zone[n]
  <2>1. PICK l \in Nat : l = Len(text) /\ n <= l
    BY <1>2, LenProperties
  <2>2. \A i \in 1..n : i \in 1..l
    BY <2>1
  <2>3. \A i \in 1..n : text[i] \in Names
    BY <2>1, <2>2, ElementOfSeq
  <2>4. \A i \in 1..n : SubSeq(text, 1, n)[i] = text[i]
    BY <1>1, <2>3, SubSeqProperties
  <2> QED BY <1>1, <1>2, <2>4
<1> QED BY <1>1, <1>2, <1>3 DEF starts_with

\* A path is told the two ways it is tested: a way to a zone that is seen in either is
\* refused.
LEMMA JudgedOutside ==
  ASSUME NEW path \in WritePaths, NEW taken, validate_write_path(path, taken),
         Resolved(path, taken) # Missing \/ Plain(path)
  PROVE  ~ InZone(Place(path))
<1>1. SUFFICES ASSUME InZone(Place(path)) PROVE FALSE
  OBVIOUS
<1>2. PICK zone \in immutable_zones : IsPrefix(zone, <<Root>> \o Place(path))
  BY <1>1 DEF InZone
<1>3. Place(path) # Missing /\ zone \in Seq(Names) /\ zone # << >>
  BY <1>1, InNames DEF InZone
<1>4. path \in Path /\ path.parts \in Seq(Names) /\ path.parts # << >>
  <2>1. path \in [absolute : BOOLEAN, parts : Seq(Names) \ {<< >>}]
    BY InNames
  <2> QED BY <2>1 DEF Path
<1>5. Place(path) \in Seq(Names)
  <2>1. Front(path.parts) \in Seq(Names) /\ Last(path.parts) \in Names
    BY <1>4, FrontProperties
  <2>2. PICK part : part = [path EXCEPT !.parts = Front(@)] /\ part \in Path
    <3>1. [path EXCEPT !.parts = Front(@)] \in Path
      BY <1>4, <2>1 DEF Path
    <3> QED BY <3>1
  <2>3. PICK f : IsWay(f, part, {})
    BY <2>2, ResolvedIsLast
  <2>4. Resolved(part, {}) \in Seq(Names)
    <3>1. Len(part.parts) \in 0..Len(part.parts)
      <4>1. Len(part.parts) \in Nat
        BY <2>2, LenProperties DEF Path
      <4> QED BY <4>1
    <3> QED BY <2>3, <3>1 DEF IsWay
  <2> HIDE DEF Missing
  <2> QED BY <2>1, <2>2, <2>4, WalkType, InNames DEF Place
<1>6. <<Root>> \o Place(path) \in Seq(Names)
  <2>1. <<Root>> \in Seq(Names)
    BY DEF Names
  <2> QED BY <1>5, <2>1, ConcatProperties
<1>7. starts_with(<<Root>> \o Place(path), zone)
  BY <1>2, <1>3, <1>6, PrefixStarts
<1>8. Canonical(path, taken) = <<Root>> \o Place(path)
  <2>1. CASE Resolved(path, taken) # Missing
    BY <2>1, PlaceResolved DEF Canonical
  <2>2. CASE Resolved(path, taken) = Missing
    <3>1. normalize_path(path) = <<Root>> \o Place(path)
      BY <1>3, <2>2, PlacePlain
    <3> QED BY <2>2, <3>1 DEF Canonical
  <2> QED BY <2>1, <2>2
<1> QED BY <1>2, <1>7, <1>8 DEF validate_write_path

\* What is known of a write between its judgement and itself.
Targets == [path : WritePaths \cup {NoTarget.path}, there : BOOLEAN]
ZoneInv == target \in [Requests -> Targets] /\ ZonesStand

\* A step that judges nothing, starts no write and changes no other target than that
\* of a request that is done leaves what is known.
LEMMA TargetsKept ==
  ASSUME ZoneInv, target' \in [Requests -> Targets],
         \A r \in Requests : pc'[r] = "writing" => pc[r] = "writing" /\ target'[r] = target[r]
  PROVE  ZoneInv'
<1>1. ZonesStand'
  <2> SUFFICES ASSUME NEW r \in Requests, pc'[r] = "writing",
                      target'[r].there \/ Plain(target'[r].path)
               PROVE  ~ InZone(Place(target'[r].path))
    BY DEF ZonesStand
  <2>1. pc[r] = "writing" /\ target'[r] = target[r]
    OBVIOUS
  <2> QED BY <2>1 DEF ZoneInv, ZonesStand
<1> QED BY <1>1 DEF ZoneInv

\* No step of a process puts a request to writing.
LEMMA ServeWritesNothing ==
  ASSUME IInv, Serve
  PROVE  \A r \in Requests : pc'[r] = "writing" => pc[r] = "writing"
<1> SUFFICES ASSUME NEW q \in Requests, pc'[q] = "writing" PROVE pc[q] = "writing"
  OBVIOUS
<1>1. PICK r, from, to : r \in Requests /\ to # "writing" /\ Go(r, from, to)
  <2>1. ASSUME NEW r \in Requests, NEW binary \in Binaries, Build(r, binary)
        PROVE  \E from, to : to # "writing" /\ Go(r, from, to)
    BY <2>1 DEF Build
  <2>2. ASSUME NEW r \in Requests, Fork(r) PROVE \E from, to : to # "writing" /\ Go(r, from, to)
    BY <2>2 DEF Fork
  <2>3. ASSUME NEW r \in Requests, Provider(r) PROVE \E from, to : to # "writing" /\ Go(r, from, to)
    BY <2>3 DEF Provider, apply_prctl, apply_network_isolation, AfterUnshareFails, apply_rlimits,
                Exec
  <2>4. ASSUME NEW r \in Requests, Job(r) PROVE \E from, to : to # "writing" /\ Go(r, from, to)
    BY <2>4 DEF Job, CreateJob, LimitJob, OpenProcess, AssignJob, Go
  <2> QED BY <2>1, <2>2, <2>3, <2>4 DEF Serve
<1>2. pc'[q] = IF q = r THEN to ELSE pc[q]
  BY <1>1, Gone DEF IInv
<1> QED BY <1>1, <1>2

\* A file in a zone that was there when it was judged is not written to, by whatever way
\* it is named, and no new one under a plain path, whatever has been written between
\* the judgement and the write.
THEOREM ZonesKept == ContainmentSpec => []ZonesStand
<1>1. ContainmentInit => ZoneInv
  BY DEF ContainmentInit, ConfinementInit, ZoneInv, ZonesStand, Targets, NoTarget
<1>2. IInv /\ ZoneInv /\ [ContainmentNext]_contained => ZoneInv'
  <2> SUFFICES ASSUME IInv, ZoneInv, [ContainmentNext]_contained PROVE ZoneInv'
    OBVIOUS
  <2>1. ASSUME NEW r \in Requests, NEW shell \in CommandLines, JudgeCommand(r, shell) PROVE ZoneInv'
    <3>1. PICK to \in {"judged", "refused"} : Go(r, "idle", to) /\ UNCHANGED target
      BY <2>1 DEF JudgeCommand, Judge
    <3>2. \A q \in Requests : pc'[q] = IF q = r THEN to ELSE pc[q]
      BY <3>1, Gone DEF IInv
    <3> QED BY <3>1, <3>2, TargetsKept DEF ZoneInv
  <2>2. ASSUME NEW r \in Requests, NEW path \in WritePaths, JudgeWrite(r, path) PROVE ZoneInv'
    <3>1. CASE validate_write_path(path, files)
      <4> DEFINE new == [path |-> path, there |-> Resolved(path, files) # Missing]
      <4>1. Go(r, "idle", "writing") /\ target' = [target EXCEPT ![r] = new]
        BY <2>2, <3>1 DEF JudgeWrite
      <4>2. \A q \in Requests : pc'[q] = IF q = r THEN "writing" ELSE pc[q]
        BY <4>1, Gone DEF IInv
      <4>3. new \in Targets
        BY DEF Targets
      <4>4. new.there \/ Plain(new.path) => ~ InZone(Place(new.path))
        BY <3>1, JudgedOutside
      <4> HIDE DEF new
      <4>5. target' \in [Requests -> Targets]
        BY <4>1, <4>3 DEF ZoneInv
      <4>6. \A q \in Requests : target'[q] = IF q = r THEN new ELSE target[q]
        BY <4>1 DEF ZoneInv
      <4>7. ZonesStand'
        <5> SUFFICES ASSUME NEW q \in Requests, pc'[q] = "writing",
                            target'[q].there \/ Plain(target'[q].path)
                     PROVE  ~ InZone(Place(target'[q].path))
          BY DEF ZonesStand
        <5>1. CASE q = r
          BY <4>4, <4>6, <5>1
        <5>2. CASE q # r
          BY <4>2, <4>6, <5>2 DEF ZoneInv, ZonesStand
        <5> QED BY <5>1, <5>2
      <4> QED BY <4>5, <4>7 DEF ZoneInv
    <3>2. CASE ~ validate_write_path(path, files)
      <4>1. Go(r, "idle", "refused") /\ UNCHANGED target
        BY <2>2, <3>2 DEF JudgeWrite
      <4>2. \A q \in Requests : pc'[q] = IF q = r THEN "refused" ELSE pc[q]
        BY <4>1, Gone DEF IInv
      <4> QED BY <4>1, <4>2, TargetsKept DEF ZoneInv
    <3> QED BY <3>1, <3>2
  <2>3. ASSUME NEW r \in Requests, Write(r) PROVE ZoneInv'
    <3>1. Go(r, "writing", "idle") /\ target' = [target EXCEPT ![r] = NoTarget]
      BY <2>3 DEF Write
    <3>2. \A q \in Requests : pc'[q] = IF q = r THEN "idle" ELSE pc[q]
      BY <3>1, Gone DEF IInv
    <3>3. target' \in [Requests -> Targets]
      BY <3>1 DEF ZoneInv, Targets, NoTarget
    <3>4. \A q \in Requests : q # r => target'[q] = target[q]
      BY <3>1 DEF ZoneInv
    <3> QED BY <3>2, <3>3, <3>4, TargetsKept
  <2>4. CASE Serve /\ UNCHANGED target
    BY <2>4, ServeWritesNothing, TargetsKept DEF ZoneInv
  <2>5. CASE (Log /\ UNCHANGED target) \/ UNCHANGED contained
    <3>1. UNCHANGED <<pc, target>>
      BY <2>5, Unchanged DEF Log
    <3> QED BY <3>1, TargetsKept DEF ZoneInv
  <2> QED BY <2>1, <2>2, <2>3, <2>4, <2>5 DEF ContainmentNext
<1>3. ZoneInv => ZonesStand
  BY DEF ZoneInv
<1> QED BY <1>1, <1>2, <1>3, Invariant, PTL DEF ContainmentSpec

--------------------------------------------------------------------------------
(* What is looked at of a command                                          *)

\* A kind of mark is taken off what begins at m when what is left begins at k.
IsTrimmed(s, m, mark, k) ==
  Trimmed(SubSeq(s, m, Len(s)), mark) = SubSeq(s, k, Len(s)) /\ s[k] # mark

\* What is left of a segment that begins with marks when one kind of them is taken
\* off: it begins where the first other token is, at the latest behind the marks.
LEMMA TrimmedFrom ==
  ASSUME NEW T, NEW s \in Seq(T), NEW m \in 1..Len(s), NEW q \in m..Len(s), NEW mark, s[q] # mark
  PROVE  \E k \in m..q : IsTrimmed(s, m, mark, k)
<1> DEFINE n == Len(s)
           rest == SubSeq(s, m, n)
           others == {i \in DOMAIN rest : rest[i] # mark}
           l == Min(others \cup {Len(rest) + 1})
<1>1. n \in Nat /\ m \in Nat /\ q \in Nat /\ m <= q /\ q <= n /\ 1 <= m
  BY LenProperties
<1>2. /\ rest \in Seq(T) /\ Len(rest) = n - m + 1 /\ DOMAIN rest = 1..(n - m + 1)
      /\ \A i \in 1..(n - m + 1) : rest[i] = s[m + i - 1]
  BY <1>1, SubSeqProperties
<1> HIDE DEF rest
<1>3. q - m + 1 \in others
  <2>1. q - m + 1 \in 1..(n - m + 1) /\ m + (q - m + 1) - 1 = q
    BY <1>1
  <2> QED BY <1>2, <2>1
<1>4. l \in others \cup {Len(rest) + 1} /\ \A y \in others \cup {Len(rest) + 1} : l <= y
  <2>1. others \cup {Len(rest) + 1} \in SUBSET Nat /\ others \cup {Len(rest) + 1} # {}
    BY <1>1, <1>2
  <2> HIDE DEF others
  <2> QED BY <2>1, MinIsLeast
<1>5. PICK a : a = l
  OBVIOUS
<1>6. /\ a \in others \cup {Len(rest) + 1} /\ \A y \in others : a <= y
      /\ others \subseteq 1..(n - m + 1)
  BY <1>2, <1>4, <1>5
<1>a. a <= q - m + 1 /\ a \in others /\ 1 <= a /\ a \in Nat
  <2> HIDE DEF others, l, n
  <2> QED BY <1>1, <1>2, <1>3, <1>6
<1> DEFINE k == m + a - 1
<1>7. k \in m..q /\ k \in Nat
  BY <1>1, <1>a
<1>8. s[k] # mark
  BY <1>2, <1>a
<1>10. Trimmed(rest, mark) = SubSeq(s, k, n)
  <2>1. Trimmed(rest, mark) = SubSeq(rest, a, n - m + 1)
    BY <1>2, <1>5 DEF Trimmed
  <2>2. SubSeq(rest, a, n - m + 1) = SubSeq(s, k, n)
    <3>1. a \in 1..(n - m + 1) /\ m + a - 1 = k
      BY <1>1, <1>a
    <3> QED BY <1>1, <3>1, SubSeqOfSubSeq DEF rest
  <2> QED BY <2>1, <2>2
<1> QED BY <1>7, <1>8, <1>10 DEF rest, IsTrimmed

\* What is before a place are marks, in the order in which they are taken off.
MarksTo(s, q) ==
  /\ \A i \in 1..(q - 1) : s[i] \in Openers
  /\ \A i, j \in 1..(q - 1) : i < j =>
       /\ s[i] = "tick" => s[j] = "tick"
       /\ s[i] = "dollar" => s[j] # "paren"

\* Such marks are all taken off.
LEMMA OpenedFrom ==
  ASSUME NEW T, NEW s \in Seq(T), NEW q \in 1..Len(s), s[q] \notin Openers \cup {"newline"},
         MarksTo(s, q)
  PROVE  Opened(s) = SubSeq(s, q, Len(s))
<1>1. PICK n \in Nat : n = Len(s)
  BY LenProperties, Zenon
<1>2. s[q] # "paren" /\ s[q] # "dollar" /\ s[q] # "tick"
  BY DEF Openers
<1>a. q \in Nat /\ 1 <= q /\ q <= n
  <2>1. q \in 1..n
    BY <1>1
  <2> QED BY <2>1
<1>3. PICK a \in 1..q : IsTrimmed(s, 1, "paren", a)
  <2>1. 1 \in 1..n /\ q \in 1..n
    BY <1>a
  <2> QED BY <1>1, <1>2, <2>1, TrimmedFrom
<1>b. a \in Nat /\ 1 <= a /\ a <= q
  BY <1>a
<1>4. PICK b \in a..q : IsTrimmed(s, a, "dollar", b)
  <2>1. a \in 1..n /\ q \in a..n
    BY <1>a, <1>b
  <2> QED BY <1>1, <1>2, <2>1, TrimmedFrom
<1>c. b \in Nat /\ a <= b /\ b <= q
  BY <1>a, <1>b
<1>5. PICK c \in b..q : IsTrimmed(s, b, "tick", c)
  <2>1. b \in 1..n /\ q \in b..n
    BY <1>a, <1>b, <1>c
  <2> QED BY <1>1, <1>2, <2>1, TrimmedFrom
<1>d. c \in Nat /\ b <= c /\ c <= q
  BY <1>a, <1>c
<1>e. Trimmed(s, "newline") = s
  <2>1. s[1] # "newline"
    <3>1. CASE q = 1
      BY <3>1
    <3>2. CASE q # 1
      <4>1. 1 \in 1..(q - 1)
        BY <1>a, <3>2
      <4>2. s[1] \in Openers
        BY <4>1 DEF MarksTo
      <4> QED BY <4>2 DEF Openers
    <3> QED BY <3>1, <3>2
  <2>2. 1 \in 1..n /\ 1 \in 1..1
    BY <1>a
  <2>3. PICK k \in 1..1 : IsTrimmed(s, 1, "newline", k)
    BY <1>1, <2>1, <2>2, TrimmedFrom
  <2>4. k = 1
    BY <2>3
  <2> QED BY <2>3, <2>4, SubSeqFull DEF IsTrimmed
<1>6. Opened(s) = SubSeq(s, c, Len(s))
  BY <1>1, <1>3, <1>4, <1>5, <1>e, SubSeqFull DEF Opened, IsTrimmed
<1>7. ASSUME c < q PROVE FALSE
  <2>1. /\ a \in 1..(q - 1) /\ b \in 1..(q - 1) /\ c \in 1..(q - 1)
        /\ (a = b \/ a < b) /\ (b = c \/ b < c) /\ (a = c \/ a < c)
    BY <1>a, <1>b, <1>c, <1>d, <1>7
  <2>5. s[a] \in Openers /\ s[b] \in Openers /\ s[c] \in Openers
    BY <2>1 DEF MarksTo
  <2>6. s[c] # "paren"
    BY <1>3, <2>1, <2>5 DEF Openers, MarksTo, IsTrimmed
  <2>7. s[b] # "paren"
    BY <1>3, <2>1, <2>5 DEF Openers, MarksTo, IsTrimmed
  <2>8. s[c] # "dollar"
    BY <1>4, <1>5, <2>1, <2>5, <2>7 DEF Openers, MarksTo, IsTrimmed
  <2> QED BY <1>5, <2>5, <2>6, <2>8 DEF Openers, IsTrimmed
<1>8. c = q
  BY <1>a, <1>d, <1>7
<1> QED BY <1>6, <1>8

\* Behind the marks the assignments are passed over, and the binary found.
LEMMA BinaryFrom ==
  ASSUME NEW T, NEW s \in Seq(T), NEW q \in 1..Len(s), Opened(s) = SubSeq(s, q, Len(s)),
         NEW h \in q..Len(s), s[h] \notin Assignments \cup {"newline"},
         \A i \in q..(h - 1) : s[i] \in Assignments
  PROVE  BinaryOf(s) = <<Bare[s[h]]>>
<1> DEFINE n == Len(s)
           clean == Opened(s)
           words == {i \in DOMAIN clean : clean[i] \notin Assignments \cup {"newline"}}
<1>1. n \in Nat /\ q \in Nat /\ h \in Nat /\ 1 <= q /\ q <= h /\ h <= n
  BY LenProperties
<1>2. /\ DOMAIN clean = 1..(n - q + 1)
      /\ \A i \in 1..(n - q + 1) : clean[i] = s[q + i - 1]
  <2>1. clean \in Seq(T) /\ Len(clean) = n - q + 1 /\ \A i \in 1..(n - q + 1) : clean[i] = s[q + i - 1]
    BY <1>1, SubSeqProperties
  <2> HIDE DEF clean
  <2> QED BY <2>1, LenProperties
<1> HIDE DEF clean, n
<1>3. h - q + 1 \in words /\ clean[h - q + 1] = s[h]
  <2>1. h - q + 1 \in 1..(n - q + 1) /\ q + (h - q + 1) - 1 = h
    BY <1>1
  <2> QED BY <1>2, <2>1
<1>4. \A i \in words : h - q + 1 <= i
  <2> SUFFICES ASSUME NEW i \in words, ~ (h - q + 1 <= i) PROVE FALSE
    BY <1>1, <1>2
  <2>1. i \in 1..(n - q + 1) /\ q + i - 1 \in q..(h - 1)
    BY <1>1, <1>2
  <2> QED BY <1>2, <2>1
<1>5. Min(words) = h - q + 1
  <2>1. words \in SUBSET Nat /\ words # {}
    <3>1. \A i \in 1..(n - q + 1) : i \in Nat
      OBVIOUS
    <3> QED BY <1>2, <1>3, <3>1
  <2>2. Min(words) \in words /\ Min(words) <= h - q + 1 /\ h - q + 1 <= Min(words) /\ Min(words) \in Nat
    <3> HIDE DEF words
    <3> QED BY <1>3, <1>4, <2>1, MinIsLeast
  <2> HIDE DEF words
  <2> QED BY <1>1, <2>2
<1>6. words # {}
  BY <1>3
<1>7. BinaryOf(s) = <<Bare[clean[Min(words)]]>>
  BY <1>6 DEF BinaryOf, clean
<1> QED BY <1>3, <1>5, <1>7

--------------------------------------------------------------------------------
(* The segments                                                            *)

Pieces(T) == {d \in Seq(Seq(T)) : d # << >>}

\* The states of the split, token after token.
IsSplit(f, T, command) ==
  /\ f \in [0..Len(command) -> Pieces(T)]
  /\ f[0] = <<<< >>>>
  /\ \A k \in 1..Len(command) : f[k] = Split(f[k - 1], command[k])
  /\ Segments(command) = f[Len(command)]

\* A token opens a new piece or goes to the last one.
LEMMA SplitType ==
  ASSUME NEW T, NEW d \in Pieces(T), NEW t \in T
  PROVE  /\ Split(d, t) \in Pieces(T)
         /\ t \in Separators =>
              /\ Len(Split(d, t)) = Len(d) + 1 /\ Split(d, t)[Len(d) + 1] = << >>
              /\ \A i \in 1..Len(d) : Split(d, t)[i] = d[i]
         /\ t \notin Separators =>
              /\ Len(Split(d, t)) = Len(d) /\ Split(d, t)[Len(d)] = Append(d[Len(d)], t)
              /\ \A i \in 1..(Len(d) - 1) : Split(d, t)[i] = d[i]
<1>1. PICK n \in Nat : /\ n = Len(d) /\ n # 0 /\ d \in Seq(Seq(T))
                       /\ DOMAIN d = 1..n /\ \A i \in 1..n : d[i] \in Seq(T)
  <2>1. d \in Seq(Seq(T)) /\ d # << >>
    BY DEF Pieces
  <2> QED BY <2>1, LenProperties, ElementOfSeq, EmptySeq
<1>2. CASE t \in Separators
  <2>1. << >> \in Seq(T)
    OBVIOUS
  <2>2. PICK e : e = << >> /\ e \in Seq(T)
    BY <2>1
  <2>3. /\ Append(d, e) \in Seq(Seq(T)) /\ Len(Append(d, e)) = n + 1
        /\ Append(d, e)[n + 1] = e /\ \A i \in 1..n : Append(d, e)[i] = d[i]
    BY <1>1, <2>2, AppendProperties
  <2>4. Append(d, e) # << >>
    <3>1. n + 1 # 0
      BY <1>1
    <3> QED BY <2>3, <3>1, EmptySeq
  <2>5. Split(d, t) = Append(d, e)
    BY <1>2, <2>2 DEF Split
  <2> QED BY <1>1, <1>2, <2>2, <2>3, <2>4, <2>5 DEF Pieces
<1>3. CASE t \notin Separators
  <2>1. PICK e : e = Append(d[n], t) /\ e \in Seq(T)
    <3>1. d[n] \in Seq(T)
      BY <1>1
    <3> QED BY <3>1, AppendProperties
  <2>2. PICK g : g = SubSeq(d, 1, n - 1) /\ g \in Seq(Seq(T)) /\ Len(g) = n - 1
                 /\ \A i \in 1..(n - 1) : g[i] = d[i]
    <3>0. n # 0
      BY <1>1
    <3>a. n - 1 \in Nat /\ n - 1 = n - 1 - 1 + 1
      BY <3>0
    <3>1. PICK m \in Nat : m = n - 1 /\ m - 1 + 1 = m
      BY <3>a
    <3>2. \A i \in 1..m : i \in 1..n /\ 1 + i - 1 = i
      BY <1>1, <3>1
    <3>3. PICK g : g = SubSeq(d, 1, m)
      OBVIOUS
    <3>4. /\ g \in Seq(Seq(T)) /\ Len(g) = IF 1 <= m THEN m - 1 + 1 ELSE 0
          /\ \A i \in 1..(m - 1 + 1) : g[i] = d[1 + i - 1]
      BY <1>1, <3>1, <3>2, <3>3, SubSeqProperties
    <3>5. Len(g) = m
      BY <3>1, <3>4
    <3> QED BY <3>1, <3>2, <3>3, <3>4, <3>5
  <2>3. /\ Append(g, e) \in Seq(Seq(T)) /\ Len(Append(g, e)) = n
        /\ Append(g, e)[n] = e /\ \A i \in 1..(n - 1) : Append(g, e)[i] = g[i]
    <3>1. (n - 1) + 1 = n
      BY <1>1
    <3> QED BY <2>1, <2>2, <3>1, AppendProperties
  <2>4. Append(g, e) # << >>
    BY <1>1, <2>3
  <2>5. Split(d, t) = Append(g, e)
    BY <1>1, <1>3, <2>1, <2>2 DEF Split, Front, Last
  <2> QED BY <1>1, <1>3, <2>1, <2>2, <2>3, <2>4, <2>5 DEF Pieces
<1> QED BY <1>2, <1>3

\* The split takes one token after the other.
LEMMA SplitIsLast ==
  ASSUME NEW T, NEW command \in Seq(T)
  PROVE  \E f : IsSplit(f, T, command)
<1> DEFINE V == Pieces(T)
           D == DOMAIN command
           n == Len(command)
           first == <<<< >>>>
           step == [k \in 1..n |-> [d \in V |-> Split(d, command[k])]]
           IsFold(iter) ==
             iter = [s \in SUBSET D |->
                       IF s = {} THEN first ELSE Split(iter[s \ {Max(s)}], command[Max(s)])]
           fold == CHOOSE iter : IsFold(iter)
           f == [k \in 0..n |-> fold[1..k]]
<1>1. D = 1..n /\ n \in Nat /\ \A k \in 1..n : command[k] \in T
  BY LenProperties, ElementOfSeq
<1>2. first \in V
  BY DEF Pieces
<1>3. step \in [1..n -> [V -> V]]
  BY <1>1, SplitType
<1>4. PICK g \in [SUBSET (1..n) -> V] :
        \A s \in SUBSET (1..n) : g[s] = IF s = {} THEN first ELSE step[Max(s)][g[s \ {Max(s)}]]
  <2>1. PICK g : IsFoldOver(g, V, n, first, step)
    <3> HIDE DEF step, n, V, first
    <3> QED BY <1>1, <1>2, <1>3, FoldExists
  <2> HIDE DEF step, n
  <2> QED BY <2>1 DEF IsFoldOver
<1> HIDE DEF first
<1>5. ASSUME NEW s \in SUBSET (1..n), s # {}
      PROVE  Max(s) \in 1..n /\ s \ {Max(s)} \in SUBSET (1..n)
  <2>1. Max(s) \in s
    BY <1>1, <1>5, Greatest
  <2> QED BY <2>1
<1>6. IsFold(g)
  <2>1. \A s \in SUBSET (1..n) :
          g[s] = IF s = {} THEN first ELSE Split(g[s \ {Max(s)}], command[Max(s)])
    BY <1>4, <1>5
  <2> QED BY <1>1, <1>4, <2>1
<1>7. IsFold(fold)
  <2> HIDE DEF IsFold
  <2> QED BY <1>6
<1>8. Segments(command) = fold[D]
  BY DEF Segments, FoldLeft, MapThenFoldSet, first
<1> HIDE DEF fold
<1>9. f[0] = first /\ Segments(command) = f[n]
  <2>1. 1..0 = {} /\ 0 \in 0..n /\ n \in 0..n
    BY <1>1
  <2>2. fold[{}] = first
    BY <1>7
  <2> QED BY <1>1, <1>8, <2>1, <2>2
<1>10. ASSUME NEW k \in 1..n PROVE f[k] = Split(f[k - 1], command[k])
  <2>1. 1..k # {} /\ Max(1..k) = k /\ (1..k) \ {Max(1..k)} = 1..(k - 1)
    BY <1>1, FoldPrefix
  <2>2. 1..k \in SUBSET D /\ k \in 0..n /\ k - 1 \in 0..n
    BY <1>1
  <2>3. fold[1..k] = Split(fold[(1..k) \ {Max(1..k)}], command[Max(1..k)])
    BY <1>7, <2>1, <2>2
  <2> QED BY <2>1, <2>2, <2>3
<1> DEFINE Odd == {k \in Nat : k <= n /\ f[k] \notin V}
<1>11. DOMAIN f = 0..n /\ f = [k \in 0..n |-> f[k]]
  OBVIOUS
<1> HIDE DEF f, V
<1>12. CASE Odd # {}
  <2>1. PICK k \in Odd : \A l \in Odd : k <= l
    BY <1>12, Least, Zenon
  <2>2. k \in Nat /\ k <= n /\ k # 0 /\ f[k] \notin V
    BY <1>2, <1>9, <2>1
  <2>3. k - 1 \in Nat /\ k - 1 <= n /\ ~ (k <= k - 1) /\ k \in 1..n
    BY <1>1, <2>2
  <2>4. f[k - 1] \in V
    BY <2>1, <2>3
  <2>5. f[k] \in V
    BY <1>1, <1>10, <2>3, <2>4, SplitType DEF V
  <2> QED BY <2>2, <2>5
<1>13. CASE Odd = {}
  <2>1. \A k \in 0..n : k \in Nat /\ k <= n
    BY <1>1
  <2>2. \A k \in 0..n : f[k] \in V
    BY <1>13, <2>1
  <2>3. f \in [0..n -> Pieces(T)]
    BY <1>11, <2>2 DEF V
  <2>4. IsSplit(f, T, command)
    BY <1>9, <1>10, <2>3 DEF IsSplit, first
  <2> QED BY <2>4
<1> QED BY <1>12, <1>13

\* A stretch of tokens with a separator, or the end, on either side and none in it.
Stretch(command, a, b) ==
  /\ a \in 1..Len(command) /\ b \in a..Len(command)
  /\ a # 1 => command[a - 1] \in Separators
  /\ b # Len(command) => command[b + 1] \in Separators
  /\ \A i \in a..b : command[i] \notin Separators

\* Tokens behind a separator, or the beginning, with none in them are in one stretch.
LEMMA StretchFrom ==
  ASSUME NEW T, NEW command \in Seq(T), NEW a \in 1..Len(command), NEW e \in a..Len(command),
         a # 1 => command[a - 1] \in Separators,
         \A i \in a..e : command[i] \notin Separators
  PROVE  \E b \in e..Len(command) : Stretch(command, a, b)
<1>1. PICK n \in Nat : n = Len(command)
  BY LenProperties
<1>2. a \in Nat /\ e \in Nat /\ 1 <= a /\ a <= e /\ e <= n
  BY <1>1
<1> DEFINE Ends == {k \in Nat : e <= k /\ k <= n /\ (k = n \/ command[k + 1] \in Separators)}
<1>3. n \in Ends
  BY <1>2
<1>4. PICK b \in Ends : \A k \in Ends : b <= k
  BY <1>3, Least, Zenon
<1>5. b \in Nat /\ e <= b /\ b <= n /\ (b = n \/ command[b + 1] \in Separators)
  BY <1>4
<1>6. \A i \in a..b : command[i] \notin Separators
  <2> SUFFICES ASSUME NEW i \in a..b, command[i] \in Separators PROVE FALSE
    OBVIOUS
  <2>1. ~ (i \in a..e)
    OBVIOUS
  <2>2. e <= i - 1 /\ i - 1 <= n /\ i - 1 \in Nat /\ (i - 1) + 1 = i /\ ~ (b <= i - 1)
    BY <1>2, <1>5, <2>1
  <2>3. i - 1 \in Ends
    BY <2>2
  <2> QED BY <1>4, <2>2, <2>3
<1>7. b \in e..Len(command) /\ b \in a..Len(command)
  BY <1>1, <1>2, <1>5
<1>8. b # Len(command) => command[b + 1] \in Separators
  BY <1>1, <1>5
<1> HIDE DEF Ends
<1> QED BY <1>6, <1>7, <1>8 DEF Stretch

\* What the split has made of it after so many tokens.
Kept(d, command, a, b, k) ==
  /\ a - 1 <= k /\ k <= b => d[Len(d)] = SubSeq(command, a, k)
  /\ b < k => \E j \in 1..(Len(d) - 1) : d[j] = SubSeq(command, a, b)

\* One more token keeps what the split has made of a stretch.
LEMMA KeptStep ==
  ASSUME NEW T, NEW command \in Seq(T), NEW a, NEW b, Stretch(command, a, b),
         NEW k \in 1..Len(command), NEW d \in Pieces(T), Kept(d, command, a, b, k - 1)
  PROVE  Kept(Split(d, command[k]), command, a, b, k)
<1>1. PICK n \in Nat : n = Len(command) /\ \A i \in 1..n : command[i] \in T
  BY LenProperties, ElementOfSeq
<1>2. /\ a \in Nat /\ 1 <= a /\ a <= b /\ b \in Nat /\ b <= n
      /\ k \in Nat /\ 1 <= k /\ k <= n
  <2>1. a \in 1..n /\ b \in a..n /\ k \in 1..n
    BY <1>1 DEF Stretch
  <2> QED BY <2>1
<1>3. PICK m \in Nat : m = Len(d) /\ m # 0
  <2>1. d \in Seq(Seq(T)) /\ d # << >>
    BY DEF Pieces
  <2> QED BY <2>1, LenProperties, EmptySeq
<1>4. PICK next : next = Split(d, command[k])
  OBVIOUS
<1>5. /\ command[k] \in Separators =>
           /\ Len(next) = m + 1 /\ next[m + 1] = << >> /\ \A i \in 1..m : next[i] = d[i]
      /\ command[k] \notin Separators =>
           /\ Len(next) = m /\ next[m] = Append(d[m], command[k])
           /\ \A i \in 1..(m - 1) : next[i] = d[i]
  <2>1. command[k] \in T
    BY <1>1
  <2>2. PICK t \in T : t = command[k]
    BY <2>1
  <2>3. /\ t \in Separators =>
             /\ Len(Split(d, t)) = Len(d) + 1 /\ Split(d, t)[Len(d) + 1] = << >>
             /\ \A i \in 1..Len(d) : Split(d, t)[i] = d[i]
        /\ t \notin Separators =>
             /\ Len(Split(d, t)) = Len(d) /\ Split(d, t)[Len(d)] = Append(d[Len(d)], t)
             /\ \A i \in 1..(Len(d) - 1) : Split(d, t)[i] = d[i]
    BY SplitType, Zenon
  <2> QED BY <1>3, <1>4, <2>2, <2>3
<1>6. ASSUME a - 1 <= k, k <= b PROVE next[Len(next)] = SubSeq(command, a, k)
  <2>1. CASE k = a - 1
    <3>1. command[k] \in Separators
      BY <1>2, <2>1 DEF Stretch
    <3>2. SubSeq(command, a, k) = << >>
      <4>1. k < a /\ a \in Int /\ k \in Int
        BY <1>2, <2>1
      <4> QED BY <4>1, SubSeqEmpty
    <3> QED BY <1>5, <3>1, <3>2
  <2>2. CASE k # a - 1
    <3>1. a <= k /\ a - 1 <= k - 1 /\ k - 1 <= b /\ k \in a..b
      BY <1>2, <1>6, <2>2
    <3>2. command[k] \notin Separators
      BY <3>1 DEF Stretch
    <3>3. d[m] = SubSeq(command, a, k - 1)
      BY <1>3, <3>1 DEF Kept
    <3>4. SubSeq(command, a, k) = SubSeq(command, a, k - 1) \o <<command[k]>>
      <4>1. a \in 1..Len(command) /\ k \in a..Len(command)
        BY <1>1, <1>2, <3>1
      <4> QED BY <4>1, SubSeqRecursiveSecond
    <3>5. Append(SubSeq(command, a, k - 1), command[k]) = SubSeq(command, a, k - 1) \o <<command[k]>>
      <4>1. \A i \in a..(k - 1) : command[i] \in T
        BY <1>1, <1>2
      <4>2. a \in Int /\ k - 1 \in Int
        BY <1>2
      <4>3. SubSeq(command, a, k - 1) \in Seq(T) /\ command[k] \in T
        BY <1>1, <4>1, <4>2, SubSeqProperties
      <4> QED BY <4>3, AppendIsConcat
    <3> QED BY <1>5, <3>2, <3>3, <3>4, <3>5
  <2> QED BY <2>1, <2>2
<1>7. ASSUME b < k PROVE \E j \in 1..(Len(next) - 1) : next[j] = SubSeq(command, a, b)
  <2>1. CASE k = b + 1
    <3>1. command[k] \in Separators
      BY <1>1, <1>2, <2>1 DEF Stretch
    <3>2. d[m] = SubSeq(command, a, b)
      <4>1. a - 1 <= k - 1 /\ k - 1 <= b /\ k - 1 = b
        BY <1>2, <2>1
      <4> QED BY <1>3, <4>1 DEF Kept
    <3>3. m \in 1..m /\ m \in 1..((m + 1) - 1)
      BY <1>3
    <3> QED BY <1>5, <3>1, <3>2, <3>3
  <2>2. CASE k # b + 1
    <3>1. b < k - 1
      BY <1>2, <1>7, <2>2
    <3>2. PICK j \in 1..(m - 1) : d[j] = SubSeq(command, a, b)
      BY <1>3, <3>1 DEF Kept
    <3>3. j \in 1..m /\ j \in 1..((m + 1) - 1)
      BY <1>3
    <3> QED BY <1>5, <3>2, <3>3
  <2> QED BY <2>1, <2>2
<1> QED BY <1>4, <1>6, <1>7 DEF Kept

\* Such a stretch is one of the pieces.
LEMMA StretchIsPiece ==
  ASSUME NEW T, NEW command \in Seq(T), NEW a, NEW b, Stretch(command, a, b)
  PROVE  \E j \in DOMAIN Segments(command) : Segments(command)[j] = SubSeq(command, a, b)
<1>1. PICK n \in Nat : n = Len(command)
  BY LenProperties
<1>2. PICK f : IsSplit(f, T, command)
  BY SplitIsLast
<1>3. /\ f \in [0..n -> Pieces(T)] /\ f[0] = <<<< >>>> /\ Segments(command) = f[n]
      /\ \A k \in 1..n : f[k] = Split(f[k - 1], command[k])
  BY <1>1, <1>2 DEF IsSplit
<1>4. a \in Nat /\ 1 <= a /\ a <= b /\ b \in Nat /\ b <= n
  <2>1. a \in 1..n /\ b \in a..n
    BY <1>1 DEF Stretch
  <2> QED BY <2>1
<1>5. Kept(f[0], command, a, b, 0)
  <2>1. ~ (b < 0)
    BY <1>4
  <2>2. ASSUME a - 1 <= 0 PROVE f[0][Len(f[0])] = SubSeq(command, a, 0)
    <3>1. a = 1
      BY <1>4, <2>2
    <3>2. SubSeq(command, 1, 0) = << >>
      BY SubSeqEmpty
    <3> QED BY <1>3, <3>1, <3>2
  <2> QED BY <2>1, <2>2 DEF Kept
<1> DEFINE Odd == {k \in Nat : k <= n /\ ~ Kept(f[k], command, a, b, k)}
<1>6. Odd = {}
  <2>1. SUFFICES ASSUME Odd # {} PROVE FALSE
    OBVIOUS
  <2>2. PICK k \in Odd : \A l \in Odd : k <= l
    BY <2>1, Least, Zenon
  <2>3. k \in Nat /\ k <= n /\ k # 0 /\ ~ Kept(f[k], command, a, b, k)
    BY <1>5, <2>2
  <2>4. k - 1 \in Nat /\ k - 1 <= n /\ ~ (k <= k - 1) /\ k \in 1..n /\ k - 1 \in 0..n
    BY <2>3
  <2>5. Kept(f[k - 1], command, a, b, k - 1)
    BY <2>2, <2>4
  <2>6. Kept(f[k], command, a, b, k)
    BY <1>1, <1>3, <2>4, <2>5, KeptStep
  <2> QED BY <2>3, <2>6
<1>7. PICK d : d = f[n] /\ Kept(d, command, a, b, n) /\ d \in Pieces(T)
  <2>1. n <= n /\ n \in 0..n
    OBVIOUS
  <2> QED BY <1>3, <1>6, <2>1
<1>8. PICK m \in Nat : m = Len(d) /\ DOMAIN d = 1..m /\ m # 0
  <2>1. d \in Seq(Seq(T)) /\ d # << >>
    BY <1>7 DEF Pieces
  <2> QED BY <2>1, LenProperties, EmptySeq
<1>9. CASE b = n
  <2>1. a - 1 <= n /\ n <= b /\ m \in 1..m
    BY <1>4, <1>8, <1>9
  <2> QED BY <1>3, <1>7, <1>8, <1>9, <2>1 DEF Kept
<1>10. CASE b # n
  <2>1. b < n
    BY <1>4, <1>10
  <2>2. PICK j \in 1..(m - 1) : d[j] = SubSeq(command, a, b)
    BY <1>7, <1>8, <2>1 DEF Kept
  <2>3. j \in 1..m
    BY <1>8
  <2> QED BY <1>3, <1>7, <1>8, <2>2, <2>3
<1> QED BY <1>9, <1>10

--------------------------------------------------------------------------------
(* A command in its line                                                   *)

Part(c) == c.before \o c.open \o c.words

IsPart(part, W, before, open, words) ==
  /\ part \in Seq(W) /\ Len(part) = Len(before) + Len(open) + Len(words)
  /\ \A j \in 1..Len(before) : part[j] = before[j]
  /\ \A j \in 1..Len(open) : part[Len(before) + j] = open[j]
  /\ \A j \in 1..Len(words) : part[Len(before) + Len(open) + j] = words[j]

\* Where what comes before a command, what opens it and its words are in its part.
LEMMA PartOfThree ==
  ASSUME NEW W, NEW before \in Seq(W), NEW open \in Seq(W), NEW words \in Seq(W)
  PROVE  IsPart(before \o open \o words, W, before, open, words)
<1>1. PICK head : head = before \o open /\ head \in Seq(W) /\ Len(head) = Len(before) + Len(open)
  BY ConcatProperties
<1>2. PICK part : part = head \o words /\ part \in Seq(W) /\ Len(part) = Len(head) + Len(words)
  BY <1>1, ConcatProperties
<1>3. PICK nb \in Nat, no \in Nat, nw \in Nat :
        /\ nb = Len(before) /\ no = Len(open) /\ nw = Len(words)
        /\ DOMAIN before = 1..nb /\ DOMAIN open = 1..no /\ DOMAIN words = 1..nw
  BY LenProperties
<1>4. DOMAIN head = 1..(nb + no)
  BY <1>1, <1>3, LenProperties
<1>5. /\ \A j \in 1..nb : head[j] = before[j]
      /\ \A j \in 1..no : head[nb + j] = open[j]
  BY <1>1, <1>3, ConcatPlaces
<1>6. /\ \A j \in 1..(nb + no) : part[j] = head[j]
      /\ \A j \in 1..nw : part[nb + no + j] = words[j]
  <2>1. PICK nh \in Nat : nh = nb + no
    OBVIOUS
  <2>2. head \in Seq(W) /\ words \in Seq(W) /\ nh \in Nat /\ nw \in Nat
        /\ nh = Len(head) /\ nw = Len(words)
    BY <1>1, <1>3, <2>1
  <2>3. /\ \A j \in 1..nh : (head \o words)[j] = head[j]
        /\ \A j \in 1..nw : (head \o words)[nh + j] = words[j]
    BY <2>2, ConcatPlaces, SMTT(30)
  <2>4. /\ \A j \in 1..nh : part[j] = head[j]
        /\ \A j \in 1..nw : part[nh + j] = words[j]
    BY <1>2, <2>3, Zenon
  <2> QED BY <2>1, <2>4
<1>7. /\ \A j \in 1..nb : j \in 1..(nb + no)
      /\ \A j \in 1..no : nb + j \in 1..(nb + no)
  OBVIOUS
<1>8. IsPart(part, W, before, open, words)
  BY <1>1, <1>2, <1>3, <1>5, <1>6, <1>7 DEF IsPart
<1> QED BY <1>1, <1>2, <1>8

\* The types of a command's parts.
CommandTypeOK(c) ==
  /\ c.before \in Seq(Separators \cup OtherMarks) /\ c.open \in Seq(Openers \cup OtherMarks)
  /\ c.words \in Seq(DOMAIN Lower \ CommandMarks)
  /\ c.binary \in DOMAIN Lower /\ c.binary \notin CommandMarks \cup Assignments

\* What the assumption on the command lines says of each command of one.
LEMMA LinesAreCommands ==
  ASSUME NEW shell \in CommandLines
  PROVE  /\ Len(shell) \in Nat /\ DOMAIN shell = 1..Len(shell)
         /\ \A i \in DOMAIN shell : IsCommand(shell[i]) /\ CommandTypeOK(shell[i])
<1> DEFINE C == [before : Seq(Separators \cup OtherMarks), open : Seq(Openers \cup OtherMarks),
                 words : Seq(DOMAIN Lower \ CommandMarks),
                 binary : DOMAIN Lower \ (CommandMarks \cup Assignments)]
<1>1. shell \in Seq(C)
  BY CommandLinesAssumption
<1>2. Len(shell) \in Nat /\ DOMAIN shell = 1..Len(shell) /\ \A i \in DOMAIN shell : shell[i] \in C
  <2> HIDE DEF C
  <2> QED BY <1>1, LenProperties, ElementOfSeq
<1>3. ASSUME NEW i \in DOMAIN shell PROVE CommandTypeOK(shell[i])
  <2>1. PICK c : c = shell[i] /\ c \in C
    BY <1>2
  <2>2. CommandTypeOK(c)
    BY <2>1 DEF CommandTypeOK
  <2> QED BY <2>1, <2>2
<1>4. \A i \in DOMAIN shell : IsCommand(shell[i])
  BY CommandLinesAssumption
<1> QED BY <1>2, <1>3, <1>4

Lowered(tokens) == [k \in DOMAIN tokens |-> Lower[tokens[k]]]

\* A command in a lowered line: what follows a separator begins with it.
CommandAt(low, c, a, b) ==
  /\ Stretch(low, a, b) /\ a + Len(c.open) + Len(c.words) - 1 <= b
  /\ \A j \in 1..Len(c.open) : low[a + j - 1] = c.open[j]
  /\ \A j \in 1..Len(c.words) : low[a + Len(c.open) + j - 1] = Lower[c.words[j]]

\* In the text of a line, in lower case, a command that is known for one begins a
\* stretch between separators: nothing of another command is in it before its end.
LEMMA CommandIsStretch ==
  ASSUME NEW shell \in CommandLines, NEW i \in DOMAIN shell, Recognised(shell, i)
  PROVE  /\ Flat(shell) \in Seq(DOMAIN Lower)
         /\ \E a, b : CommandAt(Lowered(Flat(shell)), shell[i], a, b)
<1> DEFINE W == DOMAIN Lower
           ss == [k \in DOMAIN shell |-> Part(shell[k])]
           flat == Flat(shell)
           low == Lowered(flat)
<1>1. PICK n \in Nat : /\ n = Len(shell) /\ DOMAIN shell = 1..n
                       /\ \A k \in 1..n : IsCommand(shell[k]) /\ CommandTypeOK(shell[k])
  BY LinesAreCommands
<1>2. ASSUME NEW k \in 1..n
      PROVE  /\ IsPart(ss[k], W, shell[k].before, shell[k].open, shell[k].words)
             /\ Len(shell[k].before) \in Nat /\ Len(shell[k].open) \in Nat /\ Len(shell[k].words) \in Nat
             /\ \A j \in 1..Len(shell[k].words) :
                  shell[k].words[j] \in DOMAIN Lower /\ shell[k].words[j] \notin Separators
  <2>1. PICK x, y, z : x = shell[k].before /\ y = shell[k].open /\ z = shell[k].words
    OBVIOUS
  <2>2. x \in Seq(Separators \cup OtherMarks) /\ y \in Seq(Openers \cup OtherMarks)
        /\ z \in Seq(W \ CommandMarks)
    BY <1>1, <2>1 DEF CommandTypeOK
  <2>3. x \in Seq(W) /\ y \in Seq(W) /\ z \in Seq(W)
    <3>1. ASSUME NEW S, NEW s \in Seq(S), S \subseteq W PROVE s \in Seq(W)
      BY <3>1
    <3>2. /\ Separators \cup OtherMarks \subseteq W /\ Openers \cup OtherMarks \subseteq W
          /\ W \ CommandMarks \subseteq W
      BY LowerAssumption DEF CommandMarks
    <3> HIDE DEF W
    <3> QED BY <2>2, <3>1, <3>2
  <2>4. IsPart(x \o y \o z, W, x, y, z)
    BY <2>3, PartOfThree
  <2>5. ss[k] = x \o y \o z
    BY <1>1, <2>1 DEF Part
  <2>6. /\ Len(x) \in Nat /\ Len(y) \in Nat /\ Len(z) \in Nat
        /\ \A j \in 1..Len(z) : z[j] \in W /\ z[j] \notin Separators
    BY <2>2, LenProperties, ElementOfSeq DEF CommandMarks
  <2> HIDE DEF ss
  <2> QED BY <2>1, <2>4, <2>5, <2>6
<1>3. ss \in Seq(Seq(W)) /\ Len(ss) = n
  <2>1. \A k \in 1..n : ss[k] \in Seq(W)
    BY <1>2 DEF IsPart
  <2>2. ss = [k \in 1..n |-> Part(shell[k])]
    BY <1>1
  <2> QED BY <2>1, <2>2
<1>4. flat = FlattenSeq(ss)
  BY DEF Flat, Part
<1> HIDE DEF ss, W
<1>5. flat \in Seq(W)
  BY <1>3, <1>4, OffsetsExist
<1>6. PICK at : IsOffsets(at, ss)
  BY <1>3, OffsetsExist
<1>7. PICK N \in Nat : N = Len(flat) /\ DOMAIN flat = 1..N
  BY <1>5, LenProperties
<1> HIDE DEF flat
<1>8. Len(low) = N /\ \A k \in 1..N : low[k] = Lower[flat[k]]
  BY <1>7 DEF Lowered
<1> HIDE DEF low
<1>9. /\ at \in [0..n -> Nat] /\ at[0] = 0 /\ at[n] = N
      /\ \A k \in 1..n : at[k] = at[k - 1] + Len(ss[k]) /\ at[k] <= N
      /\ \A k \in 1..n : \A j \in 1..Len(ss[k]) : flat[at[k - 1] + j] = ss[k][j]
  BY <1>3, <1>4, <1>6, <1>7 DEF IsOffsets
<1>10. i \in 1..n /\ i - 1 \in 0..n
  BY <1>1
<1>11. PICK p \in Nat, nb \in Nat, no \in Nat, nw \in Nat, c \in {shell[i]} :
         /\ p = at[i - 1] /\ c = shell[i]
         /\ nb = Len(c.before) /\ no = Len(c.open) /\ nw = Len(c.words)
  <2>1. at[i - 1] \in Nat
    BY <1>9, <1>10
  <2>2. PICK c : c = shell[i]
    OBVIOUS
  <2>3. Len(c.before) \in Nat /\ Len(c.open) \in Nat /\ Len(c.words) \in Nat
    BY <1>2, <1>10, <2>2
  <2> QED BY <2>1, <2>2, <2>3
<1>12. /\ Len(ss[i]) = nb + no + nw
       /\ \A j \in 1..nb : ss[i][j] = c.before[j]
       /\ \A j \in 1..no : ss[i][nb + j] = c.open[j]
       /\ \A j \in 1..nw : ss[i][nb + no + j] = c.words[j] /\ c.words[j] \in DOMAIN Lower
                            /\ c.words[j] \notin Separators
  BY <1>2, <1>10, <1>11, ZenonT(30) DEF IsPart
<1>13. at[i] = p + (nb + no + nw) /\ p + (nb + no + nw) <= N
  <2>1. at[i] = at[i - 1] + Len(ss[i]) /\ at[i] <= N
    BY <1>9, <1>10
  <2>2. at[i - 1] = p /\ Len(ss[i]) = nb + no + nw
    BY <1>11, <1>12
  <2> QED BY <2>1, <2>2
<1>14. \A j \in 1..(nb + no + nw) : flat[p + j] = ss[i][j] /\ low[p + j] = Lower[ss[i][j]]
  <2>1. \A j \in 1..(nb + no + nw) : p + j \in 1..N
    BY <1>13
  <2>2. \A j \in 1..Len(ss[i]) : flat[at[i - 1] + j] = ss[i][j]
    BY <1>9, <1>10
  <2>3. \A j \in 1..(nb + no + nw) : flat[p + j] = ss[i][j]
    BY <1>11, <1>12, <2>2
  <2>4. \A j \in 1..(nb + no + nw) : low[p + j] = Lower[flat[p + j]]
    BY <1>8, <2>1
  <2> QED BY <2>3, <2>4
<1>15. \A t \in CommandMarks : t \in DOMAIN Lower /\ Lower[t] = t
  BY LowerAssumption
<1>b. /\ IF i = 1 THEN c.before = << >> ELSE c.before # << >> /\ Last(c.before) \in Separators
      /\ c.open \in Seq(Openers)
  BY <1>11 DEF Recognised
<1>16. nb # 0 => low[p + nb] \in Separators
  <2> SUFFICES ASSUME nb # 0 PROVE low[p + nb] \in Separators
    OBVIOUS
  <2>1. nb \in 1..nb /\ nb \in 1..(nb + no + nw)
    OBVIOUS
  <2>2. i # 1
    BY <1>11, <1>b
  <2>3. c.before[nb] \in Separators
    BY <1>11, <1>b, <2>2 DEF Last
  <2>4. low[p + nb] = Lower[c.before[nb]]
    BY <1>12, <1>14, <2>1
  <2> QED BY <1>15, <2>3, <2>4 DEF CommandMarks
<1>17. \A j \in 1..no : low[p + (nb + j)] = c.open[j] /\ low[p + (nb + j)] \notin Separators
  <2>1. \A j \in 1..no : nb + j \in 1..(nb + no + nw)
    OBVIOUS
  <2>2. \A t \in Openers : t \notin Separators /\ t \in CommandMarks
    BY DEF Openers, Separators, CommandMarks
  <2>a. \A j \in 1..no : c.open[j] \in Openers
    BY <1>11, <1>b, ElementOfSeq
  <2> TAKE j \in 1..no
  <2>3. c.open[j] \in Openers /\ ss[i][nb + j] = c.open[j]
    BY <1>12, <2>a
  <2>4. low[p + (nb + j)] = Lower[ss[i][nb + j]]
    BY <1>14, <2>1
  <2> QED BY <1>15, <2>2, <2>3, <2>4
<1>18. \A j \in 1..nw : low[p + (nb + no + j)] = Lower[c.words[j]]
                        /\ low[p + (nb + no + j)] \notin Separators
  <2>1. \A j \in 1..nw : nb + no + j \in 1..(nb + no + nw)
    OBVIOUS
  <2>2. \A t \in DOMAIN Lower : t \notin Separators => Lower[t] \notin Separators
    <3>1. \A t \in Separators : t \in CommandMarks
      BY DEF CommandMarks
    <3> QED BY <1>15, <3>1, LowerAssumption
  <2> TAKE j \in 1..nw
  <2>3. /\ ss[i][nb + no + j] = c.words[j] /\ c.words[j] \in DOMAIN Lower
        /\ c.words[j] \notin Separators
    BY <1>12
  <2>4. low[p + (nb + no + j)] = Lower[ss[i][nb + no + j]]
    BY <1>14, <2>1
  <2> QED BY <2>2, <2>3, <2>4
<1>19. 1 <= nw
  <2>1. PICK h \in DOMAIN c.words : TRUE
    BY <1>1, <1>10, <1>11 DEF IsCommand
  <2>2. DOMAIN c.words = 1..nw
    BY <1>1, <1>10, <1>11, LenProperties DEF CommandTypeOK
  <2> QED BY <2>1, <2>2
<1> DEFINE a == p + nb + 1
           e == p + nb + no + nw
<1>20. a \in 1..N /\ e \in a..N /\ e = a + no + nw - 1
  BY <1>13, <1>19
<1>21. a # 1 => low[a - 1] \in Separators
  <2> SUFFICES ASSUME a # 1 PROVE low[a - 1] \in Separators
    OBVIOUS
  <2>1. nb # 0
    <3>1. SUFFICES ASSUME nb = 0 PROVE FALSE
      OBVIOUS
    <3>2. p # 0
      BY <3>1
    <3>3. i # 1
      <4>1. 1 - 1 = 0
        OBVIOUS
      <4> QED BY <1>9, <1>11, <3>2, <4>1
    <3>4. c.before # << >> /\ c.before \in Seq(Separators \cup OtherMarks)
      BY <1>1, <1>10, <1>11, <1>b, <3>3 DEF CommandTypeOK
    <3> QED BY <1>11, <3>1, <3>4, EmptySeq
  <2>2. a - 1 = p + nb
    OBVIOUS
  <2> QED BY <1>16, <2>1, <2>2
<1>23. \A k \in a..e : low[k] \notin Separators
  <2> TAKE k \in a..e
  <2>1. CASE k <= p + nb + no
    <3>1. k - p - nb \in 1..no /\ p + (nb + (k - p - nb)) = k
      BY <2>1
    <3> QED BY <1>17, <3>1
  <2>2. CASE ~ (k <= p + nb + no)
    <3>1. k - p - nb - no \in 1..nw /\ p + (nb + no + (k - p - nb - no)) = k
      BY <2>2
    <3> QED BY <1>18, <3>1
  <2> QED BY <2>1, <2>2
<1>24. PICK b \in e..N : Stretch(low, a, b)
  <2>1. PICK V : low \in Seq(V)
    <3>1. low \in [1..N -> {low[k] : k \in 1..N}]
      BY <1>7 DEF low, Lowered
    <3>2. PICK V : low \in [1..N -> V]
      BY <3>1, Zenon
    <3>3. low \in Seq(V)
      BY <3>2
    <3> QED BY <3>3, Zenon
  <2> HIDE DEF a, e
  <2> QED BY <1>8, <1>20, <1>21, <1>23, <2>1, StretchFrom
<1>25. /\ \A j \in 1..no : low[a + j - 1] = c.open[j]
       /\ \A j \in 1..nw : low[a + no + j - 1] = Lower[c.words[j]]
  <2>1. /\ \A j \in 1..no : a + j - 1 = p + (nb + j)
        /\ \A j \in 1..nw : a + no + j - 1 = p + (nb + no + j)
    OBVIOUS
  <2> HIDE DEF a
  <2> QED BY <1>17, <1>18, <2>1
<1>26. a + no + nw - 1 <= b
  BY <1>20, <1>24
<1> HIDE DEF a, e
<1>27. CommandAt(low, c, a, b)
  BY <1>11, <1>24, <1>25, <1>26 DEF CommandAt
<1> QED BY <1>5, <1>11, <1>27 DEF low, flat, W

\* The binary of each command that is known for one is among those that are looked at.
LEMMA HeadsAreJudged ==
  ASSUME NEW shell \in CommandLines, NEW i \in DOMAIN shell, Recognised(shell, i)
  PROVE  Bare[Lower[shell[i].binary]] \in ToSet(extract_all_binaries(Lowered(Flat(shell))))
<1> DEFINE W == DOMAIN Lower
           V == {Lower[t] : t \in W}
<1>1. Flat(shell) \in Seq(W)
  BY CommandIsStretch
<1>2. PICK low : low = Lowered(Flat(shell)) /\ low \in Seq(V)
  <2>1. PICK flat : flat = Flat(shell) /\ flat \in Seq(W)
    BY <1>1
  <2>2. PICK n \in Nat : DOMAIN flat = 1..n /\ \A k \in 1..n : flat[k] \in W
    BY <2>1, LenProperties, ElementOfSeq
  <2>3. Lowered(flat) \in [1..n -> V]
    BY <2>2 DEF Lowered
  <2> HIDE DEF V
  <2> QED BY <2>1, <2>3
<1> HIDE DEF V, W
<1>3. PICK c : c = shell[i] /\ IsCommand(c) /\ CommandTypeOK(c)
  BY LinesAreCommands
<1>4. PICK no \in Nat, nw \in Nat :
        /\ no = Len(c.open) /\ nw = Len(c.words)
        /\ DOMAIN c.open = 1..no /\ DOMAIN c.words = 1..nw
        /\ \A j \in 1..no : c.open[j] \in Openers
        /\ \A j \in 1..nw : c.words[j] \in W
  <2>1. c.open \in Seq(Openers) /\ c.words \in Seq(DOMAIN Lower \ CommandMarks)
    BY <1>3 DEF CommandTypeOK, Recognised
  <2>2. Len(c.open) \in Nat /\ Len(c.words) \in Nat
        /\ DOMAIN c.open = 1..Len(c.open) /\ DOMAIN c.words = 1..Len(c.words)
    BY <2>1, LenProperties
  <2>3. /\ \A j \in 1..Len(c.open) : c.open[j] \in Openers
        /\ \A j \in 1..Len(c.words) : c.words[j] \in DOMAIN Lower \ CommandMarks
    BY <2>1, ElementOfSeq
  <2> QED BY <2>2, <2>3 DEF W
<1>5. PICK n \in Nat : n = Len(low) /\ \A k \in 1..n : low[k] \in V
  BY <1>2, LenProperties, ElementOfSeq
<1>6. PICK a \in 1..n, b \in 1..n :
                  /\ a <= b /\ Stretch(low, a, b) /\ a + no + nw - 1 <= b
                  /\ \A j \in 1..no : low[a + j - 1] = c.open[j]
                  /\ \A j \in 1..nw : low[a + no + j - 1] = Lower[c.words[j]]
  <2>1. PICK a, b : CommandAt(low, c, a, b)
    BY <1>2, <1>3, CommandIsStretch
  <2>2. a \in 1..n /\ b \in a..n
    BY <1>5, <2>1 DEF CommandAt, Stretch
  <2>3. b \in 1..n /\ a <= b
    BY <2>2
  <2> QED BY <1>4, <2>1, <2>2, <2>3 DEF CommandAt
<1>7. a \in Nat /\ b \in Nat /\ 1 <= a /\ a <= b /\ b <= n
  BY <1>6
<1>8. PICK seg : /\ seg = SubSeq(low, a, b) /\ seg \in Seq(V)
                 /\ Len(seg) \in Nat /\ no + nw <= Len(seg)
                 /\ \A j \in 1..(no + nw) : seg[j] = low[a + j - 1]
  <2>1. no + nw <= b - a + 1 /\ a <= b /\ a \in Int /\ b \in Int
    BY <1>6, <1>7
  <2>2. \A k \in a..b : low[k] \in V
    BY <1>5, <1>7
  <2>3. /\ SubSeq(low, a, b) \in Seq(V)
        /\ Len(SubSeq(low, a, b)) = IF a <= b THEN b - a + 1 ELSE 0
        /\ \A j \in 1..(b - a + 1) : SubSeq(low, a, b)[j] = low[a + j - 1]
    BY <2>1, <2>2, SubSeqProperties
  <2>4. Len(SubSeq(low, a, b)) \in Nat /\ no + nw <= Len(SubSeq(low, a, b))
    BY <2>1, <2>3
  <2>5. \A j \in 1..(no + nw) : SubSeq(low, a, b)[j] = low[a + j - 1]
    BY <2>1, <2>3
  <2> QED BY <2>3, <2>4, <2>5, Zenon
<1>9. /\ \A j \in 1..no : seg[j] = c.open[j] /\ seg[j] \in Openers
      /\ \A j \in 1..nw : seg[no + j] = Lower[c.words[j]]
  <2>1. /\ \A j \in 1..no : j \in 1..(no + nw)
        /\ \A j \in 1..nw : no + j \in 1..(no + nw) /\ a + (no + j) - 1 = a + no + j - 1
    BY <1>7
  <2>2. ASSUME NEW j \in 1..no PROVE seg[j] = c.open[j] /\ seg[j] \in Openers
    BY <1>4, <1>6, <1>8, <2>1
  <2>3. ASSUME NEW j \in 1..nw PROVE seg[no + j] = Lower[c.words[j]]
    BY <1>6, <1>8, <2>1
  <2> QED BY <2>2, <2>3
<1>10. PICK h \in 1..nw : /\ c.words[h] = c.binary
                          /\ \A j \in 1..(h - 1) : c.words[j] \in Assignments
  BY <1>3, <1>4 DEF IsCommand
<1>11. /\ \A t \in W : /\ Lower[t] \in CommandMarks => t \in CommandMarks
                       /\ t \in Assignments <=> Lower[t] \in Assignments
       /\ Openers \cup {"newline"} \subseteq CommandMarks
  BY LowerAssumption DEF W, CommandMarks, OtherMarks
<1>12. c.binary \in W /\ c.binary \notin CommandMarks /\ c.binary \notin Assignments
  BY <1>3 DEF CommandTypeOK, W
<1>13. seg[no + 1] \notin Openers \cup {"newline"}
  <2>1. 1 \in 1..nw
    BY <1>10
  <2>2. c.words[1] \notin CommandMarks
    <3>1. CASE h = 1
      BY <1>10, <1>12, <3>1
    <3>2. CASE h # 1
      <4>1. 1 \in 1..(h - 1)
        BY <3>2
      <4> QED BY <1>10, <4>1, LowerAssumption
    <3> QED BY <3>1, <3>2
  <2> QED BY <1>4, <1>9, <1>11, <2>1, <2>2
<1>14. MarksTo(seg, no + 1)
  <2>1. (no + 1) - 1 = no
    OBVIOUS
  <2>2. \A j, k \in 1..no : j < k =>
          /\ c.open[j] = "tick" => c.open[k] = "tick"
          /\ c.open[j] = "dollar" => c.open[k] # "paren"
    <3>1. \A j, k \in DOMAIN c.open : j < k =>
            /\ c.open[j] = "tick" => c.open[k] = "tick"
            /\ c.open[j] = "dollar" => c.open[k] # "paren"
      BY <1>3, Zenon DEF Recognised
    <3> QED BY <1>4, <3>1
  <2> QED BY <1>9, <2>1, <2>2, ZenonT(30) DEF MarksTo
<1>15. PICK q \in Nat, e \in Nat : /\ q = no + 1 /\ e = no + h
                                   /\ q \in 1..Len(seg) /\ e \in q..Len(seg)
  <2>1. no + 1 \in Nat /\ no + h \in Nat
    OBVIOUS
  <2>2. no + 1 \in 1..Len(seg) /\ no + h \in (no + 1)..Len(seg)
    BY <1>8
  <2> QED BY <2>1, <2>2, Zenon
<1>16. Opened(seg) = SubSeq(seg, q, Len(seg))
  BY <1>8, <1>13, <1>14, <1>15, OpenedFrom
<1>17. seg[e] = Lower[c.binary] /\ seg[e] \notin Assignments \cup {"newline"}
  BY <1>9, <1>10, <1>11, <1>12, <1>15
<1>18. \A k \in q..(e - 1) : seg[k] \in Assignments
  <2> TAKE k \in q..(e - 1)
  <2>1. k - no \in 1..(h - 1) /\ k - no \in 1..nw /\ no + (k - no) = k
    BY <1>15
  <2>2. c.words[k - no] \in Assignments /\ seg[k] = Lower[c.words[k - no]]
    BY <1>9, <1>10, <2>1
  <2> QED BY <1>4, <1>11, <2>1, <2>2
<1>19. BinaryOf(seg) = <<Bare[Lower[c.binary]]>>
  <2>1. seg \in Seq(V) /\ q \in 1..Len(seg) /\ e \in q..Len(seg)
    BY <1>8, <1>15
  <2>2. BinaryOf(seg) = <<Bare[seg[e]]>>
    BY <2>1, <1>16, <1>17, <1>18, BinaryFrom
  <2> QED BY <1>17, <2>2
<1>20. PICK segments : segments = Segments(low) /\ segments \in Seq(Seq(V))
  <2>1. PICK f : IsSplit(f, V, low)
    BY <1>2, SplitIsLast
  <2>2. Segments(low) \in Pieces(V)
    <3>1. n \in 0..n
      OBVIOUS
    <3> QED BY <1>5, <2>1, <3>1 DEF IsSplit
  <2> QED BY <2>2 DEF Pieces
<1>a. PICK m \in Nat : DOMAIN segments = 1..m
  BY <1>20, LenProperties
<1>21. PICK j \in 1..m : segments[j] = seg
  <2>1. low \in Seq(V) /\ Stretch(low, a, b)
    BY <1>2, <1>6
  <2>2. \E k \in DOMAIN Segments(low) : Segments(low)[k] = SubSeq(low, a, b)
    BY <2>1, StretchIsPiece, Zenon
  <2> QED BY <1>8, <1>20, <1>a, <2>2
<1> DEFINE S == UNION {ToSet(BinaryOf(segments[k])) : k \in 1..m}
           bs == [k \in 1..m |-> BinaryOf(segments[k])]
<1>22. \A k \in 1..m : BinaryOf(segments[k]) \in Seq(S)
  <2> TAKE k \in 1..m
  <2>1. BinaryOf(segments[k]) = << >> \/ \E x : BinaryOf(segments[k]) = <<x>>
    BY DEF BinaryOf
  <2>2. ASSUME NEW x, BinaryOf(segments[k]) = <<x>> PROVE <<x>> \in Seq(S)
    <3>1. x \in ToSet(BinaryOf(segments[k]))
      BY <2>2 DEF ToSet
    <3>2. x \in S
      BY <3>1
    <3> HIDE DEF S
    <3> QED BY <3>2
  <2> HIDE DEF S
  <2>3. << >> \in Seq(S)
    BY EmptySeq
  <2> QED BY <2>1, <2>2, <2>3
<1>23. bs \in Seq(Seq(S)) /\ DOMAIN bs = 1..m
  <2> HIDE DEF S
  <2> QED BY <1>22
<1>24. extract_all_binaries(low) = FlattenSeq(bs)
  BY <1>20, <1>a DEF extract_all_binaries
<1>25. \A x : x \in ToSet(FlattenSeq(bs)) <=> \E k \in DOMAIN bs : x \in ToSet(bs[k])
  <2> HIDE DEF S, bs
  <2> QED BY <1>23, FlattenedElements
<1>26. bs[j] = <<Bare[Lower[c.binary]]>>
  BY <1>19, <1>21
<1>27. Bare[Lower[c.binary]] \in ToSet(bs[j])
  <2> HIDE DEF bs
  <2> QED BY <1>26 DEF ToSet
<1> HIDE DEF bs
<1> QED BY <1>2, <1>3, <1>21, <1>23, <1>24, <1>25, <1>27

\* What is let through starts no blocked program by a command that is known for one.
LEMMA OkHasNoneBlocked ==
  ASSUME NEW shell \in CommandLines, validate_command_deep(Flat(shell), Config) = "ok",
         NEW i \in DOMAIN shell, Recognised(shell, i)
  PROVE  Program[Lower[shell[i].binary]] \notin Blocked(Config)
<1> DEFINE found == ToSet(extract_all_binaries(Lowered(Flat(shell))))
<1>1. Bare[Lower[shell[i].binary]] \in found
  BY HeadsAreJudged
<1>2. found \cap Blocked(Config) = {}
  BY DEF validate_command_deep, Lowered
<1>3. Program[Lower[shell[i].binary]] = Bare[Lower[shell[i].binary]]
  BY DEF Recognised
<1> QED BY <1>1, <1>2, <1>3

\* What is kept of a command line that was let through is that line.
JudgedInv ==
  /\ line \in [Requests -> CommandLines \cup {<< >>}]
  /\ \A r \in Requests : pc[r] = "judged" =>
       line[r] \in CommandLines /\ validate_command_deep(Flat(line[r]), Config) = "ok"

\* A step that judges no line leaves the lines of the judged.
LEMMA LinesKept ==
  ASSUME JudgedInv, line' \in [Requests -> CommandLines \cup {<< >>}],
         \A r \in Requests : pc'[r] = "judged" => pc[r] = "judged" /\ line'[r] = line[r]
  PROVE  JudgedInv'
<1>1. ASSUME NEW r \in Requests, pc'[r] = "judged"
      PROVE  line'[r] \in CommandLines /\ validate_command_deep(Flat(line'[r]), Config) = "ok"
  <2>1. pc[r] = "judged" /\ line'[r] = line[r]
    BY <1>1
  <2> QED BY <2>1 DEF JudgedInv
<1> QED BY <1>1 DEF JudgedInv

\* A step on the way of a process is that of a request which is not at its line any
\* more when it is done.
LEMMA ServeJudgesNothing ==
  ASSUME IInv, JudgedInv, Serve
  PROVE  JudgedInv'
<1>1. PICK r, from, to : /\ r \in Requests /\ to # "judged" /\ Go(r, from, to)
                         /\ UNCHANGED line \/ line' = [line EXCEPT ![r] = << >>]
  <2>1. ASSUME NEW r \in Requests, NEW binary \in Binaries, Build(r, binary)
        PROVE  \E from, to : /\ to # "judged" /\ Go(r, from, to)
                             /\ line' = [line EXCEPT ![r] = << >>]
    BY <2>1 DEF Build
  <2>2. ASSUME NEW r \in Requests, Fork(r) \/ Provider(r) \/ Job(r)
        PROVE  \E from, to : to # "judged" /\ Go(r, from, to) /\ UNCHANGED line
    <3>1. CASE Fork(r)
      BY <3>1 DEF Fork
    <3>2. CASE Provider(r)
      BY <3>2 DEF Provider, apply_prctl, apply_network_isolation, AfterUnshareFails,
                  apply_rlimits, Exec
    <3>3. CASE Job(r)
      BY <3>3 DEF Job, CreateJob, LimitJob, OpenProcess, AssignJob, Go
    <3> QED BY <2>2, <3>1, <3>2, <3>3
  <2> QED BY <2>1, <2>2 DEF Serve
<1>2. \A q \in Requests : pc'[q] = IF q = r THEN to ELSE pc[q]
  BY <1>1, Gone DEF IInv
<1>3. /\ line' \in [Requests -> CommandLines \cup {<< >>}]
      /\ \A q \in Requests : q # r => line'[q] = line[q]
  BY <1>1 DEF JudgedInv
<1> QED BY <1>1, <1>2, <1>3, LinesKept

\* A command line that is let through starts no blocked program by a command that is
\* known for one, whatever is assigned before its binary and in whatever case it is
\* written.
THEOREM HeadsJudged == ContainmentSpec => []EveryCommandJudged
<1>1. ContainmentInit => JudgedInv
  BY DEF ContainmentInit, ConfinementInit, JudgedInv
<1>2. IInv /\ JudgedInv /\ [ContainmentNext]_contained => JudgedInv'
  <2> SUFFICES ASSUME IInv, JudgedInv, [ContainmentNext]_contained PROVE JudgedInv'
    OBVIOUS
  <2>1. ASSUME NEW r \in Requests, NEW shell \in CommandLines, JudgeCommand(r, shell) PROVE JudgedInv'
    <3>1. CASE /\ validate_command_deep(Flat(shell), Config) = "ok"
               /\ Go(r, "idle", "judged") /\ line' = [line EXCEPT ![r] = shell]
      <4>1. \A q \in Requests : pc'[q] = IF q = r THEN "judged" ELSE pc[q]
        BY <3>1, Gone DEF IInv
      <4>2. /\ line' \in [Requests -> CommandLines \cup {<< >>}]
            /\ \A q \in Requests : line'[q] = IF q = r THEN shell ELSE line[q]
        BY <3>1 DEF JudgedInv
      <4>3. ASSUME NEW q \in Requests, pc'[q] = "judged"
            PROVE  line'[q] \in CommandLines /\ validate_command_deep(Flat(line'[q]), Config) = "ok"
        <5>1. CASE q = r
          <6>1. line'[q] = shell
            BY <4>2, <5>1
          <6> QED BY <3>1, <6>1
        <5>2. CASE q # r
          <6>1. pc[q] = "judged" /\ line'[q] = line[q]
            BY <4>1, <4>2, <4>3, <5>2
          <6> QED BY <6>1 DEF JudgedInv
        <5> QED BY <5>1, <5>2
      <4> QED BY <4>2, <4>3 DEF JudgedInv
    <3>2. CASE Go(r, "idle", "refused") /\ UNCHANGED line
      <4>1. \A q \in Requests : pc'[q] = IF q = r THEN "refused" ELSE pc[q]
        BY <3>2, Gone DEF IInv
      <4> QED BY <3>2, <4>1, LinesKept DEF JudgedInv
    <3> QED BY <2>1, <3>1, <3>2 DEF JudgeCommand, Judge
  <2>2. ASSUME NEW r \in Requests, NEW path \in WritePaths, JudgeWrite(r, path) PROVE JudgedInv'
    <3>1. PICK to \in {"writing", "refused"} : Go(r, "idle", to) /\ UNCHANGED line
      BY <2>2 DEF JudgeWrite
    <3>2. \A q \in Requests : pc'[q] = IF q = r THEN to ELSE pc[q]
      BY <3>1, Gone DEF IInv
    <3> QED BY <3>1, <3>2, LinesKept DEF JudgedInv
  <2>3. ASSUME NEW r \in Requests, Write(r) PROVE JudgedInv'
    <3>1. Go(r, "writing", "idle") /\ UNCHANGED line
      BY <2>3 DEF Write
    <3>2. \A q \in Requests : pc'[q] = IF q = r THEN "idle" ELSE pc[q]
      BY <3>1, Gone DEF IInv
    <3> QED BY <3>1, <3>2, LinesKept DEF JudgedInv
  <2>4. CASE Serve
    BY <2>4, ServeJudgesNothing
  <2>5. CASE Log \/ UNCHANGED contained
    <3>1. UNCHANGED <<pc, line>>
      BY <2>5, Unchanged DEF Log
    <3> QED BY <3>1 DEF JudgedInv
  <2> QED BY <2>1, <2>2, <2>3, <2>4, <2>5 DEF ContainmentNext
<1>3. JudgedInv => EveryCommandJudged
  BY OkHasNoneBlocked DEF JudgedInv, EveryCommandJudged
<1> QED BY <1>1, <1>2, <1>3, Invariant, PTL DEF ContainmentSpec

--------------------------------------------------------------------------------
(* The rate limiter                                                        *)

\* The number of callers is finite, and Slack one less.
LEMMA CallersFinite ==
  /\ Cardinality(Callers) \in Nat
  /\ Cardinality(Callers) >= 1
  /\ Slack \in Nat
  /\ Slack + 1 = Cardinality(Callers)
BY ConstantsAssumption, FS_CardinalityType, FS_EmptySet DEF Slack

\* The type invariant, for every value of the constants.
THEOREM TypeCorrect == Spec => []TypeOK
<1>1. Init => TypeOK
  BY FS_EmptySet DEF Init, TypeOK
<1>2. TypeOK /\ [Next]_vars => TypeOK'
  <2> SUFFICES ASSUME TypeOK, [Next]_vars PROVE TypeOK'
    OBVIOUS
  <2> USE DEF TypeOK
  <2>1. ASSUME NEW c \in Callers, NEW t \in Tools, CheckOk(c, t) \/ CheckRefused(c, t)
        PROVE  TypeOK'
    <3>1. /\ Retained(tool_calls) \in SUBSET Entries
          /\ IsFiniteSet(Retained(tool_calls))
      BY FS_Subset DEF Retained
    <3> QED BY <2>1, <3>1 DEF CheckOk, CheckRefused
  <2>2. ASSUME NEW c \in Callers, Record(c) PROVE TypeOK'
    <3>1. admitted[c] \in Tools
      BY <2>2 DEF Record
    <3>2. Entry(admitted[c]) \in Entries
      BY <3>1, FS_CardinalityType DEF Entry, Entries
    <3>3. /\ IsFiniteSet(tool_calls \cup {Entry(admitted[c])})
          /\ IsFiniteSet(history \cup {Entry(admitted[c])})
      BY FS_AddElement
    <3> QED BY <2>2, <3>2, <3>3 DEF Record
  <2>3. CASE Tick
    BY <2>3 DEF Tick
  <2>4. CASE UNCHANGED vars
    BY <2>4 DEF vars
  <2> QED BY <2>1, <2>2, <2>3, <2>4 DEF Next
<1> QED BY <1>1, <1>2, PTL DEF Spec

--------------------------------------------------------------------------------
(* Nothing in the window is ever pruned                                     *)

\* The table holds part of the history and at least what is in the window.
TableInv == InWindow \subseteq tool_calls /\ tool_calls \subseteq history

\* A table between the window and the history is the window once pruned.
LEMMA TableInvExact ==
  ASSUME TableInv PROVE TableMatchesHistory
BY DEF TableInv, TableMatchesHistory, Retained, InWindow

\* No step takes a call of the window out of the table.
LEMMA TableStep ==
  ASSUME TypeOK, TableInv, [Next]_vars PROVE TableInv'
<1>1. ASSUME NEW c \in Callers, NEW t \in Tools, CheckOk(c, t) \/ CheckRefused(c, t)
      PROVE  TableInv'
  BY <1>1 DEF CheckOk, CheckRefused, TableInv, InWindow, Retained
<1>2. ASSUME NEW c \in Callers, Record(c) PROVE TableInv'
  BY <1>2 DEF Record, TableInv, InWindow
<1>3. CASE Tick
  BY <1>3, ConstantsAssumption DEF Tick, TableInv, InWindow, TypeOK, Entries
<1>4. CASE UNCHANGED vars
  BY <1>4 DEF vars, TableInv, InWindow
<1> QED BY <1>1, <1>2, <1>3, <1>4 DEF Next

\* What check decides from the pruned table is what it would decide from the
\* whole history.
THEOREM TableExact == Spec => []TableMatchesHistory
<1>1. Init => TableInv
  BY DEF Init, TableInv, InWindow
<1>2. TypeOK /\ TableInv /\ [Next]_vars => TableInv'
  BY TableStep
<1>3. TableInv => TableMatchesHistory
  BY TableInvExact
<1> QED BY <1>1, <1>2, <1>3, TypeCorrect, PTL DEF Spec

--------------------------------------------------------------------------------
(* How far a scope can go past its limit                                    *)

\* The strengthening: a pending Ok already counts as a call.  Neither the
\* table nor the pending answers alone are bounded inductively, because a
\* Record turns one into the other.
ScopeInv ==
  \A s \in Scopes :
    Cardinality(OfTools(tool_calls, s.tools)) + Cardinality(Pending(s.tools))
      <= s.limit + Slack

\* A scope is a set of tools with a limit.
LEMMA ScopesType ==
  ASSUME NEW s \in Scopes
  PROVE  /\ s.tools \in SUBSET Tools
         /\ s.limit \in Nat
BY ConstantsAssumption DEF Scopes, PerToolEffective

\* What the four tests of check say together: every scope of the tool has
\* room, the zero per-tool limit counted as one.
LEMMA AdmitsRoom ==
  ASSUME NEW calls, IsFiniteSet(calls), calls \subseteq Entries,
         NEW t \in Tools, Admits(calls, t),
         NEW s \in Scopes, t \in s.tools
  PROVE  /\ Cardinality(OfTools(calls, s.tools)) \in Nat
         /\ Cardinality(OfTools(calls, s.tools)) < s.limit
<1>1. \A S : /\ IsFiniteSet(OfTools(calls, S))
            /\ Cardinality(OfTools(calls, S)) \in Nat
  BY FS_Subset, FS_CardinalityType DEF OfTools
<1>2. CASE s = [tools |-> {t}, limit |-> PerToolEffective]
  <2>0. /\ s.tools = {t} /\ s.limit = PerToolEffective
        /\ PerToolEffective \in Nat /\ 0 < PerToolEffective
    BY <1>2, ConstantsAssumption DEF PerToolEffective
  <2>1. CASE OfTools(calls, {t}) = {}
    <3>1. Cardinality(OfTools(calls, {t})) = 0
      BY <2>1, FS_EmptySet
    <3> QED BY <2>0, <3>1
  <2>2. CASE OfTools(calls, {t}) # {}
    BY <1>1, <1>2, <2>2, ConstantsAssumption DEF PerToolEffective, Admits, ToolExceeded
  <2> QED BY <2>1, <2>2
<1>3. CASE s = [tools |-> Tools, limit |-> Total]
  <2>1. OfTools(calls, Tools) = calls
    BY DEF OfTools, Entries
  <2> QED BY <1>1, <1>3, <2>1, ConstantsAssumption DEF Admits, TotalExceeded
<1>4. CASE s = [tools |-> WriteTools, limit |-> Writes]
  BY <1>1, <1>4, ConstantsAssumption DEF Admits, WritesExceeded
<1>5. CASE s = [tools |-> ShellTools, limit |-> Shells]
  BY <1>1, <1>5, ConstantsAssumption DEF Admits, ShellsExceeded
<1> QED BY <1>2, <1>3, <1>4, <1>5 DEF Scopes

\* There are no more pending answers than callers.
LEMMA PendingFinite ==
  ASSUME NEW S
  PROVE  /\ IsFiniteSet(Pending(S))
         /\ Cardinality(Pending(S)) \in Nat
         /\ Cardinality(Pending(S)) <= Slack + 1
BY CallersFinite, ConstantsAssumption, FS_Subset, FS_CardinalityType DEF Pending

\* What check counts can be counted.
LEMMA CountsFinite ==
  ASSUME TypeOK, NEW S
  PROVE  /\ IsFiniteSet(OfTools(tool_calls, S))
         /\ Cardinality(OfTools(tool_calls, S)) \in Nat
BY FS_Subset, FS_CardinalityType DEF TypeOK, OfTools

\* Pruning takes calls away from every scope.
LEMMA RetainedSmaller ==
  ASSUME TypeOK, NEW S
  PROVE  /\ Retained(tool_calls) \subseteq Entries
         /\ IsFiniteSet(Retained(tool_calls))
         /\ Cardinality(OfTools(Retained(tool_calls), S)) \in Nat
         /\ Cardinality(OfTools(Retained(tool_calls), S))
              <= Cardinality(OfTools(tool_calls, S))
<1>1. /\ Retained(tool_calls) \subseteq tool_calls
      /\ OfTools(Retained(tool_calls), S) \subseteq OfTools(tool_calls, S)
  BY DEF Retained, OfTools
<1>2. IsFiniteSet(Retained(tool_calls))
  BY <1>1, FS_Subset DEF TypeOK
<1> QED BY <1>1, <1>2, CountsFinite, FS_Subset, FS_CardinalityType DEF TypeOK

\* A call is counted from the moment check admits it: an admission needs room
\* in the table, a record turns a pending answer into an entry.
LEMMA ScopeStep ==
  ASSUME TypeOK, ScopeInv, [Next]_vars PROVE ScopeInv'
<1>0. SUFFICES ASSUME NEW s \in Scopes
      PROVE  Cardinality(OfTools(tool_calls, s.tools)') + Cardinality(Pending(s.tools)')
               <= s.limit + Slack
  BY DEF ScopeInv, OfTools, Pending, Scopes, PerToolEffective, Slack
<1> DEFINE T == OfTools(tool_calls, s.tools)
           P == Pending(s.tools)
<1>a. /\ s.limit \in Nat /\ Slack \in Nat
      /\ Cardinality(T) \in Nat /\ Cardinality(P) \in Nat
      /\ Cardinality(T) + Cardinality(P) <= s.limit + Slack
  BY ScopesType, CallersFinite, CountsFinite, PendingFinite DEF ScopeInv
<1>1. ASSUME NEW c \in Callers, NEW t \in Tools, CheckOk(c, t)
      PROVE  Cardinality(T') + Cardinality(P') <= s.limit + Slack
  <2>1. T' = OfTools(Retained(tool_calls), s.tools)
    BY <1>1 DEF CheckOk, OfTools
  <2>2. /\ Cardinality(T') \in Nat
        /\ Cardinality(T') <= Cardinality(T)
    BY <2>1, RetainedSmaller
  <2>3. CASE t \in s.tools
    <3>1. Cardinality(T') < s.limit
      BY <1>1, <2>1, <2>3, RetainedSmaller, AdmitsRoom DEF CheckOk
    <3>2. /\ Cardinality(P') \in Nat
          /\ Cardinality(P') <= Slack + 1
      <4>1. P' \subseteq Callers
        BY DEF Pending
      <4> QED BY <4>1, CallersFinite, ConstantsAssumption, FS_Subset, FS_CardinalityType
    <3> QED BY <1>a, <2>2, <3>1, <3>2
  <2>4. CASE t \notin s.tools
    <3>1. P' = P
      BY <1>1, <2>4, ScopesType, ConstantsAssumption DEF CheckOk, Pending, TypeOK
    <3> QED BY <1>a, <2>2, <3>1
  <2> QED BY <2>3, <2>4
<1>2. ASSUME NEW c \in Callers, NEW t \in Tools, CheckRefused(c, t)
      PROVE  Cardinality(T') + Cardinality(P') <= s.limit + Slack
  <2>1. T' = OfTools(Retained(tool_calls), s.tools) /\ P' = P
    BY <1>2 DEF CheckRefused, OfTools, Pending
  <2> QED BY <1>a, <2>1, RetainedSmaller
<1>3. ASSUME NEW c \in Callers, Record(c)
      PROVE  Cardinality(T') + Cardinality(P') <= s.limit + Slack
  <2> DEFINE t == admitted[c]
             e == Entry(t)
  <2>1. e.tool = t
    BY DEF Entry
  <2>2. CASE t \in s.tools
    <3>1. T' = T \cup {e}
      BY <1>3, <2>1, <2>2 DEF Record, OfTools
    <3>2. /\ Cardinality(T') \in Nat
          /\ Cardinality(T') <= Cardinality(T) + 1
      <4>1. IsFiniteSet(T)
        BY CountsFinite
      <4>2. Cardinality(T \cup {e}) = IF e \in T THEN Cardinality(T) ELSE Cardinality(T) + 1
        BY <4>1, FS_AddElement
      <4> HIDE DEF T, e
      <4> QED BY <1>a, <3>1, <4>2
    <3>3. c \in P /\ P' = P \ {c}
      BY <1>3, <2>2, ScopesType, ConstantsAssumption DEF Record, Pending, TypeOK
    <3>4. Cardinality(P') = Cardinality(P) - 1
      BY <3>3, PendingFinite, FS_RemoveElement
    <3> QED BY <1>a, <3>2, <3>4
  <2>3. CASE t \notin s.tools
    <3>1. T' = T
      BY <1>3, <2>1, <2>3 DEF Record, OfTools
    <3>2. P' = P
      BY <1>3, <2>3, ScopesType, ConstantsAssumption DEF Record, Pending, TypeOK
    <3> QED BY <1>a, <3>1, <3>2
  <2> QED BY <2>2, <2>3
<1>4. ASSUME Tick \/ UNCHANGED vars
      PROVE  Cardinality(T') + Cardinality(P') <= s.limit + Slack
  <2>1. T' = T /\ P' = P
    BY <1>4 DEF Tick, vars, OfTools, Pending
  <2> QED BY <1>a, <2>1
<1> QED BY <1>1, <1>2, <1>3, <1>4 DEF Next

\* Every scope holds, entries and pending answers together, at most its limit
\* and one call for each other caller.
THEOREM ScopeInvariant == Spec => []ScopeInv
<1>1. Init => ScopeInv
  <2> SUFFICES ASSUME Init, NEW s \in Scopes
               PROVE  Cardinality(OfTools(tool_calls, s.tools)) + Cardinality(Pending(s.tools))
                        <= s.limit + Slack
    BY DEF ScopeInv
  <2>1. OfTools(tool_calls, s.tools) = {} /\ Pending(s.tools) = {}
    BY ScopesType, ConstantsAssumption DEF Init, OfTools, Pending
  <2> QED BY <2>1, FS_EmptySet, ScopesType, CallersFinite
<1>2. TypeOK /\ ScopeInv /\ [Next]_vars => ScopeInv'
  BY ScopeStep
<1> QED BY <1>1, <1>2, TypeCorrect, PTL DEF Spec

\* Every window holds at most the limit plus one call for each other caller.
THEOREM Overshoot == Spec => []OvershootBounded
<1>1. TypeOK /\ TableInv /\ ScopeInv => OvershootBounded
  <2> SUFFICES ASSUME TypeOK, TableInv, ScopeInv, NEW s \in Scopes
               PROVE  Cardinality(OfTools(InWindow, s.tools)) <= s.limit + Slack
    BY DEF OvershootBounded
  <2>1. OfTools(InWindow, s.tools) \subseteq OfTools(tool_calls, s.tools)
    BY DEF TableInv, OfTools
  <2>2. /\ Cardinality(OfTools(InWindow, s.tools)) \in Nat
        /\ Cardinality(OfTools(InWindow, s.tools)) <= Cardinality(OfTools(tool_calls, s.tools))
    BY <2>1, CountsFinite, FS_Subset, FS_CardinalityType
  <2> QED BY <2>2, CountsFinite, PendingFinite, ScopesType, CallersFinite DEF ScopeInv
<1>2. Init => TableInv
  BY DEF Init, TableInv, InWindow
<1>3. TypeOK /\ TableInv /\ [Next]_vars => TableInv'
  BY TableStep
<1> QED BY <1>1, <1>2, <1>3, ScopeInvariant, TypeCorrect, PTL DEF Spec

\* The table itself stays within the total limit and the number of callers.
THEOREM TableSize == Spec => []TableBounded
<1>1. TypeOK /\ ScopeInv => TableBounded
  <2> SUFFICES ASSUME TypeOK, ScopeInv PROVE TableBounded
    OBVIOUS
  <2> DEFINE s == [tools |-> Tools, limit |-> Total]
  <2>1. s \in Scopes
    BY DEF Scopes
  <2>2. OfTools(tool_calls, Tools) = tool_calls
    BY DEF TypeOK, OfTools, Entries
  <2>3. Cardinality(tool_calls) + Cardinality(Pending(Tools)) <= Total + Slack
    BY <2>1, <2>2 DEF ScopeInv
  <2> QED
    BY <2>3, FS_CardinalityType, PendingFinite, CallersFinite, ConstantsAssumption
    DEF TableBounded, TypeOK
<1> QED BY <1>1, ScopeInvariant, TypeCorrect, PTL

\* A Glassbox used by one caller at a time keeps every limit exactly, as long
\* as the per-tool limit is not zero.
THEOREM SequentialExact ==
  ASSUME Cardinality(Callers) = 1, PerTool # 0
  PROVE  Spec => []LimitsNeverExceeded
<1>1. TypeOK /\ OvershootBounded => LimitsNeverExceeded
  <2> SUFFICES ASSUME TypeOK, OvershootBounded PROVE LimitsNeverExceeded
    OBVIOUS
  <2>1. Slack = 0 /\ PerToolEffective = PerTool
    BY DEF Slack, PerToolEffective
  <2>2. \A s \in Scopes : Cardinality(OfTools(InWindow, s.tools)) <= s.limit
    BY <2>1, ScopesType DEF OvershootBounded
  <2>3. OfTools(InWindow, Tools) = InWindow
    BY DEF TypeOK, OfTools, InWindow, Entries
  <2>4. ASSUME NEW t \in Tools
        PROVE  Cardinality(OfTools(InWindow, {t})) <= PerTool
    <3>1. [tools |-> {t}, limit |-> PerTool] \in Scopes
      BY <2>1 DEF Scopes
    <3> QED BY <2>2, <3>1
  <2>5. /\ [tools |-> Tools, limit |-> Total] \in Scopes
        /\ [tools |-> WriteTools, limit |-> Writes] \in Scopes
        /\ [tools |-> ShellTools, limit |-> Shells] \in Scopes
    BY DEF Scopes
  <2> QED BY <2>2, <2>3, <2>4, <2>5 DEF LimitsNeverExceeded
<1> QED BY <1>1, Overshoot, TypeCorrect, PTL

--------------------------------------------------------------------------------
(* The limiter implements the sliding window                                *)

\* FiniteSets is instantiated twice, once by each module.
LEMMA SameCardinality == \A S : SW!Cardinality(S) = Cardinality(S)
BY DEF Cardinality, SW!Cardinality, IsFiniteSet, SW!IsFiniteSet

\* What the abstract window counts is what the table has of it.
LEMMA ScopeCalls ==
  ASSUME TypeOK, NEW s \in Scopes
  PROVE  SW!InScope(s) = OfTools(InWindow, s.tools)
BY ScopesType DEF SW!InScope, SW!InWindow, OfTools, InWindow

\* Recording a call is a grant of the abstract window.
LEMMA RecordGrants ==
  ASSUME TypeOK, TableInv, ScopeInv, NEW c \in Callers, Record(c)
  PROVE  SW!Grant(admitted[c])
<1> DEFINE t == admitted[c]
<1>1. t \in Tools
  BY DEF Record, TypeOK
<1>2. ASSUME NEW s \in Scopes, t \in s.tools
      PROVE  SW!HasRoom(s)
  <2>1. Cardinality(Pending(s.tools)) >= 1
    <3>1. c \in Pending(s.tools)
      BY <1>2 DEF Pending
    <3> QED BY <3>1, PendingFinite, FS_EmptySet
  <2>2. OfTools(InWindow, s.tools) \subseteq OfTools(tool_calls, s.tools)
    BY DEF TableInv, OfTools
  <2>3. /\ Cardinality(OfTools(InWindow, s.tools)) \in Nat
        /\ Cardinality(OfTools(InWindow, s.tools)) <= Cardinality(OfTools(tool_calls, s.tools))
    BY <2>2, CountsFinite, FS_Subset, FS_CardinalityType
  <2>4. Cardinality(OfTools(InWindow, s.tools)) < s.limit + Slack
    BY <2>1, <2>3, CountsFinite, PendingFinite, ScopesType, CallersFinite DEF ScopeInv
  <2> QED BY <2>4, ScopeCalls, SameCardinality DEF SW!HasRoom
<1> QED BY <1>1, <1>2, SameCardinality DEF Record, SW!Grant, Entry

\* Every behaviour of the table and its callers is one of the abstract window
\* with a slack of the other callers.
THEOREM Refinement == Spec => ImplementsSlidingWindow
<1>1. Init => SW!Init
  BY DEF Init, SW!Init
<1>2. TypeOK /\ TableInv /\ ScopeInv /\ [Next]_vars => [SW!Next]_SW!vars
  <2> SUFFICES ASSUME TypeOK, TableInv, ScopeInv, [Next]_vars
               PROVE  [SW!Next]_SW!vars
    OBVIOUS
  <2>1. ASSUME NEW c \in Callers, NEW t \in Tools, CheckOk(c, t) \/ CheckRefused(c, t)
        PROVE  UNCHANGED SW!vars
    BY <2>1 DEF CheckOk, CheckRefused, SW!vars
  <2>2. ASSUME NEW c \in Callers, Record(c) PROVE SW!Next
    BY <2>2, RecordGrants DEF SW!Next, Record, TypeOK
  <2>3. CASE Tick
    BY <2>3 DEF Tick, SW!Next, SW!Tick
  <2>4. CASE UNCHANGED vars
    BY <2>4 DEF vars, SW!vars
  <2> QED BY <2>1, <2>2, <2>3, <2>4 DEF Next
<1>3. Init => TableInv
  BY DEF Init, TableInv, InWindow
<1>4. TypeOK /\ TableInv /\ [Next]_vars => TableInv'
  BY TableStep
<1> QED BY <1>1, <1>2, <1>3, <1>4, ScopeInvariant, TypeCorrect, PTL
        DEF Spec, SW!Spec, ImplementsSlidingWindow
================================================================================
