--------------------------- MODULE ContainerSandbox ---------------------------
(* The SandboxManager of laminae-shadow: concurrent analyses that share one   *)
(* cached answer to "which container runtime is there", each running its      *)
(* blocks one after the other in containers with a time to live, a timeout    *)
(* around the client and a forced removal behind it.  The runtime, the        *)
(* containers and the programs in them are the environment: a program may     *)
(* take no notice of the signal that timeout(1) sends, and the commands of    *)
(* the runtime that no timer is set for may never come back.                  *)
EXTENDS Naturals, SequencesExt, FiniteSetsExt

CONSTANTS
  Analyses,    \* concurrent calls of analyze
  Blocks,      \* Blocks[a]: the code blocks of a
  MinLen,      \* min_code_len
  TTL,         \* ttl_secs
  Grace,       \* the 10 seconds the client gets on top
  Runtimes,    \* the runtimes in the order they are asked for
  MaxFlips     \* bound: how often a runtime starts or stops

\* What a program may print that the analysis knows.
Kinds == {"data_exfiltration", "path_traversal", "privilege_escalation"}

\* A block as it is found in the output, with what its program would do: how long
\* it takes, whether it goes on after SIGTERM, how it ends and what it prints; and
\* whether a character lies across the place where evidence of it is cut.
Block ==
  [language : STRING, len : Nat, takes : Nat, stubborn : BOOLEAN, exit : {"ok", "crashed"},
   prints : SUBSET Kinds, cut : BOOLEAN]

\* "unset" and "none" are the answers that name no runtime and no task.
ASSUME SandboxAssumption ==
  /\ TTL \in Nat \ {0} /\ Grace \in Nat \ {0} /\ MaxFlips \in Nat
  /\ Blocks \in [Analyses -> Seq(Block)]
  /\ Runtimes \in Seq(STRING \ {"unset", "none"})
  /\ "none" \notin Analyses

VARIABLES
  up,         \* the runtimes whose daemon answers
  flips,
  cell,       \* DETECTED_RUNTIME: its value, who computes it, how far
  pc, block,  \* where an analysis is, and at which block
  waited,     \* how long it has waited for the client of that block
  found,      \* all_findings
  outcome,    \* history: how the client of a block ended
  container   \* container[a][i]: the container of the i-th block of a

env == <<up, flips>>
analysis == <<pc, block, waited, found, outcome>>
vars == <<env, cell, analysis, container>>

Absent == [state |-> "absent", ran |-> 0, exit |-> "none"]

Init ==
  /\ up \in SUBSET ToSet(Runtimes)
  /\ flips = 0
  /\ cell = [value |-> "unset", by |-> "none", asked |-> 0]
  /\ pc = [a \in Analyses |-> "idle"]
  /\ block = [a \in Analyses |-> 0]
  /\ waited = [a \in Analyses |-> 0]
  /\ found = [a \in Analyses |-> << >>]
  /\ outcome = [a \in Analyses |-> [i \in DOMAIN Blocks[a] |-> "not run"]]
  /\ container = [a \in Analyses |-> [i \in DOMAIN Blocks[a] |-> Absent]]

Client(a) == container[a][block[a]]

--------------------------------------------------------------------------------
(* The runtime                                                             *)

\* get_or_init: a value already there is taken; otherwise one caller asks and
\* the others wait for its answer.
DetectStart(a) ==
  /\ pc[a] = "idle"
  /\ cell.value = "unset" /\ cell.by = "none"
  /\ cell' = [cell EXCEPT !.by = a, !.asked = 1]
  /\ UNCHANGED <<env, analysis, container>>

Settled(value) == [value |-> value, by |-> "none", asked |-> 0]

\* Mutant of Ask: that there is no runtime is not remembered.
AskForgetful(a) ==
  /\ cell.by = a
  /\ \/ /\ cell.asked > Len(Runtimes)
        /\ cell' = Settled("unset")
        /\ pc' = [pc EXCEPT ![a] = "done"]
     \/ /\ cell.asked <= Len(Runtimes)
        /\ cell' = IF Runtimes[cell.asked] \in up THEN Settled(Runtimes[cell.asked])
                   ELSE [cell EXCEPT !.asked = @ + 1]
        /\ UNCHANGED pc
  /\ UNCHANGED <<env, block, waited, found, outcome, container>>

\* "docker info", then "podman info", then the answer that there is none.
Ask(a) ==
  /\ cell.by = a
  /\ cell' = IF cell.asked > Len(Runtimes) THEN Settled("none")
             ELSE IF Runtimes[cell.asked] \in up THEN Settled(Runtimes[cell.asked])
             ELSE [cell EXCEPT !.asked = @ + 1]
  /\ UNCHANGED <<env, analysis, container>>

Begin(a) ==
  /\ pc[a] = "idle"
  /\ cell.value # "unset"
  /\ pc' = [pc EXCEPT ![a] = IF cell.value = "none" THEN "done" ELSE "next"]
  /\ UNCHANGED <<env, cell, block, waited, found, outcome, container>>

--------------------------------------------------------------------------------
(* The blocks of an analysis                                               *)

Supported(b) == b.language \in {"python", "javascript", "shell", "ruby"}

Runnable(a, i) == Blocks[a][i].len >= MinLen /\ Supported(Blocks[a][i])

Rest(a) == {i \in (block[a] + 1)..Len(Blocks[a]) : Runnable(a, i)}

Finish(a) ==
  /\ pc[a] = "next"
  /\ Rest(a) = {}
  /\ pc' = [pc EXCEPT ![a] = "done"]
  /\ UNCHANGED <<env, cell, block, waited, found, outcome, container>>

\* The client of the next block cannot be started: the error is logged.
SpawnFails(a) ==
  /\ pc[a] = "next"
  /\ Rest(a) # {}
  /\ block' = [block EXCEPT ![a] = Min(Rest(a))]
  /\ outcome' = [outcome EXCEPT ![a][Min(Rest(a))] = "not started"]
  /\ UNCHANGED <<env, cell, pc, waited, found, container>>

\* The next block long enough and in a known language: its client is started,
\* and ends at once when the daemon it was told to ask is gone.
Spawn(a) ==
  LET i == Min(Rest(a)) IN
  /\ pc[a] = "next"
  /\ Rest(a) # {}
  /\ block' = [block EXCEPT ![a] = i]
  /\ container' = [container EXCEPT ![a][i] =
       IF cell.value \in up THEN [Absent EXCEPT !.state = "starting"]
       ELSE [Absent EXCEPT !.state = "exited", !.exit = "refused"]]
  /\ pc' = [pc EXCEPT ![a] = "waiting"]
  /\ UNCHANGED <<env, cell, waited, found, outcome>>

\* tokio::time::timeout(ttl + 10): for the pull, the start and the program.
Deadline == TTL + Grace

\* Mutant of GiveUp: only a program that runs is timed, not its pull and start.
GiveUpRunning(a, then) ==
  /\ pc[a] = "waiting"
  /\ waited[a] >= Deadline
  /\ Client(a).state = "running"
  /\ outcome' = [outcome EXCEPT ![a][block[a]] = "given up"]
  /\ waited' = [waited EXCEPT ![a] = 0]
  /\ pc' = [pc EXCEPT ![a] = then]
  /\ UNCHANGED <<env, cell, block, found, container>>

GiveUp(a, then) ==
  /\ pc[a] = "waiting"
  /\ waited[a] >= Deadline
  /\ Client(a).state # "exited"
  /\ outcome' = [outcome EXCEPT ![a][block[a]] = "given up"]
  /\ waited' = [waited EXCEPT ![a] = 0]
  /\ pc' = [pc EXCEPT ![a] = then]
  /\ UNCHANGED <<env, cell, block, found, container>>

\* Mutant of Timeout: the error is returned from the analysis.
TimeoutFatal(a) == GiveUp(a, "done")

\* The error is logged and the next block is taken.  Dropping the future does not
\* end the client, and nothing removes the container.
Timeout(a) == GiveUp(a, "next")

\* analyze_output: what the program printed and what the client did are one text;
\* a client that cannot pull the image prints why it has no connection.
Printed(b, exit) ==
  CASE exit \in {"ok", "crashed", "killed"} -> b.prints
    [] exit = "unpullable" -> {"data_exfiltration"}
    [] OTHER -> {}

Named(kind, kinds) == IF kind \in kinds THEN <<kind>> ELSE << >>

InOrder(kinds) ==
  Named("data_exfiltration", kinds) \o Named("path_traversal", kinds)
    \o Named("privilege_escalation", kinds)

\* The exit code, then at most one finding of each kind.
Verdict(b, exit) ==
  (CASE exit = "killed" -> <<"resource_abuse_high">>
     [] exit = "crashed" -> <<"resource_abuse_medium">>
     [] OTHER -> << >>) \o InOrder(Printed(b, exit))

\* The client has ended: "rm -f" is started, and waited for without a timer.
Exited(a) ==
  /\ pc[a] = "waiting"
  /\ Client(a).state = "exited"
  /\ waited' = [waited EXCEPT ![a] = 0]
  /\ pc' = [pc EXCEPT ![a] = "removing"]
  /\ UNCHANGED <<env, cell, block, found, outcome, container>>

\* What is wrong with the block comes with evidence: a slice of bytes.
Panics(b, exit) == b.cut /\ Verdict(b, exit) # << >>

\* The container is gone: the findings of the block, or the end of the task.
Removed(a) ==
  LET b == Blocks[a][block[a]] IN
  /\ pc[a] = "removing"
  /\ container' = [container EXCEPT ![a][block[a]] = Absent]
  /\ \/ /\ ~ Panics(b, Client(a).exit)
        /\ outcome' = [outcome EXCEPT ![a][block[a]] = Client(a).exit]
        /\ found' = [found EXCEPT ![a] = @ \o Verdict(b, Client(a).exit)]
        /\ pc' = [pc EXCEPT ![a] = "next"]
     \/ /\ Panics(b, Client(a).exit)
        /\ pc' = [pc EXCEPT ![a] = "died"]
        /\ UNCHANGED <<outcome, found>>
  /\ UNCHANGED <<env, cell, block, waited>>

--------------------------------------------------------------------------------
(* The daemon, the containers and time                                     *)

Alive(a, i) == container[a][i].state \in {"starting", "running"}

\* A client is told; --rm takes what no client waits for any more.
Ended(a, i, exit) ==
  IF pc[a] = "waiting" /\ block[a] = i
  THEN [state |-> "exited", ran |-> container[a][i].ran, exit |-> exit]
  ELSE Absent

End(a, i, exit) ==
  /\ container' = [container EXCEPT ![a][i] = Ended(a, i, exit)]
  /\ UNCHANGED <<env, cell, analysis>>

\* A start may take any time, and need not end at all.
Started(a, i) ==
  /\ container[a][i].state = "starting"
  /\ container' = [container EXCEPT ![a][i].state = "running"]
  /\ UNCHANGED <<env, cell, analysis>>

PullFails(a, i) == container[a][i].state = "starting" /\ End(a, i, "unpullable")

\* timeout(1) sends SIGTERM, and no SIGKILL after it.
Allowed(b) == IF b.stubborn THEN b.takes ELSE Min({b.takes, TTL})

\* The program ends, by itself or by timeout(1), which tells that its time was over.
ProgramEnds(a, i) ==
  /\ container[a][i].state = "running"
  /\ container[a][i].ran = Allowed(Blocks[a][i])
  /\ End(a, i, IF Blocks[a][i].takes >= TTL THEN "killed" ELSE Blocks[a][i].exit)

\* A daemon that stops kills the containers it runs; a client whose container was
\* not there yet fails.
Flip(r) ==
  /\ flips < MaxFlips
  /\ flips' = flips + 1
  /\ up' = IF r \in up THEN up \ {r} ELSE up \cup {r}
  /\ container' = [a \in Analyses |-> [i \in DOMAIN Blocks[a] |->
       IF r = cell.value /\ r \in up /\ Alive(a, i)
       THEN Ended(a, i, IF container[a][i].state = "running" THEN "killed" ELSE "lost")
       ELSE container[a][i]]]
  /\ UNCHANGED <<cell, analysis>>

\* Time passes up to the next timer, while a timer runs.
Tick ==
  /\ \/ \E a \in Analyses : pc[a] = "waiting"
     \/ \E a \in Analyses : \E i \in DOMAIN Blocks[a] : container[a][i].state = "running"
  /\ \A a \in Analyses : \A i \in DOMAIN Blocks[a] :
       container[a][i].state = "running" => container[a][i].ran < Allowed(Blocks[a][i])
  /\ \A a \in Analyses :
       pc[a] = "waiting" => Client(a).state # "exited" /\ waited[a] < Deadline
  /\ waited' = [a \in Analyses |-> IF pc[a] = "waiting" THEN waited[a] + 1 ELSE 0]
  /\ container' = [a \in Analyses |-> [i \in DOMAIN Blocks[a] |->
       IF container[a][i].state = "running"
       THEN [container[a][i] EXCEPT !.ran = @ + 1] ELSE container[a][i]]]
  /\ UNCHANGED <<env, cell, pc, block, found, outcome>>

\* The commands of the runtime that no timer is set for, and everything else.
Awaited(a) == Ask(a) \/ Removed(a)
Own(a) ==
  \/ DetectStart(a) \/ Begin(a) \/ Finish(a)
  \/ Spawn(a) \/ SpawnFails(a) \/ Timeout(a) \/ Exited(a)

Daemon ==
  \E a \in Analyses : \E i \in DOMAIN Blocks[a] :
    Started(a, i) \/ PullFails(a, i) \/ ProgramEnds(a, i)

Next ==
  \/ \E a \in Analyses : Own(a) \/ Awaited(a)
  \/ Daemon
  \/ \E r \in ToSet(Runtimes) : Flip(r)
  \/ Tick

\* The tasks are scheduled, the clock runs and what ends is reported; a start, an
\* answer to "info" and the end of "rm -f" are owed by nobody.
Spec ==
  /\ Init /\ [][Next]_vars
  /\ \A a \in Analyses : WF_vars(Own(a))
  /\ \A a \in Analyses : \A i \in DOMAIN Blocks[a] : WF_vars(ProgramEnds(a, i))
  /\ WF_vars(Tick)

--------------------------------------------------------------------------------

Findings == Kinds \cup {"resource_abuse_high", "resource_abuse_medium"}
States == {"absent", "starting", "running", "exited"}
Exits == {"none", "ok", "crashed", "killed", "refused", "unpullable", "lost"}

\* The types.
TypeOK ==
  /\ up \subseteq ToSet(Runtimes) /\ flips \in 0..MaxFlips
  /\ cell \in [value : ToSet(Runtimes) \cup {"unset", "none"},
               by : Analyses \cup {"none"}, asked : 0..(Len(Runtimes) + 1)]
  /\ pc \in [Analyses -> {"idle", "next", "waiting", "removing", "done", "died"}]
  /\ block \in [Analyses -> Nat] /\ waited \in [Analyses -> Nat]
  /\ found \in [Analyses -> Seq(Findings)]
  /\ DOMAIN container = Analyses /\ DOMAIN outcome = Analyses
  /\ \A a \in Analyses :
       /\ block[a] <= Len(Blocks[a])
       /\ DOMAIN container[a] = DOMAIN Blocks[a] /\ DOMAIN outcome[a] = DOMAIN Blocks[a]
       /\ \A i \in DOMAIN Blocks[a] :
            /\ container[a][i] \in [state : States, ran : Nat, exit : Exits]
            /\ outcome[a][i] \in Exits \cup {"not run", "not started", "given up"}

\* An analysis that has begun comes to an end, whatever its programs ignore and
\* however long their containers take to start, unless "rm -f" keeps it for ever:
\* the timer is around the pull, the start and the program.
AnalysesEnd ==
  \A a \in Analyses :
    []<>(pc[a] # "removing") => (pc[a] = "next" ~> pc[a] \in {"done", "died"})

\* What the documentation says of the time to live, that the container is
\* "force-killed": no program runs past it, or at least past the grace that the
\* client has on top.  The code sends SIGTERM, and gives the client up.
ForceKilled ==
  \A a \in Analyses : \A i \in DOMAIN Blocks[a] : container[a][i].ran <= Deadline

Shown(b) ==
  CASE b.takes >= TTL -> <<"resource_abuse_high">>
    [] b.takes < TTL /\ b.exit = "crashed" -> <<"resource_abuse_medium">>
    [] OTHER -> << >>

\* What the blocks of an analysis have to show: nothing, for one not run, not
\* started or given up.
Shows(a) ==
  [i \in DOMAIN Blocks[a] |->
     IF outcome[a][i] \notin Exits THEN << >>
     ELSE Shown(Blocks[a][i]) \o InOrder(Blocks[a][i].prints)]

\* One block's timeout takes nothing from the others: while the daemon stays up,
\* an analysis that ends has run or given up each of its blocks, and has found
\* what each of the programs shows by its end and its output, in the order of
\* the blocks.
FoundIsWhatRan ==
  \A a \in Analyses :
    pc[a] = "done" /\ cell.value \in ToSet(Runtimes) /\ flips = 0 =>
      /\ \A i \in DOMAIN Blocks[a] : Runnable(a, i) => outcome[a][i] # "not run"
      /\ "unpullable" \notin Range(outcome[a]) => found[a] = FlattenSeq(Shows(a))

\* The analyses of a process agree on the runtime: none is skipped for want of
\* one while another runs, before or after, whatever the daemons do meanwhile.
AllAgree ==
  \A a, b \in Analyses :
    ~ (pc[a] = "done" /\ block[a] = 0 /\ (\E i \in DOMAIN Blocks[a] : Runnable(a, i))
       /\ block[b] > 0)
================================================================================
