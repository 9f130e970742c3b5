-------------------------------- MODULE Watchdog --------------------------------
(***************************************************************************)
(* spawn_watchdog of laminae-ironclad: a task that looks at a process by   *)
(* its pid every Poll, kills it when it has run too long, when one sample  *)
(* shows too much memory, or when every sample over the last Sustained     *)
(* showed too much CPU, and stops when it is cancelled or the pid answers  *)
(* nothing.                                                                *)
(*                                                                         *)
(* The clock advances by ticks.  The steps of the task take no time,       *)
(* asking ps takes at most MaxSample ticks, the sleep takes Poll.  That    *)
(* bound is an assumption on the system: the code sets ps no timeout.      *)
(*                                                                         *)
(* What the loop judges is what ps prints, not what the process does: the  *)
(* %cpu of ps is, on Linux, the CPU time over the lifetime of the process, *)
(* elsewhere a decaying average.  So the model has the figures ps would    *)
(* print now, which move as they like, and nothing that would tie them to  *)
(* the present load.                                                       *)
(***************************************************************************)
EXTENDS Integers

CONSTANTS
  Poll,          (* poll_interval                                          *)
  Sustained,     (* sustained_duration                                     *)
  MaxWall,       (* max_wall_time                                          *)
  MaxSample,     (* how long asking ps may take                            *)
  Never          (* not a time: no violation, no event                     *)

ASSUME ConstantsAssumption ==
  /\ {Poll, Sustained, MaxWall, MaxSample} \subseteq Nat
  /\ Never \notin Nat

Time == Nat \cup {Never}

\* What the loop tells apart in two figures: whether the one of the CPU is over
\* its threshold, and the one of the memory.
Figures == [cpu : BOOLEAN, memory : BOOLEAN]
Zero == [cpu |-> FALSE, memory |-> FALSE]

VARIABLES
  now,                 (* the clock; the watchdog was spawned at 0         *)
  process,             (* who has the pid: the process, its zombie, nobody *)
                       (* or another process                               *)
  leader,              (* whether the pid leads a process group            *)
  descendants,         (* what the process has started                     *)
  figures,             (* what ps would print for the pid now              *)
  pc,                  (* where the task is                                *)
  due,                 (* when the ps it waits for, or its sleep, ends     *)
  stats,               (* the sample being judged                          *)
  cpu_violation_start, (* since when samples have been over the threshold  *)
  cancel,              (* the handle                                       *)
  killed,              (* the reason of the kill, or "no"                  *)
  hot_since,           (* ghost: since when the CPU figure has been over   *)
                       (* its threshold and no reading of it has failed    *)
  big_since,           (* ghost: likewise of the memory                    *)
  last_cool,           (* ghost: the last time a sample was judged cool    *)
  cancelled_at         (* ghost: when the handle was set                   *)

pid == <<process, leader, descendants, figures>>
task == <<pc, due, stats, cpu_violation_start, killed>>
ghosts == <<hot_since, big_since, last_cool, cancelled_at>>
vars == <<now, pid, task, cancel, ghosts>>

Init ==
  /\ now = 0
  /\ process = "running" /\ leader \in BOOLEAN /\ descendants = "none"
  /\ figures = Zero
  /\ pc = "check" /\ due = 0 /\ stats = Zero
  /\ cpu_violation_start = Never
  /\ cancel = FALSE
  /\ killed = "no"
  /\ hot_since = Never /\ big_since = Never /\ last_cool = 0 /\ cancelled_at = Never

--------------------------------------------------------------------------------
(* The task                                                                *)

\* kill(-pid) reaches the group the pid leads, kill(pid) whoever has the pid.
\* What the process started is in its group only if it leads one.
Signalled ==
  /\ process' = CASE process = "running" -> "zombie"
                  [] process = "other" -> "gone"
                  [] OTHER -> process
  /\ descendants' = IF leader /\ descendants = "running" THEN "killed" ELSE descendants

Kill(reason) ==
  /\ killed' = reason
  /\ pc' = "stopped"
  /\ Signalled
  /\ figures' = Zero
  /\ hot_since' = Never /\ big_since' = Never

Stop == pc' = "stopped"

\* Mutant of Cancelled: a run of hot samples is followed to its end.
CancelledWhileCool == cancel /\ cpu_violation_start = Never

Cancelled == cancel

\* The top of the loop, when the handle is set.
SeeCancel ==
  /\ pc = "check" /\ Cancelled
  /\ Stop
  /\ UNCHANGED <<now, pid, due, stats, cpu_violation_start, killed, cancel, ghosts>>

\* Mutant of PastWall: the limit is only compared when the CPU is over.
PastWallHot == now > MaxWall /\ cpu_violation_start # Never

PastWall == now > MaxWall

SeeWallTime ==
  /\ pc = "check" /\ ~ Cancelled
  /\ PastWall
  /\ Kill("wall_time")
  /\ UNCHANGED <<now, leader, due, stats, cpu_violation_start, cancel, last_cool, cancelled_at>>

AskStats ==
  /\ pc = "check" /\ ~ Cancelled
  /\ ~ PastWall
  /\ pc' = "asking"
  /\ due' = now + MaxSample
  /\ UNCHANGED <<now, pid, stats, cpu_violation_start, killed, cancel, ghosts>>

\* Since when a figure has been over, a reading of it that fails beginning anew.
SinceRead(shown, read, since) == IF shown /\ ~ read THEN now ELSE since

\* ps looks the pid up, and its output comes later.  A figure that does not parse,
\* a decimal comma for one, is 0: each of the two may be lost.
ReadStats ==
  /\ pc = "asking"
  /\ process # "gone"
  /\ \E read \in Figures :
       /\ stats' = [cpu |-> figures.cpu /\ read.cpu, memory |-> figures.memory /\ read.memory]
       /\ hot_since' = SinceRead(figures.cpu, read.cpu, hot_since)
       /\ big_since' = SinceRead(figures.memory, read.memory, big_since)
  /\ pc' = "judging"
  /\ UNCHANGED <<now, pid, due, cpu_violation_start, killed, cancel, last_cool, cancelled_at>>

\* ps knows no such pid, or could not be run or read.
NoStats ==
  /\ pc = "asking"
  /\ Stop
  /\ UNCHANGED <<now, pid, due, stats, cpu_violation_start, killed, cancel, ghosts>>

TooBig == stats.memory

JudgeMemory ==
  /\ pc = "judging"
  /\ TooBig
  /\ Kill("memory")
  /\ UNCHANGED <<now, leader, due, stats, cpu_violation_start, cancel, last_cool, cancelled_at>>

\* Mutant of ViolationStart: the run of hot samples begins at every sample.
ViolationRestart == now

ViolationStart == IF cpu_violation_start = Never THEN now ELSE cpu_violation_start

LongEnough == now - ViolationStart >= Sustained

JudgeCpu ==
  /\ pc = "judging"
  /\ ~ TooBig /\ stats.cpu
  /\ LongEnough
  /\ cpu_violation_start' = ViolationStart
  /\ Kill("cpu")
  /\ UNCHANGED <<now, leader, due, stats, cancel, last_cool, cancelled_at>>

Sleep ==
  /\ pc' = "sleeping"
  /\ due' = now + Poll

KeepWatching ==
  /\ pc = "judging"
  /\ ~ TooBig /\ stats.cpu
  /\ ~ LongEnough
  /\ cpu_violation_start' = ViolationStart
  /\ Sleep
  /\ UNCHANGED <<now, pid, stats, killed, cancel, ghosts>>

\* Mutant of AfterCool: a cool sample leaves the run of hot ones going.
AfterCoolKept == cpu_violation_start

AfterCool == Never

JudgeCool ==
  /\ pc = "judging"
  /\ ~ TooBig /\ ~ stats.cpu
  /\ cpu_violation_start' = AfterCool
  /\ last_cool' = now
  /\ Sleep
  /\ UNCHANGED <<now, pid, stats, killed, cancel, hot_since, big_since, cancelled_at>>

Wake ==
  /\ pc = "sleeping"
  /\ now = due
  /\ pc' = "check"
  /\ UNCHANGED <<now, pid, due, stats, cpu_violation_start, killed, cancel, ghosts>>

Loop ==
  \/ SeeCancel \/ SeeWallTime \/ AskStats \/ ReadStats \/ NoStats
  \/ JudgeMemory \/ JudgeCpu \/ KeepWatching \/ JudgeCool \/ Wake

--------------------------------------------------------------------------------
(* The world                                                               *)

\* Time passes while the task waits, and never past what it waits for.
Tick ==
  /\ pc \in {"asking", "judging", "sleeping"}
  /\ now < due
  /\ now' = now + 1
  /\ UNCHANGED <<pid, task, cancel, ghosts>>

Since(over, since) == IF ~ over THEN Never ELSE IF since = Never THEN now ELSE since

\* The figures move; a zombie keeps its CPU time and has no memory.
Show(f) ==
  /\ pc # "stopped"
  /\ process # "gone"
  /\ process = "zombie" => ~ f.memory
  /\ figures' = f
  /\ hot_since' = Since(f.cpu, hot_since)
  /\ big_since' = Since(f.memory, big_since)
  /\ UNCHANGED <<now, process, leader, descendants, task, cancel, last_cool, cancelled_at>>

\* The process starts another one; what it started ends by itself.
Fork ==
  /\ pc # "stopped"
  /\ \/ process = "running" /\ descendants = "none" /\ descendants' = "running"
     \/ descendants = "running" /\ descendants' = "none"
  /\ UNCHANGED <<now, process, leader, figures, task, cancel, ghosts>>

\* The process ends by itself, is reaped by its parent, and its pid is given to
\* another one, which a group that still has it as its number prevents.
Exit ==
  /\ pc # "stopped"
  /\ \/ process = "running" /\ process' = "zombie"
     \/ process = "zombie" /\ process' = "gone"
     \/ /\ process = "gone" /\ ~ (leader /\ descendants = "running")
        /\ process' = "other"
  /\ figures' = Zero
  /\ hot_since' = Never /\ big_since' = Never
  /\ UNCHANGED <<now, leader, descendants, task, cancel, last_cool, cancelled_at>>

Cancel ==
  /\ pc # "stopped" /\ ~ cancel
  /\ cancel' = TRUE
  /\ cancelled_at' = now
  /\ UNCHANGED <<now, pid, task, hot_since, big_since, last_cool>>

World == Fork \/ Exit \/ Cancel \/ \E f \in Figures : Show(f)

Next == Loop \/ Tick \/ World

\* The runtime polls the task, and time passes.
Fairness == WF_vars(Loop) /\ WF_vars(Tick)

Spec == Init /\ [][Next]_vars /\ Fairness

--------------------------------------------------------------------------------
(* Properties                                                              *)

\* Every variable has its type, and what the task waits for is no further away
\* than one sleep or one sample.
TypeOK ==
  /\ now \in Nat
  /\ process \in {"running", "zombie", "gone", "other"}
  /\ leader \in BOOLEAN
  /\ descendants \in {"none", "running", "killed"}
  /\ figures \in Figures /\ stats \in Figures
  /\ pc \in {"check", "asking", "judging", "sleeping", "stopped"}
  /\ due \in Nat
  /\ pc = "sleeping" => now <= due /\ due <= now + Poll
  /\ pc \in {"asking", "judging"} => now <= due /\ due <= now + MaxSample
  /\ cpu_violation_start \in Time
  /\ cancel \in BOOLEAN
  /\ killed \in {"no", "wall_time", "memory", "cpu"}
  /\ hot_since \in Time /\ big_since \in Time /\ last_cool \in Nat
  /\ cancelled_at \in Time

Watching == pc # "stopped"

\* A process that is still watched has run no longer than the limit and the
\* time of one turn of the loop.
WallTimeBounded == Watching => now <= MaxWall + MaxSample + Poll

\* A kill for CPU comes after Sustained without one cool sample.
CpuKillJustified == killed = "cpu" => now - last_cool >= Sustained

\* Whoever ps shows over the CPU threshold, in figures that parse, is not watched
\* longer than it takes to see it (a cool sample judged late, a sleep, a hot one
\* judged late), the sustained time, and the turn in which that is noticed.  How
\* long a load takes to show in the figure is not said: that is up to ps.
RunawayKilled ==
  Watching /\ hot_since # Never =>
    now - hot_since <= (Poll + 2 * MaxSample) + Sustained + (Poll + MaxSample)

\* Whoever ps shows over the memory limit, in figures that parse, is killed at the
\* next sample.
BigKilled ==
  Watching /\ big_since # Never => now - big_since <= Poll + 2 * MaxSample

\* No process is shown over either for longer than its bound.
OveruseKilled == RunawayKilled /\ BigKilled

\* A cancelled watchdog may still kill on the sample it is waiting for, and no
\* later; it is gone after one more turn of the loop.
CancelHonoured ==
  cancel => now - cancelled_at <= MaxSample + (IF killed = "no" THEN Poll ELSE 0)
================================================================================
