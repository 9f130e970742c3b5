----------------------------- MODULE WatchdogProofs -----------------------------
(* The reaction times of the watchdog, for every configuration, every duration *)
(* of ps and every behaviour of the process.                                   *)
EXTENDS Watchdog, TLAPS

\* Where the task stands in its turn bounds how long ago anything can have
\* happened that it has not acted upon: `late` ticks before the sleep that it
\* is in or has just left, `late + MaxSample` while it asks and judges.
Within(since, late) ==
  /\ since \in Nat /\ since <= now
  /\ pc = "check" => now - since <= late
  /\ pc = "sleeping" => due - since <= late
  /\ pc \in {"asking", "judging"} => due - since <= late + MaxSample

\* What began after the sample was read is seen one turn later.
Unread(since) == pc = "judging" => due - since <= MaxSample

WallInv ==
  /\ pc = "check" => now <= MaxWall + MaxSample + Poll
  /\ pc = "sleeping" => due <= MaxWall + MaxSample + Poll
  /\ pc \in {"asking", "judging"} => due <= MaxWall + MaxSample

CancelInv ==
  /\ cancel => cancelled_at \in Nat /\ cancelled_at <= now
  /\ cancel /\ pc \in {"asking", "judging"} => due - cancelled_at <= MaxSample
  /\ cancel /\ pc = "sleeping" => due - cancelled_at <= MaxSample + Poll
  /\ cancel /\ pc = "check" => now - cancelled_at <= MaxSample + Poll
  /\ killed # "no" => pc = "stopped"

CoolInv ==
  /\ last_cool <= now
  /\ cpu_violation_start # Never =>
       last_cool <= cpu_violation_start /\ cpu_violation_start <= now

RunInv ==
  cpu_violation_start # Never => Within(cpu_violation_start, Sustained + Poll)

HotInv ==
  /\ figures.cpu <=> hot_since # Never
  /\ hot_since # Never =>
       /\ hot_since <= now
       /\ cpu_violation_start = Never => Within(hot_since, Poll + MaxSample)
       /\ cpu_violation_start # Never =>
            cpu_violation_start - hot_since <= Poll + 2 * MaxSample
       /\ ~ stats.cpu => Unread(hot_since)

BigInv ==
  /\ figures.memory <=> big_since # Never
  /\ big_since # Never =>
       /\ Within(big_since, Poll + MaxSample)
       /\ ~ stats.memory => Unread(big_since)

IInv ==
  /\ TypeOK /\ WallInv /\ CancelInv /\ CoolInv /\ CpuKillJustified /\ CancelHonoured
  /\ Watching => RunInv /\ HotInv /\ BigInv

--------------------------------------------------------------------------------

\* The configuration is in ticks.
LEMMA Durations ==
  Poll \in Nat /\ Sustained \in Nat /\ MaxWall \in Nat /\ MaxSample \in Nat
BY ConstantsAssumption

\* What the tuples of the variables stand for in UNCHANGED.
LEMMA Unchanged ==
  /\ UNCHANGED pid <=> UNCHANGED <<process, leader, descendants, figures>>
  /\ UNCHANGED task <=> UNCHANGED <<pc, due, stats, cpu_violation_start, killed>>
  /\ UNCHANGED ghosts <=> UNCHANGED <<hot_since, big_since, last_cool, cancelled_at>>
  /\ UNCHANGED vars <=> UNCHANGED <<now, pid, task, cancel, ghosts>>
BY Zenon DEF pid, task, ghosts, vars

\* A watchdog begins within the invariant.
LEMMA InitInv == Init => IInv
<1> SUFFICES ASSUME Init PROVE IInv
  OBVIOUS
<1>1. TypeOK
  <2>1. Zero \in Figures
    BY DEF Zero, Figures
  <2> QED BY <2>1, Durations DEF Init, TypeOK, Time
<1>2. WallInv /\ CancelInv /\ CoolInv /\ CpuKillJustified /\ CancelHonoured
  BY Durations DEF Init, WallInv, CancelInv, CoolInv, CpuKillJustified, CancelHonoured
<1>3. RunInv
  BY DEF Init, RunInv
<1>4. HotInv /\ BigInv
  <2>1. ~ Zero.cpu /\ ~ Zero.memory
    BY DEF Zero
  <2> QED BY <2>1 DEF Init, HotInv, BigInv
<1> QED BY <1>1, <1>2, <1>3, <1>4 DEF IInv

--------------------------------------------------------------------------------

\* A sample tells whether the CPU is over the threshold.
LEMMA Samples ==
  /\ TypeOK => figures.cpu \in BOOLEAN /\ stats.cpu \in BOOLEAN
  /\ TypeOK => figures.memory \in BOOLEAN /\ stats.memory \in BOOLEAN
  /\ ~ Zero.cpu /\ ~ Zero.memory
BY DEF TypeOK, Figures, Zero

\* A figure that is over is read as such, or its reading fails and the time since
\* when it is over begins anew.
LEMMA Reading ==
  ASSUME TypeOK, ReadStats
  PROVE  /\ stats' \in Figures /\ hot_since' \in Time /\ big_since' \in Time
         /\ figures.cpu /\ ~ stats'.cpu => hot_since' = now
         /\ stats'.cpu \/ ~ figures.cpu => hot_since' = hot_since
         /\ figures.memory /\ ~ stats'.memory => big_since' = now
         /\ stats'.memory \/ ~ figures.memory => big_since' = big_since
<1>1. PICK read \in Figures :
        /\ stats' = [cpu |-> figures.cpu /\ read.cpu, memory |-> figures.memory /\ read.memory]
        /\ hot_since' = SinceRead(figures.cpu, read.cpu, hot_since)
        /\ big_since' = SinceRead(figures.memory, read.memory, big_since)
  BY Zenon DEF ReadStats
<1>2. stats' \in Figures
  BY <1>1 DEF Figures
<1>3. stats'.cpu = (figures.cpu /\ read.cpu) /\ stats'.memory = (figures.memory /\ read.memory)
  BY <1>1
<1> QED BY <1>1, <1>2, <1>3, Samples DEF SinceRead, TypeOK, Time

\* Every variable keeps its type, and the deadlines stay near.
LEMMA TypeStep == TypeOK /\ [Next]_vars => TypeOK'
<1> SUFFICES ASSUME TypeOK, [Next]_vars PROVE TypeOK'
  OBVIOUS
<1>0. Zero \in Figures
  BY DEF Zero, Figures
<1> USE Durations, Unchanged DEF TypeOK, Time
<1>1. CASE SeeCancel \/ AskStats \/ NoStats \/ Wake
  BY <1>1 DEF SeeCancel, AskStats, NoStats, Wake, Stop
<1>11. CASE ReadStats
  BY <1>11, Reading DEF ReadStats
<1>2. CASE SeeWallTime \/ JudgeMemory
  BY <1>0, <1>2 DEF SeeWallTime, JudgeMemory, Kill, Signalled
<1>3. CASE JudgeCpu
  BY <1>0, <1>3 DEF JudgeCpu, Kill, Signalled, ViolationStart
<1>4. CASE KeepWatching \/ JudgeCool
  BY <1>4 DEF KeepWatching, JudgeCool, Sleep, ViolationStart, AfterCool
<1>5. CASE Tick
  BY <1>5 DEF Tick
<1>6. CASE Fork
  BY <1>6 DEF Fork
<1>10. CASE Cancel
  BY <1>10 DEF Cancel
<1>9. CASE Exit
  BY <1>0, <1>9 DEF Exit
<1>7. ASSUME NEW f \in Figures, Show(f) PROVE TypeOK'
  BY <1>7 DEF Show, Since
<1>8. CASE UNCHANGED vars
  BY <1>8
<1> QED BY <1>1, <1>2, <1>3, <1>4, <1>5, <1>6, <1>7, <1>8, <1>9, <1>10, <1>11 DEF Next, Loop, World

\* The steps that end the task.
LEMMA Stops ==
  ASSUME SeeCancel \/ SeeWallTime \/ NoStats \/ JudgeMemory \/ JudgeCpu
  PROVE  pc' = "stopped" /\ UNCHANGED <<now, cancel, cancelled_at, last_cool>>
BY Unchanged DEF SeeCancel, SeeWallTime, NoStats, JudgeMemory, JudgeCpu, Kill, Stop

\* The steps of the world that leave the task and the clock alone.
LEMMA Elsewhere ==
  ASSUME Fork \/ Exit \/ Cancel \/ (\E f \in Figures : Show(f))
  PROVE  UNCHANGED <<now, pc, due, stats, cpu_violation_start, killed, last_cool>>
BY Unchanged DEF Fork, Exit, Cancel, Show

\* The wall time is looked at in every turn.
LEMMA WallStep == TypeOK /\ WallInv /\ [Next]_vars => WallInv'
<1> SUFFICES ASSUME TypeOK, WallInv, [Next]_vars PROVE WallInv'
  OBVIOUS
<1> USE Durations, Unchanged DEF TypeOK, WallInv
<1>1. CASE SeeCancel \/ SeeWallTime \/ NoStats \/ JudgeMemory \/ JudgeCpu
  BY <1>1, Stops
<1>2. CASE AskStats
  BY <1>2 DEF AskStats, PastWall
<1>3. CASE ReadStats
  BY <1>3 DEF ReadStats
<1>4. CASE KeepWatching \/ JudgeCool
  BY <1>4 DEF KeepWatching, JudgeCool, Sleep
<1>5. CASE Wake
  BY <1>5 DEF Wake
<1>6. CASE Tick
  BY <1>6 DEF Tick
<1>7. CASE World
  BY <1>7, Elsewhere DEF World
<1>8. CASE UNCHANGED vars
  BY <1>8
<1> QED BY <1>1, <1>2, <1>3, <1>4, <1>5, <1>6, <1>7, <1>8 DEF Next, Loop

\* Nothing is started for a cancelled task: it ends its turn at most.
LEMMA CancelStep ==
  TypeOK /\ CancelInv /\ CancelHonoured /\ [Next]_vars => CancelInv' /\ CancelHonoured'
<1> SUFFICES ASSUME TypeOK, CancelInv, CancelHonoured, [Next]_vars
             PROVE  CancelInv' /\ CancelHonoured'
  OBVIOUS
<1> USE Durations, Unchanged DEF TypeOK, CancelInv, CancelHonoured
<1>1. CASE SeeCancel \/ NoStats
  BY <1>1 DEF SeeCancel, NoStats, Stop
<1>2. CASE SeeWallTime
  BY <1>2 DEF SeeWallTime, Cancelled, Kill
<1>3. CASE JudgeMemory \/ JudgeCpu
  BY <1>3 DEF JudgeMemory, JudgeCpu, Kill
<1>4. CASE AskStats
  BY <1>4 DEF AskStats, Cancelled
<1>5. CASE ReadStats \/ Wake
  BY <1>5 DEF ReadStats, Wake
<1>6. CASE KeepWatching \/ JudgeCool
  BY <1>6 DEF KeepWatching, JudgeCool, Sleep
<1>7. CASE Tick
  BY <1>7 DEF Tick
<1>8. CASE Fork
  BY <1>8 DEF Fork
<1>9. CASE Exit
  BY <1>9 DEF Exit
<1>10. CASE Cancel
  BY <1>10 DEF Cancel
<1>11. ASSUME NEW f \in Figures, Show(f) PROVE CancelInv' /\ CancelHonoured'
  BY <1>11 DEF Show
<1>12. CASE UNCHANGED vars
  BY <1>12
<1> QED BY <1>1, <1>2, <1>3, <1>4, <1>5, <1>6, <1>7, <1>8, <1>9, <1>10, <1>11, <1>12
        DEF Next, Loop, World

\* A run of hot samples begins after the last cool one.
LEMMA CoolStep ==
  TypeOK /\ CoolInv /\ CpuKillJustified /\ CancelInv /\ [Next]_vars
    => CoolInv' /\ CpuKillJustified'
<1> SUFFICES ASSUME TypeOK, CoolInv, CpuKillJustified, CancelInv, [Next]_vars
             PROVE  CoolInv' /\ CpuKillJustified'
  OBVIOUS
<1>1. killed = "cpu" => pc = "stopped"
  BY DEF CancelInv
<1> USE Durations, Unchanged DEF TypeOK, Time, CoolInv, CpuKillJustified
<1>2. CASE SeeCancel \/ SeeWallTime \/ NoStats \/ JudgeMemory
  BY <1>2 DEF SeeCancel, SeeWallTime, NoStats, JudgeMemory, Stop, Kill
<1>3. CASE JudgeCpu
  BY <1>3 DEF JudgeCpu, Kill, ViolationStart, LongEnough
<1>4. CASE AskStats \/ ReadStats \/ Wake
  BY <1>4 DEF AskStats, ReadStats, Wake
<1>5. CASE KeepWatching
  BY <1>1, <1>5 DEF KeepWatching, Sleep, ViolationStart
<1>6. CASE JudgeCool
  BY <1>1, <1>6 DEF JudgeCool, Sleep, AfterCool
<1>7. CASE Tick
  BY <1>1, <1>7 DEF Tick
<1>8. CASE World
  BY <1>8, Elsewhere DEF World
<1>9. CASE UNCHANGED vars
  BY <1>9
<1> QED BY <1>2, <1>3, <1>4, <1>5, <1>6, <1>7, <1>8, <1>9 DEF Next, Loop

\* As long as samples stay hot, the run is no longer than Sustained and the turn
\* that ends it.
LEMMA RunStep ==
  ASSUME TypeOK, CoolInv, RunInv, [Next]_vars, Watching, Watching'
  PROVE  RunInv'
<1> USE Durations, Unchanged DEF TypeOK, Time, CoolInv, RunInv, Within
<1>1. CASE SeeCancel \/ SeeWallTime \/ NoStats \/ JudgeMemory \/ JudgeCpu
  BY <1>1, Stops DEF Watching
<1>2. CASE AskStats \/ ReadStats \/ Wake
  BY <1>2 DEF AskStats, ReadStats, Wake
<1>3. CASE KeepWatching
  BY <1>3 DEF KeepWatching, Sleep, ViolationStart, LongEnough
<1>4. CASE JudgeCool
  BY <1>4 DEF JudgeCool, AfterCool
<1>5. CASE Tick
  BY <1>5 DEF Tick
<1>6. CASE World
  BY <1>6, Elsewhere DEF World
<1>7. CASE UNCHANGED vars
  BY <1>7
<1> QED BY <1>1, <1>2, <1>3, <1>4, <1>5, <1>6, <1>7 DEF Next, Loop

\* Whoever has kept the CPU over the threshold is in the run, or will be when
\* the sample under way, or the next one, is judged.
LEMMA HotStep ==
  ASSUME TypeOK, CoolInv, RunInv, HotInv, [Next]_vars, Watching, Watching'
  PROVE  HotInv'
<1> USE Durations, Unchanged, Samples DEF TypeOK, Time, CoolInv, RunInv, HotInv, Within, Unread
<1>1. CASE SeeCancel \/ SeeWallTime \/ NoStats \/ JudgeMemory \/ JudgeCpu
  BY <1>1, Stops DEF Watching
<1>2. CASE AskStats
  BY <1>2 DEF AskStats
<1>3. CASE ReadStats
  <2>1. figures' = figures /\ pc' = "judging" /\ UNCHANGED <<now, due, cpu_violation_start>>
    BY <1>3 DEF ReadStats
  <2>2. hot_since = Never <=> hot_since' = Never
    <3>1. now # Never
      BY ConstantsAssumption
    <3> QED BY <1>3, <3>1, Reading, Samples DEF HotInv
  <2>3. hot_since' # Never /\ ~ stats'.cpu => hot_since' = now
    BY <1>3, <2>2, Reading DEF HotInv
  <2>4. hot_since' = hot_since \/ hot_since' = now
    BY <1>3, Reading, Samples DEF HotInv
  <2>5. pc = "asking"
    BY <1>3 DEF ReadStats
  <2>6. figures'.cpu <=> hot_since' # Never
    BY <2>1, <2>2 DEF HotInv
  <2> HIDE DEF HotInv
  <2>7. HotInv
    OBVIOUS
  <2> QED BY <2>1, <2>2, <2>3, <2>4, <2>5, <2>6, <2>7 DEF HotInv
<1>4. CASE Wake
  BY <1>4 DEF Wake
<1>5. CASE KeepWatching
  BY <1>5, ConstantsAssumption DEF KeepWatching, Sleep, ViolationStart
<1>6. CASE JudgeCool
  BY <1>6 DEF JudgeCool, Sleep, AfterCool
<1>7. CASE Tick
  BY <1>7 DEF Tick
<1>8. CASE Fork
  BY <1>8 DEF Fork
<1>9. CASE Exit
  BY <1>9 DEF Exit
<1>10. CASE Cancel
  BY <1>10 DEF Cancel
<1>11. ASSUME NEW f \in Figures, Show(f) PROVE HotInv'
  BY <1>11, ConstantsAssumption DEF Show, Since
<1>12. CASE UNCHANGED vars
  BY <1>12
<1> QED BY <1>1, <1>2, <1>3, <1>4, <1>5, <1>6, <1>7, <1>8, <1>9, <1>10, <1>11, <1>12
        DEF Next, Loop, World

\* Likewise the memory, which the first sample that shows it ends.
LEMMA BigStep ==
  ASSUME TypeOK, BigInv, [Next]_vars, Watching, Watching'
  PROVE  BigInv'
<1> USE Durations, Unchanged, Samples DEF TypeOK, Time, BigInv, Within, Unread
<1>1. CASE SeeCancel \/ SeeWallTime \/ NoStats \/ JudgeMemory \/ JudgeCpu
  BY <1>1, Stops DEF Watching
<1>2. CASE AskStats
  BY <1>2 DEF AskStats
<1>3. CASE ReadStats
  <2>1. figures' = figures /\ pc' = "judging" /\ UNCHANGED <<now, due, cpu_violation_start>>
    BY <1>3 DEF ReadStats
  <2>2. big_since = Never <=> big_since' = Never
    <3>1. now # Never
      BY ConstantsAssumption
    <3> QED BY <1>3, <3>1, Reading, Samples DEF BigInv
  <2>3. big_since' # Never /\ ~ stats'.memory => big_since' = now
    BY <1>3, <2>2, Reading DEF BigInv
  <2>4. big_since' = big_since \/ big_since' = now
    BY <1>3, Reading, Samples DEF BigInv
  <2>5. pc = "asking"
    BY <1>3 DEF ReadStats
  <2>6. figures'.memory <=> big_since' # Never
    BY <2>1, <2>2 DEF BigInv
  <2> HIDE DEF BigInv
  <2>7. BigInv
    OBVIOUS
  <2> QED BY <2>1, <2>2, <2>3, <2>4, <2>5, <2>6, <2>7 DEF BigInv
<1>4. CASE Wake
  BY <1>4 DEF Wake
<1>5. CASE KeepWatching \/ JudgeCool
  BY <1>5 DEF KeepWatching, JudgeCool, TooBig, Sleep
<1>6. CASE Tick
  BY <1>6 DEF Tick
<1>7. CASE Fork
  BY <1>7 DEF Fork
<1>8. CASE Exit
  BY <1>8 DEF Exit
<1>9. CASE Cancel
  BY <1>9 DEF Cancel
<1>10. ASSUME NEW f \in Figures, Show(f) PROVE BigInv'
  BY <1>10, ConstantsAssumption DEF Show, Since
<1>11. CASE UNCHANGED vars
  BY <1>11
<1> QED BY <1>1, <1>2, <1>3, <1>4, <1>5, <1>6, <1>7, <1>8, <1>9, <1>10, <1>11
        DEF Next, Loop, World

\* A task that has stopped does not start again.
LEMMA StaysStopped == [Next]_vars /\ Watching' => Watching
<1> SUFFICES ASSUME [Next]_vars, Watching', ~ Watching PROVE FALSE
  OBVIOUS
<1> USE Unchanged DEF Watching
<1>1. CASE Loop
  BY <1>1 DEF Loop, SeeCancel, SeeWallTime, AskStats, ReadStats, NoStats, JudgeMemory,
              JudgeCpu, KeepWatching, JudgeCool, Wake
<1>2. CASE Tick \/ World \/ UNCHANGED vars
  BY <1>2, Elsewhere DEF Tick, World
<1> QED BY <1>1, <1>2 DEF Next

--------------------------------------------------------------------------------

\* The invariant of every watchdog: where each deadline and each beginning of
\* the program stands against the turn the task is in.
THEOREM Inductive == Spec => []IInv
<1>1. IInv /\ [Next]_vars => IInv'
  <2> SUFFICES ASSUME IInv, [Next]_vars PROVE IInv'
    OBVIOUS
  <2>1. TypeOK' /\ WallInv' /\ CancelInv' /\ CoolInv' /\ CpuKillJustified' /\ CancelHonoured'
    BY TypeStep, WallStep, CancelStep, CoolStep DEF IInv
  <2>2. ASSUME Watching' PROVE RunInv' /\ HotInv' /\ BigInv'
    BY <2>2, StaysStopped, RunStep, HotStep, BigStep DEF IInv
  <2> QED BY <2>1, <2>2 DEF IInv
<1> QED BY InitInv, <1>1, PTL DEF Spec

\* Every variable has its type, and the task waits for nothing further away
\* than one sleep or one sample, whatever the configuration.
THEOREM TypeCorrect == Spec => []TypeOK
<1>1. IInv => TypeOK
  BY DEF IInv
<1> QED BY <1>1, Inductive, PTL

\* max_wall_time is overrun by one turn of the loop at most.
THEOREM WallTime == Spec => []WallTimeBounded
<1>1. IInv => WallTimeBounded
  BY Durations DEF IInv, TypeOK, WallInv, WallTimeBounded, Watching
<1> QED BY <1>1, Inductive, PTL

\* Nobody is killed for CPU within sustained_duration of a cool sample.
THEOREM CpuKill == Spec => []CpuKillJustified
<1>1. IInv => CpuKillJustified
  BY DEF IInv
<1> QED BY <1>1, Inductive, PTL

\* A process that ps keeps showing over the CPU threshold cannot outlive the bound
\* that the interval, the sustained time and the time of ps set.
THEOREM Runaway == Spec => []RunawayKilled
<1>1. IInv => RunawayKilled
  <2> SUFFICES ASSUME IInv, Watching, hot_since # Never
               PROVE  now - hot_since <= (Poll + 2 * MaxSample) + Sustained + (Poll + MaxSample)
    BY DEF RunawayKilled
  <2> USE Durations DEF IInv, TypeOK, Time, HotInv, RunInv, Within, Watching
  <2>1. CASE cpu_violation_start = Never
    BY <2>1
  <2>2. CASE cpu_violation_start # Never
    BY <2>2
  <2> QED BY <2>1, <2>2
<1> QED BY <1>1, Inductive, PTL

\* A process that ps keeps showing over the memory limit is killed at the next sample.
THEOREM Big == Spec => []BigKilled
<1>1. IInv => BigKilled
  BY Durations DEF IInv, TypeOK, Time, BigInv, Within, BigKilled, Watching
<1> QED BY <1>1, Inductive, PTL

\* No process outlives the bounds on what ps shows it to overuse.
THEOREM Overuse == Spec => []OveruseKilled
BY Runaway, Big, PTL DEF OveruseKilled

\* A cancelled watchdog kills on the sample under way or not at all.
THEOREM CancelWorks == Spec => []CancelHonoured
<1>1. IInv => CancelHonoured
  BY DEF IInv
<1> QED BY <1>1, Inductive, PTL
================================================================================
