------------------------------ MODULE RateLimiter ------------------------------
(***************************************************************************)
(* The rate limiter of laminae-glassbox: a table of recent call times      *)
(* behind a mutex, and two separate operations on it.  A caller first asks *)
(* check_rate_limit, runs its tool if the answer is Ok, and then calls     *)
(* record_tool_call.  Each operation holds the lock from its first line to *)
(* its last, so each is one action; between the two nothing is held, and   *)
(* other callers and the clock move.                                       *)
(***************************************************************************)
EXTENDS Naturals, FiniteSets

CONSTANTS
  Callers,     (* the tasks or threads sharing one Glassbox               *)
  Tools,       (* the tool names they use                                 *)
  WriteTools,  (* those whose name contains "write" or "edit"             *)
  ShellTools,  (* those whose name contains "shell" or "bash"             *)
  PerTool, Total, Writes, Shells,  (* RateLimitConfig                     *)
  Window,      (* sixty seconds, in ticks                                 *)
  NoTool,      (* no answer pending                                       *)
  MaxTime,     (* bound: the clock stops here                             *)
  MaxCalls     (* bound: calls recorded, or about to be                   *)

ASSUME ConstantsAssumption ==
  /\ IsFiniteSet(Callers) /\ Callers # {}
  /\ IsFiniteSet(Tools)
  /\ WriteTools \subseteq Tools
  /\ ShellTools \subseteq Tools
  /\ {PerTool, Total, Writes, Shells} \subseteq Nat
  /\ Window \in Nat \ {0}
  /\ NoTool \notin Tools
  /\ {MaxTime, MaxCalls} \subseteq Nat

VARIABLES
  now,         (* Instant::now(), monotonic                               *)
  tool_calls,  (* the mutex's contents: one entry per timestamp kept      *)
  admitted,    (* admitted[c]: the tool c was told Ok for and has not yet *)
               (* recorded, or NoTool                                     *)
  history      (* ghost: every call ever recorded                         *)

vars == <<now, tool_calls, admitted, history>>

Entries == [tool : Tools, at : Nat, n : Nat]

\* Entries are calls of known tools, pending answers name a tool.
TypeOK ==
  /\ now \in Nat
  /\ tool_calls \in SUBSET Entries /\ IsFiniteSet(tool_calls)
  /\ history \in SUBSET Entries /\ IsFiniteSet(history)
  /\ admitted \in [Callers -> Tools \cup {NoTool}]

--------------------------------------------------------------------------------
(* The table                                                               *)

\* Mutant of Retained: the window is one tick short.
RetainedShort(calls) == {e \in calls : e.at + Window > now + 1}

\* retain(|t| *t > one_minute_ago) over every tool
Retained(calls) == {e \in calls : e.at + Window > now}

\* the timestamps of a set of tools: what is counted for a tool or a class
OfTools(calls, tools) == {e \in calls : e.tool \in tools}

\* Mutant of ToolExceeded: one call past the limit is let through.
ToolExceededLate(recent, t) == Cardinality(OfTools(recent, {t})) > PerTool

\* The four tests of check, in its order.  A tool with no timestamp left has
\* no key in the table and skips the first test whatever the limit is.
ToolExceeded(recent, t) ==
  /\ OfTools(recent, {t}) # {}
  /\ Cardinality(OfTools(recent, {t})) >= PerTool

TotalExceeded(recent) == Cardinality(recent) >= Total

\* Mutant of WritesExceeded: only the tool's own writes are counted.
WritesExceededAlone(recent, t) ==
  /\ t \in WriteTools
  /\ Cardinality(OfTools(recent, {t})) >= Writes

WritesExceeded(recent, t) ==
  /\ t \in WriteTools
  /\ Cardinality(OfTools(recent, WriteTools)) >= Writes

ShellsExceeded(recent, t) ==
  /\ t \in ShellTools
  /\ Cardinality(OfTools(recent, ShellTools)) >= Shells

Admits(recent, t) ==
  /\ ~ ToolExceeded(recent, t)
  /\ ~ TotalExceeded(recent)
  /\ ~ WritesExceeded(recent, t)
  /\ ~ ShellsExceeded(recent, t)

--------------------------------------------------------------------------------
(* The operations                                                          *)

Init ==
  /\ now = 0
  /\ tool_calls = {}
  /\ admitted = [c \in Callers |-> NoTool]
  /\ history = {}

Pending(tools) == {c \in Callers : admitted[c] \in tools}

\* Mutant of CheckOk: the limits are tested on a pruned copy and the table is
\* left as it was.
CheckOkUnpruned(c, t) ==
  /\ admitted[c] = NoTool
  /\ Cardinality(history) + Cardinality(Pending(Tools)) < MaxCalls
  /\ Admits(Retained(tool_calls), t)
  /\ admitted' = [admitted EXCEPT ![c] = t]
  /\ UNCHANGED <<now, tool_calls, history>>

\* check, when it answers Ok: the table is pruned and nothing is reserved.
CheckOk(c, t) ==
  /\ admitted[c] = NoTool
  /\ Cardinality(history) + Cardinality(Pending(Tools)) < MaxCalls
  /\ Admits(Retained(tool_calls), t)
  /\ tool_calls' = Retained(tool_calls)
  /\ admitted' = [admitted EXCEPT ![c] = t]
  /\ UNCHANGED <<now, history>>

\* check, when it answers Err: it has pruned all the same.
CheckRefused(c, t) ==
  /\ admitted[c] = NoTool
  /\ ~ Admits(Retained(tool_calls), t)
  /\ tool_calls' = Retained(tool_calls)
  /\ UNCHANGED <<now, admitted, history>>

\* record: one timestamp, taken now and not when check answered.
Entry(t) == [tool |-> t, at |-> now, n |-> Cardinality(history)]

Record(c) ==
  /\ admitted[c] # NoTool
  /\ tool_calls' = tool_calls \cup {Entry(admitted[c])}
  /\ history' = history \cup {Entry(admitted[c])}
  /\ admitted' = [admitted EXCEPT ![c] = NoTool]
  /\ UNCHANGED now

Tick ==
  /\ now < MaxTime
  /\ now' = now + 1
  /\ UNCHANGED <<tool_calls, admitted, history>>

Next ==
  \/ \E c \in Callers, t \in Tools : CheckOk(c, t) \/ CheckRefused(c, t)
  \/ \E c \in Callers : Record(c)
  \/ Tick

Spec == Init /\ [][Next]_vars

--------------------------------------------------------------------------------
(* Properties                                                              *)

\* How far concurrent callers can push a scope past its limit: each of the
\* others may hold an Ok answer given before any of them recorded.
Slack == Cardinality(Callers) - 1

\* A per-tool limit of zero behaves as one: the first call finds no key.
PerToolEffective == IF PerTool = 0 THEN 1 ELSE PerTool

Scopes ==
  {[tools |-> {t}, limit |-> PerToolEffective] : t \in Tools}
    \cup {[tools |-> Tools, limit |-> Total],
          [tools |-> WriteTools, limit |-> Writes],
          [tools |-> ShellTools, limit |-> Shells]}

\* The calls of the last Window according to the full history.
InWindow == {e \in history : e.at + Window > now}

\* The answers of check depend on a table that is pruned and never rebuilt:
\* whatever was pruned and whenever, at any instant it stands for exactly the
\* calls the full history has in the window (none lost, none counted stale).
TableMatchesHistory == Retained(tool_calls) = InWindow

\* In every window of sixty seconds, per tool, in total, for writes and for
\* shells, the calls recorded exceed the configured limit by at most the
\* number of other callers; a single caller never exceeds it.
OvershootBounded ==
  \A s \in Scopes :
    Cardinality(OfTools(InWindow, s.tools)) <= s.limit + Slack

\* The table of callers that check before they record does not grow with the
\* number of calls made: pruning in check keeps it near the total limit.
TableBounded == Cardinality(tool_calls) <= Total + Slack

SW == INSTANCE SlidingWindow WITH granted <- history

\* The limiter implements the abstract sliding window, a grant being the
\* moment a call is recorded.
ImplementsSlidingWindow == SW!Spec

\* lib.rs:13 says of the model inside the Glassbox that it cannot "Exceed rate
\* limits by splitting calls": no window holds more calls than RateLimitConfig
\* allows.
LimitsNeverExceeded ==
  /\ \A t \in Tools : Cardinality(OfTools(InWindow, {t})) <= PerTool
  /\ Cardinality(InWindow) <= Total
  /\ Cardinality(OfTools(InWindow, WriteTools)) <= Writes
  /\ Cardinality(OfTools(InWindow, ShellTools)) <= Shells
================================================================================
