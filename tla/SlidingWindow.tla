----------------------------- MODULE SlidingWindow -----------------------------
(***************************************************************************)
(* What a sliding-window rate limiter promises, with no table, no lock and *)
(* no callers: a clock, the calls granted so far, and a grant that is      *)
(* possible only while every scope the tool belongs to has room.  A scope  *)
(* is a set of tools with the number of calls they may make together in    *)
(* any Window; Slack is how far the implementation may go past it.         *)
(***************************************************************************)
EXTENDS Naturals, FiniteSets

CONSTANTS
  Tools,    (* the tool names                                      *)
  Scopes,   (* records [tools |-> SUBSET Tools, limit |-> Nat]     *)
  Window,   (* length of the window, in ticks of the clock         *)
  Slack     (* calls a scope may be granted beyond its limit       *)

VARIABLES
  now,      (* the clock                                           *)
  granted   (* every call granted: [tool, at, n], n numbers them   *)

vars == <<now, granted>>

InWindow(t) == {e \in granted : e.at + Window > now /\ e.tool = t}

InScope(s) == UNION {InWindow(t) : t \in s.tools}

HasRoom(s) == Cardinality(InScope(s)) < s.limit + Slack

Init ==
  /\ now = 0
  /\ granted = {}

Grant(t) ==
  /\ \A s \in Scopes : t \in s.tools => HasRoom(s)
  /\ granted' = granted \cup {[tool |-> t, at |-> now, n |-> Cardinality(granted)]}
  /\ UNCHANGED now

Tick ==
  /\ now' = now + 1
  /\ UNCHANGED granted

Next == Tick \/ \E t \in Tools : Grant(t)

Spec == Init /\ [][Next]_vars
================================================================================
