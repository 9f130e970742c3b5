------------------------------- MODULE ReportLog -------------------------------
(***************************************************************************)
(* What the Shadow promises to the reader of its report store: an accepted *)
(* submission is reported on at most once, and the store shows the         *)
(* sessions reported on most recently, oldest first.  None is left without *)
(* a report but those that are lost to a panic of their analysis and those *)
(* held for ever by a container runtime.                                   *)
(***************************************************************************)
EXTENDS Naturals, Sequences

CONSTANTS
  Sessions,     (* the submissions                                         *)
  MaxReports    (* how many reports the store keeps                        *)

VARIABLES
  accepted,     (* submissions taken on                                    *)
  published,    (* submissions reported on                                 *)
  shown,        (* the sessions in the store, oldest first                 *)
  lost,         (* submissions whose analysis has panicked                 *)
  held          (* submissions that wait for the container runtime         *)

vars == <<accepted, published, shown, lost, held>>

Init ==
  /\ accepted = {}
  /\ published = {}
  /\ shown = << >>
  /\ lost = {}
  /\ held = {}

Accept(s) ==
  /\ s \notin accepted
  /\ accepted' = accepted \cup {s}
  /\ UNCHANGED <<published, shown, lost, held>>

Publish(s) ==
  /\ s \in accepted \ (published \cup lost \cup held)
  /\ published' = published \cup {s}
  /\ shown' = Append(IF Len(shown) < MaxReports THEN shown ELSE Tail(shown), s)
  /\ UNCHANGED <<accepted, lost, held>>

Lose(s) ==
  /\ s \in accepted \ (published \cup lost)
  /\ lost' = lost \cup {s}
  /\ held' = held \ {s}
  /\ UNCHANGED <<accepted, published, shown>>

Hold(s) ==
  /\ s \in accepted \ (published \cup lost \cup held)
  /\ held' = held \cup {s}
  /\ UNCHANGED <<accepted, published, shown, lost>>

Release(s) ==
  /\ s \in held
  /\ held' = held \ {s}
  /\ UNCHANGED <<accepted, published, shown, lost>>

Next ==
  \E s \in Sessions : Accept(s) \/ Publish(s) \/ Lose(s) \/ Hold(s) \/ Release(s)

\* A submission that is not held for ever is reported on or lost.
Settles(s) ==
  []<>(s \notin held) => (s \in accepted ~> s \in published \cup lost)

Spec == Init /\ [][Next]_vars /\ \A s \in Sessions : Settles(s)
================================================================================
