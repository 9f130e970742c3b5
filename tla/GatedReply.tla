------------------------------- MODULE GatedReply -------------------------------
(***************************************************************************)
(* What the Psyche promises of one request, whichever entry point it comes *)
(* through: the Ego is asked only once the Superego's verdict is in and    *)
(* does not block, or when the request needs none; and a caller that stays *)
(* is told a refusal or an answer, never both and never nothing.           *)
(***************************************************************************)
VARIABLES
  verdict,      (* "none" before the request, "open" while it is judged    *)
  ego,          (* "idle" or "asked"                                       *)
  told          (* what the caller has been told in the end                *)

vars == <<verdict, ego, told>>

Init == verdict = "none" /\ ego = "idle" /\ told = "nothing"

Request ==
  /\ verdict = "none"
  /\ verdict' \in {"open", "exempt"}
  /\ UNCHANGED <<ego, told>>

Judge ==
  /\ verdict = "open"
  /\ verdict' \in {"pass", "block"}
  /\ UNCHANGED <<ego, told>>

AskEgo ==
  /\ verdict \in {"exempt", "pass"}
  /\ ego = "idle"
  /\ ego' = "asked"
  /\ UNCHANGED <<verdict, told>>

Refuse ==
  /\ verdict = "block"
  /\ told = "nothing"
  /\ told' = "refusal"
  /\ UNCHANGED <<verdict, ego>>

Answer ==
  /\ ego = "asked"
  /\ told = "nothing"
  /\ told' = "answer"
  /\ UNCHANGED <<verdict, ego>>

\* The caller is gone.  A verdict that was open may stay open for ever, or is
\* given up.
Leave ==
  /\ verdict # "none"
  /\ told' = "nobody"
  /\ verdict' \in IF verdict = "open" THEN {"open", "pass"} ELSE {verdict}
  /\ UNCHANGED ego

Next == Request \/ Judge \/ AskEgo \/ Refuse \/ Answer \/ Leave

\* A request that is not abandoned is told something.
Fairness == WF_vars(told = "nothing" /\ (Judge \/ AskEgo \/ Refuse \/ Answer))

Spec == Init /\ [][Next]_vars /\ Fairness
================================================================================
