------------------------------- MODULE OllamaCall -------------------------------
(***************************************************************************)
(* OllamaClient::complete, one call per agent: a request, and a second one *)
(* a second later when the first failed in a way is_retryable recognises.  *)
(* The call is a future: whoever awaits it may drop it at any await, and   *)
(* then nothing of it goes on.                                             *)
(***************************************************************************)
EXTENDS Naturals

CONSTANTS
  Agents,        (* who calls: each has one call at a time                 *)
  Replies        (* Replies[a]: the texts the model may answer a with      *)

\* How send_request fails.  "unreachable" is every failure of the connection,
\* refused, reset or timed out; "transient_status" is an error status whose
\* body names one of those, "status" any other error status.
Failures == {"unreachable", "transient_status", "status", "unparsable", "empty"}

VARIABLES
  phase,         (* phase[a]: where the call of a is                       *)
  text,          (* text[a]: what it returned, "" when it returned nothing *)
  failure,       (* failure[a]: how its last request failed, or "none"     *)
  sent           (* sent[a]: ghost, the requests it has sent               *)

calls == <<phase, text, failure, sent>>

Phases == {"idle", "first", "backoff", "second", "ok", "err", "cancelled"}

InFlight(a) == phase[a] \in {"first", "second"}
Running(a) == InFlight(a) \/ phase[a] = "backoff"
Settled(a) == phase[a] \in {"ok", "err", "cancelled"}

CallsInit ==
  /\ phase = [a \in Agents |-> "idle"]
  /\ text = [a \in Agents |-> ""]
  /\ failure = [a \in Agents |-> "none"]
  /\ sent = [a \in Agents |-> 0]

\* Every agent's first request goes out: tokio::join! polls all its futures.
StartCalls ==
  /\ phase' = [a \in Agents |-> "first"]
  /\ sent' = [a \in Agents |-> 1]
  /\ UNCHANGED <<text, failure>>

Respond(a) ==
  /\ InFlight(a)
  /\ phase' = [phase EXCEPT ![a] = "ok"]
  /\ \E t \in Replies[a] : text' = [text EXCEPT ![a] = t]
  /\ UNCHANGED <<failure, sent>>

\* is_retryable looks for its words in the outermost message of the error.
\* That message is the context "Failed to reach Ollama" when the connection
\* failed, and quotes the body only when the server answered with an error.
IsRetryable(f) == f = "transient_status"

Fail(a, f) ==
  /\ InFlight(a)
  /\ failure' = [failure EXCEPT ![a] = f]
  /\ phase' = [phase EXCEPT ![a] =
       IF @ = "first" /\ IsRetryable(f) THEN "backoff" ELSE "err"]
  /\ UNCHANGED <<text, sent>>

\* The one second of backoff is over.
Resend(a) ==
  /\ phase[a] = "backoff"
  /\ phase' = [phase EXCEPT ![a] = "second"]
  /\ sent' = [sent EXCEPT ![a] = @ + 1]
  /\ UNCHANGED <<text, failure>>

CallStep(a) ==
  \/ Respond(a)
  \/ \E f \in Failures : Fail(a, f)
  \/ Resend(a)

\* The futures of A are dropped; those that have an outcome keep it.
Cancelled(A) ==
  [a \in Agents |-> IF a \in A /\ Running(a) THEN "cancelled" ELSE phase[a]]

\* What the calls' three functions range over.
CallsTypeOK ==
  /\ phase \in [Agents -> Phases]
  /\ DOMAIN text = Agents /\ \A a \in Agents : text[a] \in Replies[a] \cup {""}
  /\ failure \in [Agents -> Failures \cup {"none"}]
  /\ sent \in [Agents -> 0..2]

\* lib.rs says of complete: "Retries once on transient connection errors."  A
\* call that gave up because Ollama could not be reached has tried twice.
RetriesConnectionErrors ==
  \A a \in Agents :
    phase[a] = "err" /\ failure[a] = "unreachable" => sent[a] = 2
================================================================================
