--------------------------------- MODULE Psyche ---------------------------------
(***************************************************************************)
(* One request to the Psyche, through reply or reply_streaming: it is put  *)
(* in a tier, the Id and the Superego are consulted at the same time (in   *)
(* the Light tier each under a timeout of its own), the Superego's text is *)
(* searched for a verdict, and unless it blocks the Ego answers.           *)
(*                                                                         *)
(* reply is a future the caller awaits and may drop.  reply_streaming      *)
(* spawns a task that goes on whatever the caller does, and tells it       *)
(* everything through a bounded channel; outbox holds the events the task  *)
(* is going to send, one await each, before it moves on.                   *)
(***************************************************************************)
EXTENDS Naturals, Sequences, SequencesExt, OllamaCall

CONSTANTS
  Messages,      (* the messages a request may carry                       *)
  Capacity,      (* mpsc::channel(64)                                      *)
  MaxChunks      (* bound on the chunks the Ego streams                    *)

Id == "id"
Superego == "superego"
Modes == {"reply", "stream"}

\* A message is what the classification reads of it: whether it begins with a
\* greeting or a question word, its length lower-cased and trimmed, its length
\* as it came, and whether it names a complex intent.
Message == [fast : BOOLEAN, factual : BOOLEAN, trimmed : Nat, len : Nat,
            complex : BOOLEAN]

ASSUME ConstantsAssumption ==
  /\ Agents = {Id, Superego}
  /\ Messages \subseteq Message
  /\ Capacity \in Nat \ {0}
  /\ MaxChunks \in Nat

VARIABLES
  mode,          (* the entry point, "none" before the request             *)
  tier,          (* "skip", "light" or "full"                              *)
  pc,            (* where reply, or the spawned task, is                   *)
  outbox,        (* events the task still has to send before it moves on   *)
  channel,       (* events sent and not yet received                       *)
  caller,        (* "present" until it drops the future or the receiver    *)
  received,      (* ghost: what the caller has taken out of the channel    *)
  ego_called,    (* ghost: complete or complete_streaming was called       *)
  chunks,        (* chunks the Ego has streamed                            *)
  outcome        (* what the function returned: "none" so far, "answer",   *)
                 (* "blocked", "error"                                     *)

stream == <<channel, received>>
vars == <<calls, mode, tier, pc, outbox, stream, caller, ego_called, chunks, outcome>>

PCs == {"idle", "thinking", "consulting", "ego", "awaiting", "forwarding",
        "closing", "done"}

Init ==
  /\ CallsInit
  /\ mode = "none" /\ tier = "none" /\ pc = "idle"
  /\ outbox = << >> /\ channel = << >> /\ received = << >>
  /\ caller = "present"
  /\ ego_called = FALSE
  /\ chunks = 0
  /\ outcome = "none"

--------------------------------------------------------------------------------
(* Classification                                                          *)

ShouldSkipPsyche(m) == m.fast \/ (m.factual /\ m.trimmed < 80)

ClassifyTier(m) ==
  IF m.len >= 100 /\ (m.complex \/ m.len >= 300) THEN "full" ELSE "light"

TierOf(m) == IF ShouldSkipPsyche(m) THEN "skip" ELSE ClassifyTier(m)

--------------------------------------------------------------------------------
(* The verdict                                                             *)

\* What a Superego may say, by what extract_block_reason tells apart.
ReasonedBlock == "BLOCK: reason"          \* begins with the word, has a reason
BareBlock == "BLOCK:"                     \* begins with the word, says no more
MentionsBlock == "no need to block: fine" \* has the word further on
VerdictBlock == "VERDICT: BLOCK"          \* the COP format
BareVerdictBlock == "VERDICT: BLOCK BLOCK:"
Harmless == "VERDICT: PASS"

\* extract_block_reason: "block:" anywhere with something after it, or else
\* the COP verdict.
Blocks(t) ==
  t \in {ReasonedBlock, MentionsBlock, VerdictBlock, BareVerdictBlock}

--------------------------------------------------------------------------------
(* The events                                                              *)

Thinking == "Thinking"
IdDone == "IdDone"
EnsuringSafety == "EnsuringSafety"
SuperegoDone == "SuperegoDone"
Responding == "Responding"
Refusal == "EgoChunk: I can't help with that."
Chunk == "EgoChunk"
ErrorChunk == "EgoChunk: Error"

\* The caller has the receiver: at once when the work is spawned, with the
\* Ego's stream when Psyche is skipped, never when an error is returned.
Holding ==
  /\ mode = "stream"
  /\ tier # "skip" \/ pc \in {"forwarding", "closing", "done"}
  /\ outcome = "none"

HasRoom == Len(channel) < Capacity

\* The event at the head of the outbox is sent, or discarded when the receiver
\* is gone, which ends the forwarding of the Ego's chunks.
SendEvent ==
  /\ outbox # << >>
  /\ \/ /\ caller = "present"
        /\ HasRoom
        /\ channel' = Append(channel, Head(outbox))
        /\ UNCHANGED pc
     \/ /\ caller = "gone"
        /\ pc' = IF pc = "forwarding" THEN "closing" ELSE pc
        /\ UNCHANGED channel
  /\ outbox' = Tail(outbox)
  /\ UNCHANGED <<calls, mode, tier, received, caller, ego_called, chunks, outcome>>

--------------------------------------------------------------------------------
(* The pipeline                                                            *)

Request(m, md) ==
  /\ pc = "idle"
  /\ mode' = md
  /\ tier' = TierOf(m)
  /\ \/ /\ tier' = "skip"
        /\ pc' = "ego"
        /\ outbox' = IF md = "stream" THEN <<Responding>> ELSE << >>
        /\ UNCHANGED calls
     \/ /\ tier' # "skip" /\ md = "reply"
        /\ pc' = "consulting"
        /\ StartCalls
        /\ UNCHANGED outbox
     \/ /\ tier' # "skip" /\ md = "stream"
        /\ pc' = "thinking"
        /\ outbox' = <<Thinking>>
        /\ UNCHANGED calls
  /\ UNCHANGED <<stream, caller, ego_called, chunks, outcome>>

Consult ==
  /\ pc = "thinking"
  /\ outbox = << >>
  /\ StartCalls
  /\ pc' = "consulting"
  /\ UNCHANGED <<mode, tier, outbox, stream, caller, ego_called, chunks, outcome>>

AgentStep(a) ==
  /\ CallStep(a)
  /\ UNCHANGED <<mode, tier, pc, outbox, stream, caller, ego_called, chunks, outcome>>

\* Mutant of TimedOut: one timeout around the pair of calls.
TimedOutTogether(a) == [x \in Agents |-> "cancelled"]

\* The call of a ran out of time; the other one goes on.
TimedOut(a) == Cancelled({a})

CopTimeout(a) ==
  /\ pc = "consulting"
  /\ tier = "light"
  /\ Running(a)
  /\ phase' = TimedOut(a)
  /\ UNCHANGED <<text, failure, sent, mode, tier, pc, outbox, stream, caller,
                 ego_called, chunks, outcome>>

\* A call that failed or timed out says the empty string.
Output(a) == IF phase[a] = "ok" THEN text[a] ELSE ""

\* Mutants of AllSettled: the Id is not waited for; a failed call is.
SuperegoSettled == Settled(Superego)
AllAnswered == \A a \in Agents : phase[a] = "ok"

\* tokio::join! is ready when both calls are.
AllSettled == \A a \in Agents : Settled(a)

\* Mutant of Announced: the Responding phase is entered before the check.
AnnouncedFirst(blocked) ==
  <<IdDone, EnsuringSafety, SuperegoDone, Responding>>
    \o (IF blocked THEN <<Refusal>> ELSE << >>)

Announced(blocked) ==
  <<IdDone, EnsuringSafety, SuperegoDone>>
    \o (IF blocked THEN <<Refusal>> ELSE <<Responding>>)

\* Mutant of Onward: no return after the refusal.
OnwardAlways(blocked) == "ego"

Onward(blocked) == IF ~ blocked THEN "ego" ELSE IF mode = "reply" THEN "done" ELSE "closing"

\* Both calls are over: reply returns Err(Blocked) or goes on to the Ego, the
\* task tells what the agents said and refuses or goes on.
Settle ==
  LET blocked == Blocks(Output(Superego)) IN
  /\ pc = "consulting"
  /\ AllSettled
  /\ pc' = Onward(blocked)
  /\ outcome' = IF blocked /\ mode = "reply" THEN "blocked" ELSE outcome
  /\ outbox' = IF mode = "stream" THEN Announced(blocked) ELSE << >>
  /\ UNCHANGED <<calls, mode, tier, stream, caller, ego_called, chunks>>

--------------------------------------------------------------------------------
(* The Ego, a backend the user brings                                      *)

AskEgo ==
  /\ pc = "ego"
  /\ outbox = << >>
  /\ ego_called' = TRUE
  /\ pc' = "awaiting"
  /\ UNCHANGED <<calls, mode, tier, outbox, stream, caller, chunks, outcome>>

\* complete returned the answer, complete_streaming the stream of its chunks.
EgoOk ==
  /\ pc = "awaiting"
  /\ pc' = IF mode = "reply" THEN "done" ELSE "forwarding"
  /\ outcome' = IF mode = "reply" THEN "answer" ELSE outcome
  /\ UNCHANGED <<calls, mode, tier, outbox, stream, caller, ego_called, chunks>>

\* An error is returned, or told in a chunk when the caller already has the
\* receiver.
EgoErr ==
  /\ pc = "awaiting"
  /\ \/ /\ Holding
        /\ pc' = "closing"
        /\ outbox' = <<ErrorChunk>>
        /\ UNCHANGED <<outcome, channel>>
     \/ /\ ~ Holding
        /\ pc' = "done"
        /\ outcome' = "error"
        /\ channel' = << >>
        /\ UNCHANGED outbox
  /\ UNCHANGED <<calls, mode, tier, received, caller, ego_called, chunks>>

EgoChunk ==
  /\ pc = "forwarding"
  /\ outbox = << >>
  /\ chunks < MaxChunks
  /\ chunks' = chunks + 1
  /\ outbox' = <<Chunk>>
  /\ UNCHANGED <<calls, mode, tier, pc, stream, caller, ego_called, outcome>>

EgoEnds ==
  /\ pc = "forwarding"
  /\ outbox = << >>
  /\ pc' = "closing"
  /\ UNCHANGED <<calls, mode, tier, outbox, stream, caller, ego_called, chunks, outcome>>

\* The task ends and drops its sender: the channel is closed.
Close ==
  /\ pc = "closing"
  /\ outbox = << >>
  /\ pc' = "done"
  /\ UNCHANGED <<calls, mode, tier, outbox, stream, caller, ego_called, chunks, outcome>>

--------------------------------------------------------------------------------
(* The caller                                                              *)

Receive ==
  /\ Holding /\ caller = "present"
  /\ channel # << >>
  /\ received' = Append(received, Head(channel))
  /\ channel' = Tail(channel)
  /\ UNCHANGED <<calls, mode, tier, pc, outbox, caller, ego_called, chunks, outcome>>

\* The receiver is dropped; the task goes on without it.
DropReceiver ==
  /\ Holding /\ caller = "present"
  /\ caller' = "gone"
  /\ channel' = << >>
  /\ UNCHANGED <<calls, mode, tier, pc, outbox, received, ego_called, chunks, outcome>>

\* The future is dropped where it waits, and with it everything it awaits.
Abandon ==
  /\ ~ Holding /\ caller = "present"
  /\ pc \in {"consulting", "ego", "awaiting"}
  /\ caller' = "gone"
  /\ pc' = "done"
  /\ phase' = Cancelled(Agents)
  /\ outbox' = << >>
  /\ channel' = << >>
  /\ UNCHANGED <<text, failure, sent, mode, tier, received, ego_called, chunks, outcome>>

--------------------------------------------------------------------------------
Task == SendEvent \/ Consult \/ Settle \/ AskEgo \/ Close
Ego == EgoOk \/ EgoErr \/ EgoChunk \/ EgoEnds

Next ==
  \/ \E m \in Messages, md \in Modes : Request(m, md)
  \/ \E a \in Agents : AgentStep(a) \/ CopTimeout(a)
  \/ Task \/ Ego
  \/ Receive \/ DropReceiver \/ Abandon

\* The runtime polls a future that can go on; every request to Ollama ends, by
\* the timeout of the HTTP client if nothing else; the Ego's backend answers
\* and its stream ends; a caller that keeps its receiver keeps receiving.
Fairness ==
  /\ WF_vars(Task)
  /\ WF_vars(Ego)
  /\ WF_vars(Receive)
  /\ \A a \in Agents : WF_vars(AgentStep(a))

Spec == Init /\ [][Next]_vars /\ Fairness

--------------------------------------------------------------------------------
(* Properties                                                              *)

Events == {Thinking, IdDone, EnsuringSafety, SuperegoDone, Responding, Refusal,
           Chunk, ErrorChunk}

\* Every variable holds a value the code's types and the channel's capacity
\* allow.
TypeOK ==
  /\ CallsTypeOK
  /\ mode \in Modes \cup {"none"}
  /\ tier \in {"none", "skip", "light", "full"}
  /\ pc \in PCs
  /\ outbox \in Seq(Events)
  /\ channel \in Seq(Events) /\ Len(channel) <= Capacity
  /\ received \in Seq(Events)
  /\ caller \in {"present", "gone"}
  /\ ego_called \in BOOLEAN
  /\ chunks \in 0..MaxChunks
  /\ outcome \in {"none", "answer", "blocked", "error"}

\* A verdict that arrived is heeded, whatever became of the Id's call, of the
\* Superego's timer or of the caller: when the Superego's text blocks, the Ego
\* is never called.
VerdictHeeded == Blocks(text[Superego]) => ~ ego_called

Told == received \o channel \o outbox

Preamble == IF tier = "skip" THEN << >>
            ELSE <<Thinking, IdDone, EnsuringSafety, SuperegoDone>>

\* However slowly it is read, a stream shows the phases in order, and then
\* either one refusal with no Responding phase before it, or Responding and
\* the Ego's chunks.
StreamReadable ==
  mode = "stream" /\ caller = "present" =>
    \/ IsPrefix(Told, Preamble \o <<Refusal>>)
    \/ /\ IsPrefix(Preamble \o <<Responding>>, Told)
       /\ \A i \in (Len(Preamble) + 2)..Len(Told) :
            \/ Told[i] = Chunk
            \/ Told[i] = ErrorChunk /\ i = Len(Told) /\ chunks = 0
    \/ IsPrefix(Told, Preamble \o <<Responding>>)

Judged == Settled(Superego)
GR == INSTANCE GatedReply WITH
  verdict <- IF tier = "none" THEN "none"
             ELSE IF tier = "skip" THEN "exempt"
             ELSE IF ~ Judged THEN "open"
             ELSE IF Blocks(text[Superego]) THEN "block" ELSE "pass",
  ego <- IF ego_called THEN "asked" ELSE "idle",
  told <- IF caller = "gone" THEN "nobody"
          ELSE IF pc # "done" THEN "nothing"
          ELSE IF outcome = "blocked" \/ Contains(Told, Refusal) THEN "refusal"
          ELSE "answer"

\* reply and reply_streaming, written twice in the code, keep one promise: the
\* Ego is asked after the verdict and never after a block, and the caller gets
\* the refusal exactly then.
ImplementsGatedReply == GR!Spec

\* A caller that stays is given the function's result, or reads the stream to
\* its end.
Answered ==
  pc # "idle" ~>
    \/ caller = "gone"
    \/ outcome # "none"
    \/ pc = "done" /\ channel = << >>
================================================================================
