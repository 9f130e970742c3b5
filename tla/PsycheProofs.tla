------------------------------ MODULE PsycheProofs ------------------------------
(* One request to the Psyche, for every message, every text the agents may     *)
(* say, every capacity of the channel and every number of chunks: the verdict  *)
(* is heeded, the stream is readable, and both entry points are gated replies. *)
EXTENDS Psyche, SequenceLemmas

\* A call has no text before it is over, and none is made before the agents are
\* consulted or when they are not.
CallInv ==
  /\ \A a \in Agents :
       /\ phase[a] # "ok" => text[a] = ""
       /\ phase[a] \in {"first", "backoff"} => sent[a] = 1
  /\ pc \in {"idle", "thinking"} \/ tier = "skip" => \A a \in Agents : phase[a] = "idle"

Fresh ==
  /\ mode = "none" /\ tier = "none" /\ caller = "present"
  /\ outbox = << >> /\ channel = << >> /\ received = << >>
  /\ ~ ego_called /\ chunks = 0

\* What is known of the other variables from where the task is.
ControlInv ==
  /\ pc = "idle" => Fresh
  /\ pc # "idle" => mode \in Modes /\ tier \in {"skip", "light", "full"}
  /\ pc \in {"thinking", "consulting"} => tier # "skip"
  /\ pc \in {"thinking", "forwarding", "closing"} => mode = "stream"
  /\ pc \in {"thinking", "consulting", "ego"} => ~ ego_called
  /\ pc \in {"awaiting", "forwarding"} => ego_called
  /\ pc \in {"thinking", "consulting", "ego", "awaiting"} => chunks = 0
  /\ pc \in {"consulting", "awaiting", "done"} => outbox = << >>
  /\ pc # "done" => outcome = "none"
  /\ mode = "reply" => outbox = << >> /\ channel = << >> /\ received = << >>
  /\ caller = "gone" => Holding \/ pc = "done"

\* The Ego is reached past a verdict that does not block or where there is none to
\* wait for; a caller that was not answered by it was refused.
JudgedInv ==
  /\ pc \in {"ego", "awaiting", "forwarding"} \/ ego_called =>
       tier = "skip" \/ (Settled(Superego) /\ ~ Blocks(text[Superego]))
  /\ pc \in {"closing", "done"} /\ caller = "present" /\ ~ ego_called =>
       tier # "skip" /\ Settled(Superego) /\ Blocks(text[Superego])
  /\ pc = "done" /\ mode = "reply" /\ caller = "present" /\ ~ ego_called => outcome = "blocked"
  /\ outcome = "blocked" => ~ ego_called

Opened == IsPrefix(Preamble \o <<Responding>>, Told)

\* What is neither the opening nor a chunk.
Later == {i \in (Len(Preamble) + 2)..Len(Told) : Told[i] # Chunk}

\* What a caller that stays is told up to each point of the task.
StreamInv ==
  mode = "stream" /\ caller = "present" =>
    /\ pc \in {"thinking", "consulting"} => Told = <<Thinking>>
    /\ pc \in {"ego", "awaiting"} => Told = Preamble \o <<Responding>>
    /\ pc = "forwarding" => Opened /\ Later = {}
    /\ pc \in {"closing", "done"} /\ ego_called /\ outcome = "none" =>
         /\ Opened
         /\ \/ Later = {}
            \/ chunks = 0 /\ Told[Len(Told)] = ErrorChunk /\ Later = {Len(Told)}
    /\ pc \in {"closing", "done"} /\ ~ ego_called => Told = Preamble \o <<Refusal>>
    /\ outcome # "none" => Told = << >>
    /\ ~ Holding => received = << >>

--------------------------------------------------------------------------------

\* What the tuples of the variables stand for in UNCHANGED.
LEMMA Unchanged ==
  /\ UNCHANGED calls <=> UNCHANGED <<phase, text, failure, sent>>
  /\ UNCHANGED stream <=> UNCHANGED <<channel, received>>
  /\ UNCHANGED vars <=>
       UNCHANGED <<phase, text, failure, sent, mode, tier, pc, outbox, channel, received,
                   caller, ego_called, chunks, outcome>>
BY Zenon DEF calls, stream, vars

\* What a call sends.
LEMMA OneOrTwo == 0 \in 0..2 /\ 1 \in 0..2 /\ 1 + 1 \in 0..2
OBVIOUS

\* The steps of the two calls.
LEMMA CallsTyped ==
  ASSUME CallsTypeOK, CallInv,
         \/ StartCalls
         \/ \E a \in Agents : CallStep(a)
         \/ \E A \in SUBSET Agents : phase' = Cancelled(A) /\ UNCHANGED <<text, failure, sent>>
         \/ UNCHANGED calls
  PROVE  CallsTypeOK'
<1> USE DEF CallsTypeOK, CallInv, Phases, InFlight, Running
<1>1. CASE StartCalls
  BY OneOrTwo, <1>1 DEF StartCalls
<1>2. ASSUME NEW a \in Agents, Respond(a) PROVE CallsTypeOK'
  BY <1>2 DEF Respond
<1>3. ASSUME NEW a \in Agents, NEW f \in Failures, Fail(a, f) PROVE CallsTypeOK'
  BY <1>3 DEF Fail
<1>4. ASSUME NEW a \in Agents, Resend(a) PROVE CallsTypeOK'
  BY OneOrTwo, <1>4 DEF Resend
<1>5. ASSUME NEW A \in SUBSET Agents, phase' = Cancelled(A), UNCHANGED <<text, failure, sent>>
      PROVE  CallsTypeOK'
  BY <1>5 DEF Cancelled
<1>6. CASE UNCHANGED calls
  BY <1>6, Unchanged
<1> QED BY <1>1, <1>2, <1>3, <1>4, <1>5, <1>6 DEF CallStep

\* The constant part of what is told.
LEMMA EventSeqs ==
  /\ << >> \in Seq(Events)
  /\ \A e \in Events : <<e>> \in Seq(Events)
  /\ \A b \in BOOLEAN : Announced(b) \in Seq(Events)
  /\ Preamble \in Seq(Events) /\ Len(Preamble) = IF tier = "skip" THEN 0 ELSE 4
<1>1. /\ <<IdDone, EnsuringSafety, SuperegoDone>> \in Seq(Events)
      /\ <<Thinking, IdDone, EnsuringSafety, SuperegoDone>> \in Seq(Events)
      /\ <<Refusal>> \in Seq(Events)
      /\ <<Responding>> \in Seq(Events)
  BY DEF Events
<1>2. \A b \in BOOLEAN : Announced(b) \in Seq(Events)
  BY <1>1, ConcatProperties DEF Announced
<1>3. Preamble \in Seq(Events) /\ Len(Preamble) = IF tier = "skip" THEN 0 ELSE 4
  BY <1>1 DEF Preamble
<1> QED BY <1>2, <1>3

\* Every variable keeps its type.
LEMMA TypeStep == TypeOK /\ CallInv /\ [Next]_vars => TypeOK'
<1> SUFFICES ASSUME TypeOK, CallInv, [Next]_vars PROVE TypeOK'
  OBVIOUS
<1>0. /\ Capacity \in Nat /\ MaxChunks \in Nat
      /\ \A e \in {Thinking, Responding, Refusal, Chunk, ErrorChunk} :
           <<e>> \in Seq(Events)
      /\ << >> \in Seq(Events) /\ Len(<< >>) <= Capacity
  BY ConstantsAssumption, EventSeqs DEF Events
<1>00. CallsTypeOK /\ UNCHANGED <<phase, text, failure, sent>> => CallsTypeOK'
  BY CallsTyped, Unchanged
<1> USE DEF TypeOK, PCs, Modes
<1>1. ASSUME NEW m \in Messages, NEW md \in Modes, Request(m, md) PROVE TypeOK'
  <2>1. CallsTypeOK'
    BY <1>1, CallsTyped DEF Request
  <2>2. outbox' \in Seq(Events) /\ pc' \in PCs
    BY <1>0, <1>1 DEF Request
  <2>3. tier' \in {"none", "skip", "light", "full"} /\ mode' \in Modes
    BY <1>1 DEF Request, TierOf, ClassifyTier
  <2> QED BY <1>1, <2>1, <2>2, <2>3, Unchanged DEF Request
<1>2. ASSUME NEW a \in Agents, AgentStep(a) PROVE TypeOK'
  BY <1>2, CallsTyped, Unchanged DEF AgentStep
<1>3. ASSUME NEW a \in Agents, CopTimeout(a) PROVE TypeOK'
  <2>1. CallsTypeOK'
    BY <1>3, CallsTyped DEF CopTimeout, TimedOut
  <2> QED BY <1>3, <2>1, Unchanged DEF CopTimeout
<1>4. CASE SendEvent
  <2>1. Head(outbox) \in Events /\ Tail(outbox) \in Seq(Events)
    BY <1>4, HeadTailProperties DEF SendEvent
  <2>2. CASE UNCHANGED channel
    BY <1>00, <1>4, <2>1, <2>2, Unchanged DEF SendEvent
  <2>3. CASE HasRoom /\ channel' = Append(channel, Head(outbox)) /\ UNCHANGED pc
    <3>1. /\ Append(channel, Head(outbox)) \in Seq(Events)
          /\ Len(Append(channel, Head(outbox))) = Len(channel) + 1
          /\ Len(channel) \in Nat
      BY <2>1, AppendProperties
    <3>2. Len(channel') <= Capacity
      BY <1>0, <2>3, <3>1 DEF HasRoom
    <3> QED BY <1>00, <1>4, <2>1, <2>3, <3>1, <3>2, Unchanged DEF SendEvent
  <2> QED BY <1>4, <2>2, <2>3, Unchanged DEF SendEvent
<1>5. CASE Consult
  BY <1>5, CallsTyped, Unchanged DEF Consult
<1>6. CASE Settle
  <2>1. Blocks(Output(Superego)) \in BOOLEAN
    BY DEF Blocks
  <2>2. outbox' \in Seq(Events)
    BY <1>0, <1>6, <2>1, EventSeqs DEF Settle
  <2> QED BY <1>00, <1>6, <2>2, Unchanged DEF Settle, Onward
<1>7. CASE AskEgo \/ Close \/ EgoOk \/ EgoEnds
  BY <1>00, <1>7, Unchanged DEF AskEgo, Close, EgoOk, EgoEnds
<1>8. CASE EgoErr
  <2>1. channel' \in Seq(Events) /\ Len(channel') <= Capacity
    BY <1>0, <1>8 DEF EgoErr
  <2>2. outbox' \in Seq(Events)
    BY <1>0, <1>8 DEF EgoErr
  <2> QED BY <1>00, <1>8, <2>1, <2>2, Unchanged DEF EgoErr
<1>9. CASE EgoChunk
  BY <1>0, <1>00, <1>9, Unchanged DEF EgoChunk
<1>10. CASE Receive
  <2>1. /\ Head(channel) \in Events /\ Tail(channel) \in Seq(Events)
        /\ Len(Tail(channel)) = Len(channel) - 1
    BY <1>10, HeadTailProperties DEF Receive
  <2>2. received' \in Seq(Events)
    BY <1>10, <2>1, AppendProperties DEF Receive
  <2>3. Len(channel') <= Capacity
    BY <1>0, <1>10, <2>1, LenProperties DEF Receive
  <2> QED BY <1>00, <1>10, <2>1, <2>2, <2>3, Unchanged DEF Receive
<1>11. CASE DropReceiver
  BY <1>0, <1>00, <1>11, Unchanged DEF DropReceiver
<1>12. CASE Abandon
  <2>1. CallsTypeOK'
    BY <1>12, CallsTyped DEF Abandon
  <2> QED BY <1>0, <1>12, <2>1, Unchanged DEF Abandon
<1>13. CASE UNCHANGED vars
  BY <1>00, <1>13, Unchanged
<1> QED BY <1>1, <1>2, <1>3, <1>4, <1>5, <1>6, <1>7, <1>8, <1>9, <1>10, <1>11, <1>12, <1>13
        DEF Next, Task, Ego

\* A message is put in one of three tiers.
LEMMA Tiers == \A m : TierOf(m) \in {"skip", "light", "full"}
BY DEF TierOf, ClassifyTier

\* Texts come with the end of a call, and calls with the consultation.
LEMMA CallStepInv == TypeOK /\ CallInv /\ ControlInv /\ [Next]_vars => CallInv'
<1> SUFFICES ASSUME TypeOK, CallInv, ControlInv, [Next]_vars PROVE CallInv'
  OBVIOUS
<1> USE DEF CallInv
<1>1. ASSUME NEW m \in Messages, NEW md \in Modes, Request(m, md) PROVE CallInv'
  BY <1>1, Tiers, Unchanged DEF Request, StartCalls
<1>2. ASSUME NEW a \in Agents, AgentStep(a) PROVE CallInv'
  <2>1. pc' = pc /\ tier' = tier /\ phase[a] # "idle"
    BY <1>2 DEF AgentStep, CallStep, Respond, Fail, Resend, InFlight
  <2>2. \A b \in Agents :
          /\ phase'[b] # "ok" => text'[b] = ""
          /\ phase'[b] \in {"first", "backoff"} => sent'[b] = 1
    <3> USE DEF TypeOK, CallsTypeOK, InFlight
    <3>1. CASE Respond(a)
      BY <3>1 DEF Respond
    <3>2. ASSUME NEW f \in Failures, Fail(a, f), NEW b \in Agents
          PROVE  /\ phase'[b] # "ok" => text'[b] = ""
                 /\ phase'[b] \in {"first", "backoff"} => sent'[b] = 1
      <4>1. b # a => phase'[b] = phase[b]
        BY <3>2 DEF Fail
      <4>2. phase[a] # "ok" /\ (phase'[a] \in {"first", "backoff"} => phase[a] = "first")
        BY <3>2 DEF Fail
      <4> QED BY <3>2, <4>1, <4>2 DEF Fail
    <3>3. CASE Resend(a)
      BY <3>3 DEF Resend
    <3> QED BY <1>2, <3>1, <3>2, <3>3 DEF AgentStep, CallStep
  <2> QED BY <2>1, <2>2
<1>3. ASSUME NEW a \in Agents, CopTimeout(a) PROVE CallInv'
  BY <1>3 DEF CopTimeout, TimedOut, Cancelled, Running, InFlight, TypeOK, CallsTypeOK
<1>4. CASE SendEvent
  BY <1>4, Unchanged DEF SendEvent, ControlInv
<1>5. CASE Consult
  BY <1>5, Unchanged DEF Consult, StartCalls, ControlInv
<1>6. CASE Settle
  BY <1>6, Unchanged DEF Settle, Onward
<1>7. CASE AskEgo \/ Close \/ Ego
  BY <1>7, Unchanged DEF AskEgo, Close, Ego, EgoOk, EgoErr, EgoChunk, EgoEnds
<1>8. CASE Receive \/ DropReceiver \/ UNCHANGED vars
  BY <1>8, Unchanged DEF Receive, DropReceiver
<1>9. CASE Abandon
  <2>1. pc' = "done" /\ UNCHANGED <<tier, text, sent>>
    BY <1>9 DEF Abandon
  <2>2. \A a \in Agents : phase'[a] = phase[a] \/ (phase'[a] = "cancelled" /\ Running(a))
    BY <1>9 DEF Abandon, Cancelled
  <2> QED BY <2>1, <2>2 DEF Running, InFlight
<1> QED BY <1>1, <1>2, <1>3, <1>4, <1>5, <1>6, <1>7, <1>8, <1>9 DEF Next, Task

\* Where the task is says what the other variables are.
LEMMA ControlStep == TypeOK /\ ControlInv /\ [Next]_vars => ControlInv'
<1> SUFFICES ASSUME TypeOK, ControlInv, [Next]_vars PROVE ControlInv'
  OBVIOUS
<1> USE DEF ControlInv, Fresh, Holding, Modes
<1>1. ASSUME NEW m \in Messages, NEW md \in Modes, Request(m, md) PROVE ControlInv'
  BY <1>1, Tiers, Unchanged DEF Request
<1>2. ASSUME NEW a \in Agents, AgentStep(a) \/ CopTimeout(a) PROVE ControlInv'
  BY <1>2, Unchanged DEF AgentStep, CopTimeout
<1>4. CASE SendEvent
  BY <1>4, Unchanged DEF SendEvent
<1>5. CASE Consult
  BY <1>5, Unchanged DEF Consult
<1>6. CASE Settle
  BY <1>6, Unchanged DEF Settle, Onward
<1>7. CASE AskEgo \/ Close
  BY <1>7, Unchanged DEF AskEgo, Close
<1>8. CASE EgoOk \/ EgoErr \/ EgoChunk \/ EgoEnds
  BY <1>8, Unchanged DEF EgoOk, EgoErr, EgoChunk, EgoEnds
<1>9. CASE Receive \/ DropReceiver \/ UNCHANGED vars
  BY <1>9, Unchanged DEF Receive, DropReceiver
<1>10. CASE Abandon
  BY <1>10, Unchanged DEF Abandon
<1> QED BY <1>1, <1>2, <1>4, <1>5, <1>6, <1>7, <1>8, <1>9, <1>10 DEF Next, Task, Ego

\* What the Superego says once its call is over, it has said for good.
LEMMA VerdictStands ==
  ASSUME TypeOK, CallInv, ControlInv, [Next]_vars, Settled(Superego)
  PROVE  Settled(Superego)' /\ text'[Superego] = text[Superego]
<1>1. Superego \in Agents
  BY ConstantsAssumption
<1>2. pc \notin {"idle", "thinking"}
  BY <1>1 DEF CallInv, Settled
<1> USE DEF TypeOK, CallsTypeOK, Settled
<1>3. ASSUME NEW a \in Agents, AgentStep(a) \/ CopTimeout(a)
      PROVE  Settled(Superego)' /\ text'[Superego] = text[Superego]
  <2>1. CASE CopTimeout(a)
    BY <1>1, <2>1 DEF CopTimeout, TimedOut, Cancelled, Running, InFlight
  <2>2. CASE Respond(a)
    BY <1>1, <2>2 DEF Respond, InFlight
  <2>3. ASSUME NEW f \in Failures, Fail(a, f)
        PROVE  Settled(Superego)' /\ text'[Superego] = text[Superego]
    BY <1>1, <2>3 DEF Fail, InFlight
  <2>4. CASE Resend(a)
    BY <1>1, <2>4 DEF Resend
  <2> QED BY <1>3, <2>1, <2>2, <2>3, <2>4 DEF AgentStep, CallStep
<1>4. CASE SendEvent \/ Settle \/ AskEgo \/ Close \/ Ego
  BY <1>4, Unchanged
     DEF SendEvent, Settle, AskEgo, Close, Ego, EgoOk, EgoErr, EgoChunk, EgoEnds
<1>5. CASE Receive \/ DropReceiver \/ UNCHANGED vars
  BY <1>5, Unchanged DEF Receive, DropReceiver
<1>6. CASE Abandon
  BY <1>1, <1>6 DEF Abandon, Cancelled, Running, InFlight
<1> QED BY <1>2, <1>3, <1>4, <1>5, <1>6 DEF Next, Task, Request, Consult

\* What Settle reads of the Superego is its text.
LEMMA OutputIsText ==
  ASSUME CallInv PROVE Output(Superego) = text[Superego]
BY ConstantsAssumption DEF CallInv, Output

\* No step gets past the verdict or round it.
LEMMA JudgedStep == TypeOK /\ CallInv /\ ControlInv /\ JudgedInv /\ [Next]_vars => JudgedInv'
<1> SUFFICES ASSUME TypeOK, CallInv, ControlInv, JudgedInv, [Next]_vars PROVE JudgedInv'
  OBVIOUS
<1>0. Settled(Superego) => Settled(Superego)' /\ text'[Superego] = text[Superego]
  BY VerdictStands
<1>00. text'[Superego] = text[Superego] => (Blocks(text[Superego])' <=> Blocks(text[Superego]))
  BY DEF Blocks
<1> USE DEF JudgedInv, ControlInv
<1>1. ASSUME NEW m \in Messages, NEW md \in Modes, Request(m, md) PROVE JudgedInv'
  BY <1>1 DEF Request, Fresh
<1>2. ASSUME NEW a \in Agents, AgentStep(a) \/ CopTimeout(a) PROVE JudgedInv'
  BY <1>0, <1>00, <1>2, Unchanged DEF AgentStep, CopTimeout
<1>4. CASE SendEvent \/ Consult
  BY <1>0, <1>00, <1>4, Unchanged DEF SendEvent, Consult
<1>6. CASE Settle
  <2>1. Settled(Superego) /\ Output(Superego) = text[Superego]
    BY <1>6, OutputIsText, ConstantsAssumption DEF Settle, AllSettled
  <2>2. tier' = tier /\ tier # "skip" /\ ~ ego_called' /\ mode' = mode
    BY <1>6 DEF Settle
  <2> QED BY <1>0, <1>00, <1>6, <2>1, <2>2 DEF Settle, Onward, Modes
<1>7. CASE AskEgo \/ Close
  BY <1>0, <1>00, <1>7, Unchanged DEF AskEgo, Close
<1>8. CASE EgoOk \/ EgoErr \/ EgoChunk \/ EgoEnds
  BY <1>0, <1>00, <1>8, Unchanged DEF EgoOk, EgoErr, EgoChunk, EgoEnds
<1>9. CASE Receive \/ DropReceiver \/ UNCHANGED vars
  BY <1>0, <1>00, <1>9, Unchanged DEF Receive, DropReceiver
<1>10. CASE Abandon
  BY <1>0, <1>00, <1>10, Unchanged DEF Abandon
<1> QED BY <1>1, <1>2, <1>4, <1>6, <1>7, <1>8, <1>9, <1>10 DEF Next, Task, Ego

--------------------------------------------------------------------------------

ControlledInv == TypeOK /\ CallInv /\ ControlInv /\ JudgedInv

\* The invariant of the control holds in every reachable state.
LEMMA Controlled == Spec => []ControlledInv
<1>1. Init => ControlledInv
  <2> SUFFICES ASSUME Init PROVE ControlledInv
    OBVIOUS
  <2>1. CallsTypeOK
    BY OneOrTwo DEF Init, CallsInit, CallsTypeOK, Phases
  <2>2. TypeOK
    <3>1. << >> \in Seq(Events) /\ Len(<< >>) <= Capacity /\ 0 \in 0..MaxChunks
      BY ConstantsAssumption
    <3> QED BY <2>1, <3>1 DEF Init, TypeOK, PCs
  <2>3. CallInv /\ ControlInv /\ JudgedInv
    BY DEF Init, CallsInit, CallInv, ControlInv, Fresh, JudgedInv
  <2> QED BY <2>2, <2>3 DEF ControlledInv
<1>2. ControlledInv /\ [Next]_vars => ControlledInv'
  BY TypeStep, CallStepInv, ControlStep, JudgedStep DEF ControlledInv
<1> QED BY <1>1, <1>2, PTL DEF Spec

\* The types, and the capacity of the channel, for every value of the constants.
THEOREM TypeCorrect == Spec => []TypeOK
<1>1. ControlledInv => TypeOK
  BY DEF ControlledInv
<1> QED BY <1>1, Controlled, PTL

\* When the Superego's text blocks, the Ego is never called: in neither entry point,
\* whatever became of the Id's call, of the timers and of the caller.
THEOREM Heeded == Spec => []VerdictHeeded
<1>1. ControlledInv => VerdictHeeded
  <2> SUFFICES ASSUME ControlledInv, ego_called PROVE ~ Blocks(text[Superego])
    BY DEF VerdictHeeded
  <2>1. CASE tier = "skip"
    <3>1. text[Superego] = ""
      BY <2>1, ConstantsAssumption DEF ControlledInv, CallInv
    <3> QED BY <3>1 DEF Blocks, ReasonedBlock, MentionsBlock, VerdictBlock, BareVerdictBlock
  <2>2. CASE tier # "skip"
    BY <2>2 DEF ControlledInv, JudgedInv
  <2> QED BY <2>1, <2>2
<1> QED BY <1>1, Controlled, PTL

--------------------------------------------------------------------------------
(* The stream                                                              *)

\* The four events before the answer, in two pieces.
LEMMA PreambleInPieces ==
  \A e : <<Thinking>> \o (<<IdDone, EnsuringSafety, SuperegoDone>> \o <<e>>)
           = <<Thinking, IdDone, EnsuringSafety, SuperegoDone>> \o <<e>>
<1> SUFFICES ASSUME NEW e
             PROVE  <<Thinking>> \o (<<IdDone, EnsuringSafety, SuperegoDone>> \o <<e>>)
                      = <<Thinking, IdDone, EnsuringSafety, SuperegoDone>> \o <<e>>
  OBVIOUS
<1> DEFINE S == Events \cup {e}
           first == <<Thinking>>
           then == <<IdDone, EnsuringSafety, SuperegoDone>>
           all == <<Thinking, IdDone, EnsuringSafety, SuperegoDone>>
<1>1. first \in Seq(S) /\ then \in Seq(S) /\ <<e>> \in Seq(S) /\ all \in Seq(S)
  BY DEF Events
<1>2. first \o then = all
  <2>1. Len(first \o then) = Len(all)
    OBVIOUS
  <2>2. \A i \in 1..Len(first \o then) : (first \o then)[i] = all[i]
    OBVIOUS
  <2> QED BY <1>1, <2>1, <2>2, SeqEqual, ConcatProperties
<1> HIDE DEF S, first, then, all
<1>3. (first \o then) \o <<e>> = first \o (then \o <<e>>)
  BY <1>1, ConcatAssociative, SMTT(30)
<1>4. first \o (then \o <<e>>) = all \o <<e>>
  BY <1>2, <1>3
<1> QED BY <1>4 DEF first, then, all

\* An event that is sent leaves what is told as it is.
LEMMA SentAlong ==
  \A r, s, t \in Seq(Events) :
    t # << >> => (r \o Append(s, Head(t))) \o Tail(t) = (r \o s) \o t
<1> DEFINE S == Events
<1> SUFFICES ASSUME NEW r \in Seq(S), NEW s \in Seq(S), NEW t \in Seq(S), t # << >>
             PROVE  (r \o Append(s, Head(t))) \o Tail(t) = (r \o s) \o t
  OBVIOUS
<1> HIDE DEF S
<1>1. Head(t) \in S /\ Tail(t) \in Seq(S)
  BY HeadTailProperties
<1>2. Append(s, Head(t)) \in Seq(S)
  BY <1>1, AppendProperties
<1>0. \A x, y, z \in Seq(S) : (x \o y) \o z = x \o (y \o z)
  BY ConcatAssociative, SMTT(30)
<1>3. (r \o Append(s, Head(t))) \o Tail(t) = r \o (Append(s, Head(t)) \o Tail(t))
  BY <1>0, <1>1, <1>2, ZenonT(30)
<1>4. (r \o s) \o t = r \o (s \o t)
  BY ConcatAssociative
<1> QED BY <1>3, <1>4, MoveHead

\* What is told is a sequence, and sending and receiving leave it as it is.
LEMMA ToldMoved ==
  ASSUME TypeOK
  PROVE  /\ Told \in Seq(Events)
         /\ SendEvent /\ caller = "present" => Told' = Told
         /\ Receive => Told' = Told
<1> USE DEF TypeOK
<1>1. received \o channel \in Seq(Events) /\ Told \in Seq(Events)
  BY ConcatProperties DEF Told
<1>2. ASSUME SendEvent, caller = "present" PROVE Told' = Told
  <2>1. outbox # << >> /\ channel' = Append(channel, Head(outbox)) /\ outbox' = Tail(outbox)
          /\ received' = received
    BY <1>2 DEF SendEvent
  <2>2. (received \o Append(channel, Head(outbox))) \o Tail(outbox) = (received \o channel) \o outbox
    BY <2>1, SentAlong, Zenon
  <2> QED BY <2>1, <2>2 DEF Told
<1>3. ASSUME Receive PROVE Told' = Told
  <2>1. channel # << >> /\ received' = Append(received, Head(channel)) /\ channel' = Tail(channel)
          /\ outbox' = outbox
    BY <1>3 DEF Receive
  <2> QED BY <2>1, MoveHead DEF Told
<1> QED BY <1>1, <1>2, <1>3

\* An event put in an empty outbox is told next.
LEMMA ToldNext ==
  ASSUME TypeOK, outbox = << >>, UNCHANGED <<received, channel>>,
         NEW e \in Events, outbox' = <<e>>
  PROVE  Told' = Append(Told, e)
<1>1. received \o channel \in Seq(Events)
  BY ConcatProperties DEF TypeOK
<1>2. Told = received \o channel
  BY <1>1, ConcatEmptySeq DEF Told
<1>3. Append(received \o channel, e) = (received \o channel) \o <<e>>
  BY <1>1, AppendIsConcat
<1> QED BY <1>2, <1>3 DEF Told

\* A prefix stays one when the sequence grows, and a sequence is its own.
LEMMA PrefixGrows ==
  ASSUME NEW S, NEW s \in Seq(S), NEW t \in Seq(S)
  PROVE  /\ IsPrefix(s, s)
         /\ \A e \in S : IsPrefix(s, t) => IsPrefix(s, Append(t, e))
<1>1. Len(s) \in Nat /\ Len(t) \in Nat
        /\ \A e \in S : Len(Append(t, e)) = Len(t) + 1 /\ Append(t, e) \in Seq(S)
  BY AppendProperties, LenProperties
<1>2. ASSUME NEW e \in S, Len(s) <= Len(t) PROVE SubSeq(Append(t, e), 1, Len(s)) = SubSeq(t, 1, Len(s))
  <2>1. CASE Len(s) = 0
    BY <2>1, SubSeqEmpty
  <2>2. CASE Len(s) # 0
    <3>1. 1 \in 1..Len(t) /\ Len(s) \in 1..Len(t) /\ <<e>> \in Seq(S)
      BY <1>1, <1>2, <2>2
    <3> QED BY <3>1, AppendIsConcat, SubSeqOfConcat1
  <2> QED BY <2>1, <2>2
<1> QED BY <1>1, <1>2 DEF IsPrefix

\* The opening of an answered stream.
LEMMA Opening ==
  /\ Preamble \o <<Responding>> \in Seq(Events) /\ Preamble \o <<Refusal>> \in Seq(Events)
  /\ Len(Preamble) \in Nat
  /\ Len(Preamble \o <<Responding>>) = Len(Preamble) + 1
  /\ Len(Preamble \o <<Refusal>>) = Len(Preamble) + 1
<1>1. <<Responding>> \in Seq(Events) /\ <<Refusal>> \in Seq(Events)
  BY EventSeqs DEF Events
<1>2. Len(<<Responding>>) = 1 /\ Len(<<Refusal>>) = 1
  OBVIOUS
<1>3. Preamble \in Seq(Events) /\ Len(Preamble) \in Nat
  BY EventSeqs
<1> QED BY <1>1, <1>2, <1>3, ConcatProperties

\* Each step tells the caller the next thing due.
LEMMA StreamStep == ControlledInv /\ StreamInv /\ [Next]_vars => StreamInv'
<1> SUFFICES ASSUME TypeOK, ControlInv, StreamInv, [Next]_vars,
                    mode' = "stream", caller' = "present"
             PROVE  StreamInv'
  BY DEF ControlledInv, StreamInv
<1> USE DEF StreamInv, ControlInv
<1>0. Told \in Seq(Events) /\ Len(Told) \in Nat
  BY ToldMoved, LenProperties
<1>00. UNCHANGED tier => UNCHANGED Preamble
  BY DEF Preamble
<1>000. UNCHANGED <<Told, tier>> => UNCHANGED <<Opened, Later>>
  BY <1>00 DEF Opened, Later
<1>001. UNCHANGED <<received, channel, outbox>> => UNCHANGED Told
  BY DEF Told
<1>1. ASSUME NEW m \in Messages, NEW md \in Modes, Request(m, md) PROVE StreamInv'
  <2>1. CASE tier' = "skip"
    <3>1. Preamble' = << >> /\ Told' = (<< >> \o << >>) \o <<Responding>>
      BY <1>1, <2>1, Unchanged DEF Request, Fresh, Told, Preamble
    <3>2. << >> \o << >> = << >>
      BY EventSeqs, ConcatEmptySeq
    <3> QED BY <1>1, <2>1, <3>1, <3>2, Unchanged DEF Request, Fresh, Holding
  <2>2. CASE tier' # "skip"
    <3>1. Told' = (<< >> \o << >>) \o <<Thinking>>
      BY <1>1, <2>2, Unchanged DEF Request, Fresh, Told
    <3>2. (<< >> \o << >>) \o <<Thinking>> = <<Thinking>>
      BY EventSeqs, ConcatEmptySeq DEF Events
    <3> QED BY <1>1, <2>2, <3>1, <3>2, Unchanged DEF Request, Fresh, Holding
  <2> QED BY <2>1, <2>2
<1>2. ASSUME NEW a \in Agents, AgentStep(a) \/ CopTimeout(a) PROVE StreamInv'
  BY <1>000, <1>001, <1>00, <1>2, Unchanged DEF AgentStep, CopTimeout, Holding
<1>4. CASE SendEvent
  BY <1>000, <1>00, <1>4, ToldMoved, Unchanged DEF SendEvent, Holding
<1>5. CASE Consult \/ AskEgo \/ EgoEnds \/ Close
  BY <1>000, <1>001, <1>00, <1>5, Unchanged DEF Consult, AskEgo, EgoEnds, Close, Holding
<1>6. CASE Settle
  <2>1. Told' = Told \o Announced(Blocks(Output(Superego)))
    <3>1. /\ outbox = << >> /\ outbox' = Announced(Blocks(Output(Superego)))
          /\ UNCHANGED <<received, channel, tier, mode, caller>>
      BY <1>6, Unchanged DEF Settle
    <3>2. Told = received \o channel
      BY <3>1, ConcatEmptySeq, ConcatProperties DEF TypeOK, Told
    <3> QED BY <3>1, <3>2 DEF Told
  <2>2. Told = <<Thinking>> /\ Preamble = <<Thinking, IdDone, EnsuringSafety, SuperegoDone>>
    BY <1>6, Unchanged DEF Settle, Preamble
  <2>3. Told' = Preamble \o (IF Blocks(Output(Superego)) THEN <<Refusal>> ELSE <<Responding>>)
    BY <2>1, <2>2, PreambleInPieces DEF Announced
  <2> QED BY <1>6, <1>00, <2>3, Unchanged DEF Settle, Onward, Holding
<1>7. CASE EgoOk
  <2>1. Told = Preamble \o <<Responding>>
    BY <1>7 DEF EgoOk
  <2>2. Opened /\ Later = {}
    <3>1. IsPrefix(Told, Told)
      BY <1>0, PrefixGrows DEF Events
    <3>2. (Len(Preamble) + 2)..Len(Told) = {}
      BY <2>1, Opening
    <3> QED BY <2>1, <3>1, <3>2 DEF Opened, Later
  <2> QED BY <1>000, <1>001, <1>7, <2>2, Unchanged DEF EgoOk, Holding
<1>8. CASE EgoErr
  <2>1. CASE Holding
    <3>1. /\ pc = "awaiting" /\ pc' = "closing" /\ outbox = << >> /\ outbox' = <<ErrorChunk>>
          /\ UNCHANGED <<received, channel, tier, mode, caller, ego_called, chunks, outcome>>
      BY <1>8, <2>1, Unchanged DEF EgoErr
    <3>2. Told' = Append(Told, ErrorChunk)
      BY <3>1, ToldNext DEF Events
    <3>3. ErrorChunk \in Events
      BY DEF Events
    <3>4. Told = Preamble \o <<Responding>>
      BY <3>1
    <3>5. Opened' /\ Len(Told') = Len(Preamble) + 2 /\ Told'[Len(Told')] = ErrorChunk
      <4>1. Len(Told') = Len(Told) + 1 /\ Told'[Len(Told) + 1] = ErrorChunk
        BY <1>0, <3>2, <3>3, AppendProperties
      <4>2. IsPrefix(Preamble \o <<Responding>>, Told')
        BY <1>0, <3>2, <3>3, <3>4, Opening, PrefixGrows
      <4> QED BY <1>00, <3>1, <3>4, <4>1, <4>2, Opening DEF Opened
    <3>6. Later' = {Len(Told')}
      <4>1. ErrorChunk # Chunk
        BY DEF ErrorChunk, Chunk
      <4> QED BY <1>00, <3>1, <3>5, <4>1, Opening DEF Later
    <3> QED BY <3>1, <3>5, <3>6 DEF Holding
  <2>2. CASE ~ Holding
    <3>1. /\ received = << >> /\ outbox' = << >> /\ channel' = << >> /\ pc' = "done"
          /\ outcome' = "error" /\ ego_called' /\ UNCHANGED received
      BY <1>8, <2>2, Unchanged DEF EgoErr
    <3>2. Told' = << >>
      BY <3>1, EventSeqs, ConcatEmptySeq DEF Told
    <3> QED BY <3>1, <3>2
  <2> QED BY <2>1, <2>2
<1>9. CASE EgoChunk
  <2>1. /\ pc = "forwarding" /\ outbox = << >> /\ outbox' = <<Chunk>>
        /\ UNCHANGED <<received, channel, tier, mode, pc, caller, ego_called, outcome>>
    BY <1>9, Unchanged DEF EgoChunk
  <2>2. Told' = Append(Told, Chunk) /\ Chunk \in Events
    BY <2>1, ToldNext DEF Events
  <2>3. /\ Len(Told') = Len(Told) + 1 /\ Told'[Len(Told) + 1] = Chunk
        /\ \A i \in 1..Len(Told) : Told'[i] = Told[i]
    BY <1>0, <2>2, AppendProperties
  <2>4. Opened'
    BY <1>0, <1>00, <2>1, <2>2, Opening, PrefixGrows DEF Opened
  <2>5. Later' = {}
    <3>1. ASSUME NEW i \in ((Len(Preamble) + 2)..Len(Told))' PROVE Told'[i] = Chunk
      BY <1>0, <1>00, <2>1, <2>3, Opening DEF Later
    <3> QED BY <3>1 DEF Later
  <2> QED BY <2>1, <2>4, <2>5 DEF Holding
<1>10. CASE Receive
  BY <1>000, <1>00, <1>10, ToldMoved, Unchanged DEF Receive, Holding
<1>11. CASE DropReceiver \/ Abandon
  BY <1>11 DEF DropReceiver, Abandon
<1>12. CASE UNCHANGED vars
  BY <1>000, <1>00, <1>001, <1>12, Unchanged DEF Holding
<1> QED BY <1>1, <1>2, <1>4, <1>5, <1>6, <1>7, <1>8, <1>9, <1>10, <1>11, <1>12
        DEF Next, Task, Ego

IInv == ControlledInv /\ StreamInv

\* The whole invariant holds in every reachable state.
LEMMA Invariant == Spec => []IInv
<1>1. Init => StreamInv
  BY DEF Init, StreamInv
<1>2. ControlledInv /\ StreamInv /\ [Next]_vars => StreamInv'
  BY StreamStep
<1> QED BY <1>1, <1>2, Controlled, PTL DEF Spec, IInv

\* However slowly it is read, a stream shows the phases in order and then either the
\* one refusal or Responding and the Ego's chunks, for every capacity and every
\* number of chunks.
THEOREM Readable == Spec => []StreamReadable
<1>1. IInv => StreamReadable
  <2> SUFFICES ASSUME IInv, mode = "stream", caller = "present" PROVE StreamReadable
    BY DEF StreamReadable
  <2>0. TypeOK /\ ControlInv /\ StreamInv /\ pc # "idle"
    BY DEF IInv, ControlledInv, ControlInv, Fresh
  <2>1. Told \in Seq(Events) /\ Len(Told) \in Nat
    BY <2>0, ToldMoved, LenProperties
  <2>2. CASE pc \in {"thinking", "consulting"}
    <3>1. Told = <<Thinking>> /\ Preamble = <<Thinking, IdDone, EnsuringSafety, SuperegoDone>>
      BY <2>0, <2>2 DEF StreamInv, ControlInv, Preamble
    <3>2. <<Refusal>> \in Seq(Events) /\ Preamble \in Seq(Events) /\ Len(<<Thinking>>) = 1
      BY EventSeqs DEF Events
    <3>3. SubSeq(Told, 1, 1) = <<Thinking>>
      BY <2>1, <3>1, <3>2, SubSeqFull
    <3>4. SubSeq(Preamble \o <<Refusal>>, 1, 1) = SubSeq(Preamble, 1, 1)
      BY <3>1, <3>2, SubSeqOfConcat1
    <3>5. SubSeq(Preamble, 1, 1) = <<Thinking>>
      <4>1. SubSeq(Preamble, 1, 1) = <<Preamble[1]>> \o SubSeq(Preamble, 2, 1)
        BY <3>1, <3>2, SubSeqRecursiveFirst
      <4>2. SubSeq(Preamble, 2, 1) = << >> /\ Preamble[1] = Thinking /\ <<Thinking>> \in Seq(Events)
        BY <3>1, SubSeqEmpty DEF Events
      <4> QED BY <4>1, <4>2, ConcatEmptySeq
    <3>6. 1 <= Len(Preamble \o <<Refusal>>)
      BY Opening
    <3> QED BY <3>1, <3>2, <3>3, <3>4, <3>5, <3>6 DEF StreamReadable, IsPrefix
  <2>3. CASE pc \in {"ego", "awaiting"}
    BY <2>0, <2>1, <2>3, PrefixGrows DEF StreamInv, StreamReadable
  <2>4. CASE pc \in {"forwarding", "closing", "done"} /\ ego_called /\ outcome = "none"
    BY <2>0, <2>1, <2>4 DEF StreamInv, StreamReadable, Opened, Later
  <2>5. CASE pc \in {"closing", "done"} /\ ~ ego_called
    BY <2>0, <2>1, <2>5, PrefixGrows DEF StreamInv, StreamReadable
  <2>6. CASE outcome # "none"
    <3>1. Told = << >> /\ Len(Told) = 0
      BY <2>0, <2>6 DEF StreamInv
    <3> QED BY <3>1, SubSeqEmpty, Opening DEF StreamReadable, IsPrefix
  <2> QED BY <2>0, <2>2, <2>3, <2>4, <2>5, <2>6 DEF TypeOK, PCs, ControlInv
<1> QED BY <1>1, Invariant, PTL

--------------------------------------------------------------------------------
(* The gated reply                                                         *)

\* The elements of a prefix are those of the sequence.
LEMMA PrefixElement ==
  ASSUME NEW S, NEW s \in Seq(S), NEW t \in Seq(S), IsPrefix(s, t), NEW i \in 1..Len(s)
  PROVE  t[i] = s[i]
<1>1. SubSeq(s, 1, Len(s)) = s /\ SubSeq(t, 1, Len(s)) = s
  BY SubSeqFull DEF IsPrefix
<1>2. Len(s) <= Len(t) /\ Len(s) \in Nat /\ Len(t) \in Nat
  BY LenProperties DEF IsPrefix
<1> QED BY <1>1, <1>2

\* A stream the Ego answered has no refusal in it.
LEMMA NotRefused ==
  ASSUME IInv, mode = "stream", caller = "present", pc = "done", ego_called
  PROVE  ~ Contains(Told, Refusal)
<1>1. Told \in Seq(Events) /\ Len(Told) \in Nat
  BY ToldMoved, LenProperties DEF IInv, ControlledInv
<1> SUFFICES ASSUME NEW i \in 1..Len(Told) PROVE Told[i] # Refusal
  BY DEF Contains
<1>0. Refusal \notin {Thinking, IdDone, EnsuringSafety, SuperegoDone, Responding, Chunk, ErrorChunk}
  BY DEF Thinking, IdDone, EnsuringSafety, SuperegoDone, Responding, Refusal, Chunk, ErrorChunk
<1>2. CASE outcome # "none"
  <2>1. Told = << >>
    BY <1>2 DEF IInv, StreamInv
  <2> QED BY <2>1
<1>3. CASE outcome = "none" /\ i <= Len(Preamble) + 1
  <2> DEFINE open == Preamble \o <<Responding>>
  <2>1. open \in Seq(Events) /\ Len(open) = Len(Preamble) + 1 /\ IsPrefix(open, Told)
    BY <1>3, Opening DEF IInv, StreamInv, Opened
  <2>2. i \in 1..Len(open)
    BY <1>1, <1>3, <2>1, Opening
  <2>3. \A j \in 1..Len(open) : open[j] # Refusal
    <3>1. \A j \in 1..Len(Preamble) : Preamble[j] \in {Thinking, IdDone, EnsuringSafety, SuperegoDone}
      BY DEF Preamble
    <3>2. <<Responding>> \in Seq(Events) /\ Len(<<Responding>>) = 1 /\ <<Responding>>[1] = Responding
      BY EventSeqs DEF Events
    <3>3. \A j \in 1..(Len(Preamble) + 1) :
            open[j] = IF j <= Len(Preamble) THEN Preamble[j] ELSE <<Responding>>[j - Len(Preamble)]
      BY <3>2, EventSeqs, ConcatProperties
    <3> HIDE DEF open
    <3>4. ASSUME NEW j \in 1..Len(open) PROVE open[j] # Refusal
      <4>1. CASE j <= Len(Preamble)
        BY <1>0, <2>1, <3>1, <3>3, <4>1, Opening
      <4>2. CASE j = Len(Preamble) + 1
        BY <1>0, <2>1, <3>2, <3>3, <4>2, Opening
      <4> QED BY <2>1, <4>1, <4>2, Opening
    <3> QED BY <3>4
  <2> HIDE DEF open
  <2>4. Told[i] = open[i]
    BY <1>1, <2>1, <2>2, PrefixElement
  <2> QED BY <2>2, <2>3, <2>4
<1>4. CASE outcome = "none" /\ i > Len(Preamble) + 1
  <2>1. i \in (Len(Preamble) + 2)..Len(Told) /\ Len(Told) \in Nat /\ i \in Int
    BY <1>1, <1>4, Opening
  <2>2. Later = {} \/ (Told[Len(Told)] = ErrorChunk /\ Later = {Len(Told)})
    BY <1>4 DEF IInv, StreamInv
  <2>3. Told[i] = Chunk \/ Told[i] = ErrorChunk
    BY <2>1, <2>2 DEF Later
  <2> QED BY <1>0, <2>3
<1> QED BY <1>1, <1>2, <1>3, <1>4, Opening

GRTold ==
  IF caller = "gone" THEN "nobody"
  ELSE IF pc # "done" THEN "nothing"
  ELSE IF outcome = "blocked" \/ Contains(Told, Refusal) THEN "refusal" ELSE "answer"

\* A caller that stays is refused exactly when the Ego was not asked.
LEMMA ToldMeans ==
  IInv => GRTold = IF caller = "gone" THEN "nobody"
                   ELSE IF pc # "done" THEN "nothing"
                   ELSE IF ego_called THEN "answer" ELSE "refusal"
<1> SUFFICES ASSUME IInv, caller = "present", pc = "done"
             PROVE  (outcome = "blocked" \/ Contains(Told, Refusal)) <=> ~ ego_called
  BY DEF GRTold, IInv, ControlledInv, TypeOK
<1>1. CASE mode = "reply"
  <2>1. Told = << >>
    BY <1>1, EventSeqs, ConcatEmptySeq DEF IInv, ControlledInv, ControlInv, Told
  <2>2. ~ Contains(Told, Refusal)
    BY <2>1 DEF Contains
  <2> QED BY <1>1, <2>2 DEF IInv, ControlledInv, JudgedInv
<1>2. CASE mode = "stream"
  <2>1. CASE ego_called
    BY <1>2, <2>1, NotRefused DEF IInv, ControlledInv, JudgedInv
  <2>2. CASE ~ ego_called
    <3>1. Told = Preamble \o <<Refusal>>
      BY <1>2, <2>2 DEF IInv, StreamInv
    <3>2. <<Refusal>> \in Seq(Events) /\ Preamble \in Seq(Events) /\ Len(<<Refusal>>) = 1
            /\ <<Refusal>>[1] = Refusal
      BY EventSeqs DEF Events
    <3>3. Told[Len(Preamble) + 1] = Refusal
      BY <3>1, <3>2, Opening, ConcatProperties
    <3> QED BY <2>2, <3>1, <3>3, Opening DEF Contains
  <2> QED BY <2>1, <2>2
<1> QED BY <1>1, <1>2 DEF IInv, ControlledInv, ControlInv, Modes

GRVerdict ==
  IF tier = "none" THEN "none"
  ELSE IF tier = "skip" THEN "exempt"
  ELSE IF ~ Judged THEN "open"
  ELSE IF Blocks(text[Superego]) THEN "block" ELSE "pass"

GREgo == IF ego_called THEN "asked" ELSE "idle"

\* The steps of the gated reply, in the variables of the Psyche.
LEMMA Mapping ==
  /\ GR!Init <=> GRVerdict = "none" /\ GREgo = "idle" /\ GRTold = "nothing"
  /\ GR!Request <=> /\ GRVerdict = "none" /\ GRVerdict' \in {"open", "exempt"}
                    /\ GREgo' = GREgo /\ GRTold' = GRTold
  /\ GR!Judge <=> /\ GRVerdict = "open" /\ GRVerdict' \in {"pass", "block"}
                  /\ GREgo' = GREgo /\ GRTold' = GRTold
  /\ GR!AskEgo <=> /\ GRVerdict \in {"exempt", "pass"} /\ GREgo = "idle" /\ GREgo' = "asked"
                   /\ GRVerdict' = GRVerdict /\ GRTold' = GRTold
  /\ GR!Refuse <=> /\ GRVerdict = "block" /\ GRTold = "nothing" /\ GRTold' = "refusal"
                   /\ GRVerdict' = GRVerdict /\ GREgo' = GREgo
  /\ GR!Answer <=> /\ GREgo = "asked" /\ GRTold = "nothing" /\ GRTold' = "answer"
                   /\ GRVerdict' = GRVerdict /\ GREgo' = GREgo
  /\ GR!Leave <=> /\ GRVerdict # "none" /\ GRTold' = "nobody" /\ GREgo' = GREgo
                  /\ GRVerdict' \in IF GRVerdict = "open" THEN {"open", "pass"} ELSE {GRVerdict}
  /\ UNCHANGED GR!vars <=> UNCHANGED <<GRVerdict, GREgo, GRTold>>
BY Zenon DEF GR!Init, GR!Request, GR!Judge, GR!AskEgo, GR!Refuse, GR!Answer, GR!Leave, GR!vars,
             GRVerdict, GREgo, GRTold

\* The meaning of what is told, before and after a step.
LEMMA ToldSteps ==
  ASSUME IInv, [Next]_vars
  PROVE  /\ GRTold = IF caller = "gone" THEN "nobody" ELSE IF pc # "done" THEN "nothing"
                     ELSE IF ego_called THEN "answer" ELSE "refusal"
         /\ GRTold' = IF caller' = "gone" THEN "nobody" ELSE IF pc' # "done" THEN "nothing"
                      ELSE IF ego_called' THEN "answer" ELSE "refusal"
<1>1. IInv'
  BY TypeStep, CallStepInv, ControlStep, JudgedStep, StreamStep DEF IInv, ControlledInv
<1>2. (IInv => GRTold = IF caller = "gone" THEN "nobody"
                        ELSE IF pc # "done" THEN "nothing"
                        ELSE IF ego_called THEN "answer" ELSE "refusal")'
  BY ToldMeans, PTL
<1> QED BY <1>1, <1>2, ToldMeans

\* A verdict is given once, by the end of the Superego's call.
LEMMA VerdictSteps ==
  ASSUME IInv, [Next]_vars, pc # "idle"
  PROVE  /\ GRVerdict # "none"
         /\ GRVerdict' = GRVerdict \/ (GRVerdict = "open" /\ GRVerdict' \in {"pass", "block"})
<1>1. tier' = tier /\ tier # "none"
  BY Unchanged DEF IInv, ControlledInv, ControlInv, Next, Request, AgentStep, CopTimeout, Task, Ego,
     SendEvent, Consult, Settle, AskEgo, Close, EgoOk, EgoErr, EgoChunk, EgoEnds, Receive,
     DropReceiver, Abandon
<1>2. Judged => Judged' /\ text'[Superego] = text[Superego]
  BY VerdictStands DEF IInv, ControlledInv, Judged
<1>3. text'[Superego] = text[Superego] => (Blocks(text[Superego])' <=> Blocks(text[Superego]))
  BY DEF Blocks
<1> QED BY <1>1, <1>2, <1>3 DEF GRVerdict

\* A step that leaves the calls alone leaves the verdict.
LEMMA SameVerdict ==
  ASSUME UNCHANGED <<calls, tier>> PROVE GRVerdict' = GRVerdict
BY Unchanged DEF GRVerdict, Judged, Settled, Blocks

\* Every step of the Psyche is one of the gated reply, or none.
LEMMA GatedStep == IInv /\ [Next]_vars => [GR!Next]_(GR!vars)
<1> SUFFICES ASSUME IInv, [Next]_vars PROVE GR!Next \/ UNCHANGED GR!vars
  OBVIOUS
<1> USE Mapping, ToldSteps DEF GR!Next
<1>0. TypeOK /\ CallInv /\ ControlInv /\ JudgedInv
  BY DEF IInv, ControlledInv
<1>1. ASSUME NEW m \in Messages, NEW md \in Modes, Request(m, md) PROVE GR!Request
  <2>1. /\ GRVerdict = "none" /\ tier' \in {"skip", "light", "full"}
        /\ pc = "idle" /\ pc' # "done" /\ caller' = "present" /\ caller = "present"
        /\ UNCHANGED ego_called
    BY <1>0, <1>1, Tiers DEF Request, ControlInv, Fresh, GRVerdict
  <2>2. ~ Judged'
    <3>1. Superego \in Agents /\ phase[Superego] = "idle"
      BY <1>0, <2>1, ConstantsAssumption DEF CallInv
    <3> QED BY <1>1, <3>1, Unchanged DEF Request, StartCalls, Judged, Settled
  <2>3. GRVerdict' \in {"open", "exempt"}
    BY <2>1, <2>2 DEF GRVerdict
  <2> QED BY <2>1, <2>3 DEF GREgo
<1>2. ASSUME NEW a \in Agents, AgentStep(a) \/ CopTimeout(a) PROVE GR!Judge \/ UNCHANGED GR!vars
  <2>1. UNCHANGED <<mode, tier, pc, caller, ego_called>>
    BY <1>2, Unchanged DEF AgentStep, CopTimeout
  <2>2. pc # "idle"
    BY <1>0, <1>2 DEF AgentStep, CallStep, Respond, Fail, Resend, InFlight, CopTimeout, CallInv
  <2> QED BY <2>1, <2>2, VerdictSteps DEF GREgo
<1>3. CASE SendEvent \/ EgoChunk \/ EgoEnds \/ Receive \/ UNCHANGED vars
  <2>1. GRVerdict' = GRVerdict
    BY <1>3, SameVerdict, Unchanged DEF SendEvent, EgoChunk, EgoEnds, Receive
  <2>2. UNCHANGED <<caller, ego_called>> /\ (pc' = "done" <=> pc = "done")
    BY <1>0, <1>3, Unchanged DEF SendEvent, EgoChunk, EgoEnds, Receive, ControlInv
  <2> QED BY <2>1, <2>2 DEF GREgo
<1>4. CASE Consult
  <2>1. Superego \in Agents /\ phase[Superego] = "idle" /\ phase'[Superego] = "first"
          /\ tier' = tier
    BY <1>0, <1>4, ConstantsAssumption DEF Consult, CallInv, StartCalls
  <2>2. GRVerdict' = GRVerdict
    BY <2>1 DEF GRVerdict, Judged, Settled
  <2> QED BY <1>4, <2>2 DEF Consult, GREgo
<1>5. CASE Settle
  <2>1. GRVerdict' = GRVerdict /\ UNCHANGED <<caller, ego_called>> /\ ~ ego_called /\ pc # "done"
    BY <1>0, <1>5, SameVerdict DEF Settle, ControlInv
  <2>2. CASE pc' = "done"
    <3>1. Blocks(text[Superego]) /\ mode = "reply"
      BY <1>0, <1>5, <2>2, OutputIsText DEF Settle, Onward
    <3>2. Judged /\ tier \notin {"none", "skip"} /\ caller = "present"
      BY <1>0, <1>5, <3>1, ConstantsAssumption
         DEF Settle, AllSettled, Judged, ControlInv, Holding, TypeOK
    <3>3. GRVerdict = "block"
      BY <3>1, <3>2 DEF GRVerdict
    <3>4. GR!Refuse
      BY <2>1, <2>2, <3>2, <3>3 DEF GREgo
    <3> QED BY <3>4
  <2>3. CASE pc' # "done"
    BY <2>1, <2>3 DEF GREgo
  <2> QED BY <2>2, <2>3
<1>6. CASE AskEgo
  <2>1. GRVerdict' = GRVerdict /\ GRVerdict \in {"exempt", "pass"}
    BY <1>0, <1>6, SameVerdict DEF AskEgo, ControlInv, JudgedInv, GRVerdict, Judged
  <2> QED BY <1>0, <1>6, <2>1 DEF AskEgo, ControlInv, GREgo
<1>7. CASE EgoOk \/ EgoErr
  <2>1. GRVerdict' = GRVerdict
    BY <1>7, SameVerdict DEF EgoOk, EgoErr
  <2>2. ego_called /\ pc # "done" /\ UNCHANGED <<caller, ego_called>>
    BY <1>0, <1>7 DEF EgoOk, EgoErr, ControlInv
  <2> QED BY <2>1, <2>2 DEF GREgo
<1>8. CASE Close
  <2>1. GRVerdict' = GRVerdict /\ UNCHANGED <<caller, ego_called>> /\ pc = "closing" /\ pc' = "done"
    BY <1>8, SameVerdict DEF Close
  <2>2. caller = "present" /\ ~ ego_called => GRVerdict = "block"
    BY <1>0, <2>1 DEF ControlInv, JudgedInv, GRVerdict, Judged
  <2> QED BY <1>0, <2>1, <2>2 DEF GREgo, TypeOK
<1>9. CASE DropReceiver \/ Abandon
  <2>1. caller' = "gone" /\ pc # "idle" /\ UNCHANGED ego_called
    BY <1>0, <1>9 DEF DropReceiver, Abandon, Holding, ControlInv, Fresh
  <2>2. GRVerdict' \in IF GRVerdict = "open" THEN {"open", "pass"} ELSE {GRVerdict}
    <3>1. CASE DropReceiver
      BY <3>1, SameVerdict DEF DropReceiver
    <3>2. CASE Abandon /\ GRVerdict = "open"
      <4>1. UNCHANGED <<tier, text>> /\ ~ Judged /\ tier \notin {"none", "skip"}
        BY <3>2 DEF Abandon, GRVerdict
      <4>2. text'[Superego] = ""
        BY <1>0, <4>1, ConstantsAssumption DEF CallInv, Judged, Settled
      <4>3. ~ Blocks(text[Superego])'
        BY <4>2 DEF Blocks, ReasonedBlock, MentionsBlock, VerdictBlock, BareVerdictBlock
      <4> QED BY <3>2, <4>1, <4>3 DEF GRVerdict
    <3>3. CASE Abandon /\ GRVerdict # "open"
      BY <2>1, <3>3, VerdictSteps
    <3> QED BY <1>9, <3>1, <3>2, <3>3
  <2>3. GRVerdict # "none"
    BY <2>1, VerdictSteps
  <2> QED BY <2>1, <2>2, <2>3 DEF GREgo
<1> QED BY <1>1, <1>2, <1>3, <1>4, <1>5, <1>6, <1>7, <1>8, <1>9 DEF Next, Task, Ego

\* Both entry points keep the one promise, step by step: the Ego is asked after the
\* verdict and never after a block, and a caller that stays is told a refusal exactly
\* then (the safety of ImplementsGatedReply).
THEOREM Gated == Spec => GR!Init /\ [][GR!Next]_(GR!vars)
<1>1. Init => GR!Init
  BY Mapping DEF Init, GRVerdict, GREgo, GRTold
<1>2. IInv /\ [Next]_vars => [GR!Next]_(GR!vars)
  BY GatedStep
<1> QED BY <1>1, <1>2, Invariant, PTL DEF Spec
================================================================================
