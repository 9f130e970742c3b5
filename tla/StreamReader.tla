------------------------------ MODULE StreamReader ------------------------------
(***************************************************************************)
(* complete_streaming of the three backends: the server's body comes in    *)
(* chunks that end anywhere; a spawned task decodes each chunk, gathers    *)
(* what it decoded into lines, and sends the text of each line that has    *)
(* one through a bounded channel.  The OpenAI and Anthropic readers take   *)
(* server-sent events and decode a chunk strictly; the Ollama reader takes *)
(* one JSON object per line and decodes with replacement.                  *)
(*                                                                         *)
(* A body is a sequence of bytes, of which only these are told apart:      *)
(*   "open"        everything of an event up to its text                   *)
(*   "a", "b"      one-byte characters of a text                           *)
(*   "u1", "u2"    the bytes of one two-byte character                     *)
(*   "close"       the rest of the event                                   *)
(*   "last"        the same, with Ollama's done flag                       *)
(*   "done"        the data [DONE]                                         *)
(*   "other"       a comment, an event without text                        *)
(*   "nl"          the end of a line                                       *)
(***************************************************************************)
EXTENDS Naturals, Sequences, FiniteSets, SequencesExt

CONSTANTS
  Bodies,        (* Bodies[b]: the bodies backend b may be served          *)
  Capacity,      (* mpsc::channel(64)                                      *)
  MaxChunk       (* bound on the bytes that come at once                   *)

Backends == {"openai", "anthropic", "ollama"}
Byte == {"open", "a", "b", "u1", "u2", "close", "last", "done", "other", "nl"}

\* What a decoded buffer holds: "u" is the two-byte character, "r" U+FFFD.
TextChar == {"a", "b", "u", "r"}
Char == TextChar \cup {"open", "close", "last", "done", "other", "nl"}

ASSUME ConstantsAssumption ==
  /\ Bodies \in [Backends -> SUBSET Seq(Byte)]
  /\ {Capacity, MaxChunk} \subseteq Nat \ {0}

VARIABLES
  backend,       (* whose complete_streaming it is                         *)
  body,          (* what the server serves                                 *)
  served,        (* ghost: the texts in it                                 *)
  rest,          (* the part of it that has not come yet                   *)
  pc,            (* where the call, then the task, is                      *)
  buffer,        (* decoded and not yet taken apart                        *)
  pending,       (* the text being sent, while pc = "sending"              *)
  stop,          (* the line it came from was the last                     *)
  channel,       (* texts sent and not yet received                        *)
  receiver,      (* "open" or "dropped"                                    *)
  received,      (* ghost: what the receiver has taken out                 *)
  split          (* ghost: a chunk has ended inside a character            *)

source == <<backend, body, served>>
reader == <<pc, buffer, pending, stop>>
output == <<channel, receiver, received>>
vars == <<source, rest, reader, output, split>>

--------------------------------------------------------------------------------
(* Decoding                                                                *)

Paired(bytes, i) ==
  \/ bytes[i] = "u1" /\ i < Len(bytes) /\ bytes[i + 1] = "u2"
  \/ bytes[i] = "u2" /\ i > 1 /\ bytes[i - 1] = "u1"

CharAt(bytes, i) ==
  CASE bytes[i] \notin {"u1", "u2"} -> <<bytes[i]>>
    [] bytes[i] = "u2" /\ Paired(bytes, i) -> << >>
    [] bytes[i] = "u1" /\ Paired(bytes, i) -> <<"u">>
    [] OTHER -> <<"r">>

\* String::from_utf8_lossy
Lossy(bytes) == FlattenSeq([i \in DOMAIN bytes |-> CharAt(bytes, i)])

Utf8(bytes) == \A i \in DOMAIN bytes : bytes[i] \in {"u1", "u2"} => Paired(bytes, i)

\* String::from_utf8, where a chunk that is not UTF-8 is left out.
Strict(bytes) == IF Utf8(bytes) THEN Lossy(bytes) ELSE << >>

Decoded(bytes) == IF backend = "ollama" THEN Lossy(bytes) ELSE Strict(bytes)

--------------------------------------------------------------------------------
(* Lines                                                                   *)

Nothing == [text |-> << >>, last |-> FALSE]

\* A line parses when it is an event from end to end.
IsEvent(line) ==
  /\ Len(line) >= 2
  /\ line[1] = "open" /\ line[Len(line)] \in {"close", "last"}
  /\ \A i \in 2..(Len(line) - 1) : line[i] \in TextChar

TextOf(line) == SubSeq(line, 2, Len(line) - 1)

\* A data line of server-sent events: [DONE] ends, a delta has text, all else
\* is skipped.
SseEvent(line) ==
  IF line = <<"done">> THEN [text |-> << >>, last |-> TRUE]
  ELSE IF IsEvent(line) THEN [text |-> TextOf(line), last |-> FALSE]
  ELSE Nothing

\* A line of Ollama's: the text is sent, then the done flag ends.
OllamaObject(line) ==
  IF IsEvent(line) THEN [text |-> TextOf(line), last |-> Last(line) = "last"]
  ELSE Nothing

EventOf(who, line) == IF who = "ollama" THEN OllamaObject(line) ELSE SseEvent(line)

--------------------------------------------------------------------------------
(* What the server serves, read whole                                      *)

\* One more character: a line grows, or ends and tells its text, up to the one that
\* ends the body.
ReadChar(who, st, c) ==
  LET event == EventOf(who, st.line) IN
  CASE st.stop -> st
    [] ~ st.stop /\ c = "nl" ->
         [line |-> << >>, stop |-> event.last,
          texts |-> IF event.text = << >> THEN st.texts ELSE Append(st.texts, event.text)]
    [] OTHER -> [st EXCEPT !.line = Append(@, c)]

\* The texts of the lines of the body, one after the other.
Served(who, bytes) ==
  FoldLeft(LAMBDA st, c : ReadChar(who, st, c),
           [line |-> << >>, texts |-> << >>, stop |-> FALSE], Lossy(bytes)).texts

Init ==
  /\ backend \in Backends
  /\ body \in Bodies[backend]
  /\ rest = body
  /\ served = Served(backend, body)
  /\ pc = "requesting"
  /\ buffer = << >> /\ pending = << >> /\ stop = FALSE
  /\ channel = << >> /\ receiver = "open" /\ received = << >>
  /\ split = FALSE

--------------------------------------------------------------------------------
(* The call and its task                                                   *)

\* The server answers with a success: the receiver is returned.
Respond ==
  /\ pc = "requesting"
  /\ pc' = "reading"
  /\ UNCHANGED <<source, rest, buffer, pending, stop, output, split>>

\* The server is not reached or answers with an error status: Err is returned.
Refuse ==
  /\ pc = "requesting"
  /\ pc' = "refused"
  /\ UNCHANGED <<source, rest, buffer, pending, stop, output, split>>

HasLine == Contains(buffer, "nl")
LineEnd == CHOOSE i \in DOMAIN buffer :
             buffer[i] = "nl" /\ \A j \in 1..(i - 1) : buffer[j] # "nl"
Line == SubSeq(buffer, 1, LineEnd - 1)

\* Mutant of AfterLine: what came behind the line goes with it.
AfterLineDropped == << >>

AfterLine == SubSeq(buffer, LineEnd + 1, Len(buffer))

Chunk(n) == SubSeq(rest, 1, n)

Read(n) ==
  /\ pc = "reading" /\ ~ HasLine
  /\ n <= Len(rest)
  /\ buffer' = buffer \o Decoded(Chunk(n))
  /\ rest' = SubSeq(rest, n + 1, Len(rest))
  /\ split' = (split \/ ~ Utf8(Chunk(n)))
  /\ UNCHANGED <<source, pc, pending, stop, output>>

\* The body is over, or the connection failed or ran out of time: either way
\* the task just ends, and with it the channel.
EndOfStream ==
  /\ pc = "reading" /\ ~ HasLine
  /\ pc' = "ended"
  /\ UNCHANGED <<source, rest, buffer, pending, stop, output, split>>

TakeLine ==
  LET event == EventOf(backend, Line) IN
  /\ pc = "reading" /\ HasLine
  /\ buffer' = AfterLine
  /\ pending' = event.text
  /\ stop' = event.last
  /\ pc' = IF event.text # << >> THEN "sending"
           ELSE IF event.last THEN "ended" ELSE "reading"
  /\ UNCHANGED <<source, rest, output, split>>

HasRoom == Len(channel) < Capacity

\* Mutant of SendText: a text waits until the receiver is gone or has room, and
\* nothing notices that it is gone.
SendTextBlindly ==
  /\ pc = "sending"
  /\ receiver = "open" /\ HasRoom
  /\ channel' = Append(channel, pending)
  /\ pc' = IF stop THEN "ended" ELSE "reading"
  /\ pending' = << >>
  /\ UNCHANGED <<source, rest, buffer, stop, receiver, received, split>>

SendText ==
  /\ pc = "sending"
  /\ \/ /\ receiver = "open" /\ HasRoom
        /\ channel' = Append(channel, pending)
        /\ pc' = IF stop THEN "ended" ELSE "reading"
     \/ /\ receiver = "dropped"
        /\ pc' = "ended"
        /\ UNCHANGED channel
  /\ pending' = << >>
  /\ UNCHANGED <<source, rest, buffer, stop, receiver, received, split>>

Task == SendText \/ TakeLine

Network == Respond \/ Refuse \/ EndOfStream \/ \E n \in 1..MaxChunk : Read(n)

--------------------------------------------------------------------------------
(* The caller                                                              *)

Returned == pc \notin {"requesting", "refused"}

Receive ==
  /\ Returned /\ receiver = "open"
  /\ channel # << >>
  /\ received' = Append(received, Head(channel))
  /\ channel' = Tail(channel)
  /\ UNCHANGED <<source, rest, reader, receiver, split>>

Drop ==
  /\ Returned /\ receiver = "open"
  /\ receiver' = "dropped"
  /\ channel' = << >>
  /\ UNCHANGED <<source, rest, reader, received, split>>

Next == Task \/ Network \/ Receive \/ Drop

\* The runtime polls the task; the HTTP client's timeout ends every body; a
\* caller that keeps its receiver keeps receiving.
Fairness == WF_vars(Task) /\ WF_vars(Network) /\ WF_vars(Receive)

Spec == Init /\ [][Next]_vars /\ Fairness

--------------------------------------------------------------------------------
(* Properties                                                              *)

\* Every variable has its type and the channel its capacity.
TypeOK ==
  /\ backend \in Backends
  /\ body \in Bodies[backend] /\ rest \in Seq(Byte)
  /\ served \in Seq(Seq(TextChar))
  /\ pc \in {"requesting", "refused", "reading", "sending", "ended"}
  /\ buffer \in Seq(Char)
  /\ pending \in Seq(TextChar) /\ stop \in BOOLEAN
  /\ channel \in Seq(Seq(TextChar)) /\ Len(channel) <= Capacity
  /\ receiver \in {"open", "dropped"}
  /\ received \in Seq(Seq(TextChar))
  /\ split \in BOOLEAN

Told == received \o channel \o (IF pc = "sending" THEN <<pending>> ELSE << >>)

\* Texts without what decoding may have replaced.
LettersOf(text) ==
  FlattenSeq([i \in DOMAIN text |-> IF text[i] \in {"a", "b"} THEN <<text[i]>> ELSE << >>])
Letters(texts) == [i \in DOMAIN texts |-> LettersOf(texts[i])]

\* However the body is cut into chunks and however slowly the texts are
\* received, they are the texts served, in order and none after the end mark,
\* as long as no chunk ends inside a character; Ollama's lose no more than the
\* characters that were cut.  A receiver whose channel closes after the whole body
\* came has been told every text of a complete line.
ToldIsServed ==
  receiver = "open" =>
    /\ ~ split => IsPrefix(Told, served)
    /\ backend = "ollama" => IsPrefix(Letters(Told), Letters(served))
    /\ pc = "ended" /\ rest = << >> =>
         /\ ~ split => Told = served
         /\ backend = "ollama" => Letters(Told) = Letters(served)

\* The task of every call that was answered ends, also when the receiver is
\* dropped while a text waits for room.
Ends == pc = "reading" ~> pc = "ended"

\* laminae-openai/src/lib.rs:647 says that the receiver "yields text chunks as
\* they arrive": whatever the chunks, what it yields is what the server served.
YieldsWhatArrives ==
  receiver = "open" /\ backend = "openai" => IsPrefix(Told, served)
================================================================================
