------------------------------ MODULE ShadowEngine ------------------------------
(***************************************************************************)
(* The Shadow: analyze_async takes an answer of the Ego, returns a channel *)
(* at once and spawns a task that runs three stages over the answer,       *)
(* streams what they find, stores one report and says Done.  Tasks share   *)
(* the report store and nothing else; each runs under the configuration    *)
(* the engine had when its answer was submitted.                           *)
(*                                                                         *)
(* A task is its program counter pc and its outbox: the events it is going *)
(* to send, one await each, before it moves on.  A send waits while the    *)
(* channel is full and is discarded once the receiver is gone.             *)
(***************************************************************************)
EXTENDS Naturals, Sequences, FiniteSets, SequencesExt, FiniteSetsExt

CONSTANTS
  Sessions,      (* submissions, one task each                             *)
  Configs,       (* configurations the engine can be given                 *)
  Capacity,      (* mpsc::channel(32)                                      *)
  MaxReports,    (* MAX_REPORTS = 100                                      *)
  Results        (* Results[st]: the finding lists stage st may return     *)

Stages == {"static", "llm", "sandbox"}

\* The stages whose analyze can return Err: the static analyzer and the
\* sandbox return Ok on every path.
Fallible == {"llm"}

\* A finding is the key it is deduplicated by (category, title, evidence) and
\* its severity, 0 (Info) to 4 (Critical).
Finding == [key : Nat, severity : 0..4]

ASSUME ConstantsAssumption ==
  /\ Capacity \in Nat \ {0}
  /\ MaxReports \in Nat \ {0}
  /\ Results \in [Stages -> SUBSET Seq(Finding)]
  /\ Configs \subseteq [enabled : BOOLEAN, aggressiveness : Nat,
                        llm_review_enabled : BOOLEAN, sandbox_enabled : BOOLEAN]

VARIABLES
  config,        (* the engine's configuration                             *)
  snapshot,      (* snapshot[s]: its clone taken by analyze_async          *)
  pc,            (* where the task of s is                                 *)
  outbox,        (* events the task still has to send before it moves on   *)
  channel,       (* events sent and not yet received                       *)
  receiver,      (* "open" or "dropped"                                    *)
  received,      (* ghost: what a receiver still held has taken out        *)
  all_findings,  (* the findings accumulated by the task                   *)
  ran,           (* the stages whose *_run flag the task has set           *)
  reports,       (* the shared report store                                *)
  stored         (* ghost: every report ever pushed                        *)

task == <<snapshot, pc, outbox, all_findings, ran>>
stream == <<channel, receiver, received>>
store == <<reports, stored>>
vars == <<config, task, stream, store>>

PCs ==
  {"idle", "static", "llm", "sandbox", "report", "closing", "ended", "died", "refused"}

NextStage == [static |-> "llm", llm |-> "sandbox", sandbox |-> "report"]

Init ==
  /\ config \in Configs
  /\ snapshot = [s \in Sessions |-> config]
  /\ pc = [s \in Sessions |-> "idle"]
  /\ outbox = [s \in Sessions |-> << >>]
  /\ channel = [s \in Sessions |-> << >>]
  /\ receiver = [s \in Sessions |-> "open"]
  /\ received = [s \in Sessions |-> << >>]
  /\ all_findings = [s \in Sessions |-> << >>]
  /\ ran = [s \in Sessions |-> {}]
  /\ reports = << >>
  /\ stored = << >>

--------------------------------------------------------------------------------
(* The engine                                                              *)

Event(type) == [type |-> type]
FindingEvent(f) == [type |-> "Finding", finding |-> f]
AnalyzerError(st) == [type |-> "AnalyzerError", analyzer |-> st]
DoneEvent(r) == [type |-> "Done", report |-> r]

\* analyze_async: a disabled engine returns a channel that is already closed.
Submit(s) ==
  /\ pc[s] = "idle"
  /\ IF config.enabled
       THEN /\ pc' = [pc EXCEPT ![s] = "static"]
            /\ snapshot' = [snapshot EXCEPT ![s] = config]
            /\ outbox' = [outbox EXCEPT ![s] = <<Event("Started")>>]
       ELSE /\ pc' = [pc EXCEPT ![s] = "refused"]
            /\ UNCHANGED <<snapshot, outbox>>
  /\ UNCHANGED <<config, all_findings, ran, stream, store>>

\* reload_config needs the engine exclusively; the tasks keep their clones.
Reload(c) ==
  /\ config' = c
  /\ UNCHANGED <<task, stream, store>>

--------------------------------------------------------------------------------
(* The task                                                                *)

\* Mutant of Send: the task gives up when nobody listens any more.
SendOrQuit(s) ==
  /\ outbox[s] # << >>
  /\ \/ /\ receiver[s] = "open"
        /\ Len(channel[s]) < Capacity
        /\ channel' = [channel EXCEPT ![s] = Append(@, Head(outbox[s]))]
        /\ outbox' = [outbox EXCEPT ![s] = Tail(@)]
        /\ UNCHANGED pc
     \/ /\ receiver[s] = "dropped"
        /\ outbox' = [outbox EXCEPT ![s] = << >>]
        /\ pc' = [pc EXCEPT ![s] = "ended"]
        /\ UNCHANGED channel
  /\ UNCHANGED <<config, snapshot, all_findings, ran, receiver, received, store>>

\* let _ = tx.send(event).await
Send(s) ==
  /\ outbox[s] # << >>
  /\ \/ /\ receiver[s] = "open"
        /\ Len(channel[s]) < Capacity
        /\ channel' = [channel EXCEPT ![s] = Append(@, Head(outbox[s]))]
     \/ /\ receiver[s] = "dropped"
        /\ UNCHANGED channel
  /\ outbox' = [outbox EXCEPT ![s] = Tail(@)]
  /\ UNCHANGED <<config, snapshot, pc, all_findings, ran, receiver, received, store>>

Allows(c, st) ==
  CASE st = "static"  -> c.aggressiveness >= 1
    [] st = "llm"     -> c.aggressiveness >= 2 /\ c.llm_review_enabled
    [] st = "sandbox" -> c.aggressiveness >= 3 /\ c.sandbox_enabled

Wanted(s, st) == Allows(snapshot[s], st)

AtStage(s, st) == pc[s] = st /\ outbox[s] = << >>

\* The configuration leaves the stage out, or the stage is not available: the
\* model is not pulled, no container runtime, no code block long enough.
StageSkip(s, st) ==
  /\ AtStage(s, st)
  /\ ~ Wanted(s, st) \/ st # "static"
  /\ pc' = [pc EXCEPT ![s] = NextStage[st]]
  /\ UNCHANGED <<config, snapshot, outbox, all_findings, ran, stream, store>>

StageOk(s, st) ==
  /\ AtStage(s, st)
  /\ Wanted(s, st)
  /\ \E findings \in Results[st] :
       /\ outbox' = [outbox EXCEPT ![s] =
                       [i \in DOMAIN findings |-> FindingEvent(findings[i])]]
       /\ all_findings' = [all_findings EXCEPT ![s] = @ \o findings]
  /\ ran' = [ran EXCEPT ![s] = @ \cup {st}]
  /\ pc' = [pc EXCEPT ![s] = NextStage[st]]
  /\ UNCHANGED <<config, snapshot, stream, store>>

\* Mutant of StageErr: an analyzer's error is returned from the task.
StageErrFatal(s, st) ==
  /\ AtStage(s, st)
  /\ Wanted(s, st)
  /\ st \in Fallible
  /\ pc' = [pc EXCEPT ![s] = "ended"]
  /\ UNCHANGED <<config, snapshot, outbox, all_findings, ran, stream, store>>

StageErr(s, st) ==
  /\ AtStage(s, st)
  /\ Wanted(s, st)
  /\ st \in Fallible
  /\ outbox' = [outbox EXCEPT ![s] = <<AnalyzerError(st)>>]
  /\ pc' = [pc EXCEPT ![s] = NextStage[st]]
  /\ UNCHANGED <<config, snapshot, all_findings, ran, stream, store>>

\* A stage cuts a piece of evidence at a byte offset: inside a character the slice
\* panics.  The spawned task dies, with its sender and what it has found.
StagePanic(s, st) ==
  /\ AtStage(s, st)
  /\ Wanted(s, st)
  /\ all_findings' = [all_findings EXCEPT ![s] = << >>]
  /\ pc' = [pc EXCEPT ![s] = "died"]
  /\ UNCHANGED <<config, snapshot, outbox, ran, stream, store>>

\* Mutant of Deduplicated: later findings of a severity already seen go too.
DeduplicatedBySeverity(findings) ==
  {findings[i] : i \in {j \in DOMAIN findings :
     \A k \in 1..(j - 1) : findings[k].severity # findings[j].severity}}

\* dedup_findings: a stable sort by key, then of each run of equal keys the
\* first, which is the one the earliest stage found.  The order that is left
\* is the order of the keys, so the list is the set of what it holds.
Deduplicated(findings) ==
  {findings[i] : i \in {j \in DOMAIN findings :
     \A k \in 1..(j - 1) : findings[k].key # findings[j].key}}

Severest(findings) == Max({f.severity : f \in findings} \cup {0})

ReportOf(s) ==
  LET findings == Deduplicated(all_findings[s])
  IN  [session |-> s, findings |-> findings, max_severity |-> Severest(findings),
       ran |-> ran[s], clean |-> findings = {}]

Pushed(r) == Append(IF Len(reports) >= MaxReports THEN Tail(reports) ELSE reports, r)

\* Mutant of StoreReport: Done is announced before the store is written.
AnnounceBeforeStore(s) ==
  LET r == ReportOf(s) IN
  /\ \/ /\ pc[s] = "report" /\ outbox[s] = << >>
        /\ outbox' = [outbox EXCEPT ![s] = <<DoneEvent(r)>>]
        /\ pc' = [pc EXCEPT ![s] = "closing"]
        /\ UNCHANGED <<reports, stored>>
     \/ /\ pc[s] = "closing" /\ outbox[s] = << >>
        /\ r \notin ToSet(stored)
        /\ reports' = Pushed(r)
        /\ stored' = Append(stored, r)
        /\ UNCHANGED <<outbox, pc>>
  /\ UNCHANGED <<config, snapshot, all_findings, ran, stream>>

\* The report is built, pushed under the write lock, and only then announced.
StoreReport(s) ==
  LET r == ReportOf(s) IN
  /\ pc[s] = "report"
  /\ outbox[s] = << >>
  /\ reports' = Pushed(r)
  /\ stored' = Append(stored, r)
  /\ outbox' = [outbox EXCEPT ![s] = <<DoneEvent(r)>>]
  /\ all_findings' = [all_findings EXCEPT ![s] = << >>]  \* moved into the report
  /\ pc' = [pc EXCEPT ![s] = "closing"]
  /\ UNCHANGED <<config, snapshot, ran, stream>>

\* The task ends and its sender is dropped: the channel is closed.
End(s) ==
  /\ pc[s] = "closing"
  /\ outbox[s] = << >>
  /\ pc' = [pc EXCEPT ![s] = "ended"]
  /\ UNCHANGED <<config, snapshot, outbox, all_findings, ran, stream, store>>

TaskStep(s) ==
  \/ Send(s)
  \/ \E st \in Stages :
       StageSkip(s, st) \/ StageOk(s, st) \/ StageErr(s, st) \/ StagePanic(s, st)
  \/ StoreReport(s)
  \/ End(s)

--------------------------------------------------------------------------------
(* The caller                                                              *)

Receive(s) ==
  /\ receiver[s] = "open"
  /\ channel[s] # << >>
  /\ received' = [received EXCEPT ![s] = Append(@, Head(channel[s]))]
  /\ channel' = [channel EXCEPT ![s] = Tail(@)]
  /\ UNCHANGED <<config, task, receiver, store>>

DropReceiver(s) ==
  /\ pc[s] # "idle"
  /\ receiver[s] = "open"
  /\ receiver' = [receiver EXCEPT ![s] = "dropped"]
  /\ channel' = [channel EXCEPT ![s] = << >>]
  /\ received' = [received EXCEPT ![s] = << >>]
  /\ UNCHANGED <<config, task, store>>

Next ==
  \/ \E s \in Sessions : Submit(s) \/ TaskStep(s) \/ Receive(s) \/ DropReceiver(s)
  \/ \E c \in Configs : Reload(c)

\* The task asks the container runtime, which is awaited without a timeout: whether
\* there is one ("docker info"), and to remove each container ("rm -f").
AwaitsRuntime(s) == AtStage(s, "sandbox") /\ Wanted(s, "sandbox")

\* The executor keeps polling a task that can run, the reviewer's server is given
\* up after the client's timeout, and a caller that holds on to its receiver keeps
\* receiving; nothing makes it let go, and nothing makes a container runtime answer.
Fairness ==
  \A s \in Sessions :
    WF_vars(~ AwaitsRuntime(s) /\ TaskStep(s)) /\ WF_vars(Receive(s))

Spec == Init /\ [][Next]_vars /\ Fairness

--------------------------------------------------------------------------------
(* Properties                                                              *)

Reports == [session : Sessions, findings : SUBSET Finding, max_severity : 0..4,
            ran : SUBSET Stages, clean : BOOLEAN]

Events ==
  {Event("Started")} \cup {FindingEvent(f) : f \in Finding}
    \cup {AnalyzerError(st) : st \in Stages} \cup {DoneEvent(r) : r \in Reports}

\* Events, reports and store keep their types, and channel and store their
\* capacities.
TypeOK ==
  /\ config \in Configs
  /\ snapshot \in [Sessions -> Configs]
  /\ pc \in [Sessions -> PCs]
  /\ receiver \in [Sessions -> {"open", "dropped"}]
  /\ all_findings \in [Sessions -> Seq(Finding)]
  /\ ran \in [Sessions -> SUBSET Stages]
  /\ \A s \in Sessions : Len(channel[s]) <= Capacity
  /\ reports \in Seq(Reports) /\ Len(reports) <= MaxReports
  /\ stored \in Seq(Reports)

\* Everything the caller of s is going to see, as far as it is decided.
Emitted(s) == received[s] \o channel[s] \o outbox[s]

KeysStreamed(s) ==
  {e.finding.key : e \in {x \in ToSet(Emitted(s)) : x.type = "Finding"}}

\* However slowly the caller drains the channel, once the report of a session
\* is stored the events it gets start with Started, end with the one Done, and
\* the findings streamed one by one are those of the report: nothing is shown
\* that the report lacks, nothing is in the report that was not shown.
StreamTellsReport ==
  \A s \in Sessions :
    pc[s] \in {"closing", "ended"} /\ receiver[s] = "open" =>
      LET events == Emitted(s)
          dones == {i \in DOMAIN events : events[i].type = "Done"}
      IN  /\ Head(events).type = "Started"
          /\ dones = {Len(events)}
          /\ KeysStreamed(s) = {f.key : f \in Last(events).report.findings}

\* A caller that has seen Done finds the report in the store, unless enough
\* later reports have pushed it out.
DoneMeansStored ==
  \A s \in Sessions : \A e \in ToSet(channel[s]) \cup ToSet(received[s]) :
    e.type = "Done" =>
      \E i \in DOMAIN stored :
        /\ stored[i] = e.report
        /\ Len(stored) - i < MaxReports => e.report \in ToSet(reports)

Accepted == {s \in Sessions : pc[s] \notin {"idle", "refused"}}
Published == {stored[i].session : i \in DOMAIN stored}
Shown == [i \in DOMAIN reports |-> reports[i].session]
Lost == {s \in Sessions : pc[s] = "died"}
Held == {s \in Sessions : AwaitsRuntime(s)}

RL == INSTANCE ReportLog WITH
  accepted <- Accepted, published <- Published, shown <- Shown, lost <- Lost, held <- Held

\* Across any interleaving of tasks, store evictions and callers that leave,
\* an accepted submission is reported on at most once, the store shows the
\* latest, and only a stage that panics or a container runtime that never answers
\* keeps a submission from being reported on.
ImplementsReportLog == RL!Spec

\* A caller that does not leave is told Done, unless a stage of its task panics
\* or the container runtime never answers it.
DoneDelivered ==
  \A s \in Sessions :
    []<>(~ AwaitsRuntime(s)) =>
      (pc[s] = "static" ~>
         \/ receiver[s] = "dropped"
         \/ pc[s] = "died"
         \/ \E e \in ToSet(received[s]) : e.type = "Done")
================================================================================
