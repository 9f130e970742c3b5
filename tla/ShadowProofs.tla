----------------------------- MODULE ShadowProofs -----------------------------
(* The Shadow, for every number of submissions, every configuration, every     *)
(* capacity of channel and store: first its tasks, their channels and the      *)
(* report store, whatever the stages return; then what the stages return, for  *)
(* every set of outputs, every relation of lines to rules and every answer of  *)
(* the reviewer.                                                               *)
EXTENDS ShadowEngine, ShadowAnalysis, SequenceLemmas, FiniteSetTheorems

--------------------------------------------------------------------------------
(* The engine                                                              *)

\* The sequences of events hold events.
StreamTypeOK ==
  /\ outbox \in [Sessions -> Seq(Events)]
  /\ channel \in [Sessions -> Seq(Events)]
  /\ received \in [Sessions -> Seq(Events)]

\* The store is the end of all that was ever pushed: nothing of it is lost before
\* it has MaxReports successors.
StoreInv ==
  /\ Len(reports) = IF Len(stored) < MaxReports THEN Len(stored) ELSE MaxReports
  /\ \A i \in 1..Len(reports) : reports[i] = stored[Len(stored) - Len(reports) + i]

\* A session is reported on by a task that is past StoreReport.
ReporterInv ==
  \A i \in DOMAIN stored : pc[stored[i].session] \in {"closing", "ended"}

Filed(r) == \E i \in DOMAIN stored : stored[i] = r

\* Every Done in these events is about a report that was pushed.
Backed(events) ==
  \A k \in DOMAIN events : events[k].type = "Done" => Filed(events[k].report)

\* On its way to the caller too: in the outbox, in the channel, and received.
BackedInv ==
  \A s \in Sessions : Backed(outbox[s]) /\ Backed(channel[s]) /\ Backed(received[s])

IInv == TypeOK /\ StreamTypeOK /\ StoreInv /\ ReporterInv /\ BackedInv

--------------------------------------------------------------------------------
(* Types                                                                   *)

\* What the tuples of the variables stand for in UNCHANGED.
LEMMA Unchanged ==
  /\ UNCHANGED task <=> UNCHANGED <<snapshot, pc, outbox, all_findings, ran>>
  /\ UNCHANGED stream <=> UNCHANGED <<channel, receiver, received>>
  /\ UNCHANGED store <=> UNCHANGED <<reports, stored>>
  /\ UNCHANGED vars <=>
       UNCHANGED <<config, snapshot, pc, outbox, all_findings, ran, channel, receiver,
                   received, reports, stored>>
BY Zenon DEF task, stream, store, vars

\* The severity of a report is one of the five.
LEMMA SeverestIsSeverity ==
  ASSUME NEW findings \in SUBSET Finding
  PROVE  Severest(findings) \in 0..4
<1> DEFINE T == {f.severity : f \in findings} \cup {0}
<1>1. T \subseteq 0..4 /\ 0 \in T
  BY DEF Finding
<1> HIDE DEF T
<1>2. \E x \in T : \A y \in T : x >= y
  <2>1. CASE 4 \in T
    BY <1>1, <2>1
  <2>2. CASE 4 \notin T /\ 3 \in T
    BY <1>1, <2>2
  <2>3. CASE 4 \notin T /\ 3 \notin T /\ 2 \in T
    BY <1>1, <2>3
  <2>4. CASE 4 \notin T /\ 3 \notin T /\ 2 \notin T /\ 1 \in T
    BY <1>1, <2>4
  <2>5. CASE 4 \notin T /\ 3 \notin T /\ 2 \notin T /\ 1 \notin T
    BY <1>1, <2>5
  <2> QED BY <2>1, <2>2, <2>3, <2>4, <2>5
<1>3. Max(T) \in T
  BY <1>2, Zenon DEF Max
<1>4. Max(T) \in 0..4
  BY <1>1, <1>3
<1> QED BY <1>4 DEF Severest, T

\* What StoreReport stores is a report.
LEMMA ReportIsReport ==
  ASSUME TypeOK, NEW s \in Sessions
  PROVE  ReportOf(s) \in Reports /\ ReportOf(s).session = s
           /\ ReportOf(s).findings = Deduplicated(all_findings[s])
<1>1. all_findings[s] \in Seq(Finding) /\ ran[s] \in SUBSET Stages
  BY DEF TypeOK
<1>2. Deduplicated(all_findings[s]) \in SUBSET Finding
  <2>1. \A i \in DOMAIN all_findings[s] : all_findings[s][i] \in Finding
    BY <1>1
  <2> QED BY <2>1 DEF Deduplicated
<1>3. Severest(Deduplicated(all_findings[s])) \in 0..4
  BY <1>2, SeverestIsSeverity
<1> QED BY <1>1, <1>2, <1>3 DEF ReportOf, Reports

\* What is sent is an event.
LEMMA EventIsEvent ==
  /\ Event("Started") \in Events
  /\ \A f \in Finding : FindingEvent(f) \in Events
  /\ \A st \in Stages : AnalyzerError(st) \in Events
  /\ \A r \in Reports : DoneEvent(r) \in Events
BY DEF Events

\* The finding events of a list of findings.
LEMMA FindingEvents ==
  ASSUME NEW findings \in Seq(Finding)
  PROVE  [i \in DOMAIN findings |-> FindingEvent(findings[i])] \in Seq(Events)
<1>1. /\ Len(findings) \in Nat /\ DOMAIN findings = 1..Len(findings)
      /\ \A i \in 1..Len(findings) : findings[i] \in Finding
  BY LenProperties
<1> DEFINE e(i) == FindingEvent(findings[i])
<1>2. \A i \in 1..Len(findings) : e(i) \in Events
  BY <1>1, EventIsEvent
<1> HIDE DEF e
<1>3. [i \in 1..Len(findings) |-> e(i)] \in Seq(Events)
  BY <1>1, <1>2, IsASeq
<1> QED BY <1>1, <1>3 DEF e

\* A push leaves a report at the end of the store and drops the first if it is full.
LEMMA PushedStore ==
  ASSUME TypeOK, NEW r \in Reports
  PROVE  /\ Pushed(r) \in Seq(Reports)
         /\ Len(Pushed(r)) = IF Len(reports) < MaxReports THEN Len(reports) + 1 ELSE MaxReports
         /\ Pushed(r)[Len(Pushed(r))] = r
         /\ \A i \in 1..(Len(Pushed(r)) - 1) :
              Pushed(r)[i] = reports[i + (Len(reports) + 1 - Len(Pushed(r)))]
<1>1. /\ reports \in Seq(Reports) /\ Len(reports) \in Nat /\ Len(reports) <= MaxReports
      /\ MaxReports \in Nat \ {0}
  BY ConstantsAssumption, LenProperties DEF TypeOK
<1>2. CASE Len(reports) < MaxReports
  <2>1. Pushed(r) = Append(reports, r)
    BY <1>1, <1>2 DEF Pushed
  <2>2. /\ Append(reports, r) \in Seq(Reports) /\ Len(Append(reports, r)) = Len(reports) + 1
        /\ \A i \in 1..Len(reports) : Append(reports, r)[i] = reports[i]
        /\ Append(reports, r)[Len(reports) + 1] = r
    BY <1>1, AppendProperties
  <2> QED BY <1>1, <1>2, <2>1, <2>2
<1>3. CASE Len(reports) = MaxReports
  <2>1. Pushed(r) = Append(Tail(reports), r)
    BY <1>1, <1>3 DEF Pushed
  <2>2. /\ Tail(reports) \in Seq(Reports) /\ Len(Tail(reports)) = MaxReports - 1
        /\ \A i \in 1..(MaxReports - 1) : Tail(reports)[i] = reports[i + 1]
    BY <1>1, <1>3, EmptySeq, HeadTailProperties
  <2>3. /\ Pushed(r) \in Seq(Reports) /\ Len(Pushed(r)) = MaxReports
        /\ \A i \in 1..(MaxReports - 1) : Pushed(r)[i] = Tail(reports)[i]
        /\ Pushed(r)[MaxReports] = r
    BY <1>1, <2>1, <2>2, AppendProperties
  <2> QED BY <1>1, <1>3, <2>2, <2>3
<1> QED BY <1>1, <1>2, <1>3

\* Every variable keeps its type.
LEMMA TypeStep == TypeOK /\ StreamTypeOK /\ [Next]_vars => TypeOK' /\ StreamTypeOK'
<1> SUFFICES ASSUME TypeOK, StreamTypeOK, [Next]_vars PROVE TypeOK' /\ StreamTypeOK'
  OBVIOUS
<1> USE DEF TypeOK, StreamTypeOK, PCs
<1>1. ASSUME NEW s \in Sessions, Submit(s) PROVE TypeOK' /\ StreamTypeOK'
  <2>1. <<Event("Started")>> \in Seq(Events)
    BY EventIsEvent
  <2>2. /\ pc' \in [Sessions -> PCs]
        /\ snapshot' \in [Sessions -> Configs]
        /\ outbox' \in [Sessions -> Seq(Events)]
    BY <1>1, <2>1, ZenonT(30) DEF Submit
  <2> QED BY <1>1, <2>2, Unchanged DEF Submit
<1>2. ASSUME NEW s \in Sessions, Send(s) PROVE TypeOK' /\ StreamTypeOK'
  <2>1. /\ Head(outbox[s]) \in Events /\ Tail(outbox[s]) \in Seq(Events)
    BY <1>2, HeadTailProperties DEF Send
  <2>2. /\ Append(channel[s], Head(outbox[s])) \in Seq(Events)
        /\ Len(Append(channel[s], Head(outbox[s]))) = Len(channel[s]) + 1
    BY <2>1, AppendProperties
  <2>3. Len(channel[s]) < Capacity => Len(channel[s]) + 1 <= Capacity
    BY ConstantsAssumption, LenProperties
  <2>4. channel' \in [Sessions -> Seq(Events)] /\ \A t \in Sessions : Len(channel'[t]) <= Capacity
    BY <1>2, <2>2, <2>3 DEF Send
  <2> QED BY <1>2, <2>1, <2>4, Unchanged DEF Send
<1>3. ASSUME NEW s \in Sessions, NEW st \in Stages, StageSkip(s, st)
      PROVE  TypeOK' /\ StreamTypeOK'
  BY <1>3, Unchanged DEF StageSkip, NextStage, Stages
<1>4. ASSUME NEW s \in Sessions, NEW st \in Stages, StageOk(s, st)
      PROVE  TypeOK' /\ StreamTypeOK'
  <2>1. PICK findings \in Results[st] :
          /\ outbox' = [outbox EXCEPT ![s] = [i \in DOMAIN findings |-> FindingEvent(findings[i])]]
          /\ all_findings' = [all_findings EXCEPT ![s] = @ \o findings]
    BY <1>4 DEF StageOk
  <2>2. findings \in Seq(Finding)
    BY ConstantsAssumption
  <2>3. [i \in DOMAIN findings |-> FindingEvent(findings[i])] \in Seq(Events)
    BY <2>2, FindingEvents
  <2>4. all_findings[s] \o findings \in Seq(Finding)
    BY <2>2, ConcatProperties
  <2>5. outbox' \in [Sessions -> Seq(Events)] /\ all_findings' \in [Sessions -> Seq(Finding)]
    BY <2>1, <2>3, <2>4
  <2>6. pc' \in [Sessions -> PCs] /\ ran' \in [Sessions -> SUBSET Stages]
    BY <1>4 DEF StageOk, NextStage, Stages
  <2> QED BY <1>4, <2>5, <2>6, Unchanged DEF StageOk
<1>5. ASSUME NEW s \in Sessions, NEW st \in Stages, StageErr(s, st)
      PROVE  TypeOK' /\ StreamTypeOK'
  <2>1. <<AnalyzerError(st)>> \in Seq(Events)
    BY EventIsEvent
  <2>2. pc' \in [Sessions -> PCs] /\ outbox' \in [Sessions -> Seq(Events)]
    BY <1>5, <2>1 DEF StageErr, NextStage, Stages
  <2> QED BY <1>5, <2>2, Unchanged DEF StageErr
<1>6. ASSUME NEW s \in Sessions, StoreReport(s) PROVE TypeOK' /\ StreamTypeOK'
  <2>1. ReportOf(s) \in Reports
    BY ReportIsReport
  <2>2. Pushed(ReportOf(s)) \in Seq(Reports) /\ Len(Pushed(ReportOf(s))) <= MaxReports
    BY <2>1, PushedStore, ConstantsAssumption, LenProperties
  <2>3. Append(stored, ReportOf(s)) \in Seq(Reports)
    BY <2>1, AppendProperties
  <2>4. <<DoneEvent(ReportOf(s))>> \in Seq(Events) /\ << >> \in Seq(Finding)
    BY <2>1, EventIsEvent
  <2> QED BY <1>6, <2>2, <2>3, <2>4, Unchanged DEF StoreReport
<1>7. ASSUME NEW s \in Sessions, End(s) PROVE TypeOK' /\ StreamTypeOK'
  BY <1>7, Unchanged DEF End
<1>8. ASSUME NEW s \in Sessions, Receive(s) PROVE TypeOK' /\ StreamTypeOK'
  <2>1. /\ Head(channel[s]) \in Events /\ Tail(channel[s]) \in Seq(Events)
        /\ Len(Tail(channel[s])) <= Capacity
    BY <1>8, HeadTailProperties, LenProperties, ConstantsAssumption DEF Receive
  <2>2. Append(received[s], Head(channel[s])) \in Seq(Events)
    BY <2>1, AppendProperties
  <2>3. channel' \in [Sessions -> Seq(Events)] /\ \A t \in Sessions : Len(channel'[t]) <= Capacity
    BY <1>8, <2>1 DEF Receive
  <2> QED BY <1>8, <2>2, <2>3, Unchanged DEF Receive
<1>9. ASSUME NEW s \in Sessions, DropReceiver(s) PROVE TypeOK' /\ StreamTypeOK'
  <2>1. << >> \in Seq(Events) /\ Len(<< >>) <= Capacity
    BY ConstantsAssumption
  <2> QED BY <1>9, <2>1, Unchanged DEF DropReceiver
<1>10. ASSUME NEW c \in Configs, Reload(c) PROVE TypeOK' /\ StreamTypeOK'
  BY <1>10, Unchanged DEF Reload
<1>11. ASSUME NEW s \in Sessions, NEW st \in Stages, StagePanic(s, st)
       PROVE  TypeOK' /\ StreamTypeOK'
  <2>1. << >> \in Seq(Finding)
    OBVIOUS
  <2>2. pc' \in [Sessions -> PCs] /\ all_findings' \in [Sessions -> Seq(Finding)]
    BY <1>11, <2>1 DEF StagePanic
  <2> QED BY <1>11, <2>2, Unchanged DEF StagePanic
<1>12. CASE UNCHANGED vars
  BY <1>12, Unchanged
<1> QED
  BY <1>1, <1>2, <1>3, <1>4, <1>5, <1>6, <1>7, <1>8, <1>9, <1>10, <1>11, <1>12
  DEF Next, TaskStep

--------------------------------------------------------------------------------
(* The store                                                               *)

\* A push keeps the store the end of all that was pushed, and files its report.
LEMMA StoreStep ==
  ASSUME TypeOK, StoreInv, NEW r \in Reports,
         reports' = Pushed(r), stored' = Append(stored, r)
  PROVE  /\ StoreInv'
         /\ DOMAIN stored' = 1..(Len(stored) + 1) /\ DOMAIN stored = 1..Len(stored)
         /\ \A i \in DOMAIN stored : stored'[i] = stored[i]
         /\ stored'[Len(stored) + 1] = r
<1> DEFINE L == Len(reports)
           N == Len(stored)
           M == Len(Pushed(r))
<1>1. /\ L \in Nat /\ N \in Nat /\ MaxReports \in Nat \ {0}
      /\ L = IF N < MaxReports THEN N ELSE MaxReports
      /\ \A i \in 1..L : reports[i] = stored[N - L + i]
      /\ DOMAIN stored = 1..N
  BY ConstantsAssumption, LenProperties DEF TypeOK, StoreInv
<1>2. /\ M = IF L < MaxReports THEN L + 1 ELSE MaxReports
      /\ Pushed(r)[M] = r
      /\ \A i \in 1..(M - 1) : Pushed(r)[i] = reports[i + (L + 1 - M)]
  BY PushedStore
<1>3. /\ Len(stored') = N + 1 /\ stored'[N + 1] = r /\ DOMAIN stored' = 1..(N + 1)
      /\ \A i \in 1..N : stored'[i] = stored[i]
  BY AppendProperties, LenProperties DEF TypeOK
<1> HIDE DEF L, N, M
<1>4. M \in Nat \ {0} /\ M <= N + 1 /\ M = IF N + 1 < MaxReports THEN N + 1 ELSE MaxReports
  BY <1>1, <1>2
<1>5. ASSUME NEW i \in 1..M PROVE Pushed(r)[i] = stored'[(N + 1) - M + i]
  <2>1. CASE i = M
    <3>1. (N + 1) - M + i = N + 1
      BY <1>1, <1>4, <2>1
    <3> QED BY <1>2, <1>3, <2>1, <3>1
  <2>2. CASE i \in 1..(M - 1)
    <3>1. /\ i + (L + 1 - M) \in 1..L
          /\ N - L + (i + (L + 1 - M)) = (N + 1) - M + i
          /\ (N + 1) - M + i \in 1..N
      BY <1>1, <1>2, <1>4, <2>2
    <3>2. Pushed(r)[i] = reports[i + (L + 1 - M)]
      BY <1>2, <2>2
    <3>3. reports[i + (L + 1 - M)] = stored[N - L + (i + (L + 1 - M))]
      BY <1>1, <3>1
    <3> QED BY <1>3, <3>1, <3>2, <3>3
  <2>3. i = M \/ i \in 1..(M - 1)
    BY <1>4
  <2> QED BY <2>1, <2>2, <2>3
<1>6. M = Len(reports')
  BY DEF M
<1> QED BY <1>1, <1>3, <1>4, <1>5, <1>6 DEF StoreInv, N

\* A Done at either end of a sequence is backed if it was before it moved.
LEMMA BackedMove ==
  ASSUME NEW q \in Seq(Events), Backed(q)
  PROVE  /\ q # << >> => Backed(Tail(q)) /\ (Head(q).type = "Done" => Filed(Head(q).report))
         /\ \A e \in Events : (e.type = "Done" => Filed(e.report)) => Backed(Append(q, e))
<1>1. DOMAIN q = 1..Len(q) /\ Len(q) \in Nat
  BY LenProperties
<1>2. ASSUME q # << >> PROVE Backed(Tail(q)) /\ (Head(q).type = "Done" => Filed(Head(q).report))
  <2>1. /\ Head(q) = q[1] /\ 1 \in DOMAIN q /\ DOMAIN Tail(q) = 1..(Len(q) - 1)
        /\ \A i \in 1..(Len(q) - 1) : Tail(q)[i] = q[i + 1]
    BY <1>1, <1>2, EmptySeq, HeadTailProperties, LenProperties
  <2>2. \A i \in 1..(Len(q) - 1) : i + 1 \in DOMAIN q
    BY <1>1
  <2> QED BY <2>1, <2>2 DEF Backed
<1>3. ASSUME NEW e \in Events, e.type = "Done" => Filed(e.report) PROVE Backed(Append(q, e))
  <2>1. /\ DOMAIN Append(q, e) = 1..(Len(q) + 1)
        /\ \A i \in 1..Len(q) : Append(q, e)[i] = q[i]
        /\ Append(q, e)[Len(q) + 1] = e
    BY AppendProperties, LenProperties
  <2>2. \A i \in 1..(Len(q) + 1) : i \in DOMAIN q \/ i = Len(q) + 1
    BY <1>1
  <2> QED BY <1>1, <1>3, <2>1, <2>2 DEF Backed
<1> QED BY <1>2, <1>3

\* What every step but StoreReport leaves alone, and what StoreReport does.
LEMMA Storing ==
  ASSUME TypeOK, StoreInv, ReporterInv, [Next]_vars
  PROVE  \/ /\ UNCHANGED <<reports, stored>>
            /\ \A s \in Sessions : pc[s] \in {"closing", "ended"} => pc'[s] \in {"closing", "ended"}
         \/ \E s \in Sessions : StoreReport(s)
<1> USE DEF TypeOK
<1>1. ASSUME NEW s \in Sessions, Submit(s) \/ Send(s) \/ Receive(s) \/ DropReceiver(s) \/ End(s)
      PROVE  /\ UNCHANGED <<reports, stored>>
             /\ \A t \in Sessions : pc[t] \in {"closing", "ended"} => pc'[t] \in {"closing", "ended"}
  BY <1>1, Unchanged DEF Submit, Send, Receive, DropReceiver, End
<1>2. ASSUME NEW s \in Sessions, NEW st \in Stages,
             StageSkip(s, st) \/ StageOk(s, st) \/ StageErr(s, st)
      PROVE  /\ UNCHANGED <<reports, stored>>
             /\ \A t \in Sessions : pc[t] \in {"closing", "ended"} => pc'[t] \in {"closing", "ended"}
  <2>1. pc[s] \notin {"closing", "ended"} /\ pc' = [pc EXCEPT ![s] = NextStage[st]]
    BY <1>2 DEF StageSkip, StageOk, StageErr, AtStage, Stages
  <2> QED BY <1>2, <2>1, Unchanged DEF StageSkip, StageOk, StageErr
<1>3. ASSUME NEW c \in Configs, Reload(c)
      PROVE  UNCHANGED <<reports, stored, pc>>
  BY <1>3, Unchanged DEF Reload
<1>4. ASSUME NEW s \in Sessions, NEW st \in Stages, StagePanic(s, st)
      PROVE  /\ UNCHANGED <<reports, stored>>
             /\ \A t \in Sessions : pc[t] \in {"closing", "ended"} => pc'[t] \in {"closing", "ended"}
  <2>1. pc[s] \notin {"closing", "ended"} /\ pc' = [pc EXCEPT ![s] = "died"]
    BY <1>4 DEF StagePanic, AtStage, Stages
  <2> QED BY <1>4, <2>1, Unchanged DEF StagePanic
<1>5. CASE UNCHANGED vars
  BY <1>5, Unchanged
<1> QED BY <1>1, <1>2, <1>3, <1>4, <1>5 DEF Next, TaskStep

\* What was pushed is a report.
LEMMA StoredReports ==
  ASSUME TypeOK
  PROVE  \A i \in DOMAIN stored : stored[i] \in Reports /\ stored[i].session \in Sessions
<1>1. \A i \in DOMAIN stored : stored[i] \in Reports
  BY LenProperties DEF TypeOK
<1>2. \A r \in Reports : r.session \in Sessions
  BY DEF Reports
<1> QED BY <1>1, <1>2

\* The store and who wrote it.
LEMMA StoringStep ==
  ASSUME TypeOK, StoreInv, ReporterInv, [Next]_vars
  PROVE  /\ StoreInv' /\ ReporterInv'
         /\ \A r : Filed(r) => Filed(r)'
<1>1. CASE /\ UNCHANGED <<reports, stored>>
           /\ \A s \in Sessions : pc[s] \in {"closing", "ended"} => pc'[s] \in {"closing", "ended"}
  <2>1. \A i \in DOMAIN stored : stored[i].session \in Sessions
    BY StoredReports
  <2> QED BY <1>1, <2>1 DEF StoreInv, ReporterInv, Filed
<1>2. ASSUME NEW s \in Sessions, StoreReport(s)
      PROVE  /\ StoreInv' /\ ReporterInv'
             /\ \A r : Filed(r) => Filed(r)'
  <2> DEFINE r == ReportOf(s)
  <2>1. r \in Reports /\ r.session = s
    BY ReportIsReport
  <2>2. reports' = Pushed(r) /\ stored' = Append(stored, r)
          /\ pc' = [pc EXCEPT ![s] = "closing"]
    BY <1>2 DEF StoreReport
  <2> HIDE DEF r
  <2>3. /\ StoreInv'
        /\ DOMAIN stored' = 1..(Len(stored) + 1) /\ DOMAIN stored = 1..Len(stored)
        /\ \A i \in DOMAIN stored : stored'[i] = stored[i]
        /\ stored'[Len(stored) + 1] = r
    BY <2>1, <2>2, StoreStep
  <2>4. Len(stored) \in Nat
    BY LenProperties DEF TypeOK
  <2>5. \A i \in DOMAIN stored' : i \in DOMAIN stored \/ i = Len(stored) + 1
    BY <2>3, <2>4
  <2>6. \A i \in DOMAIN stored : i \in DOMAIN stored' /\ stored[i].session \in Sessions
    BY <2>3, <2>4, StoredReports
  <2>7. ReporterInv'
    BY <2>1, <2>2, <2>3, <2>5, <2>6 DEF ReporterInv, TypeOK
  <2> QED BY <2>3, <2>6, <2>7 DEF Filed
<1> QED BY <1>1, <1>2, Storing

\* No step sends a Done whose report was not pushed.
LEMMA BackedStep ==
  ASSUME TypeOK, StreamTypeOK, StoreInv, ReporterInv, BackedInv, [Next]_vars
  PROVE  BackedInv'
<1> USE DEF StreamTypeOK
<1>0. \A q : Backed(q) => Backed(q)'
  BY StoringStep DEF Backed
<1>00. Backed(<< >>)' /\ \A st : Backed(<<AnalyzerError(st)>>)' /\ Backed(<<Event("Started")>>)'
  BY DEF Backed, AnalyzerError, Event
<1>1. ASSUME NEW s \in Sessions, Submit(s) PROVE BackedInv'
  <2>1. \A t \in Sessions : outbox'[t] = outbox[t] \/ outbox'[t] = <<Event("Started")>>
    BY <1>1 DEF Submit
  <2> QED BY <1>0, <1>00, <1>1, <2>1, Unchanged DEF Submit, BackedInv
<1>2. ASSUME NEW s \in Sessions, Send(s) PROVE BackedInv'
  <2>1. Backed(outbox[s]) /\ Backed(channel[s]) /\ outbox[s] # << >> /\ Head(outbox[s]) \in Events
    BY <1>2, HeadTailProperties DEF Send, BackedInv
  <2>2. Backed(Tail(outbox[s])) /\ (Head(outbox[s]).type = "Done" => Filed(Head(outbox[s]).report))
    BY <2>1, BackedMove
  <2>3. Backed(Append(channel[s], Head(outbox[s])))
    BY <2>1, <2>2, BackedMove
  <2>4. \A t \in Sessions : outbox'[t] = IF t = s THEN Tail(outbox[s]) ELSE outbox[t]
    BY <1>2 DEF Send
  <2>5. \A t \in Sessions :
          channel'[t] = channel[t] \/ (t = s /\ channel'[t] = Append(channel[s], Head(outbox[s])))
    BY <1>2 DEF Send
  <2> QED BY <1>0, <1>2, <2>2, <2>3, <2>4, <2>5, Unchanged DEF Send, BackedInv
<1>3. ASSUME NEW s \in Sessions, NEW st \in Stages, StageSkip(s, st) PROVE BackedInv'
  BY <1>0, <1>3, Unchanged DEF StageSkip, BackedInv
<1>4. ASSUME NEW s \in Sessions, NEW st \in Stages, StageOk(s, st) PROVE BackedInv'
  <2>1. PICK findings \in Results[st] :
          outbox' = [outbox EXCEPT ![s] = [i \in DOMAIN findings |-> FindingEvent(findings[i])]]
    BY <1>4 DEF StageOk
  <2>2. Backed([i \in DOMAIN findings |-> FindingEvent(findings[i])])'
    BY DEF Backed, FindingEvent
  <2>3. \A t \in Sessions :
          \/ outbox'[t] = outbox[t]
          \/ outbox'[t] = [i \in DOMAIN findings |-> FindingEvent(findings[i])]
    BY <2>1
  <2> QED BY <1>0, <1>4, <2>2, <2>3, Unchanged DEF StageOk, BackedInv
<1>5. ASSUME NEW s \in Sessions, NEW st \in Stages, StageErr(s, st) PROVE BackedInv'
  <2>1. \A t \in Sessions : outbox'[t] = outbox[t] \/ outbox'[t] = <<AnalyzerError(st)>>
    BY <1>5 DEF StageErr
  <2> QED BY <1>0, <1>00, <1>5, <2>1, Unchanged DEF StageErr, BackedInv
<1>6. ASSUME NEW s \in Sessions, StoreReport(s) PROVE BackedInv'
  <2>0. PICK r : r = ReportOf(s)
    OBVIOUS
  <2>1. /\ stored' = Append(stored, r) /\ reports' = Pushed(r)
        /\ outbox' = [outbox EXCEPT ![s] = <<DoneEvent(r)>>]
    BY <1>6, <2>0 DEF StoreReport
  <2>2. r \in Reports
    BY <2>0, ReportIsReport
  <2>3. Filed(r)'
    <3>1. DOMAIN stored' = 1..(Len(stored) + 1) /\ stored'[Len(stored) + 1] = r
      BY <2>1, <2>2, StoreStep
    <3>2. Len(stored) + 1 \in 1..(Len(stored) + 1)
      BY LenProperties DEF TypeOK
    <3> QED BY <3>1, <3>2 DEF Filed
  <2>4. Backed(<<DoneEvent(r)>>)'
    BY <2>3 DEF Backed, DoneEvent
  <2>5. \A t \in Sessions : outbox'[t] = outbox[t] \/ outbox'[t] = <<DoneEvent(r)>>
    BY <2>1
  <2> QED BY <1>0, <1>6, <2>4, <2>5, Unchanged DEF StoreReport, BackedInv
<1>7. ASSUME NEW s \in Sessions, End(s) PROVE BackedInv'
  BY <1>0, <1>7, Unchanged DEF End, BackedInv
<1>8. ASSUME NEW s \in Sessions, Receive(s) PROVE BackedInv'
  <2>1. Backed(channel[s]) /\ Backed(received[s]) /\ channel[s] # << >> /\ Head(channel[s]) \in Events
    BY <1>8, HeadTailProperties DEF Receive, BackedInv
  <2>2. Backed(Tail(channel[s])) /\ (Head(channel[s]).type = "Done" => Filed(Head(channel[s]).report))
    BY <2>1, BackedMove
  <2>3. Backed(Append(received[s], Head(channel[s])))
    BY <2>1, <2>2, BackedMove
  <2>4. \A t \in Sessions :
          /\ channel'[t] = IF t = s THEN Tail(channel[s]) ELSE channel[t]
          /\ received'[t] = IF t = s THEN Append(received[s], Head(channel[s])) ELSE received[t]
    BY <1>8 DEF Receive
  <2> QED BY <1>0, <1>8, <2>2, <2>3, <2>4, Unchanged DEF Receive, BackedInv
<1>9. ASSUME NEW s \in Sessions, DropReceiver(s) PROVE BackedInv'
  <2>1. \A t \in Sessions : /\ channel'[t] = channel[t] \/ channel'[t] = << >>
                            /\ received'[t] = received[t] \/ received'[t] = << >>
    BY <1>9 DEF DropReceiver
  <2> QED BY <1>0, <1>00, <1>9, <2>1, Unchanged DEF DropReceiver, BackedInv
<1>10. ASSUME NEW c \in Configs, Reload(c) PROVE BackedInv'
  BY <1>0, <1>10, Unchanged DEF Reload, BackedInv
<1>11. ASSUME NEW s \in Sessions, NEW st \in Stages, StagePanic(s, st) PROVE BackedInv'
  BY <1>0, <1>11, Unchanged DEF StagePanic, BackedInv
<1>12. CASE UNCHANGED vars
  BY <1>0, <1>12, Unchanged DEF BackedInv
<1> QED
  BY <1>1, <1>2, <1>3, <1>4, <1>5, <1>6, <1>7, <1>8, <1>9, <1>10, <1>11, <1>12
  DEF Next, TaskStep

--------------------------------------------------------------------------------

\* The invariant holds in every reachable state.
LEMMA Invariant == Spec => []IInv
<1>1. Init => IInv
  <2> SUFFICES ASSUME Init PROVE IInv
    OBVIOUS
  <2>1. /\ << >> \in Seq(Finding) /\ << >> \in Seq(Events) /\ << >> \in Seq(Reports)
        /\ Len(<< >>) = 0 /\ DOMAIN << >> = {}
        /\ Len(<< >>) <= Capacity /\ Len(<< >>) <= MaxReports /\ 0 < MaxReports
    BY ConstantsAssumption
  <2>2. TypeOK /\ StreamTypeOK
    <3>1. pc \in [Sessions -> PCs] /\ snapshot \in [Sessions -> Configs]
      BY DEF Init, PCs
    <3>2. /\ receiver \in [Sessions -> {"open", "dropped"}]
          /\ all_findings \in [Sessions -> Seq(Finding)]
          /\ ran \in [Sessions -> SUBSET Stages]
      BY <2>1 DEF Init
    <3>3. StreamTypeOK /\ \A s \in Sessions : Len(channel[s]) <= Capacity
      BY <2>1 DEF Init, StreamTypeOK
    <3> QED BY <2>1, <3>1, <3>2, <3>3 DEF Init, TypeOK
  <2>3. StoreInv /\ ReporterInv /\ BackedInv
    BY <2>1 DEF Init, StoreInv, ReporterInv, BackedInv, Backed
  <2> QED BY <2>2, <2>3 DEF IInv
<1>2. IInv /\ [Next]_vars => IInv'
  BY TypeStep, StoringStep, BackedStep DEF IInv
<1> QED BY <1>1, <1>2, PTL DEF Spec

\* The types, and the capacities of every channel and of the store, for every value
\* of the constants.
THEOREM TypeCorrect == Spec => []TypeOK
<1>1. IInv => TypeOK
  BY DEF IInv
<1> QED BY <1>1, Invariant, PTL

\* A caller that has been sent Done finds the report in the store unless MaxReports
\* later ones have pushed it out, whatever the other tasks do.
THEOREM DoneIsStored == Spec => []DoneMeansStored
<1>1. IInv => DoneMeansStored
  <2> SUFFICES ASSUME IInv, NEW s \in Sessions, NEW e \in ToSet(channel[s]) \cup ToSet(received[s]),
                      e.type = "Done"
               PROVE  \E i \in DOMAIN stored :
                        /\ stored[i] = e.report
                        /\ Len(stored) - i < MaxReports => e.report \in ToSet(reports)
    BY DEF DoneMeansStored
  <2>1. Filed(e.report)
    BY DEF IInv, BackedInv, Backed, ToSet
  <2>2. PICK i \in DOMAIN stored : stored[i] = e.report
    BY <2>1 DEF Filed
  <2>3. ASSUME Len(stored) - i < MaxReports PROVE e.report \in ToSet(reports)
    <3> DEFINE L == Len(reports)
               N == Len(stored)
    <3>1. /\ L \in Nat /\ N \in Nat /\ i \in 1..N /\ DOMAIN reports = 1..L /\ MaxReports \in Nat
          /\ L = IF N < MaxReports THEN N ELSE MaxReports
          /\ \A j \in 1..L : reports[j] = stored[N - L + j]
      BY ConstantsAssumption, LenProperties DEF IInv, TypeOK, StoreInv
    <3> HIDE DEF L, N
    <3>2. N - i < MaxReports
      BY <2>3 DEF N
    <3>3. i - (N - L) \in 1..L /\ N - L + (i - (N - L)) = i
      BY <3>1, <3>2
    <3>4. reports[i - (N - L)] = e.report
      BY <2>2, <3>1, <3>3
    <3> QED BY <3>1, <3>3, <3>4 DEF ToSet
  <2> QED BY <2>2, <2>3
<1> QED BY <1>1, Invariant, PTL

--------------------------------------------------------------------------------
(* The report log                                                          *)

\* The abstract steps in terms of what implements them.
LEMMA Mapping ==
  /\ RL!Init <=> Accepted = {} /\ Published = {} /\ Shown = << >> /\ Lost = {} /\ Held = {}
  /\ \A s : RL!Accept(s) <=>
       /\ s \notin Accepted
       /\ Accepted' = Accepted \cup {s}
       /\ UNCHANGED <<Published, Shown, Lost, Held>>
  /\ \A s : RL!Publish(s) <=>
       /\ s \in Accepted \ (Published \cup Lost \cup Held)
       /\ Published' = Published \cup {s}
       /\ Shown' = Append(IF Len(Shown) < MaxReports THEN Shown ELSE Tail(Shown), s)
       /\ UNCHANGED <<Accepted, Lost, Held>>
  /\ \A s : RL!Lose(s) <=>
       /\ s \in Accepted \ (Published \cup Lost)
       /\ Lost' = Lost \cup {s}
       /\ Held' = Held \ {s}
       /\ UNCHANGED <<Accepted, Published, Shown>>
  /\ \A s : RL!Hold(s) <=>
       /\ s \in Accepted \ (Published \cup Lost \cup Held)
       /\ Held' = Held \cup {s}
       /\ UNCHANGED <<Accepted, Published, Shown, Lost>>
  /\ \A s : RL!Release(s) <=>
       /\ s \in Held
       /\ Held' = Held \ {s}
       /\ UNCHANGED <<Accepted, Published, Shown, Lost>>
  /\ RL!Next <=>
       \E s \in Sessions :
         RL!Accept(s) \/ RL!Publish(s) \/ RL!Lose(s) \/ RL!Hold(s) \/ RL!Release(s)
  /\ UNCHANGED RL!vars <=> UNCHANGED <<Accepted, Published, Shown, Lost, Held>>
BY Zenon DEF RL!Init, RL!Accept, RL!Publish, RL!Lose, RL!Hold, RL!Release, RL!Next, RL!vars

\* A step of a session's own moves no other session, so it changes the sets of the
\* log by that session at most.
LEMMA OwnSession ==
  ASSUME TypeOK, NEW s \in Sessions,
         \A t \in Sessions \ {s} : UNCHANGED <<pc[t], outbox[t], snapshot[t]>>
  PROVE  /\ (pc[s] \in {"idle", "refused"} <=> pc'[s] \in {"idle", "refused"}) =>
              Accepted' = Accepted
         /\ Lost' = IF pc'[s] = "died" THEN Lost \cup {s} ELSE Lost \ {s}
         /\ Held' = IF AwaitsRuntime(s)' THEN Held \cup {s} ELSE Held \ {s}
<1>1. \A t \in Sessions \ {s} : AwaitsRuntime(t)' = AwaitsRuntime(t)
  BY DEF AwaitsRuntime, AtStage, Wanted, Allows
<1>2. Held' = IF AwaitsRuntime(s)' THEN Held \cup {s} ELSE Held \ {s}
  BY <1>1 DEF Held
<1> QED BY <1>2 DEF Accepted, Lost

\* A session that is not reported on, and what its task does next: it may begin to
\* wait for the runtime, or have waited, and neither is seen but in Held.
LEMMA HeldStep ==
  ASSUME IInv, NEW s \in Sessions,
         \A t \in Sessions \ {s} : UNCHANGED <<pc[t], outbox[t], snapshot[t]>>,
         UNCHANGED <<reports, stored>>,
         pc[s] \notin {"idle", "refused", "died"}, pc'[s] \notin {"idle", "refused", "died"},
         AwaitsRuntime(s) \/ AwaitsRuntime(s)' => pc[s] \notin {"closing", "ended"}
  PROVE  RL!Next \/ UNCHANGED RL!vars
<1>1. Published' = Published /\ Shown' = Shown
  BY DEF Published, Shown
<1>2. /\ Accepted' = Accepted /\ Lost' = Lost /\ s \in Accepted /\ s \notin Lost
      /\ Held' = IF AwaitsRuntime(s)' THEN Held \cup {s} ELSE Held \ {s}
  BY OwnSession DEF IInv, Accepted, Lost
<1>3. s \in Held <=> AwaitsRuntime(s)
  BY DEF Held
<1>4. s \in Published => pc[s] \in {"closing", "ended"}
  BY DEF IInv, ReporterInv, Published
<1>5. CASE AwaitsRuntime(s)' /\ ~ AwaitsRuntime(s)
  <2>1. RL!Hold(s)
    BY <1>1, <1>2, <1>3, <1>4, <1>5, Mapping
  <2> QED BY <2>1, Mapping
<1>6. CASE ~ AwaitsRuntime(s)' /\ AwaitsRuntime(s)
  <2>1. RL!Release(s)
    BY <1>1, <1>2, <1>3, <1>6, Mapping
  <2> QED BY <2>1, Mapping
<1>7. CASE AwaitsRuntime(s)' <=> AwaitsRuntime(s)
  <2>1. Held' = Held
    BY <1>2, <1>3, <1>7
  <2> QED BY <1>1, <1>2, <2>1, Mapping
<1> QED BY <1>5, <1>6, <1>7

\* What is shown is the sessions of the store.
LEMMA ShownIsSeq ==
  ASSUME TypeOK
  PROVE  /\ Shown \in Seq(Sessions) /\ Len(Shown) = Len(reports)
         /\ \A i \in 1..Len(reports) : Shown[i] = reports[i].session
<1>1. /\ Len(reports) \in Nat /\ DOMAIN reports = 1..Len(reports)
      /\ \A i \in 1..Len(reports) : reports[i].session \in Sessions
  <2>1. /\ Len(reports) \in Nat /\ DOMAIN reports = 1..Len(reports)
        /\ \A i \in 1..Len(reports) : reports[i] \in Reports
    BY LenProperties DEF TypeOK
  <2>2. \A r \in Reports : r.session \in Sessions
    BY DEF Reports
  <2> QED BY <2>1, <2>2
<1> DEFINE e(i) == reports[i].session
<1>2. Shown = [i \in 1..Len(reports) |-> e(i)]
  BY <1>1 DEF Shown
<1>3. \A i \in 1..Len(reports) : e(i) \in Sessions
  BY <1>1
<1> HIDE DEF e
<1>4. [i \in 1..Len(reports) |-> e(i)] \in Seq(Sessions)
  BY <1>1, <1>3, IsASeq
<1>5. Len([i \in 1..Len(reports) |-> e(i)]) = Len(reports)
  BY <1>1
<1> QED BY <1>2, <1>4, <1>5 DEF e

\* Publishing is what StoreReport does.
LEMMA StoreReportPublishes ==
  ASSUME IInv, NEW s \in Sessions, StoreReport(s)
  PROVE  RL!Publish(s)
<1>0. PICK r : r = ReportOf(s)
  OBVIOUS
<1>1. /\ pc[s] = "report" /\ pc' = [pc EXCEPT ![s] = "closing"]
      /\ reports' = Pushed(r) /\ stored' = Append(stored, r)
  BY <1>0 DEF StoreReport
<1>2. r \in Reports /\ r.session = s
  BY <1>0, ReportIsReport DEF IInv
<1>3. s \in Accepted \ (Published \cup Lost \cup Held) /\ UNCHANGED <<Accepted, Lost, Held>>
  <2>1. s \in Accepted /\ s \notin Published /\ s \notin Lost /\ s \notin Held
    BY <1>1 DEF Accepted, Published, Lost, Held, AwaitsRuntime, AtStage, IInv, ReporterInv, TypeOK
  <2>2. /\ \A t \in Sessions \ {s} : UNCHANGED <<pc[t], outbox[t], snapshot[t]>>
        /\ pc'[s] = "closing"
    BY DEF StoreReport, IInv, TypeOK, StreamTypeOK
  <2>3. ~ AwaitsRuntime(s)'
    BY <2>2 DEF AwaitsRuntime, AtStage
  <2>4. Accepted' = Accepted /\ Lost' = Lost \ {s} /\ Held' = Held \ {s}
    BY <1>1, <2>2, <2>3, OwnSession DEF IInv
  <2> QED BY <2>1, <2>4
<1>4. Published' = Published \cup {s}
  <2>1. /\ DOMAIN stored' = 1..(Len(stored) + 1) /\ DOMAIN stored = 1..Len(stored)
        /\ \A i \in DOMAIN stored : stored'[i] = stored[i]
        /\ stored'[Len(stored) + 1] = r
    BY <1>1, <1>2, StoreStep DEF IInv
  <2>2. \A i \in 1..(Len(stored) + 1) : i \in 1..Len(stored) \/ i = Len(stored) + 1
    BY LenProperties DEF IInv, TypeOK
  <2>3. Len(stored) + 1 \in DOMAIN stored' /\ DOMAIN stored \subseteq DOMAIN stored'
    BY <2>1, LenProperties DEF IInv, TypeOK
  <2> QED BY <1>2, <2>1, <2>2, <2>3 DEF Published
<1>5. Shown' = Append(IF Len(Shown) < MaxReports THEN Shown ELSE Tail(Shown), s)
  <2>1. /\ Shown \in Seq(Sessions) /\ Len(Shown) = Len(reports)
        /\ \A i \in 1..Len(reports) : Shown[i] = reports[i].session
    BY ShownIsSeq DEF IInv
  <2>2. TypeOK'
    BY TypeStep DEF IInv, Next, TaskStep
  <2>3. /\ Shown' \in Seq(Sessions) /\ Len(Shown') = Len(reports')
        /\ \A i \in 1..Len(reports') : Shown'[i] = reports'[i].session
    <3>1. (TypeOK => /\ Shown \in Seq(Sessions) /\ Len(Shown) = Len(reports)
                     /\ \A i \in 1..Len(reports) : Shown[i] = reports[i].session)'
      BY ShownIsSeq, PTL
    <3> QED BY <2>2, <3>1
  <2> DEFINE L == Len(reports)
             M == Len(Pushed(r))
             kept == IF L < MaxReports THEN Shown ELSE Tail(Shown)
  <2>4. /\ M = IF L < MaxReports THEN L + 1 ELSE MaxReports
        /\ Pushed(r)[M] = r
        /\ \A i \in 1..(M - 1) : Pushed(r)[i] = reports[i + (L + 1 - M)]
        /\ L \in Nat /\ L <= MaxReports /\ MaxReports \in Nat \ {0}
    BY <1>2, PushedStore, ConstantsAssumption, LenProperties DEF IInv, TypeOK
  <2>5. /\ kept \in Seq(Sessions) /\ Len(kept) = M - 1
        /\ \A i \in 1..(M - 1) : kept[i] = reports[i + (L + 1 - M)].session
    <3>1. CASE L < MaxReports
      BY <2>1, <2>4, <3>1
    <3>2. CASE L = MaxReports
      <4>1. /\ Shown # << >> /\ Tail(Shown) \in Seq(Sessions) /\ Len(Tail(Shown)) = L - 1
            /\ \A i \in 1..(L - 1) : Tail(Shown)[i] = Shown[i + 1]
        BY <2>1, <2>4, <3>2, EmptySeq, HeadTailProperties
      <4> QED BY <2>1, <2>4, <3>2, <4>1
    <3>3. L < MaxReports \/ L = MaxReports
      BY <2>4
    <3> QED BY <3>1, <3>2, <3>3
  <2> HIDE DEF kept, M
  <2>6. /\ Append(kept, s) \in Seq(Sessions) /\ Len(Append(kept, s)) = M
        /\ \A i \in 1..(M - 1) : Append(kept, s)[i] = kept[i]
        /\ Append(kept, s)[M] = s
    BY <2>4, <2>5, AppendProperties
  <2>7. Len(Shown') = M /\ \A i \in 1..M : Shown'[i] = Pushed(r)[i].session
    BY <1>1, <2>3 DEF M
  <2>8. \A i \in 1..M : i \in 1..(M - 1) \/ i = M
    BY <2>4
  <2>9. \A i \in 1..M : Shown'[i] = Append(kept, s)[i]
    BY <1>2, <2>4, <2>5, <2>6, <2>7, <2>8, ZenonT(30)
  <2>10. Shown' = Append(kept, s)
    BY <2>3, <2>6, <2>7, <2>9, SeqEqual
  <2> QED BY <2>1, <2>10 DEF kept
<1> QED BY <1>3, <1>4, <1>5, Mapping

\* Every step of the engine is one of the log, or changes nothing of it.
LEMMA LogStep == IInv /\ [Next]_vars => [RL!Next]_(RL!vars)
<1> SUFFICES ASSUME IInv, [Next]_vars PROVE RL!Next \/ UNCHANGED RL!vars
  OBVIOUS
<1>0. UNCHANGED <<reports, stored>> => Published' = Published /\ Shown' = Shown
  BY DEF Published, Shown
<1> USE DEF IInv, TypeOK, StreamTypeOK
<1>1. ASSUME NEW s \in Sessions, Submit(s) PROVE RL!Next \/ UNCHANGED RL!vars
  <2>1. /\ \A t \in Sessions \ {s} : UNCHANGED <<pc[t], outbox[t], snapshot[t]>>
        /\ pc[s] = "idle" /\ pc'[s] \in {"static", "refused"}
        /\ Published' = Published /\ Shown' = Shown
    BY <1>0, <1>1, Unchanged DEF Submit
  <2>2. ~ AwaitsRuntime(s) /\ ~ AwaitsRuntime(s)'
    BY <2>1 DEF AwaitsRuntime, AtStage
  <2>3. s \notin Held /\ s \notin Lost /\ s \notin Accepted
    BY <2>1, <2>2 DEF Held, Lost, Accepted
  <2>4. Lost' = Lost /\ Held' = Held
    <3>1. pc'[s] # "died"
      BY <2>1
    <3>2. Lost' = Lost \ {s} /\ Held' = Held \ {s}
      BY <2>1, <2>2, <3>1, OwnSession
    <3> QED BY <2>3, <3>2
  <2>5. CASE pc'[s] = "static"
    <3>1. Accepted' = Accepted \cup {s}
      BY <2>1, <2>5 DEF Accepted
    <3>2. RL!Accept(s)
      BY <2>1, <2>3, <2>4, <3>1, Mapping
    <3> QED BY <3>2, Mapping
  <2>6. CASE pc'[s] = "refused"
    <3>1. Accepted' = Accepted
      BY <2>1, <2>6, OwnSession
    <3> QED BY <2>1, <2>4, <3>1, Mapping
  <2> QED BY <2>1, <2>5, <2>6
<1>2. ASSUME NEW s \in Sessions, Receive(s) \/ DropReceiver(s)
      PROVE  UNCHANGED RL!vars
  <2>1. UNCHANGED <<pc, outbox, snapshot, reports, stored>>
    BY <1>2, Unchanged DEF Receive, DropReceiver
  <2>2. UNCHANGED <<Accepted, Lost, Held>>
    BY <2>1 DEF Accepted, Lost, Held, AwaitsRuntime, AtStage, Wanted, Allows
  <2> QED BY <1>0, <2>1, <2>2, Mapping
<1>3. ASSUME NEW s \in Sessions, Send(s) PROVE RL!Next \/ UNCHANGED RL!vars
  <2>1. /\ \A t \in Sessions \ {s} : UNCHANGED <<pc[t], outbox[t], snapshot[t]>>
        /\ UNCHANGED <<reports, stored>> /\ pc'[s] = pc[s] /\ outbox[s] # << >>
    BY <1>3, Unchanged DEF Send
  <2>2. CASE pc[s] = "sandbox"
    BY <2>1, <2>2, HeldStep
  <2>3. CASE pc[s] # "sandbox"
    <3>1. ~ AwaitsRuntime(s) /\ ~ AwaitsRuntime(s)'
      BY <2>1, <2>3 DEF AwaitsRuntime, AtStage
    <3>2. /\ Accepted' = Accepted
          /\ Lost' = IF pc'[s] = "died" THEN Lost \cup {s} ELSE Lost \ {s}
          /\ Held' = Held \ {s}
      BY <2>1, <3>1, OwnSession
    <3>3. (s \in Lost <=> pc[s] = "died") /\ s \notin Held
      BY <3>1 DEF Lost, Held
    <3>4. Held' = Held /\ Lost' = Lost
      BY <2>1, <3>2, <3>3
    <3> QED BY <1>0, <2>1, <3>2, <3>4, Mapping
  <2> QED BY <2>2, <2>3
<1>4. ASSUME NEW s \in Sessions, NEW st \in Stages,
             StageSkip(s, st) \/ StageOk(s, st) \/ StageErr(s, st)
      PROVE  RL!Next \/ UNCHANGED RL!vars
  <2>1. /\ pc[s] \in {"static", "llm", "sandbox"} /\ pc' = [pc EXCEPT ![s] = NextStage[st]]
        /\ NextStage[st] \in {"llm", "sandbox", "report"}
    BY <1>4 DEF StageSkip, StageOk, StageErr, AtStage, Stages, NextStage
  <2>2. /\ \A t \in Sessions \ {s} : UNCHANGED <<pc[t], outbox[t], snapshot[t]>>
        /\ UNCHANGED <<reports, stored>>
    BY <1>4, Unchanged DEF StageSkip, StageOk, StageErr
  <2> QED BY <2>1, <2>2, HeldStep
<1>5. ASSUME NEW s \in Sessions, NEW st \in Stages, StagePanic(s, st) PROVE RL!Next
  <2>1. /\ pc[s] \in {"static", "llm", "sandbox"} /\ pc'[s] = "died"
        /\ \A t \in Sessions \ {s} : UNCHANGED <<pc[t], outbox[t], snapshot[t]>>
        /\ UNCHANGED <<reports, stored>>
    BY <1>5, Unchanged DEF StagePanic, AtStage, Stages
  <2>2. ~ AwaitsRuntime(s)'
    BY <2>1 DEF AwaitsRuntime, AtStage
  <2>3. Accepted' = Accepted /\ Lost' = Lost \cup {s} /\ Held' = Held \ {s}
    BY <2>1, <2>2, OwnSession
  <2>4. s \in Accepted \ (Published \cup Lost)
    BY <2>1 DEF Accepted, Lost, Published, ReporterInv
  <2>5. RL!Lose(s)
    BY <1>0, <2>1, <2>3, <2>4, Mapping
  <2> QED BY <2>5, Mapping
<1>6. ASSUME NEW s \in Sessions, StoreReport(s) PROVE RL!Next
  BY <1>6, StoreReportPublishes, Mapping
<1>7. ASSUME NEW s \in Sessions, End(s) PROVE UNCHANGED RL!vars
  <2>1. /\ \A t \in Sessions \ {s} : UNCHANGED <<pc[t], outbox[t], snapshot[t]>>
        /\ UNCHANGED <<reports, stored>> /\ pc[s] = "closing" /\ pc'[s] = "ended"
    BY <1>7, Unchanged DEF End
  <2>2. ~ AwaitsRuntime(s) /\ ~ AwaitsRuntime(s)'
    BY <2>1 DEF AwaitsRuntime, AtStage
  <2>3. Held' = Held /\ Lost' = Lost /\ Accepted' = Accepted
    BY <2>1, <2>2, OwnSession DEF Held, Lost
  <2> QED BY <1>0, <2>1, <2>3, Mapping
<1>8. ASSUME NEW c \in Configs, Reload(c) PROVE UNCHANGED RL!vars
  <2>1. UNCHANGED <<pc, outbox, snapshot, reports, stored>>
    BY <1>8, Unchanged DEF Reload
  <2>2. UNCHANGED <<Accepted, Lost, Held>>
    BY <2>1 DEF Accepted, Lost, Held, AwaitsRuntime, AtStage, Wanted, Allows
  <2> QED BY <1>0, <2>1, <2>2, Mapping
<1>9. CASE UNCHANGED vars
  <2>1. UNCHANGED <<pc, outbox, snapshot, reports, stored>>
    BY <1>9, Unchanged
  <2>2. UNCHANGED <<Accepted, Lost, Held>>
    BY <2>1 DEF Accepted, Lost, Held, AwaitsRuntime, AtStage, Wanted, Allows
  <2> QED BY <1>0, <2>1, <2>2, Mapping
<1> QED BY <1>1, <1>2, <1>3, <1>4, <1>5, <1>6, <1>7, <1>8, <1>9 DEF Next, TaskStep

\* The safety part of ImplementsReportLog: an accepted submission is reported on at
\* most once and never after it was lost, and the store shows the latest, whatever the
\* interleaving.
THEOREM Logged == Spec => RL!Init /\ [][RL!Next]_(RL!vars)
<1>1. Init => RL!Init
  <2> SUFFICES ASSUME Init PROVE /\ Accepted = {} /\ Published = {} /\ Shown = << >>
                                  /\ Lost = {} /\ Held = {}
    BY Mapping
  <2> QED BY DEF Init, Accepted, Published, Shown, Lost, Held, AwaitsRuntime, AtStage
<1> QED BY <1>1, Invariant, LogStep, PTL DEF Spec

--------------------------------------------------------------------------------
(* The stream                                                              *)

KeysOf(findings) == {findings[i].key : i \in DOMAIN findings}
KeysIn(events) == {events[k].finding.key : k \in {j \in DOMAIN events : events[j].type = "Finding"}}

\* What a task still at work has said, when it holds these findings.
Underway(events, findings) ==
  /\ events # << >> /\ events[1].type = "Started"
  /\ \A k \in DOMAIN events : events[k].type # "Done"
  /\ KeysIn(events) = KeysOf(findings)

\* What one that has stored its report has said.
Concluded(events) ==
  /\ events # << >> /\ events[1].type = "Started"
  /\ \A k \in DOMAIN events : events[k].type = "Done" <=> k = Len(events)
  /\ KeysIn(events) = {f.key : f \in events[Len(events)].report.findings}

Tells(s) ==
  /\ pc[s] = "idle" => outbox[s] = << >> /\ channel[s] = << >> /\ received[s] = << >>
                         /\ all_findings[s] = << >>
  /\ pc[s] \in {"static", "llm", "sandbox", "report"} /\ receiver[s] = "open" =>
       Underway(Emitted(s), all_findings[s])
  /\ pc[s] \in {"closing", "ended"} /\ receiver[s] = "open" => Concluded(Emitted(s))

TellsInv == \A s \in Sessions : Tells(s)

\* Deduplication drops no key: the first finding that has a key stays.
LEMMA KeysStay ==
  ASSUME NEW findings \in Seq(Finding)
  PROVE  {f.key : f \in Deduplicated(findings)} = KeysOf(findings)
<1>1. {f.key : f \in Deduplicated(findings)} \subseteq KeysOf(findings)
  BY DEF Deduplicated, KeysOf
<1>2. ASSUME NEW i \in DOMAIN findings
      PROVE  \E f \in Deduplicated(findings) : f.key = findings[i].key
  <2> DEFINE T == {j \in DOMAIN findings : findings[j].key = findings[i].key}
  <2>1. DOMAIN findings = 1..Len(findings) /\ Len(findings) \in Nat
    BY LenProperties
  <2>2. T \in SUBSET Nat /\ T # {}
    BY <2>1
  <2> HIDE DEF T
  <2>3. PICK j \in T : \A k \in T : j <= k
    BY <2>2, Least
  <2>4. j \in DOMAIN findings /\ findings[j].key = findings[i].key
    BY DEF T
  <2>5. \A k \in 1..(j - 1) : findings[k].key # findings[j].key
    BY <2>1, <2>3, <2>4 DEF T
  <2>6. findings[j] \in Deduplicated(findings)
    BY <2>4, <2>5 DEF Deduplicated
  <2> QED BY <2>4, <2>6
<1>3. KeysOf(findings) \subseteq {f.key : f \in Deduplicated(findings)}
  BY <1>2 DEF KeysOf
<1> QED BY <1>1, <1>3

\* The keys of two lists of findings, and of two runs of events.
LEMMA KeysConcat ==
  /\ \A f, g \in Seq(Finding) : KeysOf(f \o g) = KeysOf(f) \cup KeysOf(g)
  /\ \A e, n \in Seq(Events) : KeysIn(e \o n) = KeysIn(e) \cup KeysIn(n)
<1>1. ASSUME NEW f \in Seq(Finding), NEW g \in Seq(Finding)
      PROVE  KeysOf(f \o g) = KeysOf(f) \cup KeysOf(g)
  <2> DEFINE all == f \o g
  <2>1. /\ \A i \in DOMAIN f : i \in DOMAIN all /\ all[i] = f[i]
        /\ \A i \in DOMAIN g : Len(f) + i \in DOMAIN all /\ all[Len(f) + i] = g[i]
        /\ \A i \in DOMAIN all : i \in DOMAIN f \/ \E j \in DOMAIN g : i = Len(f) + j
    BY InConcat
  <2> HIDE DEF all
  <2>2. KeysOf(all) = KeysOf(f) \cup KeysOf(g)
    BY <2>1 DEF KeysOf
  <2> QED BY <2>2 DEF all
<1>2. ASSUME NEW e \in Seq(Events), NEW n \in Seq(Events)
      PROVE  KeysIn(e \o n) = KeysIn(e) \cup KeysIn(n)
  <2> DEFINE all == e \o n
  <2>1. /\ \A i \in DOMAIN e : i \in DOMAIN all /\ all[i] = e[i]
        /\ \A i \in DOMAIN n : Len(e) + i \in DOMAIN all /\ all[Len(e) + i] = n[i]
        /\ \A i \in DOMAIN all : i \in DOMAIN e \/ \E j \in DOMAIN n : i = Len(e) + j
    BY InConcat
  <2> HIDE DEF all
  <2>2. KeysIn(all) = KeysIn(e) \cup KeysIn(n)
    BY <2>1 DEF KeysIn
  <2> QED BY <2>2 DEF all
<1> QED BY <1>1, <1>2

\* A stage that says what it has found leaves the task under way.
LEMMA StaysUnderway ==
  ASSUME NEW events \in Seq(Events), NEW findings \in Seq(Finding), Underway(events, findings),
         NEW new \in Seq(Events), NEW more \in Seq(Finding),
         \A k \in DOMAIN new : new[k].type # "Done", KeysIn(new) = KeysOf(more)
  PROVE  Underway(events \o new, findings \o more)
<1> DEFINE all == events \o new
<1>1. /\ \A i \in DOMAIN events : i \in DOMAIN all /\ all[i] = events[i]
      /\ \A i \in DOMAIN new : all[Len(events) + i] = new[i]
      /\ \A i \in DOMAIN all : i \in DOMAIN events \/ \E j \in DOMAIN new : i = Len(events) + j
  BY InConcat
<1>2. KeysIn(all) = KeysOf(findings \o more)
  <2>1. KeysIn(all) = KeysIn(events) \cup KeysIn(new)
    BY KeysConcat, Zenon
  <2>2. KeysOf(findings \o more) = KeysOf(findings) \cup KeysOf(more)
    BY KeysConcat, Zenon
  <2> QED BY <2>1, <2>2 DEF Underway
<1>3. 1 \in DOMAIN events
  BY EmptySeq, LenProperties DEF Underway
<1> HIDE DEF all
<1>4. all # << >> /\ all[1].type = "Started" /\ \A k \in DOMAIN all : all[k].type # "Done"
  BY <1>1, <1>3 DEF Underway
<1> QED BY <1>2, <1>4 DEF Underway, all

\* A report that has the findings said so far concludes what is said.
LEMMA Concludes ==
  ASSUME NEW events \in Seq(Events), NEW findings \in Seq(Finding), Underway(events, findings),
         NEW r \in Reports, r.findings = Deduplicated(findings)
  PROVE  Concluded(events \o <<DoneEvent(r)>>)
<1> DEFINE done == DoneEvent(r)
           all == events \o <<done>>
<1>1. done \in Events /\ <<done>> \in Seq(Events) /\ done.type = "Done" /\ done.report = r
  BY EventIsEvent DEF DoneEvent
<1>2. KeysIn(<<done>>) = {}
  BY <1>1 DEF KeysIn
<1> HIDE DEF done
<1>3. KeysIn(all) = {f.key : f \in r.findings}
  <2>1. KeysIn(all) = KeysIn(events) \cup KeysIn(<<done>>)
    BY <1>1, KeysConcat, Zenon
  <2>2. KeysIn(events) = {f.key : f \in r.findings}
    BY KeysStay DEF Underway
  <2> QED BY <1>2, <2>1, <2>2
<1>4. /\ Len(all) = Len(events) + 1 /\ all[Len(all)] = done
      /\ DOMAIN all = 1..(Len(events) + 1) /\ DOMAIN events = 1..Len(events)
      /\ Len(events) \in Nat \ {0}
      /\ \A i \in 1..Len(events) : all[i] = events[i]
  <2>1. all = Append(events, done)
    BY <1>1, AppendIsConcat
  <2>2. Len(events) \in Nat \ {0} /\ DOMAIN events = 1..Len(events)
    BY EmptySeq, LenProperties DEF Underway
  <2>3. /\ Append(events, done) \in Seq(Events)
        /\ Len(Append(events, done)) = Len(events) + 1
        /\ Append(events, done)[Len(events) + 1] = done
        /\ \A i \in 1..Len(events) : Append(events, done)[i] = events[i]
    BY <1>1, AppendProperties
  <2> QED BY <2>1, <2>2, <2>3, LenProperties
<1> HIDE DEF all
<1>5. all # << >> /\ all[1].type = "Started"
  <2>1. 1 \in DOMAIN all /\ 1 \in 1..Len(events)
    BY <1>4
  <2> QED BY <1>4, <2>1 DEF Underway
<1>6. ASSUME NEW k \in DOMAIN all PROVE all[k].type = "Done" <=> k = Len(all)
  <2>1. k \in 1..Len(events) \/ k = Len(all)
    BY <1>4
  <2>2. ASSUME k \in 1..Len(events) PROVE all[k].type # "Done" /\ k # Len(all)
    BY <1>4, <2>2 DEF Underway
  <2> QED BY <1>1, <1>4, <2>1, <2>2
<1>7. Concluded(all)
  BY <1>1, <1>3, <1>4, <1>5, <1>6 DEF Concluded
<1> QED BY <1>7 DEF all, done

\* An event that is sent leaves what is emitted as it is.
LEMMA SentAlong ==
  \A r, s, t \in Seq(Events) :
    t # << >> => (r \o Append(s, Head(t))) \o Tail(t) = (r \o s) \o t
<1> DEFINE S == Events
<1> SUFFICES ASSUME NEW r \in Seq(S), NEW s \in Seq(S), NEW t \in Seq(S), t # << >>
             PROVE  (r \o Append(s, Head(t))) \o Tail(t) = (r \o s) \o t
  OBVIOUS
<1> HIDE DEF S
<1>1. Head(t) \in S /\ Tail(t) \in Seq(S)
  BY HeadTailProperties
<1>2. Append(s, Head(t)) \in Seq(S)
  BY <1>1, AppendProperties
<1>3. ASSUME NEW x \in Seq(S), NEW y \in Seq(S), NEW z \in Seq(S)
      PROVE  (x \o y) \o z = x \o (y \o z)
  BY ConcatAssociative, SMTT(30)
<1>4. (r \o Append(s, Head(t))) \o Tail(t) = r \o (Append(s, Head(t)) \o Tail(t))
  BY <1>1, <1>2, <1>3, ZenonT(30)
<1>5. (r \o s) \o t = r \o (s \o t)
  BY ConcatAssociative
<1> QED BY <1>4, <1>5, MoveHead

\* What is emitted is a sequence of events; with nothing to send it is what the
\* channel and the receiver have.
LEMMA EmittedIsSeq ==
  ASSUME StreamTypeOK, NEW s \in Sessions
  PROVE  /\ Emitted(s) \in Seq(Events) /\ received[s] \o channel[s] \in Seq(Events)
         /\ outbox[s] = << >> => Emitted(s) = received[s] \o channel[s]
<1>1. received[s] \o channel[s] \in Seq(Events)
  BY ConcatProperties DEF StreamTypeOK
<1>2. (received[s] \o channel[s]) \o outbox[s] \in Seq(Events)
  BY <1>1, ConcatProperties DEF StreamTypeOK
<1>3. (received[s] \o channel[s]) \o << >> = received[s] \o channel[s]
  BY <1>1, ConcatEmptySeq
<1> QED BY <1>1, <1>2, <1>3 DEF Emitted

\* What has to be shown of the session a step is about.
LEMMA TellsNext ==
  ASSUME NEW s \in Sessions, pc'[s] # "idle",
         /\ pc'[s] \in {"static", "llm", "sandbox", "report"} /\ receiver'[s] = "open" =>
              Underway(Emitted(s)', all_findings'[s])
         /\ pc'[s] \in {"closing", "ended"} /\ receiver'[s] = "open" => Concluded(Emitted(s)')
  PROVE  Tells(s)'
BY DEF Tells, Underway, Concluded, KeysIn, KeysOf, Emitted

\* A session that a step does not touch tells what it told.
LEMMA Untouched ==
  ASSUME NEW s \in Sessions, Tells(s),
         UNCHANGED <<pc[s], receiver[s], outbox[s], channel[s], received[s], all_findings[s]>>
  PROVE  Tells(s)'
<1>1. Emitted(s)' = Emitted(s)
  BY DEF Emitted
<1>2. CASE pc[s] = "idle"
  BY <1>2 DEF Tells
<1>3. CASE pc[s] # "idle"
  BY <1>1, <1>3, TellsNext DEF Tells
<1> QED BY <1>2, <1>3

\* Every step keeps what the stream of a session tells true.
LEMMA TellsStep ==
  ASSUME TypeOK, StreamTypeOK, TellsInv, [Next]_vars
  PROVE  TellsInv'
<1> USE DEF TypeOK, StreamTypeOK
<1>0. \A s \in Sessions : Tells(s)
  BY DEF TellsInv
<1>1. ASSUME NEW s \in Sessions, Submit(s) PROVE TellsInv'
  <2>1. \A t \in Sessions \ {s} :
          UNCHANGED <<pc[t], receiver[t], outbox[t], channel[t], received[t], all_findings[t]>>
    BY <1>1, Unchanged DEF Submit
  <2>2. Tells(s)'
    <3>1. CASE config.enabled
      <4>1. /\ pc'[s] = "static" /\ outbox'[s] = <<Event("Started")>>
            /\ channel'[s] = << >> /\ received'[s] = << >> /\ all_findings'[s] = << >>
        BY <1>0, <1>1, <3>1, Unchanged DEF Submit, Tells
      <4>2. Emitted(s)' = <<Event("Started")>>
        BY <4>1 DEF Emitted
      <4>3. Underway(<<Event("Started")>>, << >>)
        BY DEF Underway, KeysIn, KeysOf, Event
      <4> QED BY <4>1, <4>2, <4>3, TellsNext
    <3>2. CASE ~ config.enabled
      <4>1. pc'[s] = "refused"
        BY <1>1, <3>2 DEF Submit
      <4> QED BY <4>1, TellsNext
    <3> QED BY <3>1, <3>2
  <2> QED BY <1>0, <2>1, <2>2, Untouched DEF TellsInv
<1>2. ASSUME NEW s \in Sessions, Send(s) PROVE TellsInv'
  <2>1. \A t \in Sessions \ {s} :
          UNCHANGED <<pc[t], receiver[t], outbox[t], channel[t], received[t], all_findings[t]>>
    BY <1>2, Unchanged DEF Send
  <2>2. /\ outbox[s] # << >> /\ pc[s] # "idle"
        /\ pc'[s] = pc[s] /\ receiver'[s] = receiver[s] /\ all_findings'[s] = all_findings[s]
    BY <1>0, <1>2, Unchanged DEF Send, Tells
  <2>3. ASSUME receiver[s] = "open" PROVE Emitted(s)' = Emitted(s)
    <3>1. /\ channel'[s] = Append(channel[s], Head(outbox[s])) /\ outbox'[s] = Tail(outbox[s])
          /\ received'[s] = received[s]
      BY <1>2, <2>3 DEF Send
    <3>2. (received[s] \o Append(channel[s], Head(outbox[s]))) \o Tail(outbox[s])
            = (received[s] \o channel[s]) \o outbox[s]
      <4>1. /\ received[s] \in Seq(Events) /\ channel[s] \in Seq(Events)
            /\ outbox[s] \in Seq(Events)
        OBVIOUS
      <4> QED BY <2>2, <4>1, SentAlong, Zenon
    <3> QED BY <3>1, <3>2 DEF Emitted
  <2>4. Tells(s)'
    BY <1>0, <2>2, <2>3, TellsNext DEF Tells
  <2> QED BY <1>0, <2>1, <2>4, Untouched DEF TellsInv
<1>3. ASSUME NEW s \in Sessions, NEW st \in Stages,
             StageSkip(s, st) \/ StageOk(s, st) \/ StageErr(s, st)
      PROVE  TellsInv'
  <2>1. \A t \in Sessions \ {s} :
          UNCHANGED <<pc[t], receiver[t], outbox[t], channel[t], received[t], all_findings[t]>>
    BY <1>3, Unchanged DEF StageSkip, StageOk, StageErr
  <2>2. /\ pc[s] \in {"static", "llm", "sandbox"} /\ pc'[s] \in {"llm", "sandbox", "report"}
        /\ outbox[s] = << >> /\ UNCHANGED <<receiver, channel, received>>
    BY <1>3, Unchanged DEF StageSkip, StageOk, StageErr, AtStage, Stages, NextStage
  <2>3. /\ Emitted(s) \in Seq(Events) /\ Emitted(s) = received[s] \o channel[s]
        /\ receiver[s] = "open" => Underway(Emitted(s), all_findings[s])
        /\ Emitted(s)' = Emitted(s) \o outbox'[s]
    BY <1>0, <2>2, EmittedIsSeq DEF Tells, Emitted
  <2>4. CASE StageSkip(s, st)
    <3>1. outbox'[s] = << >> /\ all_findings'[s] = all_findings[s]
      BY <2>2, <2>4 DEF StageSkip
    <3>2. Emitted(s)' = Emitted(s)
      BY <2>3, <3>1, ConcatEmptySeq
    <3> QED BY <1>0, <2>1, <2>2, <2>3, <3>1, <3>2, TellsNext, Untouched DEF TellsInv
  <2>5. CASE StageOk(s, st)
    <3>1. PICK findings \in Results[st] :
            /\ outbox'[s] = [i \in DOMAIN findings |-> FindingEvent(findings[i])]
            /\ all_findings'[s] = all_findings[s] \o findings
      BY <2>5 DEF StageOk
    <3>2. findings \in Seq(Finding)
      BY ConstantsAssumption
    <3> DEFINE new == [i \in DOMAIN findings |-> FindingEvent(findings[i])]
    <3>3. new \in Seq(Events)
      BY <3>2, FindingEvents
    <3>4. (\A k \in DOMAIN new : new[k].type # "Done") /\ KeysIn(new) = KeysOf(findings)
      BY DEF FindingEvent, KeysIn, KeysOf
    <3>5. outbox'[s] = new
      BY <3>1
    <3> HIDE DEF new
    <3>6. receiver[s] = "open" => Underway(Emitted(s) \o new, all_findings[s] \o findings)
      BY <2>3, <3>2, <3>3, <3>4, StaysUnderway
    <3>7. Tells(s)'
      BY <2>2, <2>3, <3>1, <3>5, <3>6, TellsNext
    <3> QED BY <1>0, <2>1, <3>7, Untouched DEF TellsInv
  <2>6. CASE StageErr(s, st)
    <3>1. outbox'[s] = <<AnalyzerError(st)>> /\ all_findings'[s] = all_findings[s]
      BY <2>6 DEF StageErr
    <3>2. /\ <<AnalyzerError(st)>> \in Seq(Events) /\ << >> \in Seq(Finding)
          /\ \A k \in DOMAIN <<AnalyzerError(st)>> : <<AnalyzerError(st)>>[k].type # "Done"
          /\ KeysIn(<<AnalyzerError(st)>>) = {} /\ KeysOf(<< >>) = {}
      BY EventIsEvent DEF AnalyzerError, KeysIn, KeysOf
    <3>3. all_findings[s] \o << >> = all_findings[s]
      BY ConcatEmptySeq
    <3>4. receiver[s] = "open" => Underway(Emitted(s) \o outbox'[s], all_findings[s] \o << >>)
      BY <2>3, <3>1, <3>2, StaysUnderway
    <3>5. Tells(s)'
      BY <2>2, <2>3, <3>1, <3>3, <3>4, TellsNext
    <3> QED BY <1>0, <2>1, <3>5, Untouched DEF TellsInv
  <2> QED BY <1>3, <2>4, <2>5, <2>6
<1>4. ASSUME NEW s \in Sessions, StoreReport(s) PROVE TellsInv'
  <2>1. \A t \in Sessions \ {s} :
          UNCHANGED <<pc[t], receiver[t], outbox[t], channel[t], received[t], all_findings[t]>>
    BY <1>4, Unchanged DEF StoreReport
  <2>0. PICK r : r = ReportOf(s)
    OBVIOUS
  <2>2. /\ pc[s] = "report" /\ pc'[s] = "closing" /\ outbox[s] = << >>
        /\ outbox'[s] = <<DoneEvent(r)>> /\ UNCHANGED <<receiver, channel, received>>
    BY <1>4, <2>0, Unchanged DEF StoreReport
  <2>3. r \in Reports /\ r.findings = Deduplicated(all_findings[s])
    BY <2>0, ReportIsReport
  <2>4. /\ Emitted(s) \in Seq(Events) /\ Emitted(s) = received[s] \o channel[s]
        /\ receiver[s] = "open" => Underway(Emitted(s), all_findings[s])
        /\ Emitted(s)' = Emitted(s) \o <<DoneEvent(r)>>
    BY <1>0, <2>2, EmittedIsSeq DEF Tells, Emitted
  <2>5. receiver[s] = "open" => Concluded(Emitted(s) \o <<DoneEvent(r)>>)
    BY <2>3, <2>4, Concludes
  <2>6. Tells(s)'
    BY <2>2, <2>4, <2>5, TellsNext
  <2> QED BY <1>0, <2>1, <2>6, Untouched DEF TellsInv
<1>5. ASSUME NEW s \in Sessions, End(s) PROVE TellsInv'
  <2>1. \A t \in Sessions \ {s} :
          UNCHANGED <<pc[t], receiver[t], outbox[t], channel[t], received[t], all_findings[t]>>
    BY <1>5, Unchanged DEF End
  <2>2. /\ pc[s] = "closing" /\ pc'[s] = "ended"
        /\ UNCHANGED <<receiver, outbox, channel, received>>
    BY <1>5, Unchanged DEF End
  <2>3. Emitted(s)' = Emitted(s)
    BY <2>2 DEF Emitted
  <2>4. Tells(s)'
    BY <1>0, <2>2, <2>3, TellsNext DEF Tells
  <2> QED BY <1>0, <2>1, <2>4, Untouched DEF TellsInv
<1>6. ASSUME NEW s \in Sessions, Receive(s) PROVE TellsInv'
  <2>1. \A t \in Sessions \ {s} :
          UNCHANGED <<pc[t], receiver[t], outbox[t], channel[t], received[t], all_findings[t]>>
    BY <1>6, Unchanged DEF Receive
  <2>2. /\ channel[s] # << >> /\ pc[s] # "idle"
        /\ pc'[s] = pc[s] /\ receiver'[s] = receiver[s] /\ all_findings'[s] = all_findings[s]
        /\ received'[s] = Append(received[s], Head(channel[s])) /\ channel'[s] = Tail(channel[s])
        /\ outbox'[s] = outbox[s]
    BY <1>0, <1>6, Unchanged DEF Receive, Tells
  <2>3. Emitted(s)' = Emitted(s)
    <3>1. Append(received[s], Head(channel[s])) \o Tail(channel[s]) = received[s] \o channel[s]
      BY <2>2, MoveHead, SMTT(30)
    <3> QED BY <2>2, <3>1 DEF Emitted
  <2>4. Tells(s)'
    BY <1>0, <2>2, <2>3, TellsNext DEF Tells
  <2> QED BY <1>0, <2>1, <2>4, Untouched DEF TellsInv
<1>7. ASSUME NEW s \in Sessions, DropReceiver(s) PROVE TellsInv'
  <2>1. \A t \in Sessions \ {s} :
          UNCHANGED <<pc[t], receiver[t], outbox[t], channel[t], received[t], all_findings[t]>>
    BY <1>7, Unchanged DEF DropReceiver
  <2>2. pc'[s] # "idle" /\ receiver'[s] # "open"
    BY <1>7, Unchanged DEF DropReceiver
  <2>3. Tells(s)'
    BY <2>2, TellsNext
  <2> QED BY <1>0, <2>1, <2>3, Untouched DEF TellsInv
<1>8. CASE (\E c \in Configs : Reload(c)) \/ UNCHANGED vars
  <2>1. \A t \in Sessions :
          UNCHANGED <<pc[t], receiver[t], outbox[t], channel[t], received[t], all_findings[t]>>
    BY <1>8, Unchanged DEF Reload
  <2> QED BY <1>0, <2>1, Untouched DEF TellsInv
<1>9. ASSUME NEW s \in Sessions, NEW st \in Stages, StagePanic(s, st) PROVE TellsInv'
  <2>1. \A t \in Sessions \ {s} :
          UNCHANGED <<pc[t], receiver[t], outbox[t], channel[t], received[t], all_findings[t]>>
    BY <1>9, Unchanged DEF StagePanic
  <2>2. pc'[s] = "died"
    BY <1>9 DEF StagePanic
  <2>3. Tells(s)'
    BY <2>2, TellsNext
  <2> QED BY <1>0, <2>1, <2>3, Untouched DEF TellsInv
<1> QED BY <1>1, <1>2, <1>3, <1>4, <1>5, <1>6, <1>7, <1>8, <1>9 DEF Next, TaskStep

\* What the stream tells holds in every reachable state.
LEMMA TellsInvariant == Spec => [](IInv /\ TellsInv)
<1>1. Init => TellsInv
  <2> SUFFICES ASSUME Init, NEW s \in Sessions PROVE Tells(s)
    BY DEF TellsInv
  <2> QED BY DEF Init, Tells
<1>2. IInv /\ TellsInv /\ [Next]_vars => TellsInv'
  BY TellsStep DEF IInv
<1> QED BY <1>1, <1>2, Invariant, PTL DEF Spec

\* However slowly the caller drains the channel and whatever the stages return, the
\* events of a session that was reported on begin with Started, end with the one
\* Done, and show the findings of its report and no others.
THEOREM StreamTold == Spec => []StreamTellsReport
<1>1. IInv /\ TellsInv => StreamTellsReport
  <2> SUFFICES ASSUME IInv, TellsInv, NEW s \in Sessions,
                      pc[s] \in {"closing", "ended"}, receiver[s] = "open"
               PROVE  /\ Head(Emitted(s)).type = "Started"
                      /\ {i \in DOMAIN Emitted(s) : Emitted(s)[i].type = "Done"} = {Len(Emitted(s))}
                      /\ KeysStreamed(s) = {f.key : f \in Last(Emitted(s)).report.findings}
    BY DEF StreamTellsReport
  <2>1. PICK e : e = Emitted(s)
    OBVIOUS
  <2>2. e \in Seq(Events)
    BY <2>1, EmittedIsSeq DEF IInv
  <2>3. Concluded(e)
    BY <2>1 DEF TellsInv, Tells
  <2>4. Len(e) \in DOMAIN e
    BY <2>2, <2>3, EmptySeq, LenProperties DEF Concluded
  <2>5. Head(e).type = "Started"
    BY <2>2, <2>3 DEF Concluded
  <2>6. {i \in DOMAIN e : e[i].type = "Done"} = {Len(e)}
    BY <2>3, <2>4 DEF Concluded
  <2>7. {x.finding.key : x \in {y \in ToSet(e) : y.type = "Finding"}} = KeysIn(e)
    BY DEF ToSet, KeysIn
  <2>8. KeysStreamed(s) = {f.key : f \in Last(e).report.findings}
    BY <2>1, <2>3, <2>7 DEF KeysStreamed, Concluded, Last
  <2> QED BY <2>1, <2>5, <2>6, <2>8
<1> QED BY <1>1, TellsInvariant, PTL


--------------------------------------------------------------------------------
(* The configuration and what was made of it                               *)

\* An engine has its parts, which agree, and what it read is within the bounds.
SetupInv ==
  /\ DOMAIN engine = {"config", "llm_reviewer", "sandbox", "byHand"}
  /\ engine = [part \in DOMAIN engine |-> engine[part]]
  /\ SaneWhenLoaded /\ PartsAgree

\* Whatever the file says, what is loaded of it is within the bounds.
LEMMA LoadedSane ==
  ASSUME NEW f
  PROVE  \A b \in DOMAIN Bounds : load_from(f)[b] = Within(load_from(f)[b], Bounds[b])
<1>1. ASSUME NEW b \in DOMAIN Bounds, NEW x
      PROVE  Within(Within(x, Bounds[b]), Bounds[b]) = Within(x, Bounds[b])
  BY <1>1 DEF Within, Bounds
<1>2. DOMAIN Bounds \subseteq DOMAIN Default
  BY DEF Default, Bounds
<1>3. PICK c : load_from(f) = clamp(c) /\ DOMAIN Bounds \subseteq DOMAIN c
  BY <1>2 DEF load_from
<1>4. \A b \in DOMAIN Bounds : clamp(c)[b] = Within(c[b], Bounds[b])
  BY <1>3 DEF clamp
<1> QED BY <1>1, <1>3, <1>4

\* An engine that is made anew is right whatever is on disk.
LEMMA MadeRight ==
  ASSUME NEW server,
         \/ engine = with_ollama(server)
         \/ \E c \in GivenConfigs : engine = with_config(c, server)
  PROVE  SetupInv
<1>1. CASE engine = with_ollama(server)
  <2>1. PICK c : c = load_from(file)
    OBVIOUS
  <2>2. /\ DOMAIN engine = {"config", "llm_reviewer", "sandbox", "byHand"}
        /\ engine = [part \in DOMAIN engine |-> engine[part]]
        /\ engine.config = c /\ engine.sandbox = Sandbox(c)
        /\ engine.llm_reviewer = Reviewer(c, server)
    BY <1>1, <2>1 DEF with_ollama, with_config
  <2>3. Reviewer(c, server).server = server
    BY DEF Reviewer
  <2> QED BY <2>1, <2>2, <2>3, LoadedSane DEF SetupInv, SaneWhenLoaded, PartsAgree
<1>2. ASSUME NEW c \in GivenConfigs, engine = with_config(c, server) PROVE SetupInv
  <2>1. /\ DOMAIN engine = {"config", "llm_reviewer", "sandbox", "byHand"}
        /\ engine = [part \in DOMAIN engine |-> engine[part]]
        /\ engine.config = c /\ engine.sandbox = Sandbox(c)
        /\ engine.llm_reviewer = Reviewer(c, server) /\ engine.byHand
    BY <1>2 DEF with_config
  <2>2. Reviewer(c, server).server = server
    BY DEF Reviewer
  <2> QED BY <2>1, <2>2 DEF SetupInv, SaneWhenLoaded, PartsAgree
<1> QED BY <1>1, <1>2

\* An engine that is made after a crash.
Remade == \E s \in Servers : engine = with_ollama(s)

\* It is right too.
LEMMA RemadeRight == Remade => SetupInv
BY MadeRight DEF Remade

\* The parts agree, and what was loaded stays within the bounds, through edits,
\* reloads, saves and crashes.
LEMMA SetupRight == AnalysisSpec => []SetupInv
<1>1. AnalysisInit => SetupInv
  BY MadeRight DEF AnalysisInit, SetupInit
<1>2. SetupInv /\ [AnalysisNext]_analysis => SetupInv'
  <2> SUFFICES ASSUME SetupInv, [AnalysisNext]_analysis PROVE SetupInv'
    OBVIOUS
  <2>1. CASE UNCHANGED engine
    BY <2>1 DEF SetupInv, SaneWhenLoaded, PartsAgree
  <2>2. CASE reload_config
    <3>1. PICK c : c = load_from(file) /\ \A b \in DOMAIN Bounds : c[b] = Within(c[b], Bounds[b])
      BY LoadedSane
    <3>2. PICK p, q : p = Reviewer(c, DefaultServer) /\ q = Sandbox(c)
      OBVIOUS
    <3>3. engine' = [engine EXCEPT !.config = c, !.byHand = FALSE, !.llm_reviewer = p, !.sandbox = q]
      BY <2>2, <3>1, <3>2 DEF reload_config
    <3>4. /\ DOMAIN engine' = {"config", "llm_reviewer", "sandbox", "byHand"}
          /\ engine' = [part \in DOMAIN engine' |-> engine'[part]]
          /\ engine'.config = c /\ engine'.llm_reviewer = p /\ engine'.sandbox = q
      BY <3>3 DEF SetupInv
    <3>5. p.server = DefaultServer
      BY <3>2 DEF Reviewer
    <3> QED BY <3>1, <3>2, <3>4, <3>5 DEF SetupInv, SaneWhenLoaded, PartsAgree
  <2>3. ASSUME NEW s \in Servers, Crash(s) PROVE SetupInv'
    <3>1. Remade'
      BY <2>3 DEF Crash, with_ollama, Remade
    <3>2. (Remade => SetupInv)'
      BY RemadeRight, PTL
    <3> QED BY <3>1, <3>2
  <2> QED BY <2>1, <2>2, <2>3
    DEF AnalysisNext, Setup, Edit, SaveTruncate, SaveWrite, Analyze, setup, analysis
<1> QED BY <1>1, <1>2, PTL DEF AnalysisSpec

\* An engine that read its configuration from the disk, whatever a user or an
\* interrupted save left there, has every setting within its bounds.
THEOREM LoadedIsSane == AnalysisSpec => []SaneWhenLoaded
<1>1. SetupInv => SaneWhenLoaded
  BY DEF SetupInv
<1> QED BY <1>1, SetupRight, PTL

\* The reviewer and the sandbox run with the settings of the configuration whose
\* stages the engine goes through, whatever has been loaded since it was made.
THEOREM AgreeAlways == AnalysisSpec => []PartsAgree
<1>1. SetupInv => PartsAgree
  BY DEF SetupInv
<1> QED BY <1>1, SetupRight, PTL

--------------------------------------------------------------------------------
(* The code blocks                                                         *)

\* The strings, some of them by name, which the provers know nothing of.
Langs == STRING \cup {"none", "output"}
Line == [fence : {TRUE}, of : STRING] \cup [fence : {FALSE}, of : DOMAIN Hits]
Block == [language : Langs, content : Seq(Line)]
ScanState == [in_block : BOOLEAN, lang : Langs, content : Seq(Line), blocks : Seq(Block)]

\* The states of the extraction, line after line.
IsScan(f, lines) ==
  /\ f \in [0..Len(lines) -> ScanState]
  /\ f[0] = Scanning
  /\ \A k \in 1..Len(lines) : f[k] = ExtractLine(f[k - 1], lines[k])
  /\ extract(lines) = f[Len(lines)].blocks

FencesTo(lines, k) == {j \in 1..k : lines[j].fence}

\* A line behind an odd number of fences, and a line with a fence behind it.
Opened(lines, j) == ~ lines[j].fence /\ Cardinality(FencesTo(lines, j - 1)) % 2 = 1
Shut(lines, j, k) == \E i \in (j + 1)..k : lines[i].fence

\* What the extraction has got after so many lines.
Scanned(st, lines, k) ==
  /\ st.in_block <=> Cardinality(FencesTo(lines, k)) % 2 = 1
  /\ \A j \in 1..k :
       Opened(lines, j) /\ ~ Shut(lines, j, k) =>
         st.in_block /\ \E i \in DOMAIN st.content : st.content[i] = lines[j]
  /\ st.in_block =>
       \A i \in DOMAIN st.content :
         \E j \in 1..k : st.content[i] = lines[j] /\ Opened(lines, j) /\ ~ Shut(lines, j, k)
  /\ \A j \in 1..k :
       Opened(lines, j) /\ Shut(lines, j, k) /\ lines[j].of \notin Blank =>
         \E b \in DOMAIN st.blocks :
           \E i \in DOMAIN st.blocks[b].content : st.blocks[b].content[i] = lines[j]
  /\ \A b \in DOMAIN st.blocks : \A i \in DOMAIN st.blocks[b].content :
       \E j \in 1..k :
         st.blocks[b].content[i] = lines[j] /\ Opened(lines, j) /\ Shut(lines, j, k)

\* What a line makes of a state.
LEMMA ExtractLineType ==
  ASSUME NEW st \in ScanState, NEW line \in Line
  PROVE  ExtractLine(st, line) \in ScanState
<1>1. /\ line.fence \in BOOLEAN /\ (line.fence => line.of \in Langs)
      /\ Append(st.content, line) \in Seq(Line) /\ << >> \in Seq(Line)
  <2>1. line.fence \in BOOLEAN /\ (line.fence => line.of \in Langs)
    BY DEF Line, Langs
  <2>2. Append(st.content, line) \in Seq(Line)
    <3>1. st.content \in Seq(Line)
      BY DEF ScanState
    <3> QED BY <3>1, AppendProperties
  <2> QED BY <2>1, <2>2
<1>2. PICK block : block = [language |-> st.lang, content |-> st.content] /\ block \in Block
  <2>1. [language |-> st.lang, content |-> st.content] \in Block
    BY DEF Block, ScanState
  <2> QED BY <2>1
<1>3. Append(st.blocks, block) \in Seq(Block)
  BY <1>2, AppendProperties DEF ScanState
<1>4. CASE ~ st.in_block /\ line.fence
  BY <1>1, <1>4 DEF ExtractLine, ScanState
<1>5. CASE st.in_block /\ line.fence
  BY <1>2, <1>3, <1>5 DEF ExtractLine, ScanState
<1>6. CASE ~ line.fence
  BY <1>1, <1>6 DEF ExtractLine, ScanState
<1> QED BY <1>1, <1>4, <1>5, <1>6

\* The extraction takes one line after the other.
LEMMA ExtractIsLast ==
  ASSUME NEW lines \in Seq(Line)
  PROVE  \E f : IsScan(f, lines)
<1> DEFINE V == ScanState
           D == DOMAIN lines
           n == Len(lines)
           step == [k \in 1..n |-> [st \in V |-> ExtractLine(st, lines[k])]]
           IsFold(iter) ==
             iter = [s \in SUBSET D |->
                       IF s = {} THEN Scanning ELSE ExtractLine(iter[s \ {Max(s)}], lines[Max(s)])]
           fold == CHOOSE iter : IsFold(iter)
           f == [k \in 0..n |-> fold[1..k]]
<1>1. D = 1..n /\ n \in Nat /\ \A k \in 1..n : lines[k] \in Line
  BY LenProperties, ElementOfSeq
<1>2. Scanning \in V
  BY DEF Scanning, ScanState, Langs
<1>3. step \in [1..n -> [V -> V]]
  BY <1>1, ExtractLineType
<1>4. PICK g \in [SUBSET (1..n) -> V] :
        \A s \in SUBSET (1..n) : g[s] = IF s = {} THEN Scanning ELSE step[Max(s)][g[s \ {Max(s)}]]
  <2>1. PICK g : IsFoldOver(g, V, n, Scanning, step)
    <3> HIDE DEF step, n, V
    <3> QED BY <1>1, <1>2, <1>3, FoldExists
  <2> HIDE DEF step, n
  <2> QED BY <2>1 DEF IsFoldOver
<1>5. ASSUME NEW s \in SUBSET (1..n), s # {}
      PROVE  Max(s) \in 1..n /\ s \ {Max(s)} \in SUBSET (1..n)
  <2>1. Max(s) \in s
    BY <1>1, <1>5, Greatest
  <2> QED BY <2>1
<1>6. IsFold(g)
  <2>1. \A s \in SUBSET (1..n) :
          g[s] = IF s = {} THEN Scanning ELSE ExtractLine(g[s \ {Max(s)}], lines[Max(s)])
    BY <1>4, <1>5
  <2> QED BY <1>1, <1>4, <2>1
<1>7. IsFold(fold)
  <2> HIDE DEF IsFold
  <2> QED BY <1>6
<1>8. extract(lines) = fold[D].blocks
  BY DEF extract, FoldLeft, MapThenFoldSet
<1> HIDE DEF fold
<1>9. f[0] = Scanning /\ extract(lines) = f[n].blocks
  <2>1. 1..0 = {} /\ 0 \in 0..n /\ n \in 0..n
    BY <1>1
  <2>2. fold[{}] = Scanning
    BY <1>7
  <2> QED BY <1>1, <1>8, <2>1, <2>2
<1>10. ASSUME NEW k \in 1..n PROVE f[k] = ExtractLine(f[k - 1], lines[k])
  <2>1. 1..k # {} /\ Max(1..k) = k /\ (1..k) \ {Max(1..k)} = 1..(k - 1)
    BY <1>1, FoldPrefix
  <2>2. 1..k \in SUBSET D /\ k \in 0..n /\ k - 1 \in 0..n
    BY <1>1
  <2>3. fold[1..k] = ExtractLine(fold[(1..k) \ {Max(1..k)}], lines[Max(1..k)])
    BY <1>7, <2>1, <2>2
  <2> QED BY <2>1, <2>2, <2>3
<1> DEFINE Odd == {k \in Nat : k <= n /\ f[k] \notin V}
<1>11. DOMAIN f = 0..n /\ f = [k \in 0..n |-> f[k]]
  OBVIOUS
<1> HIDE DEF f, V
<1>12. CASE Odd # {}
  <2>1. PICK k \in Odd : \A l \in Odd : k <= l
    BY <1>12, Least, Zenon
  <2>2. k \in Nat /\ k <= n /\ k # 0 /\ f[k] \notin V
    BY <1>2, <1>9, <2>1
  <2>3. k - 1 \in Nat /\ k - 1 <= n /\ ~ (k <= k - 1) /\ k \in 1..n
    BY <1>1, <2>2
  <2>4. f[k - 1] \in V
    BY <2>1, <2>3
  <2>5. f[k] \in V
    BY <1>1, <1>10, <2>3, <2>4, ExtractLineType DEF V
  <2> QED BY <2>2, <2>5
<1>13. CASE Odd = {}
  <2>1. \A k \in 0..n : k \in Nat /\ k <= n
    BY <1>1
  <2>2. \A k \in 0..n : f[k] \in V
    BY <1>13, <2>1
  <2>3. f \in [0..n -> ScanState]
    BY <1>11, <2>2 DEF V
  <2>4. IsScan(f, lines)
    BY <1>9, <1>10, <2>3 DEF IsScan
  <2> QED BY <2>4
<1> QED BY <1>12, <1>13

\* One more line is one more fence or none.
LEMMA FencesStep ==
  ASSUME NEW lines \in Seq(Line), NEW k \in 1..Len(lines)
  PROVE  /\ Cardinality(FencesTo(lines, k)) \in Nat
         /\ Cardinality(FencesTo(lines, k - 1)) \in Nat
         /\ Cardinality(FencesTo(lines, k)) =
              IF lines[k].fence THEN Cardinality(FencesTo(lines, k - 1)) + 1
              ELSE Cardinality(FencesTo(lines, k - 1))
<1>1. k \in Nat /\ k # 0 /\ k - 1 \in Nat /\ k - 1 < k
  BY LenProperties
<1>2. 1..k = (1..(k - 1)) \cup {k} /\ k \notin 1..(k - 1)
  BY <1>1
<1>3. IsFiniteSet(FencesTo(lines, k - 1))
  <2>1. IsFiniteSet(1..(k - 1))
    BY <1>1, FS_Interval
  <2>2. FencesTo(lines, k - 1) \in SUBSET (1..(k - 1))
    BY DEF FencesTo
  <2> QED BY <2>1, <2>2, FS_Subset
<1>4. Cardinality(FencesTo(lines, k - 1)) \in Nat
  BY <1>3, FS_CardinalityType
<1>5. CASE lines[k].fence
  <2>1. FencesTo(lines, k) = FencesTo(lines, k - 1) \cup {k} /\ k \notin FencesTo(lines, k - 1)
    BY <1>2, <1>5 DEF FencesTo
  <2>2. Cardinality(FencesTo(lines, k)) = Cardinality(FencesTo(lines, k - 1)) + 1
    BY <1>3, <2>1, FS_AddElement
  <2> QED BY <1>4, <1>5, <2>2
<1>6. CASE ~ lines[k].fence
  <2>1. FencesTo(lines, k) = FencesTo(lines, k - 1)
    BY <1>2, <1>6 DEF FencesTo
  <2> QED BY <1>4, <1>6, <2>1
<1> QED BY <1>5, <1>6

\* A line that is no fence shuts nothing.
LEMMA ShutStep ==
  ASSUME NEW lines, NEW k \in Nat, k # 0, NEW j \in 1..k
  PROVE  /\ lines[k].fence => (Shut(lines, j, k) <=> j # k)
         /\ ~ lines[k].fence => (Shut(lines, j, k) <=> j # k /\ Shut(lines, j, k - 1))
<1>1. j \in Nat /\ j <= k /\ k - 1 \in Nat
  OBVIOUS
<1>2. CASE j = k
  <2>1. \A i \in (j + 1)..k : FALSE
    BY <1>1, <1>2
  <2> QED BY <1>2, <2>1 DEF Shut
<1>3. CASE j # k
  <2>1. k \in (j + 1)..k /\ \A i \in (j + 1)..k : i = k \/ i \in (j + 1)..(k - 1)
    BY <1>1, <1>3
  <2>2. \A i \in (j + 1)..(k - 1) : i \in (j + 1)..k
    BY <1>1
  <2> QED BY <1>3, <2>1, <2>2 DEF Shut
<1> QED BY <1>2, <1>3

\* What is known of the extraction stays true with one more line.
LEMMA ScanStep ==
  ASSUME NEW lines \in Seq(Line), NEW k \in 1..Len(lines), NEW st \in ScanState,
         Scanned(st, lines, k - 1)
  PROVE  Scanned(ExtractLine(st, lines[k]), lines, k)
<1>1. /\ k \in Nat /\ k # 0 /\ k - 1 \in Nat /\ k \in 1..k /\ lines[k] \in Line
      /\ \A j \in 1..k : j = k \/ j \in 1..(k - 1)
      /\ \A j \in 1..(k - 1) : j \in 1..k /\ j # k
  BY LenProperties, ElementOfSeq
<1> DEFINE line == lines[k]
           next == ExtractLine(st, line)
<1>2. line.fence \in BOOLEAN /\ st.in_block \in BOOLEAN
  BY <1>1 DEF Line, ScanState
<1>3. PICK c \in Nat, d \in Nat :
        /\ c = Cardinality(FencesTo(lines, k - 1)) /\ d = Cardinality(FencesTo(lines, k))
        /\ d = IF line.fence THEN c + 1 ELSE c
  BY FencesStep
<1>4. st.in_block <=> c % 2 = 1
  BY <1>3 DEF Scanned
<1>5. d % 2 = 1 <=> IF line.fence THEN ~ (c % 2 = 1) ELSE c % 2 = 1
  BY <1>3
<1>6. /\ \A j \in 1..k : line.fence => (Shut(lines, j, k) <=> j # k)
      /\ \A j \in 1..k : ~ line.fence => (Shut(lines, j, k) <=> j # k /\ Shut(lines, j, k - 1))
  BY <1>1, ShutStep
<1>7. Opened(lines, k) <=> ~ line.fence /\ st.in_block
  BY <1>3, <1>4 DEF Opened
<1>8. next.in_block <=> d % 2 = 1
  BY <1>2, <1>4, <1>5 DEF ExtractLine, ScanState
<1>9. CASE line.fence
  <2>1. \A j \in 1..k : Opened(lines, j) => j \in 1..(k - 1) /\ Shut(lines, j, k)
    BY <1>1, <1>6, <1>7, <1>9
  <2>2. CASE st.in_block
    <3> DEFINE block == [language |-> st.lang, content |-> st.content]
    <3>1. /\ ~ next.in_block
          /\ next.blocks = IF IsBlank(st.content) THEN st.blocks ELSE Append(st.blocks, block)
      BY <1>9, <2>2 DEF ExtractLine, ScanState
    <3>2. PICK m \in Nat :
            /\ m = Len(st.blocks) /\ DOMAIN st.blocks = 1..m
            /\ DOMAIN Append(st.blocks, block) = 1..(m + 1)
            /\ Append(st.blocks, block)[m + 1] = block
            /\ \A b \in 1..m : Append(st.blocks, block)[b] = st.blocks[b]
      <4>1. block \in Block /\ st.blocks \in Seq(Block)
        BY DEF Block, ScanState
      <4>2. Len(st.blocks) \in Nat /\ DOMAIN st.blocks = 1..Len(st.blocks)
        BY <4>1, LenProperties
      <4>3. /\ Append(st.blocks, block) \in Seq(Block)
            /\ Len(Append(st.blocks, block)) = Len(st.blocks) + 1
            /\ Append(st.blocks, block)[Len(st.blocks) + 1] = block
            /\ \A b \in 1..Len(st.blocks) : Append(st.blocks, block)[b] = st.blocks[b]
        BY <4>1, AppendProperties
      <4>4. DOMAIN Append(st.blocks, block) = 1..Len(Append(st.blocks, block))
        BY <4>3, LenProperties
      <4> QED BY <4>2, <4>3, <4>4
    <3>3. ASSUME NEW j \in 1..k, Opened(lines, j), lines[j].of \notin Blank
          PROVE  \E b \in DOMAIN next.blocks : \E i \in DOMAIN next.blocks[b].content :
                   next.blocks[b].content[i] = lines[j]
      <4>1. j \in 1..(k - 1)
        BY <2>1, <3>3
      <4>2. CASE Shut(lines, j, k - 1)
        <5>1. PICK b \in 1..m : \E i \in DOMAIN st.blocks[b].content :
                                  st.blocks[b].content[i] = lines[j]
          BY <3>2, <3>3, <4>1, <4>2 DEF Scanned
        <5>2. b \in DOMAIN next.blocks /\ next.blocks[b] = st.blocks[b]
          <6>1. b \in 1..(m + 1)
            BY <3>2
          <6> QED BY <3>1, <3>2, <6>1
        <5> QED BY <5>1, <5>2
      <4>3. CASE ~ Shut(lines, j, k - 1)
        <5>1. PICK i \in DOMAIN st.content : st.content[i] = lines[j]
          BY <3>3, <4>1, <4>3 DEF Scanned
        <5>2. ~ IsBlank(st.content)
          BY <3>3, <5>1 DEF IsBlank
        <5>3. m + 1 \in DOMAIN next.blocks /\ next.blocks[m + 1].content = st.content
          BY <3>1, <3>2, <5>2
        <5> QED BY <5>1, <5>3
      <4> QED BY <4>2, <4>3
    <3>4. ASSUME NEW b \in DOMAIN next.blocks, NEW i \in DOMAIN next.blocks[b].content
          PROVE  \E j \in 1..k : /\ next.blocks[b].content[i] = lines[j]
                                 /\ Opened(lines, j) /\ Shut(lines, j, k)
      <4>1. CASE b \in 1..m /\ next.blocks[b] = st.blocks[b]
        <5> HIDE DEF next
        <5>1. PICK j \in 1..(k - 1) :
                st.blocks[b].content[i] = lines[j] /\ Opened(lines, j)
          <6>1. b \in DOMAIN st.blocks /\ i \in DOMAIN st.blocks[b].content
            BY <3>2, <4>1
          <6> QED BY <6>1 DEF Scanned
        <5> QED BY <1>1, <2>1, <4>1, <5>1
      <4>2. CASE next.blocks[b].content = st.content
        <5>1. PICK j \in 1..(k - 1) : st.content[i] = lines[j] /\ Opened(lines, j)
          BY <2>2, <4>2 DEF Scanned
        <5> QED BY <1>1, <2>1, <4>2, <5>1
      <4>3. b = m + 1 \/ b \in 1..m
        BY <3>1, <3>2, SMTT(30)
      <4>4. b \in 1..m => next.blocks[b] = st.blocks[b]
        BY <3>1, <3>2
      <4>5. ~ (b \in 1..m) => next.blocks[b].content = st.content
        BY <3>1, <3>2, <4>3
      <4> QED BY <4>1, <4>2, <4>4, <4>5
    <3>5. \A j \in 1..k : ~ (Opened(lines, j) /\ ~ Shut(lines, j, k))
      BY <2>1
    <3>6. Scanned(next, lines, k)
      <4> HIDE DEF next
      <4> QED BY <1>3, <1>8, <3>1, <3>3, <3>4, <3>5 DEF Scanned
    <3> QED BY <3>6
  <2>3. CASE ~ st.in_block
    <3>1. next.in_block /\ next.content = << >> /\ next.blocks = st.blocks
      BY <1>9, <2>3 DEF ExtractLine, ScanState
    <3>2. DOMAIN next.content = {}
      BY <3>1
    <3>3. \A j \in 1..(k - 1) : Opened(lines, j) => Shut(lines, j, k - 1)
      BY <2>3 DEF Scanned
    <3>4. ASSUME NEW j \in 1..k, Opened(lines, j), lines[j].of \notin Blank
          PROVE  \E b \in DOMAIN next.blocks : \E i \in DOMAIN next.blocks[b].content :
                   next.blocks[b].content[i] = lines[j]
      BY <2>1, <3>1, <3>3, <3>4 DEF Scanned
    <3>5. ASSUME NEW b \in DOMAIN next.blocks, NEW i \in DOMAIN next.blocks[b].content
          PROVE  \E j \in 1..k : /\ next.blocks[b].content[i] = lines[j]
                                 /\ Opened(lines, j) /\ Shut(lines, j, k)
      <4>1. PICK j \in 1..(k - 1) : st.blocks[b].content[i] = lines[j] /\ Opened(lines, j)
        BY <3>1 DEF Scanned
      <4> QED BY <1>1, <2>1, <3>1, <4>1
    <3>6. \A j \in 1..k : ~ (Opened(lines, j) /\ ~ Shut(lines, j, k))
      BY <2>1
    <3>7. Scanned(next, lines, k)
      <4> HIDE DEF next
      <4>1. next.in_block <=> Cardinality(FencesTo(lines, k)) % 2 = 1
        BY <1>3, <1>8
      <4>2. \A i \in DOMAIN next.content :
              \E j \in 1..k : next.content[i] = lines[j] /\ Opened(lines, j) /\ ~ Shut(lines, j, k)
        BY <3>2
      <4> QED BY <3>4, <3>5, <3>6, <4>1, <4>2 DEF Scanned
    <3> QED BY <3>7
  <2> QED BY <2>2, <2>3
<1>10. CASE ~ line.fence
  <2>1. \A j \in 1..(k - 1) : Shut(lines, j, k) <=> Shut(lines, j, k - 1)
    BY <1>1, <1>6, <1>10
  <2>2. ~ Shut(lines, k, k)
    BY <1>1, <1>6, <1>10
  <2>3. /\ next.in_block = st.in_block /\ next.blocks = st.blocks
        /\ next.content = IF st.in_block THEN Append(st.content, line) ELSE st.content
    BY <1>2, <1>10 DEF ExtractLine, ScanState
  <2>4. PICK m \in Nat :
          /\ m = Len(st.content) /\ DOMAIN st.content = 1..m
          /\ DOMAIN Append(st.content, line) = 1..(m + 1)
          /\ Append(st.content, line)[m + 1] = line
          /\ \A i \in 1..m : Append(st.content, line)[i] = st.content[i]
    <3>1. line \in Line /\ st.content \in Seq(Line)
      BY <1>1 DEF ScanState
    <3>2. Len(st.content) \in Nat /\ DOMAIN st.content = 1..Len(st.content)
      BY <3>1, LenProperties
    <3>3. /\ Append(st.content, line) \in Seq(Line)
          /\ Len(Append(st.content, line)) = Len(st.content) + 1
          /\ Append(st.content, line)[Len(st.content) + 1] = line
          /\ \A i \in 1..Len(st.content) : Append(st.content, line)[i] = st.content[i]
      BY <3>1, AppendProperties
    <3>4. DOMAIN Append(st.content, line) = 1..Len(Append(st.content, line))
      BY <3>3, LenProperties
    <3> QED BY <3>2, <3>3, <3>4
  <2>5. ASSUME NEW j \in 1..k, Opened(lines, j), ~ Shut(lines, j, k)
        PROVE  next.in_block /\ \E i \in DOMAIN next.content : next.content[i] = lines[j]
    <3>1. CASE j = k
      <4>1. st.in_block
        BY <1>7, <2>5, <3>1
      <4>2. m + 1 \in 1..(m + 1)
        BY <2>4
      <4> QED BY <2>3, <2>4, <3>1, <4>1, <4>2
    <3>2. CASE j \in 1..(k - 1)
      <4>1. PICK i \in 1..m : st.in_block /\ st.content[i] = lines[j]
        BY <2>1, <2>4, <2>5, <3>2 DEF Scanned
      <4>2. i \in 1..(m + 1)
        BY <2>4
      <4> QED BY <2>3, <2>4, <4>1, <4>2
    <3> QED BY <1>1, <3>1, <3>2
  <2>6. ASSUME next.in_block, NEW i \in DOMAIN next.content
        PROVE  \E j \in 1..k : next.content[i] = lines[j] /\ Opened(lines, j) /\ ~ Shut(lines, j, k)
    <3>1. st.in_block /\ i \in 1..(m + 1)
      BY <2>3, <2>4, <2>6
    <3>2. CASE i = m + 1
      <4>1. next.content[i] = lines[k] /\ Opened(lines, k)
        BY <1>7, <1>10, <2>3, <2>4, <3>1, <3>2
      <4> QED BY <1>1, <2>2, <4>1
    <3>3. CASE i \in 1..m
      <4>1. PICK j \in 1..(k - 1) :
              st.content[i] = lines[j] /\ Opened(lines, j) /\ ~ Shut(lines, j, k - 1)
        BY <2>4, <3>1, <3>3 DEF Scanned
      <4>2. next.content[i] = st.content[i]
        BY <2>3, <2>4, <3>1, <3>3
      <4> QED BY <1>1, <2>1, <4>1, <4>2
    <3>4. i = m + 1 \/ i \in 1..m
      BY <3>1
    <3> QED BY <3>2, <3>3, <3>4
  <2>7. ASSUME NEW j \in 1..k, Opened(lines, j), Shut(lines, j, k), lines[j].of \notin Blank
        PROVE  \E b \in DOMAIN next.blocks : \E i \in DOMAIN next.blocks[b].content :
                 next.blocks[b].content[i] = lines[j]
    <3>1. j \in 1..(k - 1) /\ Shut(lines, j, k - 1)
      BY <1>1, <2>1, <2>2, <2>7
    <3> QED BY <2>3, <2>7, <3>1 DEF Scanned
  <2>8. ASSUME NEW b \in DOMAIN next.blocks, NEW i \in DOMAIN next.blocks[b].content
        PROVE  \E j \in 1..k : /\ next.blocks[b].content[i] = lines[j]
                               /\ Opened(lines, j) /\ Shut(lines, j, k)
    <3>1. PICK j \in 1..(k - 1) :
            st.blocks[b].content[i] = lines[j] /\ Opened(lines, j) /\ Shut(lines, j, k - 1)
      BY <2>3 DEF Scanned
    <3> QED BY <1>1, <2>1, <2>3, <3>1
  <2>9. Scanned(next, lines, k)
    <3> HIDE DEF next
    <3> QED BY <1>3, <1>8, <2>5, <2>6, <2>7, <2>8 DEF Scanned
  <2> QED BY <2>9
<1> QED BY <1>2, <1>9, <1>10

\* What is extracted of an output: the lines of its closed blocks that are not blank,
\* and nothing else.
IsExtracted(lines) ==
  /\ extract(lines) \in Seq(Block)
  /\ \A j \in DOMAIN lines :
       Inside(lines, j) /\ lines[j].of \notin Blank =>
         \E b \in DOMAIN extract(lines) :
           \E i \in DOMAIN extract(lines)[b].content : extract(lines)[b].content[i] = lines[j]
  /\ \A b \in DOMAIN extract(lines) : \A i \in DOMAIN extract(lines)[b].content :
       \E j \in DOMAIN lines : extract(lines)[b].content[i] = lines[j] /\ Inside(lines, j)

\* After its last line.
LEMMA ExtractedLines ==
  ASSUME NEW lines \in Seq(Line)
  PROVE  IsExtracted(lines)
<1>1. PICK n \in Nat : n = Len(lines) /\ DOMAIN lines = 1..n
  BY LenProperties
<1>2. PICK f : IsScan(f, lines)
  BY ExtractIsLast
<1>3. /\ f \in [0..n -> ScanState] /\ f[0] = Scanning /\ extract(lines) = f[n].blocks
      /\ \A k \in 1..n : f[k] = ExtractLine(f[k - 1], lines[k])
  BY <1>1, <1>2 DEF IsScan
<1>4. Scanned(Scanning, lines, 0)
  <2>1. FencesTo(lines, 0) = {} /\ 1..0 = {}
    BY DEF FencesTo
  <2>2. Cardinality(FencesTo(lines, 0)) = 0
    BY <2>1, FS_EmptySet
  <2>3. ~ Scanning.in_block /\ DOMAIN Scanning.blocks = {}
    BY DEF Scanning
  <2>4. ~ (0 % 2 = 1)
    OBVIOUS
  <2> QED BY <2>1, <2>2, <2>3, <2>4 DEF Scanned
<1> DEFINE Odd == {k \in Nat : k <= n /\ ~ Scanned(f[k], lines, k)}
<1>5. Odd = {}
  <2>1. SUFFICES ASSUME Odd # {} PROVE FALSE
    OBVIOUS
  <2>2. PICK k \in Odd : \A l \in Odd : k <= l
    BY <2>1, Least, Zenon
  <2>3. k \in Nat /\ k <= n /\ k # 0 /\ ~ Scanned(f[k], lines, k)
    BY <1>3, <1>4, <2>2
  <2>4. k - 1 \in Nat /\ k - 1 <= n /\ ~ (k <= k - 1) /\ k \in 1..n /\ k - 1 \in 0..n
    BY <2>3
  <2>5. Scanned(f[k - 1], lines, k - 1)
    BY <2>2, <2>4
  <2>6. Scanned(f[k], lines, k)
    BY <1>1, <1>3, <2>4, <2>5, ScanStep
  <2> QED BY <2>3, <2>6
<1>6. Scanned(f[n], lines, n)
  <2>1. n <= n
    OBVIOUS
  <2> QED BY <1>5, <2>1
<1>7. \A j \in DOMAIN lines : Inside(lines, j) <=> Opened(lines, j) /\ Shut(lines, j, n)
  BY <1>1 DEF Inside, Opened, Shut, FencesTo
<1>8. extract(lines) \in Seq(Block)
  <2>1. f[n] \in ScanState
    BY <1>3
  <2> QED BY <1>3, <2>1 DEF ScanState
<1>9. ASSUME NEW j \in DOMAIN lines, Inside(lines, j), lines[j].of \notin Blank
      PROVE  \E b \in DOMAIN extract(lines) :
               \E i \in DOMAIN extract(lines)[b].content : extract(lines)[b].content[i] = lines[j]
  <2>1. j \in 1..n /\ Opened(lines, j) /\ Shut(lines, j, n)
    BY <1>1, <1>7, <1>9
  <2> QED BY <1>3, <1>6, <1>9, <2>1 DEF Scanned
<1>10. ASSUME NEW b \in DOMAIN extract(lines), NEW i \in DOMAIN extract(lines)[b].content
       PROVE  \E j \in DOMAIN lines : extract(lines)[b].content[i] = lines[j] /\ Inside(lines, j)
  <2>1. PICK j \in 1..n :
          extract(lines)[b].content[i] = lines[j] /\ Opened(lines, j) /\ Shut(lines, j, n)
    BY <1>3, <1>6 DEF Scanned
  <2> QED BY <1>1, <1>7, <2>1
<1> QED BY <1>8, <1>9, <1>10 DEF IsExtracted

--------------------------------------------------------------------------------
(* The report                                                              *)

\* A finite set as a sequence has its elements.
LEMMA SequenceOfSet ==
  ASSUME NEW S, IsFiniteSet(S)
  PROVE  SetToSeq(S) \in Seq(S) /\ ToSet(SetToSeq(S)) = S
<1>1. PICK n \in Nat : n = Cardinality(S) /\ ExistsBijection(1..n, S)
  BY FS_CardinalityType
<1>2. PICK g \in [1..n -> S] : IsInjective(g)
  BY <1>1 DEF ExistsBijection, Bijection, Injection
<1>3. SetToSeq(S) \in [1..n -> S] /\ IsInjective(SetToSeq(S))
  BY <1>1, <1>2 DEF SetToSeq
<1>4. PICK f \in [1..n -> S] : f = SetToSeq(S) /\ IsInjective(f)
  BY <1>3
<1>5. Cardinality(1..n) = n /\ IsFiniteSet(1..n)
  BY FS_Interval
<1>6. f \in Injection(1..n, S)
  BY <1>4 DEF Injection
<1>7. f \in Surjection(1..n, S)
  BY <1>1, <1>5, <1>6, FS_Injection
<1>8. \A x \in S : \E i \in 1..n : f[i] = x
  BY <1>7 DEF Surjection
<1>9. f \in Seq(S) /\ DOMAIN f = 1..n
  OBVIOUS
<1>10. ToSet(f) = S
  BY <1>8, <1>9 DEF ToSet
<1> QED BY <1>4, <1>9, <1>10

\* What is in one of a sequence of finite sets is in the sequence they become.
LEMMA InOrderElements ==
  ASSUME NEW sets, NEW n \in Nat, DOMAIN sets = 1..n, \A i \in 1..n : IsFiniteSet(sets[i])
  PROVE  /\ InOrder(sets) \in Seq(UNION {sets[i] : i \in 1..n})
         /\ \A x : x \in ToSet(InOrder(sets)) <=> \E i \in 1..n : x \in sets[i]
<1> DEFINE S == UNION {sets[i] : i \in 1..n}
           ss == [i \in 1..n |-> SetToSeq(sets[i])]
<1>1. ASSUME NEW i \in 1..n PROVE ss[i] \in Seq(S) /\ ToSet(ss[i]) = sets[i]
  <2>1. SetToSeq(sets[i]) \in Seq(sets[i]) /\ ToSet(SetToSeq(sets[i])) = sets[i]
    BY SequenceOfSet
  <2>2. sets[i] \subseteq S
    OBVIOUS
  <2>3. ASSUME NEW T, NEW s \in Seq(T), T \subseteq S PROVE s \in Seq(S)
    BY <2>3
  <2> QED BY <2>1, <2>2, <2>3
<1>2. ss \in Seq(Seq(S)) /\ DOMAIN ss = 1..n
  BY <1>1
<1>3. InOrder(sets) = FlattenSeq(ss)
  BY DEF InOrder
<1> HIDE DEF ss, S
<1>4. /\ FlattenSeq(ss) \in Seq(S)
      /\ \A x : x \in ToSet(FlattenSeq(ss)) <=> \E i \in 1..n : x \in ToSet(ss[i])
  BY <1>2, FlattenedElements
<1>5. \A x : x \in ToSet(InOrder(sets)) <=> \E i \in 1..n : x \in sets[i]
  BY <1>1, <1>3, <1>4
<1> QED BY <1>3, <1>4, <1>5 DEF S

\* Findings of the reviewer, in a sequence.
Reviewed(llm) == llm \in Seq(ToSet(llm)) /\ \A f \in ToSet(llm) : f.source = "llm_review"

\* What the reviewer's stage returns is that, whatever the model answered.
LEMMA ReviewerReviews ==
  ASSUME NEW answer \in Answers
  PROVE  Reviewed(LlmReviewer(answer)) /\ Reviewed(<< >>)
<1> DEFINE told(i) == {x \in {answer.findings[i]} : x.title # "" \/ x.description # ""}
           g(i) == {map_finding(lf) : lf \in told(i)}
<1>1. PICK n \in Nat : DOMAIN answer.findings = 1..n
  BY LinesAssumption, LenProperties
<1> DEFINE sets == [i \in 1..n |-> g(i)]
<1>2. ASSUME NEW i \in 1..n PROVE IsFiniteSet(sets[i]) /\ \A f \in sets[i] : f.source = "llm_review"
  <2>1. sets[i] = {} \/ sets[i] = {map_finding(answer.findings[i])}
    <3> HIDE DEF map_finding
    <3> QED OBVIOUS
  <2>2. map_finding(answer.findings[i]).source = "llm_review"
    BY DEF map_finding, VulnFinding
  <2> HIDE DEF sets
  <2> QED BY <2>1, <2>2, FS_EmptySet, FS_Singleton
<1>3. LlmReviewer(answer) = InOrder(sets)
  BY <1>1 DEF LlmReviewer
<1> HIDE DEF sets
<1>4. DOMAIN sets = 1..n
  BY DEF sets
<1> DEFINE S == UNION {sets[i] : i \in 1..n}
<1>5. /\ InOrder(sets) \in Seq(S)
      /\ \A x : x \in ToSet(InOrder(sets)) <=> \E i \in 1..n : x \in sets[i]
  BY <1>2, <1>4, InOrderElements
<1>6. ToSet(InOrder(sets)) = S
  BY <1>5
<1>7. << >> \in Seq(ToSet(<< >>)) /\ ToSet(<< >>) = {}
  BY DEF ToSet
<1> QED BY <1>2, <1>3, <1>5, <1>6, <1>7 DEF Reviewed

\* The static stage's findings of a text.
StaticOf(lines) == dedup_findings(StaticAnalyzer(lines, extract(lines)))

\* What a submission is made of.
SubmissionInv ==
  Done =>
    /\ submission.lines \in Seq(Line)
    /\ submission.prompt.code_blocks = extract(submission.lines)
    /\ submission.report.static_run =>
         \E llm : /\ Reviewed(llm)
                  /\ submission.report.findings = Merged(StaticOf(submission.lines), llm)

\* It is made of that whatever the engine's configuration was, and stays as it is.
LEMMA SubmissionRight == AnalysisSpec => []SubmissionInv
<1>1. AnalysisInit => SubmissionInv
  BY DEF AnalysisInit, SubmissionInv, Done, None
<1>2. SubmissionInv /\ [AnalysisNext]_analysis => SubmissionInv'
  <2> SUFFICES ASSUME SubmissionInv, [AnalysisNext]_analysis PROVE SubmissionInv'
    OBVIOUS
  <2>1. CASE UNCHANGED submission
    BY <2>1 DEF SubmissionInv, Done
  <2>2. ASSUME NEW lines \in Outputs, NEW answer \in Answers, NEW available \in BOOLEAN,
               Analyze(lines, answer, available)
        PROVE  SubmissionInv'
    <3>1. PICK static_run, static, llm_run, llm :
            /\ static = IF static_run THEN StaticAnalyzer(lines, extract(lines)) ELSE << >>
            /\ llm = IF llm_run THEN LlmReviewer(answer) ELSE << >>
            /\ submission' =
                 IF Panics(static) \/ Panics(llm) THEN Died
                 ELSE [kind |-> "done", lines |-> lines,
                       prompt |-> Prompt(lines, extract(lines), engine.llm_reviewer),
                       report |-> Report(Merged(dedup_findings(static), llm),
                                         static_run, llm_run)]
      BY <2>2 DEF Analyze
    <3>2. lines \in Seq(Line) /\ Reviewed(llm)
      BY <3>1, LinesAssumption, ReviewerReviews DEF Line
    <3>3. /\ Prompt(lines, extract(lines), engine.llm_reviewer).code_blocks = extract(lines)
          /\ \A found : Report(found, static_run, llm_run).static_run = static_run
          /\ \A found : Report(found, static_run, llm_run).findings = found
      BY DEF Prompt, Report
    <3>4. CASE submission' = Died
      BY <3>4 DEF SubmissionInv, Done, Died
    <3>5. CASE submission' # Died
      <4>1. PICK found : found = Merged(dedup_findings(static), llm)
        OBVIOUS
      <4>2. submission' = [kind |-> "done", lines |-> lines,
                           prompt |-> Prompt(lines, extract(lines), engine.llm_reviewer),
                           report |-> Report(found, static_run, llm_run)]
        BY <3>1, <3>5, <4>1
      <4>3. /\ submission'.lines = lines /\ submission'.prompt.code_blocks = extract(lines)
            /\ submission'.report.static_run = static_run /\ submission'.report.findings = found
        BY <3>3, <4>2
      <4>4. static_run => found = Merged(StaticOf(lines), llm)
        BY <3>1, <4>1 DEF StaticOf
      <4> QED BY <3>2, <4>3, <4>4 DEF SubmissionInv
    <3> QED BY <3>4, <3>5
  <2> QED BY <2>1, <2>2 DEF AnalysisNext, analysis
<1> QED BY <1>1, <1>2, PTL DEF AnalysisSpec

\* A line of a closed block reaches the reviewer even when the output is longer than
\* what the reviewer is shown of it.
THEOREM CodeIsSeen == AnalysisSpec => []ReviewerSeesCode
<1>1. SubmissionInv => ReviewerSeesCode
  <2> SUFFICES ASSUME SubmissionInv, Done, NEW i \in DOMAIN submission.lines,
                      Inside(submission.lines, i), submission.lines[i].of \notin Blank
               PROVE  \E b \in DOMAIN submission.prompt.code_blocks :
                        submission.lines[i] \in ToSet(submission.prompt.code_blocks[b].content)
    BY DEF ReviewerSeesCode
  <2>1. IsExtracted(submission.lines)
    BY ExtractedLines DEF SubmissionInv
  <2>2. submission.prompt.code_blocks = extract(submission.lines)
    BY DEF SubmissionInv
  <2> QED BY <2>1, <2>2 DEF IsExtracted, ToSet
<1> QED BY <1>1, SubmissionRight, PTL

\* A sequence of findings has these keys, and all are the static stage's.
Keys(findings) == {KeyOf(f) : f \in findings}
Static(findings) == \A f \in findings : f.source = "static"
Yields(s, keys) == s \in Seq(ToSet(s)) /\ Keys(ToSet(s)) = keys /\ Static(ToSet(s))

\* One after the other they have the keys of both.
LEMMA YieldsConcat ==
  ASSUME NEW s, NEW K, Yields(s, K), NEW t, NEW L, Yields(t, L)
  PROVE  Yields(s \o t, K \cup L)
<1> DEFINE S == ToSet(s) \cup ToSet(t)
<1>1. s \in Seq(S) /\ t \in Seq(S)
  <2>1. ASSUME NEW T, NEW u \in Seq(T), T \subseteq S PROVE u \in Seq(S)
    BY <2>1
  <2> QED BY <2>1 DEF Yields
<1>2. \A x : x \in ToSet(s \o t) <=> x \in ToSet(s) \/ x \in ToSet(t)
  BY <1>1, ConcatElements
<1>3. ToSet(s \o t) = S
  BY <1>2
<1>4. s \o t \in Seq(S)
  BY <1>1, ConcatProperties
<1> QED BY <1>3, <1>4 DEF Yields, Keys, Static

\* So have many of them.
LEMMA YieldsFlattened ==
  ASSUME NEW n \in Nat, NEW ss, NEW keys, DOMAIN ss = 1..n, ss = [i \in 1..n |-> ss[i]],
         \A i \in 1..n : Yields(ss[i], keys[i])
  PROVE  Yields(FlattenSeq(ss), UNION {keys[i] : i \in 1..n})
<1> DEFINE S == UNION {ToSet(ss[i]) : i \in 1..n}
<1>1. ASSUME NEW i \in 1..n PROVE ss[i] \in Seq(S)
  <2>1. ASSUME NEW T, NEW u \in Seq(T), T \subseteq S PROVE u \in Seq(S)
    BY <2>1
  <2>2. ss[i] \in Seq(ToSet(ss[i])) /\ ToSet(ss[i]) \subseteq S
    BY DEF Yields
  <2> QED BY <2>1, <2>2
<1> HIDE DEF S
<1>2. ss \in Seq(Seq(S))
  <2>1. ss \in [1..n -> Seq(S)]
    BY <1>1
  <2> QED BY <2>1
<1>3. /\ FlattenSeq(ss) \in Seq(S)
      /\ \A x : x \in ToSet(FlattenSeq(ss)) <=> \E i \in 1..n : x \in ToSet(ss[i])
  BY <1>2, FlattenedElements
<1>4. ToSet(FlattenSeq(ss)) = S
  BY <1>3 DEF S
<1>5. Keys(S) = UNION {keys[i] : i \in 1..n}
  <2>1. \A i \in 1..n : keys[i] = Keys(ToSet(ss[i]))
    BY DEF Yields
  <2>2. Keys(S) = UNION {Keys(ToSet(ss[i])) : i \in 1..n}
    BY DEF S, Keys
  <2> QED BY <2>1, <2>2
<1>6. Static(S)
  BY DEF S, Yields, Static
<1> QED BY <1>3, <1>4, <1>5, <1>6 DEF Yields

\* So have sets of findings in order.
LEMMA YieldsInOrder ==
  ASSUME NEW n \in Nat, NEW sets, DOMAIN sets = 1..n,
         \A i \in 1..n : IsFiniteSet(sets[i]) /\ Static(sets[i])
  PROVE  Yields(InOrder(sets), UNION {Keys(sets[i]) : i \in 1..n})
<1> DEFINE S == UNION {sets[i] : i \in 1..n}
<1>1. /\ InOrder(sets) \in Seq(S)
      /\ \A x : x \in ToSet(InOrder(sets)) <=> \E i \in 1..n : x \in sets[i]
  BY InOrderElements
<1>2. ToSet(InOrder(sets)) = S
  BY <1>1
<1>3. Keys(S) = UNION {Keys(sets[i]) : i \in 1..n} /\ Static(S)
  BY DEF Keys, Static
<1> HIDE DEF S
<1> QED BY <1>1, <1>2, <1>3 DEF Yields

\* A line matches so many rules.
LEMMA HitsFinite == \A line \in Line : IsFiniteSet(HitsAt(line))
BY LinesAssumption, FS_EmptySet DEF HitsAt, Line

\* The findings they are, and the keys of those.
FoundOf(hits, says, evidence, line) ==
  {VulnFinding(r, says[r], evidence, line, "static") : r \in hits}

KeysOfHits(hits, says, evidence) == {<<says[r].category, r, evidence>> : r \in hits}

\* Each rule is one finding with one key, and so many they are.
LEMMA FindingsOfHits ==
  ASSUME NEW hits, IsFiniteSet(hits), NEW says, NEW evidence, NEW line
  PROVE  /\ IsFiniteSet(FoundOf(hits, says, evidence, line))
         /\ Static(FoundOf(hits, says, evidence, line))
         /\ Keys(FoundOf(hits, says, evidence, line)) = KeysOfHits(hits, says, evidence)
<1> DEFINE found == FoundOf(hits, says, evidence, line)
           g == [r \in hits |-> VulnFinding(r, says[r], evidence, line, "static")]
<1>1. g \in Surjection(hits, found)
  <2> HIDE DEF VulnFinding
  <2> QED BY DEF Surjection, FoundOf
<1>2. IsFiniteSet(found)
  BY <1>1, FS_Surjection
<1>3. \A r \in hits :
        /\ KeyOf(VulnFinding(r, says[r], evidence, line, "static")) =
             <<says[r].category, r, evidence>>
        /\ VulnFinding(r, says[r], evidence, line, "static").source = "static"
  BY DEF KeyOf, VulnFinding
<1>4. Keys(found) = KeysOfHits(hits, says, evidence)
  <2> HIDE DEF VulnFinding, KeyOf
  <2> QED BY <1>3 DEF FoundOf, KeysOfHits, Keys
<1>5. Static(found)
  <2> HIDE DEF VulnFinding
  <2> QED BY <1>3 DEF FoundOf, Static
<1> QED BY <1>2, <1>4, <1>5

\* A table finds in a target what it says of each of its lines.
LEMMA MatchesYield ==
  ASSUME NEW rules, NEW target, target.content \in Seq(Line)
  PROVE  Yields(Matches(rules, target),
                 UNION {Row(rules, target.content[i]) : i \in DOMAIN target.content})
<1>1. PICK n \in Nat : /\ DOMAIN target.content = 1..n
                       /\ \A i \in 1..n : target.content[i] \in Line
  BY LenProperties, ElementOfSeq
<1> DEFINE hits(i) == HitsAt(target.content[i]) \cap DOMAIN rules
           sets == [i \in 1..n |->
                      {VulnFinding(r, rules[r], Match[target.content[i].of], i, "static") :
                         r \in hits(i)}]
<1>2. ASSUME NEW i \in 1..n
      PROVE  /\ IsFiniteSet(sets[i]) /\ Static(sets[i])
             /\ Keys(sets[i]) = Row(rules, target.content[i])
  <2>1. IsFiniteSet(hits(i))
    BY <1>1, HitsFinite, FS_Subset
  <2>2. PICK H, e : H = hits(i) /\ e = Match[target.content[i].of] /\ IsFiniteSet(H)
    BY <2>1
  <2>3. sets[i] = FoundOf(H, rules, e, i)
    BY <2>2 DEF FoundOf
  <2>4. KeysOfHits(H, rules, e) = Row(rules, target.content[i])
    BY <2>2 DEF KeysOfHits, Row
  <2> HIDE DEF sets
  <2> QED BY <2>2, <2>3, <2>4, FindingsOfHits
<1>3. Matches(rules, target) = InOrder(sets)
  BY <1>1 DEF Matches
<1> HIDE DEF sets
<1>4. DOMAIN sets = 1..n
  BY DEF sets
<1>5. Yields(InOrder(sets), UNION {Keys(sets[i]) : i \in 1..n})
  BY <1>2, <1>4, YieldsInOrder
<1>6. UNION {Keys(sets[i]) : i \in 1..n} =
        UNION {Row(rules, target.content[i]) : i \in 1..n}
  BY <1>2
<1> QED BY <1>1, <1>3, <1>5, <1>6

\* The blocks of an output have no line the output has not, so that a table finds
\* in all targets what it says of the lines of the output.
LEMMA EachTargetYields ==
  ASSUME NEW lines \in Seq(Line), NEW rules
  PROVE  Yields(EachTarget(rules, lines, extract(lines)), RowsOf(rules, lines))
<1> DEFINE blocks == extract(lines)
           output == [language |-> "output", content |-> lines]
           targets == Targets(lines, blocks)
<1>1. /\ blocks \in Seq(Block)
      /\ \A b \in DOMAIN blocks : \A i \in DOMAIN blocks[b].content :
           \E j \in DOMAIN lines : blocks[b].content[i] = lines[j]
  BY ExtractedLines DEF IsExtracted
<1> HIDE DEF blocks
<1>2. output \in Block
  BY DEF Block, Langs
<1>3. /\ targets \in Seq(Block)
      /\ \E t \in DOMAIN targets : targets[t] = output
      /\ \A t \in DOMAIN targets : targets[t] = output \/ \E b \in DOMAIN blocks : targets[t] = blocks[b]
  <2>1. PICK first : first = <<output>> /\ first \in Seq(Block) /\ DOMAIN first = {1} /\ first[1] = output
    <3> HIDE DEF output
    <3>1. <<output>> \in Seq(Block) /\ DOMAIN <<output>> = {1} /\ <<output>>[1] = output
      BY <1>2
    <3> QED BY <3>1
  <2>2. targets = first \o blocks
    BY <2>1 DEF Targets
  <2>3. /\ 1 \in DOMAIN (first \o blocks) /\ (first \o blocks)[1] = output
        /\ \A i \in DOMAIN blocks : (first \o blocks)[Len(first) + i] = blocks[i]
        /\ \A i \in DOMAIN (first \o blocks) :
             i \in DOMAIN first \/ \E j \in DOMAIN blocks : i = Len(first) + j
    <3> HIDE DEF output
    <3>1. 1 \in DOMAIN first
      BY <2>1
    <3>2. first \in Seq(Block) /\ blocks \in Seq(Block)
      BY <1>1, <2>1
    <3>3. /\ \A i \in DOMAIN first : i \in DOMAIN (first \o blocks) /\ (first \o blocks)[i] = first[i]
          /\ \A i \in DOMAIN blocks : (first \o blocks)[Len(first) + i] = blocks[i]
          /\ \A i \in DOMAIN (first \o blocks) :
               i \in DOMAIN first \/ \E j \in DOMAIN blocks : i = Len(first) + j
      <4> HIDE DEF Block
      <4> QED BY <3>2, InConcat
    <3> QED BY <2>1, <3>1, <3>3
  <2>4. first \o blocks \in Seq(Block)
    BY <1>1, <2>1, ConcatProperties
  <2> HIDE DEF output, targets
  <2> QED BY <2>1, <2>2, <2>3, <2>4
<1> HIDE DEF targets
<1>4. PICK n \in Nat : DOMAIN targets = 1..n /\ \A t \in 1..n : targets[t] \in Block
  BY <1>3, LenProperties, ElementOfSeq
<1> DEFINE ss == [t \in 1..n |-> Matches(rules, targets[t])]
           keys == [t \in 1..n |-> RowsOf(rules, targets[t].content)]
<1>5. ASSUME NEW t \in 1..n PROVE Yields(ss[t], keys[t])
  <2>1. targets[t].content \in Seq(Line)
    BY <1>4 DEF Block
  <2>2. Yields(Matches(rules, targets[t]), RowsOf(rules, targets[t].content))
    BY <2>1, MatchesYield DEF RowsOf
  <2> QED BY <2>2
<1>6. EachTarget(rules, lines, blocks) = FlattenSeq(ss)
  BY <1>4 DEF EachTarget, targets
<1>7. UNION {keys[t] : t \in 1..n} = RowsOf(rules, lines)
  <2>1. \A t \in 1..n : keys[t] \subseteq RowsOf(rules, lines)
    <3> TAKE t \in 1..n
    <3>1. \A i \in DOMAIN targets[t].content : \E j \in DOMAIN lines : targets[t].content[i] = lines[j]
      <4>1. CASE targets[t] = output
        BY <4>1
      <4>2. ASSUME NEW b \in DOMAIN blocks, targets[t] = blocks[b]
            PROVE  \A i \in DOMAIN targets[t].content :
                     \E j \in DOMAIN lines : targets[t].content[i] = lines[j]
        BY <1>1, <4>2
      <4> QED BY <1>3, <1>4, <4>1, <4>2
    <3> QED BY <3>1 DEF RowsOf
  <2>2. \E t \in 1..n : keys[t] = RowsOf(rules, lines)
    BY <1>3, <1>4
  <2> QED BY <2>1, <2>2
<1>8. DOMAIN ss = 1..n /\ ss = [t \in 1..n |-> ss[t]]
  OBVIOUS
<1> HIDE DEF ss, keys
<1>9. PICK S, K : S = ss /\ K = keys
  OBVIOUS
<1>10. Yields(FlattenSeq(S), UNION {K[t] : t \in 1..n})
  <2>1. /\ DOMAIN S = 1..n /\ S = [t \in 1..n |-> S[t]]
        /\ \A t \in 1..n : Yields(S[t], K[t])
    BY <1>5, <1>8, <1>9
  <2> QED BY <2>1, YieldsFlattened, SMTT(30)
<1> QED BY <1>6, <1>7, <1>9, <1>10 DEF blocks

\* The scanner's rules find in a block what they say of its lines, none of which is
\* a fence.
LEMMA ScanYields ==
  ASSUME NEW block \in Block, \A i \in DOMAIN block.content : ~ block.content[i].fence
  PROVE  Yields(scan_content(block), UNION {ScanRow(block.content[i]) : i \in DOMAIN block.content})
<1>1. PICK n \in Nat : /\ DOMAIN block.content = 1..n
                       /\ \A i \in 1..n : block.content[i] \in Line
  <2>1. block.content \in Seq(Line)
    BY DEF Block
  <2> QED BY <2>1, LenProperties, ElementOfSeq
<1> DEFINE hits(i) == HitsAt(block.content[i]) \cap LINE_RULES
           sets == [i \in 1..n |->
                      IF block.content[i].of \in Comments THEN {}
                      ELSE {VulnFinding(r, ScannerRules[r], block.content[i].of, i, "static") :
                              r \in Hits[block.content[i].of] \cap LINE_RULES}]
<1>2. ASSUME NEW i \in 1..n
      PROVE  /\ IsFiniteSet(sets[i]) /\ Static(sets[i])
             /\ Keys(sets[i]) = ScanRow(block.content[i])
  <2>1. CASE block.content[i].of \in Comments
    <3>1. sets[i] = {} /\ ScanRow(block.content[i]) = {}
      BY <2>1 DEF ScanRow
    <3> HIDE DEF sets
    <3> QED BY <3>1, FS_EmptySet DEF Keys, Static
  <2>2. CASE block.content[i].of \notin Comments
    <3>1. IsFiniteSet(hits(i))
      BY <1>1, HitsFinite, FS_Subset
    <3>2. hits(i) = Hits[block.content[i].of] \cap LINE_RULES
      BY <1>1 DEF HitsAt
    <3>3. PICK H, e : H = hits(i) /\ e = block.content[i].of /\ IsFiniteSet(H)
      BY <3>1
    <3>4. sets[i] = FoundOf(H, ScannerRules, e, i)
      BY <2>2, <3>2, <3>3 DEF FoundOf
    <3>5. KeysOfHits(H, ScannerRules, e) = ScanRow(block.content[i])
      BY <2>2, <3>3 DEF KeysOfHits, ScanRow
    <3> HIDE DEF sets
    <3> QED BY <3>3, <3>4, <3>5, FindingsOfHits
  <2> QED BY <2>1, <2>2
<1>3. scan_content(block) = InOrder(sets)
  BY <1>1 DEF scan_content
<1> HIDE DEF sets
<1>4. DOMAIN sets = 1..n
  BY DEF sets
<1>5. Yields(InOrder(sets), UNION {Keys(sets[i]) : i \in 1..n})
  BY <1>2, <1>4, YieldsInOrder
<1>6. UNION {Keys(sets[i]) : i \in 1..n} = UNION {ScanRow(block.content[i]) : i \in 1..n}
  BY <1>2
<1> QED BY <1>1, <1>3, <1>5, <1>6

\* What the scanner's rules say of all lines of code of a text.
Scans(lines) == UNION {ScanRow(lines[j]) : j \in {i \in DOMAIN lines : Inside(lines, i)}}

\* The scanner's rules find in the blocks what they say of the lines of code: a
\* block that is not kept has blank lines only, and those match nothing.
LEMMA BlocksYield ==
  ASSUME NEW lines \in Seq(Line)
  PROVE  Yields(FlattenSeq([b \in DOMAIN extract(lines) |-> scan_content(extract(lines)[b])]),
                 Scans(lines))
<1> DEFINE blocks == extract(lines)
<1>1. /\ blocks \in Seq(Block)
      /\ \A j \in DOMAIN lines :
           Inside(lines, j) /\ lines[j].of \notin Blank =>
             \E b \in DOMAIN blocks : \E i \in DOMAIN blocks[b].content : blocks[b].content[i] = lines[j]
      /\ \A b \in DOMAIN blocks : \A i \in DOMAIN blocks[b].content :
           \E j \in DOMAIN lines : blocks[b].content[i] = lines[j] /\ Inside(lines, j)
  BY ExtractedLines DEF IsExtracted
<1> HIDE DEF blocks
<1>2. PICK n \in Nat : DOMAIN blocks = 1..n /\ \A b \in 1..n : blocks[b] \in Block
  BY <1>1, LenProperties, ElementOfSeq
<1> DEFINE rows(block) == UNION {ScanRow(block.content[i]) : i \in DOMAIN block.content}
           ss == [b \in 1..n |-> scan_content(blocks[b])]
           keys == [b \in 1..n |-> rows(blocks[b])]
<1>3. ASSUME NEW b \in 1..n PROVE Yields(ss[b], keys[b])
  <2>1. \A i \in DOMAIN blocks[b].content : ~ blocks[b].content[i].fence
    <3>1. \A j \in DOMAIN lines : Inside(lines, j) => ~ lines[j].fence
      BY DEF Inside
    <3> QED BY <1>1, <1>2, <3>1
  <2>2. Yields(scan_content(blocks[b]), rows(blocks[b]))
    BY <1>2, <2>1, ScanYields
  <2> HIDE DEF rows
  <2> QED BY <2>2
<1>4. UNION {keys[b] : b \in 1..n} = Scans(lines)
  <2>1. ASSUME NEW b \in 1..n, NEW i \in DOMAIN blocks[b].content
        PROVE  ScanRow(blocks[b].content[i]) \subseteq Scans(lines)
    BY <1>1, <1>2, <2>1 DEF Scans
  <2>2. UNION {keys[b] : b \in 1..n} \subseteq Scans(lines)
    BY <2>1
  <2>3. ASSUME NEW j \in DOMAIN lines, Inside(lines, j), lines[j].of \in Blank
        PROVE  ScanRow(lines[j]) = {}
    <3>1. lines[j] \in Line /\ ~ lines[j].fence
      BY <2>3, ElementOfSeq, LenProperties DEF Inside
    <3>2. HitsAt(lines[j]) = {}
      BY <2>3, <3>1, LinesAssumption DEF HitsAt, Line
    <3> QED BY <3>2 DEF ScanRow
  <2>4. ASSUME NEW j \in DOMAIN lines, Inside(lines, j), lines[j].of \notin Blank
        PROVE  \E b \in 1..n : ScanRow(lines[j]) \subseteq keys[b]
    <3>1. PICK b \in 1..n : \E i \in DOMAIN blocks[b].content : blocks[b].content[i] = lines[j]
      BY <1>1, <1>2, <2>4
    <3>2. PICK i \in DOMAIN blocks[b].content : blocks[b].content[i] = lines[j]
      BY <3>1
    <3>3. ScanRow(blocks[b].content[i]) \subseteq rows(blocks[b])
      OBVIOUS
    <3> QED BY <3>2, <3>3
  <2>5. Scans(lines) \subseteq UNION {keys[b] : b \in 1..n}
    <3> HIDE DEF keys
    <3> QED BY <2>3, <2>4 DEF Scans
  <2> QED BY <2>2, <2>5
<1>5. FlattenSeq([b \in DOMAIN blocks |-> scan_content(blocks[b])]) = FlattenSeq(ss)
  BY <1>2
<1>6. DOMAIN ss = 1..n /\ ss = [b \in 1..n |-> ss[b]]
  OBVIOUS
<1> HIDE DEF ss, keys, rows
<1>7. PICK S, K : S = ss /\ K = keys
  OBVIOUS
<1>8. Yields(FlattenSeq(S), UNION {K[b] : b \in 1..n})
  <2>1. /\ DOMAIN S = 1..n /\ S = [b \in 1..n |-> S[b]]
        /\ \A b \in 1..n : Yields(S[b], K[b])
    BY <1>3, <1>6, <1>7
  <2> QED BY <2>1, YieldsFlattened, SMTT(30)
<1> QED BY <1>4, <1>5, <1>7, <1>8 DEF blocks

\* Of findings with one key, the first remains.
LEMMA DedupKeys ==
  ASSUME NEW s, s \in Seq(ToSet(s))
  PROVE  /\ IsFiniteSet(dedup_findings(s))
         /\ Keys(dedup_findings(s)) = Keys(ToSet(s)) /\ dedup_findings(s) \subseteq ToSet(s)
         /\ \A f, g \in dedup_findings(s) : KeyOf(f) = KeyOf(g) => f = g
<1>1. PICK n \in Nat : DOMAIN s = 1..n
  BY LenProperties
<1> DEFINE firsts == {j \in 1..n : \A k \in 1..(j - 1) : KeyOf(s[k]) # KeyOf(s[j])}
           found == {s[i] : i \in firsts}
<1>2. dedup_findings(s) = found
  BY <1>1 DEF dedup_findings
<1>3. IsFiniteSet(found)
  <2>1. IsFiniteSet(firsts)
    <3>1. IsFiniteSet(1..n) /\ firsts \in SUBSET (1..n)
      BY FS_Interval
    <3> HIDE DEF firsts
    <3> QED BY <3>1, FS_Subset
  <2> DEFINE g == [i \in firsts |-> s[i]]
  <2>2. g \in Surjection(firsts, found)
    BY DEF Surjection
  <2> HIDE DEF firsts, found, g
  <2> QED BY <2>1, <2>2, FS_Surjection
<1>4. ASSUME NEW j \in 1..n PROVE \E f \in found : KeyOf(f) = KeyOf(s[j])
  <2> DEFINE same == {k \in Nat : k \in 1..n /\ KeyOf(s[k]) = KeyOf(s[j])}
  <2>1. j \in same
    OBVIOUS
  <2>2. PICK k \in same : \A l \in same : k <= l
    BY <2>1, Least, Zenon
  <2>3. ASSUME NEW l \in 1..(k - 1) PROVE KeyOf(s[l]) # KeyOf(s[j])
    <3>1. l \in 1..n /\ ~ (k <= l)
      BY <2>2
    <3> QED BY <2>2, <3>1
  <2>4. k \in firsts /\ KeyOf(s[k]) = KeyOf(s[j])
    BY <2>2, <2>3
  <2> QED BY <2>4
<1>5. Keys(found) = Keys(ToSet(s))
  <2>1. found \subseteq ToSet(s)
    BY <1>1 DEF ToSet
  <2>2. \A x \in ToSet(s) : \E f \in found : KeyOf(f) = KeyOf(x)
    BY <1>1, <1>4 DEF ToSet
  <2> HIDE DEF found
  <2> QED BY <2>1, <2>2 DEF Keys
<1>6. ASSUME NEW i \in firsts, NEW j \in firsts, KeyOf(s[i]) = KeyOf(s[j]) PROVE i = j
  <2>1. i \in Nat /\ j \in Nat /\ ~ (i \in 1..(j - 1)) /\ ~ (j \in 1..(i - 1)) /\ i # 0 /\ j # 0
    BY <1>6
  <2> QED BY <2>1
<1>7. \A f, g \in found : KeyOf(f) = KeyOf(g) => f = g
  BY <1>6
<1>8. found \subseteq ToSet(s)
  BY <1>1 DEF ToSet
<1> HIDE DEF found
<1> QED BY <1>2, <1>3, <1>5, <1>7, <1>8

\* Findings that differ in their keys, all of the static stage, stay when the
\* reviewer's come behind them.
LEMMA StaticStays ==
  ASSUME NEW static, IsFiniteSet(static), \A f \in static : f.source = "static",
         \A f, g \in static : KeyOf(f) = KeyOf(g) => f = g,
         NEW llm, Reviewed(llm)
  PROVE  {f \in Merged(static, llm) : f.source = "static"} = static
<1>1. PICK s : s = SetToSeq(static) /\ s \in Seq(static) /\ ToSet(s) = static
  BY SequenceOfSet
<1> DEFINE S == static \cup ToSet(llm)
<1>2. s \in Seq(S) /\ llm \in Seq(S)
  <2>1. ASSUME NEW T, NEW u \in Seq(T), T \subseteq S PROVE u \in Seq(S)
    BY <2>1
  <2> QED BY <1>1, <2>1 DEF Reviewed
<1> DEFINE all == s \o llm
<1>3. /\ \A i \in DOMAIN s : i \in DOMAIN all /\ all[i] = s[i]
      /\ \A i \in DOMAIN all : i \in DOMAIN s \/ \E j \in DOMAIN llm : i = Len(s) + j
      /\ \A j \in DOMAIN llm : all[Len(s) + j] = llm[j]
  <2> HIDE DEF S
  <2> QED BY <1>2, InConcat
<1>4. PICK n \in Nat : DOMAIN s = 1..n
  BY <1>1, LenProperties
<1> HIDE DEF all
<1>5. ASSUME NEW f \in Merged(static, llm), f.source = "static" PROVE f \in static
  <2>1. PICK i \in DOMAIN all : f = all[i]
    BY <1>1 DEF Merged, dedup_findings, all
  <2>2. ASSUME NEW j \in DOMAIN llm, i = Len(s) + j PROVE FALSE
    BY <1>3, <1>5, <2>1, <2>2 DEF Reviewed, ToSet
  <2>3. i \in DOMAIN s /\ all[i] = s[i]
    BY <1>3, <2>2
  <2> QED BY <1>1, <2>1, <2>3 DEF ToSet
<1>6. ASSUME NEW f \in static PROVE f \in Merged(static, llm)
  <2> DEFINE at == {i \in Nat : i \in 1..n /\ s[i] = f}
  <2>1. \E i \in Nat : i \in at
    BY <1>1, <1>4 DEF ToSet
  <2>2. PICK i \in at : \A k \in at : i <= k
    BY <2>1, Least, Zenon
  <2>3. i \in DOMAIN all /\ all[i] = f
    BY <1>3, <1>4
  <2>4. ASSUME NEW k \in 1..(i - 1) PROVE KeyOf(all[k]) # KeyOf(all[i])
    <3>1. k \in 1..n /\ ~ (i <= k)
      BY <2>2
    <3>2. s[k] \in static /\ s[k] # f /\ all[k] = s[k]
      BY <1>1, <1>3, <1>4, <2>2, <3>1 DEF ToSet
    <3> HIDE DEF KeyOf
    <3> QED BY <2>3, <3>2
  <2>5. f \in dedup_findings(all)
    BY <2>3, <2>4 DEF dedup_findings
  <2> QED BY <1>1, <2>5 DEF Merged, all
<1> QED BY <1>5, <1>6

\* In a report that says the static stage ran, each match is there once, though the
\* text of a block is scanned three times: by the scanner's rules as code, by the table
\* as part of the output and again as a block.  Nothing else is there but what the
\* reviewer found.
THEOREM MatchedOnce == AnalysisSpec => []EachMatchOnce
<1>1. SubmissionInv => EachMatchOnce
  <2> SUFFICES ASSUME SubmissionInv, Done, submission.report.static_run PROVE EachMatchOnce
    BY DEF EachMatchOnce
  <2>1. PICK lines, static, llm :
          /\ lines \in Seq(Line) /\ lines = submission.lines
          /\ static = StaticOf(lines)
          /\ Reviewed(llm) /\ submission.report.findings = Merged(static, llm)
    BY DEF SubmissionInv
  <2>2. Yields(StaticAnalyzer(lines, extract(lines)), Scans(lines) \cup RowsOf(SHADOW_RULES, lines))
    <3>1. PICK s, t : s = FlattenSeq([b \in DOMAIN extract(lines) |-> scan_content(extract(lines)[b])])
                      /\ t = EachTarget(SHADOW_RULES, lines, extract(lines))
      OBVIOUS
    <3>2. Yields(s, Scans(lines)) /\ Yields(t, RowsOf(SHADOW_RULES, lines))
      BY <2>1, <3>1, BlocksYield, EachTargetYields
    <3> QED BY <3>1, <3>2, YieldsConcat DEF StaticAnalyzer
  <2>3. /\ IsFiniteSet(static) /\ Keys(static) = Scans(lines) \cup RowsOf(SHADOW_RULES, lines)
        /\ \A f, g \in static : KeyOf(f) = KeyOf(g) => f = g
        /\ \A f \in static : f.source = "static"
    BY <2>1, <2>2, DedupKeys DEF Yields, StaticOf, Static
  <2>4. {f \in submission.report.findings : f.source = "static"} = static
    BY <2>1, <2>3, StaticStays
  <2>5. Keys(static) = MustFind(lines)
    BY <2>3 DEF MustFind, Scans
  <2> DEFINE h == [f \in static |-> KeyOf(f)]
  <2>6. Cardinality(static) = Cardinality(Keys(static))
    <3> HIDE DEF KeyOf
    <3>1. h \in Bijection(static, Keys(static))
      <4>1. h \in [static -> Keys(static)]
        BY DEF Keys
      <4>2. \A f, g \in static : h[f] = h[g] => f = g
        BY <2>3
      <4>3. \A k \in Keys(static) : \E f \in static : h[f] = k
        BY DEF Keys
      <4> HIDE DEF h
      <4> QED BY <4>1, <4>2, <4>3 DEF Bijection, Injection, Surjection, IsInjective
    <3>2. PICK K : K = Keys(static)
      OBVIOUS
    <3> HIDE DEF h
    <3>3. ExistsBijection(static, K)
      BY <3>1, <3>2 DEF ExistsBijection
    <3> QED BY <2>3, <3>2, <3>3, FS_Bijection
  <2>7. {KeyOf(f) : f \in static} = Keys(static)
    BY DEF Keys
  <2> QED BY <2>1, <2>4, <2>5, <2>6, <2>7 DEF EachMatchOnce
<1> QED BY <1>1, SubmissionRight, PTL
================================================================================
