------------------------- MODULE ContainerSandboxProofs -------------------------
(* The invariants of ContainerSandbox, for every set of analyses and blocks,   *)
(* all runtimes and every time to live.                                        *)
EXTENDS ContainerSandbox, SequenceLemmas

Container == [state : States, ran : Nat, exit : Exits]
Places == {"idle", "next", "waiting", "removing", "done", "died"}
Outcomes == Exits \cup {"not run", "not started", "given up"}

\* An analysis is within a block, from the start of its client to its removal.
Within(a) == pc[a] \in {"waiting", "removing", "died"}

\* The cell is settled once, before any analysis starts a block, and an analysis
\* that ends has no block left to run unless it was told that there is no runtime.
CellInv ==
  /\ cell.by # "none" => cell.value = "unset"
  /\ \A a \in Analyses :
       /\ pc[a] = "next" \/ Within(a) \/ block[a] > 0 => cell.value \in ToSet(Runtimes)
       /\ pc[a] = "idle" => block[a] = 0
       /\ Within(a) => block[a] \in DOMAIN Blocks[a]
       /\ pc[a] = "done" => Rest(a) = {} \/ cell.value = "none"

\* A container is removed behind a client that has ended.
EndedInv == \A a \in Analyses : pc[a] = "removing" => Client(a).state = "exited"

\* The blocks that are not behind the analysis.
Ahead(a) ==
  {i \in DOMAIN Blocks[a] : i > block[a] \/ (i = block[a] /\ Within(a))}

\* The blocks are taken in their order, and none that can be run is passed over.
OrderInv ==
  \A a \in Analyses : \A i \in DOMAIN Blocks[a] :
    /\ i \in Ahead(a) => outcome[a][i] = "not run"
    /\ i \notin Ahead(a) /\ Runnable(a, i) => outcome[a][i] # "not run"

\* How a program ends that is left alone.
OwnEnd(b) == IF b.takes >= TTL THEN "killed" ELSE b.exit

\* While no daemon has started or stopped, the runtime answers, a client has ended
\* as its program has or for want of the image, and what is found is what the
\* blocks show.
FoundInv ==
  flips = 0 =>
    /\ cell.value \in ToSet(Runtimes) => cell.value \in up
    /\ \A a \in Analyses :
         /\ \A i \in DOMAIN Blocks[a] :
              container[a][i].state = "exited" =>
                container[a][i].exit \in {"unpullable", OwnEnd(Blocks[a][i])}
         /\ "unpullable" \notin Range(outcome[a]) => found[a] = FlattenSeq(Shows(a))

IInv == TypeOK /\ CellInv /\ EndedInv /\ OrderInv /\ FoundInv

--------------------------------------------------------------------------------
(* The data                                                                *)

\* What the assumption says of a block and of the answers that are no runtime.
LEMMA Data ==
  /\ \A a \in Analyses :
       /\ Blocks[a] \in Seq(Block) /\ DOMAIN Blocks[a] = 1..Len(Blocks[a])
       /\ Len(Blocks[a]) \in Nat
       /\ \A i \in DOMAIN Blocks[a] : Blocks[a][i] \in Block
  /\ TTL \in Nat \ {0} /\ Deadline \in Nat /\ MaxFlips \in Nat
  /\ "unset" \notin ToSet(Runtimes) /\ "none" \notin ToSet(Runtimes)
  /\ Len(Runtimes) \in Nat /\ ToSet(Runtimes) = {Runtimes[i] : i \in 1..Len(Runtimes)}
<1>1. ASSUME NEW a \in Analyses
      PROVE  /\ Blocks[a] \in Seq(Block) /\ DOMAIN Blocks[a] = 1..Len(Blocks[a])
             /\ Len(Blocks[a]) \in Nat
             /\ \A i \in DOMAIN Blocks[a] : Blocks[a][i] \in Block
  <2>1. Blocks[a] \in Seq(Block)
    BY SandboxAssumption
  <2> QED BY <2>1, LenProperties, ElementOfSeq
<1>2. TTL \in Nat \ {0} /\ Deadline \in Nat /\ MaxFlips \in Nat
  BY SandboxAssumption DEF Deadline
<1>3. /\ Len(Runtimes) \in Nat /\ DOMAIN Runtimes = 1..Len(Runtimes)
      /\ \A i \in DOMAIN Runtimes : Runtimes[i] \in STRING \ {"unset", "none"}
  BY SandboxAssumption, LenProperties, ElementOfSeq
<1>4. /\ "unset" \notin ToSet(Runtimes) /\ "none" \notin ToSet(Runtimes)
      /\ ToSet(Runtimes) = {Runtimes[i] : i \in 1..Len(Runtimes)}
  BY <1>3 DEF ToSet
<1> QED BY <1>1, <1>2, <1>3, <1>4

\* The next block is one of those left, with none left before it.
LEMMA NextBlock ==
  ASSUME NEW a \in Analyses, block[a] \in Nat, Rest(a) # {}
  PROVE  /\ Min(Rest(a)) \in Rest(a)
         /\ Min(Rest(a)) \in DOMAIN Blocks[a] /\ Min(Rest(a)) > block[a]
         /\ \A i \in Rest(a) : Min(Rest(a)) <= i
<1> DEFINE T == Rest(a)
<1>1. T \in SUBSET Nat /\ T # {} /\ \A i \in T : i \in DOMAIN Blocks[a] /\ i > block[a]
  BY Data DEF Rest
<1> HIDE DEF T
<1>2. \E x \in T : \A y \in T : x <= y
  BY <1>1, Least, Zenon
<1>3. Min(T) \in T /\ \A y \in T : Min(T) <= y
  BY <1>2, Zenon DEF Min
<1> QED BY <1>1, <1>3 DEF T

\* What a block shows and what is read of its output are findings.
LEMMA ShownType ==
  /\ \A kinds \in SUBSET Kinds : InOrder(kinds) \in Seq(Findings)
  /\ \A b \in Block : Shown(b) \in Seq(Findings)
  /\ \A b \in Block : \A exit \in Exits : Verdict(b, exit) \in Seq(Findings)
<1>1. /\ << >> \in Seq(Findings)
      /\ \A f \in Findings : <<f>> \in Seq(Findings)
  OBVIOUS
<1>2. ASSUME NEW kinds \in SUBSET Kinds PROVE InOrder(kinds) \in Seq(Findings)
  <2>1. \A k \in Kinds : Named(k, kinds) \in Seq(Findings)
    BY <1>1 DEF Named, Findings
  <2>2. /\ Named("data_exfiltration", kinds) \in Seq(Findings)
        /\ Named("path_traversal", kinds) \in Seq(Findings)
        /\ Named("privilege_escalation", kinds) \in Seq(Findings)
    BY <2>1 DEF Kinds
  <2> QED BY <2>2, ConcatProperties DEF InOrder
<1>3. \A b \in Block : Shown(b) \in Seq(Findings)
  BY <1>1 DEF Shown, Findings
<1>4. ASSUME NEW b \in Block, NEW exit \in Exits PROVE Verdict(b, exit) \in Seq(Findings)
  <2>1. Printed(b, exit) \in SUBSET Kinds
    BY DEF Printed, Block, Kinds, Exits
  <2>2. (CASE exit = "killed" -> <<"resource_abuse_high">>
           [] exit = "crashed" -> <<"resource_abuse_medium">>
           [] OTHER -> << >>) \in Seq(Findings)
    BY <1>1 DEF Findings
  <2> QED BY <1>2, <2>1, <2>2, ConcatProperties DEF Verdict
<1> QED BY <1>2, <1>3, <1>4

\* A program left alone is reported by what it shows.
LEMMA VerdictIsShown ==
  ASSUME NEW b \in Block
  PROVE  Verdict(b, OwnEnd(b)) = Shown(b) \o InOrder(b.prints)
<1>1. b.takes \in Nat /\ TTL \in Nat /\ b.exit \in {"ok", "crashed"}
  BY Data DEF Block
<1>2. CASE b.takes >= TTL
  <2>1. OwnEnd(b) = "killed" /\ ~ (b.takes < TTL)
    BY <1>1, <1>2 DEF OwnEnd
  <2>2. Printed(b, "killed") = b.prints /\ Shown(b) = <<"resource_abuse_high">>
    BY <1>2, <2>1 DEF Printed, Shown
  <2> QED BY <2>1, <2>2 DEF Verdict
<1>3. CASE b.takes < TTL
  <2>1. OwnEnd(b) = b.exit /\ ~ (b.takes >= TTL)
    BY <1>1, <1>3 DEF OwnEnd
  <2>2. CASE b.exit = "crashed"
    <3>1. Printed(b, "crashed") = b.prints /\ Shown(b) = <<"resource_abuse_medium">>
      BY <1>3, <2>1, <2>2 DEF Printed, Shown
    <3> QED BY <2>1, <2>2, <3>1 DEF Verdict
  <2>3. CASE b.exit = "ok"
    <3>1. Printed(b, "ok") = b.prints /\ Shown(b) = << >>
      BY <1>3, <2>1, <2>3 DEF Printed, Shown
    <3> QED BY <2>1, <2>3, <3>1 DEF Verdict
  <2> QED BY <1>1, <2>2, <2>3
<1> QED BY <1>1, <1>2, <1>3

\* What the blocks show is a sequence of sequences of findings, one for each block.
LEMMA ShowsType ==
  ASSUME NEW a \in Analyses, NEW ended, NEW ss,
         ss = [i \in DOMAIN Blocks[a] |->
                 IF ended[i] \notin Exits THEN << >>
                 ELSE Shown(Blocks[a][i]) \o InOrder(Blocks[a][i].prints)]
  PROVE  ss \in Seq(Seq(Findings)) /\ Len(ss) = Len(Blocks[a])
<1>1. DOMAIN Blocks[a] = 1..Len(Blocks[a]) /\ Len(Blocks[a]) \in Nat
  BY Data
<1>2. ASSUME NEW i \in DOMAIN Blocks[a]
      PROVE  (IF ended[i] \notin Exits THEN << >>
              ELSE Shown(Blocks[a][i]) \o InOrder(Blocks[a][i].prints)) \in Seq(Findings)
  <2>1. Blocks[a][i] \in Block
    BY Data
  <2>2. Blocks[a][i].prints \in SUBSET Kinds
    BY <2>1 DEF Block
  <2>3. Shown(Blocks[a][i]) \in Seq(Findings) /\ InOrder(Blocks[a][i].prints) \in Seq(Findings)
    BY <2>1, <2>2, ShownType
  <2> QED BY <2>3, ConcatProperties
<1>3. ss \in [1..Len(Blocks[a]) -> Seq(Findings)]
  BY <1>1, <1>2
<1> QED BY <1>1, <1>3

--------------------------------------------------------------------------------

\* Before anything has run the invariant holds.
LEMMA InitInv == Init => IInv
<1> SUFFICES ASSUME Init PROVE IInv
  OBVIOUS
<1>1. TypeOK
  <2>1. \A a \in Analyses : Len(Blocks[a]) \in Nat
    BY Data
  <2>2. << >> \in Seq(Findings)
    OBVIOUS
  <2>3. Absent \in Container
    BY Data DEF Absent, Container, States, Exits
  <2>4. found \in [Analyses -> Seq(Findings)]
    BY <2>2 DEF Init
  <2>5. waited \in [Analyses -> Nat] /\ flips \in 0..MaxFlips
    <3>1. 0 \in 0..MaxFlips
      BY Data
    <3> QED BY <3>1 DEF Init
  <2>6. cell \in [value : ToSet(Runtimes) \cup {"unset", "none"},
                  by : Analyses \cup {"none"}, asked : 0..(Len(Runtimes) + 1)]
    <3>1. Len(Runtimes) \in Nat
      BY Data
    <3>2. 0 \in 0..(Len(Runtimes) + 1)
      BY <3>1
    <3> QED BY <3>2 DEF Init
  <2>7. ASSUME NEW a \in Analyses
        PROVE  /\ block[a] <= Len(Blocks[a])
               /\ DOMAIN container[a] = DOMAIN Blocks[a] /\ DOMAIN outcome[a] = DOMAIN Blocks[a]
               /\ \A i \in DOMAIN Blocks[a] :
                    /\ container[a][i] \in [state : States, ran : Nat, exit : Exits]
                    /\ outcome[a][i] \in Outcomes
    <3>1. /\ block[a] = 0 /\ outcome[a] = [i \in DOMAIN Blocks[a] |-> "not run"]
          /\ container[a] = [i \in DOMAIN Blocks[a] |-> Absent]
      BY DEF Init
    <3>2. 0 <= Len(Blocks[a])
      BY <2>1
    <3> QED BY <2>3, <3>1, <3>2 DEF Container, Outcomes
  <2>8. /\ up \subseteq ToSet(Runtimes)
        /\ pc \in [Analyses -> Places]
        /\ block \in [Analyses -> Nat]
        /\ DOMAIN container = Analyses /\ DOMAIN outcome = Analyses
    BY DEF Init, Places
  <2> QED BY <2>4, <2>5, <2>6, <2>7, <2>8 DEF TypeOK, Places, Outcomes
<1>2. CellInv
  <2>1. "unset" \notin ToSet(Runtimes)
    BY Data
  <2>2. cell.by = "none" /\ \A a \in Analyses : pc[a] = "idle" /\ block[a] = 0 /\ ~ (block[a] > 0)
    <3>1. ~ (0 > 0)
      OBVIOUS
    <3> QED BY <3>1 DEF Init
  <2> QED BY <2>2 DEF CellInv, Within
<1>e. EndedInv
  BY DEF EndedInv, Init
<1>3. OrderInv
  <2>1. \A a \in Analyses : \A i \in DOMAIN Blocks[a] : i > 0 /\ i \in Nat
    BY Data
  <2> QED BY <2>1 DEF OrderInv, Ahead, Within, Init
<1>4. FoundInv
  <2>1. ASSUME NEW a \in Analyses PROVE found[a] = FlattenSeq(Shows(a))
    <3>1. Shows(a) \in Seq(Seq(Findings)) /\ DOMAIN Shows(a) = 1..Len(Shows(a))
      <4>1. Shows(a) \in Seq(Seq(Findings))
        BY ShowsType DEF Shows
      <4> QED BY <4>1
    <3>2. \A i \in 1..Len(Shows(a)) : Shows(a)[i] = << >>
      BY <3>1 DEF Shows, Init, Exits
    <3>3. FlattenSeq(Shows(a)) = << >>
      BY <3>1, <3>2, FlattenedEmpty
    <3> QED BY <3>3 DEF Init
  <2> QED BY <2>1, Data DEF FoundInv, Init, Absent
<1> QED BY <1>1, <1>2, <1>e, <1>3, <1>4 DEF IInv

\* One caller asks, and the answer settles the cell.
LEMMA CellStep ==
  ASSUME IInv, NEW a \in Analyses, DetectStart(a) \/ Ask(a)
  PROVE  IInv'
<1> USE DEF IInv
<1>1. /\ UNCHANGED <<env, analysis, container>> /\ cell.value = "unset"
      /\ cell' \in [value : ToSet(Runtimes) \cup {"unset", "none"},
                    by : Analyses \cup {"none"}, asked : 0..(Len(Runtimes) + 1)]
      /\ cell'.by # "none" => cell'.value = "unset"
      /\ cell'.value \in ToSet(Runtimes) => cell'.value \in up
  <2>1. CASE DetectStart(a)
    <3>1. 1 \in 0..(Len(Runtimes) + 1) /\ cell.asked \in 0..(Len(Runtimes) + 1)
      <4>1. Len(Runtimes) \in Nat
        BY Data
      <4>2. 1 \in 0..(Len(Runtimes) + 1)
        BY <4>1
      <4>3. cell.asked \in 0..(Len(Runtimes) + 1)
        BY DEF TypeOK
      <4> QED BY <4>2, <4>3
    <3>2. cell' = [cell EXCEPT !.by = a, !.asked = 1] /\ cell.value = "unset"
      BY <2>1 DEF DetectStart
    <3>3. cell' \in [value : ToSet(Runtimes) \cup {"unset", "none"},
                    by : Analyses \cup {"none"}, asked : 0..(Len(Runtimes) + 1)]
      BY <3>1, <3>2 DEF TypeOK
    <3>4. cell'.value = "unset"
      BY <3>2 DEF TypeOK
    <3> QED BY <2>1, <3>2, <3>3, <3>4, Data DEF DetectStart
  <2>2. CASE Ask(a)
    <3>1. /\ cell.value = "unset" /\ cell.by = a /\ cell.asked \in 0..(Len(Runtimes) + 1)
          /\ Len(Runtimes) \in Nat
      BY <2>2, SandboxAssumption, Data DEF Ask, CellInv, TypeOK
    <3>2. CASE cell.asked > Len(Runtimes) /\ cell' = Settled("none")
      BY <2>2, <3>1, <3>2, Data DEF Ask, Settled
    <3>3. CASE \E r \in up : cell' = Settled(r)
      <4>1. PICK r \in up : cell' = Settled(r)
        BY <3>3
      <4>a. 0 \in 0..(Len(Runtimes) + 1)
        BY <3>1
      <4>2. r \in ToSet(Runtimes) /\ 0 \in 0..(Len(Runtimes) + 1)
        BY <4>1, <4>a DEF TypeOK
      <4>3. cell'.by = "none" /\ cell'.value = r
        BY <4>1 DEF Settled
      <4>4. cell' \in [value : ToSet(Runtimes) \cup {"unset", "none"},
                      by : Analyses \cup {"none"}, asked : 0..(Len(Runtimes) + 1)]
        BY <4>1, <4>2 DEF Settled
      <4> QED BY <2>2, <3>1, <4>1, <4>3, <4>4 DEF Ask
    <3>4. CASE cell.asked <= Len(Runtimes) /\ cell' = [cell EXCEPT !.asked = @ + 1]
      <4>1. cell.asked + 1 \in 0..(Len(Runtimes) + 1)
        BY <3>1, <3>4
      <4>2. cell' \in [value : ToSet(Runtimes) \cup {"unset", "none"},
                    by : Analyses \cup {"none"}, asked : 0..(Len(Runtimes) + 1)]
        BY <3>4, <4>1 DEF TypeOK
      <4>3. cell'.value = "unset"
        BY <3>1, <3>4 DEF TypeOK
      <4> QED BY <2>2, <3>1, <4>2, <4>3, Data DEF Ask
    <3>5. cell.asked > Len(Runtimes) \/ cell.asked <= Len(Runtimes)
      BY <3>1
    <3> QED BY <2>2, <3>2, <3>3, <3>4, <3>5 DEF Ask
  <2> QED BY <2>1, <2>2
<1>2. \A b \in Analyses :
        /\ Rest(b)' = Rest(b) /\ Ahead(b)' = Ahead(b) /\ Shows(b)' = Shows(b)
  BY <1>1 DEF analysis, Rest, Ahead, Within, Shows
<1>3. TypeOK'
  BY <1>1 DEF TypeOK, env, analysis
<1>4. CellInv' /\ EndedInv'
  BY <1>1, <1>2, Data DEF CellInv, EndedInv, Within, Client, analysis
<1>5. OrderInv'
  BY <1>1, <1>2 DEF OrderInv, analysis
<1>6. FoundInv'
  BY <1>1, <1>2 DEF FoundInv, env, analysis
<1> QED BY <1>3, <1>4, <1>5, <1>6

\* An analysis starts, or ends with no block left.
LEMMA EndsStep ==
  ASSUME IInv, NEW a \in Analyses, Begin(a) \/ Finish(a)
  PROVE  IInv'
<1> USE DEF IInv
<1>1. PICK to \in {"next", "done"} :
        /\ pc' = [pc EXCEPT ![a] = to] /\ pc[a] \in {"idle", "next"}
        /\ UNCHANGED <<env, cell, block, waited, found, outcome, container>>
        /\ to = "done" => Rest(a) = {} \/ cell.value = "none"
        /\ to = "next" => cell.value \in ToSet(Runtimes)
  BY DEF Begin, Finish, TypeOK
<1>2. \A b \in Analyses : pc'[b] = IF b = a THEN to ELSE pc[b]
  BY <1>1 DEF TypeOK
<1>3. \A b \in Analyses :
        /\ Rest(b)' = Rest(b) /\ Ahead(b)' = Ahead(b) /\ Shows(b)' = Shows(b)
  <2>1. ASSUME NEW b \in Analyses PROVE Within(b)' <=> Within(b)
    BY <1>1, <1>2 DEF Within
  <2> QED BY <1>1, <2>1 DEF Rest, Ahead, Shows
<1>4. TypeOK'
  BY <1>1 DEF TypeOK, env
<1>5. CellInv' /\ EndedInv'
  BY <1>1, <1>2, <1>3 DEF CellInv, EndedInv, Within, Client
<1>6. OrderInv' /\ FoundInv'
  BY <1>1, <1>3 DEF OrderInv, FoundInv, env
<1> QED BY <1>4, <1>5, <1>6

\* One entry changes.
LEMMA Put ==
  ASSUME NEW f, DOMAIN f = Analyses, \A b \in Analyses : DOMAIN f[b] = DOMAIN Blocks[b],
         NEW a \in Analyses, NEW i \in DOMAIN Blocks[a], NEW v, NEW g,
         g = [f EXCEPT ![a][i] = v]
  PROVE  /\ DOMAIN g = Analyses
         /\ \A b \in Analyses :
              /\ DOMAIN g[b] = DOMAIN Blocks[b]
              /\ \A j \in DOMAIN Blocks[b] : g[b][j] = IF b = a /\ j = i THEN v ELSE f[b][j]
OBVIOUS

\* The next block's client is started.
LEMMA SpawnStep ==
  ASSUME IInv, NEW a \in Analyses, Spawn(a)
  PROVE  IInv'
<1> USE DEF IInv
<1>1. PICK i : i = Min(Rest(a))
  OBVIOUS
<1>2. PICK c : c = IF cell.value \in up THEN [Absent EXCEPT !.state = "starting"]
                   ELSE [Absent EXCEPT !.state = "exited", !.exit = "refused"]
  OBVIOUS
<1>3. /\ pc[a] = "next" /\ Rest(a) # {}
      /\ block' = [block EXCEPT ![a] = i]
      /\ container' = [container EXCEPT ![a][i] = c]
      /\ pc' = [pc EXCEPT ![a] = "waiting"]
      /\ UNCHANGED <<env, cell, waited, found, outcome>>
  BY <1>1, <1>2 DEF Spawn
<1>4. /\ i \in DOMAIN Blocks[a] /\ i > block[a] /\ i \in Rest(a)
      /\ \A j \in Rest(a) : i <= j
      /\ block[a] \in Nat /\ i \in Nat /\ i <= Len(Blocks[a]) /\ i > 0
  <2>1. block[a] \in Nat
    BY DEF TypeOK
  <2>2. i \in DOMAIN Blocks[a] /\ i > block[a] /\ i \in Rest(a) /\ \A j \in Rest(a) : i <= j
    BY <1>1, <1>3, <2>1, NextBlock
  <2>3. i \in Nat /\ i <= Len(Blocks[a]) /\ i > 0
    BY <2>2, Data
  <2> QED BY <2>1, <2>2, <2>3
<1>5. /\ DOMAIN container' = Analyses
      /\ \A b \in Analyses :
           /\ DOMAIN container'[b] = DOMAIN Blocks[b]
           /\ \A j \in DOMAIN Blocks[b] :
                container'[b][j] = IF b = a /\ j = i THEN c ELSE container[b][j]
  <2>1. DOMAIN container = Analyses /\ \A b \in Analyses : DOMAIN container[b] = DOMAIN Blocks[b]
    BY DEF TypeOK
  <2> QED BY <1>3, <1>4, <2>1, Put
<1>6. \A b \in Analyses :
        /\ pc'[b] = IF b = a THEN "waiting" ELSE pc[b]
        /\ block'[b] = IF b = a THEN i ELSE block[b]
  BY <1>3 DEF TypeOK
<1>7. c \in Container /\ (c.state = "exited" => cell.value \notin up)
  <2>1. Absent \in Container /\ Absent.state = "absent"
    BY Data DEF Absent, Container, States, Exits
  <2>2. CASE cell.value \in up
    <3>1. c = [Absent EXCEPT !.state = "starting"]
      BY <1>2, <2>2
    <3>2. c \in Container /\ c.state = "starting"
      BY <2>1, <3>1 DEF Container, States
    <3> QED BY <3>2
  <2>3. CASE cell.value \notin up
    <3>1. c = [Absent EXCEPT !.state = "exited", !.exit = "refused"]
      BY <1>2, <2>3
    <3>2. c \in Container
      BY <2>1, <3>1 DEF Container, States, Exits
    <3> QED BY <2>3, <3>2
  <2> QED BY <2>2, <2>3
<1>8. TypeOK'
  <2>1. ASSUME NEW b \in Analyses
        PROVE  /\ block'[b] <= Len(Blocks[b])
               /\ \A j \in DOMAIN Blocks[b] : container'[b][j] \in Container
    <3>1. \A j \in DOMAIN Blocks[b] : container'[b][j] \in Container
      <4>1. \A j \in DOMAIN Blocks[b] : container[b][j] \in Container
        BY DEF TypeOK, Container
      <4> QED BY <1>5, <1>7, <4>1
    <3>2. block'[b] <= Len(Blocks[b])
      BY <1>4, <1>6 DEF TypeOK
    <3> QED BY <3>1, <3>2
  <2>2. block' \in [Analyses -> Nat]
    BY <1>3, <1>4 DEF TypeOK
  <2>3. pc' \in [Analyses -> Places]
    BY <1>3 DEF TypeOK, Places
  <2> QED BY <1>3, <1>5, <2>1, <2>2, <2>3 DEF TypeOK, env, Container, Places, Outcomes
<1>9. CellInv'
  <2>1. cell' = cell /\ cell.value \in ToSet(Runtimes)
    BY <1>3 DEF CellInv
  <2>2. \A b \in Analyses : b # a => Rest(b)' = Rest(b)
    BY <1>6 DEF Rest
  <2> QED BY <1>4, <1>6, <2>1, <2>2 DEF CellInv, Within
<1>e. EndedInv'
  <2>1. SUFFICES ASSUME NEW b \in Analyses, pc'[b] = "removing"
                 PROVE  container'[b][block'[b]].state = "exited"
    BY DEF EndedInv, Client
  <2>2. b # a /\ pc[b] = "removing"
    BY <1>6, <2>1
  <2>3. block[b] \in DOMAIN Blocks[b]
    BY <2>2 DEF CellInv, Within
  <2> QED BY <1>5, <1>6, <2>2, <2>3 DEF EndedInv, Client
<1>10. OrderInv'
  <2>1. \A b \in Analyses : b # a => Ahead(b)' = Ahead(b)
    BY <1>6 DEF Ahead, Within
  <2>2. ASSUME NEW j \in DOMAIN Blocks[a]
        PROVE  /\ j \in Ahead(a)' => outcome[a][j] = "not run"
               /\ j \notin Ahead(a)' /\ Runnable(a, j) => outcome[a][j] # "not run"
    <3>1. j \in Nat /\ j <= Len(Blocks[a]) /\ Len(Blocks[a]) \in Nat
      BY Data
    <3>2. j \in Ahead(a)' <=> j >= i
      <4>1. j \in Ahead(a)' <=> (j > i \/ j = i)
        BY <1>6 DEF Ahead, Within
      <4> QED BY <1>4, <3>1, <4>1
    <3>3. j \in Ahead(a) <=> j > block[a]
      BY <1>3 DEF Ahead, Within
    <3>4. CASE j >= i
      <4>1. j > block[a]
        BY <1>4, <3>1, <3>4
      <4> QED BY <3>2, <3>3, <3>4, <4>1 DEF OrderInv
    <3>5. CASE ~ (j >= i) /\ Runnable(a, j)
      <4>1. j \notin Rest(a) /\ block[a] + 1 \in Nat
        BY <1>4, <3>1, <3>5
      <4>2. ~ (j \in (block[a] + 1)..Len(Blocks[a]))
        BY <3>5, <4>1 DEF Rest
      <4>3. ~ (j > block[a])
        BY <1>4, <3>1, <4>2
      <4> QED BY <3>2, <3>3, <3>5, <4>3 DEF OrderInv
    <3> QED BY <3>2, <3>4, <3>5
  <2> QED BY <1>3, <2>1, <2>2 DEF OrderInv
<1>11. FoundInv'
  <2>1. \A b \in Analyses : Shows(b)' = Shows(b)
    BY <1>3 DEF Shows
  <2>2. flips = 0 => cell.value \in up
    BY <1>3 DEF FoundInv, CellInv
  <2> QED BY <1>3, <1>5, <1>7, <2>1, <2>2 DEF FoundInv, env
<1> QED BY <1>8, <1>9, <1>e, <1>10, <1>11

\* A block of which no client's end is seen shows nothing, and nothing is found in it.
LEMMA NotSeen ==
  ASSUME IInv, NEW a \in Analyses, NEW i \in DOMAIN Blocks[a],
         NEW v \in {"given up", "not started"}, outcome[a][i] = "not run",
         outcome' = [outcome EXCEPT ![a][i] = v],
         UNCHANGED <<env, cell, found, container>>
  PROVE  FoundInv'
<1> USE DEF IInv
<1>1. \A j \in DOMAIN Blocks[a] : outcome'[a][j] = IF j = i THEN v ELSE outcome[a][j]
  BY DEF TypeOK
<1>2. \A b \in Analyses : b # a => outcome'[b] = outcome[b] /\ Shows(b)' = Shows(b)
  <2>1. \A b \in Analyses : b # a => outcome'[b] = outcome[b]
    BY DEF TypeOK
  <2> QED BY <2>1 DEF Shows
<1>3. Shows(a)' = Shows(a)
  <2>1. \A j \in DOMAIN Blocks[a] :
          outcome'[a][j] = outcome[a][j] \/ {outcome'[a][j], outcome[a][j]} \cap Exits = {}
    BY <1>1 DEF Exits
  <2> QED BY <2>1 DEF Shows
<1>4. "unpullable" \notin Range(outcome'[a]) => "unpullable" \notin Range(outcome[a])
  <2>1. \A j \in DOMAIN Blocks[a] : outcome[a][j] = "unpullable" => outcome'[a][j] = "unpullable"
    BY <1>1
  <2>2. DOMAIN outcome[a] = DOMAIN Blocks[a] /\ DOMAIN outcome'[a] = DOMAIN Blocks[a]
    BY DEF TypeOK
  <2>3. ASSUME NEW j \in DOMAIN outcome[a], outcome[a][j] = "unpullable"
        PROVE  \E k \in DOMAIN outcome'[a] : outcome'[a][k] = "unpullable"
    BY <2>1, <2>2, <2>3
  <2> QED BY <2>3 DEF Range
<1> QED BY <1>2, <1>3, <1>4 DEF FoundInv, env

\* The next block's client cannot be started: the block is passed.
LEMMA SpawnFailsStep ==
  ASSUME IInv, NEW a \in Analyses, SpawnFails(a)
  PROVE  IInv'
<1> USE DEF IInv
<1>1. PICK i : i = Min(Rest(a))
  OBVIOUS
<1>2. /\ pc[a] = "next" /\ Rest(a) # {}
      /\ block' = [block EXCEPT ![a] = i]
      /\ outcome' = [outcome EXCEPT ![a][i] = "not started"]
      /\ UNCHANGED <<env, cell, pc, waited, found, container>>
  BY <1>1 DEF SpawnFails
<1>3. /\ i \in DOMAIN Blocks[a] /\ i > block[a] /\ i \in Rest(a)
      /\ \A j \in Rest(a) : i <= j
      /\ block[a] \in Nat /\ i \in Nat /\ i <= Len(Blocks[a]) /\ i > 0
  <2>1. block[a] \in Nat
    BY DEF TypeOK
  <2>2. i \in DOMAIN Blocks[a] /\ i > block[a] /\ i \in Rest(a) /\ \A j \in Rest(a) : i <= j
    BY <1>1, <1>2, <2>1, NextBlock
  <2>3. i \in Nat /\ i <= Len(Blocks[a]) /\ i > 0
    BY <2>2, Data
  <2> QED BY <2>1, <2>2, <2>3
<1>4. /\ DOMAIN outcome' = Analyses
      /\ \A b \in Analyses :
           /\ DOMAIN outcome'[b] = DOMAIN Blocks[b]
           /\ \A j \in DOMAIN Blocks[b] :
                outcome'[b][j] = IF b = a /\ j = i THEN "not started" ELSE outcome[b][j]
  <2>1. DOMAIN outcome = Analyses /\ \A b \in Analyses : DOMAIN outcome[b] = DOMAIN Blocks[b]
    BY DEF TypeOK
  <2> QED BY <1>2, <1>3, <2>1
<1>5. \A b \in Analyses : block'[b] = IF b = a THEN i ELSE block[b]
  BY <1>2 DEF TypeOK
<1>6. TypeOK'
  <2>1. \A b \in Analyses : block'[b] <= Len(Blocks[b])
    BY <1>3, <1>5 DEF TypeOK
  <2>2. block' \in [Analyses -> Nat]
    BY <1>2, <1>3 DEF TypeOK
  <2> QED BY <1>2, <1>4, <2>1, <2>2 DEF TypeOK, env
<1>7. CellInv'
  <2>1. \A b \in Analyses : b # a => Rest(b)' = Rest(b)
    BY <1>5 DEF Rest
  <2> QED BY <1>2, <1>3, <1>5, <2>1 DEF CellInv, Within
<1>8. EndedInv'
  BY <1>2, <1>5 DEF EndedInv, Client
<1>9. OrderInv'
  <2>1. \A b \in Analyses : b # a => Ahead(b)' = Ahead(b)
    BY <1>2, <1>5 DEF Ahead, Within
  <2>2. ASSUME NEW j \in DOMAIN Blocks[a]
        PROVE  /\ j \in Ahead(a)' => outcome'[a][j] = "not run"
               /\ j \notin Ahead(a)' /\ Runnable(a, j) => outcome'[a][j] # "not run"
    <3>1. j \in Nat /\ j <= Len(Blocks[a]) /\ Len(Blocks[a]) \in Nat
      BY Data
    <3>2. j \in Ahead(a)' <=> j > i
      BY <1>2, <1>5 DEF Ahead, Within
    <3>3. j \in Ahead(a) <=> j > block[a]
      BY <1>2 DEF Ahead, Within
    <3>4. outcome'[a][j] = IF j = i THEN "not started" ELSE outcome[a][j]
      BY <1>4
    <3>5. CASE j > i
      <4>1. j > block[a] /\ j # i
        BY <1>3, <3>1, <3>5
      <4>2. outcome[a][j] = "not run"
        BY <3>3, <4>1 DEF OrderInv
      <4> QED BY <3>2, <3>4, <3>5, <4>1, <4>2
    <3>6. CASE j = i
      <4>1. ~ (i > i)
        BY <1>3
      <4> QED BY <3>2, <3>4, <3>6, <4>1
    <3>7. CASE j < i /\ Runnable(a, j)
      <4>1. j \notin Rest(a) /\ block[a] + 1 \in Nat
        BY <1>3, <3>1, <3>7
      <4>2. ~ (j \in (block[a] + 1)..Len(Blocks[a]))
        BY <3>7, <4>1 DEF Rest
      <4>3. ~ (j > block[a]) /\ j # i /\ ~ (j > i)
        BY <1>3, <3>1, <3>7, <4>2
      <4> QED BY <3>2, <3>3, <3>4, <3>7, <4>3 DEF OrderInv
    <3>8. j > i \/ j = i \/ j < i
      BY <1>3, <3>1
    <3>9. j < i => ~ (j > i)
      BY <1>3, <3>1
    <3> QED BY <3>2, <3>5, <3>6, <3>7, <3>8, <3>9
  <2>3. ASSUME NEW b \in Analyses, b # a, NEW j \in DOMAIN Blocks[b]
        PROVE  /\ j \in Ahead(b)' => outcome'[b][j] = "not run"
               /\ j \notin Ahead(b)' /\ Runnable(b, j) => outcome'[b][j] # "not run"
    <3>1. outcome'[b][j] = outcome[b][j] /\ Ahead(b)' = Ahead(b)
      BY <1>4, <2>1, <2>3
    <3> QED BY <3>1 DEF OrderInv
  <2>4. \A b \in Analyses : \A j \in DOMAIN Blocks[b] :
          /\ j \in Ahead(b)' => outcome'[b][j] = "not run"
          /\ j \notin Ahead(b)' /\ Runnable(b, j) => outcome'[b][j] # "not run"
    <3>1. SUFFICES ASSUME NEW b \in Analyses, NEW j \in DOMAIN Blocks[b]
                   PROVE  /\ j \in Ahead(b)' => outcome'[b][j] = "not run"
                          /\ j \notin Ahead(b)' /\ Runnable(b, j) => outcome'[b][j] # "not run"
      BY Zenon
    <3>2. CASE b = a
      BY <2>2, <3>2, Zenon
    <3>3. CASE b # a
      BY <2>3, <3>3, Zenon
    <3> QED BY <3>2, <3>3
  <2> QED BY <2>4 DEF OrderInv
<1>10. FoundInv'
  <2>1. outcome[a][i] = "not run"
    BY <1>2, <1>3 DEF OrderInv, Ahead, Within
  <2> QED BY <1>2, <1>3, <2>1, NotSeen
<1> QED BY <1>6, <1>7, <1>8, <1>9, <1>10

\* A client is given up: its block is left as it is.
LEMMA TimeoutStep ==
  ASSUME IInv, NEW a \in Analyses, Timeout(a)
  PROVE  IInv'
<1> USE DEF IInv
<1>1. PICK i : i = block[a]
  OBVIOUS
<1>2. /\ pc[a] = "waiting"
      /\ outcome' = [outcome EXCEPT ![a][i] = "given up"]
      /\ waited' = [waited EXCEPT ![a] = 0]
      /\ pc' = [pc EXCEPT ![a] = "next"]
      /\ UNCHANGED <<env, cell, block, found, container>>
  BY <1>1 DEF Timeout, GiveUp
<1>3. i \in DOMAIN Blocks[a]
  BY <1>1, <1>2 DEF CellInv, Within
<1>4. /\ DOMAIN outcome' = Analyses
      /\ \A b \in Analyses :
           /\ DOMAIN outcome'[b] = DOMAIN Blocks[b]
           /\ \A j \in DOMAIN Blocks[b] :
                outcome'[b][j] = IF b = a /\ j = i THEN "given up" ELSE outcome[b][j]
  <2>1. DOMAIN outcome = Analyses /\ \A b \in Analyses : DOMAIN outcome[b] = DOMAIN Blocks[b]
    BY DEF TypeOK
  <2> QED BY <1>2, <1>3, <2>1
<1>5. \A b \in Analyses : pc'[b] = IF b = a THEN "next" ELSE pc[b]
  BY <1>2 DEF TypeOK
<1>6. TypeOK'
  <2>1. waited' \in [Analyses -> Nat]
    BY <1>2 DEF TypeOK
  <2>2. pc' \in [Analyses -> Places]
    BY <1>2 DEF TypeOK, Places
  <2> QED BY <1>2, <1>4, <2>1, <2>2 DEF TypeOK, env, Places
<1>7. CellInv'
  <2>1. \A b \in Analyses : Rest(b)' = Rest(b)
    BY <1>2 DEF Rest
  <2>2. /\ cell' = cell /\ block' = block /\ cell.value \in ToSet(Runtimes)
        /\ (cell.by # "none" => cell.value = "unset")
    BY <1>2 DEF CellInv, Within
  <2>3. ASSUME NEW b \in Analyses
        PROVE  /\ pc'[b] = "idle" => block[b] = 0
               /\ Within(b)' => block[b] \in DOMAIN Blocks[b]
               /\ pc'[b] = "done" => Rest(b) = {} \/ cell.value = "none"
    BY <1>5 DEF CellInv, Within
  <2> QED BY <2>1, <2>2, <2>3 DEF CellInv
<1>e. EndedInv'
  <2>1. ASSUME NEW b \in Analyses, pc'[b] = "removing" PROVE pc[b] = "removing"
    BY <1>5, <2>1
  <2> QED BY <1>2, <2>1 DEF EndedInv, Client
<1>8. OrderInv'
  <2>1. \A b \in Analyses : b # a => Ahead(b)' = Ahead(b)
    BY <1>2, <1>5 DEF Ahead, Within
  <2>2. Ahead(a)' = Ahead(a) \ {i}
    <3>1. ASSUME NEW j \in DOMAIN Blocks[a] PROVE j > i => j # i
      <4>1. j \in Nat /\ i \in Nat
        BY <1>3, Data
      <4> QED BY <4>1
    <3>2. /\ pc'[a] = "next" /\ block'[a] = i
      BY <1>1, <1>2, <1>5
    <3>3. Ahead(a)' = {j \in DOMAIN Blocks[a] : j > i}
      BY <3>2 DEF Ahead, Within
    <3>4. Ahead(a) = {j \in DOMAIN Blocks[a] : j > i \/ j = i}
      BY <1>1, <1>2 DEF Ahead, Within
    <3> QED BY <3>1, <3>3, <3>4
  <2>3. ASSUME NEW j \in DOMAIN Blocks[a]
        PROVE  /\ j \in Ahead(a)' => outcome'[a][j] = "not run"
               /\ j \notin Ahead(a)' /\ Runnable(a, j) => outcome'[a][j] # "not run"
    <3>1. /\ j \in Ahead(a) => outcome[a][j] = "not run"
          /\ j \notin Ahead(a) /\ Runnable(a, j) => outcome[a][j] # "not run"
      BY DEF OrderInv
    <3>2. outcome'[a][j] = IF j = i THEN "given up" ELSE outcome[a][j]
      BY <1>4
    <3>3. j \in Ahead(a)' <=> j \in Ahead(a) /\ j # i
      BY <2>2
    <3> QED BY <3>1, <3>2, <3>3
  <2>4. ASSUME NEW b \in Analyses, b # a, NEW j \in DOMAIN Blocks[b]
        PROVE  /\ j \in Ahead(b)' => outcome'[b][j] = "not run"
               /\ j \notin Ahead(b)' /\ Runnable(b, j) => outcome'[b][j] # "not run"
    <3>1. /\ j \in Ahead(b) => outcome[b][j] = "not run"
          /\ j \notin Ahead(b) /\ Runnable(b, j) => outcome[b][j] # "not run"
      BY DEF OrderInv
    <3>2. outcome'[b][j] = outcome[b][j] /\ Ahead(b)' = Ahead(b)
      BY <1>4, <2>1, <2>4
    <3> QED BY <3>1, <3>2
  <2>5. \A b \in Analyses : \A j \in DOMAIN Blocks[b] :
          /\ j \in Ahead(b)' => outcome'[b][j] = "not run"
          /\ j \notin Ahead(b)' /\ Runnable(b, j) => outcome'[b][j] # "not run"
    <3>1. SUFFICES ASSUME NEW b \in Analyses, NEW j \in DOMAIN Blocks[b]
                   PROVE  /\ j \in Ahead(b)' => outcome'[b][j] = "not run"
                          /\ j \notin Ahead(b)' /\ Runnable(b, j) => outcome'[b][j] # "not run"
      BY Zenon
    <3>2. CASE b = a
      BY <2>3, <3>2, Zenon
    <3>3. CASE b # a
      BY <2>4, <3>3, Zenon
    <3> QED BY <3>2, <3>3
  <2> QED BY <2>5 DEF OrderInv
<1>9. FoundInv'
  <2>1. outcome[a][i] = "not run"
    BY <1>1, <1>2, <1>3 DEF OrderInv, Ahead, Within
  <2> QED BY <1>2, <1>3, <2>1, NotSeen
<1> QED BY <1>6, <1>7, <1>e, <1>8, <1>9

\* A container is removed: the findings of its block follow those of the blocks before.
LEMMA FoundStep ==
  ASSUME IInv, NEW a \in Analyses, Removed(a), ~ Panics(Blocks[a][block[a]], Client(a).exit)
  PROVE  IInv'
<1> USE DEF IInv
<1>1. PICK i, exit, more :
        /\ i = block[a] /\ exit = container[a][i].exit
        /\ more = Verdict(Blocks[a][i], exit)
  OBVIOUS
<1>2. /\ pc[a] = "removing" /\ container[a][i].state = "exited"
      /\ container' = [container EXCEPT ![a][i] = Absent]
      /\ outcome' = [outcome EXCEPT ![a][i] = exit]
      /\ found' = [found EXCEPT ![a] = @ \o more]
      /\ pc' = [pc EXCEPT ![a] = "next"]
      /\ UNCHANGED <<env, cell, block, waited>>
  BY <1>1 DEF Removed, EndedInv, Client
<1>3. i \in DOMAIN Blocks[a]
  BY <1>1, <1>2 DEF CellInv, Within
<1>4. /\ Blocks[a][i] \in Block /\ Len(Blocks[a]) \in Nat
      /\ DOMAIN Blocks[a] = 1..Len(Blocks[a]) /\ i \in 1..Len(Blocks[a])
  BY <1>3, Data
<1>5. /\ container[a][i] \in Container /\ exit \in Exits /\ more \in Seq(Findings)
      /\ Absent \in Container /\ Absent.state = "absent"
  <2>1. container[a][i] \in Container
    BY <1>3 DEF TypeOK, Container
  <2>2. exit \in Exits
    BY <1>1, <2>1 DEF Container
  <2>3. Absent \in Container /\ Absent.state = "absent"
    BY Data DEF Absent, Container, States, Exits
  <2>4. more \in Seq(Findings)
    BY <1>1, <1>4, <2>2, ShownType
  <2> QED BY <2>1, <2>2, <2>3, <2>4
<1>6. /\ DOMAIN outcome' = Analyses
      /\ \A b \in Analyses :
           /\ DOMAIN outcome'[b] = DOMAIN Blocks[b]
           /\ \A j \in DOMAIN Blocks[b] :
                outcome'[b][j] = IF b = a /\ j = i THEN exit ELSE outcome[b][j]
  <2>1. DOMAIN outcome = Analyses /\ \A b \in Analyses : DOMAIN outcome[b] = DOMAIN Blocks[b]
    BY DEF TypeOK
  <2> QED BY <1>2, <1>3, <2>1
<1>7. /\ DOMAIN container' = Analyses
      /\ \A b \in Analyses :
           /\ DOMAIN container'[b] = DOMAIN Blocks[b]
           /\ \A j \in DOMAIN Blocks[b] :
                container'[b][j] = IF b = a /\ j = i THEN Absent ELSE container[b][j]
  <2>1. DOMAIN container = Analyses /\ \A b \in Analyses : DOMAIN container[b] = DOMAIN Blocks[b]
    BY DEF TypeOK
  <2> QED BY <1>2, <1>3, <2>1
<1>8. /\ \A b \in Analyses : pc'[b] = IF b = a THEN "next" ELSE pc[b]
      /\ \A b \in Analyses : found'[b] = IF b = a THEN found[a] \o more ELSE found[b]
  BY <1>2 DEF TypeOK
<1>9. TypeOK'
  <2>2. pc' \in [Analyses -> Places]
    BY <1>2 DEF TypeOK, Places
  <2>3. found' \in [Analyses -> Seq(Findings)]
    <3>1. found[a] \in Seq(Findings)
      BY DEF TypeOK
    <3>2. found[a] \o more \in Seq(Findings)
      BY <1>5, <3>1, ConcatProperties
    <3> QED BY <1>2, <3>2 DEF TypeOK
  <2>4. \A b \in Analyses : \A j \in DOMAIN Blocks[b] :
          container'[b][j] \in Container /\ outcome'[b][j] \in Outcomes
    <3>1. \A b \in Analyses : \A j \in DOMAIN Blocks[b] :
            container[b][j] \in Container /\ outcome[b][j] \in Outcomes
      BY DEF TypeOK, Container, Outcomes
    <3>2. ASSUME NEW b \in Analyses, NEW j \in DOMAIN Blocks[b]
          PROVE  container'[b][j] \in Container
      BY <1>5, <1>7, <3>1
    <3>3. ASSUME NEW b \in Analyses, NEW j \in DOMAIN Blocks[b]
          PROVE  outcome'[b][j] \in Outcomes
      BY <1>5, <1>6, <3>1 DEF Outcomes
    <3> QED BY <3>2, <3>3
  <2> QED BY <1>2, <1>6, <1>7, <2>2, <2>3, <2>4 DEF TypeOK, env, Container, Places, Outcomes
<1>10. CellInv'
  <2>1. \A b \in Analyses : Rest(b)' = Rest(b)
    BY <1>2 DEF Rest
  <2>2. /\ cell' = cell /\ block' = block /\ cell.value \in ToSet(Runtimes)
        /\ (cell.by # "none" => cell.value = "unset")
    BY <1>2 DEF CellInv, Within
  <2>3. ASSUME NEW b \in Analyses
        PROVE  /\ pc'[b] = "idle" => block[b] = 0
               /\ Within(b)' => block[b] \in DOMAIN Blocks[b]
               /\ pc'[b] = "done" => Rest(b) = {} \/ cell.value = "none"
    BY <1>8 DEF CellInv, Within
  <2> QED BY <2>1, <2>2, <2>3 DEF CellInv
<1>e. EndedInv'
  <2>1. SUFFICES ASSUME NEW b \in Analyses, pc'[b] = "removing"
                 PROVE  container'[b][block'[b]].state = "exited"
    BY DEF EndedInv, Client
  <2>2. b # a /\ pc[b] = "removing" /\ block'[b] = block[b]
    BY <1>2, <1>8, <2>1
  <2>3. block[b] \in DOMAIN Blocks[b]
    BY <2>2 DEF CellInv, Within
  <2> QED BY <1>7, <2>2, <2>3 DEF EndedInv, Client
<1>11. \A j \in DOMAIN Blocks[a] : j \in Ahead(a) <=> j >= i
  <2>1. SUFFICES ASSUME NEW j \in DOMAIN Blocks[a] PROVE (j > i \/ j = i) <=> j >= i
    BY <1>1, <1>2 DEF Ahead, Within
  <2> QED BY <1>4
<1>12. OrderInv'
  <2>1. \A b \in Analyses : b # a => Ahead(b)' = Ahead(b)
    BY <1>2, <1>8 DEF Ahead, Within
  <2>2. \A j \in DOMAIN Blocks[a] : j \in Ahead(a)' <=> j > i
    BY <1>1, <1>2, <1>8 DEF Ahead, Within
  <2>3. ASSUME NEW j \in DOMAIN Blocks[a]
        PROVE  /\ j \in Ahead(a)' => outcome'[a][j] = "not run"
               /\ j \notin Ahead(a)' /\ Runnable(a, j) => outcome'[a][j] # "not run"
    <3>1. /\ j \in Ahead(a) => outcome[a][j] = "not run"
          /\ j \notin Ahead(a) /\ Runnable(a, j) => outcome[a][j] # "not run"
      BY DEF OrderInv
    <3>2. outcome'[a][j] = IF j = i THEN exit ELSE outcome[a][j]
      BY <1>6
    <3>3. (j > i <=> j >= i /\ j # i) /\ exit # "not run"
      <4>1. j > i <=> j >= i /\ j # i
        BY <1>4
      <4> QED BY <1>5, <4>1 DEF Exits
    <3> QED BY <1>11, <2>2, <3>1, <3>2, <3>3
  <2>4. ASSUME NEW b \in Analyses, b # a, NEW j \in DOMAIN Blocks[b]
        PROVE  /\ j \in Ahead(b)' => outcome'[b][j] = "not run"
               /\ j \notin Ahead(b)' /\ Runnable(b, j) => outcome'[b][j] # "not run"
    <3>1. /\ j \in Ahead(b) => outcome[b][j] = "not run"
          /\ j \notin Ahead(b) /\ Runnable(b, j) => outcome[b][j] # "not run"
      BY DEF OrderInv
    <3>2. outcome'[b][j] = outcome[b][j] /\ Ahead(b)' = Ahead(b)
      BY <1>6, <2>1, <2>4
    <3> QED BY <3>1, <3>2
  <2>5. \A b \in Analyses : \A j \in DOMAIN Blocks[b] :
          /\ j \in Ahead(b)' => outcome'[b][j] = "not run"
          /\ j \notin Ahead(b)' /\ Runnable(b, j) => outcome'[b][j] # "not run"
    <3>1. SUFFICES ASSUME NEW b \in Analyses, NEW j \in DOMAIN Blocks[b]
                   PROVE  /\ j \in Ahead(b)' => outcome'[b][j] = "not run"
                          /\ j \notin Ahead(b)' /\ Runnable(b, j) => outcome'[b][j] # "not run"
      BY Zenon
    <3>2. CASE b = a
      BY <2>3, <3>2, Zenon
    <3>3. CASE b # a
      BY <2>4, <3>3, Zenon
    <3> QED BY <3>2, <3>3
  <2> QED BY <2>5 DEF OrderInv
<1>13. ASSUME flips = 0, "unpullable" \notin Range(outcome'[a])
       PROVE  found'[a] = FlattenSeq(Shows(a)')
  <2>1. \A j \in DOMAIN Blocks[a] : outcome'[a][j] # "unpullable"
    BY <1>6, <1>13 DEF Range
  <2>2. exit = OwnEnd(Blocks[a][i])
    <3>1. exit # "unpullable"
      <4>1. outcome'[a][i] = exit
        BY <1>3, <1>6
      <4> QED BY <1>3, <2>1, <4>1
    <3>2. exit \in {"unpullable", OwnEnd(Blocks[a][i])}
      <4>1. container[a][i].state = "exited" /\ container[a][i].exit = exit
        BY <1>1, <1>2
      <4> QED BY <1>3, <1>13, <4>1 DEF FoundInv
    <3> QED BY <3>1, <3>2
  <2>3. "unpullable" \notin Range(outcome[a])
    <3>1. \A j \in DOMAIN Blocks[a] : outcome[a][j] # "unpullable"
      <4>1. outcome[a][i] = "not run"
        BY <1>1, <1>2, <1>3 DEF OrderInv, Ahead, Within
      <4> QED BY <1>6, <2>1, <4>1
    <3>2. DOMAIN outcome[a] = DOMAIN Blocks[a]
      BY DEF TypeOK
    <3> QED BY <3>1, <3>2 DEF Range
  <2>4. PICK ss, tt : ss = Shows(a) /\ tt = Shows(a)'
    OBVIOUS
  <2>5. /\ ss \in Seq(Seq(Findings)) /\ Len(ss) = Len(Blocks[a])
        /\ tt \in Seq(Seq(Findings)) /\ Len(tt) = Len(Blocks[a])
    <3>1. ss \in Seq(Seq(Findings)) /\ Len(ss) = Len(Blocks[a])
      BY <2>4, ShowsType DEF Shows
    <3>2. tt \in Seq(Seq(Findings)) /\ Len(tt) = Len(Blocks[a])
      BY <2>4, ShowsType DEF Shows
    <3> QED BY <3>1, <3>2
  <2>6. ASSUME NEW j \in 1..Len(ss)
        PROVE  /\ j < i => tt[j] = ss[j]
               /\ j >= i => ss[j] = << >>
               /\ j > i => tt[j] = << >>
    <3>1. j \in DOMAIN Blocks[a] /\ j \in Nat /\ i \in Nat
      BY <1>4, <2>5
    <3>2. ss[j] = IF outcome[a][j] \notin Exits THEN << >>
                  ELSE Shown(Blocks[a][j]) \o InOrder(Blocks[a][j].prints)
      BY <2>4, <3>1 DEF Shows
    <3>3. tt[j] = IF outcome'[a][j] \notin Exits THEN << >>
                  ELSE Shown(Blocks[a][j]) \o InOrder(Blocks[a][j].prints)
      BY <2>4, <3>1 DEF Shows
    <3>4. j >= i => outcome[a][j] = "not run"
      BY <1>11, <3>1 DEF OrderInv
    <3>5. j # i => outcome'[a][j] = outcome[a][j]
      BY <1>6, <3>1
    <3>6. /\ j < i => j # i
          /\ j > i => j # i /\ j >= i
      BY <3>1
    <3> QED BY <3>2, <3>3, <3>4, <3>5, <3>6 DEF Exits
  <2>7. FlattenSeq(tt) = FlattenSeq(ss) \o tt[i]
    <3>1. i \in 1..Len(ss) /\ Len(tt) = Len(ss)
      BY <1>4, <2>5
    <3> QED BY <2>5, <2>6, <3>1, FlattenedNext
  <2>8. tt[i] = more
    <3>1. tt[i] = Shown(Blocks[a][i]) \o InOrder(Blocks[a][i].prints)
      <4>1. outcome'[a][i] \in Exits
        BY <1>3, <1>5, <1>6
      <4> QED BY <1>3, <2>4, <4>1 DEF Shows
    <3> QED BY <1>1, <1>4, <2>2, <3>1, VerdictIsShown
  <2>9. found[a] = FlattenSeq(ss)
    BY <1>13, <2>3, <2>4 DEF FoundInv
  <2> QED BY <1>8, <2>4, <2>7, <2>8, <2>9
<1>14. FoundInv'
  <2>1. \A b \in Analyses : b # a => outcome'[b] = outcome[b] /\ Shows(b)' = Shows(b)
    <3>1. \A b \in Analyses : b # a => outcome'[b] = outcome[b]
      BY <1>2 DEF TypeOK
    <3> QED BY <3>1 DEF Shows
  <2>2. \A b \in Analyses : \A j \in DOMAIN Blocks[b] :
          container'[b][j].state = "exited" => container'[b][j] = container[b][j]
    BY <1>5, <1>7
  <2>3. flips' = flips /\ up' = up /\ cell' = cell
    BY <1>2 DEF env
  <2>4. ASSUME flips = 0, NEW b \in Analyses, "unpullable" \notin Range(outcome'[b])
        PROVE  found'[b] = FlattenSeq(Shows(b)')
    <3>1. CASE b = a
      BY <1>13, <2>4, <3>1, Zenon
    <3>2. CASE b # a
      BY <1>8, <2>1, <2>4, <3>2 DEF FoundInv
    <3> QED BY <3>1, <3>2
  <2> QED BY <2>2, <2>3, <2>4 DEF FoundInv
<1> QED BY <1>9, <1>10, <1>e, <1>12, <1>14

\* A client has ended, or the task ends with the removal of its container: the
\* analysis stays within its block.
LEMMA WithinStep ==
  ASSUME IInv, NEW a \in Analyses,
         Exited(a) \/ (Removed(a) /\ Panics(Blocks[a][block[a]], Client(a).exit))
  PROVE  IInv'
<1> USE DEF IInv
<1>1. PICK to \in {"removing", "died"} :
        /\ Within(a) /\ pc' = [pc EXCEPT ![a] = to]
        /\ waited' \in [Analyses -> Nat]
        /\ to = "removing" => Client(a).state = "exited" /\ container' = container
        /\ container' = container \/ container' = [container EXCEPT ![a][block[a]] = Absent]
        /\ UNCHANGED <<env, cell, block, found, outcome>>
  <2>1. CASE Exited(a)
    <3>1. [waited EXCEPT ![a] = 0] \in [Analyses -> Nat]
      BY DEF TypeOK
    <3> QED BY <2>1, <3>1 DEF Exited, Within
  <2>2. CASE Removed(a) /\ Panics(Blocks[a][block[a]], Client(a).exit)
    <3>1. waited \in [Analyses -> Nat]
      BY DEF TypeOK
    <3>2. /\ pc[a] = "removing" /\ pc' = [pc EXCEPT ![a] = "died"]
          /\ container' = [container EXCEPT ![a][block[a]] = Absent]
          /\ UNCHANGED <<env, cell, block, waited, found, outcome>>
      BY <2>2 DEF Removed
    <3> QED BY <3>1, <3>2 DEF Within
  <2> QED BY <2>1, <2>2
<1>2. \A b \in Analyses : pc'[b] = IF b = a THEN to ELSE pc[b]
  BY <1>1 DEF TypeOK
<1>3. \A b \in Analyses :
        /\ Within(b)' <=> Within(b)
        /\ Rest(b)' = Rest(b) /\ Ahead(b)' = Ahead(b) /\ Shows(b)' = Shows(b)
  <2>1. ASSUME NEW b \in Analyses PROVE Within(b)' <=> Within(b)
    BY <1>1, <1>2 DEF Within
  <2> QED BY <1>1, <2>1 DEF Rest, Ahead, Shows
<1>4. block[a] \in DOMAIN Blocks[a]
  BY <1>1 DEF CellInv
<1>5. /\ DOMAIN container' = Analyses
      /\ \A b \in Analyses :
           /\ DOMAIN container'[b] = DOMAIN Blocks[b]
           /\ \A j \in DOMAIN Blocks[b] :
                \/ container'[b][j] = container[b][j]
                \/ b = a /\ container'[b][j] = Absent /\ to = "died"
  <2>1. DOMAIN container = Analyses /\ \A b \in Analyses : DOMAIN container[b] = DOMAIN Blocks[b]
    BY DEF TypeOK
  <2>2. CASE container' = container
    BY <2>1, <2>2
  <2>3. CASE container' # container
    BY <1>1, <1>4, <2>1, <2>3, Put
  <2> QED BY <2>2, <2>3
<1>6. Absent \in Container /\ Absent.state = "absent"
  BY DEF Absent, Container, States, Exits
<1>7. TypeOK'
  <2>1. \A b \in Analyses : \A j \in DOMAIN Blocks[b] : container'[b][j] \in Container
    <3>1. \A b \in Analyses : \A j \in DOMAIN Blocks[b] : container[b][j] \in Container
      BY DEF TypeOK, Container
    <3> QED BY <1>5, <1>6, <3>1
  <2>2. pc' \in [Analyses -> Places]
    BY <1>1 DEF TypeOK, Places
  <2> QED BY <1>1, <1>5, <2>1, <2>2 DEF TypeOK, env, Container, Places
<1>8. CellInv'
  <2>1. ASSUME NEW b \in Analyses
        PROVE  /\ pc'[b] = "idle" => pc[b] = "idle"
               /\ pc'[b] = "next" => pc[b] = "next"
               /\ pc'[b] = "done" => pc[b] = "done"
    BY <1>1, <1>2
  <2> QED BY <1>1, <1>3, <2>1 DEF CellInv
<1>9. EndedInv'
  <2>1. SUFFICES ASSUME NEW b \in Analyses, pc'[b] = "removing"
                 PROVE  container'[b][block'[b]].state = "exited"
    BY DEF EndedInv, Client
  <2>2. block'[b] = block[b]
    BY <1>1
  <2>3. CASE b = a
    BY <1>1, <1>2, <2>1, <2>2, <2>3 DEF Client
  <2>4. CASE b # a
    <3>1. pc[b] = "removing"
      BY <1>2, <2>1, <2>4
    <3>2. block[b] \in DOMAIN Blocks[b]
      BY <3>1 DEF CellInv, Within
    <3> QED BY <1>5, <2>2, <2>4, <3>1, <3>2 DEF EndedInv, Client
  <2> QED BY <2>3, <2>4
<1>10. OrderInv'
  BY <1>1, <1>3 DEF OrderInv
<1>11. FoundInv'
  <2>1. \A b \in Analyses : \A j \in DOMAIN Blocks[b] :
          container'[b][j].state = "exited" => container'[b][j] = container[b][j]
    BY <1>5, <1>6
  <2> QED BY <1>1, <1>3, <2>1 DEF FoundInv, env
<1> QED BY <1>7, <1>8, <1>9, <1>10, <1>11

\* What the daemon and time do to the containers leaves every analysis where it is.
LEMMA ContainersMove ==
  ASSUME IInv, UNCHANGED <<cell, pc, block, found, outcome>>,
         waited' \in [Analyses -> Nat],
         flips' \in 0..MaxFlips, up' \subseteq ToSet(Runtimes),
         flips' = 0 => flips = 0 /\ up' = up,
         DOMAIN container' = Analyses,
         \A b \in Analyses :
           /\ DOMAIN container'[b] = DOMAIN Blocks[b]
           /\ \A j \in DOMAIN Blocks[b] :
                /\ container'[b][j] \in Container
                /\ container[b][j].state = "exited" => container'[b][j].state = "exited"
                /\ flips' = 0 /\ container'[b][j].state = "exited" =>
                     container'[b][j].exit \in {"unpullable", OwnEnd(Blocks[b][j])}
  PROVE  IInv'
<1> USE DEF IInv
<1>1. \A b \in Analyses :
        /\ Rest(b)' = Rest(b) /\ Ahead(b)' = Ahead(b) /\ Shows(b)' = Shows(b)
  BY DEF Rest, Ahead, Within, Shows
<1>2. TypeOK'
  BY DEF TypeOK, Container
<1>3. CellInv' /\ EndedInv'
  <2>1. CellInv'
    BY <1>1 DEF CellInv, Within
  <2>2. \A b \in Analyses : pc[b] = "removing" => block[b] \in DOMAIN Blocks[b]
    BY DEF CellInv, Within
  <2> QED BY <2>1, <2>2 DEF EndedInv, Client
<1>4. OrderInv'
  BY <1>1 DEF OrderInv
<1>5. FoundInv'
  BY <1>1 DEF FoundInv
<1> QED BY <1>2, <1>3, <1>4, <1>5

\* A container starts, its start fails, or its program ends.
LEMMA ContainerStep ==
  ASSUME IInv, NEW a \in Analyses, NEW i \in DOMAIN Blocks[a],
         Started(a, i) \/ PullFails(a, i) \/ ProgramEnds(a, i)
  PROVE  IInv'
<1> USE DEF IInv
<1>0. /\ Blocks[a][i] \in Block /\ container[a][i] \in Container
      /\ Absent \in Container /\ Absent.state = "absent"
  <2>1. Absent \in Container /\ Absent.state = "absent"
    BY Data DEF Absent, Container, States, Exits
  <2>2. Blocks[a][i] \in Block
    BY Data
  <2>3. container[a][i] \in Container
    BY DEF TypeOK, Container
  <2> QED BY <2>1, <2>2, <2>3
<1>1. PICK c \in Container :
        /\ container' = [container EXCEPT ![a][i] = c]
        /\ UNCHANGED <<env, cell, analysis>> /\ container[a][i].state # "exited"
        /\ c.state = "exited" => c.exit \in {"unpullable", OwnEnd(Blocks[a][i])}
  <2>1. CASE Started(a, i)
    <3>1. [container[a][i] EXCEPT !.state = "running"] \in Container
      BY <1>0 DEF Container, States
    <3>2. [container[a][i] EXCEPT !.state = "running"].state = "running"
      BY <1>0 DEF Container
    <3>3. container' = [container EXCEPT ![a][i] = [container[a][i] EXCEPT !.state = "running"]]
      BY <2>1 DEF Started, TypeOK
    <3> QED BY <2>1, <3>1, <3>2, <3>3 DEF Started
  <2>2. ASSUME NEW exit \in {"unpullable", OwnEnd(Blocks[a][i])}, End(a, i, exit)
        PROVE  /\ Ended(a, i, exit) \in Container
               /\ container' = [container EXCEPT ![a][i] = Ended(a, i, exit)]
               /\ UNCHANGED <<env, cell, analysis>>
               /\ Ended(a, i, exit).state = "exited" =>
                    Ended(a, i, exit).exit \in {"unpullable", OwnEnd(Blocks[a][i])}
    <3>1. OwnEnd(Blocks[a][i]) \in Exits
      BY <1>0 DEF OwnEnd, Exits, Block
    <3>2. [state |-> "exited", ran |-> container[a][i].ran, exit |-> exit] \in Container
      BY <1>0, <3>1 DEF Container, States, Exits
    <3> QED BY <1>0, <2>2, <3>2 DEF End, Ended
  <2>3. CASE PullFails(a, i)
    BY <2>2, <2>3 DEF PullFails
  <2>4. CASE ProgramEnds(a, i)
    BY <2>2, <2>4 DEF ProgramEnds, OwnEnd
  <2>5. container[a][i].state # "exited"
    BY DEF Started, PullFails, ProgramEnds
  <2> QED BY <2>1, <2>3, <2>4, <2>5
<1>2. /\ DOMAIN container' = Analyses
      /\ \A b \in Analyses :
           /\ DOMAIN container'[b] = DOMAIN Blocks[b]
           /\ \A j \in DOMAIN Blocks[b] :
                container'[b][j] = IF b = a /\ j = i THEN c ELSE container[b][j]
  <2>1. DOMAIN container = Analyses /\ \A b \in Analyses : DOMAIN container[b] = DOMAIN Blocks[b]
    BY DEF TypeOK
  <2> QED BY <1>1, <2>1
<1>3. ASSUME NEW b \in Analyses, NEW j \in DOMAIN Blocks[b]
      PROVE  /\ container'[b][j] \in Container
             /\ container[b][j].state = "exited" => container'[b][j].state = "exited"
             /\ flips' = 0 /\ container'[b][j].state = "exited" =>
                     container'[b][j].exit \in {"unpullable", OwnEnd(Blocks[b][j])}
  <2>1. container[b][j] \in Container /\ flips' = flips
    BY <1>1 DEF TypeOK, Container, env
  <2>2. flips = 0 /\ container[b][j].state = "exited" =>
          container[b][j].exit \in {"unpullable", OwnEnd(Blocks[b][j])}
    BY DEF FoundInv
  <2> QED BY <1>1, <1>2, <2>1, <2>2
<1>4. /\ UNCHANGED <<cell, pc, block, found, outcome>> /\ waited' \in [Analyses -> Nat]
      /\ flips' \in 0..MaxFlips /\ up' \subseteq ToSet(Runtimes)
      /\ flips' = 0 => flips = 0 /\ up' = up
  BY <1>1 DEF TypeOK, env, analysis
<1> QED BY <1>2, <1>3, <1>4, ContainersMove

\* A daemon starts or stops, or time passes.
LEMMA WorldStep ==
  ASSUME IInv, (\E r \in ToSet(Runtimes) : Flip(r)) \/ Tick
  PROVE  IInv'
<1> USE DEF IInv
<1>0. \A b \in Analyses : \A j \in DOMAIN Blocks[b] : container[b][j] \in Container
  BY DEF TypeOK, Container
<1>1. CASE \E r \in ToSet(Runtimes) : Flip(r)
  <2>1. PICK r \in ToSet(Runtimes) : Flip(r)
    BY <1>1
  <2>2. /\ flips' \in 0..MaxFlips /\ flips' # 0 /\ up' \subseteq ToSet(Runtimes)
        /\ UNCHANGED <<cell, pc, block, found, outcome>>
        /\ waited' \in [Analyses -> Nat]
    <3>1. flips \in 0..MaxFlips /\ flips < MaxFlips /\ flips' = flips + 1 /\ MaxFlips \in Nat
      BY <2>1, Data DEF TypeOK, Flip
    <3>2. flips' \in 0..MaxFlips /\ flips' # 0
      BY <3>1
    <3> QED BY <2>1, <3>2 DEF TypeOK, Flip, analysis
  <2>3. ASSUME NEW b \in Analyses, NEW j \in DOMAIN Blocks[b]
        PROVE  /\ container'[b][j] \in Container
               /\ container[b][j].state = "exited" => container'[b][j].state = "exited"
    <3>1. container'[b][j] =
            IF r = cell.value /\ r \in up /\ Alive(b, j)
            THEN Ended(b, j, IF container[b][j].state = "running" THEN "killed" ELSE "lost")
            ELSE container[b][j]
      BY <2>1 DEF Flip
    <3>2. Absent \in Container
      BY Data DEF Absent, Container, States, Exits
    <3>3. ASSUME NEW exit \in {"killed", "lost"} PROVE Ended(b, j, exit) \in Container
      <4>1. container[b][j].ran \in Nat
        BY <1>0 DEF Container
      <4>2. [state |-> "exited", ran |-> container[b][j].ran, exit |-> exit] \in Container
        BY <4>1 DEF Container, States, Exits
      <4> QED BY <3>2, <4>2 DEF Ended
    <3> QED BY <1>0, <3>1, <3>3 DEF Alive
  <2>4. /\ DOMAIN container' = Analyses
        /\ \A b \in Analyses : DOMAIN container'[b] = DOMAIN Blocks[b]
    BY <2>1 DEF Flip
  <2> QED BY <2>2, <2>3, <2>4, ContainersMove
<1>2. CASE Tick
  <2>1. UNCHANGED <<env, cell, pc, block, found, outcome>>
    BY <1>2 DEF Tick
  <2>2. waited' \in [Analyses -> Nat]
    <3>1. ASSUME NEW b \in Analyses
          PROVE  (IF pc[b] = "waiting" THEN waited[b] + 1 ELSE 0) \in Nat
      <4>1. waited[b] \in Nat
        BY DEF TypeOK
      <4> QED BY <4>1
    <3>2. waited' = [b \in Analyses |-> IF pc[b] = "waiting" THEN waited[b] + 1 ELSE 0]
      BY <1>2 DEF Tick
    <3> QED BY <3>1, <3>2
  <2>3. ASSUME NEW b \in Analyses, NEW j \in DOMAIN Blocks[b]
        PROVE  /\ container'[b][j] \in Container
               /\ container[b][j].state = "exited" => container'[b][j].state = "exited"
               /\ container'[b][j].state = "exited" => container'[b][j] = container[b][j]
    <3>1. container'[b][j] = IF container[b][j].state = "running"
                             THEN [container[b][j] EXCEPT !.ran = @ + 1] ELSE container[b][j]
      BY <1>2 DEF Tick
    <3>2. CASE container[b][j].state = "running"
      <4>4. container[b][j].ran + 1 \in Nat
        BY <1>0 DEF Container
      <4>5. [container[b][j] EXCEPT !.ran = @ + 1] \in Container
        BY <1>0, <4>4 DEF Container
      <4>6. [container[b][j] EXCEPT !.ran = @ + 1].state = "running"
        BY <1>0, <3>2 DEF Container
      <4> QED BY <3>1, <3>2, <4>5, <4>6
    <3>3. CASE container[b][j].state # "running"
      BY <1>0, <3>1, <3>3
    <3> QED BY <3>2, <3>3
  <2>4. /\ DOMAIN container' = Analyses
        /\ \A b \in Analyses : DOMAIN container'[b] = DOMAIN Blocks[b]
    BY <1>2 DEF Tick
  <2>5. ASSUME NEW b \in Analyses, NEW j \in DOMAIN Blocks[b]
        PROVE  /\ container'[b][j] \in Container
               /\ container[b][j].state = "exited" => container'[b][j].state = "exited"
               /\ flips' = 0 /\ container'[b][j].state = "exited" =>
                    container'[b][j].exit \in {"unpullable", OwnEnd(Blocks[b][j])}
    <3>1. flips = 0 /\ container[b][j].state = "exited" =>
            container[b][j].exit \in {"unpullable", OwnEnd(Blocks[b][j])}
      BY DEF FoundInv
    <3> QED BY <2>1, <2>3, <3>1 DEF env
  <2>6. flips' \in 0..MaxFlips /\ up' \subseteq ToSet(Runtimes) /\ (flips' = 0 => flips = 0 /\ up' = up)
    BY <2>1 DEF TypeOK, env
  <2> QED BY <2>1, <2>2, <2>4, <2>5, <2>6, ContainersMove
<1> QED BY <1>1, <1>2

\* The invariant holds in every reachable state.
LEMMA Invariant == Spec => []IInv
<1>1. IInv /\ [Next]_vars => IInv'
  <2> SUFFICES ASSUME IInv, [Next]_vars PROVE IInv'
    OBVIOUS
  <2>1. ASSUME NEW a \in Analyses, Own(a) \/ Awaited(a) PROVE IInv'
    <3>1. CASE Own(a)
      BY <3>1, CellStep, EndsStep, SpawnStep, SpawnFailsStep, TimeoutStep, WithinStep DEF Own
    <3>2. CASE Awaited(a)
      BY <3>2, CellStep, FoundStep, WithinStep DEF Awaited
    <3> QED BY <2>1, <3>1, <3>2
  <2>2. CASE Daemon
    BY <2>2, ContainerStep DEF Daemon
  <2>3. CASE (\E r \in ToSet(Runtimes) : Flip(r)) \/ Tick
    BY <2>3, WorldStep
  <2>4. CASE UNCHANGED vars
    <3>1. /\ UNCHANGED <<cell, pc, block, found, outcome>>
          /\ waited' = waited /\ flips' = flips /\ up' = up /\ container' = container
      BY <2>4 DEF vars, env, analysis
    <3>2. \A b \in Analyses : Rest(b)' = Rest(b) /\ Ahead(b)' = Ahead(b) /\ Shows(b)' = Shows(b)
      BY <3>1 DEF Rest, Ahead, Within, Shows
    <3>3. TypeOK' /\ CellInv' /\ EndedInv' /\ OrderInv'
      <4>1. TypeOK'
        BY <3>1 DEF IInv, TypeOK
      <4>2. CellInv'
        BY <3>1, <3>2 DEF IInv, CellInv, Within
      <4>e. EndedInv'
        BY <3>1 DEF IInv, EndedInv, Client
      <4>3. OrderInv'
        BY <3>1, <3>2 DEF IInv, OrderInv
      <4> QED BY <4>1, <4>2, <4>e, <4>3
    <3>4. FoundInv'
      BY <3>1, <3>2 DEF IInv, FoundInv
    <3> QED BY <3>3, <3>4 DEF IInv
  <2> QED BY <2>1, <2>2, <2>3, <2>4 DEF Next
<1> QED BY <1>1, InitInv, PTL DEF Spec

\* Every variable keeps its type, whatever the runtimes, containers and programs do.
THEOREM TypeCorrect == Spec => []TypeOK
BY Invariant, PTL DEF IInv

\* detect_runtime answers once for the whole process: no analysis is skipped for
\* want of a runtime while another has started a block.
THEOREM Agreed == Spec => []AllAgree
<1>1. IInv => AllAgree
  <2> SUFFICES ASSUME IInv, NEW a \in Analyses, NEW b \in Analyses, NEW i \in DOMAIN Blocks[a],
                      pc[a] = "done", block[a] = 0, Runnable(a, i), block[b] > 0
               PROVE  FALSE
    BY DEF AllAgree
  <2>1. i \in Rest(a)
    <3>1. i \in (0 + 1)..Len(Blocks[a])
      BY Data
    <3> QED BY <3>1 DEF Rest
  <2>2. cell.value = "none" /\ cell.value \in ToSet(Runtimes)
    BY <2>1 DEF IInv, CellInv
  <2> QED BY <2>2, Data
<1> QED BY <1>1, Invariant, PTL

\* While the daemon stays up, execute_block is reached for every block that can be
\* run, a timeout or not, and analyze returns what each of the programs shows by
\* its end and its output, in the order of the blocks.
THEOREM FoundRight == Spec => []FoundIsWhatRan
<1>1. IInv => FoundIsWhatRan
  <2> SUFFICES ASSUME IInv, NEW a \in Analyses, pc[a] = "done",
                      cell.value \in ToSet(Runtimes), flips = 0
               PROVE  /\ \A i \in DOMAIN Blocks[a] : Runnable(a, i) => outcome[a][i] # "not run"
                      /\ "unpullable" \notin Range(outcome[a]) => found[a] = FlattenSeq(Shows(a))
    BY DEF FoundIsWhatRan
  <2>1. Rest(a) = {}
    BY Data DEF IInv, CellInv
  <2>2. ASSUME NEW i \in DOMAIN Blocks[a], Runnable(a, i) PROVE outcome[a][i] # "not run"
    <3>1. /\ i \in Nat /\ i <= Len(Blocks[a]) /\ Len(Blocks[a]) \in Nat /\ block[a] \in Nat
      <4>1. block[a] \in Nat
        BY DEF IInv, TypeOK
      <4> QED BY <4>1, Data
    <3>2. ~ (i \in (block[a] + 1)..Len(Blocks[a]))
      BY <2>1, <2>2 DEF Rest
    <3>3. ~ (i > block[a])
      BY <3>1, <3>2
    <3>4. i \notin Ahead(a)
      <4>1. ~ Within(a)
        BY DEF Within
      <4> QED BY <3>3, <4>1 DEF Ahead
    <3> QED BY <2>2, <3>4 DEF IInv, OrderInv
  <2>3. "unpullable" \notin Range(outcome[a]) => found[a] = FlattenSeq(Shows(a))
    BY DEF IInv, FoundInv
  <2> QED BY <2>2, <2>3
<1> QED BY <1>1, Invariant, PTL

================================================================================
