---------------------------- MODULE ShadowAnalysis ----------------------------
(* What the Shadow makes of one output: the code blocks of the text, the line *)
(* scanner, the static rules, the reviewer's prompt and its answer, and the   *)
(* report they become.  ShadowEngine models how the stages run; here the      *)
(* stages compute.                                                            *)
EXTENDS ShadowSetup, ShadowRules, FiniteSetsExt, SequencesExt

CONSTANTS
  Outputs,    \* the outputs, sequences of lines
  Answers,    \* what the reviewer's model may answer
  Hits,       \* Hits[t]: the rules whose patterns match the line t
  Match,      \* Match[t]: what of the line t the patterns match
  Comments,   \* the lines that begin with //, # or --
  Blank,      \* the lines of white space
  CutInside,  \* the evidence that is too long and cut inside a character
  UnitLen     \* characters of a line

\* A line matches so many patterns, and white space none; an answer is a list.
ASSUME LinesAssumption ==
  /\ Outputs \subseteq
       Seq([fence : {TRUE}, of : STRING] \cup [fence : {FALSE}, of : DOMAIN Hits])
  /\ \A answer \in Answers :
       answer.findings \in Seq([title : STRING, description : STRING, category : STRING,
                                severity : STRING, evidence : STRING])
  /\ \A t \in DOMAIN Hits : IsFiniteSet(Hits[t]) /\ (t \in Blank => Hits[t] = {})

VARIABLE submission

analysis == <<file, saving, engine, submission>>

\* A line of backticks with its language, or a line of text.
Fence(lang) == [fence |-> TRUE, of |-> lang]
Text(t) == [fence |-> FALSE, of |-> t]
HitsAt(line) == IF line.fence THEN {} ELSE Hits[line.of]

--------------------------------------------------------------------------------
(* The code blocks                                                         *)

Scanning == [in_block |-> FALSE, lang |-> "none", content |-> << >>, blocks |-> << >>]

IsBlank(content) == \A i \in DOMAIN content : content[i].of \in Blank

\* A fence closes the block whatever its language says; a block without
\* content is not kept, one that is still open at the end is lost.
ExtractLine(st, line) ==
  CASE ~ st.in_block /\ line.fence ->
         [st EXCEPT !.in_block = TRUE, !.lang = line.of, !.content = << >>]
    [] st.in_block /\ line.fence ->
         [st EXCEPT !.in_block = FALSE,
                    !.blocks = IF IsBlank(st.content) THEN @
                               ELSE Append(@, [language |-> st.lang, content |-> st.content])]
    [] st.in_block /\ ~ line.fence -> [st EXCEPT !.content = Append(@, line)]
    [] OTHER -> st

extract(lines) == FoldLeft(ExtractLine, Scanning, lines).blocks

--------------------------------------------------------------------------------
(* The analyzers                                                           *)

VulnFinding(rule, says, evidence, line, source) ==
  [title |-> rule, category |-> says.category, severity |-> says.severity,
   evidence |-> evidence, line |-> line, source |-> source]

\* One sequence out of a sequence of sets: the findings of line 1, of line 2, ...
InOrder(sets) == FlattenSeq([i \in DOMAIN sets |-> SetToSeq(sets[i])])

scan_content(block) ==
  InOrder([i \in DOMAIN block.content |->
    LET t == block.content[i].of IN
    IF t \in Comments THEN {}
    ELSE {VulnFinding(r, ScannerRules[r], t, i, "static") :
            r \in Hits[t] \cap LINE_RULES}])

\* The whole output is a target too, and the first.
Targets(lines, blocks) ==
  <<[language |-> "output", content |-> lines]>> \o blocks

\* Every match of a table's rules in one target, with the line it begins on.
Matches(rules, target) ==
  InOrder([i \in DOMAIN target.content |->
    {VulnFinding(r, rules[r], Match[target.content[i].of], i, "static") :
       r \in HitsAt(target.content[i]) \cap DOMAIN rules}])

EachTarget(rules, lines, blocks) ==
  LET targets == Targets(lines, blocks)
  IN  FlattenSeq([i \in DOMAIN targets |-> Matches(rules, targets[i])])

KeyOf(f) == <<f.category, f.title, f.evidence>>

\* Mutant of dedup_findings: findings on different lines are different.
dedup_findingsByLine(findings) == ToSet(findings)

\* A stable sort, then the first of each run: the finding that came first.
dedup_findings(findings) ==
  {findings[i] : i \in {j \in DOMAIN findings :
     \A k \in 1..(j - 1) : KeyOf(findings[k]) # KeyOf(findings[j])}}

StaticAnalyzer(lines, blocks) ==
  FlattenSeq([i \in DOMAIN blocks |-> scan_content(blocks[i])])
    \o EachTarget(SHADOW_RULES, lines, blocks)

\* truncate_evidence and truncate: what is too long is cut at a byte offset.
Panics(findings) == \E i \in DOMAIN findings : findings[i].evidence \in CutInside

--------------------------------------------------------------------------------
(* The reviewer                                                            *)

Take(s, n) == SubSeq(s, 1, Min({n, Len(s)}))

\* Mutant of Prompt: the blocks are cut to the same length.
PromptCut(lines, blocks, reviewer) ==
  [ego_output |-> Take(lines, reviewer.max_input_len \div UnitLen),
   code_blocks |-> Take(blocks, reviewer.max_input_len \div UnitLen)]

\* The prompt: so much of the output, but every block in full.
Prompt(lines, blocks, reviewer) ==
  [ego_output |-> Take(lines, reviewer.max_input_len \div UnitLen),
   code_blocks |-> blocks]

\* Fences are taken off in pairs; prose around the JSON, or a fence an answer
\* cut short never closed, is what the parser fails on.
Parsable(answer) == answer.wrap \in {"bare", "fenced"} /\ answer.json

\* An unknown category is "unknown", an unknown severity is medium.
map_finding(lf) ==
  VulnFinding(IF lf.title = "" THEN "LLM-detected issue" ELSE lf.title,
          Says(IF lf.category \in Categories THEN lf.category ELSE "unknown",
               IF lf.severity \in DOMAIN Severity THEN lf.severity ELSE "medium"),
          lf.evidence, 0, "llm_review")

\* A finding without title and description is left out.
LlmReviewer(answer) ==
  InOrder([i \in DOMAIN answer.findings |->
    {map_finding(lf) : lf \in {x \in {answer.findings[i]} :
                                 x.title # "" \/ x.description # ""}}])

--------------------------------------------------------------------------------
(* The report                                                              *)

CountOf(findings, s) == Cardinality({f \in findings : f.severity = Severity[s]})

\* The stages' findings in the order of the stages, deduplicated.
Merged(static, llm) == dedup_findings(SetToSeq(static) \o llm)

Report(all_findings, static_run, llm_run) ==
  [findings |-> all_findings,
   max_severity |-> Max({f.severity : f \in all_findings} \cup {0}),
   static_run |-> static_run, llm_run |-> llm_run, clean |-> all_findings = {},
   summary |-> [s \in DOMAIN Severity |-> CountOf(all_findings, s)]]

None == [kind |-> "none"]
Died == [kind |-> "died"]

\* One output through the stages its engine's configuration asks for; the model
\* may not be there, and its answer may not parse.  A stage that panics takes the
\* report with it.
Analyze(lines, answer, available) ==
  LET c          == engine.config
      blocks     == extract(lines)
      static_run == c.aggressiveness >= 1
      llm_run    == /\ c.aggressiveness >= 2 /\ c.llm_review_enabled
                    /\ available /\ Parsable(answer)
      static     == IF static_run THEN StaticAnalyzer(lines, blocks) ELSE << >>
      llm        == IF llm_run THEN LlmReviewer(answer) ELSE << >>
  IN  /\ submission = None
      /\ c.enabled
      /\ submission' =
           IF Panics(static) \/ Panics(llm) THEN Died
           ELSE [kind |-> "done", lines |-> lines,
                 prompt |-> Prompt(lines, blocks, engine.llm_reviewer),
                 report |-> Report(Merged(dedup_findings(static), llm), static_run, llm_run)]
      /\ UNCHANGED setup

AnalysisInit == SetupInit /\ submission = None

\* Settings change before the one submission of a run, not after it.
AnalysisNext ==
  \/ submission = None /\ Setup /\ UNCHANGED submission
  \/ \E lines \in Outputs, answer \in Answers, available \in BOOLEAN :
       Analyze(lines, answer, available)

AnalysisSpec == AnalysisInit /\ [][AnalysisNext]_analysis

--------------------------------------------------------------------------------

Done == submission.kind = "done"

\* The lines of a block that was closed: an odd number of fences before them
\* and one after.
Inside(lines, i) ==
  LET Fences(from, to) == {j \in from..to : lines[j].fence}
  IN  /\ ~ lines[i].fence
      /\ Cardinality(Fences(1, i - 1)) % 2 = 1
      /\ Fences(i + 1, Len(lines)) # {}

\* What a table finds in a line, and what the scanner finds in a line of code.
Row(rules, line) ==
  {<<rules[r].category, r, Match[line.of]>> : r \in HitsAt(line) \cap DOMAIN rules}

ScanRow(line) ==
  IF line.of \in Comments THEN {}
  ELSE {<<ScannerRules[r].category, r, line.of>> : r \in HitsAt(line) \cap LINE_RULES}

\* What must be found, without a parser and without an order: a table's rule on
\* every line it matches, a scanner's rule on every line of code.
RowsOf(rules, lines) == UNION {Row(rules, lines[i]) : i \in DOMAIN lines}

MustFind(lines) ==
  RowsOf(SHADOW_RULES, lines)
    \cup UNION {ScanRow(lines[i]) : i \in {j \in DOMAIN lines : Inside(lines, j)}}

\* In a report that says the static stage ran, each match is there once, though the
\* text of a block is scanned three times: by the scanner's rules as code, by the
\* table as part of the output and again as a block.  Nothing else is there but what
\* the reviewer found.
EachMatchOnce ==
  Done /\ submission.report.static_run =>
    LET found == {f \in submission.report.findings : f.source = "static"}
    IN  /\ {KeyOf(f) : f \in found} = MustFind(submission.lines)
        /\ Cardinality(found) = Cardinality(MustFind(submission.lines))

\* As the README lists the Shadow's layers, the pipeline also reports what the tables
\* of the secrets and of the dependency analyzer find.  No stage runs these two.
AllTablesReported ==
  Done /\ submission.report.static_run =>
    RowsOf(SECRET_RULES, submission.lines) \cup RowsOf(DEP_RULES, submission.lines)
      \subseteq {KeyOf(f) : f \in submission.report.findings}

\* A line of a closed block reaches the reviewer even when the output is longer
\* than what the reviewer is shown of it.
ReviewerSeesCode ==
  Done => \A i \in DOMAIN submission.lines :
    Inside(submission.lines, i) /\ submission.lines[i].of \notin Blank =>
      \E b \in DOMAIN submission.prompt.code_blocks :
        submission.lines[i] \in ToSet(submission.prompt.code_blocks[b].content)

\* As the configuration says of max_input_len, the reviewer is sent no more of the
\* output than so many characters.  The code blocks are sent beside them, in full.
PromptWithinLimit ==
  Done /\ submission.report.llm_run =>
    LET blocks == submission.prompt.code_blocks
        Sent == FoldLeft(LAMBDA n, b : n + Len(b.content),
                         Len(submission.prompt.ego_output), blocks)
    IN  Sent * UnitLen <= engine.llm_reviewer.max_input_len
================================================================================
