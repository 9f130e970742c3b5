--------------------------- MODULE MCShadowAnalysis ---------------------------
(* Outputs of up to five lines: two fences with and without a language, a     *)
(* line that a scanner rule and a table match, the same match on another      *)
(* line, a comment, a blank line, a dependency and a secret, and a line whose *)
(* evidence is cut inside a character.  Lines stand for 500 characters, so    *)
(* that the reviewer sees one line of an output or eight.                     *)
EXTENDS ShadowAnalysis

MCTexts == {"evals", "hash", "hashes", "comment", "install", "blank", "accents"}

MCHits ==
  [evals   |-> {"dangerous-eval", "infinite-loop-risk"},
   hash    |-> {"weak-hash-md5"},
   hashes  |-> {"weak-hash-md5", "jwt"},
   comment |-> {"dangerous-exec", "weak-hash-md5"},
   install |-> {"pipe-to-shell"},
   accents |-> {"dangerous-eval", "weak-hash-md5"},
   blank   |-> {}]

MCMatch ==
  [evals |-> "while(true)", hash |-> "md5(", hashes |-> "md5(", comment |-> "sha1(",
   install |-> "curl", accents |-> "accents", blank |-> ""]

MCLines == {Fence("python")} \cup {Text(t) : t \in MCTexts}

\* Every output of up to two lines, blocks left open, and blocks before, between
\* and behind lines that repeat what is in them.
MCOutputs ==
  UNION {[1..n -> MCLines] : n \in 0..2}
  \cup {<<Fence("sh"), a, b>> : a, b \in MCLines}
  \cup {<<a, Fence("none"), b, c, Fence("none")>> :
          a \in {Text("hash"), Text("evals")}, b, c \in MCLines}
  \cup {<<Fence("js"), a, Fence("none"), b, c>> :
          a \in {Text("hashes"), Text("evals")}, b, c \in MCLines}

Lf(title, category, severity, evidence) ==
  [title |-> title, description |-> "", category |-> category, severity |-> severity,
   evidence |-> evidence]

MCAnswers ==
  {[wrap |-> "fenced", json |-> TRUE,
    findings |-> <<Lf("weak-hash-md5", "crypto_weakness", "critical", "md5("),
                   Lf("", "bug", "odd", "md5("), Lf("logic", "bug", "odd", "md5(")>>],
   [wrap |-> "bare", json |-> TRUE,
    findings |-> <<Lf("weak-hash-md5", "crypto_weakness", "low", "accents")>>],
   [wrap |-> "unclosed", json |-> TRUE, findings |-> << >>]}

MCGiven ==
  {[Default EXCEPT !.aggressiveness = 0], [Default EXCEPT !.max_input_len = 1, !.aggressiveness = 9]}

MCFiles ==
  {Written([max_input_len |-> 1]), Written([aggressiveness |-> 0, sandbox_ttl_secs |-> 900])}
================================================================================
