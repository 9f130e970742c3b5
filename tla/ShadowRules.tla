------------------------------ MODULE ShadowRules ------------------------------
(* The rule tables of laminae-shadow and what its analyzers make of a match:  *)
(* the category and the severity of the finding.  A rule stands for its       *)
(* pattern; which lines a pattern matches is a constant of the modules that   *)
(* scan.                                                                      *)
EXTENDS Naturals

Severity == [info |-> 0, low |-> 1, medium |-> 2, high |-> 3, critical |-> 4]

Categories ==
  {"sql_injection", "command_injection", "path_traversal", "hardcoded_secret",
   "xss_reflected", "xss_stored", "insecure_deserialization", "data_exfiltration",
   "privilege_escalation", "crypto_weakness", "logic_flaw", "adversarial_logic",
   "sandbox_escape", "resource_abuse", "unknown"}

\* What a rule says of a match.
Says(c, s) == [category |-> c, severity |-> Severity[s]]

\* The scanner's line rules that only warn; all others are critical.
WarnRules ==
  {"dangerous-spawn", "dangerous-child-process", "hex-encoded-strings",
   "char-code-obfuscation", "chmod-permissive"}

LINE_RULES == WarnRules \cup
  {"dangerous-eval", "dangerous-function-constructor", "dangerous-exec",
   "dangerous-exec-sync", "keychain-access", "ssh-key-access", "password-harvest",
   "webhook-exfil", "dns-exfil", "recursive-delete", "sensitive-path-access",
   "base64-decode-exec", "sudo-usage", "crypto-mining", "reverse-shell",
   "curl-post-data"}

\* The words of a rule's name decide, in this order, so that a rule that decodes
\* and executes is a command injection by its second word.
map_scanner_category ==
  [r \in LINE_RULES |->
     CASE r \in {"dangerous-eval", "dangerous-exec", "dangerous-exec-sync",
                 "dangerous-spawn", "base64-decode-exec"} -> "command_injection"
       [] r \in {"keychain-access", "ssh-key-access", "password-harvest"} -> "hardcoded_secret"
       [] r \in {"reverse-shell", "crypto-mining"} -> "data_exfiltration"
       [] r \in {"sudo-usage", "chmod-permissive"} -> "privilege_escalation"
       [] r \in {"curl-post-data", "webhook-exfil", "dns-exfil"} -> "data_exfiltration"
       [] r \in {"hex-encoded-strings", "char-code-obfuscation"} -> "command_injection"
       [] OTHER -> "unknown"]

\* map_scanner_severity: the scanner's critical is the report's high.
map_scanner_severity == [r \in LINE_RULES |-> IF r \in WarnRules THEN "medium" ELSE "high"]

ScannerRules == [r \in LINE_RULES |-> Says(map_scanner_category[r], map_scanner_severity[r])]

\* A table from its rows: a rule, and what it says.
Table(rows) ==
  [r \in {row[1] : row \in rows} |->
     LET row == CHOOSE x \in rows : x[1] = r IN Says(row[2], row[3])]

SHADOW_RULES == Table(
  {<<"sqli-string-concat", "sql_injection", "critical">>,
   <<"sqli-format-string", "sql_injection", "critical">>,
   <<"hardcoded-password", "hardcoded_secret", "high">>,
   <<"hardcoded-aws-key", "hardcoded_secret", "critical">>,
   <<"hardcoded-private-key", "hardcoded_secret", "critical">>,
   <<"path-traversal-user-input", "path_traversal", "high">>,
   <<"xss-innerhtml", "xss_reflected", "high">>,
   <<"unsafe-deserialize", "insecure_deserialization", "high">>,
   <<"weak-hash-md5", "crypto_weakness", "medium">>,
   <<"infinite-loop-risk", "resource_abuse", "medium">>})

DEP_RULES == Table(
  {<<"http-index", "data_exfiltration", "high">>,
   <<"npm-scripts", "command_injection", "medium">>,
   <<"compromised-package", "adversarial_logic", "high">>,
   <<"outdated-version", "logic_flaw", "medium">>,
   <<"pipe-to-shell", "command_injection", "critical">>,
   <<"unencrypted-git", "data_exfiltration", "medium">>})

\* The JWT and the Google key are high, every other credential is critical.
SECRET_RULES ==
  [r \in {"github", "openai", "anthropic", "slack", "mongodb", "database", "jwt",
          "sendgrid", "stripe", "google"} |->
     Says("hardcoded_secret", IF r \in {"jwt", "google"} THEN "high" ELSE "critical")]
================================================================================
