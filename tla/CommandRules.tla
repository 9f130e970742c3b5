------------------------------ MODULE CommandRules ------------------------------
(* What laminae-ironclad says of a binary and of a command line before         *)
(* anything is started.  A command line is a sequence of tokens: words, the   *)
(* marks between commands and the marks that open a subshell.  Two more marks *)
(* begin a command for a shell but not for the validation: a line feed is     *)
(* white space to it, and a lone ampersand a word.                            *)
EXTENDS Naturals, SequencesExt, FiniteSetsExt

CONSTANTS
  Bare,        \* Bare[t]: the last component of the path t
  Lower,       \* Lower[t]: the token t in lower case
  Assignments  \* the tokens that hold a "="

Separators == {"|", ";", "&&", "||"}
Openers == {"paren", "dollar", "tick"}
OtherMarks == {"newline", "&"}
CommandMarks == Separators \cup Openers \cup OtherMarks

\* Only letters have another case: a mark is its own lower case, and of nothing else,
\* and what holds a "=" does so in lower case.
ASSUME LowerAssumption ==
  /\ Assignments \cap CommandMarks = {}
  /\ CommandMarks \subseteq DOMAIN Lower
  /\ \A t \in DOMAIN Lower :
       /\ t \in CommandMarks => Lower[t] = t
       /\ Lower[t] \in CommandMarks => t \in CommandMarks
       /\ t \in Assignments <=> Lower[t] \in Assignments

PERMANENTLY_BLOCKED_BINARIES ==
  {"ssh", "sshd", "sftp", "scp", "nc", "ncat", "nmap", "netcat", "telnet", "socat", "stunnel",
   "ngrok", "cloudflared", "xmrig", "minerd", "cpuminer", "cgminer", "bfgminer", "ethminer",
   "nbminer", "t-rex", "gminer", "lolminer", "nicehash", "phoenix", "claymore", "rustup",
   "rustc", "gcc", "g++", "cc", "clang", "clang++", "make", "cmake", "ninja", "pip", "pip3",
   "pipx", "npm", "npx", "yarn", "pnpm", "brew", "apt", "apt-get", "yum", "dnf", "cargo", "kill",
   "killall", "pkill", "chmod", "chown", "chgrp", "mount", "umount", "iptables", "pfctl", "dscl",
   "dseditgroup", "launchctl", "crontab", "curl", "wget", "fetch", "aria2c", "docker", "podman",
   "kubectl", "vagrant", "renice", "ionice", "nice", "taskpolicy"}

DEFAULT_ALLOWLIST ==
  {"ls", "cat", "head", "tail", "wc", "sort", "uniq", "find", "which", "echo", "date", "whoami",
   "hostname", "uname", "pwd", "env", "printenv", "diff", "patch", "sed", "awk", "cut", "tr",
   "xargs", "df", "du", "ps", "top", "git", "mkdir", "cp", "mv", "touch", "tar", "gzip", "gunzip",
   "zip", "unzip", "open", "pbcopy", "pbpaste", "say", "claude"}

DefaultConfig ==
  [extra_blocked |-> {}, allowlist |-> DEFAULT_ALLOWLIST,
   whitelisted_hosts |-> {"localhost", "api"}, scrub_env_vars |-> {"GITHUB_TOKEN"}]

Blocked(config) == PERMANENTLY_BLOCKED_BINARIES \cup config.extra_blocked

\* Blocked comes before allowed.
validate_binary(binary, config) ==
  CASE Bare[binary] \in Blocked(config) -> "blocked"
    [] Bare[binary] \notin Blocked(config) \cup config.allowlist -> "unlisted"
    [] OTHER -> "ok"

--------------------------------------------------------------------------------
(* Command lines                                                           *)

\* split: the pieces between separators, empty ones among them.
Split(done, t) ==
  IF t \in Separators THEN Append(done, << >>)
  ELSE Append(Front(done), Append(Last(done), t))

Segments(command) == FoldLeft(Split, <<<< >>>>, command)

\* trim_start_matches: what begins with the first other token.
Trimmed(segment, mark) ==
  SubSeq(segment, Min({i \in DOMAIN segment : segment[i] # mark} \cup {Len(segment) + 1}), Len(segment))

\* For each of the marks in turn: one that comes after a later one stays, and one
\* that comes after a word is none.
Opened(segment) ==
  Trimmed(Trimmed(Trimmed(Trimmed(segment, "newline"), "paren"), "dollar"), "tick")

\* The first word that is no assignment, without its path.
BinaryOf(segment) ==
  LET clean == Opened(segment)
      words == {i \in DOMAIN clean : clean[i] \notin Assignments \cup {"newline"}}
  IN  IF words = {} THEN << >> ELSE <<Bare[clean[Min(words)]]>>

\* Mutant of extract_all_binaries: the first word of each segment is taken.
extract_first_words(command) ==
  LET segments == SelectSeq(Segments(command), LAMBDA s : s # << >>) IN
  [i \in DOMAIN segments |-> Head(segments[i])]

extract_all_binaries(command) ==
  LET segments == Segments(command) IN
  FlattenSeq([i \in DOMAIN segments |-> BinaryOf(segments[i])])

\* Of the patterns, the shells that text is piped into ("| sh" is found in "|| sh"
\* too) and the words that leave the session.
DangerousPatterns ==
  ({"|", "||"} \X {"sh", "bash", "zsh", "python", "python3", "perl", "ruby"})
    \cup {<<"nohup">>, <<"disown">>, <<"setsid">>}

\* The binaries are looked for first, the patterns in the whole of the text.
validate_command_deep(command, config) ==
  LET lower == [i \in DOMAIN command |-> Lower[command[i]]]
      binaries == ToSet(extract_all_binaries(lower)) IN
  CASE binaries \cap Blocked(config) # {} -> "blocked in pipe"
    [] binaries \cap Blocked(config) = {} /\ DangerousPatterns \cap SubSeqs(lower) # {} ->
         "dangerous pattern"
    [] OTHER -> "ok"
================================================================================
