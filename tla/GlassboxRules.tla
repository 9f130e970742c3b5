------------------------------ MODULE GlassboxRules ------------------------------
(* The validators of laminae-glassbox: functions of a text or a path, of the   *)
(* configuration and, for a path, of the file system.  A text is a sequence of *)
(* words; a path says whether it begins at the root, and has parts: names, "." *)
(* and "..".                                                                   *)
EXTENDS Naturals, SequencesExt, FiniteSetsExt

CONSTANTS
  Folded,   \* Folded[w]: the word w after NFKC and in lower case
  Longer,   \* pairs of names of which the first goes on where the second ends
  Cwd,      \* where relative paths begin
  Dirs,     \* the directories, as sequences of names from the root
  Links     \* Links[place]: the directory a link at a place leads to

CONSTANTS
  immutable_zones, dangerous_command_patterns  \* of the GlassboxConfig

\* What stands for no place is none; there is a name in every zone.
ASSUME FileSystemAssumption ==
  /\ Dirs \subseteq Seq(STRING) \ {<<"missing">>} /\ Cwd \in Dirs
  /\ \A place \in DOMAIN Links : Links[place] \in Dirs
  /\ immutable_zones \subseteq Seq(STRING) \ {<< >>}

--------------------------------------------------------------------------------
(* Texts                                                                   *)

\* The text is folded and the patterns are taken as they are configured.
Violates(text, patterns) ==
  patterns \cap SubSeqs([i \in DOMAIN text |-> Folded[text[i]]]) # {}

validate_command(command) == ~ Violates(command, dangerous_command_patterns)

--------------------------------------------------------------------------------
(* Paths                                                                   *)

Root == "/"
Missing == <<"missing">>

\* Where the system gets to from a place by one part of a path.
Walk(place, part, files) ==
  CASE place \notin Dirs -> Missing
    [] place \in Dirs /\ part = "." -> place
    [] place \in Dirs /\ part = ".." -> IF place = << >> THEN place ELSE Front(place)
    [] OTHER -> LET next == Append(place, part) IN
                CASE next \in DOMAIN Links -> Links[next]
                  [] next \in Dirs \cup files -> next
                  [] OTHER -> Missing

Resolved(path, files) ==
  FoldLeft(LAMBDA place, part : Walk(place, part, files),
           IF path.absolute THEN << >> ELSE Cwd, path.parts)

Components(path) == (IF path.absolute THEN <<Root>> ELSE << >>) \o path.parts

\* ".." takes back whatever came before it, the root too.
normalize_path(path) ==
  FoldLeft(LAMBDA done, c :
             CASE c = "." -> done
               [] c = ".." -> IF done = << >> THEN done ELSE Front(done)
               [] OTHER -> Append(done, c),
           << >>, Components(path))

\* As text: what follows the last name of a zone need not be a separator.
starts_with(text, zone) ==
  LET n == Len(zone) IN
  /\ Len(text) >= n /\ Front(SubSeq(text, 1, n)) = Front(zone)
  /\ text[n] = zone[n] \/ <<text[n], zone[n]>> \in Longer

\* Mutant of Canonical: the path is taken as it is written.
CanonicalByName(path, files) == normalize_path(path)

\* A path that is not there is not resolved but normalized.
Canonical(path, files) ==
  IF Resolved(path, files) = Missing THEN normalize_path(path)
  ELSE <<Root>> \o Resolved(path, files)

\* The path as it was written is tested too.
validate_write_path(path, files) ==
  \A zone \in immutable_zones :
    ~ starts_with(Canonical(path, files), zone) /\ ~ starts_with(Components(path), zone)
================================================================================
