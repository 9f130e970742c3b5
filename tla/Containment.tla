------------------------------- MODULE Containment -------------------------------
(* The two containment layers together: a request is judged by laminae-        *)
(* glassbox, as a command or as a write, and its commands by laminae-ironclad, *)
(* before it runs.  Requests write files, and a file that is there is looked   *)
(* up by the next judgement.                                                   *)
EXTENDS Confinement, GlassboxRules

CONSTANTS WritePaths   \* the paths of writes

ASSUME WritePathsAssumption ==
  WritePaths \subseteq [absolute : BOOLEAN, parts : Seq(STRING) \ {<< >>}]

VARIABLES
  files,   \* the files that are there, by their places
  target   \* target[r]: the path r may write to, and whether it was there when judged

contained == <<confinement, files, target>>
NoTarget == [path |-> [absolute |-> TRUE, parts |-> << >>], there |-> TRUE]

ContainmentInit ==
  /\ ConfinementInit
  /\ files = {}
  /\ target = [r \in Requests |-> NoTarget]

\* A command line goes through both layers.
JudgeCommand(r, shell) ==
  /\ IF validate_command(Flat(shell)) THEN Judge(r, shell)
     ELSE Go(r, "idle", "refused") /\ UNCHANGED <<platform, child, job, logging, line>>
  /\ UNCHANGED <<files, target>>

JudgeWrite(r, path) ==
  /\ IF validate_write_path(path, files)
     THEN /\ Go(r, "idle", "writing")
          /\ target' = [target EXCEPT ![r] =
                          [path |-> path, there |-> Resolved(path, files) # Missing]]
     ELSE Go(r, "idle", "refused") /\ UNCHANGED target
  /\ UNCHANGED <<platform, child, job, logging, line, files>>

\* Where the system puts a file: its directory must be there.
Place(path) ==
  LET dir == Resolved([path EXCEPT !.parts = Front(@)], {}) IN
  IF dir = Missing THEN Missing ELSE Walk(dir, Last(path.parts), {Append(dir, Last(path.parts))})

Write(r) ==
  /\ Go(r, "writing", "idle")
  /\ files' = IF Place(target[r].path) \in {Missing} \cup Dirs THEN files
              ELSE files \cup {Place(target[r].path)}
  /\ target' = [target EXCEPT ![r] = NoTarget]
  /\ UNCHANGED <<platform, child, job, logging, line>>

ContainmentNext ==
  \/ \E r \in Requests, shell \in CommandLines : JudgeCommand(r, shell)
  \/ \E r \in Requests, path \in WritePaths : JudgeWrite(r, path)
  \/ \E r \in Requests : Write(r)
  \/ (Serve \/ Log) /\ UNCHANGED <<files, target>>

\* The child and the thread that waits for it are scheduled.
ContainmentSpec ==
  /\ ContainmentInit /\ [][ContainmentNext]_contained
  /\ \A r \in Requests :
       WF_contained(Fork(r) /\ UNCHANGED <<files, target>>)
         /\ WF_contained(Provider(r) /\ UNCHANGED <<files, target>>)

--------------------------------------------------------------------------------

\* A path that is written out: from the root, never above it, through no link.
Plain(path) ==
  /\ path.absolute
  /\ \A n \in 1..Len(path.parts) :
       LET before == normalize_path([path EXCEPT !.parts = SubSeq(@, 1, n)])
       IN  before # << >> /\ Tail(before) \notin DOMAIN Links

InZone(place) ==
  place # Missing /\ \E zone \in immutable_zones : IsPrefix(zone, <<Root>> \o place)

\* A file in a zone is not written to when it was there as it was judged, by whatever
\* way it is named, and no new file comes into a zone under a plain path.
ZonesStand ==
  \A r \in Requests : pc[r] = "writing" =>
    LET path == target[r].path IN
    target[r].there \/ Plain(path) => ~ InZone(Place(path))

\* What the documentation says, that path validation cannot be passed by "symlinks or
\* `..`": nothing is written into a zone at all.  The code judges a file that is not
\* there yet by the name it was given.
ZonesSealed ==
  \A r \in Requests : pc[r] = "writing" => ~ InZone(Place(target[r].path))
================================================================================
