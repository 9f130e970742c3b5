--------------------------- MODULE MCContainerSandbox ---------------------------
(* Two analyses: one of a block too short, a block that loops and one that     *)
(* prints and crashes; the other of a block in an unknown language and one     *)
(* that goes on whatever signal it gets, with evidence cut in a character.     *)
(* The program's time is two, the grace one: a start may take less, all or     *)
(* more of it.                                                                 *)
EXTENDS ContainerSandbox

CONSTANTS a1, a2

MCAnalyses == {a1, a2}

Program(language, len, takes, exit, prints) ==
  [language |-> language, len |-> len, takes |-> takes, stubborn |-> FALSE, exit |-> exit,
   prints |-> prints, cut |-> FALSE]

MCBlocks ==
  [a \in MCAnalyses |->
     IF a = a1
     THEN <<Program("python", 1, 0, "ok", {"path_traversal"}),
            Program("python", 9, 5, "ok", {"path_traversal"}),
            Program("ruby", 9, 1, "crashed", {"privilege_escalation", "data_exfiltration"})>>
     ELSE <<Program("rust", 9, 0, "ok", {"path_traversal"}),
            [Program("shell", 9, 4, "ok", {}) EXCEPT !.stubborn = TRUE, !.cut = TRUE]>>]

MCRuntimes == <<"docker", "podman">>
================================================================================
