------------------------------ MODULE MCContainment ------------------------------
(* Two requests, one by the configuration and one with a profile that wants no *)
(* network, on each platform; command lines of one to three commands, some in  *)
(* forms the validation does not know; writes to and around a zone, some that  *)
(* lead there through a link.                                                  *)
EXTENDS Containment, TLC

CONSTANTS r1, r2

MCRequests == {r1, r2}
MCBinaries == {"/bin/git", "mytool", "file"}
MCPolicy == [r \in MCRequests |-> IF r = r2 THEN "none" ELSE "config"]

MCConfig == [DefaultConfig EXCEPT !.extra_blocked = {"mytool"}]

Words ==
  {"git", "/bin/git", "cat", "sudo", "SUDO", "curl", "CURL", "mytool", "/opt/mytool", "sh", "file",
   "curl)", "nohup", "A=1"} \cup CommandMarks

MCLower == [w \in Words |-> CASE w = "SUDO" -> "sudo" [] w = "CURL" -> "curl" [] OTHER -> w]
MCBare == [w \in Words |-> CASE w = "/bin/git" -> "git" [] w = "/opt/mytool" -> "mytool" [] OTHER -> w]
MCProgram == [MCBare EXCEPT !["curl)"] = "curl"]

Segment(before, open, assign, binary, args) ==
  [before |-> before, open |-> open, words |-> assign \o <<binary>> \o args, binary |-> binary]

First ==
  {Segment(<< >>, open, assign, binary, << >>) :
     open \in {<< >>, <<"paren", "paren">>, <<"dollar">>}, assign \in {<< >>, <<"A=1", "A=1">>},
     binary \in {"/bin/git", "/opt/mytool"}}

Second ==
  {Segment(before, << >>, << >>, binary, << >>) :
     before \in {<<"|">>, <<";">>, <<"&&">>, <<"||">>}, binary \in {"CURL", "sh"}}

Git == Segment(<< >>, << >>, << >>, "git", <<"file">>)

\* A substitution in the arguments, a subshell that ends with the program's name, a
\* lone ampersand, a pipe of both outputs, a second line, marks in another order.
Unknown ==
  {<<Git, Segment(<< >>, <<"dollar">>, << >>, "curl", <<"file">>)>>,
   <<Segment(<< >>, <<"paren">>, << >>, "curl)", << >>)>>,
   <<Git, Segment(<<"&">>, << >>, << >>, "curl", << >>)>>,
   <<Git, Segment(<<"|", "&">>, << >>, << >>, "curl", << >>)>>,
   <<Git, Segment(<<"newline">>, << >>, << >>, "curl", << >>),
          Segment(<<";">>, << >>, << >>, "cat", << >>)>>,
   <<Segment(<< >>, <<"dollar", "paren">>, << >>, "curl", << >>)>>}

\* Known and unknown forms in one line.
Mixed ==
  {<<Git, Segment(<<"&">>, << >>, << >>, "cat", << >>),
          Segment(<<"|">>, <<"paren", "tick">>, << >>, binary, <<"file">>),
          Segment(<< >>, <<"dollar">>, << >>, "git", << >>)>> : binary \in {"cat", "CURL"}}

MCCommandLines ==
  Unknown \cup Mixed \cup {<<s>> : s \in First} \cup {<<Git, t>> : t \in Second}
    \cup {<<Git, Segment(<<"|">>, << >>, << >>, "cat", << >>),
            Segment(<<";">>, <<"tick">>, <<"A=1">>, binary, << >>)>> : binary \in {"git", "/opt/mytool"}}
    \cup {<<Segment(<< >>, << >>, << >>, "nohup", <<"git">>)>>,
          <<Segment(<< >>, << >>, << >>, "SUDO", <<"git">>)>>}

--------------------------------------------------------------------------------

MCDirs ==
  {<< >>, <<"home">>, <<"protected">>, <<"protected", "zone">>, <<"protected", "zones">>}

MCLinks == (<<"home", "link">> :> <<"protected", "zone">>)
MCCwd == <<"home">>
MCLonger == {<<"zones", "zone">>}
MCPatterns == {<<"sudo">>}

MCZones == {<<"/", "protected", "zone">>}

Absolute(parts) == [absolute |-> TRUE, parts |-> parts]
Relative(parts) == [absolute |-> FALSE, parts |-> parts]

MCWritePaths ==
  {Absolute(p) : p \in
     {<<"protected", "zone", "f">>, <<"protected", "zone", "..", "f">>,
      <<"home", "..", "protected", ".", "zone", "f">>, <<"protected", "zones", "f">>,
      <<"..", "home", "f">>, <<"home", "link", "f">>}}
    \cup {Relative(p) : p \in {<<"f">>, <<"link", "f">>, <<"..", "protected", "zone", "f">>}}
================================================================================
