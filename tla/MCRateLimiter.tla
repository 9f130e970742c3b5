----------------------------- MODULE MCRateLimiter -----------------------------
(* Small instances of RateLimiter: two callers, a tool that only reads, one *)
(* that writes and one whose name makes it both a write and a shell.        *)
EXTENDS RateLimiter, TLC

CONSTANTS c1, c2, read, write_file, bash_edit

MCCallers == {c1, c2}
OneCaller == {c1}
MCTools == {read, write_file, bash_edit}
MCWriteTools == {write_file, bash_edit}
MCShellTools == {bash_edit}

Symmetry == Permutations(MCCallers)
================================================================================
