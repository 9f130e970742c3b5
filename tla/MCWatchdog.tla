------------------------------ MODULE MCWatchdog ------------------------------
(* A poll every two ticks, samples that take up to one, a sustained time and a *)
(* wall time that are no multiples of a turn of the loop.                      *)
EXTENDS Watchdog

================================================================================
