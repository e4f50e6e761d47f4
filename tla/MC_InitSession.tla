--------------------------- MODULE MC_InitSession ---------------------------
(* Small instances of InitSession for TLC.                                  *)
EXTENDS InitSession, TLC

AllFaults == {"crash", "operation", "publish", "tmux", "unacknowledged", "await",
              "consume", "cleanup", "relaunch"}
Swaps     == Permutations(Invocations)
=============================================================================
