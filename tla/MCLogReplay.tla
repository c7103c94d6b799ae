----------------------------- MODULE MCLogReplay -----------------------------
(* LogReplay, with the invariants of WatcherState and CorrelationLoop,     *)
(* over every log of at most MaxLines lines.                               *)
EXTENDS LogReplay, CorrelationLoop, TLC

CONSTANT MaxLines

MCTime == 0..2
MCCompletion == {"Complete"}

(* A longer log is not started; a reset begins a new one.                  *)
MCNext == ReplayNext /\ Len(lines') <= MaxLines

MCSpec == ReplayInit /\ [][MCNext]_replayVars

Symmetry == Permutations(Guid) \cup Permutations(Contract)
=============================================================================
