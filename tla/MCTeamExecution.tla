-------------------------- MODULE MCTeamExecution --------------------------
(* Small teams for TLC.                                                    *)
EXTENDS TeamExecution, TLC

CONSTANTS w1, w2, t1, t2, t3

(* Nothing orders the workers of a team or the tasks of a board.           *)
WorkerAndTaskSymmetry == Permutations(Task) \cup Permutations(Worker)
=============================================================================
