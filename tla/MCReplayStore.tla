--------------------------- MODULE MCReplayStore ---------------------------
(* Two attempts of one change, an untracked call and a commentary message. *)
EXTENDS ReplayStore, TLC

CONSTANTS p1, p2, t1, t2, c1, c2, c3, n1, k1, k2

MCCorrelationOf == [c \in Calls |-> IF c = c3 THEN None ELSE k1]
MCAttemptOf == [c \in Calls |-> IF c = c2 THEN 2 ELSE 1]
Symmetry == Permutations(Processes) \cup Permutations(Threads)
=============================================================================
