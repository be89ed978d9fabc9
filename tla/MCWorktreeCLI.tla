--------------------------- MODULE MCWorktreeCLI ---------------------------
(* Small instances of WorktreeCLI for TLC.                                 *)
EXTENDS WorktreeCLI, TLC

CONSTANTS t1, t2, t3, p1, p2, shared

\* The tasks and the commits on Main edit the same file.
TouchesShared == [b \in Branches |-> IF b = Dev THEN {} ELSE {shared}]

\* Processes are interchangeable.
CallerSymmetry == Permutations(Callers)
=============================================================================
