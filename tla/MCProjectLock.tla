-------------------------- MODULE MCProjectLock --------------------------
(***************************************************************************)
(* ProjectLock for TLC: small sets of pids and tokens, and the program     *)
(* counters at which processes die in each run.                            *)
(***************************************************************************)
EXTENDS ProjectLock, TLC

\* A process can die at every system call.
AnyPoint == PC \ {"dead"}

\* A process dies anywhere but inside a recovery: between making and removing
\* the recovery guard.
OutsideRecovery == PC \ ({"dead"} \cup Recovering)

Symmetry == Permutations(Process) \cup Permutations(Token)
=============================================================================
