------------------------ MODULE MCServiceLifecycle ------------------------
(***************************************************************************)
(* ServiceLifecycle for TLC: which calls fail, and how often things happen *)
(* in each run.                                                            *)
(***************************************************************************)
EXTENDS ServiceLifecycle, TLC

AnyCall == Call

\* Every call can fail but those that leave a gateway that cannot be asked for
\* its address: an enrollment that is rejected, a stopped gateway that stays.
GatewayAnswers == Call \ {"setup", "destroy"}

Limit(commands, faults, crashes, foreign, edits) ==
  [commands |-> commands, faults |-> faults, crashes |-> crashes,
   foreign |-> foreign, edits |-> edits]

Reused == Limit(6, 1, 0, 1, 0)
Crashing == Limit(6, 1, 1, 0, 1)
Faulty == Limit(5, 2, 0, 0, 0)
NoCrash == Limit(4, 0, 0, 1, 0)

\* States that differ only in which VMIDs were mistaken, which no action reads, are
\* the same state to a run whose properties do not mention them.
WithoutHistory == <<lxc, running, enrolled, resolver, files, deployed, state, op,
                    [count EXCEPT !.mistaken = {}]>>

Symmetry == Permutations(Vmid) \cup Permutations(Setting)
===========================================================================
