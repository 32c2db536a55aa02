---------------------------- MODULE MCDockerHosts ----------------------------
(* Small instances of DockerHosts for TLC. *)
EXTENDS DockerHosts

CONSTANTS commands, faults, crashes, removals

MCBound == [commands |-> commands, faults |-> faults, crashes |-> crashes,
            removals |-> removals]
=============================================================================
