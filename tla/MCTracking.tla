---------------------------- MODULE MCTracking ----------------------------
(***************************************************************************)
(* Tracking for TLC: how often routes are edited, commands run and         *)
(* processes die in each run.                                              *)
(***************************************************************************)
EXTENDS Tracking, TLC

Once == [edits |-> 1, commands |-> 2, crashes |-> 1]

Thrice == [edits |-> 1, commands |-> 3, crashes |-> 0]

Symmetry == Permutations(Id) \cup Permutations(Backend) \cup Permutations(Domain)
              \cup Permutations(Tracker)
===========================================================================
