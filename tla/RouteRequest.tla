----------------------------- MODULE RouteRequest -----------------------------
(***************************************************************************)
(* What src/src/exposure.js asks of either reverse proxy for one hostname. *)
(***************************************************************************)
CONSTANTS
  Host,      \* hostnames of exposures
  Absent     \* nothing for a hostname

\* An exposure leads to a backend or redirects to a target, and may exclude the tailnet.
Request == [to : {"backend", "target"}, tailnet : BOOLEAN]

ASSUME AbsentIsNoHost == Absent \notin Host \cup Request
=============================================================================
