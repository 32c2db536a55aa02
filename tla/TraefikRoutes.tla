---------------------------- MODULE TraefikRoutes ----------------------------
(***************************************************************************)
(* What web exposures change in Traefik (src/src/traefik-adapter.js): one  *)
(* watched fragment per hostname, and the certificate resolver and root of *)
(* step-ca, which Traefik reads when it starts and at no other time.  The  *)
(* order of the calls is in module WebRoutes.                              *)
(*                                                                         *)
(* The calls are commands in the container; each may fail, or do its work  *)
(* and be reported as failed.                                              *)
(***************************************************************************)
EXTENDS RouteRequest

VARIABLES
  traefik,   \* files of the container, and what the running Traefik has loaded
  trust      \* configureCaTrust of the running command: restartNeeded, and resolver

\* A fragment of an exposure: https and, with "http", a router for the web entry point too.
Fragment == [to : {"backend", "target"}, guarded : BOOLEAN, http : BOOLEAN, resolver : BOOLEAN]

ASSUME AbsentIsNoFragment == Absent \notin Fragment

TraefikType == [stepCa : BOOLEAN,
                static : {"plain", "managed", "own"},
                root : {"none", "file", "trusted"},
                loaded : [resolver : BOOLEAN, root : BOOLEAN],
                missed : BOOLEAN,
                fragments : [Host -> Fragment \cup {Absent}],
                routers : [Host -> Fragment \cup {Absent}]]

TrustType == [restartNeeded : BOOLEAN, resolver : BOOLEAN]

NoTrust == [restartNeeded |-> FALSE, resolver |-> FALSE]

\* An operator may have defined certificate resolvers of his own.
TraefikInit(stepCa, static) ==
  /\ traefik = [stepCa |-> stepCa, static |-> static, root |-> "none",
                loaded |-> [resolver |-> FALSE, root |-> FALSE], missed |-> FALSE,
                fragments |-> [h \in Host |-> Absent], routers |-> [h \in Host |-> Absent]]
  /\ trust = NoTrust

-----------------------------------------------------------------------------
(* configureCaTrust *)

\* A fault: Traefik restarts before the resolver is written.
RestartFirst == IF traefik.stepCa THEN <<"root", "restart", "static">> ELSE <<>>

TrustCalls == IF traefik.stepCa THEN <<"root", "static", "restart">> ELSE <<>>

\* Installed unless the container has the file: moved into place, then update-ca-certificates.
InstallRoot ==
  IF traefik.root = "none"
  THEN /\ traefik' = [traefik EXCEPT !.root = "trusted"]
       /\ trust' = [trust EXCEPT !.restartNeeded = TRUE]
  ELSE UNCHANGED <<traefik, trust>>

InstallRootFails ==
  /\ \/ UNCHANGED traefik
     \/ /\ traefik.root = "none"
        /\ traefik' = [traefik EXCEPT !.root = "file", !.missed = TRUE]
  /\ trust' = NoTrust

\* Written where it differs; an operator's own resolvers are left alone.
Conflict == traefik.static = "own"

WriteStatic ==
  /\ ~Conflict
  /\ traefik' = [traefik EXCEPT !.static = "managed"]
  /\ trust' = [trust EXCEPT !.restartNeeded = @ \/ traefik.static # "managed"]

WriteStaticFails ==
  /\ \/ UNCHANGED traefik
     \/ /\ traefik.static = "plain"
        /\ traefik' = [traefik EXCEPT !.static = "managed", !.missed = TRUE]
  /\ trust' = NoTrust

Started(t) == [t EXCEPT !.loaded = [resolver |-> t.static = "managed", root |-> t.root = "trusted"],
                        !.missed = t.root = "file",
                        !.routers = t.fragments]

RestartIfNeeded ==
  /\ traefik' = IF trust.restartNeeded THEN Started(traefik) ELSE traefik
  /\ trust' = [restartNeeded |-> FALSE, resolver |-> TRUE]

\* The restart did not happen; no later command learns that it is still to be done.
RestartFails == /\ trust.restartNeeded
                /\ traefik' = [traefik EXCEPT !.missed = TRUE]
                /\ trust' = NoTrust

\* nomina dies with a restart still to be done.
Abandoned(t) == [t EXCEPT !.missed = @ \/ (trust.restartNeeded /\ t.static = "managed")]

-----------------------------------------------------------------------------
(* Fragments and routers *)

FragmentOf(r, redirect) == [to |-> r.to, guarded |-> ~r.tailnet,
                               http |-> redirect \/ r.to = "target",
                               resolver |-> trust.resolver]

WriteFragment(h, r, redirect) ==
  traefik' = [traefik EXCEPT !.fragments[h] = FragmentOf(r, redirect)]

RemoveFragment(h) == traefik' = [traefik EXCEPT !.fragments[h] = Absent]

\* The file provider, some time after a fragment has changed.
Reload == /\ traefik.routers # traefik.fragments
          /\ traefik' = [traefik EXCEPT !.routers = traefik.fragments]

RestartTraefik == traefik' = Started(traefik)

\* Traefik rejects a router that names a resolver it does not have.
Enabled(h) == /\ traefik.routers[h] # Absent
              /\ traefik.routers[h].resolver => traefik.loaded.resolver

TraefikDenies(h) == Enabled(h) => traefik.routers[h].guarded

\* healthCheckExposure, up to the certificate that step-ca issues
TraefikHealthy(h, r, redirect) ==
  /\ Enabled(h)
  /\ traefik.routers[h].guarded = ~r.tailnet
  /\ redirect => traefik.routers[h].http
  /\ traefik.routers[h].to = r.to
  /\ traefik.stepCa => traefik.routers[h].resolver
=============================================================================
