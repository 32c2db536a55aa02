------------------------------ MODULE WebRoutes ------------------------------
(***************************************************************************)
(* Web exposures and the reverse proxy that serves them: the commands of   *)
(* src/src/cli.js that publish, change, remove and republish routes, over  *)
(* Caddy (CaddyRoutes) or Traefik (TraefikRoutes).                         *)
(*                                                                         *)
(* One command runs at a time, because it holds the project lock.  It is a *)
(* list of calls still to make; between two of them it may die, the proxy  *)
(* may restart, and an operator may edit its routes.  A call may fail, with *)
(* or without its effect.  Caddy's configuration is dumped by a process in *)
(* the container that publish and remove do not wait for; a second dump is *)
(* assumed to start when the first has ended.                              *)
(***************************************************************************)
EXTENDS CaddyRoutes, TraefikRoutes, FiniteSets

CONSTANT
  Bound        \* how many commands, faults, crashes, restarts and edits there are, and events in all

VARIABLES
  proxy,       \* which of the two is selected
  inventory,   \* nomina.yaml: the exposures
  redirecting, \* nomina.yaml: httpRedirect
  op,          \* the command that holds the project lock
  dump,        \* the process that writes caddy.json, and the hostnames published before it
  kept,        \* hostnames published and dumped since, and not removed
  count        \* how much of Bound has been used

project == <<inventory, redirecting>>
proxies == <<caddy, draft, traefik, trust>>
vars == <<proxies, proxy, project, op, dump, kept, count>>

ASSUME HostsAreFinite == IsFiniteSet(Host)

ASSUME BoundsAreNat == Bound \in [commands : Nat, faults : Nat, crashes : Nat, restarts : Nat,
                                  edits : Nat, events : Nat]

\* done: published by it; torn: Caddy has restarted meanwhile; moving: between the
\* removal of srv0 and the server that gets its routes; verified: seen healthy;
\* stale: verified, and an edit or a restart since.
NoOp == [do |-> "none", todo |-> <<>>, want |-> Absent, done |-> {}, torn |-> FALSE,
         moving |-> FALSE, verified |-> {}, stale |-> {}]

NoDump == [open |-> FALSE, hosts |-> {}]

Call == Writes \cup {"read-servers", "read-policies", "read-https", "read-http", "read-removal",
                     "read-http-removal", "root", "static", "restart", "fragment", "unlink",
                     "check", "save", "dump", "advertise"}

Op == [do : {"none", "publish", "remove", "sync", "redirect"},
       todo : Seq(Call \X (Host \cup {Absent})), want : Request \cup {Absent},
       done : SUBSET Host, torn : BOOLEAN, moving : BOOLEAN,
       verified : SUBSET Host, stale : SUBSET Host]

-----------------------------------------------------------------------------
(* Commands *)

Published == {h \in Host : inventory[h] # Absent}

For(h, calls) == [i \in DOMAIN calls |-> <<calls[i], h>>]

\* A fault: the route before its issuer.
RouteFirst == <<"read-servers", "read-https", "read-policies", "read-http">>

CaddyPublish == <<"read-servers", "read-policies", "read-https", "read-http">>

PublishCalls(h) ==
  For(h, (IF proxy = "caddy" THEN CaddyPublish ELSE TrustCalls \o <<"fragment">>) \o <<"check">>)

RepublishCalls ==
  LET order == SetToSeq(Published)
  IN  FlattenSeq([i \in DOMAIN order |-> PublishCalls(order[i])])

Dumping == IF proxy = "caddy" THEN <<"dump">> ELSE <<>>

Used(what) ==
  /\ count[what] < Bound[what]
  /\ count.events < Bound.events
  /\ count' = [count EXCEPT ![what] = @ + 1, !.events = @ + 1]

Starts(command, todo) ==
  /\ op = NoOp
  /\ op' = [NoOp EXCEPT !.do = command, !.todo = todo]
  /\ Used("commands")

\* exposure publish, for a new exposure or a recorded one
BeginPublish ==
  \E h \in Host, r \in Request :
    /\ op = NoOp
    /\ op' = [NoOp EXCEPT !.do = "publish", !.want = r,
                          !.todo = PublishCalls(h) \o For(h, <<"save">> \o Dumping)]
    /\ Used("commands")
    /\ UNCHANGED <<proxies, proxy, project, dump, kept>>

\* service remove
BeginRemove ==
  \E h \in Published :
    /\ Starts("remove", For(h, (IF proxy = "caddy" THEN <<"read-servers", "read-removal">>
                                ELSE <<"unlink">>) \o Dumping \o <<"save">>))
    /\ kept' = kept \ {h}
    /\ dump' = [dump EXCEPT !.hosts = @ \ {h}]
    /\ UNCHANGED <<proxies, proxy, project>>

\* service add tailscale: guards before the tailnet's traffic comes
BeginSync ==
  /\ Starts("sync", RepublishCalls \o For(Absent, Dumping \o <<"advertise">>))
  /\ UNCHANGED <<proxies, proxy, project, dump, kept>>

\* caddy redirect on|off
BeginRedirect ==
  /\ proxy = "caddy"
  /\ Starts("redirect", RepublishCalls \o For(Absent, Dumping))
  /\ redirecting' = ~redirecting
  /\ UNCHANGED <<proxies, proxy, inventory, dump, kept>>

-----------------------------------------------------------------------------
(* Calls *)

Calling(call) == op.todo # <<>> /\ Head(op.todo)[1] = call
Hostname == Head(op.todo)[2]
Wanted(h) == IF op.do = "publish" THEN op.want ELSE inventory[h]

After(calls) == LET todo == For(Hostname, calls) \o Tail(op.todo)
                IN  IF todo = <<>> THEN NoOp ELSE [op EXCEPT !.todo = todo]

Then(calls) == op' = After(calls)

ReadCalls == {"read-servers", "read-policies", "read-https", "read-http", "read-removal",
              "read-http-removal"}

Read(h) ==
  \/ Calling("read-servers") /\ ReadServers /\ Then(EnsureCalls)
  \/ Calling("read-policies") /\ ReadPolicies(h) /\ Then(<<"policies">>)
  \/ Calling("read-https") /\ ReadHttps(h, Wanted(h)) /\ Then(<<"https">>)
  \/ LET added == HttpRoutes(h, Wanted(h), redirecting) \o Denials(h, Wanted(h))
     IN  /\ Calling("read-http")
         /\ ReadHttp(h, Wanted(h), redirecting)
         /\ Then(IF HttpChanges(h, added) THEN <<"http">> ELSE <<>>)
  \/ Calling("read-removal") /\ ReadRemoval(h) /\ Then(RemovalCalls(h))
  \/ /\ Calling("read-http-removal")
     /\ ReadHttpRemoval(h)
     /\ Then(IF HttpChanges(h, <<>>) THEN <<"http">> ELSE <<>>)

ReadCaddy == /\ op.todo # <<>> /\ Read(Hostname)
             /\ UNCHANGED <<caddy, traefik, trust, proxy, project, dump, kept, count>>

WriteCaddy ==
  /\ \E call \in Writes :
       /\ Calling(call)
       /\ Accepted(call)
       /\ Write(call)
       /\ op' = [After(<<>>) EXCEPT !.moving = call = "drop-srv0"
                                               \/ (op.moving /\ call \notin {"create-https", "https"})]
  /\ UNCHANGED <<draft, traefik, trust, proxy, project, dump, kept, count>>

\* configureCaTrust goes no further, and the fragment names no resolver.
GivesUpTrust ==
  op' = [op EXCEPT !.todo =
           SubSeq(@, SelectInSeq(@, LAMBDA c : c[1] = "fragment"), Len(@))]

Configure(h) ==
  \/ Calling("root") /\ InstallRoot /\ Then(<<>>)
  \/ Calling("static") /\ WriteStatic /\ Then(<<>>)
  \/ Calling("static") /\ Conflict /\ trust' = NoTrust /\ GivesUpTrust /\ UNCHANGED traefik
  \/ Calling("restart") /\ RestartIfNeeded /\ Then(<<>>)
  \/ Calling("fragment") /\ WriteFragment(h, Wanted(h), redirecting) /\ trust' = NoTrust /\ Then(<<>>)
  \/ Calling("unlink") /\ RemoveFragment(h) /\ Then(<<>>) /\ UNCHANGED trust

ConfigureTraefik == /\ op.todo # <<>> /\ Configure(Hostname)
                    /\ UNCHANGED <<caddy, draft, proxy, project, dump, kept, count>>

Healthy(h, r) == IF proxy = "caddy" THEN CaddyHealthy(h, r) ELSE TraefikHealthy(h, r, redirecting)

\* The health is reported; only the reconciliation of the tailnet insists on it.
MustBeHealthy(h) == op.do = "sync" /\ ~inventory[h].tailnet

Check ==
  /\ Calling("check")
  /\ MustBeHealthy(Hostname) => Healthy(Hostname, inventory[Hostname])
  /\ op' = [After(<<>>) EXCEPT !.done = @ \cup {Hostname},
                               !.verified = IF op.do = "sync" THEN @ \cup {Hostname} ELSE @]
  /\ UNCHANGED <<proxies, proxy, project, dump, kept, count>>

Save == /\ Calling("save")
        /\ inventory' = [inventory EXCEPT ![Hostname] = op.want]
        /\ Then(<<>>)
        /\ UNCHANGED <<proxies, proxy, redirecting, dump, kept, count>>

Dump == /\ Calling("dump")
        /\ ~dump.open
        /\ OpenDump
        /\ dump' = [open |-> TRUE, hosts |-> IF op.torn THEN {} ELSE op.done]
        /\ Then(<<>>)
        /\ UNCHANGED <<draft, traefik, trust, proxy, project, kept, count>>

\* configureTailnet, once the dump it waits for has ended
Advertise == /\ Calling("advertise")
             /\ ~dump.open
             /\ Then(<<>>)
             /\ UNCHANGED <<proxies, proxy, project, dump, kept, count>>

-----------------------------------------------------------------------------
(* Failures *)

\* The command ends without saving.  Routes taken out of srv0 are nowhere.
Ends(lost) == /\ op' = NoOp
              /\ trust' = NoTrust
              /\ kept' = IF lost THEN {} ELSE kept
              /\ dump' = IF lost THEN [dump EXCEPT !.hosts = {}] ELSE dump

Rejected ==
  /\ \/ \E call \in Writes : Calling(call) /\ ~Accepted(call)
     \/ Calling("check") /\ MustBeHealthy(Hostname) /\ ~Healthy(Hostname, inventory[Hostname])
  /\ Ends(op.moving)
  /\ UNCHANGED <<caddy, draft, traefik, proxy, project, count>>

CaddyFails ==
  /\ Used("faults")
  /\ \/ /\ \E call \in ReadCalls \cup Writes \cup {"check"} : Calling(call)
        /\ Ends(op.moving)
        /\ UNCHANGED caddy
     \/ \E call \in Writes :
          /\ Calling(call)
          /\ Accepted(call)
          /\ Write(call)
          /\ Ends(op.moving \/ call = "drop-srv0")
  /\ UNCHANGED <<draft, traefik, proxy, project>>

TraefikFails ==
  /\ Used("faults")
  /\ \/ /\ \/ Calling("root") /\ InstallRootFails
           \/ Calling("static") /\ WriteStaticFails
           \/ Calling("restart") /\ RestartFails
        /\ GivesUpTrust
        /\ UNCHANGED <<dump, kept>>
     \/ /\ \/ Calling("fragment") /\ WriteFragment(Hostname, Wanted(Hostname), redirecting)
           \/ Calling("unlink") /\ RemoveFragment(Hostname)
           \/ (Calling("fragment") \/ Calling("unlink")) /\ UNCHANGED traefik
        /\ Ends(FALSE)
  /\ UNCHANGED <<caddy, draft, proxy, project>>

\* nomina dies; what it started in the container goes on.
Die == /\ op # NoOp
       /\ Used("crashes")
       /\ Ends(op.moving)
       /\ traefik' = Abandoned(traefik)
       /\ UNCHANGED <<caddy, draft, proxy, project>>

\* It may catch the next command inside the migration.
DumpEnds == /\ dump.open
            /\ CloseDump
            /\ kept' = IF op.moving THEN {} ELSE kept \cup dump.hosts
            /\ dump' = NoDump
            /\ UNCHANGED <<draft, traefik, trust, proxy, project, op, count>>

\* The file stays empty, and the next restart forgets every route.
DumpFails == /\ dump.open
             /\ Used("faults")
             /\ kept' = {}
             /\ dump' = NoDump
             /\ op' = IF Calling("advertise") THEN NoOp ELSE op
             /\ UNCHANGED <<proxies, proxy, project>>

Disturbed == [op EXCEPT !.stale = @ \cup op.verified]

\* Between the reading of srv0 and the write that puts its routes elsewhere.
Migrating == op.moving \/ \E i \in DOMAIN op.todo : op.todo[i][1] = "drop-srv0"

RestartOfCaddy ==
  /\ proxy = "caddy"
  /\ Used("restarts")
  /\ RestartCaddy
  /\ op' = IF op = NoOp THEN op ELSE [Disturbed EXCEPT !.torn = TRUE, !.moving = FALSE]
  /\ kept' = IF caddy.file = <<>> \/ Migrating THEN {} ELSE kept
  /\ dump' = [dump EXCEPT !.hosts = {}]
  /\ UNCHANGED <<draft, traefik, trust, proxy, project>>

Edit == /\ proxy = "caddy"
        /\ Used("edits")
        /\ EditCaddy
        /\ op' = Disturbed
        /\ UNCHANGED <<draft, traefik, trust, proxy, project, dump, kept>>

RestartOfTraefik == /\ proxy = "traefik"
                    /\ Used("restarts")
                    /\ RestartTraefik
                    /\ UNCHANGED <<caddy, draft, trust, proxy, project, op, dump, kept>>

ReloadOfTraefik == /\ Reload
                   /\ UNCHANGED <<caddy, draft, trust, proxy, project, op, dump, kept, count>>

-----------------------------------------------------------------------------
Init ==
  /\ proxy \in {"caddy", "traefik"}
  /\ redirecting = FALSE
  /\ op = NoOp
  /\ dump = NoDump
  /\ count = [k \in DOMAIN Bound |-> 0]
  /\ \/ /\ inventory = [h \in Host |-> Absent]
        /\ kept = {}
        /\ CaddyInit(Installed, <<>>)
     \/ \E h \in Host, r \in {q \in Request : q.tailnet} :
          /\ proxy = "caddy"
          /\ inventory = [g \in Host |-> IF g = h THEN r ELSE Absent]
          /\ kept = {h}
          /\ CaddyInit(Legacy(h, r), <<Legacy(h, r)>>)
  /\ IF proxy = "traefik"
     THEN \E stepCa \in BOOLEAN, static \in {"plain", "own"} : TraefikInit(stepCa, static)
     ELSE TraefikInit(FALSE, "plain")

Command == BeginPublish \/ BeginRemove \/ BeginSync \/ BeginRedirect
Work == ReadCaddy \/ WriteCaddy \/ ConfigureTraefik \/ Check \/ Save \/ Dump \/ Advertise
Failure == Rejected \/ CaddyFails \/ TraefikFails \/ Die \/ DumpFails
Environment == DumpEnds \/ RestartOfCaddy \/ Edit \/ RestartOfTraefik \/ ReloadOfTraefik

Next == Command \/ Work \/ Failure \/ Environment

Spec == Init /\ [][Next]_vars

-----------------------------------------------------------------------------
(* Properties *)

\* The type invariant.  The routes of srv_https serve or deny, those of srv_http
\* redirect or deny, and no two of them have one @id.
TypeOK ==
  /\ caddy \in CaddyType /\ Len(caddy.file) <= 1
  /\ UniqueIds(caddy.live)
  /\ draft.policies \subseteq Host
  /\ traefik \in TraefikType
  /\ trust \in TrustType
  /\ inventory \in [Host -> Request \cup {Absent}]
  /\ redirecting \in BOOLEAN
  /\ op \in Op
  /\ dump \in [open : BOOLEAN, hosts : SUBSET Host]
  /\ kept \subseteq Host
  /\ count \in [DOMAIN Bound -> Nat]

Denies(h) == IF proxy = "caddy" THEN CaddyDenies(caddy.live, h) ELSE TraefikDenies(h)

\* When routes are advertised to the tailnet, every exposure that excludes the tailnet
\* denies it on both entry points, whatever failed, restarted or was edited while the
\* guards were installed; only what changes after an exposure was verified goes unnoticed.
GuardedBeforeAdvertised ==
  [][Advertise => \A h \in Published \ op.stale : ~inventory[h].tailnet => Denies(h)]_vars

Unissued(c) == {h \in Host : HasServing(c, h) /\ h \notin c.policies}

\* No request of a command makes Caddy serve a hostname whose issuer is not installed
\* ("Install the issuer before exposing a hostname", src/src/caddy-adapter.js:142), except
\* in a command that a restart of Caddy cut, and for routes that only move out of srv0.
IssuerFirst ==
  [][op # NoOp /\ ~op.torn /\ ~op'.torn /\ ~op.moving
       => Unissued(caddy'.live) \subseteq Unissued(caddy.live)]_vars

\* A hostname that was published and dumped is served from then on, and after a restart
\* too, whatever happens to commands for other hostnames or to its own updates.  It is
\* lost only by its removal, by a dump that fails or is interrupted, and by a failure, a
\* death, a restart of Caddy or a dump inside the migration.
KeptAreServed ==
  \A h \in kept : /\ op.moving \/ CaddyServes(caddy.live, h)
                  /\ dump.open \/ CaddyServes(Loaded, h)

NamesResolver == \E h \in Host : traefik.fragments[h] # Absent /\ traefik.fragments[h].resolver

\* No fragment names a resolver that the running Traefik lacks or cannot trust, as long
\* as no command ended between changing Traefik's start-up files and restarting it.
ResolverKnown == NamesResolver /\ ~traefik.missed => traefik.loaded.resolver /\ traefik.loaded.root

\* "the caller publishes untrusted HTTPS rather than pointing a router at a resolver
\* Traefik does not have" (src/src/traefik-adapter.js:112-114), without exception.
ResolverAlwaysKnown == NamesResolver => traefik.loaded.resolver
=============================================================================
