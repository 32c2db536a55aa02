----------------------------- MODULE CaddyRoutes -----------------------------
(***************************************************************************)
(* What web exposures change in Caddy (src/src/caddy-adapter.js): the      *)
(* routes and issuer policies of its live configuration, over an Admin API *)
(* that replaces one value per request, and the dump that a restarted Caddy *)
(* loads.  The order of the requests is in module WebRoutes.               *)
(*                                                                         *)
(* A route is told by the hostnames it matches, whether it excludes the    *)
(* gateway of the tailnet, and what it answers with.  Routes of operators  *)
(* match a wildcard or every hostname; every route is terminal.            *)
(***************************************************************************)
EXTENDS RouteRequest, Naturals, SequencesExt

CONSTANTS
  Wildcard,  \* a pattern that matches all of them
  Hostless   \* no host matcher: matches every request

VARIABLES
  caddy,     \* the live configuration, and /etc/caddy/caddy.json
  draft      \* what the running command has read and is about to write

ASSUME PatternsDiffer == Wildcard # Hostless /\ {Wildcard, Hostless} \cap Host = {}

Route(kinds) == [kind : kinds, host : Host \cup {Wildcard, Hostless}, guarded : BOOLEAN,
                 to : {"backend", "target", "https", "404", "other"}]

Server(kinds) == [up : BOOLEAN, listen : BOOLEAN, routes : Seq(Route(kinds))]

Config == [srv0 : Seq(Route({"serve", "operator"})),
           https : Server({"serve", "deny", "operator"}),
           http : Server({"redirect", "deny", "operator"}),
           policies : SUBSET Host]

\* The dump is empty or a configuration.
CaddyType == [live : Config, file : Seq(Config)]

NoServer == [up |-> FALSE, listen |-> FALSE, routes |-> <<>>]

Operator(pattern) == [kind |-> "operator", host |-> pattern, guarded |-> FALSE, to |-> "other"]
Serving(h, r) == [kind |-> "serve", host |-> h, guarded |-> ~r.tailnet, to |-> r.to]
Denial(h) == [kind |-> "deny", host |-> h, guarded |-> FALSE, to |-> "404"]
Redirect(h, r, to) == [kind |-> "redirect", host |-> h, guarded |-> ~r.tailnet, to |-> to]

\* What the Caddyfile of the installation amounts to.
Installed == [srv0 |-> <<Operator(Hostless)>>, https |-> NoServer, http |-> NoServer, policies |-> {}]

\* An exposure of a version that kept every route in one server.
Legacy(h, r) == [Installed EXCEPT !.srv0 = <<Serving(h, r)>> \o @, !.policies = {h}]

NoDraft == [https |-> <<>>, http |-> <<>>, policies |-> {}]

CaddyInit(live, file) == caddy = [live |-> live, file |-> file] /\ draft = NoDraft

-----------------------------------------------------------------------------
(* Routes *)

HasServing(c, h) == \E r \in ToSet(c.srv0 \o c.https.routes) : r.kind = "serve" /\ r.host = h

\* Those that pass a test, in their order.
Filtered(routes, Test(_)) ==
  FlattenSeq([i \in DOMAIN routes |-> IF Test(routes[i]) THEN <<routes[i]>> ELSE <<>>])

Without(routes, h) == Filtered(routes, LAMBDA r : r.host # h)

Denials(h, r) == IF r.tailnet THEN <<>> ELSE <<Denial(h)>>

\* The serving route before the first route without a host, the denial before everything.
Upsert(routes, h, serving, denials) ==
  LET others == Without(routes, h)
      first == SelectInSeq(others, LAMBDA r : r.host = Hostless)
      before == IF first = 0 THEN Len(others) ELSE first - 1
  IN  denials \o SubSeq(others, 1, before) \o serving \o SubSeq(others, before + 1, Len(others))

HttpRoutes(h, r, redirect) ==
  IF r.to = "target" THEN <<Redirect(h, r, "target")>>
  ELSE IF redirect THEN <<Redirect(h, r, "https")>> ELSE <<>>

\* The first route that takes a request for h; from the gateway of the tailnet, or not.
Taker(routes, h, gateway) ==
  SelectInSeq(routes, LAMBDA r : /\ r.host \in {h, Wildcard, Hostless}
                                 /\ r.kind = "deny" => gateway
                                 /\ r.guarded => ~gateway)

Refuses(routes, h) == LET taker == Taker(routes, h, TRUE)
                      IN  taker = 0 \/ routes[taker].kind = "deny"

\* The exposure does not answer the tailnet, and in the two servers no operator's route
\* does in its place.  (What srv0 answers to other hosts is the answer of the Caddyfile.)
CaddyDenies(c, h) == /\ h \notin {r.host : r \in ToSet(c.srv0)}
                     /\ Refuses(c.https.routes, h)
                     /\ Refuses(c.http.routes, h)

CaddyServes(c, h) == /\ HasServing(c, h)
                     /\ h \in c.policies
                     /\ h \in {r.host : r \in ToSet(c.srv0)} \/ c.https.listen

\* Caddy refuses a configuration in which two routes have one @id.
SameId(r, q) == r.kind # "operator" /\ r.kind = q.kind /\ r.host = q.host

UniqueIds(c) ==
  \A routes \in {c.srv0 \o c.https.routes, c.http.routes} :
    \A i, j \in DOMAIN routes : SameId(routes[i], routes[j]) => i = j

-----------------------------------------------------------------------------
(* healthCheckExposure *)

\* A fault: a denial behind a route that shadows it.
DenialAnywhere(routes, h) == Denial(h) \in ToSet(routes)

EffectiveDenial(routes, h) ==
  \E i \in DOMAIN routes :
    /\ routes[i] = Denial(h)
    /\ \A j \in 1 .. i - 1 : routes[j].host \notin {h, Wildcard, Hostless}

CaddyHealthy(h, r) ==
  LET https == caddy.live.https.routes
      http  == caddy.live.http.routes
  IN  /\ Serving(h, r) \in ToSet(https)
      /\ \A routes \in {https, http} :
           IF r.tailnet THEN Denial(h) \notin ToSet(routes) ELSE EffectiveDenial(routes, h)

-----------------------------------------------------------------------------
(* Requests that read *)

\* A fault: every route of srv0 goes to srv_http as well.
ReadServersTwice ==
  draft' = [draft EXCEPT
    !.https = caddy.live.https.routes \o Filtered(caddy.live.srv0, LAMBDA r : r.host # Hostless),
    !.http = caddy.live.http.routes \o caddy.live.srv0]

\* ensureServers: the routes of srv0 go to the server of their scheme.
ReadServers ==
  LET c == caddy.live
  IN  draft' = [draft EXCEPT
        !.https = c.https.routes \o Filtered(c.srv0, LAMBDA r : r.host # Hostless),
        !.http = c.http.routes \o Filtered(c.srv0, LAMBDA r : r.host = Hostless)]

Creation(server) == IF server = "https" THEN "create-https" ELSE "create-http"

Missing(server) == IF caddy.live[server].up THEN <<>> ELSE <<Creation(server)>>

\* A fault: a server that listens nowhere is not repaired.
EnsureExists ==
  LET place(server) == IF caddy.live[server].up THEN <<server>> ELSE <<Creation(server)>>
  IN  IF caddy.live.srv0 # <<>> THEN <<"drop-srv0">> \o place("https") \o place("http")
      ELSE Missing("https") \o Missing("http")

EnsureCalls ==
  LET c == caddy.live
      place(server) == IF c[server].up THEN <<server>> ELSE <<Creation(server)>>
  IN  (IF c.https.up /\ ~c.https.listen THEN <<"listen">> ELSE <<>>)
      \o (IF c.srv0 # <<>> THEN <<"drop-srv0">> \o place("https") \o place("http")
          ELSE Missing("https") \o Missing("http"))

\* upsertTlsPolicy
ReadPolicies(h) == draft' = [draft EXCEPT !.policies = caddy.live.policies \cup {h}]

ReadHttps(h, r) ==
  draft' = [draft EXCEPT !.https =
              Upsert(caddy.live.https.routes, h, <<Serving(h, r)>>, Denials(h, r))]

ReadHttp(h, r, redirect) ==
  draft' = [draft EXCEPT !.http =
              Upsert(caddy.live.http.routes, h, HttpRoutes(h, r, redirect), Denials(h, r))]

\* unpublishRoute: the policies are written back as they were read here.
ReadRemoval(h) ==
  draft' = [draft EXCEPT !.https = Without(caddy.live.https.routes, h),
                         !.policies = caddy.live.policies \ {h}]

RemovalCalls(h) ==
  (IF h \in {r.host : r \in ToSet(caddy.live.https.routes)} THEN <<"https", "read-http-removal">> ELSE <<>>)
  \o (IF h \in caddy.live.policies THEN <<"policies">> ELSE <<>>)

\* removeRedirect and unpublishRoute write only what has changed.
HttpChanges(h, added) == added # <<>> \/ \E r \in ToSet(caddy.live.http.routes) : r.host = h

ReadHttpRemoval(h) == draft' = [draft EXCEPT !.http = Without(caddy.live.http.routes, h)]

-----------------------------------------------------------------------------
(* Requests that write *)

Writes == {"listen", "drop-srv0", "create-https", "create-http", "https", "http", "policies"}

\* PATCH, or PUT where there is nothing: a server of routes only, that listens nowhere.
Replaced(server, routes) == [server EXCEPT !.up = TRUE, !.routes = routes]

Created(routes) == [up |-> TRUE, listen |-> TRUE, routes |-> routes]

Written(call) ==
  LET c == caddy.live
  IN  CASE call = "listen"       -> [c EXCEPT !.https.up = TRUE, !.https.listen = TRUE]
        [] call = "drop-srv0"    -> [c EXCEPT !.srv0 = <<>>]
        [] call = "create-https" -> [c EXCEPT !.https = Created(draft.https)]
        [] call = "create-http"  -> [c EXCEPT !.http = Created(draft.http)]
        [] call = "https"        -> [c EXCEPT !.https = Replaced(@, draft.https)]
        [] call = "http"         -> [c EXCEPT !.http = Replaced(@, draft.http)]
        [] call = "policies"     -> [c EXCEPT !.policies = draft.policies]

Accepted(call) == /\ call = "create-https" => ~caddy.live.https.up
                  /\ call = "create-http" => ~caddy.live.http.up
                  /\ UniqueIds(Written(call))

Write(call) == caddy' = [caddy EXCEPT !.live = Written(call)]

-----------------------------------------------------------------------------
(* The dump, restarts, and operators *)

OpenDump == caddy' = [caddy EXCEPT !.file = <<>>]
CloseDump == caddy' = [caddy EXCEPT !.file = <<caddy.live>>]

\* ExecStart of the persistence drop-in
Loaded == IF caddy.file = <<>> THEN Installed ELSE caddy.file[1]

RestartCaddy == caddy' = [caddy EXCEPT !.live = Loaded]

\* An operator adds a route at either end of a server.
EditCaddy ==
  \E server \in {"https", "http"}, pattern \in {Wildcard, Hostless}, front \in BOOLEAN :
    /\ caddy.live[server].up
    /\ caddy' = [caddy EXCEPT !.live[server].routes =
                   IF front THEN <<Operator(pattern)>> \o @ ELSE Append(@, Operator(pattern))]
=============================================================================
