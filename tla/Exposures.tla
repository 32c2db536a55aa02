------------------------------ MODULE Exposures ------------------------------
(***************************************************************************)
(* Web, TCP and host SSH exposures: the commands of src/src/cli.js that     *)
(* publish, change and remove them, over the host's SSH daemon (HostSsh),   *)
(* the forwarding of the proxy and the gateway (ProxyForwarding), DNS       *)
(* records and web routes, and the detached operations of                  *)
(* src/src/ssh-operation.js.                                               *)
(*                                                                         *)
(* One command runs at a time, because it holds the project lock.  It is a *)
(* list of calls still to make; each call may be the last one before a     *)
(* crash, and each external one may fail.  A failed call drops what depends *)
(* on it and puts the clean-up of the code in its place: the calls of one  *)
(* try block have the same block.                                          *)
(*                                                                         *)
(* nomina.yaml and state.json are saved together; module Tracking is about *)
(* the time between the two.                                               *)
(***************************************************************************)
EXTENDS HostSsh, ProxyForwarding, FiniteSets, SequencesExt

CONSTANTS
  Name,      \* names of exposures
  Label,     \* hostnames without the local domain
  Domain,    \* local domains
  Wish,      \* what users publish: pairs of a name and an exposure
  Inline,    \* commands that users give over a managed SSH connection
  Absent,    \* no exposure
  Bound      \* how many commands, logins, faults and crashes there are, and events in all

VARIABLES
  inventory, \* nomina.yaml: the exposures
  domain,    \* nomina.yaml: the local domain
  dns,       \* hostnames with a managed record
  routes,    \* hostnames with a web route
  session,   \* how somebody is logged in to the managed daemon
  op,        \* the command that holds the project lock
  job,       \* the detached operation and its status file
  failed,    \* the command that failed last
  served,    \* the last key that was ever authorized
  count      \* how much of Bound has been used

adapters == <<host, proxy, gateway, dns, routes>>
files == <<inventory, domain>>
vars == <<adapters, files, session, op, job, failed, served, count>>

Exposure == [label : Label, protocol : {"https", "tcp", "ssh"}, port : Port, tailnet : BOOLEAN,
             account : Account \cup {Nobody}]

ASSUME NamesAreFinite == IsFiniteSet(Name)
ASSUME SomeDomain == Domain # {}
ASSUME HostnamesHaveDomains == Hostname = Label \X Domain
ASSUME WishesAreExposures ==
  Wish \subseteq Name \X Exposure /\ Absent \notin Exposure \cup Name \cup Domain
\* Only host SSH may claim port 22, and it needs an account.
ASSUME SshHasItsPort ==
  \A w \in Wish : /\ (w[2].protocol = "ssh") = (w[2].port = SshPort)
                  /\ w[2].protocol = "ssh" => w[2].account # Nobody
ASSUME BoundsAreNat == Bound \in [commands : Nat, logins : Nat, faults : Nat, crashes : Nat, events : Nat]

NoCommand == [do |-> "none", name |-> Absent, wish |-> Absent, to |-> Absent]

NoOp == [cmd |-> NoCommand, from |-> "console", todo |-> <<>>, plan |-> [n \in Name |-> Absent],
         error |-> FALSE, fresh |-> FALSE, late |-> FALSE, key |-> NoKey]

NoJob == [state |-> "none", cmd |-> NoCommand, alive |-> FALSE]

Init == /\ HostInit /\ ForwardingInit
        /\ inventory = [n \in Name |-> Absent]
        /\ domain = CHOOSE d \in Domain : TRUE
        /\ dns = {} /\ routes = {}
        /\ session = "none"
        /\ op = NoOp /\ job = NoJob /\ failed = NoCommand
        /\ served = NoKey
        /\ count = [commands |-> 0, logins |-> 0, faults |-> 0, crashes |-> 0]

-----------------------------------------------------------------------------
(* Faults: plausible mistakes, each of which one of the properties below    *)
(* exists to catch.  No action of Spec uses them; more are in HostSsh and  *)
(* ProxyForwarding.                                                        *)

Call(call, n, d, block) == [call |-> call, name |-> n, to |-> d, block |-> block]

\* A failed publication is not rolled back.
CleanupOfForwardingOnly(n, d) == <<Call("unforward", n, d, "unforward")>>

\* The proxy's sshd returns to port 22 before the gateway is closed.
RestoreFirst == <<"undo-units", "restore", "close-gateway">>

\* Any exposure takes its DNS record with it.
SharesNothing(services, n, x) == FALSE

\* Activation is not handed over.
DefersNoActivation(c) ==
  CASE c.do = "publish" -> c.wish.protocol = "ssh"
    [] c.do = "remove"  -> inventory[c.name] # Absent /\ inventory[c.name].protocol = "ssh"
    [] OTHER            -> c.do \in {"domain", "replace", "uninstall"}

\* The worker writes its result only when the command succeeds.
SilentFailure(j, ok) == IF ok THEN [j EXCEPT !.state = "succeeded", !.alive = FALSE] ELSE j

-----------------------------------------------------------------------------
(* Exposures and the slots they take *)

Of(services) == {n \in Name : services[n] # Absent}

IsStream(x) == x.protocol # "https"

SharesDns(services, n, x) == \E m \in Of(services) \ {n} : services[m].label = x.label

\* assertExposureSlot
SlotFree(services, n, x) ==
  \A m \in Of(services) \ {n} :
    LET y == services[m]
    IN IF IsStream(x) THEN ~(IsStream(y) /\ y.port = x.port)
       ELSE ~(~IsStream(y) /\ y.label = x.label)

\* findExposure: an exposure keeps its hostname, its transport and its listener.
SameSlot(n, x) ==
  inventory[n] # Absent =>
    /\ inventory[n].label = x.label
    /\ inventory[n].protocol = x.protocol /\ inventory[n].port = x.port

SshOf(services) == {n \in Of(services) : services[n].protocol = "ssh"}

-----------------------------------------------------------------------------
(* Calls *)

Calls(calls, n, d, block) == [i \in DOMAIN calls |-> Call(calls[i], n, d, block)]

ForAll(names, Steps(_)) == FlattenSeq([i \in 1..Cardinality(names) |-> Steps(SetToSeq(names)[i])])

Revoke(n, d, block) ==
  Calls(<<"revoke-keys", "disable-record", "terminate", "stop-daemon">>, n, d, block)

\* preflightTcpExposure
CheckStream(n, d, block) == Calls(<<"check-slot", "check-forwarding", "check-dns">>, n, d, block)

\* publishTcpExposure, and the web half of publishManagedExposure
PublishStream(n, d) ==
  CheckStream(n, d, "publish")
    \o <<Call("relocate", n, d, "publish")>>
    \o Calls(<<"close-gateway", "install", "open-gateway">>, n, d, "forward")
    \o Calls(<<"publish-record", "inspect">>, n, d, "publish")

PublishWeb(n, d) ==
  Calls(<<"check-slot", "check-web", "publish-record", "publish-route", "inspect">>, n, d, "publish")

Publish(x, n, d) == IF IsStream(x) THEN PublishStream(n, d) ELSE PublishWeb(n, d)

\* republishExposures
Republish(services, names, d) ==
  ForAll(names, LAMBDA n : Publish(services[n], n, d)
                  \o (IF services[n].protocol = "ssh"
                      THEN <<Call("check-host", n, d, "publish")>> ELSE <<>>))

\* The catch of publishExposure, for host SSH that was not published before.
EnableCleanup(n, d) ==
  Revoke(n, d, "revoke")
    \o <<Call("unforward", n, d, "unforward")>>
    \o (IF SharesDns(inventory, n, op.plan[n]) THEN <<>>
        ELSE <<Call("delete-record", n, d, "unname")>>)

Withdraw(n) ==
  Calls(<<"delete-record", IF IsStream(inventory[n]) THEN "unforward" ELSE "delete-route">>,
        n, domain, "withdraw")

-----------------------------------------------------------------------------
(* The calls of each command *)

Cmd(do, n, x, d) == [do |-> do, name |-> n, wish |-> x, to |-> d]

PublishCalls(n, x) ==
  (IF x.protocol # "ssh" THEN <<>>
   ELSE CheckStream(n, domain, "plain") \o <<Call("enable-host", n, domain, "plain")>>)
    \o Publish(x, n, domain) \o <<Call("save", n, domain, "plain")>>

\* removeService of an exposure
RemoveCalls(n) ==
  LET x == inventory[n]
  IN (IF x.protocol = "ssh" THEN Revoke(n, domain, "plain") ELSE <<>>)
       \o (IF IsStream(x) THEN <<Call("unforward", n, domain, "plain")>> ELSE <<>>)
       \o (IF SharesDns(inventory, n, x) THEN <<>> ELSE <<Call("delete-record", n, domain, "plain")>>)
       \o (IF IsStream(x) THEN <<>> ELSE <<Call("delete-route", n, domain, "plain")>>)
       \o <<Call("save", n, domain, "plain")>>

\* changeBaseDomain: what cannot be withdrawn is only warned about.
DomainCalls(d) ==
  ForAll(Of(inventory), Withdraw)
    \o Republish(inventory, Of(inventory), d) \o <<Call("save", Absent, d, "plain")>>

\* nomina caddy redirect, which publishes everything again.
RedirectCalls ==
  Republish(inventory, Of(inventory), domain) \o <<Call("save", Absent, domain, "plain")>>

\* service add tailscale: web routes before the gateway serves, streams after.
VpnCalls ==
  LET streams == {n \in Of(inventory) : IsStream(inventory[n])}
  IN Republish(inventory, Of(inventory) \ streams, domain)
       \o <<Call("start-gateway", Absent, domain, "plain")>>
       \o Republish(inventory, streams, domain) \o <<Call("save", Absent, domain, "plain")>>

UninstallCalls ==
  (IF host.record = Nobody THEN <<>>
   ELSE Revoke(Absent, domain, "plain")
          \o Calls(<<"check-owned", "remove-unit", "reload", "remove-record", "remove-files">>,
                   Absent, domain, "plain"))
    \o <<Call("delete-project", Absent, domain, "plain")>>

CallsOf(c) ==
  LET exposed == SshOf(inventory)
      n == CHOOSE m \in exposed : TRUE
  IN CASE c.do = "publish"   -> PublishCalls(c.name, c.wish)
       [] c.do = "remove"    -> RemoveCalls(c.name)
       [] c.do = "domain"    -> DomainCalls(c.to)
       [] c.do = "redirect"  -> RedirectCalls
       [] c.do = "vpn"       -> VpnCalls
       [] c.do = "prepare"   -> <<Call("prepare-key", n, domain, "plain")>>
       [] c.do = "activate"  -> <<Call("activate-key", n, domain, "plain")>>
       [] c.do = "replace"   -> <<Call("replace-key", n, domain, "plain")>>
       [] c.do = "uninstall" -> UninstallCalls

PlanOf(c) == CASE c.do = "publish" -> [inventory EXCEPT ![c.name] = c.wish]
               [] c.do = "remove"  -> [inventory EXCEPT ![c.name] = Absent]
               [] OTHER            -> inventory

\* What a user can ask for.  The gateway is added once.
Possible(c) ==
  CASE c.do = "publish" -> SameSlot(c.name, c.wish)
    [] c.do = "remove"  -> inventory[c.name] # Absent
    [] c.do = "domain"  -> c.to # domain
    [] c.do = "vpn"     -> ~gateway.up
    [] c.do \in {"prepare", "activate", "replace"} -> SshOf(inventory) # {}
    [] OTHER            -> TRUE

Command == {Cmd("publish", w[1], w[2], Absent) : w \in Wish}
             \cup {Cmd("remove", n, Absent, Absent) : n \in Name}
             \cup {Cmd("domain", Absent, Absent, d) : d \in Domain}
             \cup {Cmd(do, Absent, Absent, Absent) :
                     do \in {"redirect", "vpn", "prepare", "activate", "replace", "uninstall"}}

\* deferSshOperation: the commands that ask whether they would cut their caller off.
Defers(c) == CASE c.do = "publish" -> c.wish.protocol = "ssh"
               [] c.do = "remove"  -> c.name \in SshOf(inventory)
               [] OTHER            -> c.do \in {"domain", "activate", "replace", "uninstall"}

-----------------------------------------------------------------------------
(* How a command goes on *)

Idle == op = NoOp

\* An event that Bound still allows.
Counted(event) ==
  /\ count[event] < Bound[event]
  /\ count.commands + count.logins + count.faults + count.crashes < Bound.events
  /\ count' = [count EXCEPT ![event] = @ + 1]

First == Head(op.todo)

On(call) == op.todo # <<>> /\ First.call = call

\* The exposure that a call is about: one that is being removed is in no plan.
Subject(s) == IF op.plan[s.name] = Absent THEN inventory[s.name] ELSE op.plan[s.name]

HostOf(s) == <<Subject(s).label, s.to>>

PortOf(s) == Subject(s).port

IsSsh(s) == Subject(s).protocol = "ssh"

Continue == op' = [op EXCEPT !.todo = Tail(@)]

Instead(calls) == op' = [op EXCEPT !.todo = calls \o Tail(@)]

\* Blocks whose failure stops nothing but the rest of the block.
SoftBlocks == {"undo", "revoke", "unforward", "unname", "withdraw"}

UndoForwarding == <<"undo-units", "close-gateway", "restore">>

\* What runs before the error reaches the caller of the block.
Undo(s) ==
  CASE s.block = "host"                -> Revoke(s.name, s.to, "undo")
    [] s.block = "relocation"          -> <<Call("restore", s.name, s.to, "undo")>>
    [] s.block = "forward" /\ op.fresh -> Calls(UndoForwarding, s.name, s.to, "undo")
    [] OTHER                           -> <<>>

\* The try of publishExposure, where host SSH was not published before.
NewSsh(s) == /\ op.cmd.do = "publish" /\ op.cmd.wish.protocol = "ssh"
             /\ inventory[s.name] = Absent
             /\ s.block \in {"relocation", "forward", "publish"}

Failure(s) ==
  LET rest == Tail(op.todo)
      out == SelectInSeq(rest, LAMBDA t : t.block # s.block \/ t.name # s.name)
  IN IF s.block \in SoftBlocks
     THEN IF out = 0 THEN <<>> ELSE SubSeq(rest, out, Len(rest))
     ELSE Undo(s) \o (IF NewSsh(s) THEN EnableCleanup(s.name, s.to) ELSE <<>>)

\* A domain change reports what it could not withdraw as a warning.
Abort == op' = [op EXCEPT !.todo = Failure(First), !.late = FALSE,
                          !.error = @ \/ First.block # "withdraw"]

Require(condition) == IF condition THEN Continue ELSE Abort

Stay(condition) == Require(condition) /\ UNCHANGED <<adapters, files, session, served>>

\* A connection through the proxy ends with the forwarding.
Cut(p) == session' = IF p = SshPort /\ session = "proxy" THEN "none" ELSE session

-----------------------------------------------------------------------------
(* Checks, and what calls consist of *)

CheckSlot == On("check-slot") /\ Stay(SameSlot(First.name, Subject(First))
                                       /\ SlotFree(op.plan, First.name, Subject(First)))

CheckForwarding == On("check-forwarding") /\ Stay(ForwardingAllowed(PortOf(First), HostOf(First)))

\* A stream may share its hostname with what is recorded, not with strangers.
Recorded(s) == op.cmd.do # "publish" \/ \E n \in Of(inventory) : inventory[n].label = Subject(s).label

CheckDns == On("check-dns") /\ Stay(HostOf(First) \in dns => Recorded(First))

\* A new web exposure of a shared hostname takes over no route.
CheckWeb == /\ On("check-web")
            /\ Stay(op.cmd.do = "publish" /\ inventory[First.name] = Absent /\ Recorded(First)
                      => HostOf(First) \notin routes)

CheckHost == On("check-host") /\ Stay(HostHealthy(Subject(First).account))

CheckOwned == On("check-owned") /\ Stay(HostOwned)

Inspect == (On("inspect") \/ On("reload")) /\ Stay(TRUE)

Part(calls, block) == Calls(calls, First.name, First.to, block)

\* publish of the host's adapter
EnableHost ==
  LET a == Subject(First).account
      keys == Part(<<"install-key", "authorize", "start-daemon", "enable-record", "verify">>, "host")
      again == Part(<<"revoke-keys", "disable-record", "terminate", "stop-daemon">>, "plain")
      moved == IF host.record = a THEN <<>> ELSE Part(<<"write-config", "write-record">>, "host")
      first == Part(<<"make-directory", "write-record", "write-config", "write-unit">>, "plain")
  IN /\ On("enable-host")
     /\ IF ~HostAccepts(a) THEN Abort
        ELSE IF HostEnabled /\ op.key = NoKey THEN Continue
        ELSE Instead((IF host.record = Nobody THEN first ELSE again \o moved) \o keys)
     /\ UNCHANGED <<adapters, files, session, served>>

\* The prepared key is read before the revocation that discards it.
ActivateKey ==
  /\ On("activate-key")
  /\ IF CanActivate(Subject(First).account)
     THEN op' = [op EXCEPT !.todo = Part(<<"enable-host">>, "plain") \o Tail(@), !.key = host.pending]
     ELSE Abort
  /\ UNCHANGED <<adapters, files, session, served>>

ReplaceKey ==
  /\ On("replace-key")
  /\ IF HostAccepts(Subject(First).account)
     THEN Instead(Revoke(First.name, First.to, "plain") \o Part(<<"enable-host">>, "plain"))
     ELSE Abort
  /\ UNCHANGED <<adapters, files, session, served>>

\* The proxy's sshd moves away, unless port 22 is forwarded already or idle.
Relocate ==
  LET fresh == IsSsh(First) /\ proxy.record[SshPort] = Free
      clear == proxy.saved = "none" /\ ~Listening(SshPort)
      steps == Part(<<"save-activity", "stop-admin", "start-private">>, "relocation")
  IN /\ On("relocate")
     /\ IF fresh /\ ~clear /\ ~Relocatable THEN Abort
        ELSE op' = [op EXCEPT !.fresh = fresh,
                              !.todo = (IF fresh /\ ~clear THEN steps ELSE <<>>) \o Tail(@)]
     /\ UNCHANGED <<adapters, files, session, served>>

\* remove of the TCP adapter
Unforward ==
  LET p == PortOf(First)
      close == <<"close-gateway">>
      restore == IF IsSsh(First) THEN <<"restore">> ELSE <<>>
      owner == proxy.record[p]
      mine == owner = HostOf(First) /\ proxy.unit[p] = owner
  IN /\ On("unforward")
     /\ IF mine \/ (owner = Free /\ AlreadyRemoved(p))
        THEN Instead(Part(close \o (IF mine THEN <<"remove-forwarding">> ELSE <<>>) \o restore,
                          First.block))
        ELSE Abort
     /\ UNCHANGED <<adapters, files, session, served>>

Checks == CheckSlot \/ CheckForwarding \/ CheckDns \/ CheckWeb \/ CheckHost \/ CheckOwned \/ Inspect

Expand == EnableHost \/ ActivateKey \/ ReplaceKey \/ Relocate \/ Unforward

-----------------------------------------------------------------------------
(* Calls to the host's SSH daemon *)

OnHost(call, Effect) ==
  On(call) /\ Effect /\ Continue /\ UNCHANGED <<proxy, gateway, dns, routes, files, session, served>>

PrepareReplacement ==
  /\ On("prepare-key")
  /\ IF CanPrepare THEN PrepareKey /\ Continue ELSE Abort /\ UNCHANGED host
  /\ UNCHANGED <<proxy, gateway, dns, routes, files, session, served>>

AuthorizeKey ==
  /\ On("authorize")
  /\ Authorize /\ served' = host.client
  /\ Continue /\ UNCHANGED <<proxy, gateway, dns, routes, files, session>>

RevokeAccess ==
  /\ On("revoke-keys")
  /\ IF host.record # Nobody THEN RevokeKeys /\ Continue ELSE Abort /\ UNCHANGED host
  /\ UNCHANGED <<proxy, gateway, dns, routes, files, session, served>>

\* Sessions are found below the daemon, as long as it runs.
Terminate ==
  /\ On("terminate")
  /\ session' = IF host.daemon THEN "none" ELSE session
  /\ Continue /\ UNCHANGED <<adapters, files, served>>

StopHost ==
  /\ On("stop-daemon")
  /\ IF host.unit THEN StopDaemon /\ Require(~op.late) ELSE Abort /\ UNCHANGED host
  /\ UNCHANGED <<proxy, gateway, dns, routes, files, session, served>>

VerifyHost == On("verify") /\ Stay(HostHealthy(Subject(First).account))

HostCalls ==
  \/ OnHost("make-directory", MakeDirectory)
  \/ OnHost("write-record", WriteRecord(Subject(First).account))
  \/ OnHost("write-config", WriteConfig(Subject(First).account))
  \/ OnHost("write-unit", WriteUnit)
  \/ OnHost("install-key", InstallKey(op.key))
  \/ OnHost("start-daemon", StartDaemon)
  \/ OnHost("enable-record", EnableRecord)
  \/ OnHost("disable-record", DisableRecord)
  \/ OnHost("remove-unit", RemoveUnit)
  \/ OnHost("remove-record", RemoveRecord)
  \/ OnHost("remove-files", RemoveFiles)
  \/ PrepareReplacement \/ AuthorizeKey \/ RevokeAccess \/ Terminate \/ StopHost \/ VerifyHost

-----------------------------------------------------------------------------
(* Calls to the proxy, the gateway, DNS and the routes *)

OnProxy(call, Effect) ==
  On(call) /\ Effect /\ Continue /\ UNCHANGED <<host, gateway, dns, routes, files, session, served>>

StartPrivateAdmin ==
  /\ On("start-private")
  /\ IF CanStartPrivate THEN StartPrivate /\ Continue ELSE Abort /\ UNCHANGED proxy
  /\ UNCHANGED <<host, gateway, dns, routes, files, session, served>>

\* Nothing was moved, or port 22 must be free for the sshd to return to.
Restore ==
  LET steps == Part(<<"stop-admin", "start-stock", "forget-activity">>, First.block)
  IN /\ On("restore")
     /\ IF proxy.saved = "none" THEN Continue
        ELSE IF Listening(SshPort) THEN Abort ELSE Instead(steps)
     /\ UNCHANGED <<adapters, files, session, served>>

Install ==
  LET p == PortOf(First)
  IN /\ On("install")
     /\ IF CanListen(p) THEN InstallForwarding(p, HostOf(First)) /\ Continue
        ELSE InstallForwardingFails(p, HostOf(First)) /\ Abort
     /\ Cut(p)
     /\ UNCHANGED <<host, gateway, dns, routes, files, served>>

RemoveUnits(call) ==
  /\ On(call)
  /\ RemoveForwarding(PortOf(First)) /\ Cut(PortOf(First)) /\ Continue
  /\ UNCHANGED <<host, gateway, dns, routes, files, served>>

OnGateway(call, Effect) ==
  On(call) /\ Effect /\ Continue /\ UNCHANGED <<host, proxy, dns, routes, files, session, served>>

ProxyCalls ==
  \/ OnProxy("save-activity", SaveActivity)
  \/ OnProxy("stop-admin", StopAdmin)
  \/ OnProxy("start-stock", StartStock)
  \/ OnProxy("forget-activity", ForgetActivity)
  \/ StartPrivateAdmin \/ Restore \/ Install
  \/ RemoveUnits("remove-forwarding") \/ RemoveUnits("undo-units")
  \/ OnGateway("close-gateway", CloseGateway(PortOf(First)))
  \/ OnGateway("open-gateway", OpenGateway(PortOf(First), Subject(First).tailnet))
  \/ OnGateway("start-gateway", gateway' = [gateway EXCEPT !.up = TRUE])

\* The hostnames with a record or a route, after a call and after a lost one.
NamesAfter(call) ==
  CASE call = "publish-record" -> <<dns \cup {HostOf(First)}, routes>>
    [] call = "delete-record"  -> <<dns \ {HostOf(First)}, routes>>
    [] call = "publish-route"  -> <<dns, routes \cup {HostOf(First)}>>
    [] call = "delete-route"   -> <<dns, routes \ {HostOf(First)}>>
    [] OTHER                   -> <<dns, routes>>

NameCalls ==
  /\ \E call \in {"publish-record", "delete-record", "publish-route", "delete-route"} :
       On(call) /\ dns' = NamesAfter(call)[1] /\ routes' = NamesAfter(call)[2]
  /\ Continue /\ UNCHANGED <<host, proxy, gateway, files, session, served>>

-----------------------------------------------------------------------------
(* The end of a command: nomina.yaml and state.json *)

Save == /\ On("save")
        /\ inventory' = op.plan /\ domain' = First.to
        /\ Continue /\ UNCHANGED <<adapters, session, served>>

\* uninstall: containers, configuration, state and secrets
DeleteProject ==
  /\ On("delete-project")
  /\ proxy' = NoForwarding(proxy.stock) /\ gateway' = NoGateway
  /\ dns' = {} /\ routes' = {} /\ inventory' = [n \in Name |-> Absent]
  /\ Cut(SshPort)
  /\ Continue /\ UNCHANGED <<host, domain, served>>

Finished(j, ok) == [j EXCEPT !.state = IF ok THEN "succeeded" ELSE "failed", !.alive = FALSE]

\* An error reaches the user; a worker writes its result.
End ==
  /\ ~Idle /\ op.todo = <<>>
  /\ failed' = IF op.error THEN op.cmd ELSE NoCommand
  /\ job' = IF op.from = "worker" THEN Finished(job, ~op.error) ELSE job
  /\ op' = NoOp
  /\ UNCHANGED <<adapters, files, session, served, count>>

Run == /\ ~Idle
       /\ Checks \/ Expand \/ HostCalls \/ ProxyCalls \/ NameCalls \/ Save \/ DeleteProject
       /\ UNCHANGED <<job, failed, count>>

-----------------------------------------------------------------------------
(* What else happens *)

Start(c, from) ==
  op' = [NoOp EXCEPT !.cmd = c, !.from = from, !.todo = CallsOf(c), !.plan = PlanOf(c)]

\* From the shell of the host, or over a managed session.
Begin(c) ==
  /\ Idle /\ Possible(c) /\ Counted("commands")
  /\ \/ Start(c, "console")
     \/ session # "none" /\ c.do \in Inline /\ ~Defers(c) /\ Start(c, "session")
  /\ UNCHANGED <<adapters, files, session, job, failed, served>>

Pending == job.state \in {"scheduled", "running"} /\ job.alive

\* launch: systemd-run may refuse.
Schedule(c) ==
  /\ Idle /\ Possible(c) /\ Counted("commands")
  /\ session # "none" /\ c.do \in Inline /\ Defers(c) /\ ~Pending
  /\ \/ job' = [state |-> "scheduled", cmd |-> c, alive |-> TRUE]
     \/ job' = [state |-> "failed", cmd |-> c, alive |-> FALSE]
  /\ UNCHANGED <<adapters, files, session, op, failed, served>>

\* The worker needs the project lock, and looks at the project again.
Work ==
  /\ job.state = "scheduled"
  /\ IF Idle /\ Possible(job.cmd)
     THEN Start(job.cmd, "worker") /\ job' = [job EXCEPT !.state = "running"]
     ELSE job' = Finished(job, FALSE) /\ UNCHANGED op
  /\ UNCHANGED <<adapters, files, session, failed, served, count>>

\* The user gives the command that failed again.
Repeat ==
  /\ Idle /\ failed # NoCommand /\ Possible(failed)
  /\ Start(failed, "console")
  /\ UNCHANGED <<adapters, files, session, job, failed, served, count>>

Login ==
  /\ session = "none" /\ host.daemon /\ host.authorized # NoKey
  /\ Counted("logins")
  /\ \E how \in {"direct", "proxy"} :
       (how = "proxy" => SshPort \in proxy.live) /\ session' = how
  /\ UNCHANGED <<adapters, files, op, job, failed, served>>

Logout ==
  /\ session # "none" /\ op.from # "session"
  /\ session' = "none"
  /\ UNCHANGED <<adapters, files, op, job, failed, served, count>>

\* Calls to other programs and machines; the rest is local.
External ==
  {"check-forwarding", "check-dns", "check-web", "check-host", "inspect", "reload", "unforward",
   "enable-host", "activate-key", "relocate", "install-key", "start-daemon", "verify",
   "prepare-key", "terminate", "stop-daemon", "save-activity", "stop-admin", "start-private",
   "restore", "start-stock", "install", "remove-forwarding", "undo-units", "close-gateway",
   "open-gateway", "publish-record", "delete-record", "publish-route", "delete-route"}

\* A failed call has done nothing, or a part of what it was to do.
Partial ==
  LET p == PortOf(First)
  IN \/ UNCHANGED adapters
     \/ On("stop-daemon") /\ StopDaemonFails /\ UNCHANGED <<proxy, gateway, dns, routes>>
     \/ On("install") /\ InstallForwardingFails(p, HostOf(First))
                      /\ UNCHANGED <<host, gateway, dns, routes>>
     \/ On("remove-forwarding") /\ RemoveForwardingFails(p)
                                /\ UNCHANGED <<host, gateway, dns, routes>>
     \/ On("open-gateway") /\ OpenGateway(p, Subject(First).tailnet)
                           /\ UNCHANGED <<host, proxy, dns, routes>>
     \/ /\ dns' = NamesAfter(First.call)[1] /\ routes' = NamesAfter(First.call)[2]
        /\ UNCHANGED <<host, proxy, gateway>>

Fault ==
  /\ op.todo # <<>> /\ First.call \in External
  /\ Counted("faults")
  /\ IF On("terminate")
     THEN op' = [op EXCEPT !.todo = Tail(@), !.late = TRUE] /\ UNCHANGED adapters
     ELSE Abort /\ Partial
  /\ UNCHANGED <<files, session, job, failed, served>>

Crash ==
  /\ ~Idle /\ Counted("crashes")
  /\ failed' = op.cmd /\ op' = NoOp
  /\ job' = IF op.from = "worker" THEN [job EXCEPT !.alive = FALSE] ELSE job
  /\ UNCHANGED <<adapters, files, session, served>>

Next ==
  \/ \E c \in Command : Begin(c) \/ Schedule(c)
  \/ Work \/ Repeat \/ Run \/ End \/ Login \/ Logout \/ Fault \/ Crash

\* A command runs on, its worker is started by a timer, and a user repeats
\* what failed until it succeeds.
Fairness == WF_vars(Run) /\ WF_vars(End) /\ WF_vars(Work) /\ SF_vars(Repeat)

Spec == Init /\ [][Next]_vars /\ Fairness

-----------------------------------------------------------------------------
(* Properties *)

TypeOK ==
  /\ host \in HostType /\ proxy \in ProxyType /\ gateway \in GatewayType
  /\ inventory \in [Name -> Exposure \cup {Absent}] /\ domain \in Domain
  /\ dns \subseteq Hostname /\ routes \subseteq Hostname
  /\ session \in {"none", "proxy", "direct"}
  /\ op.from \in {"console", "session", "worker"}
  /\ job.state \in {"none", "scheduled", "running", "succeeded", "failed"}
  /\ served \in Nat

\* Unless a process died, a key that opens the host belongs to a recorded SSH
\* exposure: a publication that failed has been rolled back, and a removal
\* that failed half way has closed the door first.
NoUnrecordedAccess ==
  Idle /\ count.crashes = 0 /\ host.authorized # NoKey => SshOf(inventory) # {}

\* A key that was replaced, discarded or revoked never opens the host again,
\* whatever is prepared, activated, retried or restored after it.
KeysNeverReturn ==
  [][host'.authorized # host.authorized /\ host'.authorized # NoKey
       => host'.authorized > served]_vars

\* After any failure and crash, what is needed to bring back the proxy's own
\* sshd as it was is on disk, or nothing has been moved.
AdminRestorable ==
  LET activity == IF proxy.stock = "ssh" THEN "active" ELSE "inactive"
  IN IF proxy.saved = "none" THEN proxy.admin = proxy.stock ELSE proxy.saved = activity

\* The VPN gateway never forwards its port 22 to the administration of the
\* proxy: the one is closed before the other returns, on every path.
AdminNeverExposed == SshPort \in gateway.ports => proxy.admin # "ssh"

\* Without faults and crashes, what nomina.yaml records is served, whatever was
\* removed, refused or published next to it.
ExposuresServed ==
  Idle /\ count.faults = 0 /\ count.crashes = 0 =>
    \A n \in Of(inventory) :
      LET x == inventory[n]
          h == <<x.label, domain>>
      IN /\ h \in dns
         /\ IF IsStream(x)
            THEN /\ proxy.record[x.port] = h /\ x.port \in proxy.live
                 /\ (x.port \in gateway.ports) = (gateway.up /\ x.tailnet)
            ELSE h \in routes

\* A command given over a managed session does not cut its caller off: what
\* would is handed over to a worker.
CallerSurvives ==
  [][~Idle /\ op.from = "session" /\ session # "none" => session' # "none"]_vars

\* What a removal cannot repair: a domain change, a restoration of the proxy's
\* sshd or an uninstallation of the host's that ended half way.
HalfChanged ==
  \E p \in Port : \E h \in {proxy.unit[p], proxy.record[p]} \ {Free} :
    h[2] # domain \/ proxy.record[p] # proxy.unit[p]

AdminHalfRestored == proxy.saved # "none" /\ proxy.admin = "ssh"

HostHalfRemoved == SshOf(inventory) # {} /\ (host.record = Nobody \/ ~host.unit)

\* A removal that failed or died can be repeated until it succeeds.
RemovalsComplete ==
  failed.do = "remove"
    ~> (\/ failed.do # "remove" \/ inventory[failed.name] = Absent
        \/ HalfChanged \/ AdminHalfRestored \/ HostHalfRemoved)

\* A detached operation that is over has written its result, unless its worker
\* died.
WorkerReports == job.state = "running" /\ job.alive => op.from = "worker"
=============================================================================
