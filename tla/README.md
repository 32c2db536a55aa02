# A verification project for NominaConnect

`nomina` is a command-line program that sets up a home laboratory on a Proxmox
host: it creates LXC containers for a DNS server, a reverse proxy, a certificate
authority and a VPN, publishes services through them, and keeps what it did in two
files. This directory models the parts of it where the order of steps decides whether
the result is right: TLA+ modules, TLC configurations, and theorems that TLAPS checks.

Paths below are those of the repository: `src/cli.js` is `nomina`'s command
implementation.

- [The system](#the-system) - components, state, interactions, hazards
- [Modules](#modules) - what each one models and how it corresponds to the code
- [What the runs check](#what-the-runs-check) - bounds, fairness, results
- [What is proved](#what-is-proved)
- [Where the program departs from its documents](#where-the-program-departs-from-its-documents)
- [What is not modelled](#what-is-not-modelled)
- [Plan](#plan)

`PROJECT.json` holds the same information for tools: components, runs, the source lines
behind every definition ("map"), the hazards with the properties that cover them, and
for every property a fault ("mutants") that breaks it.

To check a module: `tlc -config MCTracking.cfg MCTracking.tla`; to check proofs:
`tlapm TrackingProofs.tla`.

## The system

Two files under the project directory are the only database: `nomina.yaml` (the
inventory: local domain, selected providers, services, exposures) and
`.nomina/state.json` (provider references, retained containers, saved tailnet DNS,
pending notices). Each is replaced atomically by a rename, but they are replaced one
after the other. Everything else that has state lives outside: Proxmox containers,
routes in Caddy or Traefik, DNS records in Technitium, DNS settings of the tailnet.

| Component | State | Operations | Correct when |
|---|---|---|---|
| Project lock (`project-lock.js`) | directory `.nomina/<name>.lock`, `owner.json` in it, the directory that guards a recovery | acquire with a deadline, recover from a dead owner, release | one holder at a time; a live holder keeps it; waiting ends; a dead owner does not block for ever |
| Tracking and adoption (`tracking.js`, `adoption.js`) | notices in `state.json`; what a pass has read | unlocked read, inspection of providers, commit under the lock, notices | a stale pass undoes nothing; the inventory converges to what the provider serves; the user sees every notice |
| Project files (`config.js`, `project-write.js`) | the two files | load, save, `updateProject` | a writer overwrites only what it loaded |
| Platform services (`cli.js`, `provisioning.js`) | references, retained containers, deployments | `init`, `service add/recheck/remove/destroy`, `uninstall` | a container is known until it is gone; foreign containers are not touched, unless `recheck` mistook one; an uninstall can be repeated until it succeeds |
| Docker hosts (`docker-hosts.js`) | bindings with a reference and a setup status, the operation lock | create, retry, connect, disconnect | a container is recorded before it exists, is finished by retries, and is destroyed by nobody else; an ended binding stays ended |
| Web exposures (`exposure.js`, `cli.js`) | an exposure in the inventory, a route, DNS records | publish, update, remove, change of domain, redirect | inventory and route agree when a command has succeeded; what is recorded is served |
| TCP and SMB exposures (`tcp-exposure.js`, `tcp-adapter.js`) | a unit, a record and a listener of the proxy, a port of the gateway | preflight, publish, remove | a slot has one owner; a failure leaves no listener; a removal can be repeated |
| Host SSH access (`host-ssh-adapter.js`, `proxy-ssh-adapter.js`) | record, configuration, keys and daemon of the host; the proxy's own sshd and what is saved of it | publish, revoke, prepare, activate, replace, uninstall; make room on port 22 and give it back | no key opens the host without a recorded exposure; old keys never return; the proxy's administration comes back and is never exposed |
| Detached SSH operations (`ssh-operation.js`) | a status file, a worker | schedule, run, report | no command cuts off its own caller; a status says what happened |
| Caddy (`caddy-adapter.js`) | the live configuration behind an Admin API, the file that a restart loads | publish, remove, deny, migrate from `srv0`, dump | what was published stays served; the issuer comes before the route, the guard before the tailnet |
| Traefik (`traefik-adapter.js`) | a fragment per hostname; resolver and root of step-ca, read at start-up only | publish, remove, configure trust, restart | no router names a resolver that the running Traefik lacks |
| Proxmox adapter (`adapter-runtime.js`) | containers, whether they run | create, stop, destroy, exec | VMIDs identify containers only as long as those exist |
| Tailnet DNS (`tailscale-tailnet.js`) | the tailnet's nameservers, a snapshot of the old ones | take over, restore | the tailnet never depends on a gateway that cannot be taken back |
| Retries (`adoption.js`) | none | `withBoundedRetry`, `withHealthyRetry` | bounded attempts, last error kept |
| Adapters of DNS, CA, VPN | external | HTTP calls, files, shell commands | I/O |
| Docker discovery, TUI, secrets, installers | prompts, password files | | I/O |

**How they interact.** Commands that change the project take the write lock first
(`runCli`), load both files, call adapters one after the other, and save both files at
the end; some save `state.json` in between so that a crash loses less. Every command
also starts a detached tracking pass, which reads the project *without* the lock,
inspects providers for as long as that takes, and takes the lock only to merge what it
found. `uninstall` deletes `.nomina` and with it the very lock that it holds; `init`
creates `.nomina` without a lock. Docker commands hold an operation lock of their own
and take the write lock for short moments inside it; `uninstall` holds both. Commands that
would cut the SSH session they are given over hand themselves to a worker that starts two
seconds later and takes the write lock like everybody else.

**What is hard.**

- A lock made of directories: every system call is a point where another process runs or
  this one dies, process ids are reused, and the lock can be deleted under its holder.
- Optimistic concurrency without version numbers: a pass commits what it read minutes
  ago into files that commands have replaced since. A merge by id decides what survives.
- Two files and many external systems without a transaction: each command is a sequence of
  calls any of which can fail or be the last one, and recovery means running a command again.
- Names that are reused or shared: VMIDs of destroyed containers, ids of removed exposures,
  one hostname for exposures of several protocols, port 22 for the host and the proxy.
- Clean-up that runs after a failure and can fail itself, and must not destroy what it is
  there to protect: a key, the way back into the proxy, the exposures of others.
- Settings that are shared with people: routes, the tailnet's DNS, and containers are
  edited behind the program.
- Servers with a life of their own: Caddy restarts with an old dump, Traefik reads some
  files only when it starts, a dump goes on after the command that began it.

`PROJECT.json` lists the hazards one by one, each with its line.

## Modules

| Module | Models | Extended by |
|---|---|---|
| `LockService` | what the lock promises, as one variable `holder` | instantiated in `ProjectLock` |
| `ProjectLock` | `project-lock.js`, one action per system call | `MCProjectLock`, `ProjectLockProofs` |
| `Tracking` | a tracking pass and the commands it races with | `MCTracking`, `TrackingProofs` |
| `ServiceLifecycle` | platform services, containers and tailnet DNS | `MCServiceLifecycle`, `ServiceLifecycleProofs` |
| `DockerHosts` | Docker hosts, and the commands they meet at the locks and at Proxmox | `MCDockerHosts`, `DockerHostsProofs` |
| `HostSsh` | the SSH daemon of the Proxmox host, one action per step | `Exposures` |
| `ProxyForwarding` | units, records and listeners of forwardings, the proxy's own sshd, the gateway's ports | `Exposures` |
| `Exposures` | the commands that publish, change and remove exposures of all three protocols, and detached operations | `MCExposures`, `ExposuresCalls` |
| `RouteRequest` | what both reverse proxies are asked for | `CaddyRoutes`, `TraefikRoutes` |
| `CaddyRoutes` | Caddy's configuration and the requests that change it | `WebRoutes` |
| `TraefikRoutes` | Traefik's files, and what the running Traefik has loaded | `WebRoutes` |
| `WebRoutes` | commands over either reverse proxy, request by request | `MCWebRoutes`, `WebRoutesProofs` |
| `ExposuresCalls` | the invariant of `Exposures`, the lists of calls that it puts together, and the theorems that need no more | `ExposuresProofs` |
| `ExposuresProofs` | access that nothing records, callers over a session, and what each call leaves of `CalmInv` | `ServedProofs` |
| `ServedProofs` | the lists that commands begin with, and `ExposuresServed` | |
| `MC...` | finite sets, bounds and symmetry for TLC | |
| `...Proofs` | theorems | |

The modules form levels. `ProjectLock` looks at single system calls and shows that they
implement `LockService`. All others take that for granted. In `Tracking` and `DockerHosts`
locks are variables with a holder, free again when the holder has died; in
`ServiceLifecycle`, `Exposures` and `WebRoutes` commands do not overlap, because
each holds the write lock from before it loads the project until it ends. `Exposures` sees a
web route as a hostname in a set; `WebRoutes` looks into the requests behind one route.

Definitions that a module calls "a fault" are mistakes that the code does not make.
No action uses them; each replaces one action to show that a property notices.

### ProjectLock

State: whether `.nomina`, the lock directory and the guard exist, the contents of
`owner.json` (a record, nothing, or a torn one), and for each process its next system
call, its token and the pid it read. One action per system call and outcome:

- `acquireProjectLock`: `Begin` (draw a token), `MakeLock` / `LockExists` /
  `ProjectMissing` (mkdir), `WriteOwner` / `WriteOwnerFails` (with the clean-up by rmdir),
  `GiveUp` / `Sleep` (the deadline).
- `recoverAbandonedLock`: `MakeGuard` / `GuardExists`, `ReadOwner` / `OwnerUnverifiable`,
  `ProbeOwner` (`process.kill(pid, 0)`), `TakeAway` / `TakeAwayFails` (rename),
  `RemoveGuard` / `RemoveGuardFails` (the finally block).
- release: `CheckOwner` / `NotOwner`, `RemoveOwner` / `RemoveOwnerFails`, `RemoveLock`.
- `uninstall` and `init`: `RemoveEntries`, `RemoveProject`, `CreateProject`.
- the system: `Crash` at any call, `ReusePid`.

What a rename has taken away is removed under a random name that no other process knows,
so the renamed directory is not part of the state. Tokens are drawn from a finite set, but
never one that is still referred to somewhere: that is what `randomUUID` gives.

**The assumption `PromptRecovery`.** With `PromptRecovery = TRUE` no process dies, no pid
is reused and no project is deleted between the read of `owner.json` and the rename of a
recovery that looks at it. The code needs this: see the departures below. All other
interleavings remain, recoveries with recoveries included. The safety properties are checked and
proved with it, the liveness properties without.

### Tracking

State: the two files as two variables, the route that the proxy serves for the hostname
under each domain, the lock holder, and for each pass and the one running command where it
is and what it has read. A pass reads `nomina.yaml` (`ReadConfig`), then `state.json`
(`ReadState`) - a commit can fall between - inspects (`Inspect`, `InspectFails`,
`NothingToInspect`), takes the lock and reloads (`TakeLock`, or `GiveUp` after the
retries), and replaces the two files (`CommitConfig`, `CommitState`). `Found` is the proxy
part of `runAdoptionPass`: which of the changes *redirect*, *backend*, *tailnet* and
*reference* it reports for an exposure and a route, with the same precedence and the same
dependence on the health check. `Merge` is `adoptServiceExposure`, with the
JavaScript spread as it works: a key that the change does not have keeps its old value.

A command (`Begin`, `Withdraw`, `Deploy`, `Observe`, `SaveConfig`, `SaveState`) is a
publish, an update, a removal, a change of domain or `nomina changes`. `Crash` and
`Interrupt` end a pass or a command at any step; `Edit` is an administrator in the proxy.

An exposure's backend (ip, port, protocol) is one value, and the hostname is determined
by the domain. One exposure is enough for what the module is about: passes treat
exposures one by one and match them by id, so an interaction of two is one of two ids,
and the module has a removed and a new one.

### ServiceLifecycle

State: what each VMID is used for and whether it runs, which containers joined the
tailnet, the tailnet's nameserver, the files, `deployed` in `nomina.yaml`, references,
retained containers and the saved nameserver in `state.json`, and the running command
with its locals. `BeginAdd`, `BeginRecheck`, `BeginRemove`, `BeginDestroy`,
`BeginUninstall` and `Initialise` are the preconditions of the commands; they lead through
the same steps as the code, one per external call or file write:

| Steps | Code |
|---|---|
| `CreateLxc` `Own` `Deploy` `Setup` `Record` `SyncTailnet` `PointResolver` | `provisionService`, `addService`, `recheckService`, `configureTailnet` |
| `RestoreDns` `StopLxc` `DestroyLxc` | `restoreTailnetDns`, `removeService`, `destroyService` |
| `Unsave` `Pick` `Forget` `RemoveConfig` `RemoveState` | `uninstall` |
| `SaveConfig` `SaveState` | `saveProject` at the end of a command |

`Accepted` says when Proxmox or Tailscale carries a call out (a stopped container
cannot be stopped again, a running one not destroyed, a container that does not run
answers nothing). A call that is not accepted is `Refused`; one that is can still fail
(`Fault`), before or after its effect. A failure ends the command, except that
`uninstall` goes on with its next target. `Crash` ends a command between any two steps.
`CreateForeign`, `Start` and `SetResolver` are other people.

`service recheck` takes its VMID from an address that is searched for as text in all
container configurations, so `BeginRecheck` may take any container that exists. Its checks
(`"check"`) ask the address for DNS, proxy and CA, and the container only for a VPN: some
container must run the service, not the one that is then recorded. A foreign container may run
anything (`Runs`). `count.mistaken` is a history variable, read by no action: the VMIDs that
a recheck took for a service whose container they did not hold.

Upper bounds on commands, faults, crashes, foreign containers and edits are the fields of
the constant `Bound`; in `Tracking`, those of edits, commands and crashes.

### DockerHosts

State: the containers of Proxmox (who made each, its address, how far it is set up), the
bindings of `nomina.yaml`, references and status of `state.json`, the VMIDs of platform
services, both locks, and the command of each process with its next step. A save is two
actions, `SaveConfig` (takes the write lock, replaces `nomina.yaml`) and `SaveState`, so
that a process can die in between.

| Steps | Code |
|---|---|
| `BeginCreate` `BeginConnect` `BeginRetry` | `createDockerHost`, `connectDockerHost`, `retryDockerHost` up to their first change |
| `SaveConfig` `SaveState` `SaveRefused` | `saveHost` |
| `Allocate` `Create` `Verify` `EnableFeatures` `StartLxc` `Install` `CheckHealth` | `setupCreatedHost` and the callbacks `onAllocated`, `onCreated` |
| `SelectForDisconnect` `BeginDisconnect` `Unbind` `Unreference` | `disconnectDockerHost`: the prompt comes before the lock |
| `BeginUninstall` `Reserve` `Destroy` `DestroyFails` `Incomplete` `DeleteProject` | `uninstall`, as far as containers are concerned |
| `BeginServiceAdd` `NextId` `Provision` `Record` | `service add`: asks Proxmox for a VMID, uses it later |

`Recover` is the catch of `setupCreatedHost`. `Fault` fails any call; `Crash` ends a process
at any step; `Remove` is an operator who destroys a container. Binding ids are never
drawn twice (`randomUUID`), VMIDs are: Proxmox gives the lowest free one, and another
process may take it first.

### Exposures, HostSsh, ProxyForwarding

A command is a list of calls still to make (`op.todo`). A call that decides what follows
puts its steps in its place (`Expand`), so that the list is always what the code would do
next. Each call belongs to a block, which stands for a `try` of the code: when a call fails,
`Failure` drops the rest of the block, or of the command, and puts the clean-up of the
`catch` and `finally` clauses there. A clean-up block that fails (`SoftBlocks`) is reported and
passed over. `Fault` fails an external call with nothing, a part (`Partial`) or all of its
effect; `Crash` leaves everything as it is.

The inventory holds exposures by name with label, protocol, port, whether the tailnet may
use them, and for SSH the login account. `Begin` is a command from the host's shell or over a managed
session; `Schedule` is `deferSshOperation`, and `Work` its worker, which looks at the project
again. `Login` and `Logout` are a user. Keys are numbered in the order in which they are made, so
"an old key returns" is a comparison.

`HostSsh` has one action per step of `host-ssh-adapter.js` (directory, record,
configuration, unit, key, authorization, daemon), `ProxyForwarding` per step of
`tcp-adapter.js` and `proxy-ssh-adapter.js`. Both leave the order to `Exposures`, which takes it
from `cli.js`, `tcp-exposure.js` and the adapters' own sequences.

### RouteRequest, CaddyRoutes, TraefikRoutes, WebRoutes

`CaddyRoutes` has the live configuration as servers with sequences of routes, because the
order decides which terminal route answers (`CaddyServes`, `CaddyDenies`), and the
Admin API as requests that replace one value each; `draft` is what the command has read and
is about to write. Lists are read as a whole and written as a whole. The migration takes
the routes of an older version's single server `srv0` over into `srv_https` and `srv_http`.
The dump writes `caddy.json`, which a restart loads.

`TraefikRoutes` has the files, what the running Traefik has loaded of them, and `trust`, the
locals of `configureCaTrust`. Fragments are reloaded some time after they change; the
resolver and the root only by a restart.

`WebRoutes` gives the order: `BeginPublish`, `BeginRemove`, `BeginSync` (everything
published again, guards before the advertisement to the tailnet) and `BeginRedirect`. A
request can fail with or without its effect; a command can die between two; Caddy or Traefik
can restart; an operator can add a route of his own anywhere (`Edit`); the dump that a
publication starts is not waited for (`DumpEnds`, `DumpFails`).

`kept` is what the program may rely on: the hostnames that a command has published and that a
dump has written down since, until a command removes them or a dump fails and leaves an empty
file. It is emptied, too, where the migration is not over (`Migrating`, `op.moving`): a failure or a
death after the deletion of `srv0`, or a dump that ends then, loses the routes that are
between two requests, and a restart of Caddy after `srv0` has been read leaves an `srv_https`
without a listener. See the departures.

## What the runs check

Each property is stated in its module with the behaviour it is about.

| Run | States | Question | Result |
|---|---|---|---|
| `lock` | 33 thousand | Three processes acquire, recover and release, die anywhere, and delete and re-create the project. Is the lock exclusive, does a holder always find its own record, is a live owner left alone, and do the system calls implement `LockService`? Is the invariant of the proofs one? | yes |
| `lock_live` | 20 thousand | Two processes, without `PromptRecovery`: a recovery can be overtaken by anything. Does every attempt end, and is a dead recorded owner removed in the end? | yes, if no process dies inside a recovery |
| `tracking` | 1.5 million | A pass against three commands of all kinds over two domains, and an edit. Is an update lost, does a removed exposure return, is a notice dropped unshown? | no |
| `tracking_converges` | 370 thousand | When edits and commands stop, does the inventory come to describe the served route? | yes, if nobody changes the kind of the route |
| `lifecycle` | 1.4 million | Six commands over DNS, proxy and gateway, one failing call, one foreign container that can take any freed VMID. Is it touched? Can the tailnet lose its nameserver without `--force`? | no, but for VMIDs that a recheck mistook |
| `lifecycle_crash` | 1.6 million | All four services with the internal CA, one crash, one failure, one edit of the tailnet's DNS. Is a gateway that serves the tailnet always recorded with what it replaced? Is a container forgotten only when it is gone? | yes, without `service remove` |
| `lifecycle_uninstall` | 290 thousand | Does an uninstall that is repeated get rid of the project? | yes, if the gateway can be asked for its address |
| `docker` | 160 thousand | Two processes give four commands over two VMIDs, and any number of retries, with a failing call, a crash and a container that an operator removes. Is a created container always recorded, set up only by its own binding, spared by uninstall and finished by retries? | yes |
| `exposures` | 400 thousand | Three commands over an SSH, a TCP and two web exposures that share a hostname, in two domains, from the shell, over a session or in a worker, and four events in all among commands, logins, a fault and a crash. Does access follow the record? Can the proxy's administration be lost or exposed? Does a command cut its caller off? Can a failed removal be repeated? | access does; no; no; yes, but for three states named below |
| `routes` | 360 thousand | Commands for two hostnames against a fresh Caddy, one with `srv0`, or Traefik with and without step-ca, disturbed by failures, deaths, restarts, operators and dumps. Does what was published stay served? Do guards, issuers and resolvers come first? | yes, with the exceptions that the properties name |
| `lifecycle_internal_ca` | | Are foreign containers safe when Caddy is also the CA? | violated |
| `routes_resolver` | | Is a resolver that a router names always known to the running Traefik? | violated |

**Bounds and why they are enough.** `lock`: three processes are needed for the
interesting races (one recovers, one acquires what was freed, one still acts on what it
read), and four tokens because a dead owner's record keeps one besides the three in use. The
theorems cover every number. `tracking`: one pass can hold two generations of an exposure,
which takes two ids; two backends and one target give every kind of change; three
commands allow remove - publish - changes during one inspection. More passes are covered by
the theorems, which hold for any set of trackers. `lifecycle*`: the longest dependency is DNS -
proxy - gateway, so three adds and three further commands; one more VMID than services,
so that a freed VMID can be taken by a foreign or by a new container. A failure or a crash
repeated within one command adds nothing, since the first ends it, except in `uninstall`,
which the run on uninstall gives two failures. `docker`: two processes suffice for every race
at a lock, since the third can only wait; one platform service and one Docker host compete
for two VMIDs, and two bindings let an ended one meet a new one in the same container. The
theorems cover every number. `exposures`: the hazards need one exposure of each protocol on
one hostname, a second account for a replaced daemon, and a second domain; three commands
are publish, disturb, remove; the limit on events keeps a fault and a crash together with
two commands, or one of them with three. Repeating what failed is not counted. `routes`: a
route of the command's own hostname and one of another; three commands are publish both,
then update or remove one; as with `exposures`, a disturbance takes the place of a command.

**Symmetry** is used only in runs without liveness properties, over sets whose members
are compared for equality alone.

**A view** leaves the history `count.mistaken` out of the states of `lifecycle_crash`
(`WithoutHistory`). No action reads it and neither property of that run mentions it, so states
that differ in it alone have the same future.

**Deadlock.** `ServiceLifecycle`, `DockerHosts`, `Exposures` and `WebRoutes` stop when their
bounds are used up, `ServiceLifecycle` also when the project is uninstalled; these configurations
switch the deadlock check off. The others keep it: in `ProjectLock` and `Tracking` something can
always happen.

**Fairness.** `ProjectLock`: a process that runs goes on making system calls (weak fairness
of `Step`); the deadline of five seconds passes (strong fairness of `GiveUp`, which is
possible again and again while a process polls). Nobody is obliged to begin a command
or to end the work it does under the lock. `Tracking`: passes are started for ever, because
every `nomina` command starts one and a timer may, and take their steps; a provider
answers some inspections and the lock is free for some commits (strong fairness of `Inspect`
and `TakeLock`), since the inspection and the commit retry and later passes repeat them; a
command that runs ends. Edits, commands and crashes are bounded and owe nothing.
`ServiceLifecycle`: a command that runs ends, and the user tries `uninstall` again.
`DockerHosts`: every call returns and every process goes on (weak fairness of `Step`); an operator
who has a pending host retries it, and gets the operation lock at some time, since no
process keeps it (strong fairness of `BeginRetry`). `Exposures`: a command runs on and ends,
the timer starts the worker (weak fairness of `Run`, `End`, `Work`), and the user gives a
command that failed again whenever nothing else runs (strong fairness of `Repeat`).
`WebRoutes` has safety properties only and states none.

## What is proved

`ProjectLockProofs`, for any processes, tokens and crash points, under `PromptRecovery`:

- `Inductive`: `Spec => []IInv`, on which the others rest;
- `TypeCorrectness`, `LockIsExclusive`, `ReleaseFindsOwnLock`: `Spec => []` of `TypeOK`,
  `MutualExclusion` and `HolderOwnsLock`;
- `LiveOwners`: `Spec => LiveOwnersUntouched`;
- `Refinement`: `Spec => Service!Spec`, that is, `LockService` under the mapping `Holder`.

`MutualExclusion` is not inductive: whether `rename` or `unlink` removes the right lock
depends on what was read before. `IInv` adds what the code relies on: what each position
inside the lock says about the directory (`InsideInv`); tokens belong to one process and
an uninstaller finds its own in no later lock (`TokenInv`); only the owner of the guard recovers
(`GuardInv`); a recovery past the probe faces the record of the dead process it read
(`RecoveryInv`, the only part that needs `PromptRecovery`). The proof treats actions in
groups: acquire, recover, release, project, environment. The refinement takes `IInv` as
given: initial states map to initial states, and each group maps to a step of `LockService` or
to a stutter.

`TrackingProofs`, for any number of passes, domains, ids, backends, edits, commands
and crashes and without further assumptions:

- `TypeCorrectness` and `UpdatesAreSerialised`: `TypeOK` and `NoLostUpdate`, whose
  conjunction is inductive. Lemmas on the operators (`FoundType`, `MergeType`,
  `SavedStateType`, ...) carry the types through a pass;
- `RemovalIsFinal`: `Spec => RemovedStaysRemoved`, because a merge keeps the id of what is on
  disk (`IdKept`);
- `NoticesReachTheUser`: `Spec => UnshownNoticesKept`, because by `NoLostUpdate` a command
  clears exactly the notices it has loaded (`NoticeKept`).

`DockerHostsProofs`, for any number of processes, bindings, names, addresses, VMIDs, commands,
faults, crashes and removals:

- `TypeCorrectness`, `RecordedBeforeCreated`, `EndedForGood`, `HealthIsEarned`: `Spec => []` of
  `TypeOK`, `CreatedIsRecorded`, `EndedStaysEnded` and `HealthyIsInstalled`;
- `SparesDocker`: `Spec => UninstallSparesDocker`;
- `SetupIsOwners`: `Spec => SetupTouchesOwn`.

None of these is inductive: each depends on what processes half-way through a command are about to
write. `IInv` says of each process what its place in the code owes: the command that
comes to this place (`PlaceOK`); that it holds the operation lock if it changes bindings
(`LockOK`); that the binding at work has no container but the one at work, and that this
VMID is saved before `pct create` (`WorkOK`); that "healthy" is saved only after the last check
(`StatusOK`); that nothing is left of a binding whose reference is about to be deleted
(`ForgetOK`); that the targets of an uninstall are referred to by no binding (`TargetsOK`).
The frame is one lemma, `Others`: who does not hold the operation lock leaves the files and the
containers of bindings as they are, and who holds it is alone with what `LockOK` protects.
`HealthyOK` is stronger than the checked property, because it also speaks of the moment between
the two file replacements. `SetupTouchesOwn` needs one invariant more, `Owned`, which follows the
VMID at work: the reference of the binding is that VMID or missing, no other binding refers to it
when it is used, and an address that `docker create` has chosen tells the binding's container from
any other. The steps of processes without the operation lock disturb none of this (`Aside`).

`ServiceLifecycleProofs`, for any services, VMIDs, commands, failing calls, crashes, foreign
containers and changes of the tailnet's DNS by operators:

- `TypeCorrectness`, `TailnetCanBeTakenBack`: `Spec => []` of `TypeOK` and `GatewayIsRecoverable`,
  for every value of the constants;
- `RecordsSurvive`: `Spec => RecordedUntilDestroyed`, where `service remove` is not run;
- `UnmanagedContainersUntouched`, `OnlyForceLosesNameserver`: `Spec => ForeignUntouched` and
  `Spec => OnlyForceStrandsTailnet`, without crashes and without the internal CA. Both properties
  except VMIDs that a recheck mistook, since `recheck` may find any container.

Three inductive invariants: `IInv`, and two that extend it. `IInv` adds to the two properties which
command comes to which call (`PlaceOK`), and that no command that is about to drop or to change the
records of the gateway leaves it as the tailnet's nameserver (`ResolverOK`): `restoreTailnetDns`
comes before every such write, and `recordTailscaleDns` before `configureTailnet`. `NInv` adds
that what exists is recorded or in the hand of the command that is about to destroy and
forget it (`RecordsOK`). `LInv` adds that a recorded VMID is a container of that
service, or one that a recheck took for it (`LinksOK`), and that so is every VMID at which a command
or an uninstall aims. The hypotheses are exactly the cases in which the program departs from these
properties (below): `service remove` overwrites an older retained container, the internal CA
shares the container of Caddy, and after a crash between a destruction and the write that forgets
it the VMID may belong to somebody else.

`ExposuresCalls`, `ExposuresProofs` and `ServedProofs`, one upon the other, for any finite set of names and any
hostnames, ports, accounts, exposures, commands that are given over a session, logins, faults and
crashes. The one assumption about what users publish is the code's own: only host SSH has port 22,
and it has an account (`SshHasItsPort`, `tcp-adapter.js:25`).

- `InductiveExposures`: `Spec => []IInv`, on which the others rest;
- `TypeCorrectness`, `AdminIsRestorable`, `AdminIsNeverExposed`, `WorkersReport`: `Spec => []` of
  `TypeOK`, `AdminRestorable`, `AdminNeverExposed` and `WorkerReports`;
- `OldKeysNeverReturn`: `Spec => KeysNeverReturn`;
- `NoAccessIsUnrecorded`: `Spec => []NoUnrecordedAccess`;
- `CallersSurvive`: `Spec => CallerSurvives`, if redirections and the addition of the gateway are not
  given over a session. For these two it does not hold (see the departures);
- `RecordedIsServed`: `Spec => []ExposuresServed`.

Whether a call is safe depends on the calls before it: the proxy's sshd is stopped because its state
has been saved, a gateway's port is opened because something else listens on it. And any call may be
followed by a clean-up instead of the next call. So `IInv` is a statement about `op.todo`. `Follows`
says which call comes only right after which, within a block and about one name; `Later` that a
command installs one key. `TodoOK` says both of the whole list, and `ReadyOK` what the next call finds
(`ReadyAdmin` about the proxy and the gateway, `ReadyKeys` about the host's keys). `ExposuresCalls`
shows that each list of the code is ordered in this way: the commands, what `Expand` puts in the
place of a call, and what `Failure` leaves of a list. The steps then need, for each call,
only that it lays the ground for those that may follow it (`Follows`), and that what is not affected
stays (`HostEffect`, `ProxyEffect`). `AdminOK` and `KeysOK` are the two properties about
the proxy's sshd and the keys, with what makes them inductive.

`NoUnrecordedAccess` relates two places that different calls change, at moments far apart: the host's
`authorized_keys` and `nomina.yaml`. `JInv`, which rests on `IInv`, says who answers for a key
while nothing records it. Only a publication of host SSH, an activation and a replacement come to a
call that authorizes (`OpenOK`), the last two only where host SSH is recorded (`PlanOK`). After
it, either all that is left of the publication is its `try` block and the record at the end
(`Publishing`), or `revoke-keys` is ahead, behind nothing but calls that undo a forwarding and carry on
when they fail (`Revoking`). A removal revokes before it forgets (`RemoveOK`). A call has one of
three shapes (`GoesOn`): it goes, alone or with the rest of a block that fails softly (`Drops`); it
fails and leaves its clean-up (`RollsBack`); or it stands for others (`Expands`). The
proof shows for each shape that it preserves `JInv`, and for each call which shape it has. That no
process died is part of the property: a crash between `authorize` and `save` leaves such a key.

`CallerSurvives` holds because a command that runs in a session has no call about host SSH ahead of
it until its end (`SessionOK`): `Defers` hands over those that have, and neither what a call
stands for nor a roll-back brings one in, since these are about the exposure that the call is
about (`Gentle`), which has another port than 22.

`ExposuresServed` is about the end of commands: what nomina.yaml records is served. Within a
command much of it is not, so the invariant says what is still to come. `CalmInv` speaks of a world in which
nothing has failed or died (the property does, too), and has three parts. `Sound` holds at any time:
names have slots of their own, and a forwarding's record, unit and listener belong together.
`AtRest` holds between commands: every exposure is served, nothing else is forwarded, and the host's
daemon serves the accounts that are recorded. `UnderWay` holds within a command:

- `Listed`: the calls ahead come from those that the command may make (`Menu`), each followed by the
  one that always follows it (`Joined`), and in the phases of the code: a domain change withdraws
  everything before it publishes, streams are published after the gateway has started, and a
  publication checks before it changes (`Phased`);
- `PlanReady`: no check ahead refuses, but for those of a publication, at its beginning;
- `NetReady`: each exposure of the plan is served, or in the hands of the call at the head, or still to
  be published; and each forwarding that the plan does not know is still to be removed;
- `UnitReady`, `HostReady`, `KeysReady`: what the next call needs from the proxy and from the daemon,
  so that it has no reason to fail.

`ExposuresProofs` shows for each call that it leaves this to the rest of the list, where a compound call
leaves the calls that it stands for. `ServedProofs` shows it of the lists that commands begin with, for
any set of names (`Begun`, `Started`), of the calls that make the keys anew, and that a last call,
which is one of `Finals`, leaves `AtRest`. A refusal ends a command as it began, because all that may
refuse comes before the first change (`MayRefuse`).

`WebRoutesProofs`, for any hostnames and commands over them, failures, deaths,
restarts, edits and dumps, and for either reverse proxy:

- `TypeCorrectness`, `NamedResolversAreLoaded`, `KeptStayServed`: `Spec => []` of `TypeOK`,
  `ResolverKnown` and `KeptAreServed`;
- `IssuersComeFirst`, `GuardsComeFirst`: `Spec => IssuerFirst` and `Spec => GuardedBeforeAdvertised`.

A command is a list of requests, so the invariants speak of the list again. `Basics` says which
request comes only after which (`Ordered`, `Linked`, `Follows`), that the requests
are those of the command at hand (`CommandOK`, `Possible`), and that configurations and drafts
have the shape that Caddy gives them (`ConfigOK`, `DraftOK`). `TrustOK` adds where the locals of
`configureCaTrust` stand against what the running Traefik has loaded. `ServeOK` carries
`KeptAreServed`: what is relied on is reached in the live configuration (`Arranged`), in the draft
that is about to replace a part of it (`Drafted`), and in what a restart would load (`Restored`).
A list is read at one request and written at a later one, so the issuer that a route needs may be in
what was read and not yet in what is written (`NextIssuers`). `GuardOK` says of every exposure of
a command that is about to advertise the gateway that it has been checked or still will be
(`Awaited`), and that what has been checked stays denied in every draft (`Trusted`).

Assumptions on constants are named in the modules (sentinels differ from values, bounds
are numbers, an inventory is finite, there is a domain).

The lemmas on sequences, least numbers and finite sets stand at the head of `ExposuresCalls`, and once
more at that of `WebRoutesProofs`, which has other variables.

Only model-checked: everything with fairness (`AcquireEnds`, `DeadOwnersRecovered`,
`ProviderWins`, `UninstallCompletes`, `RetriesComplete`, `RemovalsComplete`), which is out of
the prover's reach. Every other property of a passing run is
stated by a theorem.

## Where the program departs from its documents

Two runs are expected to fail, because a comment or the changelog says one thing and the code
does another:

- `lifecycle_internal_ca`: the reference of Caddy's internal CA repeats Caddy's
  VMID. `service destroy` of Caddy leaves it behind, and an uninstall takes the VMID for one of
  its own, whoever has it by then.
- `routes_resolver`: `configureCaTrust` restarts Traefik only when this very call has changed a
  file. When the restart fails, or `nomina` dies before it, the next publication finds the file
  as it should be and lets the router name a resolver that the running Traefik never loaded.
  `ResolverKnown`, which passes, makes an exception for exactly this.

The others show when a configuration is changed a little, or by reading the actions.

**Lock and tracking**

- In `MCProjectLock.cfg`, `PromptRecovery = FALSE` violates `LiveOwnersUntouched`: the rename takes
  whatever lock is there. A process id that is reused, or an uninstall followed by an init,
  between probe and rename costs a live owner its lock.
- In `MCProjectLockLive.cfg`, `CrashPoints <- AnyPoint` violates `DeadOwnersRecovered`: a
  process that dies inside a recovery leaves the guard, which nothing removes.
- In `MCTrackingConverges.cfg`, `KeepKind = FALSE` violates `ProviderWins`: when a proxied route
  becomes a redirect or the reverse, the pass deletes the stale key from its copy of the
  exposure, and the merge (`adoption.js:252`) keeps it. The next republish sends both and the
  redirect wins, against `CHANGELOG.md:141-142`.
- A pass that inspected before a change of domain writes the old hostname back when it commits
  after it: the merge prefers every key that was observed. No property checks the hostname.
- `nomina changes` clears notices before they are printed.

**Platform services**

- `service destroy` of a retained service begins with `pct stop` (`cli.js:1367`), which refuses a
  stopped container, and does not catch the error. `test/service-lifecycle.test.js:285-296`
  expects remove - destroy to work; its adapter accepts a second stop.
- `uninstall` restores the tailnet's DNS through the gateway before anything else
  (`cli.js:2021`). In `MCServiceLifecycleUninstall.cfg`, `"destroy"` among the calls that may
  fail violates `UninstallCompletes`: a gateway that the previous attempt stopped but could
  not destroy answers nothing, so no further attempt gets past this step.
- In `MCServiceLifecycleCrash.cfg`, adding `"remove"` to `Command` violates
  `RecordedUntilDestroyed`: `retainedServices` has one entry per service, and a service that
  is removed, added and removed again overwrites the first. `service destroy` of a service with
  an active and a retained container deletes both records and destroys one container.
- In `MCServiceLifecycle.cfg`, a `Bound` with a crash violates `ForeignUntouched`: a crash between
  the destruction of a container and the write that forgets it leaves a VMID that the next
  uninstall takes for its own.
- `service recheck --ip` takes the first container whose line in `pct list` or whose configuration
  contains the address as text (`cli.js:1463-1469`, `adapter-runtime.js:291,306`): 10.0.0.5 is found
  in 10.0.0.53, and in a nameserver or gateway line. For DNS, proxy and CA the health check and the
  inspection ask the address alone (`technitium-adapter.js:223-229`), so they succeed although the
  VMID is that of a foreign container or of another service. It is recorded, and a later
  `destroy`, `remove` or `uninstall` stops or destroys that container, against `CHANGELOG.md`, 1.4.3:
  "unmanaged containers are never touched". If it is the gateway's, `service destroy` without
  `--force` strands the tailnet, because only the service `tailscale` is restored
  (`cli.js:1354`). For `tailscale`, the VMID is recorded before anything is asked, and a second
  recheck installs the client in whatever container it is. In `MCServiceLifecycle.cfg`,
  `ForeignUntouched` and `OnlyForceStrandsTailnet` are violated without their exception for
  `count.mistaken`.
- A container other than a gateway is recorded only at the end of `service add`, so a failed
  setup leaves a container that no record names.

**Docker hosts**

- Between the answer of `nextid` and `pct create` another command may take the VMID
  (`adapter-runtime.js:346`). The binding then refers to a foreign container; retries refuse it,
  because the address differs, and an uninstall spares it although it is a platform service.

**TCP and SSH exposures** (a name in parentheses is the exception that `RemovalsComplete` makes)

- A TCP publication that failed after its DNS record was written (`tcp-exposure.js:76`) or after a
  part of its units was (`tcp-adapter.js:157`) is refused when it is given again.
- A crash while host SSH is enabled, between `mkdir` and `record.json`, or between configuration
  and record when the account changes, blocks enabling it.
- A crash in a first SSH publication after its DNS record was published, or in its clean-up between
  the removal of the units and the closing of the gateway's port, leaves that record or port.
- A domain change that fails half way makes removals refuse forwardings of the other domain
  (`tcp-adapter.js:240`) until the change is given again (`HalfChanged`).
- The restoration of the proxy's sshd cannot be repeated when it failed after that sshd had started
  on port 22 (`proxy-ssh-adapter.js:91-106`), because the port is then taken (`AdminHalfRestored`).
- The uninstallation of host SSH cannot be repeated when `daemon-reload` failed after the unit was
  removed (`host-ssh-adapter.js:383-386`), because ownership is checked against the unit; the
  program's `README.md:271-275` describes an uninstall that can be retried (`HostHalfRemoved`).
- A session that is open when its access is removed survives if the daemon has died before
  (`host-ssh-adapter.js:229-236`); `docs/adr/0042-isolate-host-ssh-access.md:8` says sessions end.
- `caddy redirect` and `service add tailscale` install SSH forwardings again and are not handed over
  to a worker (`cli.js:949` and `1855-1904`), although `docs/host-ssh.md:95` says that what
  disconnects its own session is. With `"redirect"` in `MCInline`, `CallerSurvives` is
  violated; the run leaves both out of the commands that are given over a session.

**Reverse proxies**

- A failure or a crash of the migration between the deletion of `srv0` and the requests that
  re-create its routes (`caddy-adapter.js:364`) loses them until they are published again; a dump
  of the previous command that runs late can catch this moment and make it permanent.
- A removal that failed half way and is repeated leaves the redirect or the denial of
  `srv_http` for ever (`caddy-adapter.js:172-193`), since it looks for what is left in
  `srv_https` only.
- The dump truncates `caddy.json` and is not awaited (`cli.js:1617`). When it fails, the next restart of
  Caddy has forgotten every route.
- Route lists are replaced as a whole (`caddy-adapter.js:405-422`); an edit between read and write is
  lost.
- A restart of Caddy in the middle of a command can leave an `srv_https` with routes and no
  listener, which `healthCheckExposure` calls healthy.
- An update that fails leaves its new rule for the tailnet live, while the inventory has the old one.

## What is not modelled

- Text: YAML, JSON, command lines, Caddy and Traefik configuration, DNS zone syntax.
  A round trip through the files is taken to be the identity on the data that is modelled.
- Adapters of Technitium, step-ca, NetBird beyond success, failure and effect; the scripts that
  are installed in containers.
- `service upgrade`, which changes nothing that is recorded; adoption of DNS records,
  deployments and TCP forwards, which go through the same commit as routes.
- The second tailnet setting (override of local DNS).
- In `DockerHosts`: templates, resources, sockets other than the default one and prompts, which can
  end an operation only before its first change; `doctor` and `refresh`, which record nothing.
- In `Exposures`: backends (a publication that changes only its backend is one that changes nothing);
  unmanaged units, listeners and firewall rules of operators, which a preflight can
  only refuse; the SMB checks; file modes and drop-ins of the host's daemon. A domain change
  withdraws a shared hostname's record once in the code and once per exposure in the model, with
  the same result.
- In `WebRoutes`: GET requests that follow one another without a write between are one step;
  hostnames that conflict with an operator's routes, the refusal of fragments that were edited, and
  the verification of issued certificates (`traefik-adapter.js:816-880`) are left out, as they
  change nothing; the address of the gateway, which a denial needs, is assumed to be recorded; a
  second dump is assumed to start when the first has ended.
- `withBoundedRetry` and `withHealthyRetry`: to the modules the repetitions are one call that fails
  or does not.
- TUI, secrets, installers, Docker discovery: I/O without shared state.

## Plan

Done: `ProjectLock` with `LockService` and proofs, `Tracking` with proofs,
`ServiceLifecycle` with proofs, `DockerHosts` with proofs, `Exposures` with `HostSsh` and
`ProxyForwarding` and proofs, `WebRoutes` with `CaddyRoutes` and `TraefikRoutes` and proofs.

Next, models: the tailnet's nameservers and override preference as two settings that are written one
after the other; adoption of DNS records and TCP forwards; the wiring of step-ca into exposures that
exist already.
