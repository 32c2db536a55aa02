----------------------------- MODULE Tracking -----------------------------
(***************************************************************************)
(* Background tracking of one web exposure: src/src/tracking.js and the    *)
(* proxy part of runAdoptionPass in src/src/adoption.js, together with the *)
(* foreground commands and the direct edits it races with.                 *)
(*                                                                         *)
(* A tracking pass reads the project without a lock, inspects the route in *)
(* the reverse proxy, and then takes the write lock, reloads the project   *)
(* and merges what it found into it.  A foreground command holds the write *)
(* lock from before it loads the project until it has written it.  An      *)
(* administrator edits routes in the proxy itself at any time.             *)
(*                                                                         *)
(* The write lock is LockService of module LockService: here a variable    *)
(* that a dying process leaves free, because the next process recovers it. *)
(***************************************************************************)
EXTENDS Naturals, FiniteSets

CONSTANTS
  Tracker,        \* background passes that can run at the same time
  Domain,         \* local domains: the exposure's hostname is determined by one
  Id,             \* inventory ids of exposures
  Backend,        \* backend addresses
  Target,         \* redirect targets
  Absent,         \* a key that an exposure record or a store does not have
  Command,        \* the foreground commands that are run
  Bound,          \* [edits, commands, crashes]: how many of each there are
  KeepKind        \* TRUE: nobody turns a proxied route into a redirect or back

VARIABLES
  config,    \* nomina.yaml: the local domain and the exposure of the service
  state,     \* state.json: the exposure's provider reference and the notices
  routes,    \* the route the proxy serves for the hostname under each domain
  lock,      \* who holds the write lock
  pass,      \* what each tracking pass does next and what it has read
  command,   \* the same for the foreground command
  count      \* how many edits, commands and crashes there have been

vars == <<config, state, routes, lock, pass, command, count>>

ASSUME LockHoldersDistinct == "free" \notin Tracker /\ "foreground" \notin Tracker
ASSUME CommandsKnown == Command \subseteq {"publish", "remove", "domain", "changes"}
ASSUME BoundsAreNat == Bound \in [edits : Nat, commands : Nat, crashes : Nat]
ASSUME KeepKindIsBoolean == KeepKind \in BOOLEAN

-----------------------------------------------------------------------------
(* Routes, exposures and files *)

\* A route proxies to a backend or redirects to a target.
Route == {r \in [backend : Backend \cup {Absent}, redirect : Target \cup {Absent},
                 tailnet : BOOLEAN] : (r.backend = Absent) # (r.redirect = Absent)}

\* The inventory can hold both keys: nothing in its format forbids it.  The
\* "after" of a change can lack both.
Partial == [id : Id, domain : Domain, backend : Backend \cup {Absent},
            redirect : Target \cup {Absent}, tailnet : BOOLEAN]
Exposure == {e \in Partial : e.backend # Absent \/ e.redirect # Absent}

Notice == {"exposure", "reference", "warning"}

Config == [domain : Domain, exposure : Exposure \cup {Absent}]
State == [ref : [Id -> Route \cup {Absent}], notices : SUBSET Notice]

ASSUME AbsentIsNoValue ==
  Absent \notin Backend \cup Target \cup Id \cup Route \cup Partial \cup Config \cup State

IsRedirect(r) == r.redirect # Absent

SameKind(q, r) == IsRedirect(q) = IsRedirect(r)

\* A fault: the proxy is given both fields.
RouteWithBoth(e) == [backend |-> e.backend, redirect |-> e.redirect, tailnet |-> e.tailnet]

\* A republish sends both fields to the proxy, which prefers the redirect.
RouteOf(e) == [backend |-> IF IsRedirect(e) THEN Absent ELSE e.backend,
               redirect |-> e.redirect, tailnet |-> e.tailnet]

\* publishManagedExposure records the requested route, whole.
ExposureOf(id, d, r) == [id |-> id, domain |-> d, backend |-> r.backend,
                         redirect |-> r.redirect, tailnet |-> r.tailnet]

-----------------------------------------------------------------------------
(* Changes between an exposure e of the inventory and a route r *)

BackendChanged(e, r) == r.backend # Absent /\ r.backend # e.backend

\* A route type change, a stale backend beside a redirect, or another target.
RedirectChanged(e, r) == \/ r.redirect # e.redirect
                         \/ IsRedirect(r) /\ e.backend # Absent

TailnetChanged(e, r) == r.tailnet # e.tailnet

\* The tailnet setting is adopted only from a route that serves.
AdoptedTailnet(e, r, healthy) == IF healthy THEN r.tailnet ELSE e.tailnet

\* The "after" of each kind of change is a whole copy of e, with the stale key
\* deleted from it.
AfterRedirect(e, r, healthy) ==
  [e EXCEPT !.redirect = r.redirect,
            !.backend = IF IsRedirect(r) THEN Absent ELSE @,
            !.tailnet = AdoptedTailnet(e, r, healthy)]

AfterBackend(e, r, healthy) ==
  [e EXCEPT !.backend = r.backend,
            !.redirect = IF IsRedirect(r) THEN @ ELSE Absent,
            !.tailnet = AdoptedTailnet(e, r, healthy)]

AfterTailnet(e, r) == [e EXCEPT !.tailnet = r.tailnet]

\* What a pass that saw route r reports, given what it read before.
NothingFound == [id |-> Absent, redirect |-> Absent, backend |-> Absent,
                 tailnet |-> Absent, ref |-> Absent, warned |-> FALSE]

Found(e, ref, r, healthy) ==
  LET other == RedirectChanged(e, r) \/ BackendChanged(e, r)
      checked == other \/ TailnetChanged(e, r) \/ ref # r
  IN [id |-> e.id,
      redirect |-> IF RedirectChanged(e, r) THEN AfterRedirect(e, r, healthy) ELSE Absent,
      backend  |-> IF BackendChanged(e, r) THEN AfterBackend(e, r, healthy) ELSE Absent,
      tailnet  |-> IF TailnetChanged(e, r) /\ healthy /\ ~other
                   THEN AfterTailnet(e, r) ELSE Absent,
      ref      |-> IF ref # r THEN r ELSE Absent,
      warned   |-> checked /\ ~healthy]

\* Faults that a property below exists to catch; Spec does not use them.  The
\* merge adds a service it does not find, or prefers what is configured to what
\* was observed.
MergeUpserts(e, after) == IF after = Absent THEN e ELSE after

MergeKeepsConfigured(e, after) ==
  IF after = Absent \/ e = Absent THEN e
  ELSE IF e.id # after.id THEN e
  ELSE [after EXCEPT !.backend = IF e.backend = Absent THEN @ ELSE e.backend]

\* adoptServiceExposure: {...service.exposure, ...after} for the service with
\* the id of the change; a key that "after" lacks keeps its current value.
Merge(e, after) ==
  IF after = Absent \/ e = Absent THEN e
  ELSE IF e.id # after.id THEN e
  ELSE [after EXCEPT
          !.backend = IF after.backend = Absent THEN e.backend ELSE @,
          !.redirect = IF after.redirect = Absent THEN e.redirect ELSE @]

Adopt(e, found) == Merge(Merge(Merge(e, found.redirect), found.backend), found.tailnet)

NoticesOf(found) ==
  {n \in Notice :
     \/ n = "exposure" /\ \E k \in {"redirect", "backend", "tailnet"} : found[k] # Absent
     \/ n = "reference" /\ found.ref # Absent
     \/ n = "warning" /\ found.warned}

-----------------------------------------------------------------------------
Free == "free"
Foreground == "foreground"

Idle == [at |-> "idle", config |-> Absent, state |-> Absent, found |-> NothingFound]

NoCommand == [at |-> "idle", kind |-> "none", config |-> Absent, state |-> Absent,
              goal |-> Absent, ref |-> Absent]

Init == /\ config \in [domain : Domain, exposure : {Absent}]
        /\ state = [ref |-> [i \in Id |-> Absent], notices |-> {}]
        /\ routes = [d \in Domain |-> Absent]
        /\ lock = Free
        /\ pass = [t \in Tracker |-> Idle]
        /\ command = NoCommand
        /\ count = [edits |-> 0, commands |-> 0, crashes |-> 0]

-----------------------------------------------------------------------------
(* A tracking pass: runTrackingJob *)

SetPass(t, from, new) == pass[t].at = from /\ pass' = [pass EXCEPT ![t] = new]

\* A fault: the commit does not wait for the lock.
CommitWithoutLock(t) == /\ SetPass(t, "wait",
                             [pass[t] EXCEPT !.at = "commit", !.config = config, !.state = state])
                        /\ lock' = t
                        /\ UNCHANGED <<config, state, routes, command, count>>

\* loadProject reads nomina.yaml, then state.json, without a lock.
ReadConfig(t) == /\ SetPass(t, "idle", [Idle EXCEPT !.at = "read", !.config = config])
                 /\ UNCHANGED <<config, state, routes, lock, command, count>>

ReadState(t) == /\ SetPass(t, "read", [pass[t] EXCEPT !.at = "inspect", !.state = state])
                /\ UNCHANGED <<config, state, routes, lock, command, count>>

\* A pass that found something waits for the lock; any other one ends.
EndInspection(t, found) ==
  /\ SetPass(t, "inspect",
       IF NoticesOf(found) = {} THEN Idle
       ELSE [Idle EXCEPT !.at = "wait", !.found = found])
  /\ UNCHANGED <<config, state, routes, lock, command, count>>

\* The health check may pass or fail, and the provider may refuse to adopt
\* the identity of the route, whatever else was found.
Inspect(t) ==
  LET e == pass[t].config.exposure IN
  /\ pass[t].at = "inspect"
  /\ e # Absent
  /\ routes[e.domain] # Absent
  /\ \E healthy, refused \in BOOLEAN :
       LET found == Found(e, pass[t].state.ref[e.id], routes[e.domain], healthy) IN
       EndInspection(t, IF refused /\ found.ref # Absent
                        THEN [found EXCEPT !.ref = Absent, !.warned = TRUE] ELSE found)

\* No exposure to inspect.
NothingToInspect(t) == /\ pass[t].at = "inspect"
                       /\ pass[t].config.exposure = Absent
                       /\ EndInspection(t, NothingFound)

\* The route is missing, or the provider cannot be inspected within the retries.
InspectFails(t) == /\ pass[t].at = "inspect"
                   /\ pass[t].config.exposure # Absent
                   /\ EndInspection(t, [NothingFound EXCEPT !.warned = TRUE])

\* updateProject takes the write lock and loads the project again.
TakeLock(t) == /\ lock = Free
               /\ SetPass(t, "wait",
                    [pass[t] EXCEPT !.at = "commit", !.config = config, !.state = state])
               /\ lock' = t
               /\ UNCHANGED <<config, state, routes, command, count>>

\* The project stays busy for all of the retries: the results are lost.
GiveUp(t) == /\ lock # Free
             /\ SetPass(t, "wait", Idle)
             /\ UNCHANGED <<config, state, routes, lock, command, count>>

\* The first of the two atomic file replacements.
CommitConfig(t) ==
  /\ SetPass(t, "commit", [pass[t] EXCEPT !.at = "save"])
  /\ config' = [pass[t].config EXCEPT !.exposure = Adopt(@, pass[t].found)]
  /\ UNCHANGED <<state, routes, lock, command, count>>

\* A fault: the notices of earlier passes are overwritten.
SavedStateReplaces(saved, found) ==
  [ref |-> IF found.ref = Absent THEN saved.ref
           ELSE [saved.ref EXCEPT ![found.id] = found.ref],
   notices |-> NoticesOf(found)]

\* applyProviderReferenceChange, and the notices, into the second one.
SavedState(saved, found) ==
  [ref |-> IF found.ref = Absent THEN saved.ref
           ELSE [saved.ref EXCEPT ![found.id] = found.ref],
   notices |-> saved.notices \cup NoticesOf(found)]

CommitState(t) == /\ SetPass(t, "save", Idle)
                  /\ state' = SavedState(pass[t].state, pass[t].found)
                  /\ lock' = Free
                  /\ UNCHANGED <<config, routes, command, count>>

-----------------------------------------------------------------------------
(* A foreground command: runCli, publishExposure, removeService,           *)
(* changeBaseDomain and showChanges *)

SetCommand(from, new) == command.at = from /\ command' = new

\* An id that nothing in the project or in a running pass refers to.
FreshIds == {i \in Id : /\ state.ref[i] = Absent
                        /\ \A t \in Tracker :
                             /\ pass[t].found.id # i
                             /\ pass[t].config # Absent /\ pass[t].config.exposure # Absent
                                  => pass[t].config.exposure.id # i}

\* What nomina.yaml will be when the command has succeeded.
Goals(kind) ==
  LET e == config.exposure IN
  CASE kind = "publish" ->
         {[config EXCEPT !.exposure = ExposureOf(id, d, r)] :
            id \in IF e = Absent THEN FreshIds ELSE {e.id},
            d \in {IF e = Absent THEN config.domain ELSE e.domain},
            r \in {r \in Route : KeepKind /\ e # Absent => SameKind(e, r)}}
    [] kind = "remove" -> IF e = Absent THEN {} ELSE {[config EXCEPT !.exposure = Absent]}
    [] kind = "domain" ->
         {[domain |-> d,
           exposure |-> IF e = Absent \/ e.domain # config.domain THEN e
                        ELSE [e EXCEPT !.domain = d]] : d \in Domain \ {config.domain}}
    [] kind = "changes" -> {config}

\* The command waits for the write lock and loads the project under it.
Begin(kind) ==
  /\ lock = Free
  /\ count.commands < Bound.commands
  /\ \E goal \in Goals(kind) :
       SetCommand("idle", [NoCommand EXCEPT
         !.kind = kind, !.goal = goal, !.config = config, !.state = state,
         !.at = IF kind = "changes" THEN "state"
                ELSE IF kind = "publish" THEN "deploy"
                ELSE IF config.exposure = Absent THEN "config" ELSE "withdraw"])
  /\ lock' = Foreground
  /\ count' = [count EXCEPT !.commands = @ + 1]
  /\ UNCHANGED <<config, state, routes, pass>>

\* unpublishRoute for the old hostname.  A domain change goes on when it fails.
Withdraw ==
  /\ SetCommand("withdraw", [command EXCEPT
       !.at = IF command.goal.exposure = Absent THEN "config" ELSE "deploy"])
  /\ \/ routes' = [routes EXCEPT ![command.config.exposure.domain] = Absent]
     \/ command.kind = "domain" /\ UNCHANGED routes
  /\ UNCHANGED <<config, state, lock, pass, count>>

\* publishRoute for the new exposure.
Deploy ==
  LET e == command.goal.exposure IN
  /\ SetCommand("deploy", [command EXCEPT !.at = "observe"])
  /\ routes' = [routes EXCEPT ![e.domain] = RouteOf(e)]
  /\ UNCHANGED <<config, state, lock, pass, count>>

\* The identity of the route is read back from the provider.
Observe ==
  /\ SetCommand("observe", [command EXCEPT
       !.at = "config", !.ref = routes[command.goal.exposure.domain]])
  /\ UNCHANGED <<config, state, routes, lock, pass, count>>

SaveConfig == /\ SetCommand("config", [command EXCEPT !.at = "state"])
              /\ config' = command.goal
              /\ UNCHANGED <<state, routes, lock, pass, count>>

\* providerReferences of the published or the removed exposure; changes clears
\* the notices it is about to print.
SaveState ==
  LET old == command.config.exposure
      new == command.goal.exposure
  IN
  /\ SetCommand("state", NoCommand)
  /\ state' =
       CASE command.kind = "changes" -> [command.state EXCEPT !.notices = {}]
         [] command.kind # "changes" /\ new # Absent ->
              [command.state EXCEPT !.ref[new.id] = command.ref]
         [] command.kind # "changes" /\ new = Absent /\ old # Absent ->
              [command.state EXCEPT !.ref[old.id] = Absent]
         [] OTHER -> command.state
  /\ lock' = Free
  /\ UNCHANGED <<config, routes, pass, count>>

-----------------------------------------------------------------------------
(* The environment *)

\* A process dies, or an adapter throws: its lock is released or recovered.
Crash(t) == /\ pass[t].at # "idle"
            /\ count.crashes < Bound.crashes
            /\ pass' = [pass EXCEPT ![t] = Idle]
            /\ lock' = IF lock = t THEN Free ELSE lock
            /\ count' = [count EXCEPT !.crashes = @ + 1]
            /\ UNCHANGED <<config, state, routes, command>>

Interrupt == /\ command.at # "idle"
             /\ count.crashes < Bound.crashes
             /\ command' = NoCommand
             /\ lock' = Free
             /\ count' = [count EXCEPT !.crashes = @ + 1]
             /\ UNCHANGED <<config, state, routes, pass>>

\* A direct edit in the proxy.
Edit(d) == /\ routes[d] # Absent
           /\ count.edits < Bound.edits
           /\ \E r \in (Route \ {routes[d]}) \cup {Absent} :
                /\ KeepKind /\ r # Absent => SameKind(routes[d], r)
                /\ routes' = [routes EXCEPT ![d] = r]
           /\ count' = [count EXCEPT !.edits = @ + 1]
           /\ UNCHANGED <<config, state, lock, pass, command>>

-----------------------------------------------------------------------------
Track(t) == ReadConfig(t) \/ ReadState(t) \/ Inspect(t) \/ NothingToInspect(t)
              \/ InspectFails(t) \/ TakeLock(t) \/ GiveUp(t)
              \/ CommitConfig(t) \/ CommitState(t)

Run == Withdraw \/ Deploy \/ Observe \/ SaveConfig \/ SaveState

Next == \/ \E t \in Tracker : Track(t) \/ Crash(t)
        \/ \E kind \in Command : Begin(kind)
        \/ Run
        \/ Interrupt
        \/ \E d \in Domain : Edit(d)

Spec == Init /\ [][Next]_vars

\* Every nomina command starts a pass, and nomina keeps being used; a provider
\* is not unreachable for ever, and the project is not busy for ever.
Fairness == /\ \A t \in Tracker : /\ WF_vars(Track(t))
                                  /\ SF_vars(Inspect(t))
                                  /\ SF_vars(TakeLock(t))
            /\ WF_vars(Run)

FairSpec == Spec /\ Fairness

-----------------------------------------------------------------------------
(* Properties *)

Change == [id : Id \cup {Absent}, redirect : Partial \cup {Absent},
           backend : Partial \cup {Absent}, tailnet : Partial \cup {Absent},
           ref : Route \cup {Absent}, warned : BOOLEAN]

Pass == [at : {"idle", "read", "inspect", "wait", "commit", "save"},
         config : Config \cup {Absent}, state : State \cup {Absent}, found : Change]

Running == [at : {"idle", "withdraw", "deploy", "observe", "config", "state"},
            kind : Command \cup {"none"}, config : Config \cup {Absent},
            state : State \cup {Absent}, goal : Config \cup {Absent},
            ref : Route \cup {Absent}]

\* The types of the variables, and which locals are set at which step.
TypeOK ==
  /\ config \in Config
  /\ state \in State
  /\ routes \in [Domain -> Route \cup {Absent}]
  /\ lock \in Tracker \cup {Free, Foreground}
  /\ pass \in [Tracker -> Pass]
  /\ \A t \in Tracker :
       /\ pass[t].at \notin {"idle", "wait"} => pass[t].config # Absent
       /\ pass[t].at \in {"inspect", "commit", "save"} => pass[t].state # Absent
       /\ pass[t].found.ref # Absent => pass[t].found.id # Absent
  /\ command \in Running
  /\ command.at # "idle" =>
       command.config # Absent /\ command.state # Absent /\ command.goal # Absent
  /\ command.at = "withdraw" => command.config.exposure # Absent
  /\ command.at \in {"deploy", "observe"} => command.goal.exposure # Absent
  /\ count \in [edits : Nat, commands : Nat, crashes : Nat]

\* The lock is held by exactly the pass or command that writes the project,
\* and what it overwrites is what it loaded: no update of one is lost to another.
NoLostUpdate ==
  /\ command.at # "idle" =>
       /\ lock = Foreground
       /\ state = command.state
       /\ config = IF command.at = "state" THEN command.goal ELSE command.config
  /\ \A t \in Tracker : pass[t].at \in {"commit", "save"} =>
       /\ lock = t
       /\ state = pass[t].state
       /\ pass[t].at = "commit" => config = pass[t].config

IdOf(c) == IF c.exposure = Absent THEN Absent ELSE c.exposure.id

\* A pass that inspected an exposure which has been removed, or replaced by a
\* new one, since then does not bring it back: only a command changes which
\* exposure the inventory holds.
RemovedStaysRemoved == [][IdOf(config)' # IdOf(config) => command' # command]_vars

\* A notice leaves the state only when nomina changes has read it to show it.
UnshownNoticesKept ==
  [][\A n \in state.notices \ state'.notices :
       command.kind = "changes" /\ n \in command.state.notices]_vars

\* ADR-0005: the provider's configuration wins.  When edits and commands stop,
\* the inventory comes to describe the route that the proxy serves.
Served == config.exposure # Absent /\ routes[config.exposure.domain] # Absent

Agrees == /\ config.exposure.backend = routes[config.exposure.domain].backend
          /\ config.exposure.redirect = routes[config.exposure.domain].redirect

ProviderWins == <>[](Served => Agrees)
=============================================================================
