------------------------------ MODULE DockerHosts ------------------------------
(***************************************************************************)
(* Docker hosts: nomina docker create, retry, connect and disconnect of    *)
(* src/src/docker-hosts.js, together with the commands that meet them at   *)
(* the project locks and at Proxmox: a service add that asks for a VMID at *)
(* the same time, and an uninstall that destroys what the project records. *)
(*                                                                         *)
(* Two locks are at work.  A Docker operation and an uninstall hold the    *)
(* operation lock from their first read to their end.  A Docker operation  *)
(* takes the write lock for one save at a time, the other commands hold it *)
(* all along.  Who finds a lock taken waits five seconds and gives up;     *)
(* both locks of a dead process are recovered (module ProjectLock).        *)
(*                                                                         *)
(* A save replaces nomina.yaml and then state.json.  Templates, resources, *)
(* sockets other than the default one and prompts are left out: they can   *)
(* only end an operation before its first change.                          *)
(***************************************************************************)
EXTENDS Naturals, FiniteSets

CONSTANTS
  Process,    \* processes that run nomina
  Host,       \* binding ids, drawn in ascending order
  Name,       \* nicknames of bindings
  Address,    \* addresses that Docker containers are given
  Elsewhere,  \* the address of every other container
  Vmid,       \* ids of Proxmox containers
  Platform,   \* what a container of a platform service was created for
  Foreign,    \* what a container that nomina has let go was created for
  Absent,     \* no container, no binding, no reference, no process
  Bound       \* how many commands, faults, crashes and removals there are

VARIABLES
  ct,         \* the containers of Proxmox
  bound,      \* nomina.yaml: the bindings
  ref,        \* state.json: the VMID of each binding
  status,     \* state.json: the setup status of each binding
  platform,   \* state.json: the VMIDs of the platform services
  project,    \* the project exists
  operation,  \* who holds the operation lock
  write,      \* who holds the write lock
  op,         \* the command of each process and its next step
  gone,       \* the bindings that a disconnect or an uninstall has ended
  count       \* how much of Bound has been used

vars == <<ct, bound, ref, status, platform, project, operation, write, op, gone, count>>
disk == <<bound, ref, status, platform, project>>
locks == <<operation, write>>

Stage == {"created", "features", "running", "installed"}
Container == [by : Host \cup {Platform, Foreign}, ip : Address \cup {Elsewhere},
              stage : Stage]
Binding == [name : Name, origin : {"created", "connected"}, ip : Address \cup {Elsewhere}]
Status == {"unknown", "pending", "healthy"}

ASSUME IdsAreNumbers == Host \subseteq Nat /\ Vmid \subseteq Nat
ASSUME SentinelsDistinct ==
  /\ Absent \notin Container \cup Binding \cup Vmid \cup Process \cup Host
  /\ {Platform, Foreign} \cap Host = {} /\ Platform # Foreign
  /\ Elsewhere \notin Address
ASSUME BoundsAreNat == Bound \in [commands : Nat, faults : Nat, crashes : Nat, removals : Nat]

NoOp == [cmd |-> "none", at |-> "idle", host |-> Absent, new |-> Absent, vmid |-> Absent,
         save |-> "unknown", then |-> "idle", targets |-> {}]

Init == /\ ct = [v \in Vmid |-> Absent]
        /\ bound = [h \in Host |-> Absent]
        /\ ref = [h \in Host |-> Absent]
        /\ status = [h \in Host |-> "unknown"]
        /\ platform = {}
        /\ project = TRUE
        /\ operation = Absent
        /\ write = Absent
        /\ op = [p \in Process |-> NoOp]
        /\ gone = {}
        /\ count = [commands |-> 0, faults |-> 0, crashes |-> 0, removals |-> 0]

-----------------------------------------------------------------------------
Bindings == {h \in Host : bound[h] # Absent}

\* randomUUID() repeats no id that is or was in use; all that is told of ids is
\* whether they are equal, so the next one is the smallest unused.
Unused(h) == /\ bound[h] = Absent /\ ref[h] = Absent /\ h \notin gone
             /\ \A v \in Vmid : ct[v] # Absent => ct[v].by # h
             /\ \A p \in Process : op[p].host # h

Fresh(h) == Unused(h) /\ \A g \in Host : Unused(g) => h <= g

\* pvesh get /cluster/nextid answers the lowest free id.
LowestFree(v) == ct[v] = Absent /\ \A u \in Vmid : ct[u] = Absent => v <= u

\* assertUnique: names, and containers that another binding has.
Unique(h, name, v) == /\ \A g \in Bindings \ {h} : bound[g].name # name
                      /\ v # Absent => \A g \in Bindings \ {h} : ref[g] # v

\* pct list shows no container with this address.
AddressFree(ip) == \A v \in Vmid : ct[v] # Absent => ct[v].ip # ip

At(p, at) == op[p].at = at

Goto(p, at) == op' = [op EXCEPT ![p].at = at]

SaveThen(p, as, at) == op' = [op EXCEPT ![p].at = "save", ![p].save = as, ![p].then = at]

Counted == /\ count.commands < Bound.commands
           /\ count' = [count EXCEPT !.commands = @ + 1]

Known(p) == op[p] = NoOp /\ project

Run(p, cmd, at, h, new, v) ==
  op' = [op EXCEPT ![p] = [NoOp EXCEPT !.cmd = cmd, !.at = at, !.host = h, !.new = new,
                                       !.vmid = v]]

-----------------------------------------------------------------------------
(* Faults: plausible mistakes, each of which one of the properties below    *)
(* exists to catch.  No action of Spec uses them.                          *)

\* The VMID is saved only after pct create.
AllocateUnrecorded(p, v) ==
  /\ At(p, "allocate")
  /\ LowestFree(v)
  /\ op' = [op EXCEPT ![p].vmid = v, ![p].at = "create"]
  /\ UNCHANGED <<ct, disk, locks, gone, count>>

\* The retry does not compare the container with what was created.
VerifyNothing(p) == /\ At(p, "verify")
                    /\ ct[op[p].vmid] # Absent
                    /\ Goto(p, "features")
                    /\ UNCHANGED <<ct, disk, locks, gone, count>>

\* Every recorded container is a target.
TargetsOfAll == platform \cup {v \in Vmid : \E h \in Bindings : ref[h] = v}

\* disconnect and uninstall do not wait for the operation lock.
DisconnectAtOnce(p) == /\ At(p, "confirm")
                       /\ Goto(p, "unbind")
                       /\ UNCHANGED <<ct, disk, locks, gone, count>>

\* A container that was created is reported ready.
CreatedIsHealthy(p, done) ==
  /\ At(p, "create")
  /\ SaveThen(p, "healthy", "verify")
  /\ LET v == op[p].vmid
     IN /\ ct[v] = Absent /\ done
        /\ ct' = [ct EXCEPT ![v] = [by |-> op[p].host, ip |-> op[p].new.ip,
                                    stage |-> "created"]]
  /\ UNCHANGED <<disk, locks, gone, count>>

\* The phase is saved where the status belongs.
SavePhase(p) == /\ At(p, "state")
                /\ IF op[p].vmid = Absent THEN UNCHANGED ref
                   ELSE ref' = [ref EXCEPT ![op[p].host] = op[p].vmid]
                /\ status' = [status EXCEPT ![op[p].host] = op[p].then]
                /\ write' = Absent
                /\ Goto(p, op[p].then)
                /\ UNCHANGED <<ct, bound, platform, project, operation, gone, count>>

\* The locks of a dead process stay.
FreeNothing(lock, p) == lock

-----------------------------------------------------------------------------
(* A command begins when it has its lock: what it has read before, it reads *)
(* again.  Who does not get the lock, or whose checks fail, has done        *)
(* nothing.  Only disconnect asks about a binding before it has the lock.  *)

TakeOperation(p) == operation = Absent /\ operation' = p

BeginCreate(p) ==
  \E h \in Host, name \in Name, ip \in Address :
    /\ Known(p) /\ TakeOperation(p) /\ Counted
    /\ Fresh(h) /\ Unique(h, name, Absent) /\ AddressFree(ip)
    /\ op' = [op EXCEPT ![p] = [NoOp EXCEPT
                !.cmd = "create", !.at = "save", !.host = h, !.save = "pending",
                !.then = "allocate",
                !.new = [name |-> name, origin |-> "created", ip |-> ip]]]
    /\ UNCHANGED <<ct, disk, write, gone>>

\* The container must run Docker, and nothing in it is changed.
BeginConnect(p) ==
  \E h \in Host, name \in Name, v \in Vmid :
    /\ Known(p) /\ TakeOperation(p) /\ Counted
    /\ Fresh(h) /\ Unique(h, name, v)
    /\ ct[v] # Absent /\ ct[v].stage = "installed"
    /\ op' = [op EXCEPT ![p] = [NoOp EXCEPT
                !.cmd = "connect", !.at = "save", !.host = h, !.vmid = v,
                !.save = "healthy", !.then = "end",
                !.new = [name |-> name, origin |-> "connected", ip |-> Elsewhere]]]
    /\ UNCHANGED <<ct, disk, write, gone>>

Retryable(h) == /\ h \in Bindings
                /\ bound[h].origin = "created"
                /\ status[h] # "healthy"
                /\ ref[h] # Absent

\* Retries are not counted: an operator repeats one until it succeeds.
BeginRetry(p, h) == /\ Known(p) /\ TakeOperation(p)
                    /\ Retryable(h)
                    /\ Run(p, "retry", "verify", h, bound[h], ref[h])
                    /\ UNCHANGED <<ct, disk, write, gone, count>>

SelectForDisconnect(p) ==
  \E h \in Bindings : /\ Known(p) /\ Counted
                      /\ Run(p, "disconnect", "confirm", h, bound[h], Absent)
                      /\ UNCHANGED <<ct, disk, locks, gone>>

BeginDisconnect(p) == /\ At(p, "confirm")
                      /\ TakeOperation(p)
                      /\ Goto(p, "unbind")
                      /\ UNCHANGED <<ct, disk, write, gone, count>>

BeginUninstall(p) == /\ Known(p) /\ TakeOperation(p) /\ Counted
                     /\ Run(p, "uninstall", "reserve", Absent, Absent, Absent)
                     /\ UNCHANGED <<ct, disk, write, gone>>

BeginServiceAdd(p) == /\ Known(p) /\ Counted
                      /\ write = Absent /\ write' = p
                      /\ Run(p, "add", "nextid", Absent, Absent, Absent)
                      /\ UNCHANGED <<ct, disk, operation, gone>>

\* The lock stays taken for five seconds, or the operator does not confirm.
Cancel(p) == /\ At(p, "confirm") \/ At(p, "reserve")
             /\ Goto(p, "end")
             /\ UNCHANGED <<ct, disk, locks, gone, count>>

-----------------------------------------------------------------------------
(* saveHost: one short hold of the write lock. *)

Mine(p) == write = p

\* nomina.yaml is replaced.  The reference and the status follow with state.json.
SaveConfig(p) == /\ At(p, "save")
                 /\ write = Absent /\ project
                 /\ Unique(op[p].host, op[p].new.name, op[p].vmid)
                 /\ write' = p
                 /\ bound' = [bound EXCEPT ![op[p].host] = op[p].new]
                 /\ Goto(p, "state")
                 /\ UNCHANGED <<ct, ref, status, platform, project, operation, gone, count>>

SaveState(p) == /\ At(p, "state")
                /\ IF op[p].vmid = Absent THEN UNCHANGED ref
                   ELSE ref' = [ref EXCEPT ![op[p].host] = op[p].vmid]
                /\ status' = [status EXCEPT ![op[p].host] = op[p].save]
                /\ write' = Absent
                /\ Goto(p, op[p].then)
                /\ UNCHANGED <<ct, bound, platform, project, operation, gone, count>>

\* The setup of a container failed: save that it is pending, then give up.
Recover(p) == IF op[p].cmd \in {"create", "retry"} /\ op[p].then # "end"
              THEN SaveThen(p, "pending", "end") ELSE Goto(p, "end")

\* Another command holds the write lock, or another binding has the container.
SaveRefused(p) ==
  /\ At(p, "save")
  /\ write # Absent \/ ~project \/ ~Unique(op[p].host, op[p].new.name, op[p].vmid)
  /\ Recover(p)
  /\ UNCHANGED <<ct, disk, locks, gone, count>>

-----------------------------------------------------------------------------
(* setupCreatedHost *)

\* The VMID that is free next, and onAllocated.
Allocate(p, v) ==
  /\ At(p, "allocate")
  /\ LowestFree(v)
  /\ op' = [op EXCEPT ![p].vmid = v, ![p].at = "save", ![p].save = "pending",
                      ![p].then = "create"]
  /\ UNCHANGED <<ct, disk, locks, gone, count>>

\* pct create, and onCreated (and the save that repeats it).  A command that
\* is cut off can leave its container.
Create(p, done) ==
  LET v == op[p].vmid
      made == ct[v] = Absent
  IN /\ At(p, "create")
     /\ IF made THEN ct' = [ct EXCEPT ![v] = [by |-> op[p].host, ip |-> op[p].new.ip,
                                              stage |-> "created"]]
        ELSE UNCHANGED ct
     /\ SaveThen(p, "pending", IF made /\ done THEN "verify" ELSE "end")
     /\ UNCHANGED <<disk, locks, gone, count>>

\* The container must be the one that was created, and still exist.
Verify(p) ==
  LET c == ct[op[p].vmid]
  IN /\ At(p, "verify")
     /\ IF c # Absent /\ c.ip = op[p].new.ip THEN Goto(p, "features") ELSE Recover(p)
     /\ UNCHANGED <<ct, disk, locks, gone, count>>

\* enableDockerFeatures, startLxc and the installation each find out what is
\* done already and do the rest.
Rank == [created |-> 0, features |-> 1, running |-> 2, installed |-> 3]

SetUp(p, from, stage, to) ==
  LET v == op[p].vmid
  IN /\ At(p, from)
     /\ ct[v] # Absent
     /\ ct' = [ct EXCEPT ![v].stage = IF Rank[@] < Rank[stage] THEN stage ELSE @]
     /\ Goto(p, to)
     /\ UNCHANGED <<disk, locks, gone, count>>

EnableFeatures(p) == SetUp(p, "features", "features", "start")
StartLxc(p) == SetUp(p, "start", "running", "install")
Install(p) == SetUp(p, "install", "installed", "health")

\* The engine, Compose and Buildx answer.
CheckHealth(p) == /\ At(p, "health")
                  /\ ct[op[p].vmid] # Absent /\ ct[op[p].vmid].stage = "installed"
                  /\ SaveThen(p, "healthy", "finish")
                  /\ UNCHANGED <<ct, disk, locks, gone, count>>

\* A call to Proxmox or a write fails.
Fault(p) == /\ count.faults < Bound.faults
            /\ op[p].at \in {"allocate", "create", "verify", "features", "start", "install", "health",
                             "save", "state"}
            /\ count' = [count EXCEPT !.faults = @ + 1]
            /\ Recover(p)
            /\ IF Mine(p) THEN write' = Absent ELSE UNCHANGED write
            /\ UNCHANGED <<ct, disk, operation, gone>>

-----------------------------------------------------------------------------
(* disconnect *)

\* The name must still denote the binding that was selected.
Unbind(p) == /\ At(p, "unbind")
             /\ write = Absent /\ project
             /\ bound[op[p].host] # Absent
             /\ write' = p
             /\ bound' = [bound EXCEPT ![op[p].host] = Absent]
             /\ gone' = gone \cup {op[p].host}
             /\ ct' = [v \in Vmid |-> IF ct[v] # Absent /\ ct[v].by = op[p].host
                                      THEN [ct[v] EXCEPT !.by = Foreign] ELSE ct[v]]
             /\ Goto(p, "forget")
             /\ UNCHANGED <<ref, status, platform, project, operation, count>>

Unreference(p) == /\ At(p, "forget")
                  /\ ref' = [ref EXCEPT ![op[p].host] = Absent]
                  /\ status' = [status EXCEPT ![op[p].host] = "unknown"]
                  /\ write' = Absent
                  /\ Goto(p, "end")
                  /\ UNCHANGED <<ct, bound, platform, project, operation, gone, count>>

UnbindRefused(p) == /\ At(p, "unbind")
                    /\ write # Absent \/ ~project \/ bound[op[p].host] = Absent
                    /\ Goto(p, "end")
                    /\ UNCHANGED <<ct, disk, locks, gone, count>>

-----------------------------------------------------------------------------
(* Commands that hold the write lock: service add and uninstall *)

\* Containers that a Docker binding refers to are no targets, also when the
\* binding itself was lost between the two file replacements.
Targets == {v \in platform : \A h \in Host : ref[h] # v}

Reserve(p) == /\ At(p, "reserve")
              /\ write = Absent
              /\ write' = p
              /\ op' = [op EXCEPT ![p].at = "destroy", ![p].targets = Targets]
              /\ UNCHANGED <<ct, disk, operation, gone, count>>

NextId(p, v) == /\ At(p, "nextid")
                /\ LowestFree(v)
                /\ op' = [op EXCEPT ![p].vmid = v, ![p].at = "provision"]
                /\ UNCHANGED <<ct, disk, locks, gone, count>>

\* Proxmox has no id to give.
NoId(p) == /\ \A v \in Vmid : ct[v] # Absent
           /\ \/ At(p, "nextid") /\ Goto(p, "end")
              \/ At(p, "allocate") /\ Recover(p)
           /\ UNCHANGED <<ct, disk, locks, gone, count>>

Provision(p) == /\ At(p, "provision")
                /\ IF ct[op[p].vmid] = Absent
                   THEN /\ ct' = [ct EXCEPT ![op[p].vmid] =
                                    [by |-> Platform, ip |-> Elsewhere, stage |-> "running"]]
                        /\ Goto(p, "record")
                   ELSE Goto(p, "end") /\ UNCHANGED ct
                /\ UNCHANGED <<disk, locks, gone, count>>

Record(p) == /\ At(p, "record")
             /\ platform' = platform \cup {op[p].vmid}
             /\ Goto(p, "end")
             /\ UNCHANGED <<ct, bound, ref, status, project, locks, gone, count>>

\* uninstall destroys its targets one by one, and then the project.
Destroy(p, v) == /\ At(p, "destroy")
                 /\ v \in op[p].targets
                 /\ ct[v] # Absent
                 /\ ct' = [ct EXCEPT ![v] = Absent]
                 /\ platform' = platform \ {v}
                 /\ op' = [op EXCEPT ![p].targets = @ \ {v}]
                 /\ UNCHANGED <<bound, ref, status, project, locks, gone, count>>

\* pct destroy fails: the project is kept for a retry.
DestroyFails(p, v) == /\ At(p, "destroy")
                      /\ v \in op[p].targets
                      /\ ct[v] = Absent
                      /\ op' = [op EXCEPT ![p].targets = @ \ {v}, ![p].then = "end"]
                      /\ UNCHANGED <<ct, disk, locks, gone, count>>

Incomplete(p) == /\ At(p, "destroy")
                 /\ op[p].targets = {} /\ op[p].then = "end"
                 /\ Goto(p, "end")
                 /\ UNCHANGED <<ct, disk, locks, gone, count>>

DeleteProject(p) == /\ At(p, "destroy")
                    /\ op[p].targets = {} /\ op[p].then # "end"
                    /\ project' = FALSE
                    /\ bound' = [h \in Host |-> Absent]
                    /\ ref' = [h \in Host |-> Absent]
                    /\ status' = [h \in Host |-> "unknown"]
                    /\ platform' = {}
                    /\ gone' = gone \cup Bindings
                    /\ ct' = [v \in Vmid |-> IF ct[v] # Absent
                                             THEN [ct[v] EXCEPT !.by = Foreign] ELSE ct[v]]
                    /\ Goto(p, "end")
                    /\ UNCHANGED <<locks, count>>

-----------------------------------------------------------------------------
(* The end of a command, by itself or by its death.  A dead process leaves  *)
(* its locks, and the next command recovers them.                          *)

Free(lock, p) == IF lock = p THEN Absent ELSE lock

Leave(p) == /\ op' = [op EXCEPT ![p] = NoOp]
            /\ operation' = Free(operation, p)
            /\ write' = Free(write, p)
            /\ UNCHANGED <<ct, disk, gone>>

End(p) == /\ At(p, "end") \/ At(p, "finish")
          /\ Leave(p)
          /\ UNCHANGED count

Crash(p) == /\ op[p] # NoOp
            /\ count.crashes < Bound.crashes
            /\ count' = [count EXCEPT !.crashes = @ + 1]
            /\ Leave(p)

\* An operator destroys a container that no operation is at work on.
Remove(v) == /\ ct[v] # Absent
             /\ count.removals < Bound.removals
             /\ \A p \in Process : op[p].vmid # v
             /\ count' = [count EXCEPT !.removals = @ + 1]
             /\ ct' = [ct EXCEPT ![v] = Absent]
             /\ UNCHANGED <<disk, locks, op, gone>>

\* nomina init in the same directory.
Initialise == /\ ~project
              /\ project' = TRUE
              /\ UNCHANGED <<ct, bound, ref, status, platform, locks, op, gone, count>>

-----------------------------------------------------------------------------
Begin(p) == \/ BeginCreate(p) \/ BeginConnect(p) \/ SelectForDisconnect(p)
            \/ BeginUninstall(p) \/ BeginServiceAdd(p)
            \/ \E h \in Host : BeginRetry(p, h)

Save(p) == SaveConfig(p) \/ SaveState(p) \/ SaveRefused(p)

SetupSteps(p) == \/ \E v \in Vmid : Allocate(p, v)
                 \/ \E done \in BOOLEAN : Create(p, done)
                 \/ Verify(p) \/ EnableFeatures(p) \/ StartLxc(p) \/ Install(p)
                 \/ CheckHealth(p)

Disconnect(p) == BeginDisconnect(p) \/ Unbind(p) \/ Unreference(p) \/ UnbindRefused(p)

ServiceAdd(p) == (\E v \in Vmid : NextId(p, v)) \/ NoId(p) \/ Provision(p) \/ Record(p)

Uninstall(p) == \/ \E v \in Vmid : Destroy(p, v) \/ DestroyFails(p, v)
                \/ Incomplete(p) \/ DeleteProject(p)

Step(p) == \/ Cancel(p) \/ Reserve(p) \/ Save(p) \/ SetupSteps(p)
           \/ Disconnect(p) \/ ServiceAdd(p) \/ Uninstall(p) \/ End(p)

Next == \/ \E p \in Process : Begin(p) \/ Step(p) \/ Fault(p) \/ Crash(p)
        \/ \E v \in Vmid : Remove(v)
        \/ Initialise

\* Every call returns.  An operator who wants a pending host retries it again and
\* again, and confirms: no lock is held for ever.
Fairness == /\ \A p \in Process : WF_vars(Step(p))
            /\ \A h \in Host : SF_vars(\E p \in Process : BeginRetry(p, h))

Spec == Init /\ [][Next]_vars /\ Fairness

-----------------------------------------------------------------------------
\* Type invariant.
TypeOK ==
  /\ ct \in [Vmid -> Container \cup {Absent}]
  /\ bound \in [Host -> Binding \cup {Absent}]
  /\ ref \in [Host -> Vmid \cup {Absent}]
  /\ status \in [Host -> Status]
  /\ platform \subseteq Vmid
  /\ project \in BOOLEAN
  /\ operation \in Process \cup {Absent} /\ write \in Process \cup {Absent}
  /\ gone \subseteq Host

\* "The allocated VMID is recorded before pct create": a container that docker
\* create made is in the project under its binding from its first moment until
\* the binding is disconnected or the project uninstalled, whatever dies.
CreatedIsRecorded ==
  \A v \in Vmid : ct[v] # Absent /\ ct[v].by \in Host =>
    project /\ bound[ct[v].by] # Absent /\ ref[ct[v].by] = v

\* A binding that a disconnect or an uninstall has ended never returns: saveHost
\* of an operation that is still at work would put it back.
EndedStaysEnded == Bindings \cap gone = {}

\* "never a healthy claim": a created host that state.json calls healthy has an
\* installed engine in its container, if nobody has removed that container.
HealthyIsInstalled ==
  \A h \in Bindings :
    bound[h].origin = "created" /\ status[h] = "healthy" =>
      /\ ref[h] # Absent
      /\ ct[ref[h]] # Absent /\ ct[ref[h]].by = h => ct[ref[h]].stage = "installed"

\* nomina destroys no container that docker create made or that state.json refers
\* to as a Docker host, not even one that took the VMID of a platform service.
UninstallSparesDocker ==
  [][\A v \in Vmid : ct[v] # Absent /\ ct'[v] = Absent /\ count.removals' = count.removals =>
       ct[v].by \notin Host /\ \A h \in Host : ref[h] # v]_vars

\* Setup changes only containers that docker create made for the binding at work,
\* although a retry starts from nothing but a recorded VMID.
SetupTouchesOwn ==
  [][\A v \in Vmid :
       ct[v] # Absent /\ ct'[v] # Absent /\ ct'[v].stage # ct[v].stage =>
         \E p \in Process : op[p].host = ct[v].by /\ bound[ct[v].by] # Absent]_vars

\* A container that docker create made does not stay half set up: whatever
\* failed or died, retries bring its host to "healthy" unless somebody removes
\* the container or ends the binding.
RetriesComplete ==
  \A h \in Host :
    (\E v \in Vmid : ct[v] # Absent /\ ct[v].by = h)
      ~> \/ status[h] = "healthy" \/ h \in gone
         \/ \A v \in Vmid : ct[v] # Absent => ct[v].by # h
=============================================================================
