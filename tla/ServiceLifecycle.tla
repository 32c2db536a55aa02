-------------------------- MODULE ServiceLifecycle --------------------------
(***************************************************************************)
(* The life of the platform services and of their Proxmox containers:      *)
(* nomina service add, recheck, remove and destroy, and nomina uninstall   *)
(* (src/src/cli.js, src/src/provisioning.js), with the tailnet DNS that a  *)
(* Tailscale gateway takes over and gives back (src/src/tailscale-tailnet  *)
(* .js).                                                                   *)
(*                                                                         *)
(* A command holds the write lock from before it loads the project until   *)
(* it ends (module Tracking), so one command runs at a time and reads what *)
(* is on disk.  It can die between any two of its calls to Proxmox, to the *)
(* Tailscale API and to the disk, and any such call can fail.  Proxmox     *)
(* gives a freed VMID to the next container, whoever creates it.           *)
(*                                                                         *)
(* Addresses, names, credentials and the rest of what is recorded about a  *)
(* container are left out, and so are Docker-bound containers, host SSH    *)
(* and the exposures that a new gateway makes the proxy publish again.     *)
(* So recheck, which finds a container by its address, may find any.       *)
(***************************************************************************)
EXTENDS Naturals, FiniteSets

CONSTANTS
  Selected,      \* the platform services of the project
  CaInProxy,     \* TRUE: the certificate authority is Caddy's internal one
  Tailscale,     \* TRUE: the VPN provider is Tailscale, FALSE: NetBird
  Vmid,          \* ids of Proxmox containers
  Setting,       \* global nameservers an operator gives the tailnet
  DeadGateway,   \* the nameserver of a tailnet whose gateway was destroyed
  Foreign,       \* a container that nomina has nothing to do with
  Absent,        \* no container, no record
  Command,       \* the commands that are run
  FaultPoint,    \* the external calls that can fail
  Bound          \* how many commands, faults, crashes, foreign containers
                 \* and changes of the tailnet's DNS there are

VARIABLES
  lxc,        \* the service each container was created for
  running,    \* the containers that run
  enrolled,   \* the containers whose VPN client has joined the tailnet
  resolver,   \* the tailnet's nameserver: an operator's, or a gateway
  files,      \* which of nomina.yaml and state.json exist
  deployed,   \* nomina.yaml: the services with a deployment
  state,      \* state.json: container references and saved tailnet DNS
  op,         \* the command that runs, its next call and its locals
  count       \* how much of Bound has been used; and, as history that no action
              \* reads, the VMIDs that recheck took for a service's by mistake

vars == <<lxc, running, enrolled, resolver, files, deployed, state, op, count>>

Item == {"dns", "proxy", "ca", "vpn"}
Commands == {"init", "add", "recheck", "remove", "destroy"}
Call == {"create", "setup", "check", "sync", "point", "restore", "stop", "destroy"}
Write == {"own", "deploy", "record", "unsave", "pick", "forget", "config", "state",
          "rmconfig", "rmstate"}

ASSUME SelectionIsKnown == Selected \subseteq Item
ASSUME ChoicesAreBoolean == CaInProxy \in BOOLEAN /\ Tailscale \in BOOLEAN
ASSUME SentinelsDistinct ==
  /\ Absent \notin Item \cup {Foreign} \cup Vmid \cup Setting \cup {DeadGateway}
                     \cup [vmid : Vmid, pending : BOOLEAN]
  /\ Foreign \notin Item
  /\ DeadGateway \notin Setting
  /\ Vmid \cap (Setting \cup {DeadGateway}) = {}
ASSUME CommandsKnown == Command \subseteq Commands /\ FaultPoint \subseteq Call
ASSUME BoundsAreNat ==
  Bound \in [commands : Nat, faults : Nat, crashes : Nat, foreign : Nat, edits : Nat]

-----------------------------------------------------------------------------
Gateway(i) == i = "vpn" /\ Tailscale

\* The service whose container runs service i.
HostOf(i) == IF i = "ca" /\ CaInProxy THEN "proxy" ELSE i

\* What must be provisioned before service i.
Needs(i) == CASE i = "dns"   -> {}
              [] i = "proxy" -> {"dns"}
              [] i = "ca"    -> {"dns", "proxy"}
              [] i = "vpn"   -> IF Tailscale THEN {"dns", "proxy"} ELSE {}

NoRecords == [ref |-> [i \in Item |-> Absent], retained |-> [i \in Item |-> Absent],
              snapshot |-> Absent]

HasRef(i) == state.ref[i] # Absent

Pending(i) == HasRef(i) /\ state.ref[i].pending

\* The containers that the project knows: its targets at an uninstall.
Recorded == IF "state" \in files
            THEN {v \in Vmid : \E i \in Item : \/ state.retained[i] = v
                                               \/ HasRef(i) /\ state.ref[i].vmid = v}
            ELSE {}

NoOp == [cmd |-> "none", item |-> "dns", at |-> "idle", vmid |-> Absent,
         force |-> FALSE, targets |-> {}, failed |-> FALSE]

Init == /\ lxc = [v \in Vmid |-> Absent]
        /\ running = {}
        /\ enrolled = {}
        /\ resolver \in Setting
        /\ files = {"config", "state"}
        /\ deployed = {}
        /\ state = NoRecords
        /\ op = NoOp
        /\ count = [commands |-> 0, faults |-> 0, crashes |-> 0, foreign |-> 0, edits |-> 0,
                    mistaken |-> {}]

-----------------------------------------------------------------------------
(* A command loads the project and chooses its container. *)

world == <<lxc, running, enrolled, resolver>>
disk == <<files, deployed, state>>

Run(cmd, i, at, v) == [NoOp EXCEPT !.cmd = cmd, !.item = i, !.at = at, !.vmid = v]

Enter(new) == op = NoOp /\ op' = new /\ UNCHANGED <<world, disk>>

Counted(cmd) == /\ cmd \in Command
                /\ count.commands < Bound.commands
                /\ count' = [count EXCEPT !.commands = @ + 1]

Loaded == files = {"config", "state"}

\* init needs no lock; nothing else runs.  It refuses an existing nomina.yaml,
\* and writes state.json before it.
Initialise == /\ op = NoOp
              /\ "config" \notin files
              /\ Counted("init")
              /\ files' = {"config", "state"}
              /\ state' = NoRecords
              /\ deployed' = {}
              /\ UNCHANGED <<world, op>>

BeginAdd(i) ==
  /\ Loaded
  /\ Counted("add")
  /\ ~HasRef(i)
  /\ \A j \in Needs(i) : HasRef(j)
  /\ IF HostOf(i) = i THEN Enter(Run("add", i, "create", Absent))
     ELSE Enter(Run("add", i, "setup", state.ref[HostOf(i)].vmid))

\* A fault, like the others below one that a property exists to catch and that
\* Spec does not use: recheck goes on when no container is found.
RecheckOfNothing(i) ==
  /\ Loaded
  /\ Counted("recheck")
  /\ ~HasRef(i)
  /\ Enter(Run("recheck", i, "check", Absent))

\* Recheck goes on with a pending container, or takes in the first one whose
\* configuration contains the address that the operator gives.  That is any
\* container: the address may be part of a longer one, or its nameserver.
BeginRecheck(i) ==
  /\ Loaded
  /\ "recheck" \in Command
  /\ count.commands < Bound.commands
  /\ HasRef(i) => Pending(i)
  /\ \E v \in Vmid :
       /\ IF HasRef(i) THEN v = state.ref[i].vmid ELSE lxc[v] # Absent
       /\ count' = [count EXCEPT !.commands = @ + 1,
                               !.mistaken = IF lxc[v] = HostOf(i) THEN @ ELSE @ \cup {v}]
       /\ Enter(Run("recheck", i, IF HasRef(i) THEN "setup"
                                  ELSE IF Gateway(i) THEN "own" ELSE "check", v))

BeginRemove(i) ==
  /\ Loaded
  /\ Counted("remove")
  /\ HasRef(i)
  /\ Enter(Run("remove", i, IF Gateway(i) THEN "restore" ELSE "stop", state.ref[i].vmid))

\* A fault: the tailnet's DNS is not restored.
DestroyUnrestored(i, force) ==
  /\ Loaded
  /\ Counted("destroy")
  /\ HasRef(i)
  /\ Enter([Run("destroy", i, "stop", state.ref[i].vmid) EXCEPT !.force = force])

\* An active container is destroyed in preference to a retained one.  --force
\* does not restore the tailnet's DNS.
BeginDestroy(i, force) ==
  LET v == IF HasRef(i) THEN state.ref[i].vmid ELSE state.retained[i]
      restore == /\ Gateway(i) /\ HasRef(i) /\ ~force
                 /\ ~Pending(i) \/ state.snapshot # Absent
  IN /\ Loaded
     /\ Counted("destroy")
     /\ v # Absent
     /\ Enter([Run("destroy", i, IF restore THEN "restore" ELSE "stop", v)
               EXCEPT !.force = force])

\* A gateway that is no longer recorded cannot be restored: uninstall refuses.
BeginUninstall ==
  LET gateway == Gateway("vpn") /\ HasRef("vpn")
      restore == state.snapshot # Absent \/ gateway
  IN /\ files # {}
     /\ UNCHANGED count
     /\ \/ /\ "config" \notin files
           /\ Enter(Run("uninstall", "dns", "pick", Absent))
        \/ /\ "config" \in files /\ ~restore
           /\ Enter([Run("uninstall", "dns", "pick", Absent) EXCEPT !.targets = Recorded])
        \/ /\ "config" \in files /\ restore /\ HasRef("vpn")
           /\ Enter([Run("uninstall", "vpn", "restore", state.ref["vpn"].vmid)
                      EXCEPT !.targets = Recorded])

-----------------------------------------------------------------------------
(* The steps of a command. *)

At(at) == op.at = at

Goto(at) == op' = [op EXCEPT !.at = at]

Leave == op' = NoOp

\* Whether container v may run the software of service i.
Runs(v, i) == /\ v \in running
              /\ lxc[v] \in {HostOf(i), Foreign} \/ (i = "vpn" /\ v \in enrolled)

\* Whether Proxmox and Tailscale accept the command's next call.  pct exec and
\* pct stop need a running container, pct destroy one that exists and is
\* stopped.  A VPN client is looked for in the container, every other service at
\* its address.  The tailnet's DNS is set only over settings that nomina knows.
Accepted(at) ==
  LET v == op.vmid IN
  CASE at = "create"  -> \E u \in Vmid : lxc[u] = Absent
    [] at = "setup"   -> IF op.item = "vpn" THEN v \in running ELSE Runs(v, op.item)
    [] at = "check"   -> IF op.item = "vpn" THEN Runs(v, "vpn")
                         ELSE \E w \in Vmid : Runs(w, op.item)
    [] at = "sync"    -> /\ \A j \in Needs("vpn") : HasRef(j)
                         /\ v \in running /\ (resolver = v \/ state.snapshot = Absent)
    [] at = "point"   -> TRUE
    [] at = "restore" -> /\ v \in running \cap enrolled
                         /\ IF state.snapshot = Absent THEN resolver # v
                            ELSE resolver \in {v, state.snapshot}
    [] at = "stop"    -> v \in running
    [] at = "destroy" -> lxc[v] # Absent /\ v \notin running

Works(at) == At(at) /\ Accepted(at) /\ UNCHANGED count

SaveRef(pending) ==
  state' = [state EXCEPT !.ref[op.item] = [vmid |-> op.vmid, pending |-> pending]]

\* createLxc: a new container under any free id.
CreateLxc == /\ Works("create")
             /\ \E v \in Vmid :
                  /\ lxc[v] = Absent
                  /\ lxc' = [lxc EXCEPT ![v] = op.item]
                  /\ running' = running \cup {v}
                  /\ op' = [op EXCEPT !.vmid = v,
                                      !.at = IF Gateway(op.item) THEN "own" ELSE "setup"]
             /\ UNCHANGED <<enrolled, resolver, disk>>

\* The reference of a gateway is saved before its setup can fail.
Own == /\ At("own")
       /\ SaveRef(TRUE)
       /\ Goto(IF op.cmd = "add" THEN "deploy" ELSE "check")
       /\ UNCHANGED <<world, files, deployed, count>>

Deploy == /\ At("deploy")
          /\ deployed' = deployed \cup {op.item}
          /\ Goto("setup")
          /\ UNCHANGED <<world, files, state, count>>

\* Installation, configuration, inspection and health check; a recheck of what
\* is not recorded yet installs nothing.
Setup == /\ Works("setup") \/ Works("check")
         /\ enrolled' = IF op.item = "vpn" THEN enrolled \cup {op.vmid} ELSE enrolled
         /\ Goto(IF Gateway(op.item) \/ (op.item = "vpn" /\ op.cmd = "add") THEN "record"
                 ELSE IF HostOf(op.item) # op.item /\ op.cmd = "add" THEN "state"
                 ELSE "config")
         /\ UNCHANGED <<lxc, running, resolver, disk, count>>

\* A fault: the reference is saved only at the end of the command.
RecordLater == /\ At("record")
               /\ Goto(IF Tailscale THEN "sync" ELSE "config")
               /\ UNCHANGED <<world, disk, count>>

\* The reference of an enrolled VPN container is saved before any tailnet work.
Record == /\ At("record")
          /\ SaveRef(FALSE)
          /\ Goto(IF Tailscale THEN "sync" ELSE "config")
          /\ UNCHANGED <<world, files, deployed, count>>

\* configureTailnet up to the saved snapshot of the tailnet's DNS settings.
SyncTailnet == /\ Works("sync")
               /\ IF resolver = op.vmid THEN Goto("config") /\ UNCHANGED state
                  ELSE /\ state' = [state EXCEPT !.snapshot = resolver]
                       /\ Goto("point")
               /\ UNCHANGED <<world, files, deployed, count>>

PointResolver == /\ Works("point")
                 /\ resolver' = op.vmid
                 /\ Goto("config")
                 /\ UNCHANGED <<lxc, running, enrolled, disk, count>>

\* restoreTailnetDns
RestoreDns == /\ Works("restore")
              /\ resolver' = IF state.snapshot = Absent THEN resolver ELSE state.snapshot
              /\ Goto(IF op.cmd = "uninstall" THEN "unsave" ELSE "stop")
              /\ UNCHANGED <<lxc, running, enrolled, disk, count>>

\* A fault: the saved settings stay in the state.
UnsaveNothing == /\ At("unsave")
                 /\ Goto("pick")
                 /\ UNCHANGED <<world, disk, count>>

\* uninstall records that the tailnet's DNS needs no restoring any more.
Unsave == /\ At("unsave")
          /\ state' = [state EXCEPT !.snapshot = Absent]
          /\ Goto("pick")
          /\ UNCHANGED <<world, files, deployed, count>>

StopLxc == /\ Works("stop")
           /\ running' = running \ {op.vmid}
           /\ Goto(IF op.cmd = "remove" THEN "config" ELSE "destroy")
           /\ UNCHANGED <<lxc, enrolled, resolver, disk, count>>

\* A tailnet that still used the container has lost its nameserver.
DestroyLxc == /\ Works("destroy")
              /\ lxc' = [lxc EXCEPT ![op.vmid] = Absent]
              /\ enrolled' = enrolled \ {op.vmid}
              /\ resolver' = IF resolver = op.vmid THEN DeadGateway ELSE resolver
              /\ Goto(IF op.cmd = "uninstall" THEN "forget" ELSE "config")
              /\ UNCHANGED <<running, disk, count>>

\* An uninstall goes through its targets; it ends here if any was not destroyed.
Pick == /\ At("pick")
        /\ \/ \E v \in op.targets :
                op' = [op EXCEPT !.vmid = v, !.targets = @ \ {v}, !.at = "stop"]
           \/ op.targets = {} /\ op.failed /\ Leave
           \/ op.targets = {} /\ ~op.failed /\ Goto("rmconfig")
        /\ UNCHANGED <<world, disk, count>>

Forgotten(v) ==
  [state EXCEPT
     !.ref = [i \in Item |-> IF HasRef(i) /\ @[i].vmid = v THEN Absent ELSE @[i]],
     !.retained = [i \in Item |-> IF @[i] = v THEN Absent ELSE @[i]]]

\* A fault: what has been destroyed is forgotten only with the whole project.
ForgetNothing == /\ At("forget")
                 /\ Goto("pick")
                 /\ UNCHANGED <<world, disk, count>>

Forget == /\ At("forget")
          /\ state' = Forgotten(op.vmid)
          /\ Goto("pick")
          /\ UNCHANGED <<world, files, deployed, count>>

SaveConfig ==
  /\ At("config")
  /\ deployed' = IF op.cmd \in {"add", "recheck"} THEN deployed \cup {op.item}
                 ELSE deployed \ {op.item}
  /\ Goto("state")
  /\ UNCHANGED <<world, files, state, count>>

\* The last write of a command.  The service loses its saved tailnet settings
\* with its reference.
Removed(i) == [ref |-> [state.ref EXCEPT ![i] = Absent],
               retained |-> [state.retained EXCEPT ![i] = state.ref[i].vmid],
               snapshot |-> IF Gateway(i) THEN Absent ELSE state.snapshot]

Destroyed(i) == [ref |-> [state.ref EXCEPT ![i] = Absent],
                 retained |-> [state.retained EXCEPT ![i] = Absent],
                 snapshot |-> IF Gateway(i) THEN Absent ELSE state.snapshot]

SaveState ==
  /\ At("state")
  /\ \/ op.cmd \in {"add", "recheck"} /\ SaveRef(FALSE)
     \/ op.cmd = "remove" /\ state' = Removed(op.item)
     \/ op.cmd = "destroy" /\ state' = Destroyed(op.item)
  /\ Leave
  /\ UNCHANGED <<world, files, deployed, count>>

RemoveConfig == /\ At("rmconfig")
                /\ files' = files \ {"config"}
                /\ Goto("rmstate")
                /\ UNCHANGED <<world, deployed, state, count>>

RemoveState == /\ At("rmstate")
               /\ files' = files \ {"state"}
               /\ Leave
               /\ UNCHANGED <<world, deployed, state, count>>

-----------------------------------------------------------------------------
(* A call fails: it is not accepted, or something goes wrong.  Only uninstall *)
(* goes on after it.                                                          *)

\* What a failed call may have done.
Undone == UNCHANGED world

HalfCreated == /\ At("create")
               /\ \E v \in Vmid : /\ lxc[v] = Absent
                                  /\ lxc' = [lxc EXCEPT ![v] = op.item]
               /\ UNCHANGED <<running, enrolled, resolver>>

HalfSetUp == /\ At("setup") \/ At("check")
             /\ op.vmid \in running
             /\ op.item = "vpn"
             /\ enrolled' = enrolled \cup {op.vmid}
             /\ UNCHANGED <<lxc, running, resolver>>

HalfPointed == /\ At("point")
               /\ resolver' = op.vmid
               /\ UNCHANGED <<lxc, running, enrolled>>

HalfRestored == /\ At("restore") /\ Accepted("restore")
                /\ state.snapshot # Absent
                /\ resolver' = state.snapshot
                /\ UNCHANGED <<lxc, running, enrolled>>

\* A fault: a target that could not be destroyed is forgotten as well.
FailureForgets ==
  IF op.cmd = "uninstall" /\ At("stop") THEN Goto("destroy")
  ELSE IF op.cmd = "uninstall" /\ At("destroy")
       THEN op' = [op EXCEPT !.at = "forget", !.failed = TRUE]
  ELSE Leave

AfterFailure ==
  IF op.cmd = "uninstall" /\ At("stop") THEN Goto("destroy")
  ELSE IF op.cmd = "uninstall" /\ At("destroy")
       THEN op' = [op EXCEPT !.at = "pick", !.failed = TRUE]
  ELSE Leave

Refused == /\ op.at \in Call
           /\ ~Accepted(op.at)
           /\ AfterFailure
           /\ UNCHANGED <<world, disk, count>>

Fault == /\ op.at \in FaultPoint
         /\ Accepted(op.at)
         /\ count.faults < Bound.faults
         /\ count' = [count EXCEPT !.faults = @ + 1]
         /\ Undone \/ HalfCreated \/ HalfSetUp \/ HalfPointed \/ HalfRestored
         /\ AfterFailure
         /\ UNCHANGED disk

-----------------------------------------------------------------------------
(* The environment *)

Crash == /\ op # NoOp
         /\ count.crashes < Bound.crashes
         /\ count' = [count EXCEPT !.crashes = @ + 1]
         /\ op' = NoOp
         /\ UNCHANGED <<world, disk>>

\* Somebody else creates a container.
CreateForeign(v) == /\ lxc[v] = Absent
                    /\ count.foreign < Bound.foreign
                    /\ count' = [count EXCEPT !.foreign = @ + 1]
                    /\ lxc' = [lxc EXCEPT ![v] = Foreign]
                    /\ running' = running \cup {v}
                    /\ UNCHANGED <<enrolled, resolver, disk, op>>

\* An operator starts a container by hand, or changes the tailnet's DNS.
Start(v) == /\ lxc[v] \in Item
            /\ v \notin running
            /\ op = NoOp
            /\ running' = running \cup {v}
            /\ UNCHANGED <<lxc, enrolled, resolver, disk, op, count>>

SetResolver == /\ count.edits < Bound.edits
               /\ count' = [count EXCEPT !.edits = @ + 1]
               /\ resolver' \in Setting \ {resolver}
               /\ UNCHANGED <<lxc, running, enrolled, disk, op>>

-----------------------------------------------------------------------------
Begin == \/ Initialise
         \/ \E i \in Selected : \/ BeginAdd(i) \/ BeginRecheck(i) \/ BeginRemove(i)
                                \/ \E force \in BOOLEAN : BeginDestroy(i, force)

Provision == CreateLxc \/ Own \/ Deploy \/ Setup \/ Record \/ SyncTailnet \/ PointResolver

Dismantle == RestoreDns \/ Unsave \/ StopLxc \/ DestroyLxc \/ Pick \/ Forget
               \/ RemoveConfig \/ RemoveState

Continue == Provision \/ Dismantle \/ SaveConfig \/ SaveState \/ Refused \/ Fault

Environment == \/ Crash
               \/ \E v \in Vmid : CreateForeign(v) \/ Start(v)
               \/ SetResolver

Next == Begin \/ BeginUninstall \/ Continue \/ Environment

Spec == Init /\ [][Next]_vars

\* A command that runs goes on until it ends, and a user who wants the project
\* gone tries uninstall again and again.
FairSpec == Spec /\ WF_vars(Continue) /\ WF_vars(BeginUninstall)

-----------------------------------------------------------------------------
(* Properties *)

Reference == [vmid : Vmid, pending : BOOLEAN]

TypeOK == /\ lxc \in [Vmid -> Item \cup {Foreign, Absent}]
          /\ running \subseteq {v \in Vmid : lxc[v] # Absent}
          /\ enrolled \subseteq {v \in Vmid : lxc[v] # Absent}
          /\ resolver \in Setting \cup Vmid \cup {DeadGateway}
          /\ files \subseteq {"config", "state"}
          /\ deployed \subseteq Item
          /\ state \in [ref : [Item -> Reference \cup {Absent}],
                        retained : [Item -> Vmid \cup {Absent}],
                        snapshot : Setting \cup {DeadGateway, Absent}]
          /\ op \in [cmd : Commands \cup {"uninstall", "none"}, item : Item,
                     at : Call \cup Write \cup {"idle"}, vmid : Vmid \cup {Absent},
                     force : BOOLEAN, targets : SUBSET Vmid, failed : BOOLEAN]
          /\ op.at \in (Call \cup Write) \ {"create", "pick", "rmconfig", "rmstate"}
               => op.vmid # Absent
          /\ count \in [commands : Nat, faults : Nat, crashes : Nat, foreign : Nat,
                        edits : Nat, mistaken : SUBSET Vmid]

\* CHANGELOG.md, 1.4.3: "unmanaged containers are never touched".  No command
\* stops or destroys a container that somebody else created, unless a recheck
\* took its VMID for that of a service: VMIDs that are given away again, calls
\* that fail and uninstalls that go on after a failure never make it happen.
ForeignUntouched ==
  [][\A v \in Vmid : lxc[v] = Foreign /\ v \notin count.mistaken =>
       lxc'[v] = Foreign /\ (v \in running => v \in running')]_vars

\* The tailnet never uses a gateway that the project does not know how to take
\* back: while the nameserver is a container, that container is recorded as the
\* provisioned VPN service, with the settings that it replaced.  A crash or a
\* fault at any point changes nothing of it.
GatewayIsRecoverable ==
  resolver \in Vmid => /\ state.ref["vpn"] = [vmid |-> resolver, pending |-> FALSE]
                       /\ state.snapshot # Absent

\* Only service destroy --force leaves the tailnet with the nameserver of a
\* gateway that has been destroyed, and the destruction of a gateway whose VMID
\* a recheck took for that of another service.
OnlyForceStrandsTailnet ==
  [][resolver # DeadGateway /\ resolver' = DeadGateway /\ op.at = "destroy"
       => op.force \/ op.vmid \in count.mistaken]_vars

\* The project forgets a container only when the container is gone, so that
\* service destroy and uninstall can still find it.
RecordedUntilDestroyed ==
  [][\A v \in Recorded \ Recorded' : lxc[v] \notin Item]_vars

\* CHANGELOG.md, 2.2.0: "saved progress lets interrupted cleanup resume".  A
\* user who repeats an uninstall gets rid of the project.
UninstallCompletes == []<>(files = {})
=============================================================================
