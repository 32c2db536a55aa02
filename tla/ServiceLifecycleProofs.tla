------------------------ MODULE ServiceLifecycleProofs ------------------------
(***************************************************************************)
(* Proofs about ServiceLifecycle for any services, VMIDs, commands, calls  *)
(* that fail, crashes, foreign containers and changes of the tailnet's DNS *)
(* by operators.                                                           *)
(***************************************************************************)
EXTENDS ServiceLifecycle, TLAPS

StateType == [ref : [Item -> Reference \cup {Absent}], retained : [Item -> Vmid \cup {Absent}],
              snapshot : Setting \cup {DeadGateway, Absent}]

Place == Call \cup Write \cup {"idle"}

OpType == [cmd : Commands \cup {"uninstall", "none"}, item : Item, at : Place,
           vmid : Vmid \cup {Absent}, force : BOOLEAN, targets : SUBSET Vmid, failed : BOOLEAN]

CountType == [commands : Nat, faults : Nat, crashes : Nat, foreign : Nat, edits : Nat,
              mistaken : SUBSET Vmid]

\* The two halves of TypeOK: what is in Proxmox and Tailscale, and what is on disk and
\* in memory.
WorldOK == /\ lxc \in [Vmid -> Item \cup {Foreign, Absent}]
           /\ running \subseteq {v \in Vmid : lxc[v] # Absent}
           /\ enrolled \subseteq {v \in Vmid : lxc[v] # Absent}
           /\ resolver \in Setting \cup Vmid \cup {DeadGateway}

DiskOK == files \subseteq {"config", "state"} /\ deployed \subseteq Item /\ state \in StateType

OpOK == /\ op \in OpType
        /\ op.at \in (Call \cup Write) \ {"create", "pick", "rmconfig", "rmstate"}
             => op.vmid # Absent

\* Which command comes to a place, and about which service.
PlaceOK ==
  /\ op.at \in {"create", "own", "deploy", "setup", "check", "record", "sync", "point"}
       => op.cmd \in {"add", "recheck"}
  /\ op.at \in {"own", "record", "sync", "point"} => op.item = "vpn"
  /\ op.at \in {"own", "sync", "point"} => Tailscale
  /\ op.at = "restore" => op.cmd \in {"remove", "destroy", "uninstall"}
  /\ op.at \in {"unsave", "pick", "forget", "rmconfig", "rmstate"} => op.cmd = "uninstall"
  /\ op.at = "stop" => op.cmd \in {"remove", "destroy", "uninstall"}
  /\ op.at = "destroy" => op.cmd \in {"destroy", "uninstall"}
  /\ op.cmd = "none" => op.at = "idle"
  /\ op.cmd = "remove" => HasRef(op.item)

\* No command that is about to change the records of the gateway, or to forget
\* them, leaves the tailnet behind: its nameserver is an operator's.
Settled == resolver \notin Vmid

ResolverOK ==
  /\ ~Tailscale => Settled
  /\ "config" \notin files => Settled
  /\ op.cmd \in {"add", "recheck"} => "config" \in files
  /\ op.cmd \in {"add", "recheck"} /\ op.item = "vpn" =>
       \/ Settled
       \/ op.at \in {"config", "state"} /\ resolver = op.vmid
  /\ op.at \in {"sync", "point"} => state.ref["vpn"] = [vmid |-> op.vmid, pending |-> FALSE]
  /\ op.at = "point" => state.snapshot # Absent
  /\ op.cmd = "remove" /\ op.item = "vpn" /\ op.at # "restore" => Settled
  /\ op.cmd = "destroy" /\ op.item = "vpn" /\ op.at \in {"config", "state"} => Settled
  /\ op.cmd = "destroy" /\ op.item = "vpn" => Settled \/ resolver = op.vmid
  /\ op.cmd = "uninstall" /\ op.at # "restore" => Settled

IInv == TypeOK /\ GatewayIsRecoverable /\ PlaceOK /\ ResolverOK

-----------------------------------------------------------------------------
\* Without service remove, nothing is retained.
Known == {v \in Vmid : \E i \in Item : HasRef(i) /\ state.ref[i].vmid = v}

InHand == IF op.at \in {"stop", "destroy", "forget"} THEN {op.vmid} ELSE {}

Nothing(v) == v \in Vmid /\ lxc[v] \notin Item

RecordsOK ==
  /\ \A i \in Item : state.retained[i] = Absent
  /\ op.cmd # "remove"
  /\ "config" \in files => "state" \in files
  /\ "config" \notin files => Known = {}
  /\ op.cmd \in {"add", "recheck"} /\ HasRef(op.item) =>
       op.at # "create" /\ state.ref[op.item].vmid = op.vmid
  /\ op.cmd = "destroy" =>
       /\ HasRef(op.item) /\ state.ref[op.item].vmid = op.vmid
       /\ op.at \in {"config", "state"} => Nothing(op.vmid)
  /\ op.at = "forget" => Nothing(op.vmid)
  /\ op.cmd = "uninstall" /\ ~op.failed => Known \subseteq op.targets \cup InHand
  /\ op.at \in {"rmconfig", "rmstate"} => op.targets = {} /\ ~op.failed
  /\ op.at = "rmstate" => "config" \notin files

NInv == IInv /\ RecordsOK

\* Without crashes, and with a certificate authority of its own, a container that is
\* recorded for a service is the one created for it, or one that a recheck took for it,
\* until the command that has destroyed it saves that.
Gone == op.at = "forget" \/ (op.cmd = "destroy" /\ op.at \in {"config", "state"})

Records(i, v) == state.retained[i] = v \/ (HasRef(i) /\ state.ref[i].vmid = v)

Linked(v, i) == lxc[v] = i \/ v \in count.mistaken

Managed(v) == lxc[v] \in Item \/ v \in count.mistaken

Serves(v, i) == v \in Vmid /\ Linked(v, i)

LinksOK ==
  /\ count.crashes = 0
  /\ \A i \in Item, v \in Vmid :
       Records(i, v) => \/ Linked(v, i)
                        \/ Gone /\ op.vmid = v /\ (op.cmd = "destroy" => i = op.item)
  /\ op.cmd \in {"add", "recheck", "remove"} /\ op.at # "create" => Serves(op.vmid, op.item)
  /\ op.cmd = "destroy" /\ op.at \in {"restore", "stop", "destroy"} => Serves(op.vmid, op.item)
  /\ op.cmd = "destroy" /\ op.item = "vpn" /\ op.at \in {"stop", "destroy"} => op.force \/ Settled
  /\ op.cmd = "remove" => state.ref[op.item].vmid = op.vmid
  /\ op.cmd = "uninstall" =>
       /\ \A v \in op.targets : Managed(v)
       /\ op.at \in {"stop", "destroy"} => op.vmid \in Vmid /\ Managed(op.vmid)
       /\ op.at \in {"stop", "destroy", "forget"} => op.vmid \notin op.targets

LInv == IInv /\ LinksOK

-----------------------------------------------------------------------------
LEMMA TypeParts == TypeOK <=> WorldOK /\ DiskOK /\ OpOK /\ count \in CountType
BY DEF TypeOK, WorldOK, DiskOK, OpOK, StateType, OpType, Place, CountType

LEMMA NoOpType == NoOp \in OpType /\ NoOp.at = "idle" /\ NoOp.cmd = "none"
BY DEF NoOp, OpType, Place, Item

LEMMA IdleOK == ASSUME op = NoOp PROVE OpOK /\ PlaceOK
BY NoOpType DEF OpOK, PlaceOK, Call, Write

LEMMA NoRecordsType == NoRecords \in StateType
BY DEF NoRecords, StateType

LEMMA InitIInv == Init => IInv
<1> SUFFICES ASSUME Init PROVE IInv
  OBVIOUS
<1>1. WorldOK /\ DiskOK /\ count \in CountType
  BY NoRecordsType DEF Init, WorldOK, DiskOK, CountType
<1>2. OpOK /\ PlaceOK
  BY IdleOK DEF Init
<1>3. resolver \notin Vmid
  BY SentinelsDistinct DEF Init
<1>4. GatewayIsRecoverable /\ ResolverOK
  BY <1>3, NoOpType DEF Init, GatewayIsRecoverable, ResolverOK, Settled
<1> QED BY <1>1, <1>2, <1>4, TypeParts DEF IInv

-----------------------------------------------------------------------------
(* What the helpers of the actions do *)

Same(new) == new.cmd = op.cmd /\ new.item = op.item /\ new.force = op.force

LEMMA GotoOp ==
  ASSUME op \in OpType, NEW at \in Place, Goto(at)
  PROVE  /\ op' \in OpType /\ op'.at = at /\ Same(op')
         /\ op'.vmid = op.vmid /\ op'.targets = op.targets /\ op'.failed = op.failed
BY DEF Goto, OpType, Same

LEMMA LeaveOp ==
  ASSUME Leave
  PROVE  op' \in OpType /\ op'.at = "idle" /\ op'.cmd = "none"
BY NoOpType DEF Leave

\* Names of commands and places, so that the sets need not be expanded.
LEMMA Names ==
  /\ {"init", "add", "recheck", "remove", "destroy"} \subseteq Commands
  /\ {"create", "setup", "check", "sync", "point", "restore", "stop", "destroy", "own", "deploy", "record",
      "unsave", "pick", "forget", "config", "state", "rmconfig", "rmstate", "idle"} \subseteq Place
  /\ {"dns", "proxy", "ca", "vpn"} \subseteq Item
BY DEF Commands, Place, Call, Write, Item

LEMMA ReferenceIsThere ==
  ASSUME NEW v \in Vmid, NEW pending \in BOOLEAN
  PROVE  [vmid |-> v, pending |-> pending] # Absent
BY SentinelsDistinct

LEMMA SaveRefState ==
  ASSUME state \in StateType, op \in OpType, op.vmid # Absent, NEW pending \in BOOLEAN,
         SaveRef(pending)
  PROVE  /\ state' \in StateType
         /\ state'.retained = state.retained /\ state'.snapshot = state.snapshot
         /\ state'.ref[op.item] = [vmid |-> op.vmid, pending |-> pending]
         /\ \A i \in Item : i # op.item => state'.ref[i] = state.ref[i]
<1> DEFINE new == [vmid |-> op.vmid, pending |-> pending]
           ref == [state.ref EXCEPT ![op.item] = new]
<1>1. new \in Reference /\ op.item \in Item
  BY DEF Reference, OpType
<1>2. state.ref \in [Item -> Reference \cup {Absent}]
  BY DEF StateType
<1> HIDE DEF new
<1>3. /\ ref \in [Item -> Reference \cup {Absent}]
      /\ ref[op.item] = new /\ \A i \in Item : i # op.item => ref[i] = state.ref[i]
  BY <1>1, <1>2
<1>4. state' = [state EXCEPT !.ref = ref]
  BY DEF SaveRef, new
<1> HIDE DEF ref
<1>5. /\ state' \in StateType /\ state'.ref = ref
      /\ state'.retained = state.retained /\ state'.snapshot = state.snapshot
  BY <1>3, <1>4 DEF StateType
<1> QED BY <1>3, <1>5 DEF new

LEMMA CountedType ==
  ASSUME count \in CountType, NEW cmd, Counted(cmd)
  PROVE  /\ count' \in CountType /\ count'.crashes = count.crashes
         /\ count'.mistaken = count.mistaken
BY DEF Counted, CountType

\* The container of a recheck is the recorded one or one that is there, and is remembered
\* as mistaken unless it was created for the service.
LEMMA RecheckBegins ==
  ASSUME count \in CountType, NEW i, BeginRecheck(i)
  PROVE  /\ count' \in CountType /\ count'.crashes = count.crashes
         /\ count.mistaken \subseteq count'.mistaken
         /\ \E v \in Vmid :
              /\ HasRef(i) => v = state.ref[i].vmid
              /\ lxc[v] = HostOf(i) \/ v \in count'.mistaken
              /\ Enter(Run("recheck", i, IF HasRef(i) THEN "setup"
                                         ELSE IF Gateway(i) THEN "own" ELSE "check", v))
<1>1. PICK v \in Vmid :
        /\ IF HasRef(i) THEN v = state.ref[i].vmid ELSE lxc[v] # Absent
        /\ count' = [count EXCEPT !.commands = @ + 1,
                                !.mistaken = IF lxc[v] = HostOf(i) THEN @ ELSE @ \cup {v}]
        /\ Enter(Run("recheck", i, IF HasRef(i) THEN "setup"
                                   ELSE IF Gateway(i) THEN "own" ELSE "check", v))
  BY DEF BeginRecheck
<1> DEFINE mistaken == IF lxc[v] = HostOf(i) THEN count.mistaken ELSE count.mistaken \cup {v}
<1>2. mistaken \in SUBSET Vmid
  BY DEF CountType
<1>3. count' = [count EXCEPT !.commands = @ + 1, !.mistaken = mistaken]
  BY <1>1
<1>4. count.mistaken \subseteq mistaken /\ (lxc[v] = HostOf(i) \/ v \in mistaken)
  OBVIOUS
<1> HIDE DEF mistaken
<1> DEFINE counted == [count EXCEPT !.commands = @ + 1]
<1>5. counted \in CountType /\ counted.crashes = count.crashes
  BY DEF CountType
<1>6. count' = [counted EXCEPT !.mistaken = mistaken]
  BY <1>3 DEF CountType
<1> HIDE DEF counted
<1>7. count' \in CountType /\ count'.crashes = count.crashes /\ count'.mistaken = mistaken
  BY <1>2, <1>5, <1>6 DEF CountType
<1> QED BY <1>1, <1>4, <1>7

LEMMA StateFields ==
  ASSUME state \in StateType
  PROVE  /\ \A i \in Item : state.ref[i] \in Reference \cup {Absent}
         /\ \A i \in Item : HasRef(i) => state.ref[i] \in Reference /\ state.ref[i].vmid \in Vmid
                                         /\ state.ref[i].vmid # Absent
         /\ \A i \in Item : state.retained[i] \in Vmid \cup {Absent}
         /\ state.snapshot \in Setting \cup {DeadGateway, Absent}
BY SentinelsDistinct DEF StateType, HasRef, Reference

\* The nameserver of a tailnet is not both a container and what an operator chose.
LEMMA SettledIsSetting ==
  ASSUME WorldOK
  PROVE  Settled => resolver \in Setting \cup {DeadGateway}
BY DEF WorldOK, Settled

\* A step that changes nothing but the command.
LEMMA CommandStep ==
  ASSUME IInv, UNCHANGED <<world, disk>>, count' \in CountType, OpOK', PlaceOK', ResolverOK'
  PROVE  IInv'
<1>1. WorldOK' /\ DiskOK' /\ GatewayIsRecoverable'
  BY TypeParts DEF IInv, WorldOK, DiskOK, GatewayIsRecoverable, world, disk
<1>2. TypeOK'
  BY <1>1, TypeParts DEF TypeOK, WorldOK, DiskOK, OpOK, StateType, OpType, Place, CountType
<1> QED BY <1>1, <1>2 DEF IInv

LEMMA Parts ==
  ASSUME IInv
  PROVE  /\ WorldOK /\ DiskOK /\ OpOK /\ count \in CountType
         /\ GatewayIsRecoverable /\ PlaceOK /\ ResolverOK
         /\ op \in OpType /\ state \in StateType
         /\ op.item \in Item /\ op.vmid \in Vmid \cup {Absent} /\ op.at \in Place
BY TypeParts DEF IInv, OpOK, DiskOK, OpType

LEMMA Whole ==
  ASSUME WorldOK', DiskOK', OpOK', count' \in CountType,
         GatewayIsRecoverable', PlaceOK', ResolverOK'
  PROVE  IInv'
<1>1. TypeOK'
  BY DEF TypeOK, WorldOK, DiskOK, OpOK, StateType, OpType, Place, CountType
<1> QED BY <1>1 DEF IInv

\* The command ends, and nothing else happens.
LEMMA IdleStep ==
  ASSUME IInv, UNCHANGED <<world, disk>>, count' \in CountType, Leave
  PROVE  IInv'
<1>1. op'.at = "idle" /\ op'.cmd = "none" /\ op' \in OpType
  BY LeaveOp
<1>2. OpOK' /\ PlaceOK'
  BY <1>1 DEF OpOK, PlaceOK, Call, Write
<1>3. ResolverOK'
  BY <1>1, Parts DEF ResolverOK, Settled, world, disk
<1> QED BY <1>2, <1>3, CommandStep

-----------------------------------------------------------------------------
(* Commands begin *)

LEMMA SelectedItem == ASSUME NEW i \in Selected PROVE i \in Item
BY SelectionIsKnown

\* What a service that is not provisioned, or not yet, says about the tailnet.
LEMMA UnprovisionedSettles ==
  ASSUME IInv, HasRef("vpn") => Pending("vpn")
  PROVE  Settled
<1>1. resolver \in Vmid => state.ref["vpn"] = [vmid |-> resolver, pending |-> FALSE]
  BY DEF IInv, GatewayIsRecoverable
<1>2. resolver \in Vmid => HasRef("vpn")
  BY <1>1, ReferenceIsThere DEF HasRef
<1>3. resolver \in Vmid => ~Pending("vpn")
  BY <1>1 DEF Pending
<1> QED BY <1>2, <1>3 DEF Settled

LEMMA BeginIInv ==
  ASSUME IInv, NEW new \in OpType, Enter(new), count' \in CountType,
         new.at \in Call \cup Write, new.at # "create" /\ new.at # "pick" => new.vmid # Absent,
         new.cmd \in Commands, "config" \in files,
         \/ /\ new.cmd \in {"add", "recheck"}
            /\ \/ new.at \in {"create", "setup", "check"}
               \/ new.at = "own" /\ Gateway(new.item)
            /\ new.item = "vpn" => Settled
         \/ /\ new.cmd \in {"remove", "destroy"}
            /\ \/ new.at = "restore" /\ Gateway(new.item)
               \/ new.at = "stop"
            /\ new.cmd = "remove" => HasRef(new.item) /\ (new.at = "stop" => ~Gateway(new.item))
            /\ new.item = "vpn" /\ new.cmd = "destroy" => Settled \/ resolver = new.vmid
  PROVE  IInv'
<1>1. op' = new /\ UNCHANGED <<world, disk>>
  BY DEF Enter
<1>2. OpOK'
  BY <1>1 DEF OpOK, Write
<1>3. PlaceOK'
  BY <1>1 DEF PlaceOK, Gateway, HasRef, disk
<1>4. ResolverOK'
  BY <1>1, Parts DEF ResolverOK, Settled, Gateway, world, disk
<1> QED BY <1>1, <1>2, <1>3, <1>4, CommandStep

LEMMA InitialiseIInv == ASSUME IInv, Initialise PROVE IInv'
<1>1. op = NoOp /\ op' = op /\ state' = NoRecords /\ UNCHANGED world
      /\ files' = {"config", "state"} /\ deployed' = {} /\ "config" \notin files
  BY DEF Initialise
<1>2. WorldOK' /\ DiskOK' /\ count' \in CountType
  BY <1>1, Parts, NoRecordsType, CountedType DEF Initialise, WorldOK, DiskOK, world
<1>3. OpOK' /\ PlaceOK'
  BY <1>1, NoOpType DEF OpOK, PlaceOK, Call, Write
<1>4. Settled'
  BY <1>1, Parts DEF ResolverOK, Settled, world
<1>5. GatewayIsRecoverable' /\ ResolverOK'
  BY <1>1, <1>4, NoOpType DEF GatewayIsRecoverable, ResolverOK, Settled
<1> QED BY <1>2, <1>3, <1>5, Whole

LEMMA BeginAddIInv == ASSUME IInv, NEW i \in Selected, BeginAdd(i) PROVE IInv'
<1>1. i \in Item /\ ~HasRef(i) /\ \A j \in Needs(i) : HasRef(j)
  BY SelectedItem DEF BeginAdd
<1>2. i = "vpn" => Settled
  BY <1>1, UnprovisionedSettles
<1>3. count' \in CountType /\ "config" \in files
  BY Parts, CountedType DEF BeginAdd, Loaded
<1>4. CASE HostOf(i) = i
  <2> DEFINE new == Run("add", i, "create", Absent)
  <2>1. Enter(new)
    BY <1>4 DEF BeginAdd
  <2>2. /\ new \in OpType /\ new.cmd = "add" /\ new.item = i /\ new.at = "create"
    BY <1>1, Names DEF Run, NoOp, OpType
  <2> HIDE DEF new
  <2> QED BY <1>2, <1>3, <2>1, <2>2, BeginIInv DEF Commands, Call
<1>5. CASE HostOf(i) # i
  <2> DEFINE v == state.ref[HostOf(i)].vmid
             new == Run("add", i, "setup", v)
  <2>1. HostOf(i) = "proxy" /\ HasRef("proxy")
    BY <1>1, <1>5 DEF HostOf, Needs
  <2>2. v \in Vmid /\ v # Absent
    BY <2>1, Parts, StateFields DEF Item
  <2>3. Enter(new)
    BY <1>5 DEF BeginAdd
  <2> HIDE DEF v
  <2>4. /\ new \in OpType /\ new.cmd = "add" /\ new.item = i /\ new.at = "setup" /\ new.vmid = v
    BY <1>1, <2>2, Names DEF Run, NoOp, OpType
  <2> HIDE DEF new
  <2> QED BY <1>2, <1>3, <2>2, <2>3, <2>4, BeginIInv DEF Commands, Call
<1> QED BY <1>4, <1>5

LEMMA BeginRecheckIInv == ASSUME IInv, NEW i \in Selected, BeginRecheck(i) PROVE IInv'
<1>1. i \in Item /\ (HasRef(i) => Pending(i))
  BY SelectedItem DEF BeginRecheck
<1>2. i = "vpn" => Settled
  BY <1>1, UnprovisionedSettles
<1>3. count' \in CountType /\ "config" \in files
  BY Parts, RecheckBegins DEF BeginRecheck, Loaded
<1> DEFINE at == IF HasRef(i) THEN "setup" ELSE IF Gateway(i) THEN "own" ELSE "check"
<1>4. PICK v \in Vmid : Enter(Run("recheck", i, at, v))
  BY Parts, RecheckBegins
<1>5. at \in {"own", "setup", "check"} /\ (at = "own" => Gateway(i))
  OBVIOUS
<1> HIDE DEF at
<1> DEFINE new == Run("recheck", i, at, v)
<1>6. new \in OpType /\ new.cmd = "recheck" /\ new.item = i /\ new.at = at /\ new.vmid = v
  BY <1>1, <1>5, Names DEF Run, NoOp, OpType
<1>7. v # Absent
  BY SentinelsDistinct
<1>8. Enter(new)
  BY <1>4
<1> HIDE DEF new
<1> QED BY <1>2, <1>3, <1>5, <1>6, <1>7, <1>8, BeginIInv DEF Commands, Call, Write

LEMMA BeginRemoveIInv == ASSUME IInv, NEW i \in Selected, BeginRemove(i) PROVE IInv'
<1>1. i \in Item /\ HasRef(i)
  BY SelectedItem DEF BeginRemove
<1>3. count' \in CountType /\ "config" \in files
  BY Parts, CountedType DEF BeginRemove, Loaded
<1> DEFINE at == IF Gateway(i) THEN "restore" ELSE "stop"
           v == state.ref[i].vmid
           new == Run("remove", i, at, v)
<1>4. Enter(new)
  BY DEF BeginRemove
<1>5. v \in Vmid /\ v # Absent
  BY <1>1, Parts, StateFields
<1>6. at = (IF Gateway(i) THEN "restore" ELSE "stop")
  OBVIOUS
<1> HIDE DEF v, at
<1>7. new \in OpType /\ new.cmd = "remove" /\ new.item = i /\ new.at = at /\ new.vmid = v
  BY <1>1, <1>5, <1>6, Names DEF Run, NoOp, OpType
<1> HIDE DEF new
<1> QED BY <1>1, <1>3, <1>4, <1>5, <1>6, <1>7, BeginIInv DEF Commands, Call

LEMMA BeginDestroyIInv ==
  ASSUME IInv, NEW i \in Selected, NEW force \in BOOLEAN, BeginDestroy(i, force)
  PROVE  IInv'
<1> DEFINE v == IF HasRef(i) THEN state.ref[i].vmid ELSE state.retained[i]
           restore == /\ Gateway(i) /\ HasRef(i) /\ ~force
                      /\ ~Pending(i) \/ state.snapshot # Absent
           at == IF restore THEN "restore" ELSE "stop"
           run == Run("destroy", i, at, v)
           new == [run EXCEPT !.force = force]
<1>1. i \in Item
  BY SelectedItem
<1>2. v # Absent /\ Enter(new) /\ count' \in CountType /\ "config" \in files
  BY Parts, CountedType DEF BeginDestroy, Loaded
<1>3. v \in Vmid
  BY <1>1, <1>2, Parts, StateFields
<1>4. i = "vpn" => Settled \/ resolver = v
  <2> SUFFICES ASSUME i = "vpn", resolver \in Vmid PROVE resolver = v
    BY DEF Settled
  <2>1. state.ref[i] = [vmid |-> resolver, pending |-> FALSE]
    BY Parts DEF GatewayIsRecoverable
  <2>2. HasRef(i)
    BY <2>1, ReferenceIsThere DEF HasRef
  <2> QED BY <2>1, <2>2
<1>5. at \in {"restore", "stop"} /\ (at = "restore" => Gateway(i))
  OBVIOUS
<1> HIDE DEF v, at
<1>6. run \in OpType /\ run.cmd = "destroy" /\ run.item = i /\ run.at = at /\ run.vmid = v
  BY <1>1, <1>3, <1>5, Names DEF Run, NoOp, OpType
<1> HIDE DEF run
<1>7. new \in OpType /\ new.cmd = "destroy" /\ new.item = i /\ new.at = at /\ new.vmid = v
  BY <1>6 DEF OpType
<1> HIDE DEF new
<1> QED BY <1>1, <1>2, <1>3, <1>4, <1>5, <1>7, BeginIInv DEF Commands, Call

LEMMA BeginUninstallIInv == ASSUME IInv, BeginUninstall PROVE IInv'
<1>1. op = NoOp /\ UNCHANGED <<world, disk>> /\ count' \in CountType
  BY Parts DEF BeginUninstall, Enter
<1>2. Recorded \subseteq Vmid
  BY DEF Recorded
<1>3. \/ /\ op' \in OpType /\ op'.cmd = "uninstall" /\ op'.at = "pick" /\ Settled
      \/ /\ op' \in OpType /\ op'.cmd = "uninstall" /\ op'.at = "restore" /\ op'.vmid # Absent
  <2>1. CASE "config" \notin files /\ Enter(Run("uninstall", "dns", "pick", Absent))
    BY <2>1, Parts, Names DEF Run, NoOp, OpType, Enter, ResolverOK
  <2>2. CASE /\ state.snapshot = Absent
             /\ Enter([Run("uninstall", "dns", "pick", Absent) EXCEPT !.targets = Recorded])
    <3> DEFINE run == Run("uninstall", "dns", "pick", Absent)
    <3>1. run \in OpType /\ run.cmd = "uninstall" /\ run.at = "pick"
      BY Names DEF Run, NoOp, OpType
    <3>2. op' = [run EXCEPT !.targets = Recorded]
      BY <2>2 DEF Enter
    <3> HIDE DEF run
    <3>3. op' \in OpType /\ op'.cmd = "uninstall" /\ op'.at = "pick"
      BY <1>2, <3>1, <3>2 DEF OpType
    <3> QED BY <2>2, <3>3, Parts DEF GatewayIsRecoverable, Settled
  <2>3. CASE /\ HasRef("vpn")
             /\ Enter([Run("uninstall", "vpn", "restore", state.ref["vpn"].vmid)
                        EXCEPT !.targets = Recorded])
    <3> DEFINE v == state.ref["vpn"].vmid
               run == Run("uninstall", "vpn", "restore", v)
    <3>1. v \in Vmid /\ v # Absent
      BY <2>3, Parts, StateFields DEF Item
    <3>2. op' = [run EXCEPT !.targets = Recorded]
      BY <2>3 DEF Enter
    <3> HIDE DEF v
    <3>3. run \in OpType /\ run.cmd = "uninstall" /\ run.at = "restore" /\ run.vmid = v
      BY <3>1, Names DEF Run, NoOp, OpType
    <3> HIDE DEF run
    <3>4. op' \in OpType /\ op'.cmd = "uninstall" /\ op'.at = "restore" /\ op'.vmid = v
      BY <1>2, <3>2, <3>3 DEF OpType
    <3> QED BY <3>1, <3>4
  <2> QED BY <2>1, <2>2, <2>3 DEF BeginUninstall
<1>4. OpOK' /\ PlaceOK'
  BY <1>3 DEF OpOK, PlaceOK
<1>5. ResolverOK'
  BY <1>1, <1>3, Parts DEF ResolverOK, Settled, world, disk
<1> QED BY <1>1, <1>4, <1>5, CommandStep

-----------------------------------------------------------------------------
(* The steps of a command *)

\* A step that leaves the disk alone, or changes no record that the gateway needs.
LEMMA KeepsGateway ==
  ASSUME GatewayIsRecoverable, resolver' = resolver,
         resolver \in Vmid => state'.ref["vpn"] = state.ref["vpn"] /\ state'.snapshot = state.snapshot
  PROVE  GatewayIsRecoverable'
BY DEF GatewayIsRecoverable

LEMMA CreateLxcIInv == ASSUME IInv, CreateLxc PROVE IInv'
<1>1. op.at = "create" /\ count' = count
  BY DEF CreateLxc, Works, At
<1>2. PICK v \in Vmid :
        /\ lxc[v] = Absent
        /\ lxc' = [lxc EXCEPT ![v] = op.item]
        /\ running' = running \cup {v}
        /\ op' = [op EXCEPT !.vmid = v, !.at = IF Gateway(op.item) THEN "own" ELSE "setup"]
        /\ UNCHANGED <<enrolled, resolver, disk>>
  BY DEF CreateLxc
<1> DEFINE at == IF Gateway(op.item) THEN "own" ELSE "setup"
<1>3. at \in {"own", "setup"} /\ (at = "own" => Gateway(op.item))
  OBVIOUS
<1> HIDE DEF at
<1>4. op' = [op EXCEPT !.vmid = v, !.at = at]
  BY <1>2 DEF at
<1>5. op' \in OpType /\ op'.at = at /\ op'.vmid = v /\ Same(op')
  BY <1>3, <1>4, Parts, Names DEF OpType, Same
<1>6. v # Absent
  BY SentinelsDistinct
<1>7. WorldOK'
  <2>1. op.item # Absent
    BY Parts, SentinelsDistinct
  <2> QED BY <1>2, <2>1, Parts DEF WorldOK
<1>8. DiskOK' /\ GatewayIsRecoverable'
  BY <1>2, Parts DEF DiskOK, GatewayIsRecoverable, disk
<1>9. OpOK'
  BY <1>5, <1>6 DEF OpOK
<1>10. PlaceOK'
  BY <1>1, <1>3, <1>5, Parts DEF PlaceOK, Gateway, Same
<1>11. ResolverOK'
  BY <1>1, <1>2, <1>3, <1>5, Parts DEF ResolverOK, PlaceOK, Settled, Same, disk
<1> QED BY <1>1, <1>7, <1>8, <1>9, <1>10, <1>11, Parts, Whole

\* A step to another place, in which only the records change.
LEMMA RecordStep ==
  ASSUME IInv, NEW at \in Place, Goto(at), UNCHANGED <<world, count>>, files' = files,
         deployed' \subseteq Item, state' \in StateType,
         resolver \in Vmid => state'.ref["vpn"] = state.ref["vpn"] /\ state'.snapshot = state.snapshot,
         at \in (Call \cup Write) \ {"create", "pick", "rmconfig", "rmstate"} => op.vmid # Absent,
         op'.at = at /\ op'.vmid = op.vmid /\ Same(op') => PlaceOK' /\ ResolverOK'
  PROVE  IInv'
<1>1. op' \in OpType /\ op'.at = at /\ op'.vmid = op.vmid /\ Same(op')
  BY Parts, GotoOp
<1>2. WorldOK' /\ DiskOK' /\ count' \in CountType
  BY Parts DEF WorldOK, DiskOK, world
<1>3. OpOK'
  BY <1>1 DEF OpOK
<1>4. GatewayIsRecoverable'
  BY Parts, KeepsGateway DEF world
<1> QED BY <1>1, <1>2, <1>3, <1>4, Whole

LEMMA OwnIInv == ASSUME IInv, Own PROVE IInv'
<1> DEFINE at == IF op.cmd = "add" THEN "deploy" ELSE "check"
<1>1. op.at = "own" /\ SaveRef(TRUE) /\ Goto(at) /\ UNCHANGED <<world, files, deployed, count>>
  BY DEF Own, At
<1>2. at \in {"deploy", "check"}
  OBVIOUS
<1> HIDE DEF at
<1>3. op.cmd \in {"add", "recheck"} /\ op.item = "vpn" /\ Tailscale
  BY <1>1, Parts DEF PlaceOK
<1>4. op.vmid # Absent
  BY <1>1, Parts DEF OpOK, Write
<1>5. Settled
  BY <1>1, <1>3, Parts DEF ResolverOK
<1>6. state' \in StateType
  BY <1>1, <1>4, Parts, SaveRefState
<1>8. ASSUME op'.at = at, op'.vmid = op.vmid, Same(op') PROVE PlaceOK' /\ ResolverOK'
  <2>1. PlaceOK'
    BY <1>2, <1>3, <1>8 DEF PlaceOK, Same
  <2>2. ResolverOK'
    BY <1>1, <1>2, <1>3, <1>5, <1>8, Parts DEF ResolverOK, Same, Settled, world
  <2> QED BY <2>1, <2>2
<1> QED BY <1>1, <1>2, <1>4, <1>5, <1>6, <1>8, RecordStep, Names, Parts DEF Settled, DiskOK

LEMMA DeployIInv == ASSUME IInv, Deploy PROVE IInv'
<1>1. op.at = "deploy" /\ Goto("setup") /\ deployed' = deployed \cup {op.item}
      /\ UNCHANGED <<world, files, state, count>>
  BY DEF Deploy, At
<1>2. op.cmd \in {"add", "recheck"} /\ op.vmid # Absent
  BY <1>1, Parts DEF PlaceOK, OpOK, Write
<1>3. ASSUME op'.at = "setup", op'.vmid = op.vmid, Same(op') PROVE PlaceOK' /\ ResolverOK'
  <2>1. PlaceOK'
    BY <1>2, <1>3 DEF PlaceOK, Same
  <2>2. ResolverOK'
    BY <1>1, <1>2, <1>3, Parts DEF ResolverOK, Same, Settled, world
  <2> QED BY <2>1, <2>2
<1> QED BY <1>1, <1>2, <1>3, RecordStep, Names, Parts DEF DiskOK

LEMMA SetupIInv == ASSUME IInv, Setup PROVE IInv'
<1> DEFINE at == IF Gateway(op.item) \/ (op.item = "vpn" /\ op.cmd = "add") THEN "record"
                 ELSE IF HostOf(op.item) # op.item /\ op.cmd = "add" THEN "state"
                 ELSE "config"
<1>1. /\ op.at \in {"setup", "check"} /\ Goto(at)
      /\ op.item = "vpn" => op.vmid \in running
      /\ enrolled' = (IF op.item = "vpn" THEN enrolled \cup {op.vmid} ELSE enrolled)
      /\ UNCHANGED <<lxc, running, resolver, disk, count>>
  BY DEF Setup, Works, At, Accepted, Runs
<1>2. at \in {"record", "state", "config"} /\ (at = "record" => op.item = "vpn")
  BY DEF Gateway
<1> HIDE DEF at
<1>3. op.cmd \in {"add", "recheck"} /\ op.vmid # Absent
  BY <1>1, Parts DEF PlaceOK, OpOK, Call
<1>4. op' \in OpType /\ op'.at = at /\ op'.vmid = op.vmid /\ Same(op')
  BY <1>1, <1>2, Parts, Names, GotoOp
<1>5. WorldOK' /\ DiskOK' /\ OpOK' /\ count' \in CountType /\ GatewayIsRecoverable'
  BY <1>1, <1>3, <1>4, Parts DEF WorldOK, DiskOK, OpOK, GatewayIsRecoverable, disk
<1>6. PlaceOK'
  BY <1>2, <1>3, <1>4 DEF PlaceOK, Same
<1>7. ResolverOK'
  BY <1>1, <1>2, <1>3, <1>4, Parts DEF ResolverOK, Same, Settled, disk
<1> QED BY <1>5, <1>6, <1>7, Whole

LEMMA RecordIInv == ASSUME IInv, Record PROVE IInv'
<1> DEFINE at == IF Tailscale THEN "sync" ELSE "config"
<1>1. op.at = "record" /\ SaveRef(FALSE) /\ Goto(at) /\ UNCHANGED <<world, files, deployed, count>>
  BY DEF Record, At
<1>2. at \in {"sync", "config"} /\ (at = "sync" => Tailscale)
  OBVIOUS
<1> HIDE DEF at
<1>3. op.cmd \in {"add", "recheck"} /\ op.item = "vpn" /\ op.vmid # Absent
  BY <1>1, Parts DEF PlaceOK, OpOK, Write
<1>4. Settled
  BY <1>1, <1>3, Parts DEF ResolverOK
<1>5. state' \in StateType /\ state'.ref["vpn"] = [vmid |-> op.vmid, pending |-> FALSE]
  BY <1>1, <1>3, Parts, SaveRefState
<1>6. ASSUME op'.at = at, op'.vmid = op.vmid, Same(op') PROVE PlaceOK' /\ ResolverOK'
  <2>1. PlaceOK'
    BY <1>2, <1>3, <1>6 DEF PlaceOK, Same
  <2>2. ResolverOK'
    BY <1>1, <1>2, <1>3, <1>4, <1>5, <1>6, Parts DEF ResolverOK, Same, Settled, world
  <2> QED BY <2>1, <2>2
<1> QED BY <1>1, <1>2, <1>3, <1>4, <1>5, <1>6, RecordStep, Names, Parts DEF DiskOK, Settled

LEMMA SyncTailnetIInv == ASSUME IInv, SyncTailnet PROVE IInv'
<1>1. op.at = "sync" /\ UNCHANGED <<world, files, deployed, count>>
  BY DEF SyncTailnet, Works, At
<1>2. op.cmd \in {"add", "recheck"} /\ op.item = "vpn" /\ Tailscale /\ op.vmid # Absent
  BY <1>1, Parts DEF PlaceOK, OpOK, Call
<1>3. Settled /\ state.ref["vpn"] = [vmid |-> op.vmid, pending |-> FALSE]
  BY <1>1, <1>2, Parts DEF ResolverOK
<1>4. resolver # op.vmid
  BY <1>2, <1>3, Parts DEF Settled
<1>5. state' = [state EXCEPT !.snapshot = resolver] /\ Goto("point")
  BY <1>4 DEF SyncTailnet
<1>6. resolver \in Setting \cup {DeadGateway}
  BY <1>3, Parts, SettledIsSetting
<1>7. state' \in StateType /\ state'.ref = state.ref /\ state'.snapshot = resolver
  BY <1>5, <1>6, Parts DEF StateType
<1>8. resolver # Absent
  BY <1>6, SentinelsDistinct
<1>9. ASSUME op'.at = "point", op'.vmid = op.vmid, Same(op') PROVE PlaceOK' /\ ResolverOK'
  <2>1. PlaceOK'
    BY <1>2, <1>9 DEF PlaceOK, Same
  <2>2. ResolverOK'
    BY <1>1, <1>2, <1>3, <1>7, <1>8, <1>9, Parts DEF ResolverOK, Same, Settled, world
  <2> QED BY <2>1, <2>2
<1> QED BY <1>1, <1>2, <1>3, <1>5, <1>7, <1>9, RecordStep, Names, Parts DEF DiskOK, Settled

\* The nameserver becomes the gateway at work, which is recorded.
LEMMA PointsToRecorded ==
  ASSUME IInv, op.at = "point", resolver' = op.vmid, UNCHANGED <<lxc, running, enrolled, state>>
  PROVE  WorldOK' /\ GatewayIsRecoverable' /\ op.cmd \in {"add", "recheck"} /\ op.item = "vpn"
         /\ Tailscale /\ op.vmid # Absent
<1>1. op.vmid # Absent /\ op.cmd \in {"add", "recheck"} /\ op.item = "vpn" /\ Tailscale
  BY Parts DEF PlaceOK, OpOK, Call
<1>2. WorldOK'
  BY <1>1, Parts DEF WorldOK
<1>3. GatewayIsRecoverable'
  BY <1>1, Parts DEF GatewayIsRecoverable, ResolverOK
<1> QED BY <1>1, <1>2, <1>3

LEMMA PointResolverIInv == ASSUME IInv, PointResolver PROVE IInv'
<1>1. /\ op.at = "point" /\ resolver' = op.vmid /\ Goto("config")
      /\ UNCHANGED <<lxc, running, enrolled, disk, count>>
  BY DEF PointResolver, Works, At
<1>2. /\ op.cmd \in {"add", "recheck"} /\ op.item = "vpn" /\ Tailscale /\ op.vmid # Absent
      /\ WorldOK' /\ GatewayIsRecoverable'
  BY <1>1, PointsToRecorded DEF disk
<1>3. op' \in OpType /\ op'.at = "config" /\ op'.vmid = op.vmid /\ Same(op')
  BY <1>1, Parts, Names, GotoOp
<1>4. DiskOK' /\ OpOK' /\ count' \in CountType
  BY <1>1, <1>2, <1>3, Parts DEF DiskOK, OpOK, disk
<1>5. PlaceOK'
  BY <1>2, <1>3 DEF PlaceOK, Same
<1>6. ResolverOK'
  <2>1. "config" \in files
    BY <1>2, Parts DEF ResolverOK
  <2> QED BY <1>1, <1>2, <1>3, <2>1, Parts DEF ResolverOK, Same, Settled, disk
<1> QED BY <1>2, <1>4, <1>5, <1>6, Whole

\* restoreTailnetDns takes the gateway out of service, or finds it so.
LEMMA RestoreSettles ==
  ASSUME IInv, resolver' = (IF state.snapshot = Absent THEN resolver ELSE state.snapshot)
  PROVE  Settled' /\ resolver' \in Setting \cup {DeadGateway}
<1>1. CASE state.snapshot = Absent
  <2>1. Settled
    BY <1>1, Parts DEF GatewayIsRecoverable, Settled
  <2> QED BY <1>1, <2>1, Parts, SettledIsSetting DEF Settled
<1>2. CASE state.snapshot # Absent
  <2>1. state.snapshot \in Setting \cup {DeadGateway}
    BY <1>2, Parts, StateFields
  <2> QED BY <1>2, <2>1, SentinelsDistinct DEF Settled
<1> QED BY <1>1, <1>2

LEMMA RestoreDnsIInv == ASSUME IInv, RestoreDns PROVE IInv'
<1> DEFINE at == IF op.cmd = "uninstall" THEN "unsave" ELSE "stop"
<1>1. /\ op.at = "restore" /\ Goto(at)
      /\ resolver' = IF state.snapshot = Absent THEN resolver ELSE state.snapshot
      /\ UNCHANGED <<lxc, running, enrolled, disk, count>>
  BY DEF RestoreDns, Works, At
<1>2. at \in {"unsave", "stop"} /\ (at = "unsave" => op.cmd = "uninstall")
  OBVIOUS
<1> HIDE DEF at
<1>3. op' \in OpType /\ op'.at = at /\ op'.vmid = op.vmid /\ Same(op')
  BY <1>1, <1>2, Parts, Names, GotoOp
<1>4. Settled' /\ resolver' \in Setting \cup {DeadGateway}
  BY <1>1, RestoreSettles
<1>5. op.vmid # Absent /\ op.cmd \in {"remove", "destroy", "uninstall"}
  BY <1>1, Parts DEF OpOK, PlaceOK, Call
<1>6. WorldOK' /\ DiskOK' /\ OpOK' /\ count' \in CountType /\ GatewayIsRecoverable'
  BY <1>1, <1>3, <1>4, <1>5, Parts DEF WorldOK, DiskOK, OpOK, GatewayIsRecoverable, Settled, disk
<1>7. PlaceOK'
  BY <1>1, <1>2, <1>3, <1>5, Parts DEF PlaceOK, HasRef, Same, disk
<1>8. ResolverOK'
  BY <1>1, <1>2, <1>3, <1>4, <1>5 DEF ResolverOK, Same, Settled
<1> QED BY <1>6, <1>7, <1>8, Whole

LEMMA UnsaveIInv == ASSUME IInv, Unsave PROVE IInv'
<1>1. /\ op.at = "unsave" /\ Goto("pick") /\ UNCHANGED <<world, files, deployed, count>>
      /\ state' = [state EXCEPT !.snapshot = Absent]
  BY DEF Unsave, At
<1>2. op.cmd = "uninstall" /\ Settled
  BY <1>1, Parts DEF PlaceOK, ResolverOK
<1>3. state' \in StateType
  BY <1>1, Parts DEF StateType
<1>4. ASSUME op'.at = "pick", op'.vmid = op.vmid, Same(op') PROVE PlaceOK' /\ ResolverOK'
  BY <1>1, <1>2, <1>4, Parts DEF PlaceOK, ResolverOK, Same, Settled, world
<1> QED BY <1>1, <1>2, <1>3, <1>4, RecordStep, Names, Parts DEF DiskOK, Settled

LEMMA StopLxcIInv == ASSUME IInv, StopLxc PROVE IInv'
<1> DEFINE at == IF op.cmd = "remove" THEN "config" ELSE "destroy"
<1>1. /\ op.at = "stop" /\ Goto(at) /\ running' = running \ {op.vmid}
      /\ UNCHANGED <<lxc, enrolled, resolver, disk, count>>
  BY DEF StopLxc, Works, At
<1>2. at \in {"config", "destroy"} /\ (at = "config" <=> op.cmd = "remove")
  OBVIOUS
<1> HIDE DEF at
<1>3. op' \in OpType /\ op'.at = at /\ op'.vmid = op.vmid /\ Same(op')
  BY <1>1, <1>2, Parts, Names, GotoOp
<1>4. op.vmid # Absent /\ op.cmd \in {"remove", "destroy", "uninstall"}
  BY <1>1, Parts DEF OpOK, PlaceOK, Call
<1>5. WorldOK' /\ DiskOK' /\ OpOK' /\ count' \in CountType /\ GatewayIsRecoverable'
  BY <1>1, <1>3, <1>4, Parts DEF WorldOK, DiskOK, OpOK, GatewayIsRecoverable, disk
<1>6. PlaceOK'
  BY <1>1, <1>2, <1>3, <1>4, Parts DEF PlaceOK, HasRef, Same, disk
<1>7. ResolverOK'
  BY <1>1, <1>2, <1>3, <1>4, Parts DEF ResolverOK, Same, Settled, disk
<1> QED BY <1>5, <1>6, <1>7, Whole

LEMMA DestroyLxcIInv == ASSUME IInv, DestroyLxc PROVE IInv'
<1> DEFINE at == IF op.cmd = "uninstall" THEN "forget" ELSE "config"
<1>1. /\ op.at = "destroy" /\ Goto(at) /\ op.vmid \notin running
      /\ lxc' = [lxc EXCEPT ![op.vmid] = Absent]
      /\ enrolled' = enrolled \ {op.vmid}
      /\ resolver' = (IF resolver = op.vmid THEN DeadGateway ELSE resolver)
      /\ UNCHANGED <<running, disk, count>>
  BY DEF DestroyLxc, Works, At, Accepted
<1>2. at \in {"forget", "config"} /\ (at = "forget" <=> op.cmd = "uninstall")
  OBVIOUS
<1> HIDE DEF at
<1>3. op' \in OpType /\ op'.at = at /\ op'.vmid = op.vmid /\ Same(op')
  BY <1>1, <1>2, Parts, Names, GotoOp
<1>4. op.vmid # Absent /\ op.vmid \in Vmid /\ op.cmd \in {"destroy", "uninstall"}
  BY <1>1, Parts DEF OpOK, PlaceOK, Call
<1>5. WorldOK'
  BY <1>1, <1>4, Parts DEF WorldOK
<1>6. DiskOK' /\ OpOK' /\ count' \in CountType
  BY <1>1, <1>3, <1>4, Parts DEF DiskOK, OpOK, disk
<1>7. DeadGateway \notin Vmid
  BY SentinelsDistinct
<1>8. GatewayIsRecoverable'
  BY <1>1, <1>7, Parts DEF GatewayIsRecoverable, disk
<1>9. PlaceOK'
  BY <1>1, <1>2, <1>3, <1>4, Parts DEF PlaceOK, Same
<1>10. ResolverOK'
  BY <1>1, <1>2, <1>3, <1>4, <1>7, Parts DEF ResolverOK, Same, Settled, disk
<1> QED BY <1>5, <1>6, <1>8, <1>9, <1>10, Whole

LEMMA PickIInv == ASSUME IInv, Pick PROVE IInv'
<1>1. op.at = "pick" /\ UNCHANGED <<world, disk, count>>
  BY DEF Pick, At
<1>2. op.cmd = "uninstall" /\ Settled
  BY <1>1, Parts DEF PlaceOK, ResolverOK
<1>3. ASSUME NEW v \in op.targets,
             op' = [op EXCEPT !.vmid = v, !.targets = @ \ {v}, !.at = "stop"]
      PROVE  IInv'
  <2>1. v \in Vmid /\ v # Absent /\ op.targets \subseteq Vmid
    BY Parts, SentinelsDistinct DEF OpType
  <2>2. op' \in OpType /\ op'.at = "stop" /\ op'.vmid = v /\ Same(op')
    BY <1>3, <2>1, Parts, Names DEF OpType, Same
  <2>3. OpOK' /\ PlaceOK' /\ ResolverOK'
    BY <1>1, <1>2, <2>1, <2>2, Parts DEF OpOK, PlaceOK, ResolverOK, Same, Settled, world, disk
  <2> QED BY <1>1, <2>3, Parts, CommandStep
<1>4. CASE Leave
  BY <1>1, <1>4, Parts, IdleStep
<1>5. CASE Goto("rmconfig")
  <2>1. op' \in OpType /\ op'.at = "rmconfig" /\ op'.vmid = op.vmid /\ Same(op')
    BY <1>5, Parts, Names, GotoOp
  <2>2. OpOK' /\ PlaceOK' /\ ResolverOK'
    BY <1>1, <1>2, <2>1, Parts DEF OpOK, PlaceOK, ResolverOK, Same, Settled, world, disk
  <2> QED BY <1>1, <2>2, Parts, CommandStep
<1> QED BY <1>3, <1>4, <1>5 DEF Pick

LEMMA ForgottenState ==
  ASSUME state \in StateType, NEW v \in Vmid
  PROVE  /\ Forgotten(v) \in StateType
         /\ \A i \in Item : Forgotten(v).ref[i] = (IF HasRef(i) /\ state.ref[i].vmid = v THEN Absent
                                                  ELSE state.ref[i])
         /\ \A i \in Item : Forgotten(v).retained[i] = (IF state.retained[i] = v THEN Absent
                                                       ELSE state.retained[i])
         /\ Forgotten(v).snapshot = state.snapshot
BY DEF Forgotten, StateType

LEMMA ForgetIInv == ASSUME IInv, Forget PROVE IInv'
<1>1. /\ op.at = "forget" /\ Goto("pick") /\ UNCHANGED <<world, files, deployed, count>>
      /\ state' = Forgotten(op.vmid)
  BY DEF Forget, At
<1>2. op.cmd = "uninstall" /\ Settled /\ op.vmid \in Vmid
  BY <1>1, Parts DEF PlaceOK, ResolverOK, OpOK, Write
<1>3. state' \in StateType
  BY <1>1, <1>2, Parts, ForgottenState
<1>4. ASSUME op'.at = "pick", op'.vmid = op.vmid, Same(op') PROVE PlaceOK' /\ ResolverOK'
  BY <1>1, <1>2, <1>4, Parts DEF PlaceOK, ResolverOK, Same, Settled, world
<1> QED BY <1>1, <1>2, <1>3, <1>4, RecordStep, Names, Parts DEF DiskOK, Settled

LEMMA SaveConfigIInv == ASSUME IInv, SaveConfig PROVE IInv'
<1>1. /\ op.at = "config" /\ Goto("state") /\ UNCHANGED <<world, files, state, count>>
      /\ deployed' \subseteq deployed \cup {op.item}
  BY DEF SaveConfig, At
<1>2. op.vmid # Absent
  BY <1>1, Parts DEF OpOK, Write
<1>3. ASSUME op'.at = "state", op'.vmid = op.vmid, Same(op') PROVE PlaceOK' /\ ResolverOK'
  <2>1. PlaceOK'
    BY <1>1, <1>3, Parts DEF PlaceOK, HasRef, Same
  <2>2. ResolverOK'
    BY <1>1, <1>3, Parts DEF ResolverOK, Same, Settled, world
  <2> QED BY <2>1, <2>2
<1> QED BY <1>1, <1>2, <1>3, RecordStep, Names, Parts DEF DiskOK

\* The records that service remove and service destroy leave.
LEMMA RemovedState ==
  ASSUME state \in StateType, NEW i \in Item, HasRef(i)
  PROVE  /\ Removed(i) \in StateType
         /\ \A j \in Item : j # i => Removed(i).ref[j] = state.ref[j]
         /\ ~Gateway(i) => Removed(i).snapshot = state.snapshot
<1> DEFINE v == state.ref[i].vmid
           ref == [state.ref EXCEPT ![i] = Absent]
           retained == [state.retained EXCEPT ![i] = v]
           snapshot == IF Gateway(i) THEN Absent ELSE state.snapshot
<1>1. v \in Vmid
  BY StateFields
<1> HIDE DEF v
<1>2. ref \in [Item -> Reference \cup {Absent}] /\ \A j \in Item : j # i => ref[j] = state.ref[j]
  BY DEF StateType
<1>3. retained \in [Item -> Vmid \cup {Absent}]
  BY <1>1 DEF StateType
<1>4. snapshot \in Setting \cup {DeadGateway, Absent} /\ (~Gateway(i) => snapshot = state.snapshot)
  BY DEF StateType
<1>5. Removed(i) = [ref |-> ref, retained |-> retained, snapshot |-> snapshot]
  BY DEF Removed, v
<1> HIDE DEF ref, retained, snapshot
<1> QED BY <1>2, <1>3, <1>4, <1>5 DEF StateType

LEMMA DestroyedState ==
  ASSUME state \in StateType, NEW i \in Item
  PROVE  /\ Destroyed(i) \in StateType
         /\ Destroyed(i).ref[i] = Absent /\ Destroyed(i).retained[i] = Absent
         /\ \A j \in Item : j # i => /\ Destroyed(i).ref[j] = state.ref[j]
                                     /\ Destroyed(i).retained[j] = state.retained[j]
         /\ ~Gateway(i) => Destroyed(i).snapshot = state.snapshot
<1> DEFINE ref == [state.ref EXCEPT ![i] = Absent]
           retained == [state.retained EXCEPT ![i] = Absent]
           snapshot == IF Gateway(i) THEN Absent ELSE state.snapshot
<1>1. /\ ref \in [Item -> Reference \cup {Absent}]
      /\ ref[i] = Absent /\ \A j \in Item : j # i => ref[j] = state.ref[j]
  BY DEF StateType
<1>2. /\ retained \in [Item -> Vmid \cup {Absent}]
      /\ retained[i] = Absent /\ \A j \in Item : j # i => retained[j] = state.retained[j]
  BY DEF StateType
<1>3. snapshot \in Setting \cup {DeadGateway, Absent} /\ (~Gateway(i) => snapshot = state.snapshot)
  BY DEF StateType
<1>4. Destroyed(i) = [ref |-> ref, retained |-> retained, snapshot |-> snapshot]
  BY DEF Destroyed
<1> HIDE DEF ref, retained, snapshot
<1> QED BY <1>1, <1>2, <1>3, <1>4 DEF StateType

LEMMA SaveStateIInv == ASSUME IInv, SaveState PROVE IInv'
<1>1. op.at = "state" /\ Leave /\ UNCHANGED <<world, files, deployed, count>>
  BY DEF SaveState, At
<1>2. op'.at = "idle" /\ op'.cmd = "none" /\ op' \in OpType
  BY <1>1, LeaveOp
<1>3. OpOK' /\ PlaceOK'
  BY <1>2 DEF OpOK, PlaceOK, Call, Write
<1>4. ResolverOK'
  BY <1>1, <1>2, Parts DEF ResolverOK, Settled, world
<1>5. op.vmid # Absent
  BY <1>1, Parts DEF OpOK, Write
<1>6. state' \in StateType /\ GatewayIsRecoverable'
  <2>1. CASE op.cmd \in {"add", "recheck"} /\ SaveRef(FALSE)
    <3>1. /\ state' \in StateType /\ state'.snapshot = state.snapshot
          /\ state'.ref[op.item] = [vmid |-> op.vmid, pending |-> FALSE]
          /\ \A i \in Item : i # op.item => state'.ref[i] = state.ref[i]
      BY <1>5, <2>1, Parts, SaveRefState
    <3>2. CASE op.item = "vpn"
      <4>1. Settled \/ resolver = op.vmid
        BY <2>1, <3>2, Parts DEF ResolverOK
      <4> QED BY <1>1, <3>1, <3>2, <4>1, Parts DEF GatewayIsRecoverable, Settled, world
    <3>3. CASE op.item # "vpn"
      BY <1>1, <3>1, <3>3, Parts, Names DEF GatewayIsRecoverable, world
    <3> QED BY <3>1, <3>2, <3>3
  <2>2. CASE op.cmd = "remove" /\ state' = Removed(op.item)
    <3>1. HasRef(op.item)
      BY <2>2, Parts DEF PlaceOK
    <3>2. /\ state' \in StateType /\ (~Gateway(op.item) => state'.snapshot = state.snapshot)
          /\ \A i \in Item : i # op.item => state'.ref[i] = state.ref[i]
      BY <2>2, <3>1, Parts, RemovedState
    <3>3. op.item = "vpn" => Settled
      BY <1>1, <2>2, Parts DEF ResolverOK
    <3> QED BY <1>1, <3>2, <3>3, Parts, Names DEF GatewayIsRecoverable, Settled, Gateway, world
  <2>3. CASE op.cmd = "destroy" /\ state' = Destroyed(op.item)
    <3>1. /\ state' \in StateType /\ (~Gateway(op.item) => state'.snapshot = state.snapshot)
          /\ \A i \in Item : i # op.item => state'.ref[i] = state.ref[i]
      BY <2>3, Parts, DestroyedState
    <3>2. op.item = "vpn" => Settled
      BY <1>1, <2>3, Parts DEF ResolverOK
    <3> QED BY <1>1, <3>1, <3>2, Parts, Names DEF GatewayIsRecoverable, Settled, Gateway, world
  <2> QED BY <2>1, <2>2, <2>3 DEF SaveState
<1>7. WorldOK' /\ DiskOK' /\ count' \in CountType
  BY <1>1, <1>6, Parts DEF WorldOK, DiskOK, world
<1> QED BY <1>3, <1>4, <1>6, <1>7, Whole

LEMMA RemoveFilesIInv == ASSUME IInv, RemoveConfig \/ RemoveState PROVE IInv'
<1>1. /\ op.at \in {"rmconfig", "rmstate"} /\ UNCHANGED <<world, deployed, state, count>>
      /\ files' \subseteq files
      /\ Goto("rmstate") \/ Leave
  BY DEF RemoveConfig, RemoveState, At
<1>2. op.cmd = "uninstall" /\ Settled
  BY <1>1, Parts DEF PlaceOK, ResolverOK
<1>3. op' \in OpType /\ op'.at \in {"rmstate", "idle"} /\ op'.cmd \in {"uninstall", "none"}
      /\ (op'.at = "rmstate" => op'.cmd = "uninstall")
      /\ (op'.cmd = "none" => op'.at = "idle")
  <2>1. CASE Goto("rmstate")
    BY <1>2, <2>1, Parts, Names, GotoOp DEF Same
  <2>2. CASE Leave
    BY <2>2, LeaveOp
  <2> QED BY <1>1, <2>1, <2>2
<1>4. OpOK' /\ PlaceOK' /\ ResolverOK'
  BY <1>1, <1>2, <1>3 DEF OpOK, PlaceOK, ResolverOK, Settled, world, Call, Write
<1>5. WorldOK' /\ DiskOK' /\ count' \in CountType /\ GatewayIsRecoverable'
  BY <1>1, <1>2, Parts DEF WorldOK, DiskOK, GatewayIsRecoverable, Settled, world
<1> QED BY <1>4, <1>5, Whole

-----------------------------------------------------------------------------
(* Failures and the environment *)

\* Where a command is after a call that failed.
LEMMA AfterFailureOp ==
  ASSUME op \in OpType, AfterFailure
  PROVE  /\ op' \in OpType
         /\ \/ /\ op'.cmd = "uninstall" /\ op.cmd = "uninstall" /\ op'.vmid = op.vmid
               /\ op'.targets = op.targets
               /\ \/ op.at = "stop" /\ op'.at = "destroy" /\ op'.failed = op.failed
                  \/ op.at = "destroy" /\ op'.at = "pick" /\ op'.failed = TRUE
            \/ /\ op'.cmd = "none" /\ op'.at = "idle"
               /\ ~(op.cmd = "uninstall" /\ op.at \in {"stop", "destroy"})
<1>1. CASE op.cmd = "uninstall" /\ op.at = "stop"
  <2>1. Goto("destroy")
    BY <1>1 DEF AfterFailure, At
  <2> QED BY <1>1, <2>1, GotoOp, Names DEF Same
<1>2. CASE op.cmd = "uninstall" /\ op.at = "destroy"
  <2>1. op' = [op EXCEPT !.at = "pick", !.failed = TRUE]
    BY <1>2 DEF AfterFailure, At
  <2> QED BY <1>2, <2>1, Names DEF OpType
<1>3. CASE ~(op.cmd = "uninstall" /\ op.at \in {"stop", "destroy"})
  <2>1. Leave
    BY <1>3 DEF AfterFailure, At
  <2> QED BY <1>3, <2>1, LeaveOp
<1> QED BY <1>1, <1>2, <1>3

LEMMA FailedStep ==
  ASSUME IInv, AfterFailure, UNCHANGED disk, count' \in CountType, WorldOK', GatewayIsRecoverable',
         Settled => Settled', ~Tailscale => Settled', "config" \notin files => Settled'
  PROVE  IInv'
<1>1. op' \in OpType /\ op'.at \in {"idle", "destroy", "pick"}
      /\ (op'.at = "destroy" => op'.vmid = op.vmid /\ op.at = "stop")
      /\ \/ op'.cmd = "uninstall" /\ op.cmd = "uninstall" /\ op'.at # "idle"
            /\ op.at \in {"stop", "destroy"}
         \/ op'.cmd = "none" /\ op'.at = "idle"
  BY AfterFailureOp, Parts
<1>2. OpOK' /\ PlaceOK'
  BY <1>1, Parts DEF OpOK, PlaceOK, Call, Write
<1>3. ResolverOK'
  BY <1>1, Parts DEF ResolverOK, Settled, disk
<1>4. DiskOK'
  BY Parts DEF DiskOK, disk
<1> QED BY <1>2, <1>3, <1>4, Whole

LEMMA RefusedIInv == ASSUME IInv, Refused PROVE IInv'
<1>1. AfterFailure /\ UNCHANGED <<world, disk, count>>
  BY DEF Refused
<1>2. WorldOK' /\ GatewayIsRecoverable' /\ (Settled => Settled') /\ (~Tailscale => Settled')
      /\ ("config" \notin files => Settled')
  BY <1>1, Parts DEF WorldOK, GatewayIsRecoverable, ResolverOK, Settled, world, disk
<1> QED BY <1>1, <1>2, Parts, FailedStep

LEMMA FaultIInv == ASSUME IInv, Fault PROVE IInv'
<1>1. /\ AfterFailure /\ UNCHANGED disk
      /\ count' = [count EXCEPT !.faults = @ + 1]
      /\ Undone \/ HalfCreated \/ HalfSetUp \/ HalfPointed \/ HalfRestored
  BY DEF Fault
<1>2. count' \in CountType
  BY <1>1, Parts DEF CountType
<1>3. UNCHANGED state
  BY <1>1 DEF disk
<1> DEFINE Harmless == /\ WorldOK' /\ GatewayIsRecoverable' /\ (Settled => Settled')
                       /\ (~Tailscale => Settled') /\ ("config" \notin files => Settled')
<1>4. Harmless => IInv'
  BY <1>1, <1>2, FailedStep
<1>5. CASE Undone
  <2>1. Harmless
    BY <1>1, <1>5, Parts DEF Undone, WorldOK, GatewayIsRecoverable, ResolverOK, Settled, world, disk
  <2> QED BY <1>4, <2>1
<1>6. CASE HalfCreated
  <2>1. op.item # Absent
    BY Parts, SentinelsDistinct
  <2>2. PICK v \in Vmid : lxc[v] = Absent /\ lxc' = [lxc EXCEPT ![v] = op.item]
    BY <1>6 DEF HalfCreated
  <2>3. UNCHANGED <<running, enrolled, resolver>>
    BY <1>6 DEF HalfCreated
  <2>4. WorldOK'
    BY <2>1, <2>2, <2>3, Parts DEF WorldOK
  <2>5. Harmless
    BY <1>3, <2>3, <2>4, Parts DEF GatewayIsRecoverable, ResolverOK, Settled
  <2> QED BY <1>4, <2>5
<1>7. CASE HalfSetUp
  <2>1. /\ op.vmid \in running /\ enrolled' = enrolled \cup {op.vmid}
        /\ UNCHANGED <<lxc, running, resolver>>
    BY <1>7 DEF HalfSetUp
  <2>2. WorldOK'
    BY <2>1, Parts DEF WorldOK
  <2>3. Harmless
    BY <1>3, <2>1, <2>2, Parts DEF GatewayIsRecoverable, ResolverOK, Settled
  <2> QED BY <1>4, <2>3
<1>8. CASE HalfPointed
  <2>1. op.at = "point" /\ resolver' = op.vmid /\ UNCHANGED <<lxc, running, enrolled>>
    BY <1>8 DEF HalfPointed, At
  <2>2. /\ WorldOK' /\ GatewayIsRecoverable' /\ Tailscale
        /\ op.cmd \in {"add", "recheck"} /\ op.item = "vpn" /\ op.vmid # Absent
    BY <1>3, <2>1, PointsToRecorded
  <2>3. "config" \in files
    BY <2>2, Parts DEF ResolverOK
  <2>4. op'.cmd = "none" /\ op'.at = "idle" /\ op' \in OpType
    BY <1>1, <2>1, <2>2, Parts, AfterFailureOp
  <2>5. OpOK' /\ PlaceOK'
    BY <2>4 DEF OpOK, PlaceOK, Call, Write
  <2>6. ResolverOK'
    BY <1>1, <2>2, <2>3, <2>4 DEF ResolverOK, disk
  <2>7. DiskOK'
    BY <1>1, Parts DEF DiskOK, disk
  <2> QED BY <1>2, <2>2, <2>5, <2>6, <2>7, Whole
<1>9. CASE HalfRestored
  <2>1. /\ state.snapshot # Absent /\ resolver' = state.snapshot
        /\ UNCHANGED <<lxc, running, enrolled>>
    BY <1>9 DEF HalfRestored
  <2>2. Settled' /\ resolver' \in Setting \cup {DeadGateway}
    BY <2>1, RestoreSettles
  <2>3. WorldOK' /\ GatewayIsRecoverable'
    BY <2>1, <2>2, Parts DEF WorldOK, GatewayIsRecoverable, Settled
  <2> QED BY <1>4, <2>2, <2>3
<1> QED BY <1>1, <1>5, <1>6, <1>7, <1>8, <1>9

LEMMA CrashIInv == ASSUME IInv, Crash PROVE IInv'
<1>1. UNCHANGED <<world, disk>> /\ Leave /\ count' \in CountType
  BY Parts DEF Crash, Leave, CountType
<1> QED BY <1>1, IdleStep

LEMMA WorldStep ==
  ASSUME IInv, UNCHANGED <<disk, op>>, count' \in CountType, WorldOK',
         resolver' = resolver \/ Settled'
  PROVE  IInv'
<1>1. DiskOK' /\ OpOK' /\ PlaceOK'
  BY Parts DEF DiskOK, OpOK, PlaceOK, HasRef, disk
<1>2. GatewayIsRecoverable' /\ ResolverOK'
  BY Parts DEF GatewayIsRecoverable, ResolverOK, Settled, disk
<1> QED BY <1>1, <1>2, Whole

LEMMA EnvironmentIInv == ASSUME IInv, Environment PROVE IInv'
<1>1. CASE Crash
  BY <1>1, CrashIInv
<1>2. ASSUME NEW v \in Vmid, CreateForeign(v) PROVE IInv'
  <2>1. /\ lxc[v] = Absent /\ lxc' = [lxc EXCEPT ![v] = Foreign] /\ running' = running \cup {v}
        /\ UNCHANGED <<enrolled, resolver, disk, op>>
        /\ count' = [count EXCEPT !.foreign = @ + 1]
    BY <1>2 DEF CreateForeign
  <2>2. WorldOK' /\ count' \in CountType
    BY <2>1, Parts, SentinelsDistinct DEF WorldOK, CountType
  <2> QED BY <2>1, <2>2, WorldStep
<1>3. ASSUME NEW v \in Vmid, Start(v) PROVE IInv'
  <2>1. /\ lxc[v] \in Item /\ running' = running \cup {v}
        /\ UNCHANGED <<lxc, enrolled, resolver, disk, op, count>>
    BY <1>3 DEF Start
  <2>2. WorldOK'
    BY <2>1, Parts, SentinelsDistinct DEF WorldOK
  <2> QED BY <2>1, <2>2, WorldStep, Parts
<1>4. CASE SetResolver
  <2>1. /\ resolver' \in Setting /\ UNCHANGED <<lxc, running, enrolled, disk, op>>
        /\ count' = [count EXCEPT !.edits = @ + 1]
    BY <1>4 DEF SetResolver
  <2>2. WorldOK' /\ Settled' /\ count' \in CountType
    BY <2>1, Parts, SentinelsDistinct DEF WorldOK, Settled, CountType
  <2> QED BY <2>1, <2>2, WorldStep
<1> QED BY <1>1, <1>2, <1>3, <1>4 DEF Environment

-----------------------------------------------------------------------------
LEMMA NextIInv == ASSUME IInv, [Next]_vars PROVE IInv'
<1>1. CASE Begin
  BY <1>1, InitialiseIInv, BeginAddIInv, BeginRecheckIInv, BeginRemoveIInv, BeginDestroyIInv DEF Begin
<1>2. CASE BeginUninstall
  BY <1>2, BeginUninstallIInv
<1>3. CASE Provision
  BY <1>3, CreateLxcIInv, OwnIInv, DeployIInv, SetupIInv, RecordIInv, SyncTailnetIInv,
     PointResolverIInv DEF Provision
<1>4. CASE Dismantle
  BY <1>4, RestoreDnsIInv, UnsaveIInv, StopLxcIInv, DestroyLxcIInv, PickIInv, ForgetIInv,
     RemoveFilesIInv DEF Dismantle
<1>5. CASE SaveConfig \/ SaveState \/ Refused \/ Fault
  BY <1>5, SaveConfigIInv, SaveStateIInv, RefusedIInv, FaultIInv
<1>6. CASE Environment
  BY <1>6, EnvironmentIInv
<1>7. CASE UNCHANGED vars
  BY <1>7, Parts, WorldStep DEF vars, disk, WorldOK
<1> QED BY <1>1, <1>2, <1>3, <1>4, <1>5, <1>6, <1>7 DEF Next, Continue

\* What the two properties that hold on every path rest on.
THEOREM Inductive == Spec => []IInv
<1>1. Init => IInv
  BY InitIInv
<1>2. IInv /\ [Next]_vars => IInv'
  BY NextIInv
<1> QED BY <1>1, <1>2, PTL DEF Spec

\* The types of what is in Proxmox, on disk and in a command.
THEOREM TypeCorrectness == Spec => []TypeOK
<1>1. IInv => TypeOK
  BY DEF IInv
<1> QED BY <1>1, Inductive, PTL

\* A tailnet whose nameserver is a container can be taken back: the container is recorded
\* as the provisioned VPN service, with the settings it replaced, at every moment and after
\* any crash or failed call (configureTailnet and restoreTailnetDns, tailscale-tailnet.js).
THEOREM TailnetCanBeTakenBack == Spec => []GatewayIsRecoverable
<1>1. IInv => GatewayIsRecoverable
  BY DEF IInv
<1> QED BY <1>1, Inductive, PTL

-----------------------------------------------------------------------------
(* Without service remove: what is recorded is forgotten only when it is gone *)

LEMMA NParts ==
  ASSUME NInv
  PROVE  /\ IInv /\ RecordsOK /\ op \in OpType /\ state \in StateType /\ OpOK /\ PlaceOK /\ ResolverOK
         /\ op.item \in Item /\ op.at \in Place /\ files \subseteq {"config", "state"}
         /\ op.targets \subseteq Vmid
BY Parts DEF NInv, DiskOK, OpType

LEMMA InitRecords == Init => RecordsOK
<1> SUFFICES ASSUME Init PROVE RecordsOK
  OBVIOUS
<1>1. op.at = "idle" /\ op.cmd = "none" /\ files = {"config", "state"}
  BY NoOpType DEF Init
<1>2. \A i \in Item : state.retained[i] = Absent /\ ~HasRef(i)
  BY DEF Init, NoRecords, HasRef
<1> QED BY <1>1, <1>2 DEF RecordsOK

\* A step that leaves the records alone and ends the command.
LEMMA RecordsIdle ==
  ASSUME NInv, UNCHANGED <<files, state>>, op'.cmd = "none", op'.at = "idle"
  PROVE  RecordsOK'
BY NParts DEF RecordsOK, HasRef, Known

LEMMA RecordsBegin ==
  ASSUME NInv, "remove" \notin Command, Begin
  PROVE  RecordsOK'
<1>1. CASE Initialise
  <2>1. /\ op = NoOp /\ op' = NoOp /\ state' = NoRecords /\ files' = {"config", "state"}
    BY <1>1 DEF Initialise
  <2>2. \A i \in Item : state'.retained[i] = Absent /\ ~HasRef(i)'
    BY <2>1 DEF NoRecords, HasRef
  <2> QED BY <2>1, <2>2, NoOpType DEF RecordsOK
<1>2. ASSUME NEW i \in Selected, BeginAdd(i) PROVE RecordsOK'
  <2>1. ~HasRef(i) /\ UNCHANGED <<files, state>> /\ "config" \in files
    BY <1>2 DEF BeginAdd, Enter, Loaded, disk
  <2>2. op'.cmd = "add" /\ op'.item = i /\ op'.at \in {"create", "setup"}
    BY <1>2 DEF BeginAdd, Enter, Run, NoOp
  <2> QED BY <2>1, <2>2, NParts DEF RecordsOK, HasRef
<1>3. ASSUME NEW i \in Selected, BeginRecheck(i) PROVE RecordsOK'
  <2>1. PICK v \in Vmid :
          /\ HasRef(i) => v = state.ref[i].vmid
          /\ Enter(Run("recheck", i, IF HasRef(i) THEN "setup"
                                     ELSE IF Gateway(i) THEN "own" ELSE "check", v))
    BY <1>3, NParts, Parts, RecheckBegins
  <2>2. UNCHANGED <<files, state>> /\ "config" \in files
    BY <1>3, <2>1 DEF BeginRecheck, Loaded, Enter, disk
  <2>3. op'.cmd = "recheck" /\ op'.item = i /\ op'.at \in {"own", "setup", "check"} /\ op'.vmid = v
    BY <2>1 DEF Enter, Run, NoOp
  <2> QED BY <2>1, <2>2, <2>3, NParts DEF RecordsOK, HasRef
<1>4. ASSUME NEW i \in Selected, NEW force \in BOOLEAN, BeginDestroy(i, force) PROVE RecordsOK'
  <2>1. i \in Item
    BY SelectedItem
  <2>2. state.retained[i] = Absent
    BY <2>1, NParts DEF RecordsOK
  <2>3. HasRef(i) /\ UNCHANGED <<files, state>> /\ "config" \in files
    BY <1>4, <2>2 DEF BeginDestroy, Enter, Loaded, disk
  <2>4. /\ op'.cmd = "destroy" /\ op'.item = i /\ op'.at \in {"restore", "stop"}
        /\ op'.vmid = state.ref[i].vmid
    BY <1>4, <2>3 DEF BeginDestroy, Enter, Run, NoOp
  <2> QED BY <2>3, <2>4, NParts DEF RecordsOK, HasRef
<1>5. ASSUME NEW i \in Selected PROVE ~BeginRemove(i)
  BY DEF BeginRemove, Counted
<1> QED BY <1>1, <1>2, <1>3, <1>4, <1>5 DEF Begin

LEMMA RecordsBeginUninstall ==
  ASSUME NInv, BeginUninstall
  PROVE  RecordsOK'
<1>1. UNCHANGED <<files, state>>
  BY DEF BeginUninstall, Enter, disk
<1>2. /\ op'.cmd = "uninstall" /\ op'.at \in {"pick", "restore"}
      /\ op'.targets = Recorded \/ "config" \notin files
  BY DEF BeginUninstall, Enter, Run, NoOp
<1>3. "config" \in files => Known \subseteq Recorded
  BY NParts DEF RecordsOK, Known, Recorded
<1>4. Known' = Known /\ InHand' = {}
  BY <1>1, <1>2 DEF Known, HasRef, InHand
<1>5. Known \subseteq op'.targets
  BY <1>2, <1>3, NParts DEF RecordsOK
<1> QED BY <1>1, <1>2, <1>4, <1>5, NParts DEF RecordsOK

\* A step that leaves the records alone and takes the command to its next place.
LEMMA RecordsGoto ==
  ASSUME NInv, UNCHANGED <<files, state>>, Same(op'), op'.vmid = op.vmid, op'.targets = op.targets,
         op'.failed = op.failed,
         \/ op'.at \in {"setup", "record", "sync", "point", "config", "state", "unsave", "stop"}
            /\ op.at \notin {"stop", "destroy", "forget"}
         \/ op'.at = "destroy" /\ op.at = "stop",
         op'.at \in {"config", "state"} /\ op.cmd = "destroy" =>
           op.at \in {"config", "state"} /\ lxc' = lxc
  PROVE  RecordsOK'
<1>1. Known' = Known /\ \A i \in Item : HasRef(i)' <=> HasRef(i)
  BY DEF Known, HasRef
<1>2. InHand \subseteq InHand' \/ op.cmd # "uninstall"
  BY NParts DEF InHand, PlaceOK
<1>3. op'.at \notin {"create", "forget", "rmconfig", "rmstate"}
  OBVIOUS
<1>4. op'.at \in {"config", "state"} /\ op.cmd = "destroy" => Nothing(op.vmid)'
  BY NParts DEF RecordsOK, Nothing
<1> QED BY <1>1, <1>2, <1>3, <1>4, NParts DEF RecordsOK, Same

LEMMA RecordsProvision ==
  ASSUME NInv, CreateLxc \/ Deploy \/ Setup \/ SyncTailnet \/ PointResolver \/ Own \/ Record
  PROVE  RecordsOK'
<1>1. CASE CreateLxc
  <2>1. op.at = "create" /\ UNCHANGED <<files, state>>
    BY <1>1 DEF CreateLxc, Works, At, disk
  <2>2. Same(op') /\ op'.at \in {"own", "setup"} /\ op'.failed = op.failed
    BY <1>1, NParts DEF CreateLxc, Same, OpType
  <2>3. op.cmd \in {"add", "recheck"} /\ ~HasRef(op.item)
    BY <2>1, NParts DEF RecordsOK, PlaceOK
  <2> QED BY <2>1, <2>2, <2>3, NParts DEF RecordsOK, Same, HasRef, Known
<1>2. CASE Deploy \/ Setup \/ PointResolver
  <2>1. PICK at \in {"setup", "record", "state", "config"} : Goto(at)
    BY <1>2 DEF Deploy, Setup, PointResolver
  <2>2. UNCHANGED <<files, state>> /\ op.at \in {"deploy", "setup", "check", "point"}
    BY <1>2 DEF Deploy, Setup, PointResolver, Works, At, disk
  <2>3. op.cmd \in {"add", "recheck"}
    BY <2>2, NParts DEF PlaceOK
  <2>4. /\ op'.at = at /\ Same(op') /\ op'.vmid = op.vmid /\ op'.targets = op.targets
        /\ op'.failed = op.failed
    BY <2>1, NParts, Names, GotoOp
  <2> QED BY <2>2, <2>3, <2>4, RecordsGoto
<1>3. CASE SyncTailnet
  <2>1. PICK at \in {"config", "point"} : Goto(at)
    BY <1>3 DEF SyncTailnet
  <2>2. /\ files' = files /\ op.at = "sync" /\ state'.ref = state.ref
        /\ state'.retained = state.retained
    BY <1>3, NParts DEF SyncTailnet, Works, At, StateType
  <2>3. op.cmd \in {"add", "recheck"}
    BY <2>2, NParts DEF PlaceOK
  <2>4. /\ op'.at = at /\ Same(op') /\ op'.vmid = op.vmid
    BY <2>1, NParts, Names, GotoOp
  <2> QED BY <2>2, <2>3, <2>4, NParts DEF RecordsOK, Same, HasRef, Known
<1>4. CASE Own \/ Record
  <2>1. PICK at \in {"deploy", "check", "sync", "config"} : Goto(at)
    BY <1>4 DEF Own, Record
  <2>2. files' = files /\ op.at \in {"own", "record"} /\ \E pending \in BOOLEAN : SaveRef(pending)
    BY <1>4 DEF Own, Record, At
  <2>3. op.cmd \in {"add", "recheck"} /\ "config" \in files /\ op.vmid # Absent
    BY <2>2, NParts DEF PlaceOK, ResolverOK, OpOK, Write
  <2>4. /\ op'.at = at /\ Same(op') /\ op'.vmid = op.vmid
    BY <2>1, NParts, Names, GotoOp
  <2>5. PICK pending \in BOOLEAN : SaveRef(pending)
    BY <2>2
  <2>6. /\ state'.retained = state.retained
        /\ state'.ref[op.item] = [vmid |-> op.vmid, pending |-> pending]
    BY <2>3, <2>5, NParts, SaveRefState
  <2>7. state'.ref[op.item].vmid = op.vmid
    BY <2>6
  <2> QED BY <2>2, <2>3, <2>4, <2>6, <2>7, NParts DEF RecordsOK, Same
<1> QED BY <1>1, <1>2, <1>3, <1>4

LEMMA RecordsDismantle ==
  ASSUME NInv, RestoreDns \/ Unsave \/ StopLxc \/ DestroyLxc \/ Pick
  PROVE  RecordsOK'
<1>1. CASE RestoreDns
  <2>1. PICK at \in {"unsave", "stop"} : Goto(at)
    BY <1>1 DEF RestoreDns
  <2>2. UNCHANGED <<files, state>> /\ op.at = "restore"
    BY <1>1 DEF RestoreDns, Works, At, disk
  <2>3. /\ op'.at = at /\ Same(op') /\ op'.vmid = op.vmid /\ op'.targets = op.targets
        /\ op'.failed = op.failed
    BY <2>1, NParts, Names, GotoOp
  <2> QED BY <2>2, <2>3, RecordsGoto
<1>2. CASE Unsave
  <2>1. /\ files' = files /\ op.at = "unsave" /\ Goto("pick") /\ state'.ref = state.ref
        /\ state'.retained = state.retained
    BY <1>2, NParts DEF Unsave, At, StateType
  <2>2. /\ op'.at = "pick" /\ Same(op') /\ op'.targets = op.targets /\ op'.failed = op.failed
    BY <2>1, NParts, Names, GotoOp
  <2>3. op.cmd = "uninstall"
    BY <2>1, NParts DEF PlaceOK
  <2> QED BY <2>1, <2>2, <2>3, NParts DEF RecordsOK, Same, HasRef, Known, InHand
<1>3. CASE StopLxc
  <2>1. op.cmd # "remove"
    BY NParts DEF RecordsOK
  <2>2. Goto("destroy") /\ UNCHANGED <<files, state>> /\ op.at = "stop"
    BY <1>3, <2>1 DEF StopLxc, Works, At, disk
  <2>3. /\ op'.at = "destroy" /\ Same(op') /\ op'.vmid = op.vmid /\ op'.targets = op.targets
        /\ op'.failed = op.failed
    BY <2>2, NParts, Names, GotoOp
  <2> QED BY <2>2, <2>3, RecordsGoto
<1>4. CASE DestroyLxc
  <2>1. PICK at \in {"forget", "config"} : Goto(at) /\ (at = "forget" <=> op.cmd = "uninstall")
    BY <1>4 DEF DestroyLxc
  <2>2. /\ UNCHANGED <<files, state>> /\ op.at = "destroy" /\ lxc' = [lxc EXCEPT ![op.vmid] = Absent]
    BY <1>4 DEF DestroyLxc, Works, At, disk
  <2>3. /\ op'.at = at /\ Same(op') /\ op'.vmid = op.vmid /\ op'.targets = op.targets
        /\ op'.failed = op.failed
    BY <2>1, NParts, Names, GotoOp
  <2>4. op.vmid \in Vmid /\ op.cmd \in {"destroy", "uninstall"}
    BY <2>2, NParts, Parts DEF OpOK, PlaceOK, Call
  <2>5. op.vmid \in Vmid /\ lxc'[op.vmid] \notin Item
    <3>1. lxc'[op.vmid] = Absent
      BY <2>2, <2>4, NParts, Parts DEF WorldOK
    <3> QED BY <2>4, <3>1, SentinelsDistinct
  <2>7. Nothing(op.vmid)'
    BY <2>3, <2>5 DEF Nothing
  <2>6. InHand' = InHand \/ op.cmd = "destroy"
    BY <2>1, <2>2, <2>3, <2>4 DEF InHand
  <2> QED BY <2>1, <2>2, <2>3, <2>4, <2>6, <2>7, NParts DEF RecordsOK, Same, HasRef, Known
<1>5. CASE Pick
  <2>1. op.at = "pick" /\ UNCHANGED <<files, state>> /\ op.cmd = "uninstall"
    BY <1>5, NParts DEF Pick, At, PlaceOK, disk
  <2>2. Known' = Known /\ InHand = {}
    BY <2>1 DEF Known, HasRef, InHand
  <2>3. ASSUME NEW v \in op.targets,
               op' = [op EXCEPT !.vmid = v, !.targets = @ \ {v}, !.at = "stop"]
        PROVE  RecordsOK'
    <3>1. /\ op'.at = "stop" /\ op'.vmid = v /\ op'.targets = op.targets \ {v}
          /\ op'.failed = op.failed /\ Same(op')
      BY <2>3, NParts DEF OpType, Same
    <3>2. InHand' = {v}
      BY <3>1 DEF InHand
    <3> QED BY <2>1, <2>2, <3>1, <3>2, NParts DEF RecordsOK, Same
  <2>4. CASE Leave
    BY <2>1, <2>4, LeaveOp, RecordsIdle
  <2>5. CASE op.targets = {} /\ ~op.failed /\ Goto("rmconfig")
    <3>1. /\ op'.at = "rmconfig" /\ Same(op') /\ op'.targets = op.targets /\ op'.failed = op.failed
      BY <2>5, NParts, Names, GotoOp
    <3> QED BY <2>1, <2>2, <2>5, <3>1, NParts DEF RecordsOK, Same
  <2> QED BY <1>5, <2>3, <2>4, <2>5 DEF Pick
<1> QED BY <1>1, <1>2, <1>3, <1>4, <1>5

LEMMA RecordsForget ==
  ASSUME NInv, Forget
  PROVE  RecordsOK'
<1>1. op.at = "forget" /\ Goto("pick") /\ files' = files /\ state' = Forgotten(op.vmid)
  BY DEF Forget, At
<1>2. op.cmd = "uninstall" /\ op.vmid \in Vmid
  BY <1>1, NParts, Parts DEF PlaceOK, OpOK, Write
<1>3. op'.at = "pick" /\ Same(op') /\ op'.targets = op.targets /\ op'.failed = op.failed
  BY <1>1, NParts, Names, GotoOp
<1>4. /\ \A i \in Item : state'.ref[i] = (IF HasRef(i) /\ state.ref[i].vmid = op.vmid THEN Absent
                                         ELSE state.ref[i])
      /\ \A i \in Item : state'.retained[i] = (IF state.retained[i] = op.vmid THEN Absent
                                              ELSE state.retained[i])
  BY <1>1, <1>2, NParts, ForgottenState
<1>5. Known' \subseteq Known \ {op.vmid}
  BY <1>4 DEF Known, HasRef
<1>6. InHand = {op.vmid}
  BY <1>1 DEF InHand
<1> QED BY <1>1, <1>2, <1>3, <1>4, <1>5, <1>6, NParts DEF RecordsOK, Same

LEMMA RecordsSave ==
  ASSUME NInv, SaveConfig \/ SaveState \/ RemoveConfig \/ RemoveState
  PROVE  RecordsOK'
<1>1. CASE SaveConfig
  <2>1. Goto("state") /\ UNCHANGED <<files, state, lxc>> /\ op.at = "config"
    BY <1>1 DEF SaveConfig, At, world
  <2>2. /\ op'.at = "state" /\ Same(op') /\ op'.vmid = op.vmid /\ op'.targets = op.targets
        /\ op'.failed = op.failed
    BY <2>1, NParts, Names, GotoOp
  <2> QED BY <2>1, <2>2, RecordsGoto
<1>2. CASE SaveState
  <2>1. op.at = "state" /\ files' = files /\ op'.cmd = "none" /\ op'.at = "idle" /\ op.vmid # Absent
    BY <1>2, LeaveOp, NParts DEF SaveState, At, OpOK, Write
  <2>2. op.cmd # "remove"
    BY NParts DEF RecordsOK
  <2>3. CASE op.cmd \in {"add", "recheck"} /\ SaveRef(FALSE)
    <3>1. state'.retained = state.retained /\ "config" \in files
      BY <2>1, <2>3, NParts, SaveRefState DEF ResolverOK
    <3> QED BY <2>1, <3>1, NParts DEF RecordsOK
  <2>4. CASE op.cmd = "destroy" /\ state' = Destroyed(op.item)
    <3>1. /\ state'.ref[op.item] = Absent /\ state'.retained[op.item] = Absent
          /\ \A j \in Item : j # op.item => /\ state'.ref[j] = state.ref[j]
                                            /\ state'.retained[j] = state.retained[j]
      BY <2>4, NParts, DestroyedState
    <3>2. Known' \subseteq Known
      BY <3>1 DEF Known, HasRef
    <3>3. \A i \in Item : state'.retained[i] = Absent
      BY <3>1, NParts DEF RecordsOK
    <3> QED BY <2>1, <3>2, <3>3, NParts DEF RecordsOK
  <2> QED BY <1>2, <2>2, <2>3, <2>4 DEF SaveState
<1>3. CASE RemoveConfig
  <2>1. /\ op.at = "rmconfig" /\ state' = state /\ files' = files \ {"config"} /\ Goto("rmstate")
    BY <1>3 DEF RemoveConfig, At
  <2>2. op'.at = "rmstate" /\ Same(op') /\ op'.targets = op.targets /\ op'.failed = op.failed
    BY <2>1, NParts, Names, GotoOp
  <2>3. op.cmd = "uninstall" /\ Known = {}
    BY <2>1, NParts DEF PlaceOK, RecordsOK, InHand
  <2>4. Known' = Known
    BY <2>1 DEF Known, HasRef
  <2> QED BY <2>1, <2>2, <2>3, <2>4, NParts DEF RecordsOK, Same
<1>4. CASE RemoveState
  <2>1. /\ op.at = "rmstate" /\ state' = state /\ files' = files \ {"state"}
        /\ op'.cmd = "none" /\ op'.at = "idle"
    BY <1>4, LeaveOp DEF RemoveState, At
  <2>2. "config" \notin files /\ Known' = Known
    BY <2>1, NParts DEF RecordsOK, Known, HasRef
  <2> QED BY <2>1, <2>2, NParts DEF RecordsOK
<1> QED BY <1>1, <1>2, <1>3, <1>4

LEMMA RecordsFailure ==
  ASSUME NInv, Refused \/ Fault
  PROVE  RecordsOK'
<1>1. AfterFailure /\ UNCHANGED <<files, state>>
  BY DEF Refused, Fault, disk
<1>2. CASE op'.cmd = "none" /\ op'.at = "idle"
  BY <1>1, <1>2, RecordsIdle
<1>3. CASE /\ op'.cmd = "uninstall" /\ op.cmd = "uninstall" /\ op'.vmid = op.vmid
           /\ op'.targets = op.targets
           /\ \/ op.at = "stop" /\ op'.at = "destroy" /\ op'.failed = op.failed
              \/ op.at = "destroy" /\ op'.at = "pick" /\ op'.failed = TRUE
  <2>1. Known' = Known
    BY <1>1 DEF Known, HasRef
  <2>2. op'.failed = TRUE \/ InHand' = InHand
    BY <1>3 DEF InHand
  <2> QED BY <1>1, <1>3, <2>1, <2>2, NParts DEF RecordsOK
<1> QED BY <1>1, <1>2, <1>3, AfterFailureOp, NParts

\* What the environment does to a project that is at rest or in the hands of a command.
LEMMA RecordsEnvironment ==
  ASSUME NInv, Environment \/ UNCHANGED vars
  PROVE  RecordsOK'
<1>1. CASE Crash
  BY <1>1, NoOpType, RecordsIdle DEF Crash, disk
<1>2. CASE ~Crash
  <2>1. UNCHANGED <<files, state, op>>
    BY <1>2 DEF Environment, CreateForeign, Start, SetResolver, disk, vars
  <2>2. \A v \in Vmid : Nothing(v) => Nothing(v)'
    <3>1. lxc' = lxc \/ \E u \in Vmid : lxc' = [lxc EXCEPT ![u] = Foreign]
      BY <1>2 DEF Environment, CreateForeign, Start, SetResolver, vars
    <3> QED BY <3>1, NParts, Parts, SentinelsDistinct DEF Nothing, WorldOK
  <2>3. Known' = Known /\ InHand' = InHand /\ \A i \in Item : HasRef(i)' <=> HasRef(i)
    BY <2>1 DEF Known, InHand, HasRef
  <2>4. \A v : Nothing(v) => v \in Vmid
    BY DEF Nothing
  <2> QED BY <2>1, <2>2, <2>3, <2>4, NParts DEF RecordsOK
<1> QED BY <1>1, <1>2

LEMMA NextNInv ==
  ASSUME NInv, "remove" \notin Command, [Next]_vars
  PROVE  NInv'
<1>1. IInv'
  BY NextIInv, NParts
<1>2. ASSUME Begin \/ BeginUninstall PROVE RecordsOK'
  BY <1>2, RecordsBegin, RecordsBeginUninstall
<1>3. ASSUME Provision PROVE RecordsOK'
  BY <1>3, RecordsProvision DEF Provision
<1>4. ASSUME Dismantle PROVE RecordsOK'
  BY <1>4, RecordsDismantle, RecordsForget, RecordsSave DEF Dismantle
<1>5. ASSUME SaveConfig \/ SaveState \/ Refused \/ Fault PROVE RecordsOK'
  BY <1>5, RecordsSave, RecordsFailure
<1>6. ASSUME Environment \/ UNCHANGED vars PROVE RecordsOK'
  BY <1>6, RecordsEnvironment
<1>7. RecordsOK'
  BY <1>2, <1>3, <1>4, <1>5, <1>6 DEF Next, Continue
<1> QED BY <1>1, <1>7 DEF NInv

\* Where service remove is not run, what is recorded and what a command has in hand stay
\* consistent.
THEOREM InductiveRecords == ASSUME "remove" \notin Command PROVE Spec => []NInv
<1>1. Init => NInv
  BY InitIInv, InitRecords DEF NInv
<1>2. NInv /\ [Next]_vars => NInv'
  BY NextNInv
<1> QED BY <1>1, <1>2, PTL DEF Spec

\* What is known is recorded, as long as its record stays.
LEMMA StaysRecorded ==
  ASSUME NInv, NEW v \in Recorded
  PROVE  /\ "config" \in files /\ "state" \in files
         /\ "state" \in files' /\ state'.ref = state.ref => v \in Recorded'
         /\ \E i \in Item : HasRef(i) /\ state.ref[i].vmid = v
<1>1. "state" \in files /\ v \in Vmid
  BY DEF Recorded
<1>2. PICK i \in Item : HasRef(i) /\ state.ref[i].vmid = v
  BY <1>1, NParts, SentinelsDistinct DEF Recorded, RecordsOK
<1>3. v \in Known
  BY <1>1, <1>2 DEF Known
<1>4. "config" \in files
  BY <1>3, NParts DEF RecordsOK
<1>5. "state" \in files' /\ state'.ref = state.ref => v \in Recorded'
  BY <1>1, <1>2 DEF Recorded, HasRef
<1> QED BY <1>1, <1>2, <1>4, <1>5

LEMMA ForgottenIsGone ==
  ASSUME NInv, "remove" \notin Command, [Next]_vars, NEW v \in Recorded, v \notin Recorded'
  PROVE  lxc[v] \notin Item
<1>1. /\ "config" \in files /\ "state" \in files /\ v \in Vmid
      /\ ~("state" \in files' /\ state'.ref = state.ref)
  BY StaysRecorded DEF Recorded
<1>2. PICK i \in Item : HasRef(i) /\ state.ref[i].vmid = v
  BY StaysRecorded
<1>3. v # Absent
  BY <1>1, SentinelsDistinct
<1>4. (~\E j \in Item : HasRef(j)' /\ state'.ref[j].vmid = v) \/ "state" \notin files'
  BY <1>1 DEF Recorded
<1>5. ASSUME NEW pending \in BOOLEAN, SaveRef(pending), op.cmd \in {"add", "recheck"}, files' = files,
             op.at \in {"own", "record", "state"}
      PROVE  FALSE
  <2>1. op.vmid # Absent
    BY <1>5, NParts DEF OpOK, Write
  <2>2. /\ state'.ref[op.item] = [vmid |-> op.vmid, pending |-> pending]
        /\ \A j \in Item : j # op.item => state'.ref[j] = state.ref[j]
    BY <1>5, <2>1, NParts, SaveRefState
  <2>3. op.vmid \in Vmid
    BY <2>1, NParts, Parts
  <2>4. state'.ref[op.item] # Absent /\ state'.ref[op.item].vmid = op.vmid
    BY <2>2, <2>3, ReferenceIsThere
  <2>5. i = op.item => op.vmid = v
    BY <1>2, <1>5, NParts DEF RecordsOK
  <2>6. HasRef(i)' /\ state'.ref[i].vmid = v
    BY <1>2, <2>2, <2>4, <2>5 DEF HasRef
  <2> QED BY <1>1, <1>4, <1>5, <2>6
<1>6. ASSUME Begin \/ BeginUninstall PROVE FALSE
  <2>1. UNCHANGED <<files, state>> \/ "config" \notin files
    BY <1>6 DEF Begin, Initialise, BeginAdd, BeginRecheck, BeginRemove, BeginDestroy, BeginUninstall,
                Enter, disk
  <2> QED BY <1>1, <2>1
<1>7. ASSUME Provision PROVE FALSE
  <2>1. CASE CreateLxc \/ Deploy \/ Setup \/ PointResolver
    BY <1>1, <2>1 DEF CreateLxc, Deploy, Setup, PointResolver, disk
  <2>2. CASE SyncTailnet
    <3>1. files' = files /\ state'.ref = state.ref
      BY <2>2, NParts DEF SyncTailnet, StateType
    <3> QED BY <1>1, <3>1
  <2>3. CASE Own \/ Record
    <3>1. PICK pending \in BOOLEAN : SaveRef(pending)
      BY <2>3 DEF Own, Record
    <3>2. op.at \in {"own", "record"} /\ files' = files
      BY <2>3 DEF Own, Record, At
    <3> QED BY <1>5, <3>1, <3>2, NParts DEF PlaceOK
  <2> QED BY <1>7, <2>1, <2>2, <2>3 DEF Provision
<1>8. ASSUME Dismantle PROVE lxc[v] \notin Item
  <2>1. CASE RestoreDns \/ StopLxc \/ DestroyLxc \/ Pick
    BY <1>1, <2>1 DEF RestoreDns, StopLxc, DestroyLxc, Pick, disk
  <2>2. CASE Unsave
    <3>1. files' = files /\ state'.ref = state.ref
      BY <2>2, NParts DEF Unsave, StateType
    <3> QED BY <1>1, <3>1
  <2>3. CASE Forget
    <3>1. op.at = "forget" /\ files' = files /\ state' = Forgotten(op.vmid)
      BY <2>3 DEF Forget, At
    <3>2. op.vmid \in Vmid /\ lxc[op.vmid] \notin Item
      BY <3>1, NParts DEF RecordsOK, Nothing
    <3>3. state'.ref[i] = (IF HasRef(i) /\ state.ref[i].vmid = op.vmid THEN Absent ELSE state.ref[i])
      BY <3>1, <3>2, NParts, ForgottenState
    <3>4. CASE op.vmid = v
      BY <3>2, <3>4
    <3>5. CASE op.vmid # v
      BY <1>1, <1>2, <1>4, <3>1, <3>3, <3>5 DEF HasRef
    <3> QED BY <3>4, <3>5
  <2>4. CASE RemoveConfig
    BY <1>1, <2>4 DEF RemoveConfig
  <2>5. CASE RemoveState
    <3>1. op.at = "rmstate"
      BY <2>5 DEF RemoveState, At
    <3> QED BY <1>1, <3>1, NParts DEF RecordsOK
  <2> QED BY <1>8, <2>1, <2>2, <2>3, <2>4, <2>5 DEF Dismantle
<1>9. ASSUME SaveConfig \/ SaveState \/ Refused \/ Fault PROVE lxc[v] \notin Item
  <2>1. CASE SaveConfig \/ Refused \/ Fault
    BY <1>1, <2>1 DEF SaveConfig, Refused, Fault, disk
  <2>2. CASE SaveState
    <3>1. op.at = "state" /\ files' = files /\ op.cmd # "remove"
      BY <2>2, NParts DEF SaveState, At, RecordsOK
    <3>2. CASE op.cmd \in {"add", "recheck"} /\ SaveRef(FALSE)
      BY <1>5, <3>1, <3>2
    <3>3. CASE op.cmd = "destroy" /\ state' = Destroyed(op.item)
      <4>1. \A j \in Item : j # op.item => state'.ref[j] = state.ref[j]
        BY <3>3, NParts, DestroyedState
      <4>2. CASE i = op.item
        BY <1>2, <3>1, <3>3, <4>2, NParts DEF RecordsOK, Nothing
      <4>3. CASE i # op.item
        BY <1>1, <1>2, <1>4, <3>1, <4>1, <4>3 DEF HasRef
      <4> QED BY <4>2, <4>3
    <3> QED BY <2>2, <3>1, <3>2, <3>3 DEF SaveState
  <2> QED BY <1>9, <2>1, <2>2
<1>10. ASSUME Environment \/ UNCHANGED vars PROVE FALSE
  BY <1>1, <1>10 DEF Environment, Crash, CreateForeign, Start, SetResolver, disk, vars
<1> QED BY <1>6, <1>7, <1>8, <1>9, <1>10 DEF Next, Continue

\* Where service remove is not run, no command forgets a container that still exists: what
\* provisioning.js saves first and what cli.js drops last survive every crash, every failed
\* call and every VMID that Proxmox gives away again.
THEOREM RecordsSurvive == ASSUME "remove" \notin Command PROVE Spec => RecordedUntilDestroyed
<1>1. NInv /\ [Next]_vars => [\A v \in Recorded \ Recorded' : lxc[v] \notin Item]_vars
  BY ForgottenIsGone
<1> QED BY <1>1, InductiveRecords, PTL DEF Spec, RecordedUntilDestroyed

-----------------------------------------------------------------------------
(* Without crashes: a recorded container is the service's, or was mistaken for it *)

LEMMA LParts ==
  ASSUME LInv
  PROVE  /\ IInv /\ LinksOK /\ op \in OpType /\ state \in StateType /\ OpOK /\ PlaceOK /\ ResolverOK
         /\ op.item \in Item /\ op.at \in Place /\ op.targets \subseteq Vmid /\ op.force \in BOOLEAN
         /\ WorldOK /\ count \in CountType /\ count.crashes = 0
         /\ \A i \in Item : i # Absent /\ i # Foreign
BY Parts, SentinelsDistinct DEF LInv, LinksOK, OpType

\* Containers come, and none of those that were there changes.
Grows == \A v \in Vmid : lxc[v] # Absent => lxc'[v] = lxc[v]

SameRecords == state'.ref = state.ref /\ state'.retained = state.retained

\* What recheck mistook it has mistaken for good.
Remembers == count'.crashes = count.crashes /\ count.mistaken \subseteq count'.mistaken

LEMMA CountStays == ASSUME count' = count PROVE Remembers
BY DEF Remembers

LEMMA LinksStay ==
  ASSUME LInv, Grows, Remembers
  PROVE  /\ \A i \in Item, v \in Vmid : Linked(v, i) => Linked(v, i)'
         /\ \A i \in Item : \A v : Serves(v, i) => Serves(v, i)'
         /\ \A v \in Vmid : Managed(v) => Managed(v)'
BY LParts DEF Grows, Remembers, Linked, Serves, Managed

\* A container that serves is one that a command may stop.
LEMMA LinkedIsManaged == ASSUME NEW i \in Item, NEW v, Linked(v, i) PROVE Managed(v)
BY DEF Linked, Managed

LEMMA InitLinks == Init => LinksOK
<1> SUFFICES ASSUME Init PROVE LinksOK
  OBVIOUS
<1>1. op.at = "idle" /\ op.cmd = "none" /\ count.crashes = 0
  BY NoOpType DEF Init
<1>2. \A i \in Item, v \in Vmid : ~Records(i, v)
  BY SentinelsDistinct DEF Init, NoRecords, Records, HasRef
<1> QED BY <1>1, <1>2 DEF LinksOK

\* The records and the containers that are there stay, and the command goes on.
LEMMA LinksGoto ==
  ASSUME LInv, Grows, SameRecords, Remembers,
         Same(op'), op'.vmid = op.vmid, op'.targets = op.targets,
         op.at # "create", op'.at # "forget", Gone => Gone',
         op'.at = "restore" => op.at = "restore",
         op'.at \in {"stop", "destroy"} =>
           \/ op.at = "restore" /\ Settled' /\ op.cmd # "uninstall"
           \/ op.at \in {"stop", "destroy"} /\ (Settled => Settled')
  PROVE  LinksOK'
<1>1. \A i \in Item, v \in Vmid : Records(i, v)' <=> Records(i, v)
  BY DEF Records, HasRef, SameRecords
<1>2. /\ \A i \in Item, v \in Vmid : Linked(v, i) => Linked(v, i)'
      /\ \A i \in Item : \A v : Serves(v, i) => Serves(v, i)'
      /\ \A v \in Vmid : Managed(v) => Managed(v)'
  BY LinksStay
<1>3. op'.cmd = op.cmd /\ op'.item = op.item /\ op'.force = op.force
  BY DEF Same
<1>4. \A i \in Item, v \in Vmid :
        Records(i, v)' => \/ Linked(v, i)'
                          \/ Gone' /\ op'.vmid = v /\ (op'.cmd = "destroy" => i = op'.item)
  BY <1>1, <1>2, <1>3, LParts DEF LinksOK
<1>5. state'.ref[op.item].vmid = state.ref[op.item].vmid
  BY DEF SameRecords
<1>6. Serves(op.vmid, op.item) => Serves(op.vmid, op.item)'
  <2>1. Serves(op.vmid, op.item) => Linked(op.vmid, op.item) /\ op.vmid \in Vmid
    BY DEF Serves
  <2>2. op.vmid \in Vmid /\ Linked(op.vmid, op.item) => Linked(op.vmid, op.item)'
    BY <1>3, LParts DEF Grows, Remembers, Linked
  <2> QED BY <2>1, <2>2 DEF Serves
<1>7. op'.cmd \in {"add", "recheck", "remove"} /\ op'.at # "create" => Serves(op.vmid, op.item)'
  BY <1>3, <1>6, LParts DEF LinksOK
<1>8. op'.cmd = "destroy" /\ op'.at \in {"restore", "stop", "destroy"} => Serves(op.vmid, op.item)'
  BY <1>3, <1>6, LParts DEF LinksOK
<1>9. op'.cmd = "destroy" /\ op'.item = "vpn" /\ op'.at \in {"stop", "destroy"} => op'.force \/ Settled'
  BY <1>3, LParts DEF LinksOK
<1>10. op.vmid \in Vmid /\ Managed(op.vmid) => Managed(op.vmid)'
  BY LParts DEF Grows, Remembers, Managed
<1>11. op'.cmd = "uninstall" =>
         /\ \A v \in op'.targets : Managed(v)'
         /\ op'.at \in {"stop", "destroy"} => op'.vmid \in Vmid /\ Managed(op.vmid)'
         /\ op'.at \in {"stop", "destroy", "forget"} => op'.vmid \notin op'.targets
  BY <1>2, <1>3, <1>10, LParts DEF LinksOK
<1>12. count'.crashes = 0
  BY LParts DEF Remembers
<1> QED BY <1>3, <1>4, <1>5, <1>7, <1>8, <1>9, <1>11, <1>12, LParts DEF LinksOK

\* The records and the containers that are there stay, and the command ends.
LEMMA LinksIdle ==
  ASSUME LInv, Grows, SameRecords, Remembers, ~Gone,
         op'.cmd = "none", op'.at = "idle"
  PROVE  LinksOK'
<1>1. \A i \in Item, v \in Vmid : Records(i, v)' <=> Records(i, v)
  BY DEF Records, HasRef, SameRecords
<1>2. \A i \in Item, v \in Vmid : Records(i, v)' => Linked(v, i)'
  BY <1>1, LinksStay, LParts DEF LinksOK
<1> QED BY <1>2, LParts DEF LinksOK, Remembers

LEMMA LinksBegin ==
  ASSUME LInv, ~CaInProxy, Begin
  PROVE  LinksOK'
<1>1. CASE Initialise
  <2>1. op = NoOp /\ op' = NoOp /\ state' = NoRecords /\ count'.crashes = 0
    BY <1>1, LParts, CountedType DEF Initialise
  <2>2. \A i \in Item, v \in Vmid : ~Records(i, v)'
    BY <2>1, SentinelsDistinct DEF NoRecords, Records, HasRef
  <2> QED BY <2>1, <2>2, NoOpType DEF LinksOK
<1> SUFFICES ASSUME ~Initialise PROVE LinksOK'
  BY <1>1
<1>2. op = NoOp /\ UNCHANGED <<world, disk>> /\ count'.crashes = 0 /\ Remembers
  <2>1. op = NoOp /\ UNCHANGED <<world, disk>>
    BY DEF Begin, BeginAdd, BeginRecheck, BeginRemove, BeginDestroy, Enter
  <2>2. ASSUME NEW i \in Selected, BeginRecheck(i) PROVE Remembers
    BY <2>2, LParts, RecheckBegins DEF Remembers
  <2>3. ASSUME NEW i \in Selected, NEW force \in BOOLEAN,
               BeginAdd(i) \/ BeginRemove(i) \/ BeginDestroy(i, force)
        PROVE  Remembers
    BY <2>3, LParts, CountedType DEF Remembers, BeginAdd, BeginRemove, BeginDestroy
  <2>4. Remembers
    BY <2>2, <2>3 DEF Begin
  <2> QED BY <2>1, <2>4, LParts DEF Remembers
<1>3. \A i \in Item, v \in Vmid : Records(i, v) => Linked(v, i)
  BY <1>2, NoOpType, LParts DEF LinksOK, Gone
<1>4. \A i \in Item, v \in Vmid : Linked(v, i) => Linked(v, i)'
  BY <1>2, LinksStay DEF Grows, world
<1>5. \A i \in Item, v \in Vmid : Records(i, v)' => Linked(v, i)'
  <2>1. \A i \in Item, v \in Vmid : Records(i, v)' => Records(i, v)
    BY <1>2 DEF Records, HasRef, disk
  <2> QED BY <1>3, <1>4, <2>1
<1>6. \A i \in Item : HasRef(i) => state.ref[i].vmid \in Vmid /\ Records(i, state.ref[i].vmid)
  BY LParts, StateFields DEF Records
<1>7. ASSUME NEW i \in Selected, BeginAdd(i) PROVE LinksOK'
  <2>1. HostOf(i) = i
    BY DEF HostOf
  <2>2. op'.cmd = "add" /\ op'.at = "create"
    BY <1>7, <2>1 DEF BeginAdd, Enter, Run, NoOp
  <2> QED BY <1>2, <1>5, <2>2 DEF LinksOK
<1>8. ASSUME NEW i \in Selected, BeginRecheck(i) PROVE LinksOK'
  <2>1. PICK v \in Vmid :
          /\ HasRef(i) => v = state.ref[i].vmid
          /\ lxc[v] = HostOf(i) \/ v \in count'.mistaken
          /\ Enter(Run("recheck", i, IF HasRef(i) THEN "setup"
                                     ELSE IF Gateway(i) THEN "own" ELSE "check", v))
    BY <1>8, LParts, RecheckBegins
  <2>2. i \in Item /\ HostOf(i) = i
    BY SelectedItem DEF HostOf
  <2>3. lxc'[v] = i \/ v \in count'.mistaken
    BY <1>2, <2>1, <2>2 DEF world
  <2>4. op'.cmd = "recheck" /\ op'.item = i /\ op'.vmid = v
    BY <2>1 DEF Enter, Run, NoOp
  <2>5. Serves(op.vmid, op.item)'
    BY <2>3, <2>4 DEF Serves, Linked
  <2> QED BY <1>2, <1>5, <2>4, <2>5 DEF LinksOK
<1>9. ASSUME NEW i \in Selected, BeginRemove(i) PROVE LinksOK'
  <2>1. i \in Item /\ HasRef(i)
    BY <1>9, SelectedItem DEF BeginRemove
  <2>2. op'.cmd = "remove" /\ op'.item = i /\ op'.vmid = state.ref[i].vmid
    BY <1>9 DEF BeginRemove, Enter, Run, NoOp
  <2>3. state' = state
    BY <1>2 DEF disk
  <2>4. op'.vmid \in Vmid /\ Linked(op.vmid, op.item)'
    BY <1>3, <1>6, <2>1, <2>2, <1>2 DEF Linked, Remembers, world
  <2>5. Serves(op.vmid, op.item)'
    BY <2>4 DEF Serves
  <2> QED BY <1>2, <1>5, <2>2, <2>3, <2>5 DEF LinksOK
<1>10. ASSUME NEW i \in Selected, NEW force \in BOOLEAN, BeginDestroy(i, force) PROVE LinksOK'
  <2> DEFINE v == IF HasRef(i) THEN state.ref[i].vmid ELSE state.retained[i]
             restore == /\ Gateway(i) /\ HasRef(i) /\ ~force
                        /\ ~Pending(i) \/ state.snapshot # Absent
  <2>1. i \in Item
    BY SelectedItem
  <2>2. v # Absent
    BY <1>10 DEF BeginDestroy
  <2>3. v \in Vmid /\ Records(i, v)
    BY <2>1, <2>2, LParts, StateFields DEF Records
  <2>4. Linked(v, i)
    BY <1>3, <2>1, <2>3
  <2>5. /\ op'.cmd = "destroy" /\ op'.item = i /\ op'.vmid = v /\ op'.force = force
        /\ op'.at = IF restore THEN "restore" ELSE "stop"
    BY <1>10 DEF BeginDestroy, Enter, Run, NoOp
  <2>6. i = "vpn" => restore \/ force \/ Settled
    <3> SUFFICES ASSUME i = "vpn", resolver \in Vmid, ~force PROVE restore
      BY DEF Settled
    <3>1. state.ref[i] = [vmid |-> resolver, pending |-> FALSE] /\ state.snapshot # Absent
      BY LParts, Parts DEF GatewayIsRecoverable
    <3>2. Tailscale
      BY LParts DEF ResolverOK, Settled
    <3>3. HasRef(i)
      BY <3>1, ReferenceIsThere DEF HasRef
    <3> QED BY <3>1, <3>2, <3>3 DEF Gateway
  <2>7. Settled' <=> Settled
    BY <1>2 DEF Settled, world
  <2> HIDE DEF v, restore
  <2>8. i = "vpn" /\ op'.at \in {"stop", "destroy"} => force \/ Settled'
    BY <2>5, <2>6, <2>7
  <2>9. Serves(op.vmid, op.item)'
    BY <1>2, <2>3, <2>4, <2>5 DEF Serves, Linked, Remembers, world
  <2> QED BY <1>2, <1>5, <2>5, <2>8, <2>9 DEF LinksOK
<1> QED BY <1>7, <1>8, <1>9, <1>10 DEF Begin

LEMMA LinksBeginUninstall ==
  ASSUME LInv, BeginUninstall
  PROVE  LinksOK'
<1>1. op = NoOp /\ UNCHANGED <<world, disk>> /\ count' = count
  BY DEF BeginUninstall, Enter
<1>2. \A i \in Item, v \in Vmid : Records(i, v) => Linked(v, i)
  BY <1>1, NoOpType, LParts DEF LinksOK, Gone
<1>3. \A i \in Item, v \in Vmid : Records(i, v)' => Linked(v, i)'
  BY <1>1, <1>2 DEF Records, HasRef, Linked, disk, world
<1>4. \A v \in Recorded : \E i \in Item : v \in Vmid /\ Records(i, v)
  BY DEF Recorded, Records
<1>5. op'.cmd = "uninstall" /\ op'.at \in {"pick", "restore"} /\ op'.targets \subseteq Recorded
  BY DEF BeginUninstall, Enter, Run, NoOp
<1>6. \A v \in op'.targets : Managed(v)'
  <2>1. \A v \in op'.targets : Managed(v)
    BY <1>2, <1>4, <1>5, LinkedIsManaged
  <2> QED BY <1>1, <2>1 DEF Managed, world
<1> QED BY <1>1, <1>3, <1>5, <1>6, LParts DEF LinksOK

LEMMA LinksProvision ==
  ASSUME LInv, CreateLxc \/ Deploy \/ Setup \/ SyncTailnet \/ PointResolver
  PROVE  LinksOK'
<1>1. CASE CreateLxc
  <2>1. op.at = "create" /\ UNCHANGED <<disk, count>> /\ op.cmd \in {"add", "recheck"}
    BY <1>1, LParts DEF CreateLxc, Works, At, PlaceOK
  <2>2. PICK v \in Vmid :
          /\ lxc[v] = Absent
          /\ lxc' = [lxc EXCEPT ![v] = op.item]
          /\ op' = [op EXCEPT !.vmid = v, !.at = IF Gateway(op.item) THEN "own" ELSE "setup"]
    BY <1>1 DEF CreateLxc
  <2>3. Same(op') /\ op'.vmid = v /\ op'.at \in {"own", "setup"}
    BY <2>2, LParts DEF OpType, Same
  <2>4. lxc'[v] = op.item /\ \A u \in Vmid : u # v => lxc'[u] = lxc[u]
    BY <2>2, LParts DEF WorldOK
  <2>5. \A i \in Item, u \in Vmid : Records(i, u) => Linked(u, i)
    BY <2>1, LParts DEF LinksOK, Gone
  <2>6. Grows /\ Remembers
    BY <2>1, <2>2, <2>4 DEF Grows, Remembers
  <2>7. \A i \in Item, u \in Vmid : Records(i, u)' => Records(i, u)
    BY <2>1 DEF Records, HasRef, disk
  <2>8. \A i \in Item, u \in Vmid : Records(i, u)' => Linked(u, i)'
    BY <2>5, <2>6, <2>7, LinksStay
  <2>9. Serves(op.vmid, op.item)'
    BY <2>3, <2>4 DEF Serves, Linked, Same
  <2> QED BY <2>1, <2>3, <2>8, <2>9, LParts DEF LinksOK, Same
<1>2. CASE Deploy \/ Setup \/ SyncTailnet \/ PointResolver
  <2>1. PICK at \in {"setup", "record", "state", "config", "point"} : Goto(at)
    BY <1>2 DEF Deploy, Setup, PointResolver, SyncTailnet
  <2>2. /\ lxc' = lxc /\ count' = count /\ SameRecords
        /\ op.at \in {"deploy", "setup", "check", "point", "sync"}
    BY <1>2, LParts DEF Deploy, Setup, PointResolver, SyncTailnet, Works, At, disk, world,
       SameRecords, StateType
  <2>3. op.cmd \in {"add", "recheck"}
    BY <2>2, LParts DEF PlaceOK
  <2>4. /\ op'.at = at /\ Same(op') /\ op'.vmid = op.vmid /\ op'.targets = op.targets
    BY <2>1, LParts, Names, GotoOp
  <2>5. ~Gone
    BY <2>2, <2>3 DEF Gone
  <2> QED BY <2>2, <2>4, <2>5, LinksGoto, CountStays DEF Grows
<1> QED BY <1>1, <1>2

\* A container is recorded for the service that it was created for, or mistaken for.
LEMMA SavedLink ==
  ASSUME LInv, NEW pending \in BOOLEAN, SaveRef(pending), op.at \in {"own", "record", "state"},
         op.cmd \in {"add", "recheck"}, lxc' = lxc, count' = count
  PROVE  \A i \in Item, v \in Vmid : Records(i, v)' => Linked(v, i)'
<1>1. op.vmid \in Vmid /\ op.vmid # Absent /\ Linked(op.vmid, op.item)
  BY LParts, SentinelsDistinct DEF LinksOK, Serves
<1>2. /\ state'.retained = state.retained
      /\ state'.ref[op.item] = [vmid |-> op.vmid, pending |-> pending]
      /\ \A i \in Item : i # op.item => state'.ref[i] = state.ref[i]
  BY <1>1, LParts, SaveRefState
<1>3. state'.ref[op.item].vmid = op.vmid
  BY <1>2
<1>4. \A i \in Item, v \in Vmid : Records(i, v) => Linked(v, i)
  BY LParts DEF LinksOK, Gone
<1>5. ASSUME NEW i \in Item, NEW v \in Vmid, Records(i, v)' PROVE Linked(v, i)
  <2>1. Records(i, v) \/ (i = op.item /\ v = op.vmid)
    BY <1>2, <1>3, <1>5 DEF Records, HasRef
  <2> QED BY <1>1, <1>4, <2>1
<1> QED BY <1>5, LinksStay, CountStays DEF Grows

LEMMA LinksRecord ==
  ASSUME LInv, Own \/ Record
  PROVE  LinksOK'
<1>1. PICK at \in {"deploy", "check", "sync", "config"} : Goto(at)
  BY DEF Own, Record
<1>2. PICK pending \in BOOLEAN : SaveRef(pending)
  BY DEF Own, Record
<1>3. op.at \in {"own", "record"} /\ lxc' = lxc /\ count' = count
  BY DEF Own, Record, At, world
<1>4. op.cmd \in {"add", "recheck"}
  BY <1>3, LParts DEF PlaceOK
<1>5. op'.at = at /\ Same(op') /\ op'.vmid = op.vmid
  BY <1>1, LParts, Names, GotoOp
<1>6. \A i \in Item, v \in Vmid : Records(i, v)' => Linked(v, i)'
  BY <1>2, <1>3, <1>4, SavedLink
<1>7. Serves(op.vmid, op.item)'
  BY <1>3, <1>4, <1>5, LParts DEF LinksOK, Same, Serves, Linked
<1> QED BY <1>3, <1>4, <1>5, <1>6, <1>7, LParts DEF LinksOK, Same

LEMMA LinksDismantle ==
  ASSUME LInv, RestoreDns \/ Unsave \/ StopLxc \/ DestroyLxc \/ Pick
  PROVE  LinksOK'
<1>1. CASE RestoreDns
  <2>1. PICK at \in {"unsave", "stop"} : Goto(at) /\ (at = "stop" => op.cmd # "uninstall")
    BY <1>1 DEF RestoreDns
  <2>2. UNCHANGED <<lxc, state, count>> /\ op.at = "restore" /\ Settled'
    BY <1>1, LParts, RestoreSettles DEF RestoreDns, Works, At, disk
  <2>3. op.cmd \in {"remove", "destroy", "uninstall"} /\ ~Gone
    BY <2>2, LParts DEF PlaceOK, Gone
  <2>4. /\ op'.at = at /\ Same(op') /\ op'.vmid = op.vmid /\ op'.targets = op.targets
    BY <2>1, LParts, Names, GotoOp
  <2> QED BY <2>1, <2>2, <2>3, <2>4, LinksGoto, CountStays DEF Grows, SameRecords
<1>2. CASE Unsave
  <2>1. /\ op.at = "unsave" /\ Goto("pick") /\ SameRecords /\ UNCHANGED <<lxc, count>>
    BY <1>2, LParts DEF Unsave, At, StateType, SameRecords, world
  <2>2. op'.at = "pick" /\ Same(op') /\ op'.vmid = op.vmid /\ op'.targets = op.targets
    BY <2>1, LParts, Names, GotoOp
  <2>3. ~Gone
    BY <2>1 DEF Gone
  <2> QED BY <2>1, <2>2, <2>3, LinksGoto, CountStays DEF Grows
<1>3. CASE StopLxc
  <2>1. PICK at \in {"config", "destroy"} : Goto(at)
    BY <1>3 DEF StopLxc
  <2>2. UNCHANGED <<lxc, resolver, state, count>> /\ op.at = "stop"
    BY <1>3 DEF StopLxc, Works, At, disk
  <2>3. op'.at = at /\ Same(op') /\ op'.vmid = op.vmid /\ op'.targets = op.targets
    BY <2>1, LParts, Names, GotoOp
  <2>4. ~Gone /\ (Settled => Settled')
    BY <2>2 DEF Gone, Settled
  <2> QED BY <2>2, <2>3, <2>4, LinksGoto, CountStays DEF Grows, SameRecords
<1>4. CASE DestroyLxc
  <2>1. PICK at \in {"forget", "config"} : Goto(at) /\ (at = "forget" <=> op.cmd = "uninstall")
    BY <1>4 DEF DestroyLxc
  <2>2. /\ UNCHANGED <<state, count>> /\ op.at = "destroy" /\ lxc' = [lxc EXCEPT ![op.vmid] = Absent]
    BY <1>4 DEF DestroyLxc, Works, At, disk
  <2>3. op'.at = at /\ Same(op') /\ op'.vmid = op.vmid /\ op'.targets = op.targets
    BY <2>1, LParts, Names, GotoOp
  <2>4. op.cmd \in {"destroy", "uninstall"} /\ op.vmid \in Vmid
    BY <2>2, LParts DEF PlaceOK, LinksOK, Serves
  <2>5. \A v \in Vmid : v # op.vmid => lxc'[v] = lxc[v]
    BY <2>2, LParts DEF WorldOK
  <2>6. op.cmd = "destroy" => Linked(op.vmid, op.item)
    BY <2>2, LParts DEF LinksOK, Serves
  <2>7. \A i \in Item, v \in Vmid : Records(i, v)' => Linked(v, i)
    BY <2>2, <2>4, LParts DEF LinksOK, Gone, Records, HasRef
  <2>8. Gone'
    BY <2>1, <2>3, <2>4 DEF Gone, Same
  <2>9. \A i \in Item, v \in Vmid :
          Records(i, v)' => Linked(v, i)' \/ (op'.vmid = v /\ (op'.cmd = "destroy" => i = op'.item))
    BY <2>2, <2>3, <2>4, <2>5, <2>6, <2>7 DEF Same, Linked
  <2>10. op.cmd = "uninstall" => op.vmid \notin op.targets /\ \A v \in op.targets : Managed(v)'
    BY <2>2, <2>5, LParts DEF LinksOK, Managed
  <2> QED BY <2>1, <2>2, <2>3, <2>4, <2>8, <2>9, <2>10, LParts DEF LinksOK, Same
<1>5. CASE Pick
  <2>1. op.at = "pick" /\ UNCHANGED <<world, state, count>> /\ op.cmd = "uninstall"
    BY <1>5, LParts DEF Pick, At, PlaceOK, disk
  <2>2. SameRecords /\ Grows /\ ~Gone
    BY <2>1 DEF SameRecords, Grows, world, Gone
  <2>3. ASSUME NEW v \in op.targets,
               op' = [op EXCEPT !.vmid = v, !.targets = @ \ {v}, !.at = "stop"]
        PROVE  LinksOK'
    <3>1. /\ op'.at = "stop" /\ op'.vmid = v /\ op'.targets = op.targets \ {v} /\ Same(op')
      BY <2>3, LParts DEF OpType, Same
    <3>2. \A i \in Item, u \in Vmid : Records(i, u)' => Linked(u, i)'
      BY <2>1, <2>2, LParts DEF LinksOK, Records, HasRef, Linked, world
    <3>3. v \in Vmid /\ Managed(op.vmid)' /\ \A u \in op'.targets : Managed(u)'
      BY <2>1, <3>1, LParts DEF LinksOK, Managed, world
    <3> QED BY <2>1, <3>1, <3>2, <3>3, LParts DEF LinksOK, Same
  <2>4. CASE Leave
    BY <2>1, <2>2, <2>4, LeaveOp, LinksIdle, CountStays
  <2>5. CASE Goto("rmconfig")
    <3>1. op'.at = "rmconfig" /\ Same(op') /\ op'.vmid = op.vmid /\ op'.targets = op.targets
      BY <2>5, LParts, Names, GotoOp
    <3> QED BY <2>1, <2>2, <3>1, LinksGoto, CountStays
  <2> QED BY <1>5, <2>3, <2>4, <2>5 DEF Pick
<1> QED BY <1>1, <1>2, <1>3, <1>4, <1>5

LEMMA LinksForget ==
  ASSUME LInv, Forget
  PROVE  LinksOK'
<1>1. op.at = "forget" /\ Goto("pick") /\ UNCHANGED <<lxc, count>> /\ state' = Forgotten(op.vmid)
  BY DEF Forget, At, world
<1>2. op.cmd = "uninstall" /\ op.vmid \in Vmid
  BY <1>1, LParts, Parts DEF PlaceOK, OpOK, Write
<1>3. op'.at = "pick" /\ Same(op') /\ op'.targets = op.targets
  BY <1>1, LParts, Names, GotoOp
<1>4. /\ \A i \in Item : state'.ref[i] = (IF HasRef(i) /\ state.ref[i].vmid = op.vmid THEN Absent
                                         ELSE state.ref[i])
      /\ \A i \in Item : state'.retained[i] = (IF state.retained[i] = op.vmid THEN Absent
                                              ELSE state.retained[i])
  BY <1>1, <1>2, LParts, ForgottenState
<1>5. \A i \in Item, v \in Vmid : Records(i, v)' => Records(i, v) /\ v # op.vmid
  BY <1>4, SentinelsDistinct DEF Records, HasRef
<1>6. \A i \in Item, v \in Vmid : Records(i, v)' => Linked(v, i)'
  BY <1>1, <1>5, LParts DEF LinksOK, Linked
<1>7. \A v \in op'.targets : Managed(v)'
  BY <1>1, <1>2, <1>3, LParts DEF LinksOK, Managed
<1> QED BY <1>1, <1>2, <1>3, <1>6, <1>7, LParts DEF LinksOK, Same

LEMMA LinksSave ==
  ASSUME LInv, SaveConfig \/ SaveState \/ RemoveConfig \/ RemoveState
  PROVE  LinksOK'
<1>1. CASE SaveConfig \/ RemoveConfig
  <2>1. PICK at \in {"state", "rmstate"} : Goto(at) /\ (at = "state" <=> op.at = "config")
    BY <1>1 DEF SaveConfig, RemoveConfig, At
  <2>2. UNCHANGED <<lxc, state, count>> /\ op.at \in {"config", "rmconfig"}
    BY <1>1 DEF SaveConfig, RemoveConfig, At, world
  <2>3. op'.at = at /\ Same(op') /\ op'.vmid = op.vmid /\ op'.targets = op.targets
    BY <2>1, LParts, Names, GotoOp
  <2>4. Gone => Gone'
    BY <2>1, <2>2, <2>3 DEF Gone, Same
  <2> QED BY <2>2, <2>3, <2>4, LinksGoto, CountStays DEF Grows, SameRecords
<1>2. CASE RemoveState
  <2>1. op.at = "rmstate" /\ UNCHANGED <<lxc, state, count>> /\ op'.cmd = "none" /\ op'.at = "idle"
    BY <1>2, LeaveOp DEF RemoveState, At, world
  <2>2. ~Gone
    BY <2>1 DEF Gone
  <2> QED BY <2>1, <2>2, LinksIdle, CountStays DEF Grows, SameRecords
<1>3. CASE SaveState
  <2>1. op.at = "state" /\ UNCHANGED <<lxc, count>> /\ op'.cmd = "none" /\ op'.at = "idle"
    BY <1>3, LeaveOp DEF SaveState, At, world
  <2> SUFFICES \A i \in Item, v \in Vmid : Records(i, v)' => Linked(v, i)'
    BY <2>1, LParts DEF LinksOK
  <2>2. CASE op.cmd \in {"add", "recheck"} /\ SaveRef(FALSE)
    BY <2>1, <2>2, SavedLink
  <2>3. CASE op.cmd = "remove" /\ state' = Removed(op.item)
    <3>1. \A i \in Item, v \in Vmid : Records(i, v) => Linked(v, i)
      BY <2>3, <2>1, LParts DEF LinksOK, Gone
    <3>2. Linked(op.vmid, op.item) /\ state.ref[op.item].vmid = op.vmid
      BY <2>1, <2>3, LParts DEF LinksOK, Serves
    <3>3. ASSUME NEW i \in Item, NEW v \in Vmid, Records(i, v)'
          PROVE  Records(i, v) \/ (i = op.item /\ v = op.vmid)
      BY <2>3, <3>2, <3>3, LParts DEF Records, HasRef, Removed, StateType
    <3>4. \A i \in Item, v \in Vmid : Records(i, v)' => Linked(v, i)
      BY <3>1, <3>2, <3>3
    <3> QED BY <2>1, <3>4 DEF Linked
  <2>4. CASE op.cmd = "destroy" /\ state' = Destroyed(op.item)
    <3>1. \A i \in Item, v \in Vmid : Records(i, v) /\ i # op.item => Linked(v, i)
      BY <2>4, LParts DEF LinksOK
    <3>2. ASSUME NEW i \in Item, NEW v \in Vmid, Records(i, v)' PROVE Records(i, v) /\ i # op.item
      <4>1. state'.ref[op.item] = Absent /\ state'.retained[op.item] = Absent /\ v # Absent
        BY <2>4, LParts, DestroyedState, SentinelsDistinct
      <4>2. \A j \in Item : j # op.item => /\ state'.ref[j] = state.ref[j]
                                           /\ state'.retained[j] = state.retained[j]
        BY <2>4, LParts, DestroyedState
      <4> QED BY <3>2, <4>1, <4>2 DEF Records, HasRef
    <3> QED BY <2>1, <3>1, <3>2 DEF Linked
  <2> QED BY <1>3, <2>2, <2>3, <2>4 DEF SaveState
<1> QED BY <1>1, <1>2, <1>3

LEMMA LinksFailure ==
  ASSUME LInv, Refused \/ Fault
  PROVE  LinksOK'
<1>1. AfterFailure /\ state' = state /\ Remembers
  BY LParts DEF Refused, Fault, disk, CountType, Remembers
<1>2. op.at \in Call
  BY CommandsKnown DEF Refused, Fault
<1>3. Grows /\ SameRecords /\ ~Gone
  <2>1. lxc' = lxc \/ \E v \in Vmid : lxc[v] = Absent /\ lxc' = [lxc EXCEPT ![v] = op.item]
    BY DEF Refused, Fault, world, Undone, HalfCreated, HalfSetUp, HalfPointed, HalfRestored
  <2>2. Grows
    BY <2>1, LParts DEF Grows, WorldOK
  <2> QED BY <1>1, <1>2, <2>2 DEF SameRecords, Gone, Call
<1>4. CASE op'.cmd = "none" /\ op'.at = "idle"
  BY <1>1, <1>3, <1>4, LinksIdle
<1>5. CASE /\ op'.cmd = "uninstall" /\ op.cmd = "uninstall" /\ op'.vmid = op.vmid
           /\ op'.targets = op.targets
           /\ \/ op.at = "stop" /\ op'.at = "destroy"
              \/ op.at = "destroy" /\ op'.at = "pick"
  <2>1. \A v \in Vmid : Managed(v) => Managed(v)'
    BY <1>1, <1>3, LinksStay
  <2>2. \A i \in Item, v \in Vmid : Records(i, v)' => Linked(v, i)
    BY <1>1, <1>3, LParts DEF LinksOK, Records, HasRef
  <2>3. \A i \in Item, v \in Vmid : Records(i, v)' => Linked(v, i)'
    BY <1>1, <1>3, <2>2, LinksStay
  <2>4. op.at \in {"stop", "destroy"} => op.vmid \in Vmid /\ Managed(op.vmid)
    BY <1>5, LParts DEF LinksOK
  <2>5. op.at \in {"stop", "destroy"} => op'.vmid \in Vmid /\ Managed(op.vmid)'
    BY <1>1, <1>3, <1>5, <2>4, LParts DEF Managed, Grows, Remembers
  <2> QED BY <1>1, <1>5, <2>1, <2>3, <2>5, LParts DEF LinksOK, Remembers
<1> QED BY <1>1, <1>4, <1>5, AfterFailureOp, LParts

LEMMA LinksEnvironment ==
  ASSUME LInv, Bound.crashes = 0, Environment \/ UNCHANGED vars
  PROVE  LinksOK'
<1>1. ~Crash
  BY LParts DEF Crash
<1>2. UNCHANGED <<op, state>> /\ count'.crashes = 0 /\ Remembers
  BY <1>1, LParts DEF Environment, CreateForeign, Start, SetResolver, vars, disk, CountType, Remembers
<1>3. Grows
  <2>1. lxc' = lxc \/ \E v \in Vmid : lxc[v] = Absent /\ lxc' = [lxc EXCEPT ![v] = Foreign]
    BY <1>1 DEF Environment, CreateForeign, Start, SetResolver, vars
  <2> QED BY <2>1, LParts DEF Grows, WorldOK
<1>4. Settled => Settled'
  BY <1>1, LParts, SentinelsDistinct DEF Environment, CreateForeign, Start, SetResolver, vars, Settled
<1>5. /\ \A i \in Item, v \in Vmid : Linked(v, i) => Linked(v, i)'
      /\ \A v \in Vmid : Managed(v) => Managed(v)'
  BY <1>2, <1>3, LinksStay
<1>6. \A i \in Item, v \in Vmid : Records(i, v)' <=> Records(i, v)
  BY <1>2 DEF Records, HasRef
<1>7. Gone' = Gone
  BY <1>2 DEF Gone
<1>8. Serves(op.vmid, op.item) => Serves(op.vmid, op.item)'
  BY <1>2, <1>3, LParts DEF Serves, Linked, Grows, Remembers
<1>9. op.vmid \in Vmid /\ Managed(op.vmid) => Managed(op.vmid)'
  BY <1>2, <1>3, LParts DEF Managed, Grows, Remembers
<1>10. \A i \in Item, v \in Vmid :
         Records(i, v)' => \/ Linked(v, i)'
                           \/ Gone' /\ op'.vmid = v /\ (op'.cmd = "destroy" => i = op'.item)
  BY <1>2, <1>5, <1>6, <1>7, LParts DEF LinksOK
<1>11. op'.cmd = "uninstall" =>
         /\ \A v \in op'.targets : Managed(v)'
         /\ op'.at \in {"stop", "destroy"} => op'.vmid \in Vmid /\ Managed(op.vmid)'
         /\ op'.at \in {"stop", "destroy", "forget"} => op'.vmid \notin op'.targets
  BY <1>2, <1>5, <1>9, LParts DEF LinksOK
<1>12. op'.cmd = "remove" => state'.ref[op'.item].vmid = op'.vmid
  BY <1>2, LParts DEF LinksOK
<1>13. op'.cmd = "destroy" /\ op'.item = "vpn" /\ op'.at \in {"stop", "destroy"} => op'.force \/ Settled'
  BY <1>2, <1>4, LParts DEF LinksOK
<1>14. op'.cmd \in {"add", "recheck", "remove"} /\ op'.at # "create" => Serves(op.vmid, op.item)'
  BY <1>2, <1>8, LParts DEF LinksOK
<1>15. op'.cmd = "destroy" /\ op'.at \in {"restore", "stop", "destroy"} => Serves(op.vmid, op.item)'
  BY <1>2, <1>8, LParts DEF LinksOK
<1> QED BY <1>2, <1>10, <1>11, <1>12, <1>13, <1>14, <1>15 DEF LinksOK

LEMMA NextLInv ==
  ASSUME LInv, ~CaInProxy, Bound.crashes = 0, [Next]_vars
  PROVE  LInv'
<1>1. IInv'
  BY NextIInv, LParts
<1>2. ASSUME Begin \/ BeginUninstall PROVE LinksOK'
  BY <1>2, LinksBegin, LinksBeginUninstall
<1>3. ASSUME Provision PROVE LinksOK'
  BY <1>3, LinksProvision, LinksRecord DEF Provision
<1>4. ASSUME Dismantle PROVE LinksOK'
  BY <1>4, LinksDismantle, LinksForget, LinksSave DEF Dismantle
<1>5. ASSUME SaveConfig \/ SaveState \/ Refused \/ Fault PROVE LinksOK'
  BY <1>5, LinksSave, LinksFailure
<1>6. ASSUME Environment \/ UNCHANGED vars PROVE LinksOK'
  BY <1>6, LinksEnvironment
<1>7. LinksOK'
  BY <1>2, <1>3, <1>4, <1>5, <1>6 DEF Next, Continue
<1> QED BY <1>1, <1>7 DEF LInv

\* Without crashes and without the internal CA, a record leads to the container it was
\* made for, or to one that a recheck took for it.
THEOREM InductiveLinks == ASSUME ~CaInProxy, Bound.crashes = 0 PROVE Spec => []LInv
<1>1. Init => LInv
  BY InitIInv, InitLinks DEF LInv
<1>2. LInv /\ [Next]_vars => LInv'
  BY NextLInv
<1> QED BY <1>1, <1>2, PTL DEF Spec

\* What a command stops or destroys is the container of a service, or was mistaken for it.
LEMMA InHandIsService ==
  ASSUME LInv, op.at \in {"stop", "destroy"}
  PROVE  op.vmid \in Vmid /\ Managed(op.vmid)
<1>1. op.vmid \in Vmid /\ (Linked(op.vmid, op.item) \/ Managed(op.vmid))
  BY LParts DEF LinksOK, Serves, PlaceOK
<1> QED BY <1>1, LParts, LinkedIsManaged

LEMMA ForeignStays ==
  ASSUME LInv, [Next]_vars, NEW v \in Vmid, lxc[v] = Foreign, v \notin count.mistaken
  PROVE  lxc'[v] = Foreign /\ (v \in running => v \in running')
<1>1. Foreign # Absent /\ Foreign \notin Item
  BY SentinelsDistinct
<1>2. CASE StopLxc \/ DestroyLxc
  <2>1. op.at \in {"stop", "destroy"}
    BY <1>2 DEF StopLxc, DestroyLxc, Works, At
  <2>2. v # op.vmid
    BY <1>1, <2>1, InHandIsService DEF Managed
  <2>3. lxc' = lxc \/ lxc' = [lxc EXCEPT ![op.vmid] = Absent]
    BY <1>2 DEF StopLxc, DestroyLxc
  <2>4. running' = running \/ running' = running \ {op.vmid}
    BY <1>2 DEF StopLxc, DestroyLxc
  <2> QED BY <2>2, <2>3, <2>4, LParts DEF WorldOK
<1>4. CASE Begin \/ BeginUninstall \/ UNCHANGED vars
  BY <1>4 DEF Begin, Initialise, BeginAdd, BeginRecheck, BeginRemove, BeginDestroy, BeginUninstall,
              Enter, world, vars
<1>5. CASE CreateLxc
  BY <1>1, <1>5, LParts DEF CreateLxc, WorldOK
<1>6. CASE Own \/ Deploy \/ Setup \/ Record \/ SyncTailnet \/ PointResolver
  BY <1>6 DEF Own, Deploy, Setup, Record, SyncTailnet, PointResolver, world
<1>7. CASE RestoreDns \/ Unsave \/ Pick \/ Forget \/ RemoveConfig \/ RemoveState
  BY <1>7 DEF RestoreDns, Unsave, Pick, Forget, RemoveConfig, RemoveState, world
<1>8. CASE SaveConfig \/ SaveState
  BY <1>8 DEF SaveConfig, SaveState, world
<1>9. CASE Refused \/ Fault
  <2>1. running' = running
    BY <1>9 DEF Refused, Fault, world, Undone, HalfCreated, HalfSetUp, HalfPointed, HalfRestored
  <2>2. lxc' = lxc \/ \E u \in Vmid : lxc[u] = Absent /\ lxc' = [lxc EXCEPT ![u] = op.item]
    BY <1>9 DEF Refused, Fault, world, Undone, HalfCreated, HalfSetUp, HalfPointed, HalfRestored
  <2> QED BY <1>1, <2>1, <2>2, LParts DEF WorldOK
<1>10. CASE Environment
  <2>1. running \subseteq running'
    BY <1>10 DEF Environment, Crash, CreateForeign, Start, SetResolver, world
  <2>2. lxc' = lxc \/ \E u \in Vmid : lxc' = [lxc EXCEPT ![u] = Foreign]
    BY <1>10 DEF Environment, Crash, CreateForeign, Start, SetResolver, world
  <2> QED BY <1>1, <2>1, <2>2, LParts DEF WorldOK
<1> QED BY <1>2, <1>4, <1>5, <1>6, <1>7, <1>8, <1>9, <1>10 DEF Next, Continue, Provision, Dismantle

\* "Unmanaged containers are never touched", for commands that are not cut off between the
\* destruction of a container and the write that forgets it, and where no two services share a
\* container: whatever VMIDs Proxmox gives away again, service remove, service destroy and
\* uninstall stop and destroy only containers that nomina created, and those whose VMID a
\* recheck took for that of a service (cli.js).
THEOREM UnmanagedContainersUntouched ==
  ASSUME ~CaInProxy, Bound.crashes = 0 PROVE Spec => ForeignUntouched
<1>1. LInv /\ [Next]_vars =>
        [\A v \in Vmid : lxc[v] = Foreign /\ v \notin count.mistaken =>
           lxc'[v] = Foreign /\ (v \in running => v \in running')]_vars
  BY ForeignStays
<1> QED BY <1>1, InductiveLinks, PTL DEF Spec, ForeignUntouched

LEMMA OnlyForceStrands ==
  ASSUME LInv, [Next]_vars, resolver # DeadGateway, resolver' = DeadGateway, op.at = "destroy"
  PROVE  op.force \/ op.vmid \in count.mistaken
<1>1. CASE DestroyLxc
  <2>1. resolver = op.vmid
    BY <1>1 DEF DestroyLxc
  <2>2. op.vmid \in Vmid
    BY InHandIsService
  <2>3. ~Settled
    BY <2>1, <2>2 DEF Settled
  <2>4. op.cmd = "destroy" /\ Serves(op.vmid, op.item)
    BY <2>3, LParts DEF PlaceOK, ResolverOK, LinksOK
  <2>5. state.ref["vpn"] = [vmid |-> op.vmid, pending |-> FALSE]
    BY <2>1, <2>2, LParts, Parts DEF GatewayIsRecoverable
  <2>6. Records("vpn", op.vmid)
    <3>1. state.ref["vpn"] # Absent
      BY <2>2, <2>5, ReferenceIsThere
    <3>2. state.ref["vpn"].vmid = op.vmid
      BY <2>5
    <3> QED BY <3>1, <3>2 DEF Records, HasRef
  <2>7. ~Gone
    BY <2>4 DEF Gone
  <2>8. op.item = "vpn" \/ op.vmid \in count.mistaken
    BY <2>2, <2>4, <2>6, <2>7, LParts DEF LinksOK, Serves, Linked, Item
  <2> QED BY <2>3, <2>4, <2>8, LParts DEF LinksOK
<1>2. CASE SetResolver
  BY <1>2, SentinelsDistinct DEF SetResolver
<1>3. CASE Begin \/ BeginUninstall \/ UNCHANGED vars
  BY <1>3 DEF Begin, Initialise, BeginAdd, BeginRecheck, BeginRemove, BeginDestroy, BeginUninstall,
              Enter, world, vars
<1>4. CASE Provision
  BY <1>4 DEF Provision, CreateLxc, Own, Deploy, Setup, Record, SyncTailnet, PointResolver, Works, At,
              world
<1>5. CASE RestoreDns \/ Unsave \/ StopLxc \/ Pick \/ Forget \/ RemoveConfig \/ RemoveState
  BY <1>5 DEF RestoreDns, Unsave, StopLxc, Pick, Forget, RemoveConfig, RemoveState, Works, At, world
<1>6. CASE SaveConfig \/ SaveState \/ Refused
  BY <1>6 DEF SaveConfig, SaveState, Refused, world
<1>7. CASE Fault
  BY <1>7 DEF Fault, Undone, HalfCreated, HalfSetUp, HalfPointed, HalfRestored, At, world
<1>8. CASE Environment /\ ~SetResolver
  BY <1>8 DEF Environment, Crash, CreateForeign, Start, world
<1> QED BY <1>1, <1>2, <1>3, <1>4, <1>5, <1>6, <1>7, <1>8 DEF Next, Continue, Dismantle

\* Under the same two hypotheses, a tailnet is left with the nameserver of a destroyed gateway
\* only when the operator asked for it with service destroy --force, or when a recheck took the
\* VMID of the gateway for that of another service (cli.js and restoreTailnetDns,
\* tailscale-tailnet.js).
THEOREM OnlyForceLosesNameserver ==
  ASSUME ~CaInProxy, Bound.crashes = 0 PROVE Spec => OnlyForceStrandsTailnet
<1>1. LInv /\ [Next]_vars =>
        [resolver # DeadGateway /\ resolver' = DeadGateway /\ op.at = "destroy"
           => op.force \/ op.vmid \in count.mistaken]_vars
  BY OnlyForceStrands
<1> QED BY <1>1, InductiveLinks, PTL DEF Spec, OnlyForceStrandsTailnet
=============================================================================
