-------------------------- MODULE DockerHostsProofs --------------------------
(***************************************************************************)
(* Proofs about DockerHosts for any number of processes, bindings, VMIDs,  *)
(* commands, faults, crashes and removals.  What is proved rests on the    *)
(* operation lock alone: whoever sets up a container, disconnects a host   *)
(* or uninstalls holds it, and the others can take nothing away.  That     *)
(* setup works on its own container rests on the address as well: nobody   *)
(* else's container has one that docker create has chosen.                 *)
(***************************************************************************)
EXTENDS DockerHosts, TLAPS

SetupCommand == {"create", "retry", "connect"}

SetupPlace == {"save", "state", "allocate", "create", "verify", "features", "start", "install",
               "health", "finish"}

Place == SetupPlace \cup {"idle", "end", "confirm", "unbind", "forget", "reserve", "destroy",
                          "nextid", "provision", "record"}

Op == [cmd : SetupCommand \cup {"none", "disconnect", "uninstall", "add"}, at : Place,
       host : Host \cup {Absent}, new : Binding \cup {Absent}, vmid : Vmid \cup {Absent},
       save : Status, then : Place, targets : SUBSET Vmid]

Types == /\ TypeOK
         /\ op \in [Process -> Op]
         /\ count \in [commands : Nat, faults : Nat, crashes : Nat, removals : Nat]

\* docker create made container v for binding h.
Made(h, v) == ct[v] # Absent /\ ct[v].by = h

Saving(p) == op[p].at \in {"save", "state"}

\* p is at one of these places, or comes to one with the save it is in.
Ahead(p, places) == op[p].at \in places \/ (Saving(p) /\ op[p].then \in places)

\* What its place says about the command of a process.
PlaceOK(p) ==
  /\ op[p].at \in SetupPlace => op[p].cmd \in SetupCommand
  /\ op[p].at \in {"reserve", "destroy"} => op[p].cmd = "uninstall"
  /\ op[p].at \in {"confirm", "unbind", "forget"} => op[p].cmd = "disconnect" /\ op[p].host \in Host
  /\ op[p].at \in {"nextid", "provision", "record"} => op[p].cmd = "add"
  /\ op[p].at \in {"provision", "record"} => op[p].vmid \in Vmid
  /\ Saving(p) => op[p].then \in {"allocate", "create", "verify", "finish", "end"}

\* Who changes bindings, references and status holds the operation lock.
LockOK(p) ==
  op[p].cmd \in SetupCommand \cup {"uninstall"} \/ op[p].at \in {"unbind", "forget"}
    => operation = p

\* The binding at work has not been ended, and its only container is the one at
\* work, which is recorded before it is created.
WorkOK(p) ==
  LET h == op[p].host
      v == op[p].vmid
  IN  op[p].cmd \in SetupCommand =>
        /\ project
        /\ h \in Host /\ h \notin gone
        /\ op[p].new \in Binding
        /\ \A u \in Vmid : Made(h, u) => u = v
        /\ Ahead(p, {"allocate", "create"}) => \A u \in Vmid : ~Made(h, u)
        /\ Ahead(p, {"create", "verify", "finish"}) => v \in Vmid
        /\ op[p].at \in {"features", "start", "install", "health"} => v \in Vmid
        /\ op[p].at = "state" => bound[h] # Absent
        /\ op[p].at = "create" => bound[h] # Absent /\ ref[h] = v

\* A status is "healthy" only when nothing is left to do.
StatusOK(p) ==
  LET h == op[p].host
  IN  /\ op[p].at \in SetupPlace \ {"finish"} => status[h] # "healthy"
      /\ Saving(p) /\ op[p].save = "healthy" =>
           /\ op[p].then \in {"finish", "end"}
           /\ op[p].vmid \in Vmid
           /\ \A u \in Vmid : Made(h, u) => ct[u].stage = "installed"

ForgetOK(p) == op[p].at = "forget" => \A v \in Vmid : ~Made(op[p].host, v)

TargetsOK(p) == op[p].at = "destroy" => \A v \in op[p].targets : \A h \in Host : ref[h] # v

ProcessOK(p) == PlaceOK(p) /\ LockOK(p) /\ WorkOK(p) /\ StatusOK(p) /\ ForgetOK(p) /\ TargetsOK(p)

\* Also while the two files are being replaced.
HealthyOK ==
  \A h \in Host :
    status[h] = "healthy" =>
      \/ h \in gone
      \/ /\ bound[h] # Absent /\ ref[h] \in Vmid
         /\ \A v \in Vmid : Made(h, v) => ct[v].stage = "installed"

Recorded == CreatedIsRecorded /\ EndedStaysEnded /\ HealthyOK

IInv == Types /\ (\A p \in Process : ProcessOK(p)) /\ Recorded

-----------------------------------------------------------------------------
LEMMA InitIInv == Init => IInv
<1> SUFFICES ASSUME Init PROVE IInv
  OBVIOUS
<1>1. NoOp \in Op
  BY DEF NoOp, Op, Place, SetupPlace, Status
<1>2. Types
  BY <1>1 DEF Init, Types, TypeOK, Status
<1>3. \A p \in Process : ProcessOK(p)
  BY SentinelsDistinct DEF Init, NoOp, ProcessOK, PlaceOK, LockOK, WorkOK, StatusOK, ForgetOK, TargetsOK, Ahead,
     Saving, SetupPlace, SetupCommand
<1>4. Recorded
  BY DEF Init, Recorded, CreatedIsRecorded, EndedStaysEnded, HealthyOK, Bindings
<1> QED BY <1>2, <1>3, <1>4 DEF IInv

-----------------------------------------------------------------------------
(* The frame: a step of one process and the others *)

\* A holder of the operation lock is alone; any other step leaves the files as
\* they are and makes no container for a binding.
Harmless(p) ==
  /\ operation' # operation => operation \in {Absent, p}
  /\ \/ operation = p
     \/ /\ UNCHANGED <<bound, ref, status, project, gone>>
        /\ \A h \in Host, v \in Vmid : Made(h, v)' => Made(h, v) /\ ct'[v].stage = ct[v].stage

LEMMA Others ==
  ASSUME IInv, NEW p \in Process, Harmless(p),
         NEW q \in Process, q # p, op'[q] = op[q]
  PROVE  ProcessOK(q)'
<1>1. ProcessOK(q) /\ q # Absent
  BY SentinelsDistinct DEF IInv
<1>2. PlaceOK(q)'
  BY <1>1 DEF ProcessOK, PlaceOK, Saving
<1>3. LockOK(q)'
  BY <1>1 DEF ProcessOK, LockOK, Harmless
<1>4. CASE operation = p
  <2>1. op[q].cmd \notin SetupCommand \cup {"uninstall"} /\ op[q].at \notin {"unbind", "forget"}
    BY <1>1, <1>4 DEF ProcessOK, LockOK
  <2>2. op[q].at \notin SetupPlace /\ op[q].at # "destroy"
    BY <1>1, <2>1 DEF ProcessOK, PlaceOK
  <2> QED BY <1>2, <1>3, <2>1, <2>2 DEF ProcessOK, WorkOK, StatusOK, ForgetOK, TargetsOK, Saving, SetupPlace
<1>5. CASE operation # p
  <2>1. /\ UNCHANGED <<bound, ref, status, project, gone>>
        /\ \A h \in Host, v \in Vmid : Made(h, v)' => Made(h, v) /\ ct'[v].stage = ct[v].stage
    BY <1>5 DEF Harmless
  <2>2. op[q].at \in SetupPlace => op[q].host \in Host
    BY <1>1 DEF ProcessOK, PlaceOK, WorkOK
  <2>3. WorkOK(q)'
    BY <1>1, <2>1 DEF ProcessOK, WorkOK, Ahead, Saving
  <2>4. StatusOK(q)'
    BY <1>1, <2>1, <2>2 DEF ProcessOK, StatusOK, Saving, SetupPlace
  <2>5. ForgetOK(q)'
    BY <1>1, <2>1 DEF ProcessOK, PlaceOK, ForgetOK
  <2>6. TargetsOK(q)'
    BY <1>1, <2>1 DEF ProcessOK, TargetsOK
  <2> QED BY <1>2, <1>3, <2>3, <2>4, <2>5, <2>6 DEF ProcessOK
<1> QED BY <1>4, <1>5

LEMMA StepOf ==
  ASSUME IInv, NEW p \in Process, Harmless(p), NEW new \in Op, op' = [op EXCEPT ![p] = new],
         Types', ProcessOK(p)', Recorded'
  PROVE  IInv'
<1>1. \A q \in Process \ {p} : op'[q] = op[q]
  BY DEF IInv, Types
<1>2. \A q \in Process : ProcessOK(q)'
  BY <1>1, Others
<1> QED BY <1>2 DEF IInv

\* A step that changes nothing but a process, its locks and the counters.
LEMMA PrivateStep ==
  ASSUME IInv, NEW p \in Process, NEW new \in Op, op' = [op EXCEPT ![p] = new],
         operation' # operation => operation \in {Absent, p},
         operation' \in Process \cup {Absent}, write' \in Process \cup {Absent},
         count' \in [commands : Nat, faults : Nat, crashes : Nat, removals : Nat],
         UNCHANGED <<ct, disk, gone>>,
         ProcessOK(p)'
  PROVE  IInv'
<1>1. Types'
  BY DEF IInv, Types, TypeOK, disk
<1>2. Harmless(p)
  BY DEF Harmless, disk, Made
<1>3. Recorded'
  BY DEF IInv, Recorded, CreatedIsRecorded, EndedStaysEnded, HealthyOK, Bindings, Made, disk
<1> QED BY <1>1, <1>2, <1>3, StepOf


\* The same with what the actions say of locks and of the new operation.
LEMMA Private ==
  ASSUME IInv, NEW p \in Process, NEW new \in Op, op' = [op EXCEPT ![p] = new],
         operation' \in {operation, p, Absent},
         operation' # operation => operation \in {Absent, p},
         write' \in {write, p, Absent},
         count' \in [commands : Nat, faults : Nat, crashes : Nat, removals : Nat],
         UNCHANGED <<ct, disk, gone>>,
         op'[p] = new => ProcessOK(p)'
  PROVE  IInv'
<1>1. op'[p] = new
  BY DEF IInv, Types
<1>2. operation' \in Process \cup {Absent} /\ write' \in Process \cup {Absent}
  BY DEF IInv, Types, TypeOK
<1> QED BY <1>1, <1>2, PrivateStep

\* The counters stay numbers.
LEMMA CountedType ==
  ASSUME IInv, Counted
  PROVE  count' \in [commands : Nat, faults : Nat, crashes : Nat, removals : Nat]
BY DEF IInv, Types, Counted

LEMMA OpFields ==
  ASSUME IInv, NEW p \in Process
  PROVE  /\ op[p] \in Op /\ op[p].cmd \in SetupCommand \cup {"none", "disconnect", "uninstall", "add"}
         /\ op[p].at \in Place /\ op[p].host \in Host \cup {Absent}
         /\ op[p].new \in Binding \cup {Absent} /\ op[p].vmid \in Vmid \cup {Absent}
         /\ op[p].save \in Status /\ op[p].then \in Place /\ op[p].targets \subseteq Vmid
         /\ ProcessOK(p)
         /\ op[p] = [cmd |-> op[p].cmd, at |-> op[p].at, host |-> op[p].host, new |-> op[p].new,
                     vmid |-> op[p].vmid, save |-> op[p].save, then |-> op[p].then,
                     targets |-> op[p].targets]
BY DEF IInv, Types, Op

\* What SaveThen leaves a process with.
LEMMA SaveType ==
  ASSUME IInv, NEW p \in Process, NEW as \in Status, NEW at \in Place, SaveThen(p, as, at)
  PROVE  \E new \in Op : /\ op' = [op EXCEPT ![p] = new]
                         /\ new.at = "save" /\ new.save = as /\ new.then = at
                         /\ new.cmd = op[p].cmd /\ new.host = op[p].host /\ new.new = op[p].new
                         /\ new.vmid = op[p].vmid /\ new.targets = op[p].targets
<1> DEFINE new == [op[p] EXCEPT !.at = "save", !.save = as, !.then = at]
<1>1. /\ new.at = "save" /\ new.save = as /\ new.then = at
      /\ new.cmd = op[p].cmd /\ new.host = op[p].host /\ new.new = op[p].new
      /\ new.vmid = op[p].vmid /\ new.targets = op[p].targets
  BY OpFields
<1>2. op' = [op EXCEPT ![p] = new]
  BY DEF SaveThen
<1>3. new \in Op
  <2>1. "save" \in Place /\ op[p] \in Op
    BY OpFields DEF Place, SetupPlace
  <2> DEFINE a == [op[p] EXCEPT !.at = "save"]
             b == [a EXCEPT !.save = as]
  <2>2. a \in Op
    BY <2>1 DEF Op
  <2>3. b \in Op
    <3> HIDE DEF a
    <3> QED BY <2>2 DEF Op
  <2>4. [b EXCEPT !.then = at] \in Op
    <3> HIDE DEF b
    <3> QED BY <2>3 DEF Op
  <2> QED BY <2>4
<1> HIDE DEF new
<1> QED BY <1>1, <1>2, <1>3

\* What Goto leaves a process with.
LEMMA GotoType ==
  ASSUME IInv, NEW p \in Process, NEW at \in Place, Goto(p, at)
  PROVE  \E new \in Op : /\ op' = [op EXCEPT ![p] = new]
                         /\ new.at = at /\ new.save = op[p].save /\ new.then = op[p].then
                         /\ new.cmd = op[p].cmd /\ new.host = op[p].host /\ new.new = op[p].new
                         /\ new.vmid = op[p].vmid /\ new.targets = op[p].targets
<1> DEFINE new == [op[p] EXCEPT !.at = at]
<1>1. /\ new.at = at /\ new.save = op[p].save /\ new.then = op[p].then
      /\ new.cmd = op[p].cmd /\ new.host = op[p].host /\ new.new = op[p].new
      /\ new.vmid = op[p].vmid /\ new.targets = op[p].targets
  BY OpFields
<1>2. new \in Op
  BY OpFields DEF Op
<1>3. op' = [op EXCEPT ![p] = new]
  BY DEF Goto
<1> HIDE DEF new
<1> QED BY <1>1, <1>2, <1>3

LEMMA NoOpType == NoOp \in Op
BY DEF NoOp, Op, Place, SetupPlace, Status

-----------------------------------------------------------------------------
(* Commands begin *)

\* An unused binding has no container, and no status.
LEMMA FreshHost ==
  ASSUME IInv, NEW h \in Host, Fresh(h)
  PROVE  h \notin gone /\ bound[h] = Absent /\ status[h] # "healthy" /\ \A v \in Vmid : ~Made(h, v)
BY DEF Fresh, Unused, Made, IInv, Recorded, HealthyOK

LEMMA BeginCreateIInv ==
  ASSUME IInv, NEW p \in Process, BeginCreate(p)
  PROVE  IInv'
<1> PICK h \in Host, name \in Name, ip \in Address :
         /\ Known(p) /\ TakeOperation(p) /\ Counted
         /\ Fresh(h)
         /\ op' = [op EXCEPT ![p] = [NoOp EXCEPT
                     !.cmd = "create", !.at = "save", !.host = h, !.save = "pending",
                     !.then = "allocate",
                     !.new = [name |-> name, origin |-> "created", ip |-> ip]]]
         /\ UNCHANGED <<ct, disk, write, gone>>
  BY DEF BeginCreate
<1> DEFINE new == [NoOp EXCEPT !.cmd = "create", !.at = "save", !.host = h, !.save = "pending",
                     !.then = "allocate",
                     !.new = [name |-> name, origin |-> "created", ip |-> ip]]
<1>1. /\ new.cmd = "create" /\ new.at = "save" /\ new.host = h /\ new.new \in Binding
      /\ new.save = "pending" /\ new.then = "allocate"
  BY DEF NoOp, Binding
<1>2. new \in Op
  BY DEF NoOp, Op, SetupCommand, Place, SetupPlace, Status, Binding
<1>3. op' = [op EXCEPT ![p] = new]
  OBVIOUS
<1> HIDE DEF new
<1>4. h \notin gone /\ status[h] # "healthy" /\ project /\ \A v \in Vmid : ~Made(h, v)
  BY FreshHost DEF Known
<1>5. ASSUME op'[p] = new PROVE ProcessOK(p)'
  <2>1. UNCHANGED <<ct, bound, ref, status, project, gone>> /\ operation' = p
    BY DEF disk, TakeOperation
  <2>2. WorkOK(p)'
    BY <1>1, <1>4, <1>5, <2>1 DEF WorkOK, Ahead, Saving, Made
  <2>3. StatusOK(p)'
    BY <1>1, <1>4, <1>5, <2>1 DEF StatusOK, Saving, Made
  <2> QED BY <1>1, <1>5, <2>1, <2>2, <2>3 DEF ProcessOK, PlaceOK, LockOK, ForgetOK, TargetsOK, Saving, SetupCommand
<1> QED BY <1>2, <1>3, <1>5, CountedType, Private DEF TakeOperation

LEMMA BeginConnectIInv ==
  ASSUME IInv, NEW p \in Process, BeginConnect(p)
  PROVE  IInv'
<1> PICK h \in Host, name \in Name, v \in Vmid :
         /\ Known(p) /\ TakeOperation(p) /\ Counted
         /\ Fresh(h)
         /\ op' = [op EXCEPT ![p] = [NoOp EXCEPT
                     !.cmd = "connect", !.at = "save", !.host = h, !.vmid = v,
                     !.save = "healthy", !.then = "end",
                     !.new = [name |-> name, origin |-> "connected", ip |-> Elsewhere]]]
         /\ UNCHANGED <<ct, disk, write, gone>>
  BY DEF BeginConnect
<1> DEFINE new == [NoOp EXCEPT !.cmd = "connect", !.at = "save", !.host = h, !.vmid = v,
                     !.save = "healthy", !.then = "end",
                     !.new = [name |-> name, origin |-> "connected", ip |-> Elsewhere]]
<1>1. /\ new.cmd = "connect" /\ new.at = "save" /\ new.host = h /\ new.new \in Binding
      /\ new.vmid = v /\ new.save = "healthy" /\ new.then = "end"
  BY DEF NoOp, Binding
<1>2. new \in Op
  BY DEF NoOp, Op, SetupCommand, Place, SetupPlace, Status, Binding
<1>3. op' = [op EXCEPT ![p] = new]
  OBVIOUS
<1> HIDE DEF new
<1>4. h \notin gone /\ status[h] # "healthy" /\ project /\ \A u \in Vmid : ~Made(h, u)
  BY FreshHost DEF Known
<1>5. ASSUME op'[p] = new PROVE ProcessOK(p)'
  <2>1. UNCHANGED <<ct, bound, ref, status, project, gone>> /\ operation' = p
    BY DEF disk, TakeOperation
  <2>2. WorkOK(p)'
    BY <1>1, <1>4, <1>5, <2>1 DEF WorkOK, Ahead, Saving, Made
  <2>3. StatusOK(p)'
    BY <1>1, <1>4, <1>5, <2>1 DEF StatusOK, Saving, Made
  <2> QED BY <1>1, <1>5, <2>1, <2>2, <2>3 DEF ProcessOK, PlaceOK, LockOK, ForgetOK, TargetsOK, Saving, SetupCommand
<1> QED BY <1>2, <1>3, <1>5, CountedType, Private DEF TakeOperation

\* What Run leaves a process with.
LEMMA RunType ==
  ASSUME IInv, NEW cmd \in {"disconnect", "uninstall", "add", "retry"},
         NEW at \in {"confirm", "reserve", "nextid", "verify"},
         NEW h \in Host \cup {Absent}, NEW b \in Binding \cup {Absent}, NEW v \in Vmid \cup {Absent},
         NEW p \in Process, Run(p, cmd, at, h, b, v)
  PROVE  \E new \in Op : /\ op' = [op EXCEPT ![p] = new]
                         /\ new.cmd = cmd /\ new.at = at /\ new.host = h /\ new.new = b
                         /\ new.vmid = v
<1> DEFINE new == [NoOp EXCEPT !.cmd = cmd, !.at = at, !.host = h, !.new = b, !.vmid = v]
<1>1. /\ new.cmd = cmd /\ new.at = at /\ new.host = h /\ new.new = b /\ new.vmid = v
  BY DEF NoOp
<1>2. new \in Op
  BY DEF NoOp, Op, SetupCommand, Place, SetupPlace, Status
<1>3. op' = [op EXCEPT ![p] = new]
  BY DEF Run
<1> HIDE DEF new
<1> QED BY <1>1, <1>2, <1>3

LEMMA BeginRetryIInv ==
  ASSUME IInv, NEW p \in Process, NEW h \in Host, BeginRetry(p, h)
  PROVE  IInv'
<1>1. /\ Known(p) /\ TakeOperation(p) /\ UNCHANGED <<ct, disk, write, gone, count>>
      /\ h \in Bindings /\ status[h] # "healthy" /\ ref[h] # Absent
      /\ Run(p, "retry", "verify", h, bound[h], ref[h])
  BY DEF BeginRetry, Retryable
<1>2. bound[h] \in Binding /\ ref[h] \in Vmid
  BY <1>1 DEF Bindings, IInv, Types, TypeOK
<1>3. PICK new \in Op : /\ op' = [op EXCEPT ![p] = new]
                        /\ new.cmd = "retry" /\ new.at = "verify" /\ new.host = h
                        /\ new.new = bound[h] /\ new.vmid = ref[h]
  BY <1>1, <1>2, RunType
<1>4. h \notin gone /\ project /\ \A v \in Vmid : Made(h, v) => v = ref[h]
  BY <1>1 DEF IInv, Recorded, CreatedIsRecorded, EndedStaysEnded, Made, Known
<1>5. ASSUME op'[p] = new PROVE ProcessOK(p)'
  BY <1>1, <1>2, <1>3, <1>4, <1>5 DEF ProcessOK, PlaceOK, LockOK, WorkOK, StatusOK, ForgetOK, TargetsOK, Ahead,
     Saving, SetupPlace, SetupCommand, TakeOperation, Made, disk
<1>6. count' \in [commands : Nat, faults : Nat, crashes : Nat, removals : Nat]
  BY <1>1 DEF IInv, Types
<1> QED BY <1>1, <1>3, <1>5, <1>6, Private DEF TakeOperation

\* The commands that set up no container.
LEMMA BeginOtherIInv ==
  ASSUME IInv, NEW p \in Process,
         SelectForDisconnect(p) \/ BeginUninstall(p) \/ BeginServiceAdd(p)
  PROVE  IInv'
<1>1. CASE SelectForDisconnect(p)
  <2>1. PICK h \in Bindings : /\ Counted /\ UNCHANGED <<ct, disk, locks, gone>>
                              /\ Run(p, "disconnect", "confirm", h, bound[h], Absent)
    BY <1>1 DEF SelectForDisconnect
  <2> DEFINE new == [NoOp EXCEPT !.cmd = "disconnect", !.at = "confirm", !.host = h, !.new = bound[h],
                                 !.vmid = Absent]
  <2>2. h \in Host /\ bound[h] \in Binding
    BY DEF Bindings, IInv, Types, TypeOK
  <2>3. new.cmd = "disconnect" /\ new.at = "confirm" /\ new.host = h
    BY DEF NoOp
  <2>4. new \in Op
    BY <2>2 DEF NoOp, Op, SetupCommand, Place, SetupPlace, Status
  <2>5. op' = [op EXCEPT ![p] = new]
    BY <2>1 DEF Run
  <2> HIDE DEF new
  <2>6. ASSUME op'[p] = new PROVE ProcessOK(p)'
    BY <2>2, <2>3, <2>6 DEF ProcessOK, PlaceOK, LockOK, WorkOK, StatusOK, ForgetOK, TargetsOK, Saving,
       SetupPlace, SetupCommand
  <2> QED BY <2>1, <2>4, <2>5, <2>6, CountedType, Private DEF locks
<1>2. CASE BeginUninstall(p)
  <2>1. Run(p, "uninstall", "reserve", Absent, Absent, Absent)
    BY <1>2 DEF BeginUninstall
  <2>2. PICK new \in Op : /\ op' = [op EXCEPT ![p] = new]
                          /\ new.cmd = "uninstall" /\ new.at = "reserve" /\ new.host = Absent
                          /\ new.new = Absent /\ new.vmid = Absent
    BY <2>1, RunType
  <2>3. ASSUME op'[p] = new PROVE ProcessOK(p)'
    BY <1>2, <2>2, <2>3 DEF ProcessOK, PlaceOK, LockOK, WorkOK, StatusOK, ForgetOK, TargetsOK, Saving,
       SetupPlace, SetupCommand, BeginUninstall, TakeOperation
  <2> QED BY <1>2, <2>2, <2>3, CountedType, Private DEF BeginUninstall, TakeOperation
<1>3. CASE BeginServiceAdd(p)
  <2>1. PICK new \in Op : /\ op' = [op EXCEPT ![p] = new]
                          /\ new.cmd = "add" /\ new.at = "nextid" /\ new.host = Absent
                          /\ new.new = Absent /\ new.vmid = Absent
    BY <1>3, RunType DEF BeginServiceAdd
  <2>2. ASSUME op'[p] = new PROVE ProcessOK(p)'
    BY <2>1, <2>2 DEF ProcessOK, PlaceOK, LockOK, WorkOK, StatusOK, ForgetOK, TargetsOK, Saving, SetupPlace,
       SetupCommand
  <2> QED BY <1>3, <2>1, <2>2, CountedType, Private DEF BeginServiceAdd
<1> QED BY <1>1, <1>2, <1>3

-----------------------------------------------------------------------------
(* Steps that change nothing but the process *)

\* A process that comes to its end owes nothing any more.
LEMMA EndStep ==
  ASSUME IInv, NEW p \in Process, Goto(p, "end"), UNCHANGED <<ct, disk, operation, gone>>,
         write' \in {write, p, Absent},
         count' \in [commands : Nat, faults : Nat, crashes : Nat, removals : Nat]
  PROVE  IInv'
<1>1. PICK new \in Op :
        /\ op' = [op EXCEPT ![p] = new]
        /\ new.at = "end" /\ new.cmd = op[p].cmd /\ new.host = op[p].host /\ new.new = op[p].new
        /\ new.vmid = op[p].vmid
  BY GotoType DEF Place
<1>4. UNCHANGED <<ct, bound, ref, status, project, gone>>
  BY DEF disk
<1>5. ASSUME op'[p] = new PROVE ProcessOK(p)'
  <2>1. ProcessOK(p)
    BY OpFields
  <2>2. LockOK(p)'
    BY <1>1, <1>5, <2>1 DEF ProcessOK, LockOK
  <2>3. WorkOK(p)'
    BY <1>1, <1>4, <1>5, <2>1 DEF ProcessOK, WorkOK, Ahead, Saving, Made
  <2> QED BY <1>1, <1>5, <2>2, <2>3 DEF ProcessOK, PlaceOK, StatusOK, ForgetOK, TargetsOK, Saving, SetupPlace
<1> QED BY <1>1, <1>5, Private

\* A setup that fails saves that it is pending, or ends.
LEMMA RecoverStep ==
  ASSUME IInv, NEW p \in Process, Recover(p), op[p].at \in SetupPlace \ {"finish"},
         UNCHANGED <<ct, disk, operation, gone>>, write' \in {write, p, Absent},
         count' \in [commands : Nat, faults : Nat, crashes : Nat, removals : Nat]
  PROVE  IInv'
<1>1. CASE Goto(p, "end")
  BY <1>1, EndStep
<1>2. CASE SaveThen(p, "pending", "end")
  <2>1. PICK new \in Op :
          /\ op' = [op EXCEPT ![p] = new]
          /\ new.at = "save" /\ new.save = "pending" /\ new.then = "end"
          /\ new.cmd = op[p].cmd /\ new.host = op[p].host /\ new.new = op[p].new
          /\ new.vmid = op[p].vmid
    BY <1>2, SaveType DEF Place, Status
  <2>4. UNCHANGED <<ct, bound, ref, status, project, gone>>
    BY DEF disk
  <2>5. ASSUME op'[p] = new PROVE ProcessOK(p)'
    <3>1. ProcessOK(p) /\ op[p].cmd \in SetupCommand
      BY OpFields DEF ProcessOK, PlaceOK
    <3>2. PlaceOK(p)' /\ LockOK(p)'
      BY <2>1, <2>5, <3>1 DEF ProcessOK, PlaceOK, LockOK, Saving
    <3>3. WorkOK(p)'
      BY <2>1, <2>4, <2>5, <3>1 DEF ProcessOK, WorkOK, Ahead, Saving, Made
    <3>4. StatusOK(p)'
      BY <2>1, <2>4, <2>5, <3>1 DEF ProcessOK, StatusOK, Saving, SetupPlace
    <3> QED BY <2>1, <2>5, <3>2, <3>3, <3>4 DEF ProcessOK, ForgetOK, TargetsOK
  <2> QED BY <2>1, <2>5, Private
<1> QED BY <1>1, <1>2 DEF Recover

LEMMA SameCount ==
  ASSUME IInv, UNCHANGED count
  PROVE  count' \in [commands : Nat, faults : Nat, crashes : Nat, removals : Nat]
BY DEF IInv, Types

LEMMA CancelIInv ==
  ASSUME IInv, NEW p \in Process, Cancel(p) \/ UnbindRefused(p) \/ Incomplete(p)
  PROVE  IInv'
<1>1. Goto(p, "end") /\ UNCHANGED <<ct, disk, locks, gone, count>>
  BY DEF Cancel, UnbindRefused, Incomplete
<1> QED BY <1>1, SameCount, EndStep DEF locks

LEMMA RefusedIInv ==
  ASSUME IInv, NEW p \in Process, SaveRefused(p) \/ NoId(p)
  PROVE  IInv'
<1>1. UNCHANGED <<ct, disk, operation, gone>> /\ write' = write /\ UNCHANGED count
  BY DEF SaveRefused, NoId, locks
<1>2. CASE Goto(p, "end")
  BY <1>1, <1>2, SameCount, EndStep
<1>3. CASE Recover(p) /\ op[p].at \in {"save", "allocate"}
  BY <1>1, <1>3, SameCount, RecoverStep DEF SetupPlace
<1> QED BY <1>2, <1>3 DEF SaveRefused, NoId, At

LEMMA FaultIInv ==
  ASSUME IInv, NEW p \in Process, Fault(p)
  PROVE  IInv'
<1>1. /\ Recover(p) /\ UNCHANGED <<ct, disk, operation, gone>> /\ write' \in {write, Absent}
      /\ op[p].at \in SetupPlace \ {"finish"}
  BY DEF Fault, SetupPlace
<1>2. count' \in [commands : Nat, faults : Nat, crashes : Nat, removals : Nat]
  BY DEF Fault, IInv, Types
<1> QED BY <1>1, <1>2, RecoverStep

LEMMA LeaveIInv ==
  ASSUME IInv, NEW p \in Process, End(p) \/ Crash(p)
  PROVE  IInv'
<1>1. /\ op' = [op EXCEPT ![p] = NoOp] /\ UNCHANGED <<ct, disk, gone>>
      /\ operation' = Free(operation, p) /\ write' = Free(write, p)
  BY DEF End, Crash, Leave
<1>2. count' \in [commands : Nat, faults : Nat, crashes : Nat, removals : Nat]
  BY SameCount DEF End, Crash, IInv, Types
<1>3. NoOp.cmd = "none" /\ NoOp.at = "idle"
  BY DEF NoOp
<1>4. ASSUME op'[p] = NoOp PROVE ProcessOK(p)'
  BY <1>3, <1>4 DEF ProcessOK, PlaceOK, LockOK, WorkOK, StatusOK, ForgetOK, TargetsOK, Saving, SetupPlace,
     SetupCommand
<1>5. /\ operation' \in {operation, p, Absent} /\ write' \in {write, p, Absent}
      /\ operation' # operation => operation \in {Absent, p}
  BY <1>1 DEF Free
<1> QED BY <1>1, <1>2, <1>4, <1>5, NoOpType, Private

LEMMA VerifyIInv ==
  ASSUME IInv, NEW p \in Process, Verify(p)
  PROVE  IInv'
<1>1. At(p, "verify") /\ UNCHANGED <<ct, disk, operation, gone>> /\ write' = write /\ UNCHANGED count
  BY DEF Verify, locks
<1>2. CASE Recover(p)
  BY <1>1, <1>2, SameCount, RecoverStep DEF At, SetupPlace
<1>3. CASE Goto(p, "features")
  <2>1. PICK new \in Op :
          /\ op' = [op EXCEPT ![p] = new]
          /\ new.at = "features" /\ new.cmd = op[p].cmd /\ new.host = op[p].host /\ new.new = op[p].new
          /\ new.vmid = op[p].vmid
    BY <1>3, GotoType DEF Place, SetupPlace
  <2>2. UNCHANGED <<ct, bound, ref, status, project, gone, operation>>
    BY <1>1 DEF disk
  <2>3. ASSUME op'[p] = new PROVE ProcessOK(p)'
    <3>1. ProcessOK(p) /\ op[p].cmd \in SetupCommand
      BY <1>1, OpFields DEF ProcessOK, PlaceOK, At, SetupPlace
    <3>2. PlaceOK(p)' /\ LockOK(p)'
      BY <2>1, <2>2, <2>3, <3>1 DEF ProcessOK, PlaceOK, LockOK, Saving
    <3>3. WorkOK(p)'
      BY <1>1, <2>1, <2>2, <2>3, <3>1 DEF ProcessOK, WorkOK, Ahead, Saving, Made, At
    <3>4. StatusOK(p)'
      BY <1>1, <2>1, <2>2, <2>3, <3>1 DEF ProcessOK, StatusOK, Saving, SetupPlace, At
    <3> QED BY <2>1, <2>3, <3>2, <3>3, <3>4 DEF ProcessOK, ForgetOK, TargetsOK
  <2> QED BY <1>1, <2>1, <2>3, SameCount, Private
<1> QED BY <1>2, <1>3 DEF Verify

LEMMA CheckHealthIInv ==
  ASSUME IInv, NEW p \in Process, CheckHealth(p)
  PROVE  IInv'
<1>1. /\ At(p, "health") /\ UNCHANGED <<ct, disk, operation, gone>> /\ write' = write /\ UNCHANGED count
      /\ ct[op[p].vmid].stage = "installed" /\ SaveThen(p, "healthy", "finish")
  BY DEF CheckHealth, locks
<1>2. PICK new \in Op :
        /\ op' = [op EXCEPT ![p] = new]
        /\ new.at = "save" /\ new.save = "healthy" /\ new.then = "finish"
        /\ new.cmd = op[p].cmd /\ new.host = op[p].host /\ new.new = op[p].new
        /\ new.vmid = op[p].vmid
  BY <1>1, SaveType DEF Place, SetupPlace, Status
<1>3. UNCHANGED <<ct, bound, ref, status, project, gone, operation>>
  BY <1>1 DEF disk
<1>4. ASSUME op'[p] = new PROVE ProcessOK(p)'
  <2>1. ProcessOK(p) /\ op[p].cmd \in SetupCommand
    BY <1>1, OpFields DEF ProcessOK, PlaceOK, At, SetupPlace
  <2>2. PlaceOK(p)' /\ LockOK(p)'
    BY <1>2, <1>3, <1>4, <2>1 DEF ProcessOK, PlaceOK, LockOK, Saving
  <2>3. WorkOK(p)'
    BY <1>1, <1>2, <1>3, <1>4, <2>1 DEF ProcessOK, WorkOK, Ahead, Saving, Made, At
  <2>4. StatusOK(p)'
    <3>1. op[p].vmid \in Vmid /\ \A u \in Vmid : Made(op[p].host, u) => u = op[p].vmid
      BY <1>1, <2>1 DEF ProcessOK, WorkOK, At
    <3>2. status[op[p].host] # "healthy"
      BY <1>1, <2>1 DEF ProcessOK, StatusOK, At, SetupPlace
    <3> QED BY <1>1, <1>2, <1>3, <1>4, <3>1, <3>2 DEF StatusOK, Made
  <2> QED BY <1>2, <1>4, <2>2, <2>3, <2>4 DEF ProcessOK, ForgetOK, TargetsOK
<1> QED BY <1>1, <1>2, <1>4, SameCount, Private

LEMMA BeginDisconnectIInv ==
  ASSUME IInv, NEW p \in Process, BeginDisconnect(p)
  PROVE  IInv'
<1>1. /\ At(p, "confirm") /\ operation = Absent /\ operation' = p /\ Goto(p, "unbind")
      /\ UNCHANGED <<ct, disk, gone>> /\ write' = write /\ UNCHANGED count
  BY DEF BeginDisconnect, TakeOperation
<1>2. PICK new \in Op :
        /\ op' = [op EXCEPT ![p] = new]
        /\ new.at = "unbind" /\ new.cmd = op[p].cmd /\ new.host = op[p].host
  BY <1>1, GotoType DEF Place
<1>3. op[p].cmd = "disconnect" /\ op[p].host \in Host
  BY <1>1, OpFields DEF ProcessOK, PlaceOK, At
<1>4. ASSUME op'[p] = new PROVE ProcessOK(p)'
  BY <1>1, <1>2, <1>3, <1>4 DEF ProcessOK, PlaceOK, LockOK, WorkOK, StatusOK, ForgetOK, TargetsOK, Saving,
     SetupPlace, SetupCommand
<1> QED BY <1>1, <1>2, <1>4, SameCount, Private

LEMMA AllocateIInv ==
  ASSUME IInv, NEW p \in Process, NEW v \in Vmid, Allocate(p, v)
  PROVE  IInv'
<1>1. At(p, "allocate") /\ UNCHANGED <<ct, disk, operation, gone>> /\ write' = write /\ UNCHANGED count
  BY DEF Allocate, locks
<1> DEFINE moved == [op[p] EXCEPT !.vmid = v]
           saved == [moved EXCEPT !.at = "save"]
           pending == [saved EXCEPT !.save = "pending"]
           new == [pending EXCEPT !.then = "create"]
<1>2. op' = [op EXCEPT ![p] = new]
  BY OpFields DEF Allocate
<1>3. /\ new.at = "save" /\ new.save = "pending" /\ new.then = "create"
      /\ new.cmd = op[p].cmd /\ new.host = op[p].host /\ new.new = op[p].new /\ new.vmid = v
  BY OpFields
<1>4. moved \in Op
  BY OpFields DEF Op
<1> HIDE DEF moved
<1>5. saved \in Op
  BY <1>4 DEF Op, Place, SetupPlace
<1> HIDE DEF saved
<1>6. pending \in Op
  BY <1>5 DEF Op, Status
<1> HIDE DEF pending
<1>7. new \in Op
  BY <1>6 DEF Op, Place, SetupPlace
<1> HIDE DEF new
<1>8. ASSUME op'[p] = new PROVE ProcessOK(p)'
  <2>1. ProcessOK(p) /\ op[p].cmd \in SetupCommand
    BY <1>1, OpFields DEF ProcessOK, PlaceOK, At, SetupPlace
  <2>2. UNCHANGED <<ct, bound, ref, status, project, gone, operation>>
    BY <1>1 DEF disk
  <2>3. PlaceOK(p)' /\ LockOK(p)'
    BY <1>3, <1>8, <2>1, <2>2 DEF ProcessOK, PlaceOK, LockOK, Saving
  <2>4. WorkOK(p)'
    BY <1>1, <1>3, <1>8, <2>1, <2>2 DEF ProcessOK, WorkOK, Ahead, Saving, Made, At
  <2>5. StatusOK(p)'
    BY <1>1, <1>3, <1>8, <2>1, <2>2 DEF ProcessOK, StatusOK, Saving, SetupPlace, At
  <2> QED BY <1>3, <1>8, <2>3, <2>4, <2>5 DEF ProcessOK, ForgetOK, TargetsOK
<1> QED BY <1>1, <1>2, <1>7, <1>8, SameCount, Private

LEMMA ReserveIInv ==
  ASSUME IInv, NEW p \in Process, Reserve(p)
  PROVE  IInv'
<1>1. At(p, "reserve") /\ UNCHANGED <<ct, disk, operation, gone>> /\ write' = p /\ UNCHANGED count
  BY DEF Reserve
<1> DEFINE moved == [op[p] EXCEPT !.at = "destroy"]
           new == [moved EXCEPT !.targets = Targets]
<1>2. op' = [op EXCEPT ![p] = new]
  BY OpFields DEF Reserve
<1>3. new.at = "destroy" /\ new.cmd = op[p].cmd /\ new.targets = Targets
  BY OpFields
<1>4. moved \in Op
  BY ZenonT(40), OpFields DEF Op, Place
<1>5. Targets \subseteq Vmid
  BY DEF Targets, IInv, Types, TypeOK
<1> HIDE DEF moved
<1>6. new \in Op
  BY <1>4, <1>5 DEF Op
<1> HIDE DEF new
<1>7. op[p].cmd = "uninstall" /\ operation = p
  BY <1>1, OpFields DEF ProcessOK, PlaceOK, LockOK, At
<1>8. ASSUME op'[p] = new PROVE ProcessOK(p)'
  <2>1. TargetsOK(p)'
    BY <1>1, <1>3, <1>8 DEF TargetsOK, Targets, disk
  <2> QED BY <1>1, <1>3, <1>7, <1>8, <2>1 DEF ProcessOK, PlaceOK, LockOK, WorkOK, StatusOK, ForgetOK, Saving,
          SetupPlace, SetupCommand
<1> QED BY <1>1, <1>2, <1>6, <1>8, SameCount, Private

LEMMA NextIdIInv ==
  ASSUME IInv, NEW p \in Process, NEW v \in Vmid, NextId(p, v)
  PROVE  IInv'
<1>1. At(p, "nextid") /\ UNCHANGED <<ct, disk, operation, gone>> /\ write' = write /\ UNCHANGED count
  BY DEF NextId, locks
<1> DEFINE moved == [op[p] EXCEPT !.vmid = v]
           new == [moved EXCEPT !.at = "provision"]
<1>2. op' = [op EXCEPT ![p] = new]
  BY OpFields DEF NextId
<1>3. new.at = "provision" /\ new.cmd = op[p].cmd /\ new.vmid = v
  BY OpFields
<1>4. moved \in Op
  BY OpFields DEF Op
<1> HIDE DEF moved
<1>5. new \in Op
  BY <1>4 DEF Op, Place
<1> HIDE DEF new
<1>6. op[p].cmd = "add"
  BY <1>1, OpFields DEF ProcessOK, PlaceOK, At
<1>7. ASSUME op'[p] = new PROVE ProcessOK(p)'
  BY <1>3, <1>6, <1>7 DEF ProcessOK, PlaceOK, LockOK, WorkOK, StatusOK, ForgetOK, TargetsOK, Saving,
     SetupPlace, SetupCommand
<1> QED BY <1>1, <1>2, <1>5, <1>7, SameCount, Private

LEMMA DestroyFailsIInv ==
  ASSUME IInv, NEW p \in Process, NEW v \in Vmid, DestroyFails(p, v)
  PROVE  IInv'
<1>1. At(p, "destroy") /\ UNCHANGED <<ct, disk, operation, gone>> /\ write' = write /\ UNCHANGED count
  BY DEF DestroyFails, locks
<1> DEFINE moved == [op[p] EXCEPT !.targets = @ \ {v}]
           new == [moved EXCEPT !.then = "end"]
<1>2. op' = [op EXCEPT ![p] = new]
  BY OpFields DEF DestroyFails
<1>3. new.at = "destroy" /\ new.cmd = op[p].cmd /\ new.targets \subseteq op[p].targets
  BY <1>1, OpFields DEF At
<1>4. moved \in Op
  BY OpFields DEF Op
<1> HIDE DEF moved
<1>5. new \in Op
  BY <1>4 DEF Op, Place
<1> HIDE DEF new
<1>6. ProcessOK(p) /\ op[p].cmd = "uninstall" /\ operation = p
  BY <1>1, OpFields DEF ProcessOK, PlaceOK, LockOK, At
<1>7. ASSUME op'[p] = new PROVE ProcessOK(p)'
  <2>1. TargetsOK(p)'
    BY <1>1, <1>3, <1>6, <1>7 DEF ProcessOK, TargetsOK, disk, At
  <2> QED BY <1>1, <1>3, <1>6, <1>7, <2>1 DEF ProcessOK, PlaceOK, LockOK, WorkOK, StatusOK, ForgetOK, Saving,
          SetupPlace, SetupCommand
<1> QED BY <1>1, <1>2, <1>5, <1>7, SameCount, Private

-----------------------------------------------------------------------------
(* Steps of the holder of the operation lock *)

\* Nobody else is disturbed.
LEMMA HolderStep ==
  ASSUME IInv, NEW p \in Process, operation = p, operation' = p,
         NEW new \in Op, op' = [op EXCEPT ![p] = new], UNCHANGED count,
         TypeOK', Recorded', op'[p] = new => ProcessOK(p)'
  PROVE  IInv'
<1>1. op'[p] = new /\ op' \in [Process -> Op]
  BY DEF IInv, Types
<1>2. Types'
  BY <1>1, SameCount DEF Types
<1>3. Harmless(p)
  BY DEF Harmless
<1> QED BY <1>1, <1>2, <1>3, StepOf

\* What a setup step may rely on.
LEMMA SetupFacts ==
  ASSUME IInv, NEW p \in Process, op[p].at \in SetupPlace
  PROVE  /\ op[p].cmd \in SetupCommand /\ operation = p /\ p # Absent
         /\ op[p].host \in Host /\ op[p].new \in Binding
         /\ WorkOK(p) /\ StatusOK(p) /\ PlaceOK(p)
BY OpFields, SentinelsDistinct DEF ProcessOK, PlaceOK, LockOK, WorkOK

LEMMA SaveConfigIInv ==
  ASSUME IInv, NEW p \in Process, SaveConfig(p)
  PROVE  IInv'
<1> DEFINE h == op[p].host
<1>1. /\ At(p, "save") /\ write' = p /\ bound' = [bound EXCEPT ![h] = op[p].new] /\ Goto(p, "state")
      /\ UNCHANGED <<ct, ref, status, platform, project, operation, gone, count>>
  BY DEF SaveConfig
<1>2. PICK new \in Op :
        /\ op' = [op EXCEPT ![p] = new]
        /\ new.at = "state" /\ new.save = op[p].save /\ new.then = op[p].then /\ new.cmd = op[p].cmd
        /\ new.host = op[p].host /\ new.new = op[p].new /\ new.vmid = op[p].vmid
  BY <1>1, GotoType DEF Place, SetupPlace
<1>3. /\ op[p].cmd \in SetupCommand /\ operation = p
      /\ h \in Host /\ op[p].new \in Binding /\ WorkOK(p) /\ StatusOK(p) /\ PlaceOK(p)
  BY <1>1, SetupFacts DEF At, SetupPlace
<1>4. TypeOK'
  BY <1>1, <1>3 DEF IInv, Types, TypeOK
<1>5. bound'[h] = op[p].new /\ op[p].new # Absent /\ \A g \in Host \ {h} : bound'[g] = bound[g]
  BY <1>1, <1>3, SentinelsDistinct DEF IInv, Types, TypeOK
<1>6. Recorded'
  <2>1. CreatedIsRecorded'
    BY <1>1, <1>5 DEF IInv, Recorded, CreatedIsRecorded
  <2>2. EndedStaysEnded'
    BY <1>1, <1>3, <1>5 DEF IInv, Recorded, EndedStaysEnded, Bindings, WorkOK
  <2>3. HealthyOK'
    BY <1>1, <1>5 DEF IInv, Recorded, HealthyOK, Made
  <2> QED BY <2>1, <2>2, <2>3 DEF Recorded
<1>7. ASSUME op'[p] = new PROVE ProcessOK(p)'
  <2>1. PlaceOK(p)' /\ LockOK(p)'
    BY <1>1, <1>2, <1>3, <1>7 DEF PlaceOK, LockOK, Saving, SetupPlace, At
  <2>2. WorkOK(p)'
    BY <1>1, <1>2, <1>3, <1>5, <1>7 DEF WorkOK, Ahead, Saving, Made, At
  <2>3. StatusOK(p)'
    BY <1>1, <1>2, <1>3, <1>7 DEF StatusOK, Saving, SetupPlace, Made, At
  <2> QED BY <1>2, <1>7, <2>1, <2>2, <2>3 DEF ProcessOK, ForgetOK, TargetsOK
<1> QED BY <1>1, <1>2, <1>3, <1>4, <1>6, <1>7, HolderStep

LEMMA SaveStateIInv ==
  ASSUME IInv, NEW p \in Process, SaveState(p)
  PROVE  IInv'
<1> DEFINE h == op[p].host
           v == op[p].vmid
<1>1. /\ At(p, "state") /\ write' = Absent /\ Goto(p, op[p].then)
      /\ ref' = (IF v = Absent THEN ref ELSE [ref EXCEPT ![h] = v])
      /\ status' = [status EXCEPT ![h] = op[p].save]
      /\ UNCHANGED <<ct, bound, platform, project, operation, gone, count>>
  BY DEF SaveState
<1>2. /\ op[p].cmd \in SetupCommand /\ operation = p
      /\ h \in Host /\ op[p].new \in Binding /\ WorkOK(p) /\ StatusOK(p) /\ PlaceOK(p)
  BY <1>1, SetupFacts DEF At, SetupPlace
<1>3. op[p].then \in {"allocate", "create", "verify", "finish", "end"} /\ Saving(p) /\ bound[h] # Absent
  BY <1>1, <1>2 DEF PlaceOK, WorkOK, Saving, At
<1>4. PICK new \in Op :
        /\ op' = [op EXCEPT ![p] = new]
        /\ new.at = op[p].then /\ new.save = op[p].save /\ new.then = op[p].then /\ new.cmd = op[p].cmd
        /\ new.host = op[p].host /\ new.new = op[p].new /\ new.vmid = op[p].vmid
  <2>1. PICK at \in Place : at = op[p].then
    BY OpFields
  <2> QED BY <1>1, <2>1, GotoType
<1>5. TypeOK'
  BY <1>1, <1>2, OpFields DEF IInv, Types, TypeOK
<1>6. /\ v \in Vmid => ref'[h] = v
      /\ status'[h] = op[p].save
      /\ \A g \in Host \ {h} : ref'[g] = ref[g] /\ status'[g] = status[g]
  BY <1>1, <1>2, SentinelsDistinct DEF IInv, Types, TypeOK
<1>7. Recorded'
  <2>1. CreatedIsRecorded'
    <3> SUFFICES ASSUME NEW u \in Vmid, ct[u] # Absent, ct[u].by \in Host
                 PROVE  project' /\ bound[ct[u].by] # Absent /\ ref'[ct[u].by] = u
      BY <1>1 DEF CreatedIsRecorded
    <3>1. project /\ bound[ct[u].by] # Absent /\ ref[ct[u].by] = u
      BY DEF IInv, Recorded, CreatedIsRecorded
    <3>2. CASE ct[u].by = h
      BY <1>1, <1>2, <1>6, <3>1, <3>2 DEF WorkOK, Made
    <3> QED BY <1>1, <1>6, <3>1, <3>2
  <2>2. EndedStaysEnded'
    BY <1>1 DEF IInv, Recorded, EndedStaysEnded, Bindings
  <2>3. HealthyOK'
    <3> SUFFICES ASSUME NEW g \in Host, status'[g] = "healthy", g \notin gone
                 PROVE  /\ bound[g] # Absent /\ ref'[g] \in Vmid
                        /\ \A u \in Vmid : Made(g, u) => ct[u].stage = "installed"
      BY <1>1 DEF HealthyOK, Made
    <3>1. CASE g = h
      BY <1>2, <1>3, <1>6, <3>1 DEF StatusOK
    <3>2. CASE g # h
      BY <1>6, <3>2 DEF IInv, Recorded, HealthyOK
    <3> QED BY <3>1, <3>2
  <2> QED BY <2>1, <2>2, <2>3 DEF Recorded
<1>8. ASSUME op'[p] = new PROVE ProcessOK(p)'
  <2>1. PlaceOK(p)' /\ LockOK(p)'
    BY <1>1, <1>2, <1>3, <1>4, <1>8 DEF PlaceOK, LockOK, Saving
  <2>2. WorkOK(p)'
    <3>1. Ahead(p, {"allocate", "create"})' => op[p].then \in {"allocate", "create"}
      BY <1>3, <1>4, <1>8 DEF Ahead, Saving
    <3>2. Ahead(p, {"create", "verify", "finish"})' => op[p].then \in {"create", "verify", "finish"}
      BY <1>3, <1>4, <1>8 DEF Ahead, Saving
    <3> QED BY <1>1, <1>2, <1>3, <1>4, <1>6, <1>8, <3>1, <3>2 DEF WorkOK, Ahead, Made
  <2>3. StatusOK(p)'
    BY <1>2, <1>3, <1>4, <1>6, <1>8 DEF StatusOK, Saving, SetupPlace
  <2> QED BY <1>3, <1>4, <1>8, <2>1, <2>2, <2>3 DEF ProcessOK, ForgetOK, TargetsOK
<1> QED BY <1>1, <1>2, <1>4, <1>5, <1>7, <1>8, HolderStep

LEMMA CreateIInv ==
  ASSUME IInv, NEW p \in Process, NEW done \in BOOLEAN, Create(p, done)
  PROVE  IInv'
<1> DEFINE h == op[p].host
           v == op[p].vmid
           made == [by |-> h, ip |-> op[p].new.ip, stage |-> "created"]
<1>1. /\ At(p, "create")
      /\ ct' = (IF ct[v] = Absent THEN [ct EXCEPT ![v] = made] ELSE ct)
      /\ UNCHANGED <<bound, ref, status, platform, project, operation, write, gone, count>>
  BY DEF Create, disk, locks
<1>2. PICK then \in {"verify", "end"} : SaveThen(p, "pending", then)
  BY DEF Create
<1>3. PICK new \in Op :
        /\ op' = [op EXCEPT ![p] = new]
        /\ new.at = "save" /\ new.save = "pending" /\ new.then = then /\ new.cmd = op[p].cmd
        /\ new.host = op[p].host /\ new.new = op[p].new /\ new.vmid = op[p].vmid
  BY <1>2, SaveType DEF Place, SetupPlace, Status
<1>4. /\ op[p].cmd \in SetupCommand /\ operation = p
      /\ h \in Host /\ op[p].new \in Binding /\ WorkOK(p) /\ StatusOK(p) /\ PlaceOK(p)
  BY <1>1, SetupFacts DEF At, SetupPlace
<1>5. /\ v \in Vmid /\ bound[h] # Absent /\ ref[h] = v /\ project /\ h \notin gone
      /\ status[h] # "healthy" /\ \A u \in Vmid : ~Made(h, u)
  BY <1>1, <1>4 DEF WorkOK, StatusOK, Ahead, At, SetupPlace
<1>6. made \in Container /\ made # Absent /\ made.by = h
  BY <1>4, SentinelsDistinct DEF Container, Binding, Stage
<1> HIDE DEF made
<1>7. /\ ct'[v] # Absent
      /\ \A u \in Vmid \ {v} : ct'[u] = ct[u]
      /\ ct'[v] = made \/ ct'[v] = ct[v]
      /\ ct' \in [Vmid -> Container \cup {Absent}]
  BY <1>1, <1>5, <1>6 DEF IInv, Types, TypeOK
<1>8. TypeOK'
  BY <1>1, <1>7 DEF IInv, Types, TypeOK
<1>9. \A g \in Host, u \in Vmid : Made(g, u)' =>
        (g = h /\ u = v) \/ (g # h /\ Made(g, u) /\ ct'[u] = ct[u])
  BY <1>5, <1>6, <1>7 DEF Made
<1>10. Recorded'
  <2>1. CreatedIsRecorded'
    BY <1>1, <1>5, <1>7, <1>9 DEF IInv, Recorded, CreatedIsRecorded, Made
  <2>2. EndedStaysEnded'
    BY <1>1 DEF IInv, Recorded, EndedStaysEnded, Bindings
  <2>3. HealthyOK'
    BY <1>1, <1>5, <1>9 DEF IInv, Recorded, HealthyOK
  <2> QED BY <2>1, <2>2, <2>3 DEF Recorded
<1>11. ASSUME op'[p] = new PROVE ProcessOK(p)'
  <2>1. PlaceOK(p)' /\ LockOK(p)'
    BY <1>1, <1>2, <1>3, <1>4, <1>11 DEF PlaceOK, LockOK, Saving, SetupPlace
  <2>2. WorkOK(p)'
    BY <1>1, <1>2, <1>3, <1>4, <1>5, <1>9, <1>11 DEF WorkOK, Ahead, Saving
  <2>3. StatusOK(p)'
    BY <1>1, <1>3, <1>5, <1>11 DEF StatusOK, Saving, SetupPlace
  <2> QED BY <1>3, <1>11, <2>1, <2>2, <2>3 DEF ProcessOK, ForgetOK, TargetsOK
<1> QED BY <1>1, <1>3, <1>4, <1>8, <1>10, <1>11, HolderStep

LEMMA SetUpIInv ==
  ASSUME IInv, NEW p \in Process, NEW from \in {"features", "start", "install"},
         NEW stage \in Stage, NEW to \in {"start", "install", "health"}, SetUp(p, from, stage, to)
  PROVE  IInv'
<1> DEFINE h == op[p].host
           v == op[p].vmid
           more == IF Rank[ct[v].stage] < Rank[stage] THEN stage ELSE ct[v].stage
<1>1. /\ At(p, from) /\ ct[v] # Absent /\ ct' = [ct EXCEPT ![v].stage = more] /\ Goto(p, to)
      /\ UNCHANGED <<bound, ref, status, platform, project, operation, write, gone, count>>
  BY DEF SetUp, disk, locks
<1>2. PICK new \in Op :
        /\ op' = [op EXCEPT ![p] = new]
        /\ new.at = to /\ new.cmd = op[p].cmd
        /\ new.host = op[p].host /\ new.new = op[p].new /\ new.vmid = op[p].vmid
  BY <1>1, GotoType DEF Place, SetupPlace
<1>3. /\ op[p].cmd \in SetupCommand /\ operation = p
      /\ h \in Host /\ op[p].new \in Binding /\ WorkOK(p) /\ StatusOK(p) /\ PlaceOK(p)
  BY <1>1, SetupFacts DEF At, SetupPlace
<1>4. v \in Vmid /\ ct[v] \in Container
  BY <1>1, <1>3 DEF WorkOK, At, IInv, Types, TypeOK
<1>5. more \in Stage /\ (ct[v].stage = "installed" => more = "installed")
  BY <1>4 DEF Stage, Container, Rank
<1> HIDE DEF more
<1>6. [ct[v] EXCEPT !.stage = more] \in Container
  BY <1>4, <1>5 DEF Container
<1>7. /\ ct'[v] = [ct[v] EXCEPT !.stage = more] /\ ct'[v] # Absent
      /\ \A u \in Vmid \ {v} : ct'[u] = ct[u]
      /\ ct' \in [Vmid -> Container \cup {Absent}]
  BY <1>1, <1>4, <1>6, SentinelsDistinct DEF IInv, Types, TypeOK
<1>8. ct'[v].by = ct[v].by /\ ct'[v].stage = more
  BY <1>4, <1>7 DEF Container
<1>9. TypeOK'
  BY <1>1, <1>7 DEF IInv, Types, TypeOK
<1>10. \A g \in Host, u \in Vmid :
         Made(g, u)' => Made(g, u) /\ (ct[u].stage = "installed" => ct'[u].stage = "installed")
  BY <1>1, <1>5, <1>7, <1>8 DEF Made
<1>11. Recorded'
  <2>1. CreatedIsRecorded'
    BY <1>1, <1>7, <1>8 DEF IInv, Recorded, CreatedIsRecorded
  <2>2. EndedStaysEnded'
    BY <1>1 DEF IInv, Recorded, EndedStaysEnded, Bindings
  <2>3. HealthyOK'
    BY <1>1, <1>10 DEF IInv, Recorded, HealthyOK
  <2> QED BY <2>1, <2>2, <2>3 DEF Recorded
<1>12. ASSUME op'[p] = new PROVE ProcessOK(p)'
  <2>1. PlaceOK(p)' /\ LockOK(p)'
    BY <1>1, <1>2, <1>3, <1>12 DEF PlaceOK, LockOK, Saving
  <2>2. WorkOK(p)'
    BY <1>1, <1>2, <1>3, <1>4, <1>10, <1>12 DEF WorkOK, Ahead, Saving
  <2>3. StatusOK(p)'
    BY <1>1, <1>2, <1>3, <1>12 DEF StatusOK, Saving, SetupPlace, At
  <2> QED BY <1>2, <1>12, <2>1, <2>2, <2>3 DEF ProcessOK, ForgetOK, TargetsOK
<1> QED BY <1>1, <1>2, <1>3, <1>9, <1>11, <1>12, HolderStep

LEMMA UnbindIInv ==
  ASSUME IInv, NEW p \in Process, Unbind(p)
  PROVE  IInv'
<1> DEFINE h == op[p].host
<1>1. /\ At(p, "unbind") /\ write' = p /\ bound' = [bound EXCEPT ![h] = Absent] /\ gone' = gone \cup {h}
      /\ ct' = [v \in Vmid |-> IF ct[v] # Absent /\ ct[v].by = h
                               THEN [ct[v] EXCEPT !.by = Foreign] ELSE ct[v]]
      /\ Goto(p, "forget") /\ UNCHANGED <<ref, status, platform, project, operation, count>>
  BY DEF Unbind
<1>2. PICK new \in Op :
        /\ op' = [op EXCEPT ![p] = new]
        /\ new.at = "forget" /\ new.cmd = op[p].cmd /\ new.host = h
  BY <1>1, GotoType DEF Place
<1>3. op[p].cmd = "disconnect" /\ h \in Host /\ operation = p
  BY <1>1, OpFields DEF ProcessOK, PlaceOK, LockOK, At
<1>4. \A v \in Vmid : ct[v] # Absent =>
        /\ [ct[v] EXCEPT !.by = Foreign] \in Container
        /\ [ct[v] EXCEPT !.by = Foreign].by = Foreign
        /\ [ct[v] EXCEPT !.by = Foreign].stage = ct[v].stage
  BY DEF Container, IInv, Types, TypeOK
<1>5. ct' \in [Vmid -> Container \cup {Absent}]
  BY <1>1, <1>4 DEF IInv, Types, TypeOK
<1>6. \A g \in Host, v \in Vmid : Made(g, v)' => g # h /\ Made(g, v) /\ ct'[v] = ct[v]
  BY <1>1, <1>4, SentinelsDistinct DEF Made
<1>7. bound'[h] = Absent /\ \A g \in Host \ {h} : bound'[g] = bound[g]
  BY <1>1, <1>3 DEF IInv, Types, TypeOK
<1>8. TypeOK'
  BY <1>1, <1>3, <1>5 DEF IInv, Types, TypeOK
<1>9. Recorded'
  <2>1. CreatedIsRecorded'
    BY <1>1, <1>6, <1>7 DEF IInv, Recorded, CreatedIsRecorded, Made
  <2>2. EndedStaysEnded'
    BY <1>1, <1>7 DEF IInv, Recorded, EndedStaysEnded, Bindings
  <2>3. HealthyOK'
    <3> SUFFICES ASSUME NEW g \in Host, status[g] = "healthy", g \notin gone, g # h
                 PROVE  /\ bound'[g] # Absent /\ ref[g] \in Vmid
                        /\ \A v \in Vmid : Made(g, v)' => ct'[v].stage = "installed"
      BY <1>1 DEF HealthyOK
    <3> QED BY <1>6, <1>7 DEF IInv, Recorded, HealthyOK
  <2> QED BY <2>1, <2>2, <2>3 DEF Recorded
<1>10. ASSUME op'[p] = new PROVE ProcessOK(p)'
  <2>1. ForgetOK(p)'
    BY <1>2, <1>3, <1>6, <1>10 DEF ForgetOK
  <2> QED BY <1>1, <1>2, <1>3, <1>10, <2>1 DEF ProcessOK, PlaceOK, LockOK, WorkOK, StatusOK, TargetsOK, Saving,
          SetupPlace, SetupCommand
<1> QED BY <1>1, <1>2, <1>3, <1>8, <1>9, <1>10, HolderStep

LEMMA UnreferenceIInv ==
  ASSUME IInv, NEW p \in Process, Unreference(p)
  PROVE  IInv'
<1> DEFINE h == op[p].host
<1>1. /\ At(p, "forget") /\ write' = Absent /\ Goto(p, "end")
      /\ ref' = [ref EXCEPT ![h] = Absent] /\ status' = [status EXCEPT ![h] = "unknown"]
      /\ UNCHANGED <<ct, bound, platform, project, operation, gone, count>>
  BY DEF Unreference
<1>2. PICK new \in Op :
        /\ op' = [op EXCEPT ![p] = new]
        /\ new.at = "end" /\ new.cmd = op[p].cmd
  BY <1>1, GotoType DEF Place
<1>3. /\ op[p].cmd = "disconnect" /\ h \in Host /\ operation = p
      /\ \A v \in Vmid : ~Made(h, v)
  BY <1>1, OpFields DEF ProcessOK, PlaceOK, LockOK, ForgetOK, At
<1>4. TypeOK'
  BY <1>1, <1>3 DEF IInv, Types, TypeOK, Status
<1>5. /\ status'[h] = "unknown"
      /\ \A g \in Host \ {h} : ref'[g] = ref[g] /\ status'[g] = status[g]
  BY <1>1, <1>3 DEF IInv, Types, TypeOK
<1>6. Recorded'
  <2>1. CreatedIsRecorded'
    BY <1>1, <1>3, <1>5 DEF IInv, Recorded, CreatedIsRecorded, Made
  <2>2. EndedStaysEnded'
    BY <1>1 DEF IInv, Recorded, EndedStaysEnded, Bindings
  <2>3. HealthyOK'
    BY <1>1, <1>5 DEF IInv, Recorded, HealthyOK, Made
  <2> QED BY <2>1, <2>2, <2>3 DEF Recorded
<1>7. ASSUME op'[p] = new PROVE ProcessOK(p)'
  BY <1>2, <1>3, <1>7 DEF ProcessOK, PlaceOK, LockOK, WorkOK, StatusOK, ForgetOK, TargetsOK, Saving,
     SetupPlace, SetupCommand
<1> QED BY <1>1, <1>2, <1>3, <1>4, <1>6, <1>7, HolderStep

LEMMA DestroyIInv ==
  ASSUME IInv, NEW p \in Process, NEW v \in Vmid, Destroy(p, v)
  PROVE  IInv'
<1>1. /\ At(p, "destroy") /\ ct' = [ct EXCEPT ![v] = Absent] /\ platform' = platform \ {v}
      /\ UNCHANGED <<bound, ref, status, project, operation, write, gone, count>>
  BY DEF Destroy, locks
<1> DEFINE new == [op[p] EXCEPT !.targets = @ \ {v}]
<1>2. op' = [op EXCEPT ![p] = new]
  BY OpFields DEF Destroy
<1>3. new.at = "destroy" /\ new.cmd = op[p].cmd /\ new.targets \subseteq op[p].targets
  BY <1>1, OpFields DEF At
<1>4. new \in Op
  BY OpFields DEF Op
<1> HIDE DEF new
<1>5. ProcessOK(p) /\ op[p].cmd = "uninstall" /\ operation = p
  BY <1>1, OpFields DEF ProcessOK, PlaceOK, LockOK, At
<1>6. /\ ct' \in [Vmid -> Container \cup {Absent}]
      /\ \A u \in Vmid : ct'[u] = Absent \/ ct'[u] = ct[u]
  BY <1>1 DEF IInv, Types, TypeOK
<1>7. TypeOK'
  BY <1>1, <1>6 DEF IInv, Types, TypeOK
<1>8. Recorded'
  BY <1>1, <1>6 DEF IInv, Recorded, CreatedIsRecorded, EndedStaysEnded, Bindings, HealthyOK, Made
<1>9. ASSUME op'[p] = new PROVE ProcessOK(p)'
  <2>1. TargetsOK(p)'
    BY <1>1, <1>3, <1>5, <1>9 DEF ProcessOK, TargetsOK, At
  <2> QED BY <1>1, <1>3, <1>5, <1>9, <2>1 DEF ProcessOK, PlaceOK, LockOK, WorkOK, StatusOK, ForgetOK, Saving,
          SetupPlace, SetupCommand
<1> QED BY <1>1, <1>2, <1>4, <1>5, <1>7, <1>8, <1>9, HolderStep

LEMMA DeleteProjectIInv ==
  ASSUME IInv, NEW p \in Process, DeleteProject(p)
  PROVE  IInv'
<1>1. /\ At(p, "destroy") /\ project' = FALSE /\ Goto(p, "end")
      /\ bound' = [h \in Host |-> Absent] /\ ref' = [h \in Host |-> Absent]
      /\ status' = [h \in Host |-> "unknown"] /\ platform' = {} /\ gone' = gone \cup Bindings
      /\ ct' = [v \in Vmid |-> IF ct[v] # Absent THEN [ct[v] EXCEPT !.by = Foreign] ELSE ct[v]]
      /\ UNCHANGED <<operation, write, count>>
  BY DEF DeleteProject, locks
<1>2. PICK new \in Op :
        /\ op' = [op EXCEPT ![p] = new]
        /\ new.at = "end" /\ new.cmd = op[p].cmd
  BY <1>1, GotoType DEF Place
<1>3. op[p].cmd = "uninstall" /\ operation = p
  BY <1>1, OpFields DEF ProcessOK, PlaceOK, LockOK, At
<1>4. \A v \in Vmid : ct[v] # Absent =>
        /\ [ct[v] EXCEPT !.by = Foreign] \in Container
        /\ [ct[v] EXCEPT !.by = Foreign].by = Foreign
  BY DEF Container, IInv, Types, TypeOK
<1>5. /\ ct' \in [Vmid -> Container \cup {Absent}]
      /\ \A v \in Vmid : ct'[v] = Absent \/ ct'[v].by = Foreign
  BY <1>1, <1>4 DEF IInv, Types, TypeOK
<1>6. TypeOK'
  BY <1>1, <1>5 DEF IInv, Types, TypeOK, Status, Bindings
<1>7. Recorded'
  BY <1>1, <1>5, SentinelsDistinct DEF Recorded, CreatedIsRecorded, EndedStaysEnded, Bindings, HealthyOK
<1>8. ASSUME op'[p] = new PROVE ProcessOK(p)'
  BY <1>1, <1>2, <1>3, <1>8 DEF ProcessOK, PlaceOK, LockOK, WorkOK, StatusOK, ForgetOK, TargetsOK, Saving,
     SetupPlace, SetupCommand
<1> QED BY <1>1, <1>2, <1>3, <1>6, <1>7, <1>8, HolderStep

-----------------------------------------------------------------------------
(* Steps of the others: a service add, an operator at Proxmox and nomina init *)

LEMMA ProvisionIInv ==
  ASSUME IInv, NEW p \in Process, Provision(p)
  PROVE  IInv'
<1> DEFINE v == op[p].vmid
           served == [by |-> Platform, ip |-> Elsewhere, stage |-> "running"]
<1>1. /\ At(p, "provision") /\ UNCHANGED <<bound, ref, status, platform, project, operation, write, gone, count>>
      /\ ct' = [ct EXCEPT ![v] = served] \/ ct' = ct
  BY DEF Provision, disk, locks
<1>2. PICK at \in {"record", "end"} : Goto(p, at)
  BY DEF Provision
<1>3. PICK new \in Op :
        /\ op' = [op EXCEPT ![p] = new]
        /\ new.at = at /\ new.cmd = op[p].cmd /\ new.vmid = v
  BY <1>2, GotoType DEF Place
<1>4. op[p].cmd = "add" /\ v \in Vmid
  BY <1>1, OpFields DEF ProcessOK, PlaceOK, At
<1>5. served \in Container /\ served.by = Platform
  BY DEF Container, Stage
<1> HIDE DEF served
<1>6. /\ ct' \in [Vmid -> Container \cup {Absent}]
      /\ \A u \in Vmid : ct'[u] = served \/ ct'[u] = ct[u]
  BY <1>1, <1>5 DEF IInv, Types, TypeOK
<1>7. \A g \in Host, u \in Vmid : Made(g, u)' => Made(g, u) /\ ct'[u] = ct[u]
  BY <1>5, <1>6, SentinelsDistinct DEF Made
<1>8. Types'
  BY <1>1, <1>3, <1>6, SameCount DEF IInv, Types, TypeOK
<1>9. Recorded'
  <2>1. CreatedIsRecorded'
    BY <1>1, <1>7 DEF IInv, Recorded, CreatedIsRecorded, Made
  <2> QED BY <1>1, <1>7, <2>1 DEF IInv, Recorded, EndedStaysEnded, Bindings, HealthyOK
<1>10. Harmless(p)
  BY <1>1, <1>7 DEF Harmless
<1>11. ProcessOK(p)'
  <2>1. op'[p] = new
    BY <1>3 DEF IInv, Types
  <2> QED BY <1>2, <1>3, <1>4, <2>1 DEF ProcessOK, PlaceOK, LockOK, WorkOK, StatusOK, ForgetOK, TargetsOK, Saving,
     SetupPlace, SetupCommand
<1> QED BY <1>3, <1>8, <1>9, <1>10, <1>11, StepOf

LEMMA RecordIInv ==
  ASSUME IInv, NEW p \in Process, Record(p)
  PROVE  IInv'
<1>1. /\ At(p, "record") /\ platform' = platform \cup {op[p].vmid} /\ Goto(p, "end")
      /\ UNCHANGED <<ct, bound, ref, status, project, operation, write, gone, count>>
  BY DEF Record, locks
<1>2. PICK new \in Op : /\ op' = [op EXCEPT ![p] = new]
                       /\ new.at = "end" /\ new.cmd = op[p].cmd
  BY <1>1, GotoType DEF Place
<1>3. op[p].cmd = "add" /\ op[p].vmid \in Vmid
  BY <1>1, OpFields DEF ProcessOK, PlaceOK, At
<1>4. Types'
  BY <1>1, <1>2, <1>3, SameCount DEF IInv, Types, TypeOK
<1>5. Recorded'
  BY <1>1 DEF IInv, Recorded, CreatedIsRecorded, EndedStaysEnded, Bindings, HealthyOK, Made
<1>6. Harmless(p)
  BY <1>1 DEF Harmless, Made
<1>7. ProcessOK(p)'
  <2>1. op'[p] = new
    BY <1>2 DEF IInv, Types
  <2> QED BY <1>2, <1>3, <2>1 DEF ProcessOK, PlaceOK, LockOK, WorkOK, StatusOK, ForgetOK, TargetsOK, Saving,
     SetupPlace, SetupCommand
<1> QED BY <1>2, <1>4, <1>5, <1>6, <1>7, StepOf

LEMMA RemoveIInv ==
  ASSUME IInv, NEW v \in Vmid, Remove(v)
  PROVE  IInv'
<1>1. /\ ct' = [ct EXCEPT ![v] = Absent]
      /\ UNCHANGED <<bound, ref, status, platform, project, operation, write, op, gone>>
      /\ count' = [count EXCEPT !.removals = count.removals + 1]
  BY DEF Remove, disk, locks
<1>2. /\ ct' \in [Vmid -> Container \cup {Absent}]
      /\ \A u \in Vmid : ct'[u] = Absent \/ ct'[u] = ct[u]
  BY <1>1 DEF IInv, Types, TypeOK
<1>3. \A g \in Host, u \in Vmid : Made(g, u)' => Made(g, u) /\ ct'[u] = ct[u]
  BY <1>2 DEF Made
<1>4. Types'
  BY <1>1, <1>2 DEF IInv, Types, TypeOK
<1>5. Recorded'
  <2>1. CreatedIsRecorded'
    BY <1>1, <1>3 DEF IInv, Recorded, CreatedIsRecorded, Made
  <2> QED BY <1>1, <1>3, <2>1 DEF IInv, Recorded, EndedStaysEnded, Bindings, HealthyOK
<1>6. ASSUME NEW q \in Process PROVE ProcessOK(q)'
  <2>1. ProcessOK(q)
    BY DEF IInv
  <2>2. op[q].at \in SetupPlace => op[q].host \in Host
    BY <2>1 DEF ProcessOK, PlaceOK, WorkOK
  <2>3. PlaceOK(q)' /\ LockOK(q)' /\ TargetsOK(q)'
    BY <1>1, <2>1 DEF ProcessOK, PlaceOK, LockOK, TargetsOK, Saving
  <2>4. WorkOK(q)'
    BY <1>1, <1>3, <2>1 DEF ProcessOK, WorkOK, Ahead, Saving
  <2>5. StatusOK(q)'
    BY <1>1, <1>3, <2>1, <2>2 DEF ProcessOK, StatusOK, Saving, SetupPlace
  <2>6. ForgetOK(q)'
    BY <1>1, <1>3, <2>1 DEF ProcessOK, PlaceOK, ForgetOK
  <2> QED BY <2>3, <2>4, <2>5, <2>6 DEF ProcessOK
<1> QED BY <1>4, <1>5, <1>6 DEF IInv

LEMMA InitialiseIInv ==
  ASSUME IInv, Initialise
  PROVE  IInv'
<1>1. /\ ~project /\ project' = TRUE
      /\ UNCHANGED <<ct, bound, ref, status, platform, operation, write, op, gone, count>>
  BY DEF Initialise, locks
<1>2. Types'
  BY <1>1, SameCount DEF IInv, Types, TypeOK
<1>3. Recorded'
  BY <1>1 DEF IInv, Recorded, CreatedIsRecorded, EndedStaysEnded, Bindings, HealthyOK, Made
<1>4. ASSUME NEW q \in Process PROVE ProcessOK(q)'
  BY <1>1 DEF IInv, ProcessOK, PlaceOK, LockOK, WorkOK, StatusOK, ForgetOK, TargetsOK, Ahead, Saving, Made
<1> QED BY <1>2, <1>3, <1>4 DEF IInv

-----------------------------------------------------------------------------
(* Every step *)

LEMMA StepIInv ==
  ASSUME IInv, NEW p \in Process, Begin(p) \/ Step(p) \/ Fault(p) \/ Crash(p)
  PROVE  IInv'
<1>1. CASE Begin(p)
  BY <1>1, BeginCreateIInv, BeginConnectIInv, BeginOtherIInv, BeginRetryIInv DEF Begin
<1>2. CASE Cancel(p) \/ UnbindRefused(p) \/ Incomplete(p)
  BY <1>2, CancelIInv
<1>3. CASE SaveRefused(p) \/ NoId(p)
  BY <1>3, RefusedIInv
<1>4. CASE Reserve(p) \/ SaveConfig(p) \/ SaveState(p) \/ DeleteProject(p)
  BY <1>4, ReserveIInv, SaveConfigIInv, SaveStateIInv, DeleteProjectIInv
<1>5. CASE \E v \in Vmid : Allocate(p, v) \/ NextId(p, v) \/ Destroy(p, v) \/ DestroyFails(p, v)
  BY <1>5, AllocateIInv, NextIdIInv, DestroyIInv, DestroyFailsIInv
<1>6. CASE Verify(p) \/ CheckHealth(p) \/ (\E done \in BOOLEAN : Create(p, done))
  BY <1>6, VerifyIInv, CheckHealthIInv, CreateIInv
<1>7. CASE EnableFeatures(p)
  BY <1>7, SetUpIInv DEF EnableFeatures, Stage
<1>8. CASE StartLxc(p)
  BY <1>8, SetUpIInv DEF StartLxc, Stage
<1>9. CASE Install(p)
  BY <1>9, SetUpIInv DEF Install, Stage
<1>10. CASE BeginDisconnect(p) \/ Unbind(p) \/ Unreference(p)
  BY <1>10, BeginDisconnectIInv, UnbindIInv, UnreferenceIInv
<1>11. CASE Provision(p) \/ Record(p)
  BY <1>11, ProvisionIInv, RecordIInv
<1>12. CASE Fault(p)
  BY <1>12, FaultIInv
<1>13. CASE End(p) \/ Crash(p)
  BY <1>13, LeaveIInv
<1> QED BY <1>1, <1>2, <1>3, <1>4, <1>5, <1>6, <1>7, <1>8, <1>9, <1>10, <1>11, <1>12, <1>13
        DEF Step, Save, SetupSteps, Disconnect, ServiceAdd, Uninstall

LEMMA NextIInv ==
  ASSUME IInv, [Next]_vars
  PROVE  IInv'
<1>1. CASE UNCHANGED vars
  BY <1>1 DEF vars, IInv, Types, TypeOK, ProcessOK, PlaceOK, LockOK, WorkOK, StatusOK, ForgetOK, TargetsOK,
     Ahead, Saving, Made, Recorded, CreatedIsRecorded, EndedStaysEnded, HealthyOK, Bindings
<1>2. CASE Next
  BY <1>2, StepIInv, RemoveIInv, InitialiseIInv DEF Next
<1> QED BY <1>1, <1>2

\* The inductive invariant: what each process owes at its place in the code, and
\* that the saves of docker-hosts.js keep the two files and Proxmox in step.
THEOREM Inductive == Spec => []IInv
<1>1. Init => IInv
  BY InitIInv
<1>2. IInv /\ [Next]_vars => IInv'
  BY NextIInv
<1> QED BY <1>1, <1>2, PTL DEF Spec

\* The types of the configuration, the state file, the containers and the locks.
THEOREM TypeCorrectness == Spec => []TypeOK
<1>1. IInv => TypeOK
  BY DEF IInv, Types
<1> QED BY <1>1, Inductive, PTL

\* A container that docker create made is in the project from its first moment,
\* however many processes, faults and crashes there are (docker-hosts.js saves the
\* VMID in onAllocated, before pct create).
THEOREM RecordedBeforeCreated == Spec => []CreatedIsRecorded
<1>1. IInv => CreatedIsRecorded
  BY DEF IInv, Recorded
<1> QED BY <1>1, Inductive, PTL

\* A binding that disconnect or uninstall has ended is not put back by the saveHost
\* of an operation that began before.
THEOREM EndedForGood == Spec => []EndedStaysEnded
<1>1. IInv => EndedStaysEnded
  BY DEF IInv, Recorded
<1> QED BY <1>1, Inductive, PTL

\* state.json calls a created host healthy only when its engine is installed.
THEOREM HealthIsEarned == Spec => []HealthyIsInstalled
<1>1. ASSUME IInv PROVE HealthyIsInstalled
  <2> SUFFICES ASSUME NEW h \in Bindings, status[h] = "healthy"
               PROVE  /\ ref[h] # Absent
                      /\ ct[ref[h]] # Absent /\ ct[ref[h]].by = h => ct[ref[h]].stage = "installed"
    BY DEF HealthyIsInstalled
  <2>1. h \in Host /\ h \notin gone
    BY <1>1 DEF Bindings, IInv, Recorded, EndedStaysEnded
  <2>2. ref[h] \in Vmid /\ \A v \in Vmid : Made(h, v) => ct[v].stage = "installed"
    BY <1>1, <2>1 DEF IInv, Recorded, HealthyOK
  <2> QED BY <2>2, SentinelsDistinct DEF Made
<1> QED BY <1>1, Inductive, PTL

-----------------------------------------------------------------------------
(* Uninstall *)

\* Neither made by docker create nor referred to as a Docker host.
Spared(v) == ct[v].by \notin Host /\ \A h \in Host : ref[h] # v

LEMMA DestroySpares ==
  ASSUME IInv, NEW p \in Process, NEW u \in Vmid, Destroy(p, u),
         NEW v \in Vmid, ct[v] # Absent, ct'[v] = Absent
  PROVE  Spared(v)
<1>1. v = u
  BY DEF Destroy, IInv, Types, TypeOK
<1>2. v \in op[p].targets /\ op[p].at = "destroy"
  BY <1>1 DEF Destroy, At
<1>3. \A h \in Host : ref[h] # v
  BY <1>2 DEF IInv, ProcessOK, TargetsOK
<1> QED BY <1>3 DEF Spared, IInv, Recorded, CreatedIsRecorded

LEMMA OnlyDestroyTakes ==
  ASSUME IInv, NEW p \in Process, Begin(p) \/ Step(p) \/ Fault(p) \/ Crash(p),
         \A v \in Vmid : ~Destroy(p, v),
         NEW v \in Vmid, ct[v] # Absent
  PROVE  ct'[v] # Absent
<1>1. ct[v] \in Container /\ ct \in [Vmid -> Container \cup {Absent}]
  BY DEF IInv, Types, TypeOK
<1>2. CASE Begin(p)
  BY <1>2 DEF Begin, BeginCreate, BeginConnect, SelectForDisconnect, BeginUninstall, BeginServiceAdd, BeginRetry
<1>3. CASE Cancel(p) \/ Reserve(p) \/ Save(p) \/ Fault(p)
  BY <1>3 DEF Cancel, Reserve, Save, SaveConfig, SaveState, SaveRefused, Fault
<1>4. CASE End(p) \/ Crash(p)
  BY <1>4 DEF End, Crash, Leave
<1>5. CASE SetupSteps(p)
  <2>1. CASE (\E u \in Vmid : Allocate(p, u)) \/ Verify(p) \/ CheckHealth(p)
    BY <2>1 DEF Allocate, Verify, CheckHealth
  <2>2. CASE \E done \in BOOLEAN : Create(p, done)
    BY <1>1, <2>2 DEF Create
  <2>3. CASE EnableFeatures(p) \/ StartLxc(p) \/ Install(p)
    <3> DEFINE u == op[p].vmid
               more(stage) == IF Rank[ct[u].stage] < Rank[stage] THEN stage ELSE ct[u].stage
               result(stage) == [ct EXCEPT ![u].stage = more(stage)]
    <3>1. EnableFeatures(p) => ct' = result("features")
      BY DEF EnableFeatures, SetUp
    <3>2. StartLxc(p) => ct' = result("running")
      BY DEF StartLxc, SetUp
    <3>3. Install(p) => ct' = result("installed")
      BY DEF Install, SetUp
    <3>4. ASSUME NEW stage \in Stage, ct' = result(stage) PROVE ct'[v] # Absent
      <4>1. u = v => more(stage) \in Stage
        BY <1>1 DEF Container
      <4>2. u = v => [ct[v] EXCEPT !.stage = more(stage)] \in Container
        <5> HIDE DEF more
        <5> QED BY <1>1, <4>1 DEF Container
      <4> HIDE DEF more
      <4> QED BY <1>1, <3>4, <4>2, SentinelsDistinct
    <3>5. "features" \in Stage /\ "running" \in Stage /\ "installed" \in Stage
      BY DEF Stage
    <3> HIDE DEF result
    <3> QED BY <2>3, <3>1, <3>2, <3>3, <3>4, <3>5
  <2> QED BY <1>5, <2>1, <2>2, <2>3 DEF SetupSteps
<1>6. CASE Disconnect(p) \/ DeleteProject(p)
  <2>1. [ct[v] EXCEPT !.by = Foreign] \in Container
    BY <1>1 DEF Container
  <2> QED BY <1>6, <2>1, SentinelsDistinct
          DEF Disconnect, BeginDisconnect, Unbind, Unreference, UnbindRefused, DeleteProject
<1>7. CASE ServiceAdd(p)
  BY <1>1, <1>7 DEF ServiceAdd, NextId, NoId, Provision, Record
<1>8. CASE (\E u \in Vmid : DestroyFails(p, u)) \/ Incomplete(p)
  BY <1>8 DEF DestroyFails, Incomplete
<1> QED BY <1>2, <1>3, <1>4, <1>5, <1>6, <1>7, <1>8 DEF Step, Uninstall

\* uninstall (cli.js) destroys no container that docker create made or that
\* state.json refers to as a Docker host.
THEOREM SparesDocker == Spec => UninstallSparesDocker
<1> DEFINE Sparing == \A v \in Vmid : ct[v] # Absent /\ ct'[v] = Absent /\ count.removals' = count.removals =>
                        ct[v].by \notin Host /\ \A h \in Host : ref[h] # v
<1>1. ASSUME IInv, [Next]_vars PROVE [Sparing]_vars
  <2> SUFFICES ASSUME Next, NEW v \in Vmid, ct[v] # Absent, ct'[v] = Absent,
                      count.removals' = count.removals
               PROVE  Spared(v)
    BY <1>1 DEF Spared
  <2>1. CASE \E p \in Process : Begin(p) \/ Step(p) \/ Fault(p) \/ Crash(p)
    BY <1>1, <2>1, DestroySpares, OnlyDestroyTakes
  <2>2. CASE \E u \in Vmid : Remove(u)
    <3>1. count' = [count EXCEPT !.removals = count.removals + 1]
      BY <2>2 DEF Remove
    <3>2. count'.removals = count.removals + 1 /\ count.removals \in Nat
      BY <1>1, <3>1 DEF IInv, Types
    <3> QED BY <3>2
  <2>3. CASE Initialise
    BY <2>3 DEF Initialise
  <2> QED BY <2>1, <2>2, <2>3 DEF Next
<1> QED BY <1>1, Inductive, PTL DEF Spec, UninstallSparesDocker

-----------------------------------------------------------------------------
(* Whose container setup is at work on *)

CreatedBinding(b) == b # Absent /\ b.origin = "created"

\* The container at v is told from others by an address of b that docker create
\* chose: it is the one that was made for h.
Told(h, b, v) == v \in Vmid /\ ct[v] # Absent /\ ct[v].ip = b.ip => ct[v].by = h

HostOwns(h) == CreatedBinding(bound[h]) => bound[h].ip \in Address /\ Told(h, bound[h], ref[h])

Changing == {"features", "start", "install", "health"}

\* The reference of the binding at work is the VMID at work or still missing, no
\* other binding has that VMID when it is used, and what comes after the
\* verification works on the container of the binding.
OwnOK(p) ==
  LET h == op[p].host
      v == op[p].vmid
  IN  op[p].cmd \in SetupCommand =>
        /\ ref[h] \in {Absent, v}
        /\ Ahead(p, {"allocate"}) => v = Absent
        /\ Ahead(p, {"allocate", "create", "verify"}) => op[p].new.origin = "created"
        /\ op[p].new.origin = "created" => op[p].new.ip \in Address /\ Told(h, op[p].new, v)
        /\ op[p].at = "state" => bound[h] = op[p].new
        /\ op[p].at \in {"state", "create"} /\ v # Absent => \A g \in Bindings \ {h} : ref[g] # v
        /\ op[p].at \in Changing \cup {"verify"} => bound[h] # Absent
        /\ op[p].at \in Changing => Made(h, v)

Owned == (\A h \in Host : HostOwns(h)) /\ (\A p \in Process : OwnOK(p))

LEMMA InitOwned == Init => Owned
BY SentinelsDistinct DEF Init, Owned, HostOwns, CreatedBinding, OwnOK, NoOp, SetupCommand

\* Steps of processes that do not hold the operation lock: no file changes, a
\* container that appears has no address of docker create, and one that goes is
\* not at work.
Aside == /\ UNCHANGED <<bound, ref>>
         /\ \A v \in Vmid : \/ ct'[v] = ct[v]
                            \/ ct[v] = Absent /\ ct'[v].ip = Elsewhere
                            \/ ct'[v] = Absent /\ \A q \in Process : op[q].vmid # v

LEMMA HostsAside ==
  ASSUME Owned, Aside, NEW h \in Host
  PROVE  HostOwns(h)'
<1>1. HostOwns(h)
  BY DEF Owned
<1>2. bound'[h] = bound[h] /\ ref'[h] = ref[h]
  BY DEF Aside
<1>3. ASSUME CreatedBinding(bound[h]), ref[h] \in Vmid, ct'[ref[h]] # Absent,
             ct'[ref[h]].ip = bound[h].ip
      PROVE  ct'[ref[h]].by = h
  <2>1. bound[h].ip \in Address /\ Told(h, bound[h], ref[h])
    BY <1>1, <1>3 DEF HostOwns
  <2>2. ct'[ref[h]] = ct[ref[h]]
    BY <1>3, <2>1, SentinelsDistinct DEF Aside
  <2> QED BY <1>3, <2>1, <2>2 DEF Told
<1> QED BY <1>1, <1>2, <1>3 DEF HostOwns, CreatedBinding, Told

LEMMA OthersOwn ==
  ASSUME IInv, Owned, NEW p, Aside \/ operation = p, NEW q \in Process, q # p, op'[q] = op[q]
  PROVE  OwnOK(q)'
<1> SUFFICES ASSUME op[q].cmd \in SetupCommand PROVE OwnOK(q)'
  BY DEF OwnOK
<1>1. operation = q
  BY OpFields DEF ProcessOK, LockOK
<1>2. Aside
  BY <1>1
<1> DEFINE h == op[q].host
           v == op[q].vmid
<1>3. OwnOK(q) /\ UNCHANGED <<bound, ref>>
  BY <1>2 DEF Owned, Aside
<1>4. ASSUME op[q].new.origin = "created" PROVE Told(h, op[q].new, v)'
  <2> SUFFICES ASSUME v \in Vmid, ct'[v] # Absent, ct'[v].ip = op[q].new.ip
               PROVE  ct'[v].by = h
    BY DEF Told
  <2>1. op[q].new.ip \in Address /\ Told(h, op[q].new, v)
    BY <1>3, <1>4 DEF OwnOK
  <2>2. ct'[v] = ct[v]
    BY <1>2, <2>1, SentinelsDistinct DEF Aside
  <2> QED BY <2>1, <2>2 DEF Told
<1>5. ASSUME op[q].at \in Changing PROVE Made(h, v)'
  <2>1. Made(h, v)
    BY <1>3, <1>5 DEF OwnOK
  <2>2. v \in Vmid
    BY <1>5, OpFields DEF ProcessOK, WorkOK, Changing
  <2> QED BY <1>2, <2>1, <2>2 DEF Aside, Made
<1> QED BY <1>3, <1>4, <1>5 DEF OwnOK, Ahead, Saving, Bindings

\* A step of p disturbs nobody else's binding at work.
LEMMA OwnStep ==
  ASSUME IInv, Owned, NEW p \in Process, NEW new, op' = [op EXCEPT ![p] = new],
         Aside \/ (operation = p /\ \A h \in Host : HostOwns(h)'),
         op'[p] = new => OwnOK(p)'
  PROVE  Owned'
<1>1. op'[p] = new /\ \A q \in Process \ {p} : op'[q] = op[q]
  BY DEF IInv, Types
<1>2. \A q \in Process : OwnOK(q)'
  BY <1>1, OthersOwn
<1> QED BY <1>2, HostsAside DEF Owned

LEMMA QuietOwn ==
  ASSUME IInv, Owned, NEW p \in Process, NEW new, op' = [op EXCEPT ![p] = new],
         UNCHANGED <<ct, bound, ref>>, op'[p] = new => OwnOK(p)'
  PROVE  Owned'
<1>1. Aside
  BY DEF Aside
<1> QED BY <1>1, OwnStep

-----------------------------------------------------------------------------
LEMMA BeginCreateOwned ==
  ASSUME IInv, Owned, NEW p \in Process, BeginCreate(p)
  PROVE  Owned'
<1> PICK h \in Host, name \in Name, ip \in Address :
         /\ Fresh(h)
         /\ op' = [op EXCEPT ![p] = [NoOp EXCEPT
                     !.cmd = "create", !.at = "save", !.host = h, !.save = "pending",
                     !.then = "allocate",
                     !.new = [name |-> name, origin |-> "created", ip |-> ip]]]
         /\ UNCHANGED <<ct, disk, write, gone>>
  BY DEF BeginCreate
<1> DEFINE new == [NoOp EXCEPT !.cmd = "create", !.at = "save", !.host = h, !.save = "pending",
                     !.then = "allocate",
                     !.new = [name |-> name, origin |-> "created", ip |-> ip]]
<1>1. /\ new.cmd = "create" /\ new.at = "save" /\ new.host = h /\ new.vmid = Absent
      /\ new.then = "allocate" /\ new.new.origin = "created" /\ new.new.ip = ip
  BY DEF NoOp
<1>2. op' = [op EXCEPT ![p] = new]
  OBVIOUS
<1> HIDE DEF new
<1>3. ref[h] = Absent /\ UNCHANGED <<ct, bound, ref>>
  BY DEF Fresh, Unused, disk
<1>4. op'[p] = new => OwnOK(p)'
  BY <1>1, <1>3, SentinelsDistinct DEF OwnOK, Ahead, Told, Changing
<1> QED BY <1>2, <1>3, <1>4, QuietOwn

LEMMA BeginConnectOwned ==
  ASSUME IInv, Owned, NEW p \in Process, BeginConnect(p)
  PROVE  Owned'
<1> PICK h \in Host, name \in Name, v \in Vmid :
         /\ Fresh(h)
         /\ op' = [op EXCEPT ![p] = [NoOp EXCEPT
                     !.cmd = "connect", !.at = "save", !.host = h, !.vmid = v,
                     !.save = "healthy", !.then = "end",
                     !.new = [name |-> name, origin |-> "connected", ip |-> Elsewhere]]]
         /\ UNCHANGED <<ct, disk, write, gone>>
  BY DEF BeginConnect
<1> DEFINE new == [NoOp EXCEPT !.cmd = "connect", !.at = "save", !.host = h, !.vmid = v,
                     !.save = "healthy", !.then = "end",
                     !.new = [name |-> name, origin |-> "connected", ip |-> Elsewhere]]
<1>1. /\ new.cmd = "connect" /\ new.at = "save" /\ new.host = h /\ new.vmid = v
      /\ new.then = "end" /\ new.new.origin = "connected"
  BY DEF NoOp
<1>2. op' = [op EXCEPT ![p] = new]
  OBVIOUS
<1> HIDE DEF new
<1>3. ref[h] = Absent /\ UNCHANGED <<ct, bound, ref>>
  BY DEF Fresh, Unused, disk
<1>4. op'[p] = new => OwnOK(p)'
  BY <1>1, <1>3 DEF OwnOK, Ahead, Changing
<1> QED BY <1>2, <1>3, <1>4, QuietOwn

LEMMA BeginRetryOwned ==
  ASSUME IInv, Owned, NEW p \in Process, NEW h \in Host, BeginRetry(p, h)
  PROVE  Owned'
<1>1. /\ UNCHANGED <<ct, bound, ref>> /\ bound[h] # Absent /\ bound[h].origin = "created"
      /\ ref[h] # Absent /\ Run(p, "retry", "verify", h, bound[h], ref[h])
  BY DEF BeginRetry, Retryable, Bindings, disk
<1>2. bound[h] \in Binding /\ ref[h] \in Vmid
  BY <1>1 DEF IInv, Types, TypeOK
<1>3. PICK new \in Op : /\ op' = [op EXCEPT ![p] = new]
                        /\ new.cmd = "retry" /\ new.at = "verify" /\ new.host = h
                        /\ new.new = bound[h] /\ new.vmid = ref[h]
  BY <1>1, <1>2, RunType
<1>4. bound[h].ip \in Address /\ Told(h, bound[h], ref[h])
  BY <1>1 DEF Owned, HostOwns, CreatedBinding
<1>5. op'[p] = new => OwnOK(p)'
  BY <1>1, <1>3, <1>4 DEF OwnOK, Ahead, Saving, Told, Changing
<1> QED BY <1>1, <1>3, <1>5, QuietOwn

\* Commands that set up no container.
LEMMA UnrelatedOwned ==
  ASSUME IInv, Owned, NEW p \in Process, NEW new, op' = [op EXCEPT ![p] = new],
         new.cmd \notin SetupCommand, Aside \/ (operation = p /\ \A h \in Host : HostOwns(h)')
  PROVE  Owned'
BY OwnStep DEF OwnOK

LEMMA QuietAside ==
  ASSUME UNCHANGED <<ct, bound, ref>>
  PROVE  Aside
BY DEF Aside

LEMMA BeginOtherOwned ==
  ASSUME IInv, Owned, NEW p \in Process,
         SelectForDisconnect(p) \/ BeginUninstall(p) \/ BeginServiceAdd(p)
  PROVE  Owned'
<1>1. UNCHANGED <<ct, bound, ref>>
  BY DEF SelectForDisconnect, BeginUninstall, BeginServiceAdd, disk
<1>2. PICK cmd, at, h, b, v : cmd \in {"disconnect", "uninstall", "add"} /\ Run(p, cmd, at, h, b, v)
  BY DEF SelectForDisconnect, BeginUninstall, BeginServiceAdd
<1> DEFINE new == [NoOp EXCEPT !.cmd = cmd, !.at = at, !.host = h, !.new = b, !.vmid = v]
<1>3. op' = [op EXCEPT ![p] = new]
  BY <1>2 DEF Run
<1>4. new.cmd \notin SetupCommand
  BY <1>2 DEF NoOp, SetupCommand
<1> HIDE DEF new
<1> QED BY <1>1, <1>3, <1>4, QuietAside, UnrelatedOwned

\* A command that comes to its end, or to the last save of one that failed.
LEMMA GotoOwned ==
  ASSUME IInv, Owned, NEW p \in Process, UNCHANGED <<ct, bound, ref>>, Goto(p, "end")
  PROVE  Owned'
<1>1. PICK new \in Op :
        /\ op' = [op EXCEPT ![p] = new]
        /\ new.at = "end" /\ new.cmd = op[p].cmd /\ new.host = op[p].host /\ new.new = op[p].new
        /\ new.vmid = op[p].vmid
  BY GotoType DEF Place
<1>2. OwnOK(p)
  BY DEF Owned
<1>3. op'[p] = new => OwnOK(p)'
  BY <1>1, <1>2 DEF OwnOK, Ahead, Saving, Told, Changing
<1> QED BY <1>1, <1>3, QuietOwn

LEMMA SaveThenOwned ==
  ASSUME IInv, Owned, NEW p \in Process, UNCHANGED <<ct, bound, ref>>,
         SaveThen(p, "pending", "end") \/ SaveThen(p, "healthy", "finish")
  PROVE  Owned'
<1>1. PICK new \in Op :
        /\ op' = [op EXCEPT ![p] = new]
        /\ new.at = "save" /\ new.then \in {"end", "finish"}
        /\ new.cmd = op[p].cmd /\ new.host = op[p].host /\ new.new = op[p].new
        /\ new.vmid = op[p].vmid
  BY SaveType DEF Place, SetupPlace, Status
<1>2. OwnOK(p)
  BY DEF Owned
<1>3. op'[p] = new => OwnOK(p)'
  BY <1>1, <1>2 DEF OwnOK, Ahead, Saving, Told, Changing
<1> QED BY <1>1, <1>3, QuietOwn

LEMMA RecoverOwned ==
  ASSUME IInv, Owned, NEW p \in Process, UNCHANGED <<ct, bound, ref>>, Recover(p)
  PROVE  Owned'
BY GotoOwned, SaveThenOwned DEF Recover

LEMMA QuietStepsOwned ==
  ASSUME IInv, Owned, NEW p \in Process,
         Cancel(p) \/ UnbindRefused(p) \/ Incomplete(p) \/ SaveRefused(p) \/ NoId(p) \/ Fault(p)
           \/ CheckHealth(p) \/ Record(p)
  PROVE  Owned'
<1>1. UNCHANGED <<ct, bound, ref>>
  BY DEF Cancel, UnbindRefused, Incomplete, SaveRefused, NoId, Fault, CheckHealth, Record, disk
<1>2. Goto(p, "end") \/ Recover(p) \/ SaveThen(p, "healthy", "finish")
  BY DEF Cancel, UnbindRefused, Incomplete, SaveRefused, NoId, Fault, CheckHealth, Record
<1> QED BY <1>1, <1>2, GotoOwned, RecoverOwned, SaveThenOwned

LEMMA LeaveOwned ==
  ASSUME IInv, Owned, NEW p \in Process, End(p) \/ Crash(p)
  PROVE  Owned'
<1>1. op' = [op EXCEPT ![p] = NoOp] /\ UNCHANGED <<ct, bound, ref>>
  BY DEF End, Crash, Leave, disk
<1>2. NoOp.cmd \notin SetupCommand
  BY DEF NoOp, SetupCommand
<1> QED BY <1>1, <1>2, QuietAside, UnrelatedOwned

\* The container has the address that docker create chose: it is the binding's.
LEMMA VerifyOwned ==
  ASSUME IInv, Owned, NEW p \in Process, Verify(p)
  PROVE  Owned'
<1>1. At(p, "verify") /\ UNCHANGED <<ct, bound, ref>>
  BY DEF Verify, disk
<1>2. CASE Recover(p)
  BY <1>1, <1>2, RecoverOwned
<1>3. CASE ct[op[p].vmid] # Absent /\ ct[op[p].vmid].ip = op[p].new.ip /\ Goto(p, "features")
  <2>1. PICK new \in Op :
          /\ op' = [op EXCEPT ![p] = new]
          /\ new.at = "features" /\ new.cmd = op[p].cmd /\ new.host = op[p].host /\ new.new = op[p].new
          /\ new.vmid = op[p].vmid
    BY <1>3, GotoType DEF Place, SetupPlace
  <2>2. op[p].cmd \in SetupCommand /\ WorkOK(p) /\ OwnOK(p)
    BY <1>1, SetupFacts DEF At, SetupPlace, Owned
  <2>3. op[p].vmid \in Vmid
    BY <1>1, <2>2 DEF At, WorkOK, Ahead
  <2>4. Made(op[p].host, op[p].vmid)
    BY <1>1, <1>3, <2>2, <2>3 DEF At, OwnOK, Ahead, Told, Made
  <2>5. op'[p] = new => OwnOK(p)'
    BY <1>1, <2>1, <2>2, <2>4 DEF OwnOK, Ahead, Saving, Told, Made, Changing, At
  <2> QED BY <1>1, <2>1, <2>5, QuietOwn
<1> QED BY <1>2, <1>3 DEF Verify

\* The container that is free next has nobody else's address.
LEMMA AllocateOwned ==
  ASSUME IInv, Owned, NEW p \in Process, NEW v \in Vmid, Allocate(p, v)
  PROVE  Owned'
<1>1. At(p, "allocate") /\ UNCHANGED <<ct, bound, ref>> /\ ct[v] = Absent
  BY DEF Allocate, disk, LowestFree
<1> DEFINE new == [op[p] EXCEPT !.vmid = v, !.at = "save", !.save = "pending", !.then = "create"]
<1>2. op' = [op EXCEPT ![p] = new]
  BY OpFields DEF Allocate
<1>3. /\ new.at = "save" /\ new.then = "create"
      /\ new.cmd = op[p].cmd /\ new.host = op[p].host /\ new.new = op[p].new /\ new.vmid = v
  BY OpFields
<1> HIDE DEF new
<1>4. OwnOK(p) /\ op[p].cmd \in SetupCommand
  BY <1>1, SetupFacts DEF At, SetupPlace, Owned
<1>5. op'[p] = new => OwnOK(p)'
  BY <1>1, <1>3, <1>4 DEF OwnOK, Ahead, Saving, Told, Changing, At
<1> QED BY <1>1, <1>2, <1>5, QuietOwn

LEMMA BeginDisconnectOwned ==
  ASSUME IInv, Owned, NEW p \in Process, BeginDisconnect(p)
  PROVE  Owned'
<1>1. At(p, "confirm") /\ Goto(p, "unbind") /\ UNCHANGED <<ct, bound, ref>>
  BY DEF BeginDisconnect, disk
<1>2. PICK new \in Op : op' = [op EXCEPT ![p] = new] /\ new.cmd = op[p].cmd
  BY <1>1, GotoType DEF Place
<1>3. op[p].cmd = "disconnect"
  BY <1>1, OpFields DEF ProcessOK, PlaceOK, At
<1> QED BY <1>1, <1>2, <1>3, QuietAside, UnrelatedOwned DEF SetupCommand

LEMMA NextIdOwned ==
  ASSUME IInv, Owned, NEW p \in Process, NEW v \in Vmid, NextId(p, v)
  PROVE  Owned'
<1>1. At(p, "nextid") /\ UNCHANGED <<ct, bound, ref>>
  BY DEF NextId, disk
<1> DEFINE new == [op[p] EXCEPT !.vmid = v, !.at = "provision"]
<1>2. op' = [op EXCEPT ![p] = new]
  BY OpFields DEF NextId
<1>3. new.cmd = op[p].cmd
  BY OpFields
<1> HIDE DEF new
<1>4. op[p].cmd = "add"
  BY <1>1, OpFields DEF ProcessOK, PlaceOK, At
<1> QED BY <1>1, <1>2, <1>3, <1>4, QuietAside, UnrelatedOwned DEF SetupCommand

LEMMA ReserveOwned ==
  ASSUME IInv, Owned, NEW p \in Process, Reserve(p)
  PROVE  Owned'
<1>1. At(p, "reserve") /\ UNCHANGED <<ct, bound, ref>>
  BY DEF Reserve, disk
<1> DEFINE new == [op[p] EXCEPT !.at = "destroy", !.targets = Targets]
<1>2. op' = [op EXCEPT ![p] = new]
  BY OpFields DEF Reserve
<1>3. new.cmd = op[p].cmd
  BY OpFields
<1> HIDE DEF new
<1>4. op[p].cmd = "uninstall"
  BY <1>1, OpFields DEF ProcessOK, PlaceOK, At
<1> QED BY <1>1, <1>2, <1>3, <1>4, QuietAside, UnrelatedOwned DEF SetupCommand

LEMMA DestroyFailsOwned ==
  ASSUME IInv, Owned, NEW p \in Process, NEW v \in Vmid, DestroyFails(p, v)
  PROVE  Owned'
<1>1. At(p, "destroy") /\ UNCHANGED <<ct, bound, ref>>
  BY DEF DestroyFails, disk
<1> DEFINE new == [op[p] EXCEPT !.targets = @ \ {v}, !.then = "end"]
<1>2. op' = [op EXCEPT ![p] = new]
  BY OpFields DEF DestroyFails
<1>3. new.cmd = op[p].cmd
  BY OpFields
<1> HIDE DEF new
<1>4. op[p].cmd = "uninstall"
  BY <1>1, OpFields DEF ProcessOK, PlaceOK, At
<1> QED BY <1>1, <1>2, <1>3, <1>4, QuietAside, UnrelatedOwned DEF SetupCommand

\* The binding at work has no reference yet, or the VMID at work for one.
LEMMA SaveConfigOwned ==
  ASSUME IInv, Owned, NEW p \in Process, SaveConfig(p)
  PROVE  Owned'
<1> DEFINE h == op[p].host
<1>1. /\ At(p, "save") /\ bound' = [bound EXCEPT ![h] = op[p].new] /\ Goto(p, "state")
      /\ UNCHANGED <<ct, ref>> /\ Unique(h, op[p].new.name, op[p].vmid)
  BY DEF SaveConfig
<1>2. PICK new \in Op :
        /\ op' = [op EXCEPT ![p] = new]
        /\ new.at = "state" /\ new.save = op[p].save /\ new.then = op[p].then /\ new.cmd = op[p].cmd
        /\ new.host = op[p].host /\ new.new = op[p].new /\ new.vmid = op[p].vmid
  BY <1>1, GotoType DEF Place, SetupPlace
<1>3. /\ op[p].cmd \in SetupCommand /\ operation = p
      /\ h \in Host /\ op[p].new \in Binding /\ OwnOK(p)
  BY <1>1, SetupFacts DEF At, SetupPlace, Owned
<1>4. bound'[h] = op[p].new /\ \A g \in Host \ {h} : bound'[g] = bound[g]
  BY <1>1, <1>3 DEF IInv, Types, TypeOK
<1>5. ASSUME NEW g \in Host PROVE HostOwns(g)'
  <2>1. CASE g = h
    BY <1>1, <1>3, <1>4, <2>1, SentinelsDistinct DEF OwnOK, HostOwns, CreatedBinding, Told
  <2>2. CASE g # h
    BY <1>1, <1>4, <2>2 DEF Owned, HostOwns, CreatedBinding, Told
  <2> QED BY <2>1, <2>2
<1>6. op[p].vmid # Absent => \A g \in Bindings' \ {h} : ref[g] # op[p].vmid
  BY <1>1, <1>4 DEF Unique, Bindings
<1>7. op'[p] = new => OwnOK(p)'
  BY <1>1, <1>2, <1>3, <1>4, <1>6 DEF OwnOK, Ahead, Saving, Told, Changing, At
<1> QED BY <1>2, <1>3, <1>5, <1>7, OwnStep

LEMMA SaveStateOwned ==
  ASSUME IInv, Owned, NEW p \in Process, SaveState(p)
  PROVE  Owned'
<1> DEFINE h == op[p].host
           v == op[p].vmid
<1>1. /\ At(p, "state") /\ Goto(p, op[p].then)
      /\ ref' = (IF v = Absent THEN ref ELSE [ref EXCEPT ![h] = v])
      /\ UNCHANGED <<ct, bound>>
  BY DEF SaveState
<1>2. /\ op[p].cmd \in SetupCommand /\ operation = p
      /\ h \in Host /\ op[p].new \in Binding /\ OwnOK(p) /\ PlaceOK(p)
  BY <1>1, SetupFacts DEF At, SetupPlace, Owned
<1>3. /\ op[p].then \in {"allocate", "create", "verify", "finish", "end"} /\ Saving(p)
      /\ bound[h] = op[p].new /\ bound[h] # Absent
  BY <1>1, <1>2, SentinelsDistinct DEF PlaceOK, OwnOK, Saving, At
<1>4. PICK new \in Op :
        /\ op' = [op EXCEPT ![p] = new]
        /\ new.at = op[p].then /\ new.save = op[p].save /\ new.then = op[p].then /\ new.cmd = op[p].cmd
        /\ new.host = op[p].host /\ new.new = op[p].new /\ new.vmid = op[p].vmid
  <2>1. PICK at \in Place : at = op[p].then
    BY OpFields
  <2> QED BY <1>1, <2>1, GotoType
<1>5. ref'[h] \in {Absent, v} /\ \A g \in Host \ {h} : ref'[g] = ref[g]
  BY <1>1, <1>2 DEF OwnOK, IInv, Types, TypeOK
<1>6. ASSUME NEW g \in Host PROVE HostOwns(g)'
  <2>1. CASE g = h
    BY <1>1, <1>2, <1>3, <1>5, <2>1, SentinelsDistinct DEF OwnOK, HostOwns, CreatedBinding, Told
  <2>2. CASE g # h
    BY <1>1, <1>5, <2>2 DEF Owned, HostOwns, CreatedBinding, Told
  <2> QED BY <2>1, <2>2
<1>7. ASSUME op'[p] = new PROVE OwnOK(p)'
  <2>1. \A places \in {{"allocate"}, {"allocate", "create", "verify"}} :
          Ahead(p, places)' => op[p].then \in places
    BY <1>3, <1>4, <1>7 DEF Ahead, Saving
  <2>2. \A places \in {{"allocate"}, {"allocate", "create", "verify"}} :
          Ahead(p, places)' => Ahead(p, places)
    BY <1>3, <2>1 DEF Ahead
  <2>3. v # Absent => \A g \in Bindings' \ {h} : ref'[g] # v
    BY <1>1, <1>2, <1>5 DEF OwnOK, Bindings, At
  <2> QED BY <1>1, <1>2, <1>3, <1>4, <1>5, <1>7, <2>2, <2>3 DEF OwnOK, Told, Changing
<1> QED BY <1>2, <1>4, <1>6, <1>7, OwnStep

LEMMA CreateOwned ==
  ASSUME IInv, Owned, NEW p \in Process, NEW done \in BOOLEAN, Create(p, done)
  PROVE  Owned'
<1> DEFINE h == op[p].host
           v == op[p].vmid
           made == [by |-> h, ip |-> op[p].new.ip, stage |-> "created"]
<1>1. /\ At(p, "create")
      /\ ct' = (IF ct[v] = Absent THEN [ct EXCEPT ![v] = made] ELSE ct)
      /\ UNCHANGED <<bound, ref>>
  BY DEF Create, disk
<1>2. PICK then \in {"verify", "end"} : SaveThen(p, "pending", then)
  BY DEF Create
<1>3. PICK new \in Op :
        /\ op' = [op EXCEPT ![p] = new]
        /\ new.at = "save" /\ new.save = "pending" /\ new.then = then /\ new.cmd = op[p].cmd
        /\ new.host = op[p].host /\ new.new = op[p].new /\ new.vmid = op[p].vmid
  BY <1>2, SaveType DEF Place, SetupPlace, Status
<1>4. /\ op[p].cmd \in SetupCommand /\ operation = p
      /\ h \in Host /\ op[p].new \in Binding /\ WorkOK(p) /\ OwnOK(p)
  BY <1>1, SetupFacts DEF At, SetupPlace, Owned
<1>5. v \in Vmid /\ ref[h] = v /\ op[p].new.origin = "created"
  BY <1>1, <1>4 DEF WorkOK, OwnOK, Ahead, At
<1>6. made.by = h
  OBVIOUS
<1> HIDE DEF made
<1>7. /\ \A u \in Vmid \ {v} : ct'[u] = ct[u]
      /\ ct'[v] = made \/ ct'[v] = ct[v]
  BY <1>1, <1>5 DEF IInv, Types, TypeOK
<1>8. ASSUME NEW g \in Host PROVE HostOwns(g)'
  <2>1. CASE g = h
    BY <1>1, <1>5, <1>6, <1>7, <2>1 DEF Owned, HostOwns, CreatedBinding, Told
  <2>2. CASE g # h /\ bound[g] # Absent
    <3>1. ref[g] # v
      BY <1>1, <1>4, <1>5, <2>2, SentinelsDistinct DEF OwnOK, Bindings, At
    <3> QED BY <1>1, <1>7, <2>2, <3>1 DEF Owned, HostOwns, CreatedBinding, Told
  <2>3. CASE bound[g] = Absent
    BY <1>1, <2>3 DEF HostOwns, CreatedBinding
  <2> QED BY <2>1, <2>2, <2>3
<1>9. ASSUME op'[p] = new PROVE OwnOK(p)'
  <2>1. Told(h, op[p].new, v)'
    BY <1>3, <1>4, <1>5, <1>6, <1>7, <1>9 DEF OwnOK, Told
  <2> QED BY <1>1, <1>2, <1>3, <1>4, <1>5, <1>9, <2>1 DEF OwnOK, Ahead, Saving, Changing
<1> QED BY <1>3, <1>4, <1>8, <1>9, OwnStep

\* A setup step changes neither whose container it is nor its address.
LEMMA SetUpOwned ==
  ASSUME IInv, Owned, NEW p \in Process,
         NEW from \in {"features", "start", "install"}, NEW to \in {"start", "install", "health"},
         NEW stage \in Stage, SetUp(p, from, stage, to)
  PROVE  Owned'
<1> DEFINE h == op[p].host
           v == op[p].vmid
           more == IF Rank[ct[v].stage] < Rank[stage] THEN stage ELSE ct[v].stage
<1>1. /\ At(p, from) /\ ct[v] # Absent /\ ct' = [ct EXCEPT ![v].stage = more] /\ Goto(p, to)
      /\ UNCHANGED <<bound, ref>>
  BY DEF SetUp, disk
<1> HIDE DEF more
<1>2. PICK new \in Op :
        /\ op' = [op EXCEPT ![p] = new]
        /\ new.at = to /\ new.cmd = op[p].cmd /\ new.host = h /\ new.new = op[p].new
        /\ new.vmid = v
  BY <1>1, GotoType DEF Place, SetupPlace
<1>3. op[p].cmd \in SetupCommand /\ operation = p /\ WorkOK(p) /\ OwnOK(p)
  BY <1>1, SetupFacts DEF At, SetupPlace, Owned
<1>4. v \in Vmid /\ Made(h, v) /\ bound[h] # Absent
  BY <1>1, <1>3 DEF WorkOK, OwnOK, Changing, At
<1>5. ct[v] \in Container
  BY <1>1, <1>4 DEF IInv, Types, TypeOK
<1>6. /\ ct'[v] = [ct[v] EXCEPT !.stage = more]
      /\ \A u \in Vmid \ {v} : ct'[u] = ct[u]
  BY <1>1, <1>4 DEF IInv, Types, TypeOK
<1>7. ct'[v].by = ct[v].by /\ ct'[v].ip = ct[v].ip /\ ct'[v] # Absent
  <2>1. ct'[v].by = ct[v].by /\ ct'[v].ip = ct[v].ip
    BY <1>5, <1>6 DEF Container
  <2>2. more \in Stage
    BY <1>5 DEF Container, more
  <2>3. ct'[v] \in Container
    BY <1>5, <1>6, <2>2 DEF Container
  <2> QED BY <2>1, <2>3, SentinelsDistinct
<1>8. \A u \in Vmid : /\ ct'[u] # Absent <=> ct[u] # Absent
                      /\ ct'[u].by = ct[u].by /\ ct'[u].ip = ct[u].ip
  BY <1>1, <1>6, <1>7
<1>9. \A g \in Host : HostOwns(g)'
  BY <1>1, <1>8 DEF Owned, HostOwns, CreatedBinding, Told
<1>10. ASSUME op'[p] = new PROVE OwnOK(p)'
  <2>1. Told(h, op[p].new, v)' /\ Made(h, v)'
    BY <1>1, <1>2, <1>3, <1>4, <1>8, <1>10, <1>7 DEF OwnOK, Told, Made
  <2> QED BY <1>1, <1>2, <1>3, <1>4, <1>10, <2>1 DEF OwnOK, Ahead, Saving, Changing
<1> QED BY <1>2, <1>3, <1>9, <1>10, OwnStep

LEMMA UnbindOwned ==
  ASSUME IInv, Owned, NEW p \in Process, Unbind(p)
  PROVE  Owned'
<1> DEFINE h == op[p].host
<1>1. /\ At(p, "unbind") /\ bound' = [bound EXCEPT ![h] = Absent] /\ ref' = ref
      /\ ct' = [v \in Vmid |-> IF ct[v] # Absent /\ ct[v].by = h
                               THEN [ct[v] EXCEPT !.by = Foreign] ELSE ct[v]]
      /\ Goto(p, "forget")
  BY DEF Unbind
<1>2. PICK new \in Op : op' = [op EXCEPT ![p] = new] /\ new.cmd = op[p].cmd
  BY <1>1, GotoType DEF Place
<1>3. op[p].cmd = "disconnect" /\ h \in Host /\ operation = p
  BY <1>1, OpFields DEF ProcessOK, PlaceOK, LockOK, At
<1>4. ASSUME NEW v \in Vmid, ct[v] # Absent, ct[v].by = h
      PROVE  ct'[v].ip = ct[v].ip /\ ct'[v].by = Foreign
  BY <1>1, <1>4 DEF IInv, Types, TypeOK, Container
<1>5. \A v \in Vmid : ct[v] = Absent \/ ct[v].by # h => ct'[v] = ct[v]
  BY <1>1
<1>6. bound'[h] = Absent /\ \A g \in Host \ {h} : bound'[g] = bound[g]
  BY <1>1, <1>3 DEF IInv, Types, TypeOK
<1>7. ASSUME NEW g \in Host PROVE HostOwns(g)'
  <2>1. CASE g = h
    BY <1>6, <2>1 DEF HostOwns, CreatedBinding
  <2>2. CASE g # h
    <3>1. HostOwns(g) /\ bound'[g] = bound[g]
      BY <1>6, <2>2 DEF Owned
    <3>2. ASSUME CreatedBinding(bound[g]), ref[g] \in Vmid, ct'[ref[g]] # Absent,
                 ct'[ref[g]].ip = bound[g].ip
          PROVE  ct'[ref[g]].by = g
      BY <1>4, <1>5, <2>2, <3>1, <3>2 DEF HostOwns, Told
    <3> QED BY <1>1, <3>1, <3>2 DEF HostOwns, CreatedBinding, Told
  <2> QED BY <2>1, <2>2
<1> QED BY <1>2, <1>3, <1>7, UnrelatedOwned DEF SetupCommand

LEMMA UnreferenceOwned ==
  ASSUME IInv, Owned, NEW p \in Process, Unreference(p)
  PROVE  Owned'
<1> DEFINE h == op[p].host
<1>1. At(p, "forget") /\ Goto(p, "end") /\ ref' = [ref EXCEPT ![h] = Absent] /\ UNCHANGED <<ct, bound>>
  BY DEF Unreference
<1>2. PICK new \in Op : op' = [op EXCEPT ![p] = new] /\ new.cmd = op[p].cmd
  BY <1>1, GotoType DEF Place
<1>3. op[p].cmd = "disconnect" /\ h \in Host /\ operation = p
  BY <1>1, OpFields DEF ProcessOK, PlaceOK, LockOK, At
<1>4. ref'[h] = Absent /\ \A g \in Host \ {h} : ref'[g] = ref[g]
  BY <1>1, <1>3 DEF IInv, Types, TypeOK
<1>5. \A g \in Host : HostOwns(g)'
  BY <1>1, <1>4, SentinelsDistinct DEF Owned, HostOwns, CreatedBinding, Told
<1> QED BY <1>2, <1>3, <1>5, UnrelatedOwned DEF SetupCommand

LEMMA DestroyOwned ==
  ASSUME IInv, Owned, NEW p \in Process, NEW v \in Vmid, Destroy(p, v)
  PROVE  Owned'
<1>1. At(p, "destroy") /\ ct' = [ct EXCEPT ![v] = Absent] /\ UNCHANGED <<bound, ref>>
  BY DEF Destroy
<1> DEFINE new == [op[p] EXCEPT !.targets = @ \ {v}]
<1>2. op' = [op EXCEPT ![p] = new]
  BY OpFields DEF Destroy
<1>3. new.cmd = op[p].cmd
  BY OpFields
<1> HIDE DEF new
<1>4. op[p].cmd = "uninstall" /\ operation = p
  BY <1>1, OpFields DEF ProcessOK, PlaceOK, LockOK, At
<1>5. \A u \in Vmid : ct'[u] = Absent \/ ct'[u] = ct[u]
  BY <1>1 DEF IInv, Types, TypeOK
<1>6. \A g \in Host : HostOwns(g)'
  BY <1>1, <1>5 DEF Owned, HostOwns, CreatedBinding, Told
<1> QED BY <1>2, <1>3, <1>4, <1>6, UnrelatedOwned DEF SetupCommand

LEMMA DeleteProjectOwned ==
  ASSUME IInv, Owned, NEW p \in Process, DeleteProject(p)
  PROVE  Owned'
<1>1. At(p, "destroy") /\ Goto(p, "end") /\ bound' = [h \in Host |-> Absent]
  BY DEF DeleteProject
<1>2. PICK new \in Op : op' = [op EXCEPT ![p] = new] /\ new.cmd = op[p].cmd
  BY <1>1, GotoType DEF Place
<1>3. op[p].cmd = "uninstall" /\ operation = p
  BY <1>1, OpFields DEF ProcessOK, PlaceOK, LockOK, At
<1>4. \A g \in Host : HostOwns(g)'
  BY <1>1 DEF HostOwns, CreatedBinding
<1> QED BY <1>2, <1>3, <1>4, UnrelatedOwned DEF SetupCommand

\* The container of a platform service has no address of docker create.
LEMMA ProvisionOwned ==
  ASSUME IInv, Owned, NEW p \in Process, Provision(p)
  PROVE  Owned'
<1> DEFINE v == op[p].vmid
           served == [by |-> Platform, ip |-> Elsewhere, stage |-> "running"]
<1>1. /\ At(p, "provision") /\ UNCHANGED <<bound, ref>>
      /\ (ct[v] = Absent /\ ct' = [ct EXCEPT ![v] = served]) \/ ct' = ct
  BY DEF Provision, disk
<1>2. PICK at \in {"record", "end"} : Goto(p, at)
  BY DEF Provision
<1>3. PICK new \in Op : op' = [op EXCEPT ![p] = new] /\ new.cmd = op[p].cmd
  BY <1>2, GotoType DEF Place
<1>4. op[p].cmd = "add"
  BY <1>1, OpFields DEF ProcessOK, PlaceOK, At
<1>5. served.ip = Elsewhere
  OBVIOUS
<1> HIDE DEF served
<1>6. \A u \in Vmid : ct'[u] = ct[u] \/ (ct[u] = Absent /\ ct'[u] = served)
  BY <1>1 DEF IInv, Types, TypeOK
<1>7. Aside
  BY <1>1, <1>5, <1>6 DEF Aside
<1> QED BY <1>3, <1>4, <1>7, UnrelatedOwned DEF SetupCommand

LEMMA RemoveOwned ==
  ASSUME IInv, Owned, NEW v \in Vmid, Remove(v)
  PROVE  Owned'
<1>1. /\ ct' = [ct EXCEPT ![v] = Absent] /\ UNCHANGED <<bound, ref, op>>
      /\ \A q \in Process : op[q].vmid # v
  BY DEF Remove, disk
<1>2. Aside
  BY <1>1 DEF Aside, IInv, Types, TypeOK
<1>3. \A q \in Process : q # Absent /\ OwnOK(q)'
  BY <1>1, <1>2, OthersOwn, SentinelsDistinct
<1> QED BY <1>2, <1>3, HostsAside DEF Owned

-----------------------------------------------------------------------------
LEMMA StepOwned ==
  ASSUME IInv, Owned, NEW p \in Process, Begin(p) \/ Step(p) \/ Fault(p) \/ Crash(p)
  PROVE  Owned'
<1>1. CASE Begin(p)
  BY <1>1, BeginCreateOwned, BeginConnectOwned, BeginOtherOwned, BeginRetryOwned DEF Begin
<1>2. CASE \/ Cancel(p) \/ UnbindRefused(p) \/ Incomplete(p) \/ SaveRefused(p) \/ NoId(p) \/ Fault(p)
           \/ CheckHealth(p) \/ Record(p)
  BY <1>2, QuietStepsOwned
<1>3. CASE Reserve(p) \/ SaveConfig(p) \/ SaveState(p) \/ DeleteProject(p)
  BY <1>3, ReserveOwned, SaveConfigOwned, SaveStateOwned, DeleteProjectOwned
<1>4. CASE \E v \in Vmid : Allocate(p, v) \/ NextId(p, v) \/ Destroy(p, v) \/ DestroyFails(p, v)
  BY <1>4, AllocateOwned, NextIdOwned, DestroyOwned, DestroyFailsOwned
<1>5. CASE Verify(p) \/ (\E done \in BOOLEAN : Create(p, done))
  BY <1>5, VerifyOwned, CreateOwned
<1>6. CASE EnableFeatures(p)
  BY <1>6, SetUpOwned DEF EnableFeatures, Stage
<1>7. CASE StartLxc(p)
  BY <1>7, SetUpOwned DEF StartLxc, Stage
<1>8. CASE Install(p)
  BY <1>8, SetUpOwned DEF Install, Stage
<1>9. CASE BeginDisconnect(p) \/ Unbind(p) \/ Unreference(p) \/ Provision(p)
  BY <1>9, BeginDisconnectOwned, UnbindOwned, UnreferenceOwned, ProvisionOwned
<1>10. CASE End(p) \/ Crash(p)
  BY <1>10, LeaveOwned
<1> QED BY <1>1, <1>2, <1>3, <1>4, <1>5, <1>6, <1>7, <1>8, <1>9, <1>10
        DEF Step, Save, SetupSteps, Disconnect, ServiceAdd, Uninstall

LEMMA NextOwned ==
  ASSUME IInv, Owned, [Next]_vars
  PROVE  Owned'
<1>1. CASE UNCHANGED vars \/ Initialise
  <2>1. UNCHANGED <<ct, bound, ref, op>>
    BY <1>1 DEF vars, Initialise, disk
  <2> QED BY <2>1 DEF Owned, HostOwns, CreatedBinding, OwnOK, Ahead, Saving, Told, Changing, Made, Bindings
<1>2. CASE Next /\ ~Initialise
  BY <1>2, StepOwned, RemoveOwned DEF Next
<1> QED BY <1>1, <1>2

\* The stages of containers change in setup steps only.
LEMMA OnlySetUpChanges ==
  ASSUME IInv, Next, NEW v \in Vmid, ct[v] # Absent, ct'[v] # Absent, ct'[v].stage # ct[v].stage
  PROVE  \E p \in Process : v = op[p].vmid /\ op[p].at \in Changing
<1>0. ct \in [Vmid -> Container \cup {Absent}] /\ ct[v] \in Container
  BY DEF IInv, Types, TypeOK
<1>1. CASE \E u \in Vmid : Remove(u)
  BY <1>0, <1>1 DEF Remove
<1>2. CASE Initialise
  BY <1>2 DEF Initialise
<1>3. CASE \E p \in Process : Begin(p) \/ Step(p) \/ Fault(p) \/ Crash(p)
  <2> PICK p \in Process : Begin(p) \/ Step(p) \/ Fault(p) \/ Crash(p)
    BY <1>3
  <2>1. CASE Begin(p)
    BY <2>1 DEF Begin, BeginCreate, BeginConnect, SelectForDisconnect, BeginUninstall, BeginServiceAdd, BeginRetry
  <2>2. CASE Cancel(p) \/ Reserve(p) \/ Save(p) \/ Fault(p) \/ End(p) \/ Crash(p)
    BY <2>2 DEF Cancel, Reserve, Save, SaveConfig, SaveState, SaveRefused, Fault, End, Crash, Leave
  <2>3. CASE (\E u \in Vmid : Allocate(p, u)) \/ Verify(p) \/ CheckHealth(p)
    BY <2>3 DEF Allocate, Verify, CheckHealth
  <2>4. CASE \E done \in BOOLEAN : Create(p, done)
    BY <1>0, <2>4 DEF Create
  <2>5. CASE EnableFeatures(p) \/ StartLxc(p) \/ Install(p)
    <3>1. op[p].at \in Changing /\ \E s : ct' = [ct EXCEPT ![op[p].vmid].stage = s]
      BY <2>5 DEF EnableFeatures, StartLxc, Install, SetUp, At, Changing
    <3>2. v = op[p].vmid
      BY <1>0, <3>1
    <3> QED BY <3>1, <3>2
  <2>6. CASE Disconnect(p) \/ DeleteProject(p)
    <3>1. [ct[v] EXCEPT !.by = Foreign].stage = ct[v].stage
      BY <1>0 DEF Container
    <3> QED BY <1>0, <2>6, <3>1 DEF Disconnect, BeginDisconnect, Unbind, Unreference, UnbindRefused, DeleteProject
  <2>7. CASE ServiceAdd(p)
    BY <1>0, <2>7 DEF ServiceAdd, NextId, NoId, Provision, Record
  <2>8. CASE (\E u \in Vmid : Destroy(p, u) \/ DestroyFails(p, u)) \/ Incomplete(p)
    BY <1>0, <2>8 DEF Destroy, DestroyFails, Incomplete
  <2> QED BY <2>1, <2>2, <2>3, <2>4, <2>5, <2>6, <2>7, <2>8 DEF Step, SetupSteps, Uninstall
<1> QED BY <1>1, <1>2, <1>3 DEF Next

\* setupCreatedHost (docker-hosts.js) changes only containers that docker create
\* made for the binding at work, also when a retry finds another container at a
\* VMID that was recorded long ago.
THEOREM SetupIsOwners == Spec => SetupTouchesOwn
<1> DEFINE Touching ==
      \A v \in Vmid :
        ct[v] # Absent /\ ct'[v] # Absent /\ ct'[v].stage # ct[v].stage =>
          \E p \in Process : op[p].host = ct[v].by /\ bound[ct[v].by] # Absent
<1>1. ASSUME IInv, Owned, [Next]_vars PROVE [Touching]_vars
  <2> SUFFICES ASSUME Next, NEW v \in Vmid, ct[v] # Absent, ct'[v] # Absent, ct'[v].stage # ct[v].stage
               PROVE  \E p \in Process : op[p].host = ct[v].by /\ bound[ct[v].by] # Absent
    BY <1>1
  <2>1. PICK p \in Process : v = op[p].vmid /\ op[p].at \in Changing
    BY <1>1, OnlySetUpChanges
  <2>2. op[p].cmd \in SetupCommand
    BY <1>1, <2>1, SetupFacts DEF Changing, SetupPlace
  <2>3. Made(op[p].host, v) /\ bound[op[p].host] # Absent
    BY <1>1, <2>1, <2>2 DEF Owned, OwnOK
  <2> QED BY <2>3 DEF Made
<1>2. Init => IInv /\ Owned
  BY InitIInv, InitOwned
<1>3. IInv /\ Owned /\ [Next]_vars => IInv' /\ Owned'
  BY NextIInv, NextOwned
<1> QED BY <1>1, <1>2, <1>3, PTL DEF Spec, SetupTouchesOwn

=============================================================================
