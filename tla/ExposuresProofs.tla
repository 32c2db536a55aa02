-------------------------- MODULE ExposuresProofs ---------------------------
(***************************************************************************)
(* Proofs about Exposures that rest on the invariant of ExposuresCalls.    *)
(* No failure and no rollback leaves a host open that nomina.yaml does not *)
(* know (NoAccessIsUnrecorded), and no command cuts its own caller off     *)
(* (CallersSurvive).  Then CalmInv, the invariant behind ExposuresServed,  *)
(* and what each call leaves of it.                                        *)
(***************************************************************************)
EXTENDS ExposuresCalls

-----------------------------------------------------------------------------
(* No unrecorded access *)

LastCallOf(s) == s[Len(s)].call

\* Where the plan of a command comes from, and what it is about.
PlanOK ==
  op.todo # <<>> =>
    /\ op.cmd \in Command /\ op.plan = PlanOf(op.cmd)
    /\ op.cmd.do = "publish" =>
         /\ SameSlot(op.cmd.name, op.cmd.wish)
         /\ \A i \in DOMAIN op.todo : op.todo[i].name = op.cmd.name
    /\ op.cmd.do \in {"activate", "replace"} => SshOf(inventory) # {}

PublishesSsh == op.cmd.do = "publish" /\ op.cmd.wish.protocol = "ssh"

\* Only some commands authorize a key, and a publication that does is recorded at its end.
OpenOK ==
  (\E i \in DOMAIN op.todo : op.todo[i].call \in Openers) =>
    \/ op.cmd.do \in {"activate", "replace"}
    \/ PublishesSsh /\ LastCallOf(op.todo) = "save"

\* A removal closes the door first.
RemoveOK ==
  op.todo # <<>> /\ op.cmd.do = "remove" /\ op.cmd.name \in SshOf(inventory) =>
    host.authorized = NoKey \/ First.call = "revoke-keys"

\* The calls of a publication after the key is authorized: all of the try, up to the record.
Publishing ==
  /\ PublishesSsh /\ LastCallOf(op.todo) = "save"
  /\ \A i \in DOMAIN op.todo :
       /\ op.todo[i].call \notin Starters
       /\ op.todo[i].block \in PublishBlocks \/ op.todo[i].call = "save"

\* The revocation at place i, behind nothing but what undoes a forwarding.
RevokesAt(i) ==
  /\ i \in DOMAIN op.todo /\ op.todo[i].call = "revoke-keys"
  /\ i # 1 => op.todo[i].block # "undo"
  /\ \A j \in 1..(i - 1) : op.todo[j].block = "undo" /\ op.todo[j].call \notin Starters \cup {"relocate"}

Revoking == \E i \in DOMAIN op.todo : RevokesAt(i)

AccessOK ==
  count.crashes = 0 /\ host.authorized # NoKey /\ SshOf(inventory) = {} =>
    op.todo # <<>> /\ (Publishing \/ Revoking)

CountType == [commands : Nat, logins : Nat, faults : Nat, crashes : Nat]

JInv == count \in CountType /\ PlanOK /\ OpenOK /\ RemoveOK /\ AccessOK

\* What one call may do to the keys and to nomina.yaml.
KeyRule ==
  /\ host'.authorized \in {host.authorized, NoKey} \/ First.call = "authorize"
  /\ First.call = "revoke-keys" => host'.authorized = NoKey
  /\ inventory' = inventory

\* The calls that go: one, or the rest of a block that fails softly.
Drops ==
  \E m \in 1..Len(op.todo) :
    /\ Len(op'.todo) = Len(op.todo) - m
    /\ \A i \in 1..Len(op'.todo) : op'.todo[i] = op.todo[i + m]
    /\ m = 1 \/ (First.block \in SoftBlocks /\ First.call # "authorize"
                   /\ \A j \in 1..m : op.todo[j].block = First.block)

\* The clean-up of a publication that failed.
RollsBack ==
  /\ First.block \notin SoftBlocks /\ First.call # "authorize"
  /\ \A i \in DOMAIN op'.todo : op'.todo[i].name = First.name /\ op'.todo[i].call \notin Openers
  /\ First.block = "host" \/ NewSsh(First) => Revoking'
  /\ \/ First.block = "host" \/ NewSsh(First)
     \/ \A i \in DOMAIN op'.todo :
          First.block \in {"relocation", "forward"} /\ op'.todo[i].call \notin Nameless
                                                   /\ op'.todo[i].block = "undo"

\* What a call consists of.
Made(list) ==
  \A i \in DOMAIN list :
    /\ list[i].name = First.name /\ list[i].call \notin Ends
    /\ First.call \notin Starters =>
         /\ list[i].call \notin Openers \cup Nameless \cup {"relocate"}
         /\ list[i].block = First.block \/ (First.call = "relocate" /\ list[i].block = "relocation")

Compound == {"relocate", "restore", "unforward", "enable-host", "activate-key", "replace-key"}

Expands == /\ First.call \in Compound
           /\ \E list \in Seq(CallRecord) : Made(list) /\ op'.todo = list \o Tail(op.todo)

GoesOn == /\ Drops \/ RollsBack \/ Expands
          /\ op'.todo \in Seq(CallRecord)
          /\ op'.cmd = op.cmd /\ op'.plan = op.plan /\ op'.from = op.from
          /\ count' \in CountType /\ count'.crashes = count.crashes

-----------------------------------------------------------------------------
(* Preservation *)

LEMMA TodoFacts ==
  ASSUME IInv, op.todo # <<>>
  PROVE  /\ op.todo \in Seq(CallRecord) /\ Len(op.todo) \in Nat \ {0} /\ DOMAIN op.todo = 1..Len(op.todo)
         /\ First = op.todo[1]
         /\ Tail(op.todo) \in Seq(CallRecord) /\ Len(Tail(op.todo)) = Len(op.todo) - 1
         /\ \A i \in 1..Len(Tail(op.todo)) : Tail(op.todo)[i] = op.todo[i + 1]
<1>1. op.todo \in Seq(CallRecord)
  BY DEF IInv, CommandOK, OpType
<1> QED BY <1>1 DEF First

\* Calls that have gone.
LEMMA DropsPlan ==
  ASSUME IInv, PlanOK, OpenOK, op.todo # <<>>, Drops, GoesOn, inventory' = inventory
  PROVE  PlanOK' /\ OpenOK'
<1>1. PICK m \in 1..Len(op.todo) :
        /\ Len(op'.todo) = Len(op.todo) - m
        /\ \A i \in 1..Len(op'.todo) : op'.todo[i] = op.todo[i + m]
  BY DEF Drops
<1>2. Len(op.todo) \in Nat /\ DOMAIN op.todo = 1..Len(op.todo)
  BY TodoFacts
<1>3. DOMAIN op'.todo = 1..Len(op'.todo) /\ op'.cmd = op.cmd /\ op'.plan = op.plan
  BY DEF GoesOn
<1>4. ASSUME NEW i \in DOMAIN op'.todo
      PROVE  i + m \in DOMAIN op.todo /\ op'.todo[i] = op.todo[i + m]
  <2>1. i \in 1..Len(op'.todo)
    BY <1>3
  <2>2. op'.todo[i] = op.todo[i + m]
    BY <1>1, <2>1
  <2> DEFINE k == Len(op.todo)
             l == Len(op'.todo)
  <2>3. k \in Nat /\ m \in 1..k /\ l = k - m /\ i \in 1..l
    BY <1>1, <1>2, <2>1
  <2> HIDE DEF k, l
  <2>4. i + m \in 1..k
    BY <2>3
  <2> QED BY <1>2, <2>2, <2>4 DEF k
<1>5. op'.todo # <<>> => LastCallOf(op'.todo) = LastCallOf(op.todo)
  <2>1. SUFFICES ASSUME op'.todo # <<>> PROVE LastCallOf(op'.todo) = LastCallOf(op.todo)
    OBVIOUS
  <2>2. Len(op'.todo) \in 1..Len(op'.todo) /\ Len(op'.todo) + m = Len(op.todo)
    BY <1>1, <1>2, <2>1 DEF GoesOn
  <2> QED BY <1>1, <2>2 DEF LastCallOf
<1>6. PlanOK'
  <2>1. PlanOf(op.cmd)' = PlanOf(op.cmd)
    BY <1>3 DEF PlanOf
  <2>2. SameSlot(op.cmd.name, op.cmd.wish)' = SameSlot(op.cmd.name, op.cmd.wish)
    BY <1>3 DEF SameSlot
  <2>3. SshOf(inventory)' = SshOf(inventory)
    BY DEF SshOf, Of
  <2> QED BY <1>3, <1>4, <2>1, <2>2, <2>3 DEF PlanOK
<1>7. OpenOK'
  <2>1. PublishesSsh' = PublishesSsh
    BY <1>3 DEF PublishesSsh
  <2>2. SUFFICES ASSUME NEW i \in DOMAIN op'.todo, op'.todo[i].call \in Openers
                 PROVE  \/ op'.cmd.do \in {"activate", "replace"}
                        \/ PublishesSsh' /\ LastCallOf(op'.todo) = "save"
    BY DEF OpenOK
  <2>3. op'.todo # <<>>
    BY <2>2
  <2> QED BY <1>3, <1>4, <1>5, <2>1, <2>2, <2>3 DEF OpenOK
<1> QED BY <1>6, <1>7

\* The door stays closed, or is closed by the next call.
LEMMA DropsRemove ==
  ASSUME IInv, OpenOK, RemoveOK, op.todo # <<>>, GoesOn, KeyRule
  PROVE  op'.cmd.do = "remove" /\ op'.cmd.name \in SshOf(inventory') => host'.authorized = NoKey
<1> SUFFICES ASSUME op'.cmd.do = "remove", op'.cmd.name \in SshOf(inventory')
             PROVE  host'.authorized = NoKey
  OBVIOUS
<1>1. op.cmd.do = "remove" /\ op.cmd.name \in SshOf(inventory)
  BY DEF GoesOn, KeyRule, SshOf, Of
<1>2. First.call # "authorize"
  <2>1. 1 \in DOMAIN op.todo /\ First = op.todo[1]
    BY TodoFacts
  <2> QED BY <1>1, <2>1 DEF OpenOK, PublishesSsh, Openers
<1> QED BY <1>1, <1>2 DEF RemoveOK, KeyRule

\* What the next call authorizes belongs to a publication, and the rest of its try follows.
LEMMA Authorizes ==
  ASSUME IInv, PlanOK, OpenOK, op.todo # <<>>, First.call = "authorize", Drops, GoesOn,
         SshOf(inventory) = {}
  PROVE  op'.todo # <<>> /\ Publishing'
<1>1. PICK m \in 1..Len(op.todo) :
        /\ m = 1 /\ Len(op'.todo) = Len(op.todo) - m
        /\ \A i \in 1..Len(op'.todo) : op'.todo[i] = op.todo[i + m]
  BY DEF Drops
<1>2. /\ Len(op.todo) \in Nat /\ DOMAIN op.todo = 1..Len(op.todo)
      /\ 1 \in DOMAIN op.todo /\ First = op.todo[1]
  BY TodoFacts
<1>3. DOMAIN op'.todo = 1..Len(op'.todo) /\ op'.cmd = op.cmd
  BY DEF GoesOn
<1>4. PublishesSsh /\ LastCallOf(op.todo) = "save"
  BY <1>2 DEF OpenOK, PlanOK, Openers
<1>5. Len(op.todo) # 1
  BY <1>2, <1>4 DEF LastCallOf
<1>6. op'.todo # <<>> /\ LastCallOf(op'.todo) = "save"
  <2>1. Len(op'.todo) \in 1..Len(op'.todo) /\ Len(op'.todo) + m = Len(op.todo)
    <3>1. Len(op.todo) \in Nat /\ Len(op.todo) >= 1 /\ Len(op.todo) # 1
      BY <1>2, <1>5
    <3> DEFINE k == Len(op.todo)
               l == Len(op'.todo)
    <3>2. m = 1 /\ l = k - m
      BY <1>1
    <3>3. k \in Nat /\ k >= 1 /\ k # 1
      BY <3>1
    <3> HIDE DEF k, l
    <3>4. l \in 1..l /\ l + m = k
      BY <3>2, <3>3
    <3> QED BY <3>4 DEF k, l
  <2> QED BY <1>1, <1>4, <2>1 DEF LastCallOf
<1>7. ASSUME NEW i \in DOMAIN op'.todo
      PROVE  op'.todo[i].call \notin Starters /\ (op'.todo[i].block \in PublishBlocks \/ op'.todo[i].call
             = "save")
  <2>1. i + 1 \in 1..Len(op.todo) /\ 1 \in 1..Len(op.todo) /\ 1 < i + 1 /\ op'.todo[i] = op.todo[i + 1]
    BY <1>1, <1>2, <1>3
  <2>2. Later(op.todo[1], op.todo[i + 1])
    BY <2>1 DEF IInv, TodoOK, Ordered
  <2> QED BY <1>2, <2>1, <2>2 DEF Later, Openers
<1>8. PublishesSsh'
  BY <1>3, <1>4 DEF PublishesSsh
<1> QED BY <1>6, <1>7, <1>8 DEF Publishing

LEMMA DropsAccess ==
  ASSUME IInv, PlanOK, OpenOK, op.todo # <<>>, Drops, GoesOn, KeyRule, First.call \notin Ends,
         AccessOK
  PROVE  AccessOK'
<1> SUFFICES ASSUME count'.crashes = 0, host'.authorized # NoKey, SshOf(inventory') = {}
             PROVE  op'.todo # <<>> /\ (Publishing' \/ Revoking')
  BY DEF AccessOK, SshOf, Of
<1>1. SshOf(inventory) = {} /\ count.crashes = 0
  BY DEF KeyRule, GoesOn, SshOf, Of
<1>2. CASE First.call = "authorize"
  BY <1>1, <1>2, Authorizes
<1>3. CASE First.call # "authorize"
  <2>1. host.authorized # NoKey /\ First.call # "revoke-keys"
    BY <1>3 DEF KeyRule
  <2>2. Publishing \/ Revoking
    BY <1>1, <2>1 DEF AccessOK
  <2>3. PICK m \in 1..Len(op.todo) :
          /\ Len(op'.todo) = Len(op.todo) - m
          /\ \A i \in 1..Len(op'.todo) : op'.todo[i] = op.todo[i + m]
          /\ m = 1 \/ (First.block \in SoftBlocks /\ \A j \in 1..m : op.todo[j].block = First.block)
    BY DEF Drops
  <2>4. /\ Len(op.todo) \in Nat /\ DOMAIN op.todo = 1..Len(op.todo)
        /\ 1 \in DOMAIN op.todo /\ First = op.todo[1]
    BY TodoFacts
  <2>5. DOMAIN op'.todo = 1..Len(op'.todo) /\ op'.cmd = op.cmd
    BY DEF GoesOn
  <2>6. CASE Publishing
    <3>1. First.call # "save" /\ First.block \in PublishBlocks
      BY <2>4, <2>6 DEF Publishing, Ends
    <3>2. m = 1
      BY <2>3, <3>1 DEF SoftBlocks, PublishBlocks
    <3>3. Len(op.todo) # 1
      BY <2>4, <2>6, <3>1 DEF Publishing, LastCallOf
    <3>4. op'.todo # <<>> /\ LastCallOf(op'.todo) = "save"
      <4>1. Len(op'.todo) \in 1..Len(op'.todo) /\ Len(op'.todo) + m = Len(op.todo)
        <5>1. Len(op.todo) \in Nat /\ Len(op.todo) >= 1 /\ Len(op.todo) # 1
          BY <2>4, <3>3
        <5> DEFINE k == Len(op.todo)
                   l == Len(op'.todo)
        <5>2. m = 1 /\ l = k - m
          BY <2>3, <3>2
        <5>3. k \in Nat /\ k >= 1 /\ k # 1
          BY <5>1
        <5> HIDE DEF k, l
        <5>4. l \in 1..l /\ l + m = k
          BY <5>2, <5>3
        <5> QED BY <5>4 DEF k, l
      <4>2. op'.todo[Len(op'.todo)] = op.todo[Len(op.todo)]
        BY <2>3, <4>1
      <4>3. op.todo[Len(op.todo)].call = "save"
        BY <2>6 DEF LastCallOf, Publishing
      <4>4. op'.todo # <<>>
        BY <4>1
      <4> QED BY <4>2, <4>3, <4>4 DEF LastCallOf
    <3>5. \A i \in DOMAIN op'.todo : i + m \in DOMAIN op.todo /\ op'.todo[i] = op.todo[i + m]
      BY SMTT(30), <2>3, <2>4, <2>5
    <3> QED BY <2>5, <2>6, <3>4, <3>5 DEF Publishing, PublishesSsh
  <2>7. CASE Revoking
    <3>1. PICK i \in DOMAIN op.todo : RevokesAt(i)
      BY <2>7 DEF Revoking
    <3>2. i # 1
      BY <2>1, <2>4, <3>1 DEF RevokesAt
    <3>3. First.block = "undo" /\ op.todo[i].block # "undo"
      BY <2>4, <3>1, <3>2 DEF RevokesAt
    <3>4. m < i
      <4>1. CASE m = 1
        BY <2>4, <3>2, <4>1
      <4>2. CASE m # 1
        <5>1. \A j \in 1..m : op.todo[j].block = "undo"
          BY <2>3, <3>3, <4>2
        <5> QED BY <2>4, <3>3, <5>1
      <4> QED BY <4>1, <4>2
    <3>5. i - m \in DOMAIN op'.todo /\ (i - m) + m = i /\ op'.todo[i - m] = op.todo[i]
      <4> DEFINE k == Len(op.todo)
                 l == Len(op'.todo)
      <4>1. k \in Nat /\ m \in 1..k /\ l = k - m /\ i \in 1..k
        BY <2>3, <2>4
      <4> HIDE DEF k, l
      <4>2. i - m \in 1..l /\ (i - m) + m = i
        BY <3>4, <4>1
      <4> QED BY <2>3, <2>5, <4>2 DEF l
    <3>6. ASSUME NEW j \in 1..((i - m) - 1)
          PROVE  op'.todo[j].block = "undo" /\ op'.todo[j].call \notin Starters \cup {"relocate"}
      <4>1. j + m \in 1..(i - 1) /\ op'.todo[j] = op.todo[j + m]
        BY <2>3, <2>4, <3>4
      <4> QED BY <3>1, <4>1 DEF RevokesAt
    <3>7. RevokesAt(i - m)'
      BY <3>1, <3>2, <3>5, <3>6 DEF RevokesAt
    <3> QED BY <3>5, <3>7 DEF Revoking
  <2> QED BY <2>2, <2>6, <2>7
<1> QED BY <1>2, <1>3

LEMMA RollsBackAll ==
  ASSUME IInv, PlanOK, OpenOK, op.todo # <<>>, RollsBack, GoesOn, KeyRule, First.call \notin Ends,
         AccessOK
  PROVE  PlanOK' /\ OpenOK' /\ AccessOK'
<1>1. 1 \in DOMAIN op.todo /\ First = op.todo[1]
  BY TodoFacts
<1>2. op'.cmd = op.cmd /\ op'.plan = op.plan /\ inventory' = inventory
  BY DEF GoesOn, KeyRule
<1>3. PlanOK'
  <2>1. PlanOf(op.cmd)' = PlanOf(op.cmd)
    BY <1>2 DEF PlanOf
  <2>2. SameSlot(op.cmd.name, op.cmd.wish)' = SameSlot(op.cmd.name, op.cmd.wish)
    BY <1>2 DEF SameSlot
  <2>3. SshOf(inventory)' = SshOf(inventory)
    BY <1>2 DEF SshOf, Of
  <2> QED BY <1>1, <1>2, <2>1, <2>2, <2>3 DEF PlanOK, RollsBack
<1>4. OpenOK'
  BY DEF OpenOK, RollsBack
<1>5. AccessOK'
  <2> SUFFICES ASSUME count'.crashes = 0, host'.authorized # NoKey, SshOf(inventory') = {}
               PROVE  op'.todo # <<>> /\ (Publishing' \/ Revoking')
    BY DEF AccessOK, SshOf, Of
  <2>1. SshOf(inventory) = {} /\ count.crashes = 0
    BY DEF KeyRule, GoesOn, SshOf, Of
  <2>2. host.authorized # NoKey /\ First.call # "revoke-keys"
    BY DEF KeyRule, RollsBack
  <2>3. Publishing \/ Revoking
    BY <2>1, <2>2 DEF AccessOK
  <2>4. ~Revoking
    <3>1. SUFFICES ASSUME NEW i \in DOMAIN op.todo, RevokesAt(i) PROVE FALSE
      BY DEF Revoking
    <3>2. i # 1
      BY <1>1, <2>2, <3>1 DEF RevokesAt
    <3>3. 1 \in 1..(i - 1)
      <4>1. DOMAIN op.todo = 1..Len(op.todo) /\ Len(op.todo) \in Nat
        BY TodoFacts
      <4> QED BY <3>2, <4>1
    <3>4. First.block = "undo"
      BY <1>1, <3>1, <3>3 DEF RevokesAt
    <3> QED BY <3>4 DEF RollsBack, SoftBlocks
  <2>5. Publishing
    BY <2>3, <2>4
  <2>6. First.call # "save" /\ First.block \in PublishBlocks
    BY <1>1, <2>5 DEF Publishing, Ends
  <2>7. CASE First.block = "host"
    BY <2>7 DEF RollsBack, Revoking
  <2>8. CASE First.block # "host"
    <3>1. op.cmd \in Command /\ SameSlot(op.cmd.name, op.cmd.wish) /\ First.name = op.cmd.name
      BY <1>1, <2>5 DEF PlanOK, Publishing, PublishesSsh
    <3>2. op.cmd.name \in Name
      BY <2>5, <3>1, CommandFields DEF Publishing, PublishesSsh
    <3>3. inventory[op.cmd.name] = Absent
      BY <2>1, <2>5, <3>1, <3>2 DEF SameSlot, SshOf, Of, Publishing, PublishesSsh
    <3>4. NewSsh(First)
      BY <2>5, <2>6, <2>8, <3>1, <3>3 DEF NewSsh, Publishing, PublishesSsh, PublishBlocks
    <3> QED BY <3>4 DEF RollsBack, Revoking
  <2> QED BY <2>7, <2>8
<1> QED BY <1>3, <1>4, <1>5

\* The calls that a compound call consists of, before the rest.
LEMMA ExpandsTodo ==
  ASSUME IInv, op.todo # <<>>, Expands
  PROVE  \E list \in Seq(CallRecord) :
           /\ Made(list) /\ Len(list) \in Nat /\ Len(op'.todo) = Len(list) + (Len(op.todo) - 1)
           /\ \A i \in 1..Len(list) : i \in DOMAIN list /\ op'.todo[i] = list[i]
           /\ \A i \in 2..Len(op.todo) : op'.todo[Len(list) + i - 1] = op.todo[i]
           /\ \A i \in 1..Len(op'.todo) :
                \/ i \in DOMAIN list /\ op'.todo[i] = list[i]
                \/ i - Len(list) + 1 \in 2..Len(op.todo) /\ op'.todo[i] = op.todo[i - Len(list) + 1]
<1>1. PICK list \in Seq(CallRecord) : Made(list) /\ op'.todo = list \o Tail(op.todo)
  BY DEF Expands
<1> DEFINE rest == Tail(op.todo)
           k == Len(op.todo)
           n == Len(list)
<1>2. /\ rest \in Seq(CallRecord) /\ k \in Nat /\ k >= 1 /\ Len(rest) = k - 1
      /\ \A i \in 1..Len(rest) : rest[i] = op.todo[i + 1]
  BY TodoFacts
<1>3. n \in Nat /\ DOMAIN list = 1..n /\ list \in Seq(CallRecord)
  OBVIOUS
<1> HIDE DEF rest
<1>4. /\ Len(list \o rest) = Len(list) + Len(rest)
      /\ \A i \in 1..(Len(list) + Len(rest)) :
           (list \o rest)[i] = IF i <= Len(list) THEN list[i] ELSE rest[i - Len(list)]
  <2>1. list \in Seq(CallRecord) /\ rest \in Seq(CallRecord)
    BY <1>2
  <2> QED BY ONLY <2>1, ConcatProperties
<1>5. /\ Len(op'.todo) = n + (k - 1)
      /\ \A i \in 1..(n + (k - 1)) : op'.todo[i] = IF i <= n THEN list[i] ELSE rest[i - n]
  BY <1>1, <1>2, <1>4 DEF rest
<1> HIDE DEF k, n
<1>6. \A i \in 1..n : i \in DOMAIN list /\ op'.todo[i] = list[i]
  BY <1>2, <1>3, <1>5
<1>7. \A i \in 2..k : op'.todo[n + i - 1] = op.todo[i]
  <2> TAKE i \in 2..k
  <2>1. n + i - 1 \in 1..(n + (k - 1)) /\ ~(n + i - 1 <= n) /\ (n + i - 1) - n = i - 1
        /\ i - 1 \in 1..(k - 1) /\ (i - 1) + 1 = i
    BY <1>2, <1>3
  <2>2. op'.todo[n + i - 1] = rest[i - 1] /\ rest[i - 1] = op.todo[(i - 1) + 1]
    BY <1>2, <1>5, <2>1
  <2> QED BY <2>1, <2>2
<1>8. ASSUME NEW i \in 1..(n + (k - 1))
      PROVE  \/ i \in DOMAIN list /\ op'.todo[i] = list[i]
             \/ i - n + 1 \in 2..k /\ op'.todo[i] = op.todo[i - n + 1]
  <2>1. CASE i <= n
    BY <1>3, <1>5, <2>1
  <2>2. CASE ~(i <= n)
    <3>1. i - n \in 1..(k - 1) /\ i - n + 1 \in 2..k /\ (i - n) + 1 = i - n + 1
      BY <1>2, <1>3, <2>2
    <3> QED BY <1>2, <1>5, <2>2, <3>1
  <2> QED BY <2>1, <2>2
<1> QED BY <1>1, <1>3, <1>5, <1>6, <1>7, <1>8 DEF k, n

LEMMA ExpandsAll ==
  ASSUME IInv, PlanOK, OpenOK, op.todo # <<>>, Expands, GoesOn, KeyRule, AccessOK
  PROVE  PlanOK' /\ OpenOK' /\ AccessOK'
<1>1. /\ 1 \in DOMAIN op.todo /\ First = op.todo[1] /\ Len(op.todo) \in Nat \ {0}
      /\ DOMAIN op.todo = 1..Len(op.todo)
  BY TodoFacts
<1>2. /\ op'.cmd = op.cmd /\ op'.plan = op.plan /\ inventory' = inventory
      /\ DOMAIN op'.todo = 1..Len(op'.todo)
  BY DEF GoesOn, KeyRule
<1> DEFINE k == Len(op.todo)
<1>3. PICK list \in Seq(CallRecord) :
        /\ Made(list) /\ Len(list) \in Nat /\ Len(op'.todo) = Len(list) + (k - 1)
        /\ \A i \in 1..Len(list) : i \in DOMAIN list /\ op'.todo[i] = list[i]
        /\ \A i \in 2..k : op'.todo[Len(list) + i - 1] = op.todo[i]
        /\ \A i \in 1..Len(op'.todo) :
             \/ i \in DOMAIN list /\ op'.todo[i] = list[i]
             \/ i - Len(list) + 1 \in 2..k /\ op'.todo[i] = op.todo[i - Len(list) + 1]
  BY ExpandsTodo
<1> DEFINE n == Len(list)
<1>4. \A i \in DOMAIN op'.todo :
        \/ \E j \in DOMAIN list : op'.todo[i] = list[j]
        \/ \E j \in 2..k : op'.todo[i] = op.todo[j]
  BY <1>2, <1>3
<1>5. \A j \in 2..k : j \in DOMAIN op.todo
  BY <1>1
<1> HIDE DEF k, n
<1>6. PlanOK'
  <2>1. PlanOf(op.cmd)' = PlanOf(op.cmd)
    BY <1>2 DEF PlanOf
  <2>2. SameSlot(op.cmd.name, op.cmd.wish)' = SameSlot(op.cmd.name, op.cmd.wish)
    BY <1>2 DEF SameSlot
  <2>3. SshOf(inventory)' = SshOf(inventory)
    BY <1>2 DEF SshOf, Of
  <2>4. ASSUME op.cmd.do = "publish", NEW i \in DOMAIN op'.todo
        PROVE  op'.todo[i].name = op.cmd.name
    <3>1. \A j \in DOMAIN op.todo : op.todo[j].name = op.cmd.name
      BY <2>4 DEF PlanOK
    <3>2. \A j \in DOMAIN list : list[j].name = op.cmd.name
      BY <1>1, <1>3, <3>1 DEF Made
    <3> QED BY <1>4, <1>5, <3>1, <3>2
  <2>5. SUFFICES ASSUME op'.todo # <<>> PROVE PlanOK'
    BY DEF PlanOK
  <2>6. /\ op.cmd \in Command /\ op.plan = PlanOf(op.cmd)
        /\ op.cmd.do = "publish" => SameSlot(op.cmd.name, op.cmd.wish)
        /\ op.cmd.do \in {"activate", "replace"} => SshOf(inventory) # {}
    BY DEF PlanOK
  <2>7. op'.cmd \in Command /\ op'.plan = PlanOf(op.cmd)'
    BY <1>2, <2>1, <2>6
  <2>8. op'.cmd.do = "publish" =>
          /\ SameSlot(op.cmd.name, op.cmd.wish)'
          /\ \A i \in DOMAIN op'.todo : op'.todo[i].name = op'.cmd.name
    BY <1>2, <2>2, <2>4, <2>6
  <2> QED BY <1>2, <2>3, <2>6, <2>7, <2>8 DEF PlanOK
<1>7. LastCallOf(op.todo) = "save" =>
        Len(op'.todo) \in Nat /\ Len(op'.todo) # 0 /\ LastCallOf(op'.todo) = "save"
  <2>1. SUFFICES ASSUME LastCallOf(op.todo) = "save"
                 PROVE  Len(op'.todo) \in Nat /\ Len(op'.todo) # 0 /\ LastCallOf(op'.todo) = "save"
    OBVIOUS
  <2>2. k \in Nat /\ k # 0 /\ op.todo[k].call = "save"
    BY <1>1, <2>1 DEF k, LastCallOf
  <2>3. k # 1
    BY <1>1, <2>2 DEF Expands, Compound
  <2>4. n \in Nat /\ k \in 2..k /\ n + k - 1 = n + (k - 1) /\ n + (k - 1) \in Nat /\ n + (k - 1) # 0
    BY <1>3, <2>2, <2>3 DEF n
  <2>5. op'.todo[n + k - 1] = op.todo[k] /\ Len(op'.todo) = n + (k - 1)
    BY <1>3, <2>4 DEF n
  <2> QED BY <2>2, <2>4, <2>5 DEF LastCallOf
<1>8. OpenOK'
  <2>1. SUFFICES ASSUME NEW i \in DOMAIN op'.todo, op'.todo[i].call \in Openers
                 PROVE  \/ op'.cmd.do \in {"activate", "replace"}
                        \/ PublishesSsh' /\ LastCallOf(op'.todo) = "save"
    BY DEF OpenOK
  <2>2. \E j \in DOMAIN op.todo : op.todo[j].call \in Openers
    BY ZenonT(40), <1>1, <1>3, <1>4, <1>5, <2>1 DEF Made, Openers
  <2>3. op.cmd.do \in {"activate", "replace"} \/ (PublishesSsh /\ LastCallOf(op.todo) = "save")
    BY <2>2 DEF OpenOK
  <2>4. PublishesSsh => PublishesSsh'
    BY <1>2 DEF PublishesSsh
  <2> QED BY <1>2, <1>7, <2>3, <2>4
<1>9. AccessOK'
  <2> SUFFICES ASSUME count'.crashes = 0, host'.authorized # NoKey, SshOf(inventory') = {}
               PROVE  op'.todo # <<>> /\ (Publishing' \/ Revoking')
    BY DEF AccessOK, SshOf, Of
  <2>1. SshOf(inventory) = {} /\ count.crashes = 0
    BY DEF KeyRule, GoesOn, SshOf, Of
  <2>2. host.authorized # NoKey /\ First.call # "revoke-keys"
    BY DEF KeyRule, Expands, Compound, Starters
  <2>3. Publishing \/ Revoking
    BY <2>1, <2>2 DEF AccessOK
  <2>4. CASE Publishing
    <3>1. First.block \in PublishBlocks /\ First.call \notin Starters
      BY <1>1, <2>4 DEF Publishing, Expands, Compound, Starters
    <3>2. First.call = "relocate"
      <4>1. First \in CallType(N_, S_)
        BY FirstFacts DEF IInv, FirstOK, RestOK
      <4> QED BY <3>1, <4>1 DEF Expands, Compound, Starters, CallType, PublishBlocks, KeyCalls,
                 RelocationCalls, ForwardCalls, SshCalls
    <3>3. \A i \in DOMAIN list :
            list[i].call \notin Starters /\ list[i].block \in PublishBlocks
      BY <1>3, <3>1, <3>2 DEF Made, Openers, PublishBlocks
    <3>4. \A i \in DOMAIN op'.todo :
            /\ op'.todo[i].call \notin Starters
            /\ op'.todo[i].block \in PublishBlocks \/ op'.todo[i].call = "save"
      BY <1>4, <1>5, <2>4, <3>3 DEF Publishing
    <3>5. op'.todo # <<>> /\ LastCallOf(op'.todo) = "save"
      BY <1>7, <2>4 DEF Publishing
    <3> QED BY <1>2, <2>4, <3>4, <3>5 DEF Publishing, PublishesSsh
  <2>5. CASE Revoking
    <3>1. PICK i \in DOMAIN op.todo : RevokesAt(i)
      BY <2>5 DEF Revoking
    <3>2. i # 1
      BY <1>1, <2>2, <3>1 DEF RevokesAt
    <3>3. i \in 2..k /\ 1 \in 1..(i - 1)
      BY <1>1, <3>2 DEF k
    <3>4. /\ First.block = "undo" /\ First.call \notin Starters \cup {"relocate"}
          /\ op.todo[i].block # "undo"
      BY <1>1, <3>1, <3>2, <3>3 DEF RevokesAt
    <3>5. \A j \in DOMAIN list : list[j].block = "undo" /\ list[j].call \notin Starters \cup {"relocate"}
      BY <1>3, <3>4 DEF Made, Openers
    <3> DEFINE m == n + i - 1
    <3>7. n \in Nat /\ k \in Nat /\ m \in 1..(n + (k - 1))
      BY <1>1, <1>3, <3>3 DEF n, k
    <3>8. m \in DOMAIN op'.todo /\ op'.todo[m] = op.todo[i]
      BY <1>2, <1>3, <3>3, <3>7 DEF n
    <3>9. ASSUME NEW j \in 1..(m - 1)
          PROVE  op'.todo[j].block = "undo" /\ op'.todo[j].call \notin Starters \cup {"relocate"}
      <4>1. j \in 1..Len(op'.todo)
        BY <1>3, <3>7 DEF n
      <4>2. CASE j \in DOMAIN list /\ op'.todo[j] = list[j]
        BY <3>5, <4>2
      <4>3. CASE j - n + 1 \in 2..k /\ op'.todo[j] = op.todo[j - n + 1]
        <5>1. j - n + 1 \in 1..(i - 1)
          BY <3>3, <3>7, <4>3
        <5> QED BY <3>1, <4>3, <5>1 DEF RevokesAt
      <4> QED BY <1>3, <4>1, <4>2, <4>3 DEF n
    <3> HIDE DEF m
    <3>10. RevokesAt(m)'
      BY <3>1, <3>4, <3>8, <3>9 DEF RevokesAt
    <3>11. op'.todo # <<>>
      BY <1>2, <3>8
    <3> QED BY <3>8, <3>10, <3>11 DEF Revoking
  <2> QED BY <2>3, <2>4, <2>5
<1> QED BY <1>6, <1>8, <1>9

-----------------------------------------------------------------------------
(* How the calls of a command go on *)

\* Calls about the exposure of the next one.
MadeOf(verbs, blocks) ==
  {t \in CallRecord : t.call \in verbs /\ t.name = First.name /\ t.block \in blocks}

LEMMA PartMade ==
  ASSUME IInv, op.todo # <<>>, NEW verbs \in SUBSET Verb, NEW calls \in Seq(verbs),
         NEW block \in Block, NEW blocks, block \in blocks
  PROVE  /\ Part(calls, block) \in Seq(MadeOf(verbs, blocks))
         /\ Len(Part(calls, block)) = Len(calls)
         /\ \A i \in 1..Len(calls) : Part(calls, block)[i].call = calls[i]
<1> DEFINE T == MadeOf(verbs, blocks)
           list == Part(calls, block)
<1>1. First \in CallRecord
  <2>1. 1 \in 1..Len(op.todo) /\ First = op.todo[1] /\ op.todo \in Seq(CallRecord)
    BY TodoFacts
  <2> QED BY <2>1
<1>2. First.name \in Name \cup {Absent} /\ First.to \in Domain
  BY <1>1 DEF CallRecord
<1>3. ASSUME NEW c \in verbs
      PROVE  Call(c, First.name, First.to, block) \in T /\ Call(c, First.name, First.to, block).call = c
  <2>1. c \in Verb
    OBVIOUS
  <2> QED BY <1>2, <2>1 DEF Call, MadeOf, CallRecord
<1>4. DOMAIN calls = 1..Len(calls) /\ Len(calls) \in Nat
  OBVIOUS
<1>5. list = [i \in 1..Len(calls) |-> Call(calls[i], First.name, First.to, block)]
  BY <1>4 DEF Part, Calls
<1> HIDE DEF T, list
<1>6. \A i \in 1..Len(calls) : calls[i] \in verbs
  OBVIOUS
<1> QED BY <1>3, <1>4, <1>5, <1>6 DEF T, list

LEMMA MadeConcat ==
  ASSUME NEW verbs, NEW blocks, NEW s \in Seq(MadeOf(verbs, blocks)),
         NEW t \in Seq(MadeOf(verbs, blocks))
  PROVE  s \o t \in Seq(MadeOf(verbs, blocks))
BY ConcatProperties

LEMMA MadeMade ==
  ASSUME NEW verbs, NEW blocks, NEW list \in Seq(MadeOf(verbs, blocks)), verbs \cap Ends = {},
         First.call \notin Starters =>
           /\ verbs \cap (Openers \cup Nameless \cup {"relocate"}) = {}
           /\ \A b \in blocks : b = First.block \/ (First.call = "relocate" /\ b = "relocation")
  PROVE  list \in Seq(CallRecord) /\ Made(list)
<1>1. \A i \in DOMAIN list : list[i] \in MadeOf(verbs, blocks)
  OBVIOUS
<1>2. \A i \in DOMAIN list :
        list[i] \in CallRecord /\ list[i].call \in verbs /\ list[i].name = First.name
                             /\ list[i].block \in blocks
  BY <1>1 DEF MadeOf
<1> QED BY <1>2, SubSequence DEF Made

Unchanged == inventory' = inventory /\ count \in CountType /\ count' \in CountType
             /\ count'.crashes = count.crashes

LEMMA ContinueGoes ==
  ASSUME IInv, op.todo # <<>>, op' = [op EXCEPT !.todo = Tail(@)], Unchanged
  PROVE  Drops /\ GoesOn
<1>1. op \in OpType /\ Tail(op.todo) \in Seq(CallRecord)
  BY TodoFacts DEF IInv, CommandOK
<1>2. op'.todo = Tail(op.todo) /\ op'.cmd = op.cmd /\ op'.plan = op.plan
      /\ op'.from = op.from
  BY <1>1 DEF OpType
<1>3. Drops
  <2>1. /\ Len(op.todo) \in Nat \ {0} /\ Len(Tail(op.todo)) = Len(op.todo) - 1
        /\ \A i \in 1..Len(Tail(op.todo)) : Tail(op.todo)[i] = op.todo[i + 1]
    BY TodoFacts
  <2>2. 1 \in 1..Len(op.todo)
    BY <2>1
  <2> QED BY <1>2, <2>1, <2>2 DEF Drops
<1> QED BY <1>1, <1>2, <1>3 DEF GoesOn, Unchanged

LEMMA SoftDrops ==
  ASSUME IInv, op.todo # <<>>, First.block \in SoftBlocks, First.call # "authorize",
         op'.todo = Failure(First)
  PROVE  Drops /\ op'.todo \in Seq(CallRecord)
<1> DEFINE s == First
           rest == Tail(op.todo)
           I == {i \in 1..Len(rest) : rest[i].block # s.block \/ rest[i].name # s.name}
           out == Min(I)
           L == SubSeq(rest, out, Len(rest))
           k == Len(op.todo)
<1>1. /\ rest \in Seq(CallRecord) /\ s = op.todo[1] /\ k \in Nat /\ k >= 1 /\ Len(rest) = k - 1
      /\ \A i \in 1..Len(rest) : rest[i] = op.todo[i + 1]
  BY TodoFacts
<1>2. Failure(s) = IF I = {} THEN <<>> ELSE L
  <2>1. I # {} => out # 0
    <3>1. I \in SUBSET Nat
      OBVIOUS
    <3>2. I # {} => out \in I
      <4> HIDE DEF I
      <4> QED BY <3>1, MinIsLeast
    <3>3. 0 \notin I
      OBVIOUS
    <3> HIDE DEF I, out
    <3> QED BY <3>2, <3>3
  <2>2. SelectInSeq(rest, LAMBDA t : t.block # s.block \/ t.name # s.name) = IF I # {} THEN out ELSE 0
    BY DEF SelectInSeq
  <2> HIDE DEF out, I
  <2> QED BY <2>1, <2>2 DEF Failure
<1>3. CASE I = {}
  <2>1. \A i \in 1..(k - 1) : rest[i].block = s.block
    BY <1>1, <1>3
  <2> HIDE DEF I, L, rest, k
  <2>2. ASSUME NEW j \in 1..k PROVE op.todo[j].block = s.block
    <3>1. CASE j = 1
      BY <1>1, <3>1
    <3>2. CASE j # 1
      <4>1. j - 1 \in 1..(k - 1) /\ (j - 1) + 1 = j
        BY <1>1, <3>2
      <4> QED BY <1>1, <2>1, <4>1
    <3> QED BY <3>1, <3>2
  <2>3. op'.todo = <<>> /\ Len(<<>>) = 0 /\ <<>> \in Seq(CallRecord) /\ 1..0 = {}
    BY <1>2, <1>3
  <2>4. k \in 1..k /\ 0 = k - k
    BY <1>1
  <2> QED BY <2>2, <2>3, <2>4 DEF Drops, k
<1>4. CASE I # {}
  <2>1. out \in I /\ \A i \in I : out <= i
    <3>1. I \in SUBSET Nat
      OBVIOUS
    <3> HIDE DEF I
    <3> QED BY <1>4, <3>1, MinIsLeast
  <2> HIDE DEF out
  <2>2. out \in 1..(k - 1)
    BY <1>1, <2>1
  <2>3. \A i \in 1..(k - 1) : i < out => rest[i].block = s.block
    BY <1>1, <2>1, <2>2
  <2>4. L \in Seq(CallRecord) /\ Len(L) = Len(rest) - out + 1
        /\ \A i \in 1..(Len(rest) - out + 1) : L[i] = rest[out + i - 1]
    <3>1. \A i \in out..Len(rest) : rest[i] \in CallRecord
      BY <1>1, <2>2
    <3>2. out \in Nat /\ Len(rest) \in Nat /\ out <= Len(rest)
      BY <1>1, <2>2
    <3> HIDE DEF rest, I
    <3> QED BY <3>1, <3>2, SubSeqProperties
  <2> HIDE DEF rest, I, L, k
  <2>5. op'.todo = L
    BY <1>2, <1>4
  <2>6. Len(L) = k - out
    BY <1>1, <2>2, <2>4
  <2>7. ASSUME NEW i \in 1..(k - out) PROVE L[i] = op.todo[i + out]
    <3>1. i \in 1..(Len(rest) - out + 1) /\ out + i - 1 \in 1..Len(rest) /\ (out + i - 1) + 1 = i + out
      BY <1>1, <2>2
    <3> QED BY <1>1, <2>4, <3>1
  <2>8. ASSUME NEW j \in 1..out PROVE op.todo[j].block = s.block
    <3>1. CASE j = 1
      BY <1>1, <3>1
    <3>2. CASE j # 1
      <4>1. j - 1 \in 1..(k - 1) /\ j - 1 < out /\ (j - 1) + 1 = j
        BY <1>1, <2>2, <3>2
      <4> QED BY <1>1, <2>3, <4>1
    <3> QED BY <3>1, <3>2
  <2>9. out \in 1..k
    BY <1>1, <2>2
  <2> QED BY <2>4, <2>5, <2>6, <2>7, <2>8, <2>9 DEF Drops, k
<1> QED BY <1>3, <1>4

\* What is called before the error reaches the caller of a block, and what a failed
\* publication of host SSH takes back.
LEMMA UndoMade ==
  ASSUME IInv, op.todo # <<>>
  PROVE  /\ Undo(First) \in Seq(MadeOf(Verb \ (Openers \cup {"relocate"}), {"undo"}))
         /\ First.block = "host" => Undo(First) # <<>> /\ Undo(First)[1].call = "revoke-keys"
         /\ First.block # "host" =>
              \A i \in DOMAIN Undo(First) : First.block \in {"relocation", "forward"}
                                              /\ Undo(First)[i].call \notin Nameless
<1> DEFINE verbs == Verb \ (Openers \cup {"relocate"})
<1>1. "undo" \in Block /\ "undo" \in {"undo"}
  BY DEF Block, SoftBlocks
<1>2. CASE First.block = "host"
  <2> DEFINE calls == <<"revoke-keys", "disable-record", "terminate", "stop-daemon">>
  <2>1. Undo(First) = Part(calls, "undo")
    BY <1>2 DEF Undo, Revoke, Part
  <2>2. calls \in Seq(verbs) /\ Len(calls) = 4 /\ calls[1] = "revoke-keys"
    BY DEF Verb, Nameless, SshCalls, Openers, Starters
  <2> HIDE DEF calls, verbs
  <2>3. /\ Part(calls, "undo") \in Seq(MadeOf(verbs, {"undo"})) /\ Len(Part(calls, "undo")) = 4
        /\ Part(calls, "undo")[1].call = "revoke-keys"
    BY <1>1, <2>2, PartMade DEF verbs
  <2> QED BY <1>2, <2>1, <2>3 DEF verbs
<1>3. CASE First.block = "relocation"
  <2> DEFINE calls == <<"restore">>
  <2>1. Undo(First) = Part(calls, "undo")
    BY <1>3 DEF Undo, Part, Calls
  <2>2. calls \in Seq(verbs) /\ \A i \in 1..Len(calls) : calls[i] \notin Nameless
    BY DEF Verb, Nameless, SshCalls, Openers, Starters
  <2> HIDE DEF calls, verbs
  <2>3. /\ Part(calls, "undo") \in Seq(MadeOf(verbs, {"undo"}))
        /\ \A i \in DOMAIN Part(calls, "undo") : Part(calls, "undo")[i].call \notin Nameless
    BY <1>1, <2>2, PartMade DEF verbs
  <2> QED BY <1>3, <2>1, <2>3 DEF verbs
<1>4. CASE First.block = "forward" /\ op.fresh
  <2> DEFINE calls == UndoForwarding
  <2>1. Undo(First) = Part(calls, "undo")
    BY <1>4 DEF Undo, Part
  <2>2. calls \in Seq(verbs) /\ \A i \in 1..Len(calls) : calls[i] \notin Nameless
    BY DEF UndoForwarding, Verb, Nameless, SshCalls, Openers, Starters
  <2> HIDE DEF calls, verbs
  <2>3. /\ Part(calls, "undo") \in Seq(MadeOf(verbs, {"undo"}))
        /\ \A i \in DOMAIN Part(calls, "undo") : Part(calls, "undo")[i].call \notin Nameless
    BY <1>1, <2>2, PartMade DEF verbs
  <2> QED BY <1>4, <2>1, <2>3 DEF verbs
<1>5. CASE First.block \notin {"host", "relocation"} /\ ~(First.block = "forward" /\ op.fresh)
  <2>1. Undo(First) = <<>>
    BY <1>5 DEF Undo
  <2> QED BY <1>5, <2>1
<1> QED BY <1>2, <1>3, <1>4, <1>5

LEMMA HardRollsBack ==
  ASSUME IInv, op.todo # <<>>, First.block \notin SoftBlocks, First.call # "authorize",
         op'.todo = Failure(First)
  PROVE  RollsBack /\ op'.todo \in Seq(CallRecord)
<1> DEFINE U == MadeOf(Verb \ (Openers \cup {"relocate"}), {"undo"})
           D == {t \in CallRecord : t.name = First.name /\ t.call \notin Openers}
           undo == Undo(First)
           cleanup == IF NewSsh(First) THEN EnableCleanup(First.name, First.to) ELSE <<>>
<1>1. undo \in Seq(U) /\ undo \in Seq(D)
  <2>1. undo \in Seq(U)
    BY UndoMade
  <2>2. U \subseteq D
    BY DEF MadeOf
  <2> HIDE DEF U, D, undo
  <2>3. \A i \in DOMAIN undo : undo[i] \in D
    BY <2>1, <2>2
  <2> QED BY <2>1, <2>3, SubSequence
<1>2. \A i \in 1..Len(undo) : undo[i].block = "undo" /\ undo[i].call \notin Starters \cup {"relocate"}
  <2>1. \A i \in 1..Len(undo) : undo[i] \in U
    BY <1>1
  <2> HIDE DEF undo
  <2> QED BY <2>1 DEF MadeOf, Openers
<1>3. /\ cleanup \in Seq(D)
      /\ NewSsh(First) => /\ cleanup # <<>> /\ cleanup[1].call = "revoke-keys"
                          /\ cleanup[1].block = "revoke"
  <2>1. CASE ~NewSsh(First)
    BY <2>1
  <2>2. CASE NewSsh(First)
    <3> DEFINE l == EnableCleanup(First.name, First.to)
               A == About(N_, S_, First.name, {"revoke", "unforward", "unname"})
    <3>1. First \in CallType(N_, S_) /\ First.to \in Domain
      BY FirstFacts DEF IInv, FirstOK, RestOK
    <3>2. First.name \in N_
      BY <2>2, <3>1 DEF NewSsh, CallType, RelocationCalls, ForwardCalls, Nameless
    <3>3. l \in Plain(A) /\ l # <<>> /\ Head(l) = Call("revoke-keys", First.name, First.to, "revoke")
      BY <3>1, <3>2, KnownNames, CleanupPlain
    <3> HIDE DEF l
    <3>4. l \in Seq(A) /\ \A i \in DOMAIN l : l[i] \in A /\ l[i].call \notin Openers
      BY <3>3 DEF Plain
    <3>5. \A i \in DOMAIN l : l[i] \in D
      BY <3>4 DEF About, CallType
    <3> HIDE DEF A, D
    <3>6. l \in Seq(D)
      BY <3>4, <3>5, SubSequence
    <3>7. l[1] = Head(l)
      BY <3>3, <3>4
    <3>8. l[1].call = "revoke-keys" /\ l[1].block = "revoke"
      BY <3>3, <3>7 DEF Call
    <3> QED BY <2>2, <3>3, <3>6, <3>8 DEF l
  <2> QED BY <2>1, <2>2
<1>4. op'.todo = undo \o cleanup
  BY DEF Failure
<1>5. First.block = "host" => undo # <<>> /\ undo[1].call = "revoke-keys"
  BY UndoMade
<1> HIDE DEF U, D, undo, cleanup
<1>6. /\ undo \o cleanup \in Seq(D) /\ Len(undo \o cleanup) = Len(undo) + Len(cleanup)
      /\ \A i \in 1..(Len(undo) + Len(cleanup)) :
           (undo \o cleanup)[i] = IF i <= Len(undo) THEN undo[i] ELSE cleanup[i - Len(undo)]
  <2>1. undo \in Seq(D) /\ cleanup \in Seq(D)
    BY <1>1, <1>3
  <2> QED BY ONLY <2>1, ConcatProperties
<1> DEFINE n == Len(undo)
           k == Len(cleanup)
           L == op'.todo
<1>7. /\ L \in Seq(D) /\ n \in Nat /\ k \in Nat /\ DOMAIN L = 1..(n + k)
      /\ \A i \in 1..n : L[i] = undo[i]
      /\ k # 0 => L[n + 1] = cleanup[1]
  <2>1. L \in Seq(D) /\ Len(L) = n + k /\ n \in Nat /\ k \in Nat
    BY <1>1, <1>3, <1>4, <1>6
  <2>2. \A i \in 1..(n + k) : L[i] = IF i <= n THEN undo[i] ELSE cleanup[i - n]
    BY <1>4, <1>6
  <2>3. DOMAIN L = 1..(n + k)
    BY <2>1
  <2> HIDE DEF L, n, k
  <2>4. \A i \in 1..n : L[i] = undo[i]
    BY <2>1, <2>2
  <2>5. k # 0 => L[n + 1] = cleanup[1]
    <3>1. k # 0 => n + 1 \in 1..(n + k) /\ ~(n + 1 <= n) /\ (n + 1) - n = 1
      BY <2>1
    <3> QED BY <2>2, <3>1
  <2> QED BY <2>1, <2>3, <2>4, <2>5
<1>8. \A i \in DOMAIN L : L[i] \in D
  BY <1>7
<1>9. \A i \in DOMAIN L : L[i].name = First.name /\ L[i].call \notin Openers
  BY <1>8 DEF D
<1>10. L \in Seq(CallRecord)
  <2>1. D \subseteq CallRecord
    BY DEF D
  <2>2. \A i \in DOMAIN L : L[i] \in CallRecord
    BY <1>8, <2>1
  <2> HIDE DEF L
  <2> QED BY <1>7, <2>2, SubSequence
<1>11. ASSUME First.block = "host" PROVE RevokesAt(1)'
  <2>1. n # 0
    BY <1>1, <1>5, <1>11
  <2>2. 1 \in DOMAIN L /\ 1 \in 1..n /\ 1..(1 - 1) = {}
    BY <1>7, <2>1
  <2>3. L[1].call = "revoke-keys"
    BY <1>5, <1>7, <1>11, <2>2
  <2> QED BY <2>2, <2>3 DEF RevokesAt
<1>12. ASSUME NewSsh(First) PROVE Revoking'
  <2>1. k # 0
    BY <1>3, <1>12
  <2>2. PICK m \in Nat : m = n + 1
    BY <1>7
  <2> HIDE DEF n
  <2>3. m \in DOMAIN L /\ m - 1 = n
    BY <1>7, <2>1, <2>2
  <2>4. L[m].call = "revoke-keys" /\ L[m].block # "undo"
    BY <1>3, <1>7, <1>12, <2>1, <2>2
  <2>5. \A j \in 1..n : L[j].block = "undo" /\ L[j].call \notin Starters \cup {"relocate"}
    BY <1>2, <1>7 DEF n
  <2>6. \A j \in 1..(m - 1) : L[j].block = "undo" /\ L[j].call \notin Starters \cup {"relocate"}
    BY <2>3, <2>5
  <2>7. RevokesAt(m)'
    BY <2>3, <2>4, <2>6 DEF RevokesAt
  <2> QED BY <2>3, <2>7 DEF Revoking
<1>13. First.block = "host" \/ NewSsh(First) => Revoking'
  BY <1>11, <1>12 DEF Revoking, RevokesAt
<1>14. \/ First.block = "host" \/ NewSsh(First)
       \/ \A i \in DOMAIN L : First.block \in {"relocation", "forward"}
                                 /\ L[i].call \notin Nameless /\ L[i].block = "undo"
  <2> SUFFICES ASSUME First.block # "host", ~NewSsh(First), NEW i \in DOMAIN L
               PROVE  First.block \in {"relocation", "forward"}
                        /\ L[i].call \notin Nameless /\ L[i].block = "undo"
    OBVIOUS
  <2>1. k = 0
    BY DEF cleanup
  <2>2. i \in 1..n /\ i \in DOMAIN undo
    BY <1>1, <1>7, <2>1
  <2>3. L[i] = undo[i]
    BY <1>7, <2>2
  <2>4. First.block \in {"relocation", "forward"} /\ undo[i].call \notin Nameless
    BY <2>2, UndoMade DEF undo
  <2> QED BY <1>2, <2>2, <2>3, <2>4
<1> QED BY <1>9, <1>10, <1>13, <1>14 DEF RollsBack, L

LEMMA AbortGoes ==
  ASSUME IInv, op.todo # <<>>, Abort, First.call # "authorize", Unchanged
  PROVE  GoesOn
<1>1. op \in OpType
  BY DEF IInv, CommandOK
<1>2. op'.todo = Failure(First) /\ op'.cmd = op.cmd /\ op'.plan = op.plan
      /\ op'.from = op.from
  BY <1>1 DEF OpType, Abort
<1>3. (Drops \/ RollsBack) /\ op'.todo \in Seq(CallRecord)
  BY <1>2, SoftDrops, HardRollsBack
<1> QED BY <1>2, <1>3 DEF GoesOn, Unchanged

LEMMA ExpandGoes ==
  ASSUME IInv, op.todo # <<>>, First.call \in Compound, NEW list \in Seq(CallRecord), Made(list),
         NEW f \in BOOLEAN, NEW k,
         op' = [op EXCEPT !.todo = list \o Tail(op.todo), !.fresh = f, !.key = k],
         Unchanged
  PROVE  GoesOn
<1>1. op \in OpType /\ Tail(op.todo) \in Seq(CallRecord)
  BY TodoFacts DEF IInv, CommandOK
<1>2. op'.todo = list \o Tail(op.todo) /\ op'.cmd = op.cmd /\ op'.plan = op.plan
      /\ op'.from = op.from
  BY <1>1 DEF OpType
<1>3. list \o Tail(op.todo) \in Seq(CallRecord)
  BY <1>1, ConcatProperties
<1> QED BY <1>2, <1>3 DEF GoesOn, Expands, Unchanged

\* A compound call that goes on with a list of calls.
LEMMA InsteadGoes ==
  ASSUME IInv, op.todo # <<>>, First.call \in Compound, NEW list \in Seq(CallRecord), Made(list),
         Instead(list), Unchanged
  PROVE  GoesOn
<1>1. op \in OpType
  BY DEF IInv, CommandOK
<1>2. op.fresh \in BOOLEAN
      /\ op' = [op EXCEPT !.todo = list \o Tail(op.todo), !.fresh = op.fresh, !.key = op.key]
  BY <1>1 DEF OpType, Instead
<1> QED BY <1>2, ExpandGoes

\* What the calls of EnableHost, ActivateKey and ReplaceKey are made of.
LEMMA OpenersMade ==
  ASSUME IInv, op.todo # <<>>, First.call \in Starters, NEW list \in Seq(MadeOf(Verb \ Ends, Block))
  PROVE  list \in Seq(CallRecord) /\ Made(list)
BY MadeMade

LEMMA EnableHostGoes ==
  ASSUME IInv, EnableHost, Unchanged
  PROVE  op.todo # <<>> /\ First.call = "enable-host" /\ GoesOn
<1>1. op.todo # <<>> /\ First.call = "enable-host"
  BY DEF EnableHost, On
<1> DEFINE a == Subject(First).account
           V == Verb \ Ends
           T == MadeOf(V, Block)
           keyCalls == <<"install-key", "authorize", "start-daemon", "enable-record", "verify">>
           againCalls == <<"revoke-keys", "disable-record", "terminate", "stop-daemon">>
           movedCalls == <<"write-config", "write-record">>
           firstCalls == <<"make-directory", "write-record", "write-config", "write-unit">>
           again == Part(againCalls, "plain")
           moved == IF host.record = a THEN <<>> ELSE Part(movedCalls, "host")
           first == Part(firstCalls, "plain")
           keys == Part(keyCalls, "host")
           list == (IF host.record = Nobody THEN first ELSE again \o moved) \o keys
<1>2. Abort \/ Continue \/ Instead(list)
  BY DEF EnableHost
<1>3. /\ keyCalls \in Seq(V) /\ againCalls \in Seq(V) /\ movedCalls \in Seq(V) /\ firstCalls \in Seq(V)
      /\ V \in SUBSET Verb
  BY DEF Verb, Nameless, SshCalls, Ends
<1>4. "plain" \in Block /\ "host" \in Block
  BY DEF Block
<1> HIDE DEF V, keyCalls, againCalls, movedCalls, firstCalls, a
<1>5. keys \in Seq(T) /\ again \in Seq(T) /\ first \in Seq(T) /\ Part(movedCalls, "host") \in Seq(T)
  BY <1>1, <1>3, <1>4, PartMade
<1> HIDE DEF keys, again, first, T
<1>6. moved \in Seq(T)
  BY <1>5
<1> HIDE DEF moved
<1>7. again \o moved \in Seq(T)
  BY <1>5, <1>6, MadeConcat DEF T
<1> DEFINE start == IF host.record = Nobody THEN first ELSE again \o moved
<1>8. start \in Seq(T)
  BY <1>5, <1>7
<1> HIDE DEF start
<1>9. start \o keys \in Seq(T)
  BY <1>5, <1>8, MadeConcat DEF T
<1>10. list \in Seq(T)
  BY <1>9 DEF start
<1> HIDE DEF list
<1>11. list \in Seq(CallRecord) /\ Made(list)
  BY <1>1, <1>10, OpenersMade DEF T, V, Starters
<1>12. GoesOn
  BY <1>1, <1>2, <1>11, AbortGoes, ContinueGoes, InsteadGoes DEF Continue, Compound
<1> QED BY <1>1, <1>12

LEMMA ReplaceKeysGo ==
  ASSUME IInv, ActivateKey \/ ReplaceKey, Unchanged
  PROVE  op.todo # <<>> /\ First.call \in {"activate-key", "replace-key"} /\ GoesOn
<1>1. op.todo # <<>> /\ First.call \in {"activate-key", "replace-key"}
  BY DEF ActivateKey, ReplaceKey, On
<1> DEFINE V == Verb \ Ends
           T == MadeOf(V, Block)
           enableCalls == <<"enable-host">>
           revokeCalls == <<"revoke-keys", "disable-record", "terminate", "stop-daemon">>
           enable == Part(enableCalls, "plain")
           revoke == Part(revokeCalls, "plain")
<1>2. enableCalls \in Seq(V) /\ revokeCalls \in Seq(V) /\ V \in SUBSET Verb /\ "plain" \in Block
  BY DEF Verb, Nameless, SshCalls, Ends, Block
<1>3. Revoke(First.name, First.to, "plain") = revoke
  BY DEF Revoke, Part
<1>4. \/ Abort
      \/ Instead(revoke \o enable)
      \/ op' = [op EXCEPT !.todo = enable \o Tail(op.todo), !.key = host.pending]
  BY <1>3 DEF ActivateKey, ReplaceKey
<1> HIDE DEF V, enableCalls, revokeCalls
<1>5. enable \in Seq(T) /\ revoke \in Seq(T)
  BY <1>1, <1>2, PartMade
<1> HIDE DEF enable, revoke
<1>6. revoke \o enable \in Seq(T)
  BY <1>5, MadeConcat
<1> DEFINE both == revoke \o enable
<1> HIDE DEF both
<1>7. /\ both \in Seq(CallRecord) /\ Made(both)
      /\ enable \in Seq(CallRecord) /\ Made(enable)
  BY <1>1, <1>5, <1>6, OpenersMade DEF V, Starters, both
<1>8. op.fresh \in BOOLEAN /\ op \in OpType
  BY DEF IInv, CommandOK, OpType
<1>9. CASE op' = [op EXCEPT !.todo = enable \o Tail(op.todo), !.key = host.pending]
  <2>1. op' = [op EXCEPT !.todo = enable \o Tail(op.todo), !.fresh = op.fresh, !.key = host.pending]
    BY <1>8, <1>9 DEF OpType
  <2> QED BY <1>1, <1>7, <1>8, <2>1, ExpandGoes DEF Compound
<1>10. CASE Instead(revoke \o enable)
  BY <1>1, <1>7, <1>10, InsteadGoes DEF Compound, both
<1>11. CASE Abort
  BY <1>1, <1>11, AbortGoes
<1> QED BY <1>1, <1>4, <1>9, <1>10, <1>11

\* What the other compound calls are made of.
LEMMA BlockMade ==
  ASSUME IInv, op.todo # <<>>, First.call \in {"relocate", "restore", "unforward"},
         NEW block, block = First.block \/ (First.call = "relocate" /\ block = "relocation"),
         NEW list \in Seq(MadeOf(Verb \ (Openers \cup Nameless \cup {"relocate"}), {block}))
  PROVE  list \in Seq(CallRecord) /\ Made(list)
<1> DEFINE V == Verb \ (Openers \cup Nameless \cup {"relocate"})
<1>1. V \cap Ends = {} /\ V \cap (Openers \cup Nameless \cup {"relocate"}) = {}
  BY DEF Ends, Nameless
<1> HIDE DEF V
<1>2. \A b \in {block} : b = First.block \/ (First.call = "relocate" /\ b = "relocation")
  OBVIOUS
<1> QED BY <1>1, <1>2, MadeMade DEF V

LEMMA FirstBlock ==
  ASSUME IInv, op.todo # <<>>
  PROVE  First.block \in Block
<1>1. 1 \in 1..Len(op.todo) /\ First = op.todo[1] /\ op.todo \in Seq(CallRecord)
  BY TodoFacts
<1>2. First \in CallRecord
  BY <1>1
<1> QED BY <1>2 DEF CallRecord

LEMMA RelocateGoes ==
  ASSUME IInv, Relocate, Unchanged
  PROVE  op.todo # <<>> /\ First.call = "relocate" /\ GoesOn
<1>1. op.todo # <<>> /\ First.call = "relocate"
  BY DEF Relocate, On
<1> DEFINE V == Verb \ (Openers \cup Nameless \cup {"relocate"})
           calls == <<"save-activity", "stop-admin", "start-private">>
           steps == Part(calls, "relocation")
           fresh == IsSsh(First) /\ proxy.record[SshPort] = Free
           clear == proxy.saved = "none" /\ ~Listening(SshPort)
           list == IF fresh /\ ~clear THEN steps ELSE <<>>
<1>2. Abort \/ op' = [op EXCEPT !.fresh = fresh, !.todo = list \o Tail(@)]
  BY DEF Relocate
<1>3. calls \in Seq(V) /\ V \in SUBSET Verb /\ "relocation" \in Block /\ "relocation" \in {"relocation"}
  BY DEF Verb, SshCalls, Nameless, Ends, Openers, Starters, Block
<1> HIDE DEF V, calls, clear
<1>4. steps \in Seq(MadeOf(V, {"relocation"}))
  BY <1>1, <1>3, PartMade
<1> HIDE DEF steps
<1>5. list \in Seq(MadeOf(V, {"relocation"}))
  BY <1>4
<1>6. fresh \in BOOLEAN
  OBVIOUS
<1> HIDE DEF list, fresh
<1>7. list \in Seq(CallRecord) /\ Made(list)
  BY <1>1, <1>5, BlockMade DEF V
<1>8. op \in OpType
  BY DEF IInv, CommandOK
<1>9. CASE op' = [op EXCEPT !.fresh = fresh, !.todo = list \o Tail(@)]
  <2>1. op' = [op EXCEPT !.todo = list \o Tail(op.todo), !.fresh = fresh, !.key = op.key]
    BY <1>8, <1>9 DEF OpType
  <2> QED BY <1>1, <1>6, <1>7, <2>1, ExpandGoes DEF Compound
<1> QED BY <1>1, <1>2, <1>9, AbortGoes

LEMMA RestoreGoes ==
  ASSUME IInv, Restore, Unchanged
  PROVE  op.todo # <<>> /\ First.call = "restore" /\ GoesOn
<1>1. op.todo # <<>> /\ First.call = "restore"
  BY DEF Restore, On
<1> DEFINE V == Verb \ (Openers \cup Nameless \cup {"relocate"})
           calls == <<"stop-admin", "start-stock", "forget-activity">>
           steps == Part(calls, First.block)
<1>2. Abort \/ Continue \/ Instead(steps)
  BY DEF Restore
<1>3. calls \in Seq(V) /\ V \in SUBSET Verb
  BY DEF Verb, SshCalls, Nameless, Ends, Openers, Starters
<1> HIDE DEF V, calls
<1>4. steps \in Seq(MadeOf(V, {First.block}))
  BY <1>1, <1>3, FirstBlock, PartMade
<1> HIDE DEF steps
<1>5. steps \in Seq(CallRecord) /\ Made(steps)
  BY <1>1, <1>4, BlockMade DEF V
<1> QED BY <1>1, <1>2, <1>5, AbortGoes, ContinueGoes, InsteadGoes DEF Continue, Compound

LEMMA UnforwardGoes ==
  ASSUME IInv, Unforward, Unchanged
  PROVE  op.todo # <<>> /\ First.call = "unforward" /\ GoesOn
<1>1. op.todo # <<>> /\ First.call = "unforward"
  BY DEF Unforward, On
<1> DEFINE V == Verb \ (Openers \cup Nameless \cup {"relocate"})
           p == PortOf(First)
           owner == proxy.record[p]
           mine == owner = HostOf(First) /\ proxy.unit[p] = owner
           close == <<"close-gateway">>
           remove == IF mine THEN <<"remove-forwarding">> ELSE <<>>
           restore == IF IsSsh(First) THEN <<"restore">> ELSE <<>>
           calls == close \o remove \o restore
           steps == Part(calls, First.block)
<1>2. Abort \/ Instead(steps)
  BY DEF Unforward
<1>3. close \in Seq(V) /\ remove \in Seq(V) /\ restore \in Seq(V) /\ V \in SUBSET Verb
  <2>1. {"close-gateway", "remove-forwarding", "restore"} \subseteq V
    BY DEF Verb, SshCalls, Nameless, Ends, Openers, Starters
  <2> HIDE DEF V, mine
  <2>2. <<"close-gateway">> \in Seq(V) /\ <<"remove-forwarding">> \in Seq(V) /\ <<"restore">> \in Seq(V)
    BY <2>1
  <2>3. V \in SUBSET Verb
    BY DEF V
  <2> QED BY <2>2, <2>3
<1> HIDE DEF V, close, remove, restore
<1>4. calls \in Seq(V)
  BY <1>3
<1> HIDE DEF calls
<1>5. steps \in Seq(MadeOf(V, {First.block}))
  BY <1>1, <1>3, <1>4, FirstBlock, PartMade
<1> HIDE DEF steps
<1>6. steps \in Seq(CallRecord) /\ Made(steps)
  BY <1>1, <1>5, BlockMade DEF V
<1> QED BY <1>1, <1>2, <1>6, AbortGoes, InsteadGoes DEF Compound

LEMMA ExpandGoesOn ==
  ASSUME IInv, Expand, UNCHANGED count, count \in CountType
  PROVE  op.todo # <<>> /\ First.call \in Compound /\ GoesOn /\ KeyRule
<1>1. inventory' = inventory /\ host' = host
  BY DEF Expand, EnableHost, ActivateKey, ReplaceKey, Relocate, Unforward, files, adapters
<1>2. Unchanged
  BY <1>1 DEF Unchanged
<1>3. op.todo # <<>> /\ First.call \in Compound \ {"restore"} /\ GoesOn
  BY <1>2, EnableHostGoes, ReplaceKeysGo, RelocateGoes, UnforwardGoes DEF Expand, Compound
<1> QED BY <1>1, <1>3 DEF KeyRule, Compound

LEMMA StayGoes ==
  ASSUME IInv, op.todo # <<>>, NEW condition, Stay(condition),
         First.call \notin {"authorize", "revoke-keys"},
         count' = count, count \in CountType
  PROVE  GoesOn /\ KeyRule
<1>1. (Continue \/ Abort) /\ inventory' = inventory /\ host' = host
  BY DEF Stay, Require, files, adapters
<1> QED BY <1>1, AbortGoes, ContinueGoes DEF Continue, Unchanged, KeyRule

LEMMA ChecksGo ==
  ASSUME IInv, Checks \/ VerifyHost, count' = count, count \in CountType
  PROVE  op.todo # <<>> /\ First.call \notin Ends /\ GoesOn /\ KeyRule
<1>1. op.todo # <<>> /\ First.call \notin Ends \cup {"authorize", "revoke-keys"}
  BY DEF Checks, CheckSlot, CheckForwarding, CheckDns, CheckWeb, CheckHost, CheckOwned, Inspect,
     VerifyHost,
     On, Ends
<1>2. \E condition : Stay(condition)
  BY DEF Checks, CheckSlot, CheckForwarding, CheckDns, CheckWeb, CheckHost, CheckOwned, Inspect,
     VerifyHost
<1> QED BY <1>1, <1>2, StayGoes

LEMMA HostCallsGo ==
  ASSUME IInv, HostCalls, count' = count, count \in CountType
  PROVE  op.todo # <<>> /\ First.call \notin Ends /\ GoesOn /\ KeyRule
<1>0. host \in HostType
  BY DEF IInv, WorldOK
<1>1. ASSUME NEW call \in Verb \ (Ends \cup {"authorize", "revoke-keys"}), NEW ACTION Effect,
             OnHost(call, Effect), host'.authorized = host.authorized
      PROVE  op.todo # <<>> /\ First.call \notin Ends /\ GoesOn /\ KeyRule
  <2>1. /\ op.todo # <<>> /\ First.call \notin Ends \cup {"authorize", "revoke-keys"}
        /\ Continue /\ inventory' = inventory
    BY <1>1 DEF OnHost, On, files
  <2> QED BY <1>1, <2>1, ContinueGoes DEF Continue, Unchanged, KeyRule
<1>2. CASE OnHost("make-directory", MakeDirectory)
  <2>1. host'.authorized = host.authorized
    BY <1>0, <1>2 DEF OnHost, MakeDirectory, HostType
  <2> QED BY <1>1, <1>2, <2>1 DEF Verb, Nameless, SshCalls, Ends
<1>3. CASE OnHost("write-record", WriteRecord(Subject(First).account))
  <2>1. host'.authorized = host.authorized
    BY <1>0, <1>3 DEF OnHost, WriteRecord, HostType
  <2> QED BY <1>1, <1>3, <2>1 DEF Verb, Nameless, SshCalls, Ends
<1>4. CASE OnHost("write-config", WriteConfig(Subject(First).account))
  <2>1. host'.authorized = host.authorized
    BY <1>0, <1>4 DEF OnHost, WriteConfig, HostType
  <2> QED BY <1>1, <1>4, <2>1 DEF Verb, Nameless, SshCalls, Ends
<1>5. CASE OnHost("write-unit", WriteUnit)
  <2>1. host'.authorized = host.authorized
    BY <1>0, <1>5 DEF OnHost, WriteUnit, HostType
  <2> QED BY <1>1, <1>5, <2>1 DEF Verb, Nameless, SshCalls, Ends
<1>6. CASE OnHost("install-key", InstallKey(op.key))
  <2>1. InstallKey(op.key)
    BY <1>6 DEF OnHost
  <2>2. CASE op.key = NoKey
    <3>1. host'.authorized = host.authorized
      BY <1>0, <2>1, <2>2 DEF InstallKey, HostType
    <3> QED BY <1>1, <1>6, <3>1 DEF Verb, Nameless, SshCalls, Ends
  <2>3. CASE op.key # NoKey
    <3>1. host'.authorized = host.authorized
      BY <1>0, <2>1, <2>3 DEF InstallKey, HostType
    <3> QED BY <1>1, <1>6, <3>1 DEF Verb, Nameless, SshCalls, Ends
  <2> QED BY <2>2, <2>3
<1>7. CASE OnHost("start-daemon", StartDaemon)
  <2>1. host'.authorized = host.authorized
    BY <1>0, <1>7 DEF OnHost, StartDaemon, HostType
  <2> QED BY <1>1, <1>7, <2>1 DEF Verb, Nameless, SshCalls, Ends
<1>8. CASE OnHost("enable-record", EnableRecord)
  <2>1. host'.authorized = host.authorized
    BY <1>0, <1>8 DEF OnHost, EnableRecord, HostType
  <2> QED BY <1>1, <1>8, <2>1 DEF Verb, Nameless, SshCalls, Ends
<1>9. CASE OnHost("disable-record", DisableRecord)
  <2>1. host'.authorized = host.authorized
    BY <1>0, <1>9 DEF OnHost, DisableRecord, HostType
  <2> QED BY <1>1, <1>9, <2>1 DEF Verb, Nameless, SshCalls, Ends
<1>10. CASE OnHost("remove-unit", RemoveUnit)
  <2>1. host'.authorized = host.authorized
    BY <1>0, <1>10 DEF OnHost, RemoveUnit, HostType
  <2> QED BY <1>1, <1>10, <2>1 DEF Verb, Nameless, SshCalls, Ends
<1>11. CASE OnHost("remove-record", RemoveRecord)
  <2>1. host'.authorized = host.authorized
    BY <1>0, <1>11 DEF OnHost, RemoveRecord, HostType
  <2> QED BY <1>1, <1>11, <2>1 DEF Verb, Nameless, SshCalls, Ends
<1>12. CASE OnHost("remove-files", RemoveFiles)
  <2>1. host'.authorized = host.authorized
    BY <1>0, <1>12 DEF OnHost, RemoveFiles, HostType
  <2> QED BY <1>1, <1>12, <2>1 DEF Verb, Nameless, SshCalls, Ends
<1>13. CASE PrepareReplacement
  <2>1. /\ op.todo # <<>> /\ First.call = "prepare-key" /\ inventory' = inventory
        /\ Continue \/ Abort
        /\ host'.authorized = host.authorized
    BY <1>0, <1>13 DEF PrepareReplacement, On, PrepareKey, HostType, files
  <2> QED BY <2>1, AbortGoes, ContinueGoes DEF Continue, Unchanged, KeyRule, Ends
<1>14. CASE AuthorizeKey
  <2>1. /\ op.todo # <<>> /\ First.call = "authorize" /\ inventory' = inventory /\ Continue
    BY <1>14 DEF AuthorizeKey, On, files
  <2> QED BY <2>1, ContinueGoes DEF Continue, Unchanged, KeyRule, Ends
<1>15. CASE RevokeAccess
  <2>1. /\ op.todo # <<>> /\ First.call = "revoke-keys" /\ inventory' = inventory /\ (Continue \/ Abort)
    BY <1>15 DEF RevokeAccess, On, files
  <2>2. host'.authorized = NoKey
    <3>1. CASE host.record = Nobody
      <4>1. host' = host
        BY <1>15, <3>1 DEF RevokeAccess
      <4> QED BY <3>1, <4>1 DEF IInv, KeysOK, Revoked
    <3>2. CASE host.record # Nobody
      BY <1>0, <1>15, <3>2 DEF RevokeAccess, RevokeKeys, HostType
    <3> QED BY <3>1, <3>2
  <2> QED BY <2>1, <2>2, AbortGoes, ContinueGoes DEF Continue, Unchanged, KeyRule, Ends
<1>16. CASE Terminate
  <2>1. /\ op.todo # <<>> /\ First.call = "terminate" /\ inventory' = inventory
        /\ Continue /\ host' = host
    BY <1>16 DEF Terminate, On, files, adapters
  <2> QED BY <2>1, ContinueGoes DEF Continue, Unchanged, KeyRule, Ends
<1>17. CASE StopHost
  <2>1. /\ op.todo # <<>> /\ First.call = "stop-daemon" /\ inventory' = inventory
        /\ Continue \/ Abort
        /\ host'.authorized = host.authorized
    BY <1>0, <1>17 DEF StopHost, Require, On, StopDaemon, HostType, files
  <2> QED BY <2>1, AbortGoes, ContinueGoes DEF Continue, Unchanged, KeyRule, Ends
<1>18. CASE VerifyHost
  BY <1>18, ChecksGo
<1> QED
  BY <1>2, <1>3, <1>4, <1>5, <1>6, <1>7, <1>8, <1>9, <1>10, <1>11, <1>12, <1>13, <1>14, <1>15, <1>16,
     <1>17, <1>18 DEF HostCalls

LEMMA ProxyCallsGo ==
  ASSUME IInv, ProxyCalls \/ NameCalls, count' = count, count \in CountType
  PROVE  op.todo # <<>> /\ First.call \notin Ends /\ GoesOn /\ KeyRule
<1>1. inventory' = inventory /\ host' = host /\ Unchanged
  <2>1. ProxyCalls => inventory' = inventory /\ host' = host
    BY DEF ProxyCalls, OnProxy, OnGateway, StartPrivateAdmin, Restore, Install, RemoveUnits, files,
       adapters
  <2>2. NameCalls => inventory' = inventory /\ host' = host
    BY DEF NameCalls, files
  <2> QED BY <2>1, <2>2 DEF Unchanged
<1>2. CASE Restore
  BY <1>1, <1>2, RestoreGoes DEF KeyRule, Ends
<1>3. CASE ~Restore
  <2>1. op.todo # <<>> /\ First.call \notin Ends \cup {"authorize", "revoke-keys"} /\ (Continue \/ Abort)
    BY <1>3 DEF ProxyCalls, OnProxy, OnGateway, StartPrivateAdmin, Install, RemoveUnits, NameCalls, On,
       Ends
  <2> QED BY <1>1, <2>1, AbortGoes, ContinueGoes DEF Continue, KeyRule
<1> QED BY <1>2, <1>3

LEMMA FaultGoes ==
  ASSUME IInv, Fault, count \in CountType
  PROVE  op.todo # <<>> /\ First.call \notin Ends /\ GoesOn /\ KeyRule
<1>1. /\ op.todo # <<>> /\ First.call \notin Ends \cup {"authorize", "revoke-keys"}
      /\ inventory' = inventory /\ count' = [count EXCEPT !.faults = @ + 1]
  BY DEF Fault, Ends, External, files, Counted
<1>2. host'.authorized = host.authorized
  BY FaultsKeepKeys
<1>3. Unchanged
  BY <1>1 DEF CountType, Unchanged
<1>4. CASE Abort
  BY <1>1, <1>2, <1>3, <1>4, AbortGoes DEF KeyRule
<1>5. CASE op' = [op EXCEPT !.todo = Tail(@), !.late = TRUE]
  <2>1. op \in OpType /\ Tail(op.todo) \in Seq(CallRecord) /\ Len(op.todo) \in Nat \ {0}
        /\ Len(Tail(op.todo)) = Len(op.todo) - 1
        /\ \A i \in 1..Len(Tail(op.todo)) : Tail(op.todo)[i] = op.todo[i + 1]
    BY <1>1, TodoFacts DEF IInv, CommandOK
  <2>2. op'.todo = Tail(op.todo) /\ op'.cmd = op.cmd /\ op'.plan = op.plan /\ op'.from = op.from
    BY <1>5, <2>1 DEF OpType
  <2>3. 1 \in 1..Len(op.todo)
    BY <2>1
  <2>4. Drops
    BY <2>1, <2>2, <2>3 DEF Drops
  <2> QED BY <1>1, <1>2, <1>3, <2>1, <2>2, <2>4 DEF GoesOn, KeyRule, Unchanged
<1> QED BY <1>4, <1>5 DEF Fault

-----------------------------------------------------------------------------
(* The invariant is kept *)

LEMMA GoesOnKeeps ==
  ASSUME IInv, JInv, op.todo # <<>>, First.call \notin Ends, GoesOn, KeyRule
  PROVE  JInv'
<1>1. count' \in CountType
  BY DEF GoesOn
<1>2. RemoveOK'
  BY DropsRemove DEF JInv, RemoveOK, SshOf, Of
<1>3. inventory' = inventory
  BY DEF KeyRule
<1>4. PlanOK' /\ OpenOK' /\ AccessOK'
  <2>1. CASE Drops
    BY <1>3, <2>1, DropsPlan, DropsAccess DEF JInv
  <2>2. CASE RollsBack
    BY <2>2, RollsBackAll DEF JInv
  <2>3. CASE Expands
    BY <2>3, ExpandsAll DEF JInv
  <2> QED BY <2>1, <2>2, <2>3 DEF GoesOn
<1> QED BY <1>1, <1>2, <1>4 DEF JInv

\* A command that has nothing to do any more.
LEMMA DoneKeeps ==
  ASSUME op'.todo = <<>>, count' \in CountType,
         count'.crashes = 0 /\ host'.authorized # NoKey => SshOf(inventory') # {}
  PROVE  JInv'
BY DEF JInv, PlanOK, OpenOK, RemoveOK, AccessOK, SshOf, Of

LEMMA SaveKeeps ==
  ASSUME IInv, JInv, Save, UNCHANGED <<job, failed, count>>
  PROVE  JInv'
<1>1. /\ op.todo # <<>> /\ First.call = "save" /\ Continue /\ inventory' = op.plan
      /\ host' = host
  BY DEF Save, On, adapters
<1>2. inventory \in Services /\ Good(inventory) /\ op.plan \in Services /\ Good(op.plan)
  BY DEF IInv, WorldOK, CommandOK, OpType, Services
<1>3. op'.todo = <<>>
  BY <1>1, <1>2, LastCall DEF Ends
<1>4. ASSUME count.crashes = 0, host.authorized # NoKey PROVE SshOf(op.plan) # {}
  <2>1. op.cmd \in Command /\ op.plan = PlanOf(op.cmd)
    BY <1>1 DEF JInv, PlanOK
  <2>2. PICK c \in Command : c = op.cmd
    BY <2>1
  <2>3. /\ c.do = "publish" => op.plan = [inventory EXCEPT ![c.name] = c.wish]
        /\ c.do = "remove" => op.plan = [inventory EXCEPT ![c.name] = Absent]
        /\ c.do \notin {"publish", "remove"} => op.plan = inventory
    BY <1>2, <2>1, <2>2, PlanType
  <2>4. c.do = "publish" => c.name \in Name /\ c.wish # Absent /\ SameSlot(c.name, c.wish)
    BY <1>1, <2>2, CommandFields, WishesAreExposures DEF JInv, PlanOK
  <2>5. CASE PublishesSsh
    <3>1. c.name \in SshOf(op.plan)
      BY <1>2, <2>2, <2>3, <2>4, <2>5 DEF PublishesSsh, SshOf, Of, Services
    <3> QED BY <3>1
  <2>6. CASE ~PublishesSsh
    <3>1. PICK n \in SshOf(inventory) : TRUE
      <4>1. ~Publishing
        BY <2>6 DEF Publishing
      <4>2. ~Revoking
        <5>1. SUFFICES ASSUME NEW i \in DOMAIN op.todo, RevokesAt(i) PROVE FALSE
          BY DEF Revoking
        <5>2. /\ First = op.todo[1] /\ DOMAIN op.todo = 1..Len(op.todo) /\ Len(op.todo) \in Nat
          BY <1>1, TodoFacts
        <5>3. 1 \in 1..(i - 1)
          BY <1>1, <5>1, <5>2 DEF RevokesAt
        <5>4. First.block = "undo"
          BY <5>1, <5>2, <5>3 DEF RevokesAt
        <5>5. First \in CallType(N_, S_)
          BY <1>1, FirstFacts DEF IInv, FirstOK, RestOK
        <5> QED BY <1>1, <5>4, <5>5 DEF CallType, Ends
      <4> QED BY <1>4, <4>1, <4>2 DEF JInv, AccessOK
    <3>2. n \in Name /\ inventory[n] # Absent /\ inventory[n].protocol = "ssh"
      BY <3>1 DEF SshOf, Of
    <3>3. c.do = "publish" => n # c.name
      BY <2>2, <2>4, <2>6, <3>2 DEF PublishesSsh, SameSlot
    <3>4. c.do = "remove" => n # c.name
      BY <1>1, <1>4, <2>2, <3>1 DEF JInv, RemoveOK
    <3>5. n \in SshOf(op.plan)
      BY <1>2, <2>3, <3>2, <3>3, <3>4 DEF SshOf, Of, Services
    <3> QED BY <3>5
  <2> QED BY <2>5, <2>6
<1> QED BY <1>1, <1>3, <1>4, DoneKeeps DEF JInv

LEMMA DeleteKeeps ==
  ASSUME IInv, JInv, DeleteProject, UNCHANGED <<job, failed, count>>
  PROVE  JInv'
<1>1. /\ op.todo # <<>> /\ First.call = "delete-project" /\ Continue
      /\ inventory' = [n \in Name |-> Absent] /\ host' = host
  BY DEF DeleteProject, On
<1>2. inventory' \in Services /\ Good(inventory')
  BY <1>1 DEF Services, Good
<1>3. op'.todo = <<>>
  BY <1>1, <1>2, LastCall DEF Ends
<1>4. host.authorized = NoKey
  BY <1>1 DEF IInv, ReadyOK, ReadyKeys
<1> QED BY <1>1, <1>3, <1>4, DoneKeeps DEF JInv

LEMMA RunKeeps ==
  ASSUME IInv, JInv, Run
  PROVE  JInv'
<1>1. UNCHANGED <<job, failed, count>> /\ count' = count /\ count \in CountType
  BY DEF Run, JInv
<1>2. CASE Save \/ DeleteProject
  BY <1>1, <1>2, SaveKeeps, DeleteKeeps
<1>3. CASE Checks \/ Expand \/ HostCalls \/ ProxyCalls \/ NameCalls
  <2>1. op.todo # <<>> /\ First.call \notin Ends /\ GoesOn /\ KeyRule
    BY <1>1, <1>3, ChecksGo, ExpandGoesOn, HostCallsGo, ProxyCallsGo DEF Compound, Ends
  <2> QED BY <2>1, GoesOnKeeps
<1> QED BY <1>2, <1>3 DEF Run

\* A command begins with what its own list says.
LEMMA StartKeeps ==
  ASSUME IInv, JInv, Idle, Elsewhere, NEW c \in Command, Possible(c), NEW from, Start(c, from),
         count' \in CountType, count'.crashes = count.crashes
  PROVE  JInv'
<1> DEFINE P == PlanOf(c)
           L == CallsOf(c)
<1>1. inventory' = inventory /\ host' = host /\ inventory \in Services /\ domain \in Domain
  BY DEF Elsewhere, files, adapters, IInv, WorldOK, Services
<1>2. Beginning(c, L, Known(P), KnownSsh(P))
  BY <1>1, CommandCalls
<1>3. /\ P' = P /\ (SameSlot(c.name, c.wish))' = SameSlot(c.name, c.wish)
      /\ SshOf(inventory)' = SshOf(inventory)
  BY <1>1 DEF PlanOf, SameSlot, SshOf, Of
<1>4. op' = [NoOp EXCEPT !.cmd = c, !.from = from, !.todo = L, !.plan = P]
  BY DEF Start
<1> HIDE DEF P, L
<1>5. op'.cmd = c /\ op'.todo = L /\ op'.plan = P
  BY <1>4 DEF NoOp
<1>6. PlanOK'
  <2>1. PlanOf(op.cmd)' = P
    BY <1>3, <1>5 DEF P
  <2>2. c.do = "publish" => SameSlot(c.name, c.wish)' /\ \A i \in DOMAIN L : L[i].name = c.name
    BY <1>2, <1>3 DEF Possible, Beginning
  <2>3. c.do \in {"activate", "replace"} => SshOf(inventory)' # {}
    BY <1>3 DEF Possible
  <2>4. SameSlot(op.cmd.name, op.cmd.wish)' = SameSlot(c.name, c.wish)'
    BY <1>5 DEF SameSlot
  <2> QED BY <1>5, <2>1, <2>2, <2>3, <2>4 DEF PlanOK
<1>7. OpenOK'
  BY <1>2, <1>5 DEF OpenOK, Beginning, PublishesSsh, LastCallOf
<1>8. RemoveOK'
  BY <1>1, <1>2, <1>5 DEF RemoveOK, Beginning, First, SshOf, Of
<1>9. AccessOK'
  <2>1. op.todo = <<>>
    BY DEF Idle, NoOp
  <2> QED BY <1>1, <2>1 DEF JInv, AccessOK, SshOf, Of
<1> QED BY <1>6, <1>7, <1>8, <1>9 DEF JInv

\* A command goes on as it was.
LEMMA SameKeeps ==
  ASSUME JInv, Elsewhere, op' = op, count' \in CountType, count'.crashes = count.crashes
  PROVE  JInv'
<1>1. inventory' = inventory /\ host' = host
  BY DEF Elsewhere, files, adapters
<1>2. PlanOK'
  BY <1>1 DEF JInv, PlanOK, PlanOf, SameSlot, SshOf, Of
<1>3. OpenOK' /\ RemoveOK'
  BY <1>1 DEF JInv, OpenOK, RemoveOK, PublishesSsh, SshOf, Of, First
<1>4. AccessOK'
  BY <1>1 DEF JInv, AccessOK, SshOf, Of, Publishing, Revoking, RevokesAt, PublishesSsh
<1> QED BY <1>2, <1>3, <1>4 DEF JInv

LEMMA InitAccess == Init => JInv
<1> SUFFICES ASSUME Init PROVE JInv
  OBVIOUS
<1>1. /\ op.todo = <<>> /\ host.authorized = NoKey
      /\ count = [commands |-> 0, logins |-> 0, faults |-> 0, crashes |-> 0]
  BY DEF Init, HostInit, NoHostSsh, NoOp
<1>2. count \in CountType
  BY <1>1 DEF CountType
<1> QED BY <1>1, <1>2 DEF JInv, PlanOK, OpenOK, RemoveOK, AccessOK

LEMMA CountedType ==
  ASSUME count \in CountType, NEW event \in {"commands", "logins", "faults", "crashes"}, Counted(event)
  PROVE  /\ count' \in CountType
         /\ event # "crashes" => count'.crashes = count.crashes
         /\ event = "crashes" => count'.crashes # 0
<1>1. count' = [count EXCEPT ![event] = @ + 1]
  BY DEF Counted
<1>2. CASE event = "commands"
  BY <1>1, <1>2 DEF CountType
<1>3. CASE event = "logins"
  BY <1>1, <1>3 DEF CountType
<1>4. CASE event = "faults"
  BY <1>1, <1>4 DEF CountType
<1>5. CASE event = "crashes"
  BY <1>1, <1>5 DEF CountType
<1> QED BY <1>2, <1>3, <1>4, <1>5

LEMMA NextAccess == IInv /\ JInv /\ [Next]_vars => JInv'
<1> SUFFICES ASSUME IInv, JInv, [Next]_vars PROVE JInv'
  OBVIOUS
<1>0. count \in CountType
  BY DEF JInv
<1>1. CASE UNCHANGED vars
  BY <1>0, <1>1, SameKeeps DEF vars, Elsewhere
<1>2. ASSUME NEW c \in Command, Begin(c) PROVE JInv'
  <2>1. Idle /\ Possible(c) /\ Counted("commands") /\ Elsewhere /\ \E from : Start(c, from)
    BY <1>2 DEF Begin, Elsewhere
  <2> QED BY <1>0, <2>1, CountedType, StartKeeps
<1>3. ASSUME NEW c \in Command, Schedule(c) PROVE JInv'
  <2>1. Counted("commands") /\ Elsewhere /\ op' = op
    BY <1>3 DEF Schedule, Elsewhere
  <2> QED BY <1>0, <2>1, CountedType, SameKeeps
<1>4. CASE Work
  <2>1. Elsewhere /\ count' = count /\ job.state = "scheduled"
    BY <1>4 DEF Work, Elsewhere
  <2>2. CASE Idle /\ Possible(job.cmd) /\ Start(job.cmd, "worker")
    <3>1. PICK c \in Command : c = job.cmd
      BY <2>1 DEF IInv, CommandOK
    <3> QED BY <1>0, <2>1, <2>2, <3>1, StartKeeps
  <2>3. CASE op' = op
    BY <1>0, <2>1, <2>3, SameKeeps
  <2> QED BY <1>4, <2>2, <2>3 DEF Work
<1>5. CASE Repeat
  <2>1. Elsewhere /\ count' = count /\ Idle /\ Possible(failed) /\ Start(failed, "console")
    BY <1>5 DEF Repeat, Elsewhere
  <2>2. PICK c \in Command : c = failed
    BY <1>5 DEF Repeat, IInv, CommandOK
  <2> QED BY <1>0, <2>1, <2>2, StartKeeps
<1>6. CASE Run
  BY <1>6, RunKeeps
<1>7. CASE End
  <2>1. Elsewhere /\ count' = count /\ op.todo = <<>> /\ op'.todo = <<>>
    BY <1>7 DEF End, Elsewhere, NoOp
  <2>2. host' = host /\ inventory' = inventory
    BY <2>1 DEF Elsewhere, adapters, files
  <2>3. count.crashes = 0 /\ host.authorized # NoKey => SshOf(inventory) # {}
    BY <2>1 DEF JInv, AccessOK
  <2> QED BY <1>0, <2>1, <2>2, <2>3, DoneKeeps
<1>8. CASE Login
  <2>1. Elsewhere /\ op' = op /\ Counted("logins")
    BY <1>8 DEF Login, Elsewhere
  <2> QED BY <1>0, <2>1, CountedType, SameKeeps
<1>9. CASE Logout
  BY <1>0, <1>9, SameKeeps DEF Logout, Elsewhere
<1>10. CASE Fault
  BY <1>0, <1>10, FaultGoes, GoesOnKeeps
<1>11. CASE Crash
  <2>1. Counted("crashes") /\ op'.todo = <<>>
    BY <1>11 DEF Crash, NoOp
  <2> QED BY <1>0, <2>1, CountedType, DoneKeeps
<1> QED BY <1>1, <1>2, <1>3, <1>4, <1>5, <1>6, <1>7, <1>8, <1>9, <1>10, <1>11 DEF Next

\* Unless a process died, no key opens the host while nomina.yaml records no host SSH: cli.js
\* takes back what a failed publication authorized, and a removal closes the door first.
THEOREM NoAccessIsUnrecorded == Spec => []NoUnrecordedAccess
<1>1. JInv => NoUnrecordedAccess
  BY DEF JInv, AccessOK, NoUnrecordedAccess, Idle, NoOp
<1>2. Spec => []JInv
  BY InitAccess, NextAccess, InductiveExposures, PTL DEF Spec
<1> QED BY <1>1, <1>2, PTL
-----------------------------------------------------------------------------
(* Callers survive *)

\* Calls that leave the daemon, its keys and its sessions alone.
Gentle(ssh, t) ==
  \/ t.call \in {"save", "prepare-key"}
  \/ t.call \notin Nameless \cup Starters /\ t.block # "host" /\ t.name \notin ssh

\* A command that runs in a managed session is gentle to the end: what it calls, and what it
\* takes back after a failure, is not about host SSH.
SessionOK ==
  op.from = "session" /\ op.todo # <<>> =>
    ~PublishesSsh /\ \A i \in DOMAIN op.todo : Gentle(S_, op.todo[i])

\* The calls of a command that goes on stay gentle.
LEMMA GoesOnGently ==
  ASSUME IInv, SessionOK, op.todo # <<>>, GoesOn, inventory' = inventory
  PROVE  SessionOK'
<1> SUFFICES ASSUME op'.from = "session", op'.todo # <<>>
             PROVE  ~PublishesSsh' /\ \A i \in DOMAIN op'.todo : Gentle(S_', op'.todo[i])
  BY DEF SessionOK
<1>1. /\ op.from = "session" /\ op'.cmd = op.cmd /\ op'.plan = op.plan
      /\ op'.todo \in Seq(CallRecord) /\ DOMAIN op'.todo = 1..Len(op'.todo) /\ Len(op'.todo) \in Nat
  BY DEF GoesOn
<1>2. ~PublishesSsh /\ ~PublishesSsh' /\ S_' = S_
  BY <1>1 DEF SessionOK, PublishesSsh, S_, Known, KnownSsh, Planned
<1>3. \A i \in DOMAIN op.todo : Gentle(S_, op.todo[i])
  BY <1>1 DEF SessionOK
<1>4. /\ 1 \in DOMAIN op.todo /\ First = op.todo[1] /\ Len(op.todo) \in Nat \ {0}
      /\ DOMAIN op.todo = 1..Len(op.todo)
  BY TodoFacts
<1>5. Gentle(S_, First) /\ ~NewSsh(First)
  BY <1>2, <1>3, <1>4 DEF NewSsh, PublishesSsh
<1>6. First \in CallType(N_, S_)
  BY FirstFacts DEF IInv, FirstOK, RestOK
<1>7. SUFFICES ASSUME NEW i \in DOMAIN op'.todo PROVE Gentle(S_, op'.todo[i])
  BY <1>2
<1>9. CASE Drops
  <2>1. PICK m \in 1..Len(op.todo) :
          /\ Len(op'.todo) = Len(op.todo) - m
          /\ \A j \in 1..Len(op'.todo) : op'.todo[j] = op.todo[j + m]
    BY <1>9 DEF Drops
  <2> DEFINE k == Len(op.todo)
             l == Len(op'.todo)
  <2>2. k \in Nat /\ m \in 1..k /\ l = k - m /\ i \in 1..l
    BY <1>1, <1>4, <2>1
  <2> HIDE DEF k, l
  <2>3. i + m \in 1..k
    BY <2>2
  <2>4. i + m \in DOMAIN op.todo /\ op'.todo[i] = op.todo[i + m]
    BY <1>4, <2>1, <2>2, <2>3 DEF k, l
  <2> QED BY <1>3, <2>4
<1>10. CASE RollsBack
  <2>1. First.block # "host"
    BY <1>5, <1>6 DEF Gentle, CallType, KeyCalls
  <2>2. /\ op'.todo[i].name = First.name /\ op'.todo[i].call \notin Openers \cup Nameless
        /\ op'.todo[i].block = "undo" /\ First.block \in {"relocation", "forward"}
    BY <1>5, <1>10, <2>1 DEF RollsBack
  <2>3. First.name \notin S_
    BY <1>5, <1>6, <2>2 DEF Gentle, CallType, RelocationCalls, ForwardCalls
  <2> QED BY <2>2, <2>3 DEF Gentle, Openers
<1>11. CASE Expands
  <2>1. First.call \in Compound \ Starters /\ First.name \notin S_ /\ First.block # "host"
    BY <1>5, <1>6, <1>11 DEF Expands, Compound, Gentle, CallType, Starters, Nameless, KeyCalls
  <2>2. PICK list \in Seq(CallRecord) :
          /\ Made(list)
          /\ \/ i \in DOMAIN list /\ op'.todo[i] = list[i]
             \/ i - Len(list) + 1 \in 2..Len(op.todo) /\ op'.todo[i] = op.todo[i - Len(list) + 1]
    BY <1>1, <1>11, ExpandsTodo
  <2>3. CASE i \in DOMAIN list /\ op'.todo[i] = list[i]
    <3>1. /\ list[i].name = First.name /\ list[i].call \notin Openers \cup Nameless
          /\ list[i].block = First.block \/ list[i].block = "relocation"
      BY <2>1, <2>2, <2>3 DEF Made
    <3> QED BY <2>1, <2>3, <3>1 DEF Gentle, Openers
  <2>4. CASE i - Len(list) + 1 \in 2..Len(op.todo) /\ op'.todo[i] = op.todo[i - Len(list) + 1]
    <3> DEFINE j == i - Len(list) + 1
    <3>1. j \in 2..Len(op.todo) /\ op'.todo[i] = op.todo[j]
      BY <2>4
    <3> HIDE DEF j
    <3>2. j \in DOMAIN op.todo
      BY <1>4, <3>1
    <3> QED BY <1>3, <3>1, <3>2
  <2> QED BY <2>2, <2>3, <2>4
<1> QED BY <1>9, <1>10, <1>11 DEF GoesOn

\* A command that begins in a session is gentle, unless it publishes everything again.
LEMMA StartsGently ==
  ASSUME IInv, Inline \cap {"redirect", "vpn"} = {}, NEW c \in Command, Possible(c),
         c.do \in Inline, ~Defers(c), Start(c, "session"), inventory' = inventory
  PROVE  SessionOK'
<1> DEFINE P == PlanOf(c)
           L == CallsOf(c)
           S == KnownSsh(P)
<1>1. inventory \in Services /\ domain \in Domain
  BY DEF IInv, WorldOK, Services
<1>2. Beginning(c, L, Known(P), S)
  BY <1>1, CommandCalls
<1>3. op' = [NoOp EXCEPT !.cmd = c, !.from = "session", !.todo = L, !.plan = P]
  BY DEF Start
<1>4. op'.cmd = c /\ op'.todo = L /\ op'.plan = P
  <2> HIDE DEF P, L
  <2> QED BY <1>3 DEF NoOp
<1>5. S_' = S
  <2> HIDE DEF P, L
  <2> QED BY <1>4 DEF S_, Known, KnownSsh, Planned
<1>6. c.do \in {"publish", "remove", "prepare"}
  BY CommandFields DEF Defers
<1>7. CASE c.do = "publish"
  <2>1. c.wish.protocol # "ssh" /\ c.name \in Name /\ c.wish \in Exposure
    BY <1>7, CommandFields DEF Defers
  <2>2. c.name \notin S
    <3>1. Planned(P, c.name) = c.wish
      BY <1>1, <1>7, <2>1, WishesAreExposures DEF PlanOf, Planned, Services
    <3> QED BY <2>1, <3>1 DEF KnownSsh
  <2> HIDE DEF P, L, S
  <2>3. \A i \in DOMAIN L : L[i].name = c.name /\ L[i].call \notin Openers /\ Mild(L[i])
    BY <1>2, <1>7, <2>1 DEF Beginning
  <2> QED BY <1>4, <1>5, <1>7, <2>1, <2>2, <2>3 DEF SessionOK, PublishesSsh, Gentle, Mild, Openers
<1>8. CASE c.do = "remove"
  <2>1. c.name \in Name /\ inventory[c.name] # Absent /\ inventory[c.name].protocol # "ssh"
    BY <1>8, CommandFields DEF Defers, Possible, SshOf, Of
  <2>2. c.name \notin S
    <3>1. Planned(P, c.name) = inventory[c.name]
      BY <1>1, <1>8, <2>1 DEF PlanOf, Planned, Services
    <3> QED BY <2>1, <3>1 DEF KnownSsh
  <2> HIDE DEF P, L, S
  <2>3. \A i \in DOMAIN L : L[i].name = c.name /\ L[i].call \notin Openers /\ Mild(L[i])
    BY <1>2, <1>8, <2>1 DEF Beginning
  <2> QED BY <1>4, <1>5, <1>8, <2>2, <2>3 DEF SessionOK, PublishesSsh, Gentle, Mild, Openers
<1>9. CASE c.do = "prepare"
  <2> HIDE DEF P, L, S
  <2>1. \A i \in DOMAIN L : L[i].call = "prepare-key"
    BY <1>2, <1>9 DEF Beginning
  <2> QED BY <1>4, <1>9, <2>1 DEF SessionOK, PublishesSsh, Gentle
<1> QED BY <1>6, <1>7, <1>8, <1>9

\* A gentle call cuts nobody off.
LEMMA GentleRun ==
  ASSUME IInv, SessionOK, Run, op.from = "session"
  PROVE  session' = session
<1>1. CASE Checks
  BY <1>1 DEF Checks, CheckSlot, CheckForwarding, CheckDns, CheckWeb, CheckHost, CheckOwned, Inspect,
     Stay
<1>2. CASE Expand
  BY <1>2 DEF Expand, EnableHost, ActivateKey, ReplaceKey, Relocate, Unforward
<1>3. ASSUME op.todo # <<>>
      PROVE  Gentle(S_, First) /\ FirstOK
  <2>1. 1 \in DOMAIN op.todo /\ First = op.todo[1]
    BY <1>3, TodoFacts
  <2> QED BY <1>3, <2>1, FirstFacts DEF SessionOK, IInv
<1>4. CASE HostCalls
  <2>1. ~Terminate
    BY <1>3 DEF Terminate, On, Gentle, Nameless
  <2> QED BY <1>4, <2>1 DEF HostCalls, OnHost, PrepareReplacement, AuthorizeKey, RevokeAccess,
          StopHost, VerifyHost, Stay
<1>5. ASSUME op.todo # <<>>, First.call \in {"install", "remove-forwarding", "undo-units"}
      PROVE  PortOf(First) # SshPort
  <2>1. First.name \notin S_ /\ First.call \notin Nameless
    BY <1>3, <1>5 DEF Gentle, Nameless
  <2> QED BY <1>3, <1>5, <2>1 DEF FirstOK
<1>6. CASE ProxyCalls
  <2>1. Install => session' = session
    BY <1>5 DEF Install, On, Cut
  <2>2. RemoveUnits("remove-forwarding") \/ RemoveUnits("undo-units") => session' = session
    BY <1>5 DEF RemoveUnits, On, Cut
  <2> QED BY <1>6, <2>1, <2>2 DEF ProxyCalls, OnProxy, OnGateway, StartPrivateAdmin, Restore
<1>7. CASE NameCalls
  BY <1>7 DEF NameCalls
<1>8. CASE Save
  BY <1>8 DEF Save
<1>9. ~DeleteProject
  BY <1>3 DEF DeleteProject, On, Gentle, Nameless
<1> QED BY <1>1, <1>2, <1>4, <1>6, <1>7, <1>8, <1>9 DEF Run

LEMMA RunGently ==
  ASSUME IInv, JInv, SessionOK, Run
  PROVE  SessionOK'
<1>1. UNCHANGED <<job, failed>> /\ count' = count /\ count \in CountType
  BY DEF Run, JInv
<1>2. CASE Save
  <2>1. op.todo # <<>> /\ First.call = "save" /\ Continue /\ inventory' = op.plan
    BY <1>2 DEF Save, On
  <2>2. op.plan \in Services /\ Good(op.plan)
    BY DEF IInv, CommandOK, OpType, Services
  <2>3. op'.todo = <<>>
    BY <1>1, <2>1, <2>2, LastCall DEF Ends
  <2> QED BY <2>3 DEF SessionOK
<1>3. CASE DeleteProject
  <2>1. /\ op.todo # <<>> /\ First.call = "delete-project" /\ Continue
        /\ inventory' = [n \in Name |-> Absent]
    BY <1>3 DEF DeleteProject, On
  <2>2. inventory' \in Services /\ Good(inventory')
    BY <2>1 DEF Services, Good
  <2>3. op'.todo = <<>>
    BY <1>1, <2>1, <2>2, LastCall DEF Ends
  <2> QED BY <2>3 DEF SessionOK
<1>4. CASE Checks \/ Expand \/ HostCalls \/ ProxyCalls \/ NameCalls
  <2>1. op.todo # <<>> /\ GoesOn /\ KeyRule
    BY <1>1, <1>4, ChecksGo, ExpandGoesOn, HostCallsGo, ProxyCallsGo
  <2> QED BY <2>1, GoesOnGently DEF KeyRule
<1> QED BY <1>2, <1>3, <1>4 DEF Run

LEMMA NextGently ==
  ASSUME IInv, JInv, SessionOK, [Next]_vars, Inline \cap {"redirect", "vpn"} = {}
  PROVE  SessionOK'
<1>1. ASSUME op' = op, inventory' = inventory PROVE SessionOK'
  BY <1>1 DEF SessionOK, PublishesSsh, Gentle, S_, Known, KnownSsh, Planned
<1>2. ASSUME op'.todo = <<>> \/ op'.from # "session" PROVE SessionOK'
  BY <1>2 DEF SessionOK
<1>3. ASSUME NEW c, NEW from, from # "session", Start(c, from) PROVE op'.from # "session"
  BY <1>3 DEF Start, NoOp
<1>4. CASE UNCHANGED vars
  BY <1>1, <1>4 DEF vars, files
<1>5. ASSUME NEW c \in Command, Begin(c) PROVE SessionOK'
  <2>1. CASE Start(c, "console")
    BY <1>2, <1>3, <2>1
  <2>2. CASE c.do \in Inline /\ ~Defers(c) /\ Start(c, "session")
    <3>1. Possible(c) /\ inventory' = inventory
      BY <1>5 DEF Begin, files
    <3> QED BY <2>2, <3>1, StartsGently
  <2> QED BY <1>5, <2>1, <2>2 DEF Begin
<1>6. ASSUME NEW c \in Command, Schedule(c) PROVE SessionOK'
  BY <1>1, <1>6 DEF Schedule, files
<1>7. CASE Work
  <2>1. CASE Start(job.cmd, "worker")
    BY <1>2, <1>3, <2>1
  <2>2. CASE op' = op
    BY <1>1, <1>7, <2>2 DEF Work, files
  <2> QED BY <1>7, <2>1, <2>2 DEF Work
<1>8. CASE Repeat
  BY <1>2, <1>3, <1>8 DEF Repeat
<1>9. CASE Run
  BY <1>9, RunGently
<1>10. CASE End \/ Crash
  <2>1. op'.todo = <<>>
    BY <1>10 DEF End, Crash, NoOp
  <2> QED BY <1>2, <2>1
<1>11. CASE Login \/ Logout
  BY <1>1, <1>11 DEF Login, Logout, files
<1>12. CASE Fault
  <2>1. op.todo # <<>> /\ GoesOn /\ KeyRule
    BY <1>12, FaultGoes DEF JInv
  <2> QED BY <2>1, GoesOnGently DEF KeyRule
<1> QED BY <1>4, <1>5, <1>6, <1>7, <1>8, <1>9, <1>10, <1>11, <1>12 DEF Next

LEMMA CallerStays ==
  ASSUME IInv, SessionOK, [Next]_vars, ~Idle, op.from = "session", session # "none"
  PROVE  session' # "none"
<1>1. CASE UNCHANGED vars
  BY <1>1 DEF vars
<1>2. CASE \E c \in Command : Begin(c) \/ Schedule(c)
  BY <1>2 DEF Begin, Schedule
<1>3. CASE Work \/ Repeat \/ End \/ Crash \/ Fault
  BY <1>3 DEF Work, Repeat, End, Crash, Fault
<1>4. CASE Run
  BY <1>4, GentleRun
<1>5. CASE Login \/ Logout
  BY <1>5 DEF Login, Logout
<1> QED BY <1>1, <1>2, <1>3, <1>4, <1>5 DEF Next

\* A command that is given over a managed session does not cut its caller off, whatever fails and
\* is taken back: deferSshOperation hands over what would.  The two commands that publish every
\* exposure again, host SSH among them, do not ask, so a caller must not give them this way.
THEOREM CallersSurvive ==
  ASSUME Inline \cap {"redirect", "vpn"} = {}
  PROVE  Spec => CallerSurvives
<1>1. Init => SessionOK
  BY DEF Init, NoOp, SessionOK
<1>2. IInv /\ JInv /\ SessionOK /\ [Next]_vars => SessionOK'
  BY NextGently
<1>3. IInv /\ SessionOK /\ [Next]_vars
        => (~Idle /\ op.from = "session" /\ session # "none" => session' # "none")
  BY CallerStays
<1>4. Spec => []JInv
  BY InitAccess, NextAccess, InductiveExposures, PTL DEF Spec
<1> QED BY <1>1, <1>2, <1>3, <1>4, InductiveExposures, PTL DEF Spec, CallerSurvives

-----------------------------------------------------------------------------
(* What is recorded is served *)

\* The commands of users in a world without faults and crashes.
Calm == count.faults = 0 /\ count.crashes = 0

\* What a command was given, and what it finds when it begins.
Setting == [cmd |-> op.cmd, plan |-> op.plan, inventory |-> inventory, domain |-> domain]

\* The domain that a command leaves.
TargetOf(v) == IF v.cmd.do = "domain" THEN v.cmd.to ELSE v.domain

\* The exposure that a name stands for, as in Subject.
SubjectIn(v, n) == IF v.plan[n] = Absent THEN v.inventory[n] ELSE v.plan[n]

StreamIn(v, t) == IsStream(SubjectIn(v, t.name))

SshIn(v, t) == SubjectIn(v, t.name).protocol = "ssh"

\* Commands that publish everything again, and those that make the daemon's keys anew.
Everything == {"domain", "redirect", "vpn"}

PublishesSshIn(v) == v.cmd.do = "publish" /\ v.cmd.wish.protocol = "ssh"

MakesKeys(v) == v.cmd.do \in {"activate", "replace"} \/ PublishesSshIn(v)

Streams(services) == {n \in Of(services) : IsStream(services[n])}

StreamPorts(services) == {services[n].port : n \in Streams(services)}

\* Every exposure has its slot.
Unique(services) == \A n \in Of(services) : SlotFree(services, n, services[n])

\* The proxy's own sshd, which host SSH moves to AdminPort, leaves that port to nobody.
Compatible(services) ==
  proxy.stock = "ssh" => ~(SshPort \in StreamPorts(services) /\ AdminPort \in StreamPorts(services))

GatewayOK(x) == (x.port \in gateway.ports) = (gateway.up /\ x.tailnet)

Forwarded(x, d) == proxy.record[x.port] = <<x.label, d>> /\ x.port \in proxy.live

ServedAt(x, d) ==
  /\ <<x.label, d>> \in dns
  /\ IF IsStream(x) THEN Forwarded(x, d) /\ GatewayOK(x) ELSE <<x.label, d>> \in routes

OwnedIn(services, d, p) == \E n \in Streams(services) : services[n].port = p /\ Forwarded(services[n], d)

\* Between commands: everything recorded is served, and nothing else is forwarded.
NetRest(services, d) ==
  /\ \A n \in Of(services) : ServedAt(services[n], d)
  /\ \A p \in Port : proxy.record[p] = Free \/ OwnedIn(services, d, p)

HostRest ==
  /\ \A n \in SshOf(inventory) : HostHealthy(inventory[n].account)
  /\ SshOf(inventory) = {} => ~HostEnabled

\* The proxy's sshd has made room for a forwarding that is there.
Steady == proxy.saved = "none" \/ (proxy.admin = "private" /\ SshPort \in proxy.live)

AtRest == NetRest(inventory, domain) /\ HostRest /\ Steady

\* At any time.
Sound ==
  /\ Unique(inventory) /\ Compatible(inventory)
  /\ proxy.record = proxy.unit
  /\ \A p \in Port : (p \in proxy.live) = (proxy.record[p] # Free)
  /\ gateway.ports \subseteq proxy.live
  /\ proxy.admin = "private" => proxy.stock = "ssh"
  /\ ~op.late

-----------------------------------------------------------------------------
(* The lists of calls, once more: what comes after a call *)

UnitBlocks == {"publish", "relocation", "forward"}

Checking == {"check-slot", "check-forwarding", "check-dns"}

Restoring == {"restore", "stop-admin", "start-stock", "forget-activity"}

Withdrawing == {"unforward", "close-gateway", "remove-forwarding", "delete-record", "delete-route"}
                 \cup Restoring

Closing == {"revoke-keys", "disable-record", "terminate", "stop-daemon"}

Writing == {"make-directory", "write-record", "write-config", "write-unit"}

Cleaning == {"check-owned", "remove-unit", "reload", "remove-record", "remove-files"}

UnitVerbs == {"check-forwarding", "check-dns", "check-web", "relocate", "close-gateway", "install",
              "open-gateway", "publish-record", "publish-route"} \cup RelocationCalls

StreamVerbs == {"check-forwarding", "check-dns", "relocate", "close-gateway", "install",
                "open-gateway", "unforward", "remove-forwarding"}

WebVerbs == {"check-web", "publish-route", "delete-route"}

\* Calls that another one always follows, about the same exposure.
Leads(v, s) ==
  \/ s.call \in {"check-slot", "check-forwarding", "check-dns", "check-web", "open-gateway",
                 "relocate", "start-private", "save-activity", "stop-admin", "start-stock", "install",
                 "revoke-keys", "disable-record", "terminate", "install-key", "authorize",
                 "start-daemon", "enable-record"}
  \/ s.call \in Writing \cup Cleaning
  \/ Forwards(s)
  \/ s.call = "publish-record" /\ ~StreamIn(v, s)
  \/ s.call = "remove-forwarding" /\ SshIn(v, s)
  \/ s.call = "stop-daemon" /\ v.cmd.do # "remove"

\* Calls that always follow another one, and those that never do.
Led == {"publish-record", "publish-route", "start-daemon", "enable-record", "verify", "enable-host"}

Leading(t) ==
  \/ t.call \in {"revoke-keys", "prepare-key", "activate-key", "replace-key"}
  \/ t.call = "close-gateway" /\ t.block # "forward"

NextInUnit(v, s, t) ==
  /\ s.call = "check-slot" => t.call = IF StreamIn(v, s) THEN "check-forwarding" ELSE "check-web"
  /\ s.call = "check-forwarding" => t.call = "check-dns"
  /\ s.call = "check-dns" => t.call = IF s.block = "plain" THEN "enable-host" ELSE "relocate"
  /\ s.call \in {"check-web", "open-gateway"} => t.call = "publish-record"
  /\ s.call \in {"relocate", "start-private"} => Forwards(t)
  /\ s.call = "save-activity" => t.call = "stop-admin"
  /\ s.call = "stop-admin" => t.call = IF s.block = "relocation" THEN "start-private" ELSE "start-stock"
  /\ s.call = "start-stock" => t.call = "forget-activity"
  /\ Forwards(s) => t.call = "install"
  /\ s.call = "install" => t.call = "open-gateway"
  /\ s.call = "publish-record" => t.call = "publish-route" \/ StreamIn(v, s)
  /\ s.call = "remove-forwarding" => t.call = "restore" \/ ~SshIn(v, s)

NextOnHost(v, s, t) ==
  /\ s.call = "revoke-keys" => t.call = "disable-record"
  /\ s.call = "disable-record" => t.call = "terminate"
  /\ s.call = "terminate" => t.call = "stop-daemon"
  /\ s.call = "stop-daemon" => \/ v.cmd.do = "remove"
                               \/ v.cmd.do = "uninstall" /\ t.call = "check-owned"
                               \/ MakesKeys(v) /\ t.call \in {"enable-host", "install-key", "write-config"}
  /\ s.call = "make-directory" => t.call = "write-record"
  /\ s.call = "write-record" => t.call = IF s.block = "host" THEN "install-key" ELSE "write-config"
  /\ s.call = "write-config" => t.call = IF s.block = "host" THEN "write-record" ELSE "write-unit"
  /\ s.call = "write-unit" => t.call = "install-key"
  /\ s.call = "install-key" => t.call = "authorize"
  /\ s.call = "authorize" => t.call = "start-daemon"
  /\ s.call = "start-daemon" => t.call = "enable-record"
  /\ s.call = "enable-record" => t.call = "verify"
  /\ s.call = "check-owned" => t.call = "remove-unit"
  /\ s.call = "remove-unit" => t.call = "reload"
  /\ s.call = "reload" => t.call = "remove-record"
  /\ s.call = "remove-record" => t.call = "remove-files"
  /\ s.call = "remove-files" => t.call = "delete-project"

LedBy(s, t) ==
  /\ ~Leading(t)
  /\ t.call = "publish-record" => s.call \in {"check-web", "open-gateway"}
  /\ t.call = "publish-route" => s.call = "publish-record" /\ s.name = t.name /\ s.to = t.to
  /\ t.call = "start-daemon" => s.call = "authorize"
  /\ t.call = "enable-record" => s.call = "start-daemon"
  /\ t.call = "verify" => s.call = "enable-record"
  /\ t.call = "enable-host" => s.call \in {"check-dns", "stop-daemon"}

Joins(v, s, t) ==
  /\ Leads(v, s) => /\ t.name = s.name /\ t.to = s.to
                    /\ \/ t.block = s.block
                       \/ s.call \in {"relocate", "start-private", "open-gateway", "stop-daemon", "write-unit"}
                    /\ NextInUnit(v, s, t) /\ NextOnHost(v, s, t)
  /\ LedBy(s, t)

Joined(v, s) == /\ \A i \in 1..(Len(s) - 1) : Joins(v, s[i], s[i + 1])
                /\ s # <<>> => ~Leads(v, s[Len(s)])

-----------------------------------------------------------------------------
(* The calls that a command makes *)

\* The host's daemon of the one exposure that a removal takes away.
RemovesSsh(v) == v.cmd.do = "remove" /\ v.cmd.name \in SshOf(v.inventory)

BareCall(v, t) ==
  /\ t.block = "plain"
  /\ \/ t.call = "save" /\ v.cmd.do \in Everything \cup {"publish", "remove"}
     \/ t.call = "start-gateway" /\ v.cmd.do = "vpn"
     \/ t.call \in Checking /\ PublishesSshIn(v)
     \/ t.call \in Writing \cup {"enable-host"} /\ MakesKeys(v)
     \/ t.call \in Closing /\ (MakesKeys(v) \/ RemovesSsh(v) \/ v.cmd.do = "uninstall")
     \/ t.call \in Withdrawing /\ v.cmd.do = "remove"
     \/ t.call = "prepare-key" /\ v.cmd.do = "prepare"
     \/ t.call = "activate-key" /\ v.cmd.do = "activate"
     \/ t.call = "replace-key" /\ v.cmd.do = "replace"
     \/ t.call \in Cleaning \cup {"delete-project"} /\ v.cmd.do = "uninstall"

UnitCall(v, t) ==
  /\ t.block \in UnitBlocks /\ v.cmd.do \in Everything \cup {"publish"}
  /\ t.name \in Of(v.plan) /\ t.to = TargetOf(v)
  /\ t.call \in UnitVerbs \cup {"check-slot", "inspect", "check-host"}
  /\ t.call = "close-gateway" => t.block = "forward"

WithdrawCall(v, t) ==
  /\ t.block = "withdraw" /\ v.cmd.do = "domain"
  /\ t.name \in Of(v.inventory) /\ t.to = v.domain
  /\ t.call \in Withdrawing

Menu(v) ==
  {t \in CallRecord :
     /\ \/ UnitCall(v, t) \/ WithdrawCall(v, t)
        \/ t.block = "host" /\ MakesKeys(v) /\ t.call \in KeyCalls
        \/ BareCall(v, t)
     /\ t.call = "save" => t.to = TargetOf(v)
     /\ v.cmd.do \in {"remove", "publish"} => t.name = v.cmd.name /\ t.to = v.domain
     /\ v.cmd.do \in {"activate", "replace"} => t.name \in SshOf(v.inventory)
     /\ t.call = "delete-record" /\ v.cmd.do = "remove"
          => ~SharesDns(v.inventory, t.name, v.inventory[t.name])
     /\ t.call = "check-host" => t.name \in SshOf(v.inventory) /\ v.cmd.do \in Everything
     /\ t.call \in StreamVerbs => StreamIn(v, t)
     /\ t.call \in WebVerbs => ~StreamIn(v, t)}

\* The first call of a publication.
Begins(t, m) == t.call = "check-slot" /\ t.block = "publish" /\ t.name = m

Ahead(s, i, m) == \E j \in DOMAIN s : i < j /\ Begins(s[j], m)

\* A domain change withdraws everything before it publishes, and streams are published
\* after the gateway has started.
PhasedNet(v, s) ==
  /\ \A i, j \in DOMAIN s : i < j /\ s[j].block = "withdraw" => s[i].block = "withdraw"
  /\ \A i \in DOMAIN s : s[i].block = "withdraw" => \A m \in Of(v.plan) : Ahead(s, i, m)
  /\ \A i \in DOMAIN s : s[i].call = "start-gateway" => \A m \in Streams(v.plan) : Ahead(s, i, m)

\* Before a publication changes anything but the host's daemon, and before it changes anything.
BeforeNet == Checking \cup {"check-web", "enable-host"} \cup KeyCalls \cup Closing \cup Writing

Early(t) == t.block = "plain" /\ t.call \in Checking

PhasedPublication(v, s) ==
  v.cmd.do = "publish" =>
    \A i, j \in DOMAIN s : i < j =>
      /\ s[j].call \in BeforeNet => s[i].call \in BeforeNet
      /\ Early(s[j]) \/ s[j].call = "enable-host" => Early(s[i])

Phased(v, s) == PhasedNet(v, s) /\ PhasedPublication(v, s)

\* How commands end.
Finals(v) ==
  CASE v.cmd.do = "uninstall" -> {"delete-project"}
    [] v.cmd.do = "prepare"   -> {"prepare-key"}
    [] v.cmd.do = "activate"  -> {"activate-key", "enable-host", "verify"}
    [] v.cmd.do = "replace"   -> {"replace-key", "enable-host", "verify"}
    [] OTHER                  -> {"save"}

Listed(v, s) == /\ s \in Seq(CallRecord) /\ ToSet(s) \subseteq Menu(v) /\ Joined(v, s) /\ Phased(v, s)
                /\ s # <<>> => s[Len(s)].call \in Finals(v)

-----------------------------------------------------------------------------
(* What is under way *)

Awaits(m) == \E t \in ToSet(op.todo) : Begins(t, m)

InUnit(m) == First.block \in UnitBlocks /\ First.name = m /\ First.call \in UnitVerbs

Removes(t, p) == t.call \in {"unforward", "remove-forwarding"} /\ PortOf(t) = p

\* A check of a publication that may still refuse it.
MayRefuse(verbs) ==
  /\ op.cmd.do = "publish" /\ First.call \in verbs
  /\ First.block = IF PublishesSsh THEN "plain" ELSE "publish"

PlanReady ==
  /\ Unique(op.plan) \/ MayRefuse({"check-slot"})
  /\ Compatible(op.plan) \/ MayRefuse({"check-slot", "check-forwarding"})
  /\ PublishesSsh /\ First.call \in BeforeNet /\ ~MayRefuse(Checking)
       => (<<op.cmd.wish.label, domain>> \in dns
             => \E n \in Of(inventory) : inventory[n].label = op.cmd.wish.label)

NetReady ==
  /\ \A m \in Of(op.plan) : ServedAt(op.plan[m], TargetOf(Setting)) \/ Awaits(m) \/ InUnit(m)
  /\ \A p \in Port : \/ proxy.record[p] = Free \/ OwnedIn(op.plan, TargetOf(Setting), p)
                     \/ \E t \in ToSet(op.todo) : Removes(t, p)
  /\ \A t \in ToSet(op.todo) : t.call = "unforward" => proxy.record[PortOf(t)] \in {Free, HostOf(t)}
  /\ op.cmd.do = "publish" /\ First.call \in BeforeNet => NetRest(inventory, domain)

\* What a call that publishes or withdraws finds.
Unsteady(t) == \/ t.call \in Restoring \cup {"start-private"}
               \/ (Forwards(t) \/ t.call = "install") /\ IsSsh(t)

UnitReady(t) ==
  /\ Steady \/ Unsteady(t)
  /\ t.block = "relocation" => SshPort \notin proxy.live /\ proxy.stock = "ssh"
  /\ (Forwards(t) \/ t.call = "install") /\ IsSsh(t)
       => proxy.admin # "ssh" /\ (proxy.saved = "none" \/ proxy.admin = "private")
  /\ t.call \in {"open-gateway", "publish-record"} /\ IsStream(Subject(t))
       => Forwarded(Subject(t), TargetOf(Setting))
  /\ t.call = "publish-record" /\ IsStream(Subject(t)) => GatewayOK(Subject(t))
  /\ t.call = "publish-route" => HostOf(t) \in dns
  /\ t.call = "restore" => SshPort \notin proxy.live /\ (proxy.saved = "none" \/ proxy.admin = "private")
  /\ t.call = "close-gateway" /\ Len(op.todo) > 1 /\ op.todo[2].call = "restore"
       => SshPort \notin proxy.live

\* Commands that leave the host's daemon as it is.
HostIdle == \/ op.cmd.do \in Everything \cup {"prepare"}
            \/ op.cmd.do = "publish" /\ ~PublishesSsh
            \/ op.cmd.do = "remove" /\ op.cmd.name \notin SshOf(inventory)

HostReady(t) ==
  LET a == Subject(t).account
  IN /\ HostIdle \/ MayRefuse(Checking \cup {"enable-host"}) \/ t.call \in {"activate-key", "replace-key"}
          => HostRest
     /\ PublishesSsh /\ (t.block \in UnitBlocks \/ t.call = "save") => HostHealthy(op.cmd.wish.account)
     /\ op.cmd.do \in {"activate", "replace"} /\ t.call \in Closing \cup {"enable-host"}
          => HostOwned /\ host.record = a
     /\ op.cmd.do \in {"activate", "replace"} /\ t.call = "enable-host" => (HostEnabled => op.key # NoKey)
     /\ t.call \in Closing \cup {"check-owned"}
          => HostOwned \/ (op.cmd.do = "uninstall" /\ SshOf(inventory) = {})
     /\ t.call \in {"terminate", "stop-daemon"} => host.disabled
     /\ t.call \in {"authorize", "start-daemon", "enable-record", "verify"}
          => HostOwned /\ host.record = a /\ host.client # NoKey
     /\ t.call \in {"start-daemon", "enable-record", "verify"} => host.client = host.authorized
     /\ t.call \in {"enable-record", "verify"} => host.daemon
     /\ t.call = "verify" => ~host.disabled
     /\ op.cmd.do = "remove" /\ ~HostIdle
          => t.call \in {"revoke-keys", "disable-record"} \/ host.disabled
     /\ op.cmd.do = "uninstall"
          => (t.call \in {"revoke-keys", "disable-record"} /\ SshOf(inventory) # {}) \/ ~HostEnabled

\* The daemon's record, configuration and unit are there when its key is installed.
WrittenBefore(i, verb) == \E j \in DOMAIN op.todo : j < i /\ op.todo[j].call = verb

KeysReady ==
  \A i \in DOMAIN op.todo : op.todo[i].call = "install-key" =>
    LET a == Subject(op.todo[i]).account
    IN /\ host.record = a \/ WrittenBefore(i, "write-record")
       /\ host.config = a \/ WrittenBefore(i, "write-config")
       /\ host.unit \/ WrittenBefore(i, "write-unit")

UnderWay ==
  /\ Listed(Setting, op.todo) /\ PlanReady /\ NetReady /\ UnitReady(First)
  /\ HostReady(First) /\ KeysReady

CalmInv == Calm => Sound /\ IF op.todo = <<>> THEN AtRest ELSE UnderWay

-----------------------------------------------------------------------------
(* A list without its first call, and with others in its place *)

LEMMA FinalsEnd ==
  ASSUME NEW v, NEW t, t.call \in Finals(v)
  PROVE  ~Leads(v, t)
<1>1. t.call \in {"delete-project", "prepare-key", "activate-key", "enable-host", "verify", "replace-key",
                  "save"}
  BY DEF Finals
<1> QED BY <1>1 DEF Leads, Forwards, Writing, Cleaning

LEMMA ListMembers ==
  ASSUME NEW C, NEW s \in Seq(C)
  PROVE  /\ DOMAIN s = 1..Len(s) /\ Len(s) \in Nat /\ ToSet(s) = {s[i] : i \in 1..Len(s)}
         /\ s = <<>> <=> Len(s) = 0
         /\ s # <<>> => /\ Head(s) = s[1] /\ Head(s) \in ToSet(s) /\ Tail(s) \in Seq(C)
                        /\ Len(Tail(s)) = Len(s) - 1 /\ DOMAIN Tail(s) = 1..(Len(s) - 1)
                        /\ \A i \in 1..(Len(s) - 1) : Tail(s)[i] = s[i + 1]
BY DEF ToSet

LEMMA ListedTail ==
  ASSUME NEW v, NEW s, Listed(v, s), s # <<>>
  PROVE  /\ Listed(v, Tail(s)) /\ Head(s) \in Menu(v) /\ Head(s) \in CallRecord
         /\ ToSet(s) = {Head(s)} \cup ToSet(Tail(s))
         /\ Tail(s) # <<>> =>
              /\ Head(Tail(s)) \in ToSet(Tail(s)) /\ Head(Tail(s)) \in Menu(v)
              /\ Joins(v, Head(s), Head(Tail(s)))
         /\ Tail(s) = <<>> => Head(s).call \in Finals(v)
<1> DEFINE u == Tail(s)
           n == Len(s)
<1>1. s \in Seq(CallRecord)
  BY DEF Listed
<1>2. /\ DOMAIN s = 1..n /\ n \in Nat \ {0} /\ ToSet(s) = {s[i] : i \in 1..n}
      /\ Head(s) = s[1] /\ u \in Seq(CallRecord) /\ Len(u) = n - 1 /\ DOMAIN u = 1..(n - 1)
      /\ \A i \in 1..(n - 1) : u[i] = s[i + 1]
  BY <1>1, ListMembers
<1>3. ToSet(u) = {u[i] : i \in 1..(n - 1)} /\ (u # <<>> => Head(u) = u[1] /\ n > 1) /\ (u = <<>> <=> n = 1)
  <2>1. u \in Seq(CallRecord) /\ Len(u) = n - 1 /\ n \in Nat \ {0}
    BY <1>2
  <2> HIDE DEF u, n
  <2>2. /\ ToSet(u) = {u[i] : i \in 1..Len(u)} /\ (u = <<>> <=> Len(u) = 0) /\ (u # <<>> => Head(u) = u[1])
    BY <2>1, ListMembers
  <2> QED BY <2>1, <2>2
<1> HIDE DEF u, n
<1>4. \A i \in 1..(n - 1) : i + 1 \in 1..n /\ i \in 1..n
  BY <1>2
<1>5. ToSet(s) = {s[1]} \cup ToSet(u)
  <2>1. \A i \in 1..n : i = 1 \/ (i - 1 \in 1..(n - 1) /\ (i - 1) + 1 = i)
    BY <1>2
  <2>2. ASSUME NEW t \in ToSet(s) PROVE t \in {s[1]} \cup ToSet(u)
    <3>1. PICK i \in 1..n : t = s[i]
      BY <1>2
    <3> QED BY <1>2, <1>3, <2>1, <3>1
  <2>3. \A t \in ToSet(u) : t \in ToSet(s)
    BY <1>2, <1>3, <1>4
  <2>4. s[1] \in ToSet(s)
    BY <1>2
  <2> QED BY <2>2, <2>3, <2>4
<1>6. ToSet(u) \subseteq Menu(v) /\ s[1] \in Menu(v) /\ s[1] \in CallRecord
  BY <1>1, <1>2, <1>5 DEF Listed
<1>7. \A i \in 1..(n - 1) : Joins(v, s[i], s[i + 1])
  BY DEF Listed, Joined, n
<1>8. Joined(v, u)
  <2>1. \A i \in 1..(Len(u) - 1) : Joins(v, u[i], u[i + 1])
    <3> TAKE i \in 1..(Len(u) - 1)
    <3>1. i \in 1..(n - 1) /\ i + 1 \in 1..(n - 1)
      BY <1>2
    <3> QED BY <1>2, <1>7, <3>1
  <2>2. u # <<>> => u[Len(u)] = s[n]
    BY <1>2, <1>3
  <2>3. ~Leads(v, s[n])
    BY DEF Listed, Joined, n
  <2> QED BY <2>1, <2>2, <2>3 DEF Joined
<1>9. PhasedNet(v, u)
  <2>1. \A i, j \in 1..n : i < j /\ s[j].block = "withdraw" => s[i].block = "withdraw"
    BY <1>2 DEF Listed, Phased, PhasedNet
  <2>2. /\ \A i \in 1..n : s[i].block = "withdraw" => \A m \in Of(v.plan) : Ahead(s, i, m)
        /\ \A i \in 1..n : s[i].call = "start-gateway" => \A m \in Streams(v.plan) : Ahead(s, i, m)
    BY <1>2 DEF Listed, Phased, PhasedNet
  <2>3. ASSUME NEW i \in 1..(n - 1), NEW m, Ahead(s, i + 1, m) PROVE Ahead(u, i, m)
    <3>1. PICK j \in 1..n : i + 1 < j /\ Begins(s[j], m)
      BY <1>2, <2>3 DEF Ahead
    <3>2. j - 1 \in 1..(n - 1) /\ (j - 1) + 1 = j /\ i < j - 1
      BY <1>2, <3>1
    <3>3. u[j - 1] = s[j]
      BY <1>2, <3>2
    <3> QED BY <1>2, <3>1, <3>2, <3>3 DEF Ahead
  <2>4. \A i, j \in 1..(n - 1) : i < j => i + 1 < j + 1
    BY <1>2
  <2> QED BY <1>2, <1>4, <2>1, <2>2, <2>3, <2>4 DEF PhasedNet
<1>10. PhasedPublication(v, u)
  <2>1. v.cmd.do = "publish" =>
          \A i, j \in 1..n : i < j =>
            /\ s[j].call \in BeforeNet => s[i].call \in BeforeNet
            /\ Early(s[j]) \/ s[j].call = "enable-host" => Early(s[i])
    BY <1>2 DEF Listed, Phased, PhasedPublication
  <2>2. \A i, j \in 1..(n - 1) : i < j => i + 1 < j + 1
    BY <1>2
  <2> QED BY <1>2, <1>4, <2>1, <2>2 DEF PhasedPublication
<1>11. (u # <<>> => u[Len(u)] = s[n]) /\ s[n].call \in Finals(v)
  BY <1>2, <1>3 DEF Listed, n
<1>12. Listed(v, u)
  BY <1>2, <1>6, <1>8, <1>9, <1>10, <1>11 DEF Listed, Phased
<1>13. u # <<>> => /\ u[1] \in ToSet(u) /\ u[1] = s[2] /\ Joins(v, s[1], s[2])
  BY <1>2, <1>3, <1>7
<1>14. u = <<>> => s[1].call \in Finals(v)
  BY <1>3, <1>11
<1> QED BY <1>2, <1>3, <1>5, <1>6, <1>12, <1>13, <1>14 DEF u

\* A list of calls that can stand in the place of one.
Fits(v, h, l) ==
  /\ l \in Seq(CallRecord) /\ l # <<>> /\ ~Early(h)
  /\ \A i \in 1..(Len(l) - 1) : Joins(v, l[i], l[i + 1])
  /\ \A t \in ToSet(l) :
       /\ t \in Menu(v) /\ t.call # "start-gateway"
       /\ (t.block = "withdraw") = (h.block = "withdraw")
       /\ v.cmd.do = "publish" => /\ (t.call \in BeforeNet) = (h.call \in BeforeNet)
                                  /\ ~Early(t) /\ t.call # "enable-host"

LEMMA ListedInsert ==
  ASSUME NEW v, NEW s, Listed(v, s), s # <<>>, NEW l, Fits(v, Head(s), l),
         IF Tail(s) = <<>> THEN l[Len(l)].call \in Finals(v) ELSE Joins(v, l[Len(l)], Head(Tail(s)))
  PROVE  /\ Listed(v, l \o Tail(s)) /\ l \o Tail(s) # <<>> /\ Head(l \o Tail(s)) = Head(l)
         /\ ToSet(l \o Tail(s)) = ToSet(l) \cup ToSet(Tail(s))
<1> DEFINE u == l \o Tail(s)
           n == Len(s)
           k == Len(l)
<1>1. s \in Seq(CallRecord) /\ l \in Seq(CallRecord) /\ l # <<>>
  BY DEF Listed, Fits
<1>2. /\ DOMAIN s = 1..n /\ n \in Nat \ {0} /\ Head(s) = s[1]
      /\ Tail(s) \in Seq(CallRecord) /\ Len(Tail(s)) = n - 1 /\ DOMAIN Tail(s) = 1..(n - 1)
      /\ \A i \in 1..(n - 1) : Tail(s)[i] = s[i + 1]
  BY <1>1, ListMembers
<1>3. /\ DOMAIN l = 1..k /\ k \in Nat \ {0} /\ Head(l) = l[1] /\ ToSet(l) = {l[i] : i \in 1..k}
      /\ ToSet(Tail(s)) = {Tail(s)[i] : i \in 1..(n - 1)} /\ (Tail(s) = <<>> <=> n = 1)
      /\ (Tail(s) # <<>> => Head(Tail(s)) = Tail(s)[1])
  <2> DEFINE t == Tail(s)
  <2>1. t \in Seq(CallRecord) /\ Len(t) = n - 1 /\ n \in Nat \ {0}
    BY <1>2
  <2> HIDE DEF t, n, k
  <2>2. /\ ToSet(t) = {t[i] : i \in 1..Len(t)} /\ (t = <<>> <=> Len(t) = 0) /\ (t # <<>> => Head(t) = t[1])
    BY <2>1, ListMembers
  <2>3. DOMAIN l = 1..Len(l) /\ Len(l) \in Nat \ {0} /\ Head(l) = l[1] /\ ToSet(l) = {l[i] : i \in 1..Len(l)}
    BY <1>1, ListMembers
  <2> QED BY <2>1, <2>2, <2>3 DEF t, k
<1>4. /\ u \in Seq(CallRecord) /\ Len(u) = k + (n - 1)
      /\ \A i \in 1..(k + (n - 1)) : u[i] = IF i <= k THEN l[i] ELSE Tail(s)[i - k]
  BY <1>1, <1>2, <1>3, ConcatProperties
<1>5. DOMAIN u = 1..(k + (n - 1)) /\ ToSet(u) = {u[i] : i \in 1..(k + (n - 1))} /\ u # <<>> /\ Head(u) = u[1]
  <2>1. u \in Seq(CallRecord) /\ Len(u) = k + (n - 1) /\ k + (n - 1) # 0
    BY <1>2, <1>3, <1>4
  <2> HIDE DEF u, k, n
  <2>2. /\ DOMAIN u = 1..Len(u) /\ ToSet(u) = {u[i] : i \in 1..Len(u)} /\ (u = <<>> <=> Len(u) = 0)
        /\ (u # <<>> => Head(u) = u[1])
    BY <2>1, ListMembers
  <2> QED BY <2>1, <2>2
<1> HIDE DEF u, n, k
<1>6. /\ \A i \in 1..k : i \in 1..(k + (n - 1)) /\ u[i] = l[i]
      /\ \A i \in 2..n : k + i - 1 \in 1..(k + (n - 1)) /\ k + i - 1 > k /\ u[k + i - 1] = s[i]
      /\ \A j \in 1..(k + (n - 1)) : j \in 1..k \/ (j - k + 1 \in 2..n /\ j > k /\ u[j] = s[j - k + 1])
  <2>1. \A i \in 1..k : i \in 1..(k + (n - 1)) /\ i <= k
    BY <1>2, <1>3
  <2>2. ASSUME NEW i \in 2..n PROVE k + i - 1 \in 1..(k + (n - 1)) /\ k + i - 1 > k /\ u[k + i - 1] = s[i]
    <3> n \in Nat /\ k \in Nat /\ i \in 2..n
      BY <1>2, <1>3
    <3>1. k + i - 1 \in 1..(k + (n - 1)) /\ k + i - 1 > k /\ ~(k + i - 1 <= k) /\ (k + i - 1) - k = i - 1
          /\ i - 1 \in 1..(n - 1) /\ (i - 1) + 1 = i
      OBVIOUS
    <3> QED BY <1>2, <1>4, <3>1
  <2>3. ASSUME NEW j \in 1..(k + (n - 1)), ~(j \in 1..k)
        PROVE  j - k + 1 \in 2..n /\ j > k /\ u[j] = s[j - k + 1]
    <3>1. j - k + 1 \in 2..n /\ j > k /\ ~(j <= k) /\ j - k \in 1..(n - 1)
      BY <1>2, <1>3, <2>3
    <3> QED BY <1>2, <1>4, <3>1
  <2> QED BY <1>4, <2>1, <2>2, <2>3
<1>7. ToSet(u) = ToSet(l) \cup ToSet(Tail(s))
  <2>1. ASSUME NEW t \in ToSet(u) PROVE t \in ToSet(l) \cup ToSet(Tail(s))
    <3>1. PICK j \in 1..(k + (n - 1)) : t = u[j]
      BY <1>5
    <3>2. CASE j \in 1..k
      BY <1>3, <1>6, <3>1, <3>2
    <3>3. CASE ~(j \in 1..k)
      <4>1. j - k \in 1..(n - 1) /\ u[j] = Tail(s)[j - k]
        <5>1. j - k \in 1..(n - 1) /\ ~(j <= k)
          BY <1>2, <1>3, <3>3
        <5> QED BY <1>4, <5>1
      <4> QED BY <1>3, <3>1, <4>1
    <3> QED BY <3>2, <3>3
  <2>2. ASSUME NEW t \in ToSet(l) PROVE t \in ToSet(u)
    BY <1>3, <1>5, <1>6
  <2>3. ASSUME NEW t \in ToSet(Tail(s)) PROVE t \in ToSet(u)
    <3>1. PICK i \in 1..(n - 1) : t = Tail(s)[i]
      BY <1>3
    <3>2. i + 1 \in 2..n
      BY <1>2
    <3>3. t = u[k + (i + 1) - 1] /\ k + (i + 1) - 1 \in 1..(k + (n - 1))
      BY <1>2, <1>6, <3>1, <3>2
    <3> QED BY <1>5, <3>3
  <2> QED BY <2>1, <2>2, <2>3
<1>8. ToSet(u) \subseteq Menu(v) /\ ToSet(l) \subseteq Menu(v)
  <2>1. ToSet(Tail(s)) \subseteq Menu(v)
    BY ListedTail DEF Listed
  <2> QED BY <1>7, <2>1 DEF Fits
<1>9. Joined(v, u)
  <2>1. ASSUME NEW i \in 1..(Len(u) - 1) PROVE Joins(v, u[i], u[i + 1])
    <3>1. CASE i < k
      <4>1. i \in 1..(k - 1) /\ i \in 1..k /\ i + 1 \in 1..k
        BY <1>3, <3>1
      <4> QED BY <1>6, <4>1 DEF Fits, k
    <3>2. CASE i = k
      <4>1. k \in 1..k /\ k + 2 - 1 = i + 1 /\ 2 \in 2..n /\ n # 1 /\ 1 \in 1..(n - 1)
        BY <1>2, <1>3, <1>4, <3>2
      <4>2. u[i] = l[k] /\ u[i + 1] = Head(Tail(s))
        BY <1>2, <1>3, <1>6, <3>2, <4>1
      <4> QED BY <1>3, <4>1, <4>2 DEF k
    <3>3. CASE i > k
      <4> DEFINE j == i - k + 1
      <4>1. j \in 2..n /\ j + 1 \in 2..n /\ k + j - 1 = i /\ k + (j + 1) - 1 = i + 1 /\ j \in 1..(n - 1)
        BY <1>2, <1>3, <1>4, <3>3
      <4> HIDE DEF j
      <4>2. u[i] = s[j] /\ u[i + 1] = s[j + 1]
        BY <1>6, <4>1
      <4> QED BY <4>1, <4>2 DEF Listed, Joined, n
    <3> QED BY <1>2, <1>3, <1>4, <3>1, <3>2, <3>3
  <2>2. ~Leads(v, u[Len(u)])
    <3>1. CASE n = 1
      <4>1. Len(u) = k /\ k \in 1..k /\ u[k] = l[k]
        BY <1>2, <1>3, <1>4, <1>6, <3>1
      <4> QED BY <1>3, <3>1, <4>1, FinalsEnd DEF k
    <3>2. CASE n # 1
      <4>1. n \in 2..n /\ Len(u) = k + n - 1
        BY <1>2, <1>3, <1>4, <3>2
      <4>2. u[Len(u)] = s[n]
        BY <1>6, <4>1
      <4> QED BY <4>2 DEF Listed, Joined, n
    <3> QED BY <3>1, <3>2
  <2> QED BY <2>1, <2>2 DEF Joined
<1>10. u[Len(u)].call \in Finals(v)
  <2>1. CASE n = 1
    <3>1. Len(u) = k /\ k \in 1..k /\ u[k] = l[k]
      BY <1>2, <1>3, <1>4, <1>6, <2>1
    <3> QED BY <1>3, <2>1, <3>1 DEF k
  <2>2. CASE n # 1
    <3>1. n \in 2..n /\ Len(u) = k + n - 1
      BY <1>2, <1>3, <1>4, <2>2
    <3>2. u[Len(u)] = s[n]
      BY <1>6, <3>1
    <3> QED BY <3>2 DEF Listed, n
  <2> QED BY <2>1, <2>2
<1>11. \A i \in 1..k : l[i] \in ToSet(l)
  BY <1>3
<1>12. 1 \in 1..n /\ \A i \in 2..n : i \in 1..n /\ 1 < i
  BY <1>2
<1>13. PhasedNet(v, u)
  <2>1. \A i, j \in 1..n : i < j /\ s[j].block = "withdraw" => s[i].block = "withdraw"
    BY <1>2 DEF Listed, Phased, PhasedNet
  <2>2. /\ \A i \in 1..n : s[i].block = "withdraw" => \A m \in Of(v.plan) : Ahead(s, i, m)
        /\ \A i \in 1..n : s[i].call = "start-gateway" => \A m \in Streams(v.plan) : Ahead(s, i, m)
    BY <1>2 DEF Listed, Phased, PhasedNet
  <2>3. \A i \in 1..k : (l[i].block = "withdraw") = (s[1].block = "withdraw") /\ l[i].call # "start-gateway"
    BY <1>2, <1>11 DEF Fits
  <2>4. ASSUME NEW i \in 1..k, NEW m, Ahead(s, 1, m) PROVE Ahead(u, i, m)
    <3>1. PICK j \in 1..n : 1 < j /\ Begins(s[j], m)
      BY <1>2, <2>4 DEF Ahead
    <3>2. j \in 2..n
      BY <1>2, <3>1
    <3>3. k + j - 1 \in DOMAIN u /\ i < k + j - 1 /\ u[k + j - 1] = s[j]
      BY <1>3, <1>5, <1>6, <3>2
    <3> QED BY <3>1, <3>3 DEF Ahead
  <2>5. ASSUME NEW i \in 1..(k + (n - 1)), NEW m, i > k, Ahead(s, i - k + 1, m) PROVE Ahead(u, i, m)
    <3>1. PICK j \in 1..n : i - k + 1 < j /\ Begins(s[j], m)
      BY <1>2, <2>5 DEF Ahead
    <3>2. j \in 2..n /\ i < k + j - 1
      BY <1>2, <1>3, <2>5, <3>1
    <3>3. k + j - 1 \in DOMAIN u /\ u[k + j - 1] = s[j]
      BY <1>5, <1>6, <3>2
    <3> QED BY <3>1, <3>2, <3>3 DEF Ahead
  <2>6. ASSUME NEW i \in DOMAIN u, NEW j \in DOMAIN u, i < j, u[j].block = "withdraw"
        PROVE  u[i].block = "withdraw"
    <3>1. CASE j \in 1..k
      <4>1. i \in 1..k
        BY <1>2, <1>3, <1>5, <2>6, <3>1
      <4> QED BY <1>6, <2>3, <2>6, <3>1, <4>1
    <3>2. CASE ~(j \in 1..k) /\ i \in 1..k
      <4>1. s[j - k + 1].block = "withdraw" /\ j - k + 1 \in 2..n
        BY <1>5, <1>6, <2>6, <3>2
      <4>2. s[1].block = "withdraw"
        BY <1>12, <2>1, <4>1
      <4> QED BY <1>6, <2>3, <3>2, <4>2
    <3>3. CASE ~(j \in 1..k) /\ ~(i \in 1..k)
      <4>1. /\ s[j - k + 1].block = "withdraw" /\ j - k + 1 \in 2..n
            /\ i - k + 1 \in 2..n /\ u[i] = s[i - k + 1]
        BY <1>5, <1>6, <2>6, <3>3
      <4>2. i - k + 1 < j - k + 1
        BY <1>3, <1>5, <2>6
      <4> QED BY <1>12, <2>1, <4>1, <4>2
    <3> QED BY <3>1, <3>2, <3>3
  <2>7. ASSUME NEW i \in DOMAIN u, u[i].block = "withdraw", NEW m \in Of(v.plan) PROVE Ahead(u, i, m)
    <3>1. CASE i \in 1..k
      BY <1>6, <1>12, <2>2, <2>3, <2>4, <2>7, <3>1
    <3>2. CASE ~(i \in 1..k)
      BY <1>5, <1>6, <1>12, <2>2, <2>5, <2>7, <3>2
    <3> QED BY <3>1, <3>2
  <2>8. ASSUME NEW i \in DOMAIN u, u[i].call = "start-gateway", NEW m \in Streams(v.plan)
        PROVE  Ahead(u, i, m)
    <3>1. ~(i \in 1..k)
      BY <1>6, <2>3, <2>8
    <3> QED BY <1>5, <1>6, <1>12, <2>2, <2>5, <2>8, <3>1
  <2> QED BY <2>6, <2>7, <2>8 DEF PhasedNet
<1>14. PhasedPublication(v, u)
  <2> SUFFICES ASSUME v.cmd.do = "publish", NEW i \in DOMAIN u, NEW j \in DOMAIN u, i < j
               PROVE  /\ u[j].call \in BeforeNet => u[i].call \in BeforeNet
                      /\ Early(u[j]) \/ u[j].call = "enable-host" => Early(u[i])
    BY DEF PhasedPublication
  <2>1. \A a, b \in 1..n : a < b =>
          /\ s[b].call \in BeforeNet => s[a].call \in BeforeNet
          /\ Early(s[b]) \/ s[b].call = "enable-host" => Early(s[a])
    BY <1>2 DEF Listed, Phased, PhasedPublication
  <2>2. \A a \in 1..k : /\ (l[a].call \in BeforeNet) = (s[1].call \in BeforeNet)
                        /\ ~Early(l[a]) /\ l[a].call # "enable-host"
    BY <1>2, <1>11 DEF Fits
  <2>3. ~Early(s[1])
    BY <1>2 DEF Fits
  <2>4. CASE j \in 1..k
    <3>1. i \in 1..k
      BY <1>2, <1>3, <1>5, <2>4
    <3> QED BY <1>6, <2>2, <2>4, <3>1
  <2>5. CASE ~(j \in 1..k)
    <3>1. j - k + 1 \in 2..n /\ u[j] = s[j - k + 1]
      BY <1>5, <1>6, <2>5
    <3>2. /\ u[j].call \in BeforeNet => s[1].call \in BeforeNet
          /\ ~(Early(u[j]) \/ u[j].call = "enable-host")
      BY <1>12, <2>1, <2>3, <3>1
    <3>3. CASE i \in 1..k
      BY <1>6, <2>2, <3>2, <3>3
    <3>4. CASE ~(i \in 1..k)
      <4>1. i - k + 1 \in 2..n /\ u[i] = s[i - k + 1] /\ i - k + 1 < j - k + 1
        BY SMTT(30), <1>3, <1>5, <1>6, <3>4
      <4> QED BY <1>12, <2>1, <3>1, <3>2, <4>1
    <3> QED BY <3>3, <3>4
  <2> QED BY <2>4, <2>5
<1>15. Listed(v, u)
  BY <1>4, <1>8, <1>9, <1>10, <1>13, <1>14 DEF Listed, Phased
<1>16. Head(u) = Head(l)
  <2>1. 1 \in 1..k
    BY <1>3
  <2> QED BY <1>3, <1>5, <1>6, <2>1
<1> QED BY <1>5, <1>7, <1>15, <1>16 DEF u

-----------------------------------------------------------------------------
(* What is known of the next call *)

\* A command of a calm world is under way.
Active == IInv /\ JInv /\ Sound /\ op.todo # <<>> /\ UnderWay

\* Calls that only publications make, and those that only take something away.
PublishVerbs == {"check-web", "relocate", "install", "open-gateway", "publish-record", "publish-route",
                 "save-activity", "start-private", "inspect", "check-host"}

WithdrawVerbs == {"unforward", "remove-forwarding", "delete-record", "delete-route", "restore",
                  "start-stock", "forget-activity"}

Withdraws(v, t) == WithdrawCall(v, t) \/ (v.cmd.do = "remove" /\ t.block = "plain")

LEMMA MenuFacts ==
  ASSUME NEW v, NEW t \in Menu(v)
  PROVE  /\ t \in CallRecord
         /\ t.block \in UnitBlocks \/ t.call \in PublishVerbs \/ Forwards(t)
              => UnitCall(v, t) /\ t.block \in UnitBlocks
         /\ t.call \in WithdrawVerbs \/ (t.call = "close-gateway" /\ ~Forwards(t)) => Withdraws(v, t)
         /\ t.call = "stop-admin" => UnitCall(v, t) \/ Withdraws(v, t)
         /\ t.block = "withdraw" => WithdrawCall(v, t)
         /\ t.call \in KeyCalls \cup Writing \cup {"enable-host"} => MakesKeys(v)
         /\ t.call \in Closing => MakesKeys(v) \/ RemovesSsh(v) \/ v.cmd.do = "uninstall"
         /\ t.call \in Closing => t.block = "plain"
         /\ t.call \in Cleaning \cup {"delete-project"} => v.cmd.do = "uninstall"
         /\ t.call = "start-gateway" => v.cmd.do = "vpn"
         /\ t.call = "prepare-key" => v.cmd.do = "prepare"
         /\ t.call = "activate-key" => v.cmd.do = "activate"
         /\ t.call = "replace-key" => v.cmd.do = "replace"
         /\ t.call = "check-slot" => UnitCall(v, t) \/ (t.block = "plain" /\ PublishesSshIn(v))
         /\ t.call \in {"check-forwarding", "check-dns"} => UnitCall(v, t) \/ (t.block = "plain" /\ PublishesSshIn(v))
         /\ t.call = "save" => v.cmd.do \in Everything \cup {"publish", "remove"} /\ t.to = TargetOf(v)
         /\ v.cmd.do \in {"remove", "publish"} => t.name = v.cmd.name /\ t.to = v.domain
<1>1. /\ t \in CallRecord
      /\ UnitCall(v, t) \/ WithdrawCall(v, t) \/ BareCall(v, t)
           \/ (t.block = "host" /\ MakesKeys(v) /\ t.call \in KeyCalls)
      /\ t.call = "save" => t.to = TargetOf(v)
      /\ v.cmd.do \in {"remove", "publish"} => t.name = v.cmd.name /\ t.to = v.domain
  BY DEF Menu
<1>2. CASE UnitCall(v, t)
  BY <1>1, <1>2 DEF UnitCall, UnitBlocks, UnitVerbs, RelocationCalls, PublishVerbs, WithdrawVerbs, Withdraws,
     Forwards, KeyCalls, Writing, Closing, Cleaning
<1>3. CASE WithdrawCall(v, t)
  BY <1>1, <1>3 DEF WithdrawCall, Withdrawing, Restoring, UnitBlocks, PublishVerbs, WithdrawVerbs, Withdraws,
     Forwards, KeyCalls, Writing, Closing, Cleaning
<1>4. CASE t.block = "host" /\ MakesKeys(v) /\ t.call \in KeyCalls
  BY <1>1, <1>4 DEF UnitBlocks, PublishVerbs, WithdrawVerbs, Withdraws, Forwards, KeyCalls, Writing, Closing, Cleaning
<1>5. CASE BareCall(v, t)
  BY <1>1, <1>5 DEF BareCall, UnitBlocks, PublishVerbs, WithdrawVerbs, Withdraws, Forwards, KeyCalls, Writing,
     Closing, Cleaning, Checking, Withdrawing, Restoring
<1> QED BY <1>1, <1>2, <1>3, <1>4, <1>5

\* What a publication is about.
LEMMA UnitFacts ==
  ASSUME IInv, op.todo # <<>>, UnitCall(Setting, First)
  PROVE  /\ First.name \in Of(op.plan) /\ Subject(First) = op.plan[First.name]
         /\ HostOf(First) = <<op.plan[First.name].label, TargetOf(Setting)>>
         /\ PortOf(First) = op.plan[First.name].port /\ First.to = TargetOf(Setting)
         /\ op.plan[First.name] \in Exposure
         /\ StreamIn(Setting, First) = IsStream(Subject(First))
<1>1. First.name \in Of(op.plan) /\ First.to = TargetOf(Setting)
  BY DEF UnitCall, Setting
<1>2. op.plan[First.name] # Absent /\ First.name \in Name
  BY <1>1 DEF Of
<1>3. op.plan[First.name] \in Exposure
  BY <1>2 DEF IInv, CommandOK, OpType
<1> QED BY <1>1, <1>2, <1>3 DEF Subject, HostOf, PortOf, StreamIn, SubjectIn, Setting

LEMMA SettingFacts ==
  ASSUME NEW t
  PROVE  /\ Setting.cmd = op.cmd /\ Setting.plan = op.plan
         /\ Setting.inventory = inventory /\ Setting.domain = domain
         /\ SubjectIn(Setting, t.name) = Subject(t)
         /\ StreamIn(Setting, t) = IsStream(Subject(t)) /\ SshIn(Setting, t) = IsSsh(t)
         /\ PublishesSshIn(Setting) = PublishesSsh
BY DEF Setting, SubjectIn, Subject, StreamIn, SshIn, IsSsh, PublishesSshIn, PublishesSsh

\* A step that leaves what the command is about.
Same == /\ op'.cmd = op.cmd /\ op'.plan = op.plan /\ op'.late = op.late
        /\ inventory' = inventory /\ domain' = domain

LEMMA SameFacts ==
  ASSUME Same, NEW t
  PROVE  /\ Setting' = Setting /\ Subject(t)' = Subject(t) /\ HostOf(t)' = HostOf(t) /\ PortOf(t)' = PortOf(t)
         /\ IsSsh(t)' = IsSsh(t) /\ PublishesSsh' = PublishesSsh /\ SshOf(inventory)' = SshOf(inventory)
         /\ HostIdle' = HostIdle
<1>1. Setting' = Setting
  BY DEF Setting, Same
<1>2. /\ Subject(t)' = Subject(t) /\ HostOf(t)' = HostOf(t) /\ PortOf(t)' = PortOf(t)
      /\ IsSsh(t)' = IsSsh(t) /\ PublishesSsh' = PublishesSsh /\ SshOf(inventory)' = SshOf(inventory)
  BY DEF Same, Subject, HostOf, PortOf, IsSsh, PublishesSsh, SshOf, Of
<1>3. HostIdle' = HostIdle
  BY DEF HostIdle, Same, PublishesSsh, SshOf, Of
<1> QED BY <1>1, <1>2, <1>3

\* A command goes on with t.
Advances(t) ==
  /\ Same /\ op'.todo # <<>> /\ Head(op'.todo) = t
  /\ t \in Menu(Setting) /\ Listed(Setting, op'.todo)
  /\ ToSet(Tail(op.todo)) \subseteq ToSet(op'.todo) /\ t \in ToSet(op'.todo)
  /\ op.cmd.do = "publish" => /\ t.call \in BeforeNet => First.call \in BeforeNet
                              /\ Early(t) \/ t.call = "enable-host" => Early(First)

\* It goes on with the next call.
Passes(t) == /\ Advances(t) /\ op'.todo = Tail(op.todo)
             /\ Joins(Setting, First, t) /\ Follows(First, t) /\ t \in CallType(N_, S_)

LEMMA FirstInMenu ==
  ASSUME Active
  PROVE  /\ First \in Menu(Setting) /\ First \in CallRecord /\ First \in CallType(N_, S_)
         /\ First \in ToSet(op.todo) /\ ToSet(Tail(op.todo)) \subseteq ToSet(op.todo)
         /\ ToSet(op.todo) = {First} \cup ToSet(Tail(op.todo)) /\ FirstOK
<1>1. Listed(Setting, op.todo) /\ op.todo # <<>>
  BY DEF Active, UnderWay
<1>2. /\ Head(op.todo) \in Menu(Setting) /\ Head(op.todo) \in CallRecord
      /\ ToSet(op.todo) = {Head(op.todo)} \cup ToSet(Tail(op.todo))
  BY <1>1, ListedTail
<1>3. FirstOK
  BY FirstFacts DEF Active, IInv
<1> QED BY <1>2, <1>3 DEF First, FirstOK, RestOK

LEMMA PublicationSteps ==
  ASSUME Active, Tail(op.todo) # <<>>, op.cmd.do = "publish"
  PROVE  /\ Head(Tail(op.todo)).call \in BeforeNet => First.call \in BeforeNet
         /\ Early(Head(Tail(op.todo))) \/ Head(Tail(op.todo)).call = "enable-host" => Early(First)
<1>1. /\ op.todo \in Seq(CallRecord) /\ Len(op.todo) \in Nat \ {0} /\ DOMAIN op.todo = 1..Len(op.todo)
      /\ First = op.todo[1] /\ Tail(op.todo) \in Seq(CallRecord) /\ Len(Tail(op.todo)) = Len(op.todo) - 1
      /\ \A i \in 1..Len(Tail(op.todo)) : Tail(op.todo)[i] = op.todo[i + 1]
  BY TodoFacts DEF Active
<1> DEFINE r == Tail(op.todo)
<1>2. Head(r) = r[1] /\ Len(r) \in Nat \ {0}
  <2>1. r \in Seq(CallRecord) /\ r # <<>>
    BY <1>1
  <2> HIDE DEF r
  <2> QED BY <2>1
<1>3. Head(r) = op.todo[2] /\ 2 \in DOMAIN op.todo /\ 1 \in DOMAIN op.todo
  BY <1>1, <1>2
<1>4. PhasedPublication(Setting, op.todo)
  BY DEF Active, UnderWay, Listed, Phased
<1>5. Setting.cmd.do = "publish"
  BY DEF Setting
<1>6. \A i, j \in DOMAIN op.todo : i < j =>
        /\ op.todo[j].call \in BeforeNet => op.todo[i].call \in BeforeNet
        /\ Early(op.todo[j]) \/ op.todo[j].call = "enable-host" => Early(op.todo[i])
  BY <1>4, <1>5 DEF PhasedPublication
<1>7. 1 < 2
  OBVIOUS
<1> QED BY <1>1, <1>3, <1>6, <1>7

LEMMA CalmTail ==
  ASSUME Active, Same, op'.todo = Tail(op.todo)
  PROVE  /\ op'.todo = <<>> => First.call \in Finals(Setting)
         /\ op'.todo # <<>> => \E t \in CallRecord : Passes(t)
<1>2. Same /\ op'.todo = Tail(op.todo)
  OBVIOUS
<1>3. Listed(Setting, op.todo) /\ op.todo # <<>> /\ First = Head(op.todo)
  BY DEF Active, UnderWay, First
<1> DEFINE r == Tail(op.todo)
<1>4. /\ Listed(Setting, r)
      /\ r # <<>> => /\ Head(r) \in ToSet(r) /\ Head(r) \in Menu(Setting)
                     /\ Joins(Setting, First, Head(r))
      /\ r = <<>> => First.call \in Finals(Setting)
  BY <1>3, ListedTail
<1>5. r # <<>> => Follows(First, Head(r)) /\ Head(r) \in CallType(N_, S_)
  BY FirstInMenu DEF FirstOK, RestOK
<1>6. ASSUME r # <<>> PROVE \E t \in CallRecord : Passes(t)
  <2> DEFINE t == Head(r)
  <2>1. t \in CallRecord
    BY <1>4, <1>6, MenuFacts
  <2>2. op.cmd.do = "publish" => /\ t.call \in BeforeNet => First.call \in BeforeNet
                                 /\ Early(t) \/ t.call = "enable-host" => Early(First)
    BY <1>6, PublicationSteps
  <2>3. Passes(t)
    <3> HIDE DEF r
    <3> QED BY <1>2, <1>4, <1>5, <1>6, <2>2 DEF Passes, Advances, r
  <2> QED BY <2>1, <2>3
<1> QED BY <1>2, <1>4, <1>6

LEMMA CalmContinue ==
  ASSUME Active, Continue, UNCHANGED <<inventory, domain>>
  PROVE  /\ Same /\ op'.todo = Tail(op.todo) /\ op'.key = op.key
         /\ op'.todo = <<>> => First.call \in Finals(Setting)
         /\ op'.todo # <<>> => \E t \in CallRecord : Passes(t)
<1>1. op \in OpType
  BY DEF Active, IInv, CommandOK
<1>2. Same /\ op'.todo = Tail(op.todo) /\ op'.key = op.key
  BY <1>1 DEF Continue, OpType, Same
<1> QED BY <1>2, CalmTail

LEMMA CalmInsert ==
  ASSUME Active, NEW l, Fits(Setting, First, l), op'.todo = l \o Tail(op.todo), Same,
         IF Tail(op.todo) = <<>> THEN l[Len(l)].call \in Finals(Setting)
         ELSE Joins(Setting, l[Len(l)], Head(Tail(op.todo)))
  PROVE  Advances(Head(l)) /\ ToSet(op'.todo) = ToSet(l) \cup ToSet(Tail(op.todo))
<1>1. Listed(Setting, op.todo) /\ op.todo # <<>> /\ First = Head(op.todo)
  BY DEF Active, UnderWay, First
<1>2. /\ Listed(Setting, op'.todo) /\ op'.todo # <<>> /\ Head(op'.todo) = Head(l)
      /\ ToSet(op'.todo) = ToSet(l) \cup ToSet(Tail(op.todo))
  BY SMTT(30), <1>1, ListedInsert
<1>3. Head(l) \in ToSet(l)
  BY ListMembers DEF Fits
<1>4. Setting.cmd = op.cmd
  BY DEF Setting
<1> QED BY <1>2, <1>3, <1>4 DEF Advances, Fits

-----------------------------------------------------------------------------
(* What a step keeps: the plan, and what the proxy, DNS and the routes serve *)

LEMMA PublishFacts ==
  ASSUME Active, op.cmd.do = "publish"
  PROVE  /\ op.plan = [inventory EXCEPT ![op.cmd.name] = op.cmd.wish]
         /\ op.cmd.name \in Name /\ op.cmd.wish \in Exposure /\ op.cmd.wish # Absent
         /\ inventory \in [Name -> Exposure \cup {Absent}]
         /\ op.plan[op.cmd.name] = op.cmd.wish
         /\ \A n \in Name \ {op.cmd.name} : op.plan[n] = inventory[n]
         /\ SameSlot(op.cmd.name, op.cmd.wish)
         /\ First.name = op.cmd.name /\ First.to = domain /\ Subject(First) = op.cmd.wish
         /\ \A t \in ToSet(op.todo) : t.name = op.cmd.name
<1>1. op.cmd \in Command /\ op.plan = PlanOf(op.cmd) /\ SameSlot(op.cmd.name, op.cmd.wish)
  BY DEF Active, JInv, PlanOK
<1>2. inventory \in Services /\ Good(inventory)
  BY DEF Active, IInv, WorldOK, CommandOK, Services
<1>3. /\ op.plan = [inventory EXCEPT ![op.cmd.name] = op.cmd.wish]
      /\ op.cmd.name \in Name /\ op.cmd.wish \in Exposure
  BY <1>1, <1>2, PlanType, CommandFields
<1>4. op.cmd.wish # Absent
  BY <1>3, WishesAreExposures
<1>5. \A t \in ToSet(op.todo) : t.name = op.cmd.name /\ t.to = domain
  <2>1. \A t \in ToSet(op.todo) : t \in Menu(Setting)
    BY DEF Active, UnderWay, Listed
  <2>2. Setting.cmd = op.cmd /\ Setting.domain = domain
    BY DEF Setting
  <2> QED BY <2>1, <2>2, MenuFacts
<1>6. op.plan[op.cmd.name] = op.cmd.wish /\ \A n \in Name \ {op.cmd.name} : op.plan[n] = inventory[n]
  BY <1>2, <1>3 DEF Services
<1>7. First.name = op.cmd.name /\ First.to = domain
  BY <1>5, FirstInMenu
<1> QED BY <1>1, <1>2, <1>3, <1>4, <1>5, <1>6, <1>7 DEF Subject, Services

LEMMA OtherPlans ==
  ASSUME Active, op.cmd.do \notin {"publish", "remove"}
  PROVE  op.plan = inventory
<1>1. op.cmd \in Command /\ op.plan = PlanOf(op.cmd)
  BY DEF Active, JInv, PlanOK
<1>2. inventory \in Services /\ Good(inventory)
  BY DEF Active, IInv, WorldOK, CommandOK, Services
<1> QED BY <1>1, <1>2, PlanType

LEMMA RemoveFacts ==
  ASSUME Active, op.cmd.do = "remove"
  PROVE  /\ op.plan = [inventory EXCEPT ![op.cmd.name] = Absent]
         /\ op.cmd.name \in Name /\ op.plan[op.cmd.name] = Absent
         /\ inventory \in [Name -> Exposure \cup {Absent}]
         /\ \A n \in Name \ {op.cmd.name} : op.plan[n] = inventory[n]
         /\ First.name = op.cmd.name /\ First.to = domain /\ Subject(First) = inventory[op.cmd.name]
         /\ \A n \in Of(op.plan) : n \in Name \ {op.cmd.name} /\ n \in Of(inventory) /\ op.plan[n] = inventory[n]
<1>1. op.cmd \in Command /\ op.plan = PlanOf(op.cmd)
  BY DEF Active, JInv, PlanOK
<1>2. inventory \in Services /\ Good(inventory)
  BY DEF Active, IInv, WorldOK, CommandOK, Services
<1>3. /\ op.plan = [inventory EXCEPT ![op.cmd.name] = Absent] /\ op.cmd.name \in Name
  BY <1>1, <1>2, PlanType, CommandFields
<1>4. op.plan[op.cmd.name] = Absent /\ \A n \in Name \ {op.cmd.name} : op.plan[n] = inventory[n]
  BY <1>2, <1>3 DEF Services
<1>5. First.name = op.cmd.name /\ First.to = domain
  <2>1. Setting.cmd = op.cmd /\ Setting.domain = domain
    BY DEF Setting
  <2> QED BY <2>1, FirstInMenu, MenuFacts
<1> QED BY <1>2, <1>3, <1>4, <1>5 DEF Subject, Services, Of

\* The new exposure has its slot, so every exposure has.
LEMMA SlotMakesUnique ==
  ASSUME Active, op.cmd.do = "publish", SlotFree(op.plan, op.cmd.name, op.cmd.wish)
  PROVE  Unique(op.plan)
<1>1. SUFFICES ASSUME NEW n \in Of(op.plan), NEW m \in Of(op.plan) \ {n}
               PROVE  LET x == op.plan[n]
                          y == op.plan[m]
                      IN IF IsStream(x) THEN ~(IsStream(y) /\ y.port = x.port)
                         ELSE ~(~IsStream(y) /\ y.label = x.label)
  BY DEF Unique, SlotFree
<1>2. /\ op.plan[op.cmd.name] = op.cmd.wish /\ op.cmd.name \in Of(op.plan)
      /\ \A k \in Of(op.plan) \ {op.cmd.name} : k \in Of(inventory) /\ op.plan[k] = inventory[k]
  BY PublishFacts DEF Of
<1>3. \A k \in Of(op.plan) \ {op.cmd.name} :
        LET x == op.cmd.wish
            y == op.plan[k]
        IN IF IsStream(x) THEN ~(IsStream(y) /\ y.port = x.port)
           ELSE ~(~IsStream(y) /\ y.label = x.label)
  BY DEF SlotFree
<1>4. CASE n = op.cmd.name
  BY <1>2, <1>3, <1>4
<1>5. CASE m = op.cmd.name
  BY <1>2, <1>3, <1>5
<1>6. CASE n # op.cmd.name /\ m # op.cmd.name
  <2>1. n \in Of(inventory) /\ m \in Of(inventory) \ {n} /\ op.plan[n] = inventory[n] /\ op.plan[m] = inventory[m]
    BY <1>2, <1>6
  <2>2. Unique(inventory)
    BY DEF Active, Sound
  <2> QED BY <2>1, <2>2 DEF Unique, SlotFree
<1> QED BY <1>4, <1>5, <1>6

LEMMA WebIsCompatible ==
  ASSUME Active, op.cmd.do = "publish", ~IsStream(op.cmd.wish)
  PROVE  Compatible(op.plan)
<1>1. StreamPorts(op.plan) \subseteq StreamPorts(inventory)
  <2>1. SUFFICES ASSUME NEW n \in Streams(op.plan)
                 PROVE  n \in Streams(inventory) /\ op.plan[n] = inventory[n]
    BY DEF StreamPorts
  <2>2. n # op.cmd.name
    BY <2>1, PublishFacts DEF Streams, Of
  <2>3. n \in Name /\ op.plan[n] # Absent /\ IsStream(op.plan[n])
    BY <2>1 DEF Streams, Of
  <2> QED BY <2>2, <2>3, PublishFacts DEF Streams, Of
<1>2. Compatible(inventory)
  BY DEF Active, Sound
<1> QED BY <1>1, <1>2 DEF Compatible

LEMMA PlanKept ==
  ASSUME Active, NEW t, Advances(t), First.call \in Compound \/ Passes(t), proxy'.stock = proxy.stock,
         dns' = dns \/ First.call \notin BeforeNet,
         First.call = "check-slot" => SlotFree(op.plan, First.name, Subject(First)),
         First.call = "check-forwarding" => Compatible(op.plan),
         First.call = "check-dns" => (HostOf(First) \in dns => Recorded(First))
  PROVE  PlanReady'
<1>1. op'.plan = op.plan /\ op'.cmd = op.cmd /\ inventory' = inventory /\ domain' = domain /\ First' = t
  BY DEF Advances, Same, First
<1>2. PlanReady
  BY DEF Active, UnderWay
<1>3. Unique(op.plan)
  <2>1. CASE ~MayRefuse({"check-slot"})
    BY <1>2, <2>1 DEF PlanReady
  <2>2. CASE MayRefuse({"check-slot"})
    <3>1. op.cmd.do = "publish" /\ First.call = "check-slot"
      BY <2>2 DEF MayRefuse
    <3>2. First.name = op.cmd.name /\ Subject(First) = op.cmd.wish
      BY <3>1, PublishFacts
    <3> QED BY <3>1, <3>2, SlotMakesUnique
  <2> QED BY <2>1, <2>2
<1>4. Compatible(op.plan) \/ (MayRefuse({"check-slot"}) /\ IsStream(Subject(First)))
  <2>1. CASE ~MayRefuse({"check-slot", "check-forwarding"})
    BY <1>2, <2>1 DEF PlanReady
  <2>2. CASE MayRefuse({"check-slot", "check-forwarding"}) /\ First.call = "check-slot"
    <3>1. op.cmd.do = "publish"
      BY <2>2 DEF MayRefuse
    <3>2. Subject(First) = op.cmd.wish
      BY <3>1, PublishFacts
    <3> QED BY <2>2, <3>1, <3>2, WebIsCompatible DEF MayRefuse
  <2>3. CASE MayRefuse({"check-slot", "check-forwarding"}) /\ First.call = "check-forwarding"
    BY <2>3
  <2> QED BY <2>1, <2>2, <2>3 DEF MayRefuse
<1>5. Compatible(op.plan)' \/ MayRefuse({"check-slot", "check-forwarding"})'
  <2>1. CASE Compatible(op.plan)
    BY <1>1, <2>1 DEF Compatible
  <2>2. CASE MayRefuse({"check-slot"}) /\ IsStream(Subject(First))
    <3>1. First.call = "check-slot" /\ op.cmd.do = "publish"
          /\ First.block = (IF PublishesSsh THEN "plain" ELSE "publish")
      BY <2>2 DEF MayRefuse
    <3>2. Joins(Setting, First, t)
      BY <3>1 DEF Passes, Compound
    <3>3. StreamIn(Setting, First)
      BY <2>2, SettingFacts
    <3>4. t.call = "check-forwarding" /\ t.block = First.block
      BY <3>1, <3>2, <3>3 DEF Joins, Leads, NextInUnit
    <3>5. PublishesSsh' = PublishesSsh
      BY <1>1 DEF PublishesSsh
    <3> QED BY <1>1, <3>1, <3>4, <3>5 DEF MayRefuse
  <2> QED BY <1>4, <2>1, <2>2
<1>6. ASSUME PublishesSsh, t.call \in BeforeNet, ~MayRefuse(Checking)', <<op.cmd.wish.label, domain>> \in dns'
      PROVE  \E n \in Of(inventory) : inventory[n].label = op.cmd.wish.label
  <2>1. op.cmd.do = "publish" /\ First.call \in BeforeNet
    BY <1>6 DEF PublishesSsh, Advances
  <2>2. dns' = dns /\ HostOf(First) = <<op.cmd.wish.label, domain>> /\ Subject(First) = op.cmd.wish
    BY <2>1, PublishFacts DEF HostOf
  <2>3. CASE ~MayRefuse(Checking)
    BY <1>2, <1>6, <2>1, <2>2, <2>3 DEF PlanReady
  <2>4. CASE MayRefuse(Checking)
    <3>1. First.call \in Checking /\ First.block = "plain"
      BY <1>6, <2>4 DEF MayRefuse
    <3>2. CASE First.call = "check-dns"
      BY <1>6, <2>1, <2>2, <3>2 DEF Recorded
    <3>3. CASE First.call # "check-dns"
      <4>1. Joins(Setting, First, t) /\ First.call \in {"check-slot", "check-forwarding"}
        BY <3>1, <3>3 DEF Passes, Compound, Checking
      <4>2. StreamIn(Setting, First)
        <5>1. IsStream(op.cmd.wish)
          BY <1>6 DEF PublishesSsh, IsStream
        <5> QED BY <2>2, <5>1, SettingFacts
      <4>3. t.call \in Checking /\ t.block = "plain"
        BY <3>1, <4>1, <4>2 DEF Joins, Leads, NextInUnit, Checking
      <4>4. MayRefuse(Checking)'
        BY <1>1, <1>6, <2>1, <4>3 DEF MayRefuse, PublishesSsh
      <4> QED BY <1>6, <4>4
    <3> QED BY <3>2, <3>3
  <2> QED BY <2>3, <2>4
<1>7. (PublishesSsh /\ First.call \in BeforeNet /\ ~MayRefuse(Checking)
         => (<<op.cmd.wish.label, domain>> \in dns
               => \E n \in Of(inventory) : inventory[n].label = op.cmd.wish.label))'
  <2>1. Of(inventory)' = Of(inventory) /\ PublishesSsh' = PublishesSsh
    BY <1>1 DEF Of, PublishesSsh
  <2> QED BY <1>1, <1>6, <2>1
<1> QED BY <1>1, <1>3, <1>5, <1>7 DEF PlanReady

-----------------------------------------------------------------------------
(* The order of a list *)

LEMMA Phases ==
  ASSUME Active
  PROVE  /\ First.block # "withdraw" => \A x \in ToSet(op.todo) : x.block # "withdraw"
         /\ First.block = "withdraw" => \A m \in Of(op.plan) : \E x \in ToSet(Tail(op.todo)) : Begins(x, m)
         /\ First.call = "start-gateway"
              => \A m \in Streams(op.plan) : \E x \in ToSet(Tail(op.todo)) : Begins(x, m)
<1>1. /\ op.todo \in Seq(CallRecord) /\ Len(op.todo) \in Nat \ {0} /\ DOMAIN op.todo = 1..Len(op.todo)
      /\ First = op.todo[1]
      /\ Tail(op.todo) \in Seq(CallRecord) /\ Len(Tail(op.todo)) = Len(op.todo) - 1
      /\ \A i \in 1..Len(Tail(op.todo)) : Tail(op.todo)[i] = op.todo[i + 1]
  BY TodoFacts DEF Active
<1>2. /\ \A i, j \in DOMAIN op.todo : i < j /\ op.todo[j].block = "withdraw" => op.todo[i].block = "withdraw"
      /\ \A i \in DOMAIN op.todo : op.todo[i].block = "withdraw" => \A m \in Of(op.plan) : Ahead(op.todo, i, m)
      /\ \A i \in DOMAIN op.todo :
           op.todo[i].call = "start-gateway" => \A m \in Streams(op.plan) : Ahead(op.todo, i, m)
  <2>1. PhasedNet(Setting, op.todo)
    BY DEF Active, UnderWay, Listed, Phased
  <2>2. Setting.plan = op.plan
    BY DEF Setting
  <2> QED BY <2>1, <2>2 DEF PhasedNet
<1>3. ASSUME NEW m, Ahead(op.todo, 1, m) PROVE \E x \in ToSet(Tail(op.todo)) : Begins(x, m)
  <2>1. PICK j \in 1..Len(op.todo) : 1 < j /\ Begins(op.todo[j], m)
    BY <1>1, <1>3 DEF Ahead
  <2>2. j - 1 \in 1..Len(Tail(op.todo)) /\ (j - 1) + 1 = j
    BY <1>1, <2>1
  <2>3. Tail(op.todo)[j - 1] = op.todo[j]
    BY <1>1, <2>2
  <2>4. op.todo[j] \in ToSet(Tail(op.todo))
    <3> DEFINE r == Tail(op.todo)
    <3>1. r \in Seq(CallRecord)
      BY <1>1
    <3>2. ToSet(r) = {r[i] : i \in 1..Len(r)}
      BY <3>1, ListMembers
    <3> QED BY <2>2, <2>3, <3>2
  <2> QED BY <2>1, <2>4
<1>4. 1 \in DOMAIN op.todo
  BY <1>1
<1>5. ASSUME First.block # "withdraw", NEW x \in ToSet(op.todo) PROVE x.block # "withdraw"
  <2>1. PICK j \in 1..Len(op.todo) : x = op.todo[j]
    BY <1>1, <1>5, ListMembers
  <2>2. j = 1 \/ 1 < j
    BY <1>1, <2>1
  <2> QED BY <1>1, <1>2, <1>4, <1>5, <2>1, <2>2
<1> QED BY <1>1, <1>2, <1>3, <1>4, <1>5

\* A publication takes nothing away.
LEMMA NothingRemoved ==
  ASSUME Active, First.block \in UnitBlocks \/ op.cmd.do \in {"publish", "redirect", "vpn", "prepare", "activate",
                                                             "replace", "uninstall"}
  PROVE  \A x \in ToSet(op.todo) : x.call \notin {"unforward", "remove-forwarding"}
<1>1. SUFFICES ASSUME NEW x \in ToSet(op.todo), x.call \in {"unforward", "remove-forwarding"} PROVE FALSE
  OBVIOUS
<1>2. x \in Menu(Setting)
  BY DEF Active, UnderWay, Listed
<1>3. Withdraws(Setting, x)
  BY <1>1, <1>2, MenuFacts DEF WithdrawVerbs
<1>4. Setting.cmd = op.cmd
  BY DEF Setting
<1>5. op.cmd.do \in {"domain", "remove"}
  BY <1>3, <1>4 DEF Withdraws, WithdrawCall
<1>6. First.block \in UnitBlocks /\ UnitCall(Setting, First)
  BY <1>5, FirstInMenu, MenuFacts
<1>7. op.cmd.do = "domain"
  BY <1>4, <1>5, <1>6 DEF UnitCall, Everything
<1>8. x.block = "withdraw"
  BY <1>3, <1>4, <1>7 DEF Withdraws, WithdrawCall
<1>9. First.block # "withdraw"
  BY <1>6 DEF UnitBlocks
<1> QED BY <1>1, <1>8, <1>9, Phases

-----------------------------------------------------------------------------
(* What is served, and what is about to be *)

\* A publication goes on to its end.
LEMMA UnitGoesOn ==
  ASSUME Active, NEW t, Advances(t), NEW m, Awaits(m) \/ InUnit(m), Passes(t) \/ First.call \in Compound,
         First.call = "relocate" => t.name = First.name /\ t.block \in UnitBlocks /\ t.call \in UnitVerbs
  PROVE  \/ Awaits(m)' \/ InUnit(m)'
         \/ /\ First.name = m /\ UnitCall(Setting, First)
            /\ \/ First.call = "publish-route"
               \/ First.call = "publish-record" /\ StreamIn(Setting, First)
<1>1. First' = t /\ ToSet(Tail(op.todo)) \subseteq ToSet(op'.todo) /\ t \in Menu(Setting)
  BY DEF Advances, First
<1>2. First \in Menu(Setting) /\ First \in CallType(N_, S_) /\ ToSet(op.todo) = {First} \cup ToSet(Tail(op.todo))
  BY FirstInMenu
<1>3. \A x : Begins(x, m) /\ x \in ToSet(op'.todo) => Awaits(m)'
  BY DEF Awaits, Begins
<1>4. t.name = m /\ t.block \in UnitBlocks /\ t.call \in UnitVerbs => InUnit(m)'
  BY <1>1 DEF InUnit
<1>5. t.call \in PublishVerbs \/ Forwards(t) => t.block \in UnitBlocks
  BY <1>1, MenuFacts
<1>6. CASE Awaits(m) /\ ~Begins(First, m)
  <2>1. PICK x \in ToSet(op.todo) : Begins(x, m)
    BY <1>6 DEF Awaits
  <2>2. x \in ToSet(Tail(op.todo))
    BY <1>2, <1>6, <2>1
  <2> QED BY <1>1, <1>3, <2>1, <2>2
<1>7. CASE Begins(First, m)
  <2>1. First.call = "check-slot" /\ First.block = "publish" /\ First.name = m
    BY <1>7 DEF Begins
  <2>2. Joins(Setting, First, t)
    BY <2>1 DEF Passes, Compound
  <2>3. t.name = m /\ t.block = "publish" /\ t.call \in {"check-forwarding", "check-web"}
    BY <2>1, <2>2 DEF Joins, Leads, NextInUnit
  <2> QED BY <1>4, <2>3 DEF UnitBlocks, UnitVerbs
<1>8. CASE InUnit(m) /\ First.call # "relocate"
  <2>1. First.block \in UnitBlocks /\ First.name = m /\ First.call \in UnitVerbs
    BY <1>8 DEF InUnit
  <2>2. Joins(Setting, First, t)
    BY <1>8, <2>1 DEF Passes, Compound, UnitVerbs, RelocationCalls
  <2>3. UnitCall(Setting, First)
    BY <1>2, <2>1, MenuFacts
  <2>4. First.call = "close-gateway" => Forwards(First)
    BY <2>3 DEF UnitCall, Forwards
  <2>5. First.call = "stop-admin" => First.block = "relocation"
    BY <1>2, <2>1 DEF CallType, UnitBlocks, ForwardCalls, SshCalls
  <2>6. First.call \in {"check-forwarding", "check-dns", "check-web", "save-activity", "stop-admin", "install"}
          => t.name = m /\ t.block = First.block /\ NextInUnit(Setting, First, t)
    BY <2>1, <2>2 DEF Joins, Leads
  <2>7. First.call \in {"check-forwarding", "check-dns", "check-web", "save-activity", "stop-admin", "install"}
          => t.call \in UnitVerbs
    BY <2>1, <2>5, <2>6 DEF NextInUnit, UnitVerbs, RelocationCalls, UnitBlocks
  <2>8. First.call \in {"close-gateway", "open-gateway", "start-private"}
          => t.name = m /\ NextInUnit(Setting, First, t)
    BY <2>1, <2>2, <2>4 DEF Joins, Leads
  <2>9. First.call \in {"close-gateway", "open-gateway", "start-private"}
          => t.call \in UnitVerbs /\ (t.call \in PublishVerbs \/ Forwards(t))
    BY <2>4, <2>8 DEF NextInUnit, UnitVerbs, PublishVerbs, Forwards
  <2>10. CASE First.call = "publish-record" /\ ~StreamIn(Setting, First)
    <3>1. t.name = m /\ t.block = First.block /\ t.call = "publish-route"
      BY <2>1, <2>2, <2>10 DEF Joins, Leads, NextInUnit
    <3> QED BY <1>4, <2>1, <3>1 DEF UnitVerbs
  <2> QED BY <1>4, <1>5, <2>1, <2>3, <2>6, <2>7, <2>8, <2>9, <2>10 DEF UnitVerbs, RelocationCalls
<1>9. CASE InUnit(m) /\ First.call = "relocate"
  BY <1>4, <1>9 DEF InUnit
<1> QED BY <1>6, <1>7, <1>8, <1>9

\* Who else has the port of a call: nobody, or what is published again later.
LEMMA PortOwner ==
  ASSUME Active, UnitCall(Setting, First) \/ Withdraws(Setting, First), StreamIn(Setting, First),
         First.call \notin Nameless, Unique(op.plan),
         NEW m \in Of(op.plan), IsStream(op.plan[m]), op.plan[m].port = PortOf(First)
  PROVE  \/ UnitCall(Setting, First) /\ m = First.name
         \/ \E x \in ToSet(Tail(op.todo)) : Begins(x, m)
<1>1. IsStream(Subject(First)) /\ Subject(First).port = PortOf(First) /\ Subject(First) \in Exposure
  BY SettingFacts, FirstInMenu DEF PortOf, FirstOK
<1>2. CASE UnitCall(Setting, First)
  <2>1. First.name \in Of(op.plan) /\ Subject(First) = op.plan[First.name]
    BY <1>2, UnitFacts DEF Active
  <2>2. m # First.name => ~(IsStream(op.plan[m]) /\ op.plan[m].port = op.plan[First.name].port)
    BY <1>1, <2>1 DEF Unique, SlotFree
  <2> QED BY <1>1, <1>2, <2>1, <2>2
<1>3. CASE WithdrawCall(Setting, First)
  BY <1>3, Phases DEF WithdrawCall
<1>4. CASE op.cmd.do = "remove"
  <2>1. /\ m \in Name \ {op.cmd.name} /\ m \in Of(inventory) /\ op.plan[m] = inventory[m]
        /\ Subject(First) = inventory[op.cmd.name] /\ op.cmd.name \in Name
    BY <1>4, RemoveFacts
  <2>2. op.cmd.name \in Of(inventory) \ {m}
    BY <1>1, <2>1, WishesAreExposures DEF Of
  <2>3. SlotFree(inventory, m, inventory[m])
    BY <2>1 DEF Active, Sound, Unique
  <2> QED BY <1>1, <2>1, <2>2, <2>3 DEF SlotFree
<1> QED BY <1>2, <1>3, <1>4, SettingFacts DEF Withdraws

\* Who else has the hostname of a web exposure that is withdrawn, or of one whose record is deleted.
LEMMA HostnameOwner ==
  ASSUME Active, Withdraws(Setting, First), First.call \in {"delete-record", "delete-route"},
         NEW m \in Of(op.plan), <<op.plan[m].label, TargetOf(Setting)>> = HostOf(First),
         First.call = "delete-route" => ~IsStream(op.plan[m])
  PROVE  \E x \in ToSet(Tail(op.todo)) : Begins(x, m)
<1>1. Subject(First) \in Exposure /\ HostOf(First)[1] = Subject(First).label /\ First \in Menu(Setting)
  BY FirstInMenu DEF HostOf, FirstOK, Nameless
<1>2. op.plan[m].label = Subject(First).label
  BY <1>1
<1>3. CASE WithdrawCall(Setting, First)
  BY <1>3, Phases DEF WithdrawCall
<1>4. CASE op.cmd.do = "remove"
  <2>1. /\ m \in Name \ {op.cmd.name} /\ m \in Of(inventory) /\ op.plan[m] = inventory[m]
        /\ Subject(First) = inventory[op.cmd.name] /\ op.cmd.name \in Name /\ First.name = op.cmd.name
    BY <1>4, RemoveFacts
  <2>2. op.cmd.name \in Of(inventory) \ {m}
    BY <1>1, <2>1, WishesAreExposures DEF Of
  <2>3. CASE First.call = "delete-record"
    <3>1. ~SharesDns(inventory, First.name, inventory[First.name])
      BY <1>1, <1>4, <2>3, SettingFacts DEF Menu
    <3> QED BY <1>2, <2>1, <3>1 DEF SharesDns
  <2>4. CASE First.call = "delete-route"
    <3>1. ~IsStream(Subject(First))
      BY <1>1, <2>4, SettingFacts DEF Menu, WebVerbs
    <3>2. SlotFree(inventory, m, inventory[m])
      BY <2>1 DEF Active, Sound, Unique
    <3> QED BY <1>2, <2>1, <2>2, <2>4, <3>1, <3>2 DEF SlotFree
  <2> QED BY <2>3, <2>4
<1> QED BY <1>3, <1>4, SettingFacts DEF Withdraws

-----------------------------------------------------------------------------
(* How NetReady is kept *)

Target == TargetOf(Setting)

\* The forwardings are as they were.
PortsSame == proxy'.record = proxy.record /\ proxy'.live = proxy.live

LEMMA PortsKept ==
  ASSUME Active, NEW t, Advances(t), PortsSame, First.call \notin {"unforward", "remove-forwarding"},
         \A x \in ToSet(op'.todo) \ ToSet(op.todo) : x.call # "unforward"
  PROVE  /\ \A p \in Port : \/ proxy'.record[p] = Free \/ OwnedIn(op.plan, Target, p)'
                            \/ \E x \in ToSet(op'.todo) : Removes(x, p)'
         /\ \A x \in ToSet(op'.todo) : x.call = "unforward" => proxy'.record[PortOf(x)'] \in {Free, HostOf(x)'}
<1>1. NetReady /\ Same
  BY DEF Active, UnderWay, Advances
<1>2. ToSet(op.todo) = {First} \cup ToSet(Tail(op.todo)) /\ ToSet(Tail(op.todo)) \subseteq ToSet(op'.todo)
  BY FirstInMenu DEF Advances
<1>3. Setting' = Setting /\ op'.plan = op.plan
  BY <1>1, SameFacts DEF Same
<1>4. \A p \in Port : OwnedIn(op.plan, Target, p) => OwnedIn(op.plan, Target, p)'
  BY <1>3 DEF OwnedIn, Forwarded, PortsSame, Streams, Of, Target
<1>5. \A x : PortOf(x)' = PortOf(x) /\ HostOf(x)' = HostOf(x)
  BY <1>1, SameFacts
<1>6. \A p \in Port : \A x : Removes(x, p) => Removes(x, p)' /\ x # First
  BY <1>5 DEF Removes
<1>7. ASSUME NEW p \in Port PROVE \/ proxy'.record[p] = Free \/ OwnedIn(op.plan, Target, p)'
                                  \/ \E x \in ToSet(op'.todo) : Removes(x, p)'
  <2>1. proxy.record[p] = Free \/ OwnedIn(op.plan, Target, p) \/ \E x \in ToSet(op.todo) : Removes(x, p)
    BY <1>1 DEF NetReady, Target
  <2>2. ASSUME NEW x \in ToSet(op.todo), Removes(x, p) PROVE \E y \in ToSet(op'.todo) : Removes(y, p)'
    <3>1. Removes(x, p)' /\ x \in ToSet(op'.todo)
      BY <1>2, <1>6, <2>2
    <3> QED BY <3>1
  <2> QED BY <1>4, <2>1, <2>2 DEF PortsSame
<1>8. ASSUME NEW x \in ToSet(op'.todo), x.call = "unforward"
      PROVE proxy'.record[PortOf(x)'] \in {Free, HostOf(x)'}
  BY <1>1, <1>5, <1>8 DEF NetReady, PortsSame
<1> QED BY <1>7, <1>8

\* What is to be shown of a step that goes on.
LEMMA NetStep ==
  ASSUME Active, NEW t, Advances(t), Passes(t) \/ First.call \in Compound,
         First.call = "relocate" => t.name = First.name /\ t.block \in UnitBlocks /\ t.call \in UnitVerbs,
         \A m \in Of(op.plan) : ServedAt(op.plan[m], Target) =>
           \/ ServedAt(op.plan[m], Target)' \/ InUnit(m) \/ \E x \in ToSet(Tail(op.todo)) : Begins(x, m),
         First.call = "publish-route" \/ (First.call = "publish-record" /\ StreamIn(Setting, First))
           => \A m \in Of(op.plan) : m = First.name => ServedAt(op.plan[m], Target)',
         \A p \in Port : \/ proxy'.record[p] = Free \/ OwnedIn(op.plan, Target, p)'
                         \/ \E x \in ToSet(op'.todo) : Removes(x, p)',
         \A x \in ToSet(op'.todo) : x.call = "unforward" => proxy'.record[PortOf(x)'] \in {Free, HostOf(x)'},
         First.call \notin BeforeNet \/ (PortsSame /\ UNCHANGED <<dns, routes, gateway>>)
  PROVE  NetReady'
<1>1. NetReady /\ Same /\ First' = t
  BY DEF Active, UnderWay, Advances, First
<1>2. Setting' = Setting /\ op'.plan = op.plan /\ op'.cmd = op.cmd /\ inventory' = inventory /\ domain' = domain
  BY <1>1, SameFacts DEF Same
<1>3. ASSUME NEW m \in Of(op.plan) PROVE ServedAt(op.plan[m], Target)' \/ Awaits(m)' \/ InUnit(m)'
  <2>1. ServedAt(op.plan[m], Target) \/ Awaits(m) \/ InUnit(m)
    BY <1>1 DEF NetReady, Target
  <2>2. CASE Awaits(m) \/ InUnit(m)
    <3>1. CASE /\ First.name = m
               /\ \/ First.call = "publish-route"
                  \/ First.call = "publish-record" /\ StreamIn(Setting, First)
      BY <3>1
    <3> QED BY <2>2, <3>1, UnitGoesOn
  <2>3. CASE \E x \in ToSet(Tail(op.todo)) : Begins(x, m)
    <3>1. \E x \in ToSet(op'.todo) : Begins(x, m)
      BY <2>3 DEF Advances
    <3> QED BY <3>1 DEF Awaits, Begins
  <2> QED BY <2>1, <2>2, <2>3
<1>4. (op.cmd.do = "publish" /\ First.call \in BeforeNet => NetRest(inventory, domain))'
  <2>1. SUFFICES ASSUME op.cmd.do = "publish", t.call \in BeforeNet PROVE NetRest(inventory, domain)'
    BY <1>1, <1>2
  <2>2. First.call \in BeforeNet
    BY <2>1 DEF Advances
  <2>3. NetRest(inventory, domain) /\ PortsSame /\ UNCHANGED <<dns, routes, gateway>>
    BY <1>1, <2>1, <2>2 DEF NetReady
  <2>4. \A x, d : Forwarded(x, d)' = Forwarded(x, d) /\ GatewayOK(x)' = GatewayOK(x)
    BY <2>3 DEF Forwarded, GatewayOK, PortsSame
  <2>5. \A n \in Of(inventory) : ServedAt(inventory[n], domain)'
    BY <1>2, <2>3, <2>4 DEF NetRest, ServedAt
  <2>6. \A p \in Port : OwnedIn(inventory, domain, p)' = OwnedIn(inventory, domain, p)
    BY <1>2, <2>4 DEF OwnedIn, Streams, Of
  <2>7. Of(inventory)' = Of(inventory)
    BY <1>2 DEF Of
  <2>8. \A p \in Port : proxy'.record[p] = Free \/ OwnedIn(inventory, domain, p)'
    BY <2>3, <2>6 DEF NetRest, PortsSame
  <2> QED BY <2>5, <2>7, <2>8 DEF NetRest
<1>5. \A m \in Of(op.plan)' : ServedAt(op.plan[m], Target)' \/ Awaits(m)' \/ InUnit(m)'
  BY <1>2, <1>3 DEF Of
<1> QED BY <1>1, <1>2, <1>4, <1>5 DEF NetReady, Target

LEMMA NetSame ==
  ASSUME Active, NEW t, Advances(t), Passes(t) \/ First.call \in Compound,
         First.call = "relocate" => t.name = First.name /\ t.block \in UnitBlocks /\ t.call \in UnitVerbs,
         PortsSame, UNCHANGED <<dns, routes, gateway>>,
         First.call \notin {"unforward", "remove-forwarding", "publish-route", "publish-record"},
         \A x \in ToSet(op'.todo) \ ToSet(op.todo) : x.call # "unforward"
  PROVE  NetReady'
<1>1. \A x, d : ServedAt(x, d) => ServedAt(x, d)'
  BY DEF ServedAt, Forwarded, GatewayOK, PortsSame
<1>2. Setting' = Setting
  BY SameFacts DEF Advances
<1>3. \A m \in Of(op.plan) : ServedAt(op.plan[m], Target) => ServedAt(op.plan[m], Target)'
  BY <1>1, <1>2 DEF Target, Advances, Same
<1>4. /\ \A p \in Port : \/ proxy'.record[p] = Free \/ OwnedIn(op.plan, Target, p)'
                         \/ \E x \in ToSet(op'.todo) : Removes(x, p)'
      /\ \A x \in ToSet(op'.todo) : x.call = "unforward" => proxy'.record[PortOf(x)'] \in {Free, HostOf(x)'}
  BY PortsKept
<1> QED BY <1>3, <1>4, NetStep

\* A call that is over brings no other with it.
LEMMA PassesOnly ==
  ASSUME Active, NEW t, Passes(t)
  PROVE  /\ Advances(t) /\ ToSet(op'.todo) \subseteq ToSet(op.todo) /\ Setting' = Setting
         /\ op'.plan = op.plan /\ t \in ToSet(op'.todo) /\ t \in Menu(Setting)
         /\ op'.todo = Tail(op.todo) /\ First' = t
         /\ \A x : PortOf(x)' = PortOf(x) /\ HostOf(x)' = HostOf(x)
BY FirstInMenu, SameFacts DEF Passes, Advances, Same, First

\* A call that changes the forwarding of one port, or the gateway's.
LEMMA PortMoved ==
  ASSUME Active, NEW t, Passes(t), First.call \in {"install", "remove-forwarding", "close-gateway", "open-gateway"},
         \A q \in Port \ {PortOf(First)} : /\ proxy'.record[q] = proxy.record[q]
                                           /\ (q \in proxy'.live) = (q \in proxy.live)
                                           /\ (q \in gateway'.ports) = (q \in gateway.ports),
         gateway'.up = gateway.up, UNCHANGED <<dns, routes>>
  PROVE  \A m \in Of(op.plan) : ServedAt(op.plan[m], Target) =>
           \/ ServedAt(op.plan[m], Target)' \/ InUnit(m) \/ \E x \in ToSet(Tail(op.todo)) : Begins(x, m)
<1>1. Setting' = Setting /\ op'.plan = op.plan
  BY PassesOnly
<1>2. Unique(op.plan)
  BY DEF Active, UnderWay, PlanReady, MayRefuse
<1>3. First \in Menu(Setting) /\ First.call \in StreamVerbs /\ First.call \notin Nameless
  BY FirstInMenu DEF StreamVerbs, Nameless
<1>4. StreamIn(Setting, First)
  BY <1>3 DEF Menu
<1>5. /\ UnitCall(Setting, First) \/ Withdraws(Setting, First)
      /\ UnitCall(Setting, First) => First.block \in UnitBlocks /\ (First.call # "remove-forwarding")
  <2>1. First.call \in PublishVerbs \/ First.call \in WithdrawVerbs \/ Forwards(First)
          \/ (First.call = "close-gateway" /\ ~Forwards(First))
    BY DEF PublishVerbs, WithdrawVerbs
  <2>2. UnitCall(Setting, First) => First.block \in UnitBlocks /\ (First.call # "remove-forwarding")
    BY DEF UnitCall, UnitVerbs, RelocationCalls
  <2> QED BY <1>3, <2>1, <2>2, MenuFacts
<1>6. SUFFICES ASSUME NEW m \in Of(op.plan), ServedAt(op.plan[m], Target)
               PROVE  ServedAt(op.plan[m], Target)' \/ InUnit(m) \/ \E x \in ToSet(Tail(op.todo)) : Begins(x, m)
  OBVIOUS
<1>7. op.plan[m] \in Exposure
  BY <1>6 DEF Of, Active, IInv, CommandOK, OpType
<1>8. CASE ~IsStream(op.plan[m])
  BY <1>1, <1>6, <1>8 DEF ServedAt, Target
<1>9. CASE IsStream(op.plan[m]) /\ op.plan[m].port # PortOf(First)
  <2>1. op.plan[m].port \in Port \ {PortOf(First)}
    BY <1>7, <1>9 DEF Exposure
  <2> QED BY <1>1, <1>6, <1>9, <2>1 DEF ServedAt, Forwarded, GatewayOK, Target
<1>10. CASE IsStream(op.plan[m]) /\ op.plan[m].port = PortOf(First)
  <2>1. CASE UnitCall(Setting, First) /\ m = First.name
    BY <1>5, <2>1 DEF InUnit, UnitVerbs
  <2> QED BY <1>2, <1>3, <1>4, <1>5, <1>10, <2>1, PortOwner
<1> QED BY <1>8, <1>9, <1>10

LEMMA WorldFacts ==
  ASSUME Active
  PROVE  /\ proxy \in ProxyType /\ proxy.record \in [Port -> Hostname \cup {Free}] /\ proxy.live \in SUBSET Port
         /\ proxy.unit \in [Port -> Hostname \cup {Free}]
         /\ gateway \in GatewayType /\ gateway.up \in BOOLEAN /\ gateway.ports \in SUBSET Port
         /\ host \in HostType /\ dns \subseteq Hostname /\ routes \subseteq Hostname
BY DEF Active, IInv, WorldOK, ProxyType, GatewayType

LEMMA NetInstall ==
  ASSUME Active, NEW t, Passes(t), First.call = "install",
         InstallForwarding(PortOf(First), HostOf(First)), UNCHANGED <<gateway, dns, routes>>
  PROVE  NetReady'
<1> DEFINE p == PortOf(First)
           h == HostOf(First)
<1>1. /\ First \in Menu(Setting) /\ First.call \in PublishVerbs
      /\ p \in Port /\ h \in Hostname
  BY FirstInMenu DEF FirstOK, Nameless, PublishVerbs
<1>2. UnitCall(Setting, First) /\ First.block \in UnitBlocks
  BY <1>1, MenuFacts
<1>3. /\ First.name \in Of(op.plan) /\ Subject(First) = op.plan[First.name]
      /\ h = <<op.plan[First.name].label, Target>> /\ p = op.plan[First.name].port
      /\ IsStream(op.plan[First.name])
  <2>1. StreamIn(Setting, First)
    BY <1>1 DEF Menu, StreamVerbs
  <2> QED BY <1>2, <2>1, UnitFacts DEF Active, Target
<1>4. /\ proxy'.record = [proxy.record EXCEPT ![p] = h] /\ proxy'.live = proxy.live \cup {p}
  BY WorldFacts DEF InstallForwarding, ProxyType
<1>5. /\ proxy'.record[p] = h /\ p \in proxy'.live
      /\ \A q \in Port \ {p} : proxy'.record[q] = proxy.record[q] /\ (q \in proxy'.live) = (q \in proxy.live)
  BY <1>1, <1>4, WorldFacts
<1>6. \A m \in Of(op.plan) : ServedAt(op.plan[m], Target) =>
           \/ ServedAt(op.plan[m], Target)' \/ InUnit(m) \/ \E x \in ToSet(Tail(op.todo)) : Begins(x, m)
  BY <1>5, PortMoved
<1>7. Setting' = Setting /\ op'.plan = op.plan /\ Advances(t) /\ ToSet(op'.todo) \subseteq ToSet(op.todo)
  BY PassesOnly
<1>8. \A x \in ToSet(op.todo) : x.call \notin {"unforward", "remove-forwarding"}
  BY <1>2, NothingRemoved
<1>9. ASSUME NEW q \in Port PROVE proxy'.record[q] = Free \/ OwnedIn(op.plan, Target, q)'
  <2>1. CASE q = p
    <3>1. First.name \in Streams(op.plan)
      BY <1>3 DEF Streams
    <3> QED
      <4> DEFINE n == First.name
      <4>1. n \in Streams(op.plan) /\ op.plan[n].port = q /\ h = <<op.plan[n].label, Target>>
        BY <1>3, <2>1, <3>1
      <4>2. n \in Streams(op'.plan) /\ op'.plan[n].port = q /\ proxy'.record[q] = <<op'.plan[n].label, Target'>>
            /\ q \in proxy'.live
        BY <1>5, <1>7, <2>1, <4>1 DEF Target
      <4> HIDE DEF n
      <4> QED BY <4>2 DEF OwnedIn, Forwarded
  <2>2. CASE q # p
    <3>1. proxy.record[q] = Free \/ OwnedIn(op.plan, Target, q)
      BY <1>8 DEF Active, UnderWay, NetReady, Removes, Target
    <3> QED BY SMTT(30), <1>5, <1>7, <2>2, <3>1 DEF OwnedIn, Forwarded, Streams, Of, Target
  <2> QED BY <2>1, <2>2
<1>10. \A x \in ToSet(op'.todo) : x.call # "unforward"
  BY <1>7, <1>8
<1> QED BY <1>6, <1>7, <1>9, <1>10, NetStep DEF BeforeNet, Checking, KeyCalls, Closing, Writing

LEMMA NetRemove ==
  ASSUME Active, NEW t, Passes(t), First.call = "remove-forwarding",
         RemoveForwarding(PortOf(First)), UNCHANGED <<gateway, dns, routes>>
  PROVE  NetReady'
<1> DEFINE p == PortOf(First)
<1>1. p \in Port
  BY FirstInMenu DEF FirstOK, Nameless
<1>2. proxy'.record = [proxy.record EXCEPT ![p] = Free] /\ proxy'.live = proxy.live \ {p}
  BY WorldFacts DEF RemoveForwarding, ProxyType
<1>3. /\ proxy'.record[p] = Free
      /\ \A q \in Port \ {p} : proxy'.record[q] = proxy.record[q] /\ (q \in proxy'.live) = (q \in proxy.live)
  BY <1>1, <1>2, WorldFacts
<1>4. \A m \in Of(op.plan) : ServedAt(op.plan[m], Target) =>
           \/ ServedAt(op.plan[m], Target)' \/ InUnit(m) \/ \E x \in ToSet(Tail(op.todo)) : Begins(x, m)
  BY <1>3, PortMoved
<1>5. /\ Setting' = Setting /\ op'.plan = op.plan /\ Advances(t) /\ ToSet(op'.todo) \subseteq ToSet(op.todo)
      /\ \A x : PortOf(x)' = PortOf(x) /\ HostOf(x)' = HostOf(x)
  BY PassesOnly
<1>6. ToSet(op.todo) = {First} \cup ToSet(Tail(op.todo)) /\ ToSet(Tail(op.todo)) \subseteq ToSet(op'.todo)
  BY <1>5, FirstInMenu DEF Advances
<1>7. ASSUME NEW q \in Port PROVE \/ proxy'.record[q] = Free \/ OwnedIn(op.plan, Target, q)'
                                  \/ \E x \in ToSet(op'.todo) : Removes(x, q)'
  <2>1. proxy.record[q] = Free \/ OwnedIn(op.plan, Target, q) \/ \E x \in ToSet(op.todo) : Removes(x, q)
    BY DEF Active, UnderWay, NetReady, Target
  <2>2. CASE q = p
    BY <1>3, <2>2
  <2>3. ASSUME q # p, NEW x \in ToSet(op.todo), Removes(x, q) PROVE \E y \in ToSet(op'.todo) : Removes(y, q)'
    <3>1. x # First
      BY <2>3 DEF Removes
    <3>2. x \in ToSet(op'.todo) /\ Removes(x, q)'
      BY <1>5, <1>6, <2>3, <3>1 DEF Removes
    <3> QED BY <3>2
  <2>4. ASSUME q # p, OwnedIn(op.plan, Target, q) PROVE OwnedIn(op.plan, Target, q)'
    BY <1>3, <1>5, <2>4 DEF OwnedIn, Forwarded, Streams, Of, Target
  <2> QED BY <1>3, <2>1, <2>2, <2>3, <2>4
<1>8. ASSUME NEW x \in ToSet(op'.todo), x.call = "unforward"
      PROVE proxy'.record[PortOf(x)'] \in {Free, HostOf(x)'}
  <2>1. proxy.record[PortOf(x)] \in {Free, HostOf(x)}
    BY <1>5, <1>8 DEF Active, UnderWay, NetReady
  <2>2. PortOf(x) \in DOMAIN proxy.record => PortOf(x) \in Port
    BY WorldFacts
  <2>3. proxy'.record[PortOf(x)] = Free \/ proxy'.record[PortOf(x)] = proxy.record[PortOf(x)]
    BY <1>1, <1>2, WorldFacts
  <2> QED BY <1>5, <2>1, <2>3
<1> QED BY <1>4, <1>5, <1>7, <1>8, NetStep DEF BeforeNet, Checking, KeyCalls, Closing, Writing

\* Calls that leave the forwardings, and what they change of the rest.
LEMMA NetPassed ==
  ASSUME Active, NEW t, Passes(t), PortsSame,
         First.call \notin BeforeNet \cup Compound \cup {"remove-forwarding"},
         \A m \in Of(op.plan) : ServedAt(op.plan[m], Target) =>
           \/ ServedAt(op.plan[m], Target)' \/ InUnit(m) \/ \E x \in ToSet(Tail(op.todo)) : Begins(x, m),
         First.call = "publish-route" \/ (First.call = "publish-record" /\ StreamIn(Setting, First))
           => \A m \in Of(op.plan) : m = First.name => ServedAt(op.plan[m], Target)'
  PROVE  NetReady'
<1>1. Advances(t) /\ ToSet(op'.todo) \subseteq ToSet(op.todo)
  BY PassesOnly
<1>2. First.call \notin {"unforward", "remove-forwarding", "relocate"}
  BY DEF Compound
<1>3. /\ \A p \in Port : \/ proxy'.record[p] = Free \/ OwnedIn(op.plan, Target, p)'
                         \/ \E x \in ToSet(op'.todo) : Removes(x, p)'
      /\ \A x \in ToSet(op'.todo) : x.call = "unforward" => proxy'.record[PortOf(x)'] \in {Free, HostOf(x)'}
  BY <1>1, <1>2, PortsKept
<1> QED BY <1>1, <1>2, <1>3, NetStep

LEMMA NetGateway ==
  ASSUME Active, NEW t, Passes(t), First.call \in {"close-gateway", "open-gateway"}, PortsSame,
         CloseGateway(PortOf(First)) \/ OpenGateway(PortOf(First), Subject(First).tailnet),
         UNCHANGED <<dns, routes>>
  PROVE  NetReady'
<1>1. /\ gateway'.up = gateway.up
      /\ \A q \in Port \ {PortOf(First)} : (q \in gateway'.ports) = (q \in gateway.ports)
  BY WorldFacts DEF CloseGateway, OpenGateway, GatewayType
<1>2. \A m \in Of(op.plan) : ServedAt(op.plan[m], Target) =>
           \/ ServedAt(op.plan[m], Target)' \/ InUnit(m) \/ \E x \in ToSet(Tail(op.todo)) : Begins(x, m)
  BY <1>1, PortMoved DEF PortsSame
<1> QED BY <1>2, NetPassed DEF BeforeNet, Checking, KeyCalls, Closing, Writing, Compound

LEMMA NetStart ==
  ASSUME Active, NEW t, Passes(t), First.call = "start-gateway", gateway' = [gateway EXCEPT !.up = TRUE],
         PortsSame, UNCHANGED <<dns, routes>>
  PROVE  NetReady'
<1>1. Setting' = Setting /\ op'.plan = op.plan
  BY PassesOnly
<1>2. \A m \in Of(op.plan) : ServedAt(op.plan[m], Target) =>
           \/ ServedAt(op.plan[m], Target)' \/ InUnit(m) \/ \E x \in ToSet(Tail(op.todo)) : Begins(x, m)
  <2>1. SUFFICES ASSUME NEW m \in Of(op.plan), ServedAt(op.plan[m], Target)
                 PROVE  ServedAt(op.plan[m], Target)' \/ \E x \in ToSet(Tail(op.todo)) : Begins(x, m)
    OBVIOUS
  <2>2. CASE IsStream(op.plan[m])
    BY <2>1, <2>2, Phases DEF Streams
  <2>3. CASE ~IsStream(op.plan[m])
    BY <1>1, <2>1, <2>3 DEF ServedAt, Target
  <2> QED BY <2>2, <2>3
<1> QED BY <1>2, NetPassed DEF BeforeNet, Checking, KeyCalls, Closing, Writing, Compound

\* The record of a publication: the last call of a stream's.
LEMMA NetRecord ==
  ASSUME Active, NEW t, Passes(t), First.call = "publish-record",
         dns' = dns \cup {HostOf(First)}, PortsSame, UNCHANGED <<gateway, routes>>
  PROVE  NetReady'
<1>1. Setting' = Setting /\ op'.plan = op.plan
  BY PassesOnly
<1>2. UnitCall(Setting, First)
  BY FirstInMenu, MenuFacts DEF PublishVerbs
<1>3. \A m \in Of(op.plan) : ServedAt(op.plan[m], Target) => ServedAt(op.plan[m], Target)'
  BY <1>1 DEF ServedAt, Forwarded, GatewayOK, PortsSame, Target
<1>4. ASSUME StreamIn(Setting, First), NEW m \in Of(op.plan), m = First.name PROVE ServedAt(op.plan[m], Target)'
  <2>1. /\ Subject(First) = op.plan[m] /\ HostOf(First) = <<op.plan[m].label, Target>> /\ IsStream(op.plan[m])
    BY <1>2, <1>4, UnitFacts, SettingFacts DEF Active, Target
  <2>2. UnitReady(First)
    BY DEF Active, UnderWay
  <2>3. Forwarded(op.plan[m], Target) /\ GatewayOK(op.plan[m])
    BY <2>1, <2>2 DEF UnitReady, Target
  <2>4. Forwarded(op.plan[m], Target)' /\ GatewayOK(op.plan[m])' /\ <<op.plan[m].label, Target>>' \in dns'
    BY <1>1, <2>1, <2>3 DEF Forwarded, GatewayOK, PortsSame, Target
  <2>5. IsStream(op.plan[m])'
    BY <1>1, <2>1
  <2> QED BY <2>4, <2>5 DEF ServedAt
<1> QED BY <1>3, <1>4, NetPassed DEF BeforeNet, Checking, KeyCalls, Closing, Writing, Compound

\* The route of a publication: the last call of a web exposure's.
LEMMA NetRoute ==
  ASSUME Active, NEW t, Passes(t), First.call = "publish-route",
         routes' = routes \cup {HostOf(First)}, PortsSame, UNCHANGED <<gateway, dns>>
  PROVE  NetReady'
<1>1. Setting' = Setting /\ op'.plan = op.plan
  BY PassesOnly
<1>2. UnitCall(Setting, First) /\ ~StreamIn(Setting, First)
  BY FirstInMenu, MenuFacts DEF PublishVerbs, Menu, WebVerbs
<1>3. \A m \in Of(op.plan) : ServedAt(op.plan[m], Target) => ServedAt(op.plan[m], Target)'
  BY <1>1 DEF ServedAt, Forwarded, GatewayOK, PortsSame, Target
<1>4. ASSUME NEW m \in Of(op.plan), m = First.name PROVE ServedAt(op.plan[m], Target)'
  <2>1. /\ Subject(First) = op.plan[m] /\ HostOf(First) = <<op.plan[m].label, Target>> /\ ~IsStream(op.plan[m])
    BY <1>2, <1>4, UnitFacts, SettingFacts DEF Active, Target
  <2>2. UnitReady(First)
    BY DEF Active, UnderWay
  <2>3. HostOf(First) \in dns
    BY <2>2 DEF UnitReady
  <2> QED BY <1>1, <2>1, <2>3 DEF ServedAt, Target
<1> QED BY <1>3, <1>4, NetPassed DEF BeforeNet, Checking, KeyCalls, Closing, Writing, Compound

LEMMA NetDelete ==
  ASSUME Active, NEW t, Passes(t), First.call \in {"delete-record", "delete-route"},
         First.call = "delete-record" => dns' = dns \ {HostOf(First)} /\ routes' = routes,
         First.call = "delete-route" => routes' = routes \ {HostOf(First)} /\ dns' = dns,
         PortsSame, gateway' = gateway
  PROVE  NetReady'
<1>1. Setting' = Setting /\ op'.plan = op.plan
  BY PassesOnly
<1>2. Withdraws(Setting, First)
  BY FirstInMenu, MenuFacts DEF WithdrawVerbs
<1>3. ASSUME NEW m \in Of(op.plan), ServedAt(op.plan[m], Target)
      PROVE  ServedAt(op.plan[m], Target)' \/ \E x \in ToSet(Tail(op.todo)) : Begins(x, m)
  <2>1. CASE /\ <<op.plan[m].label, Target>> = HostOf(First)
             /\ First.call = "delete-route" => ~IsStream(op.plan[m])
    BY <1>2, <2>1, HostnameOwner DEF Target
  <2>2. CASE <<op.plan[m].label, Target>> # HostOf(First) \/ (First.call = "delete-route" /\ IsStream(op.plan[m]))
    <3>1. <<op.plan[m].label, Target>> \in dns'
      BY <1>3, <2>2 DEF ServedAt
    <3>2. ~IsStream(op.plan[m]) => <<op.plan[m].label, Target>> \in routes'
      BY <1>3, <2>2 DEF ServedAt
    <3>3. IsStream(op.plan[m]) => (Forwarded(op.plan[m], Target) /\ GatewayOK(op.plan[m]))'
      BY <1>1, <1>3 DEF ServedAt, Forwarded, GatewayOK, PortsSame, Target
    <3> QED BY <1>1, <3>1, <3>2, <3>3 DEF ServedAt, Target
  <2> QED BY <2>1, <2>2
<1> QED BY <1>3, NetPassed DEF BeforeNet, Checking, KeyCalls, Closing, Writing, Compound

-----------------------------------------------------------------------------
(* What the next call of a publication or a withdrawal finds *)

LEMMA SteadyNow ==
  ASSUME Active, First.call \notin Restoring \cup {"start-private", "install"}, ~Forwards(First)
  PROVE  Steady
BY DEF Active, UnderWay, UnitReady, Unsteady

\* What the next call is about, when it is about the same exposure.
LEMMA SameSubject ==
  ASSUME Active, NEW t, Passes(t), t.name = First.name
  PROVE  /\ Subject(t)' = Subject(First) /\ PortOf(t)' = PortOf(First) /\ IsSsh(t)' = IsSsh(First)
         /\ Target' = Target /\ StreamIn(Setting, t) = IsStream(Subject(First))
         /\ t.to = First.to => HostOf(t)' = HostOf(First)
<1>1. Same
  BY DEF Passes, Advances
<1>2. /\ Subject(t)' = Subject(t) /\ PortOf(t)' = PortOf(t) /\ IsSsh(t)' = IsSsh(t) /\ HostOf(t)' = HostOf(t)
      /\ Setting' = Setting
  BY <1>1, SameFacts
<1>3. Subject(t) = Subject(First)
  BY DEF Subject
<1> QED BY <1>2, <1>3, SettingFacts DEF PortOf, IsSsh, HostOf, Target

\* Where the calls with something to find come from.
LEMMA Predecessors ==
  ASSUME Active, NEW t, Passes(t)
  PROVE  /\ t.block = "relocation" => First.call \in {"save-activity", "stop-admin"} /\ First.block = "relocation"
         /\ Forwards(t) => First.call \in {"relocate", "start-private"}
         /\ t.call = "install" => Forwards(First)
         /\ t.call = "open-gateway" => First.call = "install"
         /\ t.call = "publish-record" /\ StreamIn(Setting, t) => First.call = "open-gateway"
         /\ t.call = "publish-route" => First.call = "publish-record" /\ First.name = t.name /\ First.to = t.to
         /\ t.call = "restore" => First.call \in {"close-gateway", "remove-forwarding"} /\ First.name = t.name
         /\ t.call = "close-gateway" => Forwards(t)
<1>1. Follows(First, t) /\ LedBy(First, t) /\ t \in CallType(N_, S_) /\ Joins(Setting, First, t)
  BY DEF Passes, Joins
<1>2. t.block = "relocation" => t.call \in {"stop-admin", "start-private"}
  BY <1>1 DEF CallType, RelocationCalls, Follows, FollowsInAdmin
<1>3. t.call = "stop-admin" => First.call = "save-activity" /\ First.block = t.block
  BY <1>1 DEF Follows, FollowsInAdmin, Joins, Leads
<1>4. t.call = "start-private" => First.call = "stop-admin" /\ First.block = t.block
  BY <1>1 DEF Follows, FollowsInAdmin, Joins, Leads
<1>5. t.call = "publish-record" /\ StreamIn(Setting, t) => First.call = "open-gateway"
  <2>1. SUFFICES ASSUME t.call = "publish-record", StreamIn(Setting, t), First.call = "check-web" PROVE FALSE
    BY <1>1 DEF LedBy
  <2>2. t.name = First.name
    BY <1>1, <2>1 DEF Joins, Leads
  <2>3. ~StreamIn(Setting, First)
    BY <2>1, FirstInMenu DEF Menu, WebVerbs
  <2> QED BY <2>1, <2>2, <2>3 DEF StreamIn
<1>6. t.call = "restore" => First.call \in {"close-gateway", "remove-forwarding"} /\ First.name = t.name
  BY <1>1 DEF Follows, FollowsInAdmin, Dependent, AdminSteps
<1> QED BY <1>1, <1>2, <1>3, <1>4, <1>5, <1>6 DEF Follows, FollowsInAdmin, LedBy, Leading, Forwards

\* A call that finds nothing but the proxy's sshd in its place.
LEMMA UnitQuiet ==
  ASSUME Steady', NEW t, t.block # "relocation", t.call \notin {"install", "open-gateway", "publish-route", "restore"},
         t.call = "publish-record" => ~IsStream(Subject(t))',
         t.call = "close-gateway" => FALSE
  PROVE  UnitReady(t)'
BY DEF UnitReady, Forwards

LEMMA UnitCalm ==
  ASSUME Active, NEW t, Passes(t), Steady',
         First.call \notin {"save-activity", "stop-admin", "relocate", "start-private", "close-gateway", "install",
                            "open-gateway", "remove-forwarding", "publish-record"}
  PROVE  UnitReady(t)'
<1>1. /\ t.block # "relocation" /\ t.call \notin {"install", "open-gateway", "publish-route", "restore", "close-gateway"}
      /\ t.call = "publish-record" => ~StreamIn(Setting, t)
  BY Predecessors DEF Forwards
<1>2. Subject(t)' = Subject(t) /\ StreamIn(Setting, t) = IsStream(Subject(t))
  BY SameFacts, SettingFacts DEF Passes, Advances
<1> QED BY <1>1, <1>2, UnitQuiet

LEMMA SteadySame ==
  ASSUME Steady, proxy'.saved = proxy.saved, proxy'.admin = proxy.admin, proxy.live \subseteq proxy'.live
  PROVE  Steady'
BY DEF Steady

\* A call of the forwarding is followed by another one, before any restoration.
LEMMA ForwardsOn ==
  ASSUME Active, NEW t, Advances(t), Forwards(t)
  PROVE  ~(Len(op'.todo) > 1 /\ op'.todo[2].call = "restore")
<1>1. SUFFICES ASSUME Len(op'.todo) > 1 PROVE op'.todo[2].call # "restore"
  OBVIOUS
<1>2. Listed(Setting, op'.todo) /\ op'.todo # <<>> /\ Head(op'.todo) = t
  BY DEF Advances
<1>3. op'.todo \in Seq(CallRecord) /\ Joined(Setting, op'.todo)
  BY <1>2 DEF Listed
<1>4. Len(op'.todo) \in Nat /\ op'.todo[1] = t
  BY <1>2, <1>3
<1>5. Joins(Setting, op'.todo[1], op'.todo[1 + 1])
  <2>1. 1 \in 1..(Len(op'.todo) - 1)
    BY <1>1, <1>4
  <2> QED BY <1>3, <2>1 DEF Joined
<1>6. NextInUnit(Setting, t, op'.todo[2])
  BY <1>4, <1>5 DEF Joins, Leads
<1> QED BY <1>6 DEF NextInUnit

LEMMA UnitForwards ==
  ASSUME Active, NEW t, Advances(t), Forwards(t), Steady' \/ IsSsh(t)',
         IsSsh(t)' => proxy'.admin # "ssh" /\ (proxy'.saved = "none" \/ proxy'.admin = "private")
  PROVE  UnitReady(t)'
<1>1. ~(Len(op'.todo) > 1 /\ op'.todo[2].call = "restore")
  BY ForwardsOn
<1>2. t.block = "forward" /\ t.call = "close-gateway"
  BY DEF Forwards
<1>3. Forwards(t)'
  BY <1>2 DEF Forwards
<1>4. Steady' \/ Unsteady(t)'
  BY <1>3 DEF Unsteady
<1> QED BY <1>1, <1>2, <1>4 DEF UnitReady

LEMMA FirstReady ==
  ASSUME Active
  PROVE  /\ UnitReady(First) /\ ReadyAdmin(First) /\ ReadyKeys(First) /\ AdminOK /\ KeysOK
         /\ First.call \in {"save-activity", "start-private"} => First.block = "relocation"
         /\ First.call \in {"install", "open-gateway"} => First.block = "forward"
         /\ First.call \notin Nameless =>
              /\ First.name \in Name /\ PortOf(First) \in Port /\ HostOf(First) \in Hostname
              /\ Subject(First) \in Exposure /\ IsSsh(First) = (PortOf(First) = SshPort)
         /\ First.call \in SshCalls => IsSsh(First)
<1>1. UnitReady(First) /\ ReadyAdmin(First) /\ ReadyKeys(First) /\ AdminOK /\ KeysOK
  BY DEF Active, UnderWay, IInv, ReadyOK
<1>2. First \in CallType(N_, S_) /\ FirstOK
  BY FirstInMenu
<1>3. First.call \in SshCalls => IsSsh(First)
  BY <1>2 DEF FirstOK, S_, KnownSsh, Known, Planned, IsSsh, Subject
<1> QED BY <1>1, <1>2, <1>3 DEF FirstOK, CallType

LEMMA UnitSave ==
  ASSUME Active, NEW t, Passes(t), First.call = "save-activity", SaveActivity
  PROVE  UnitReady(t)'
<1>1. t.call = "stop-admin" /\ t.block = "relocation"
  BY FirstReady DEF Passes, Joins, Leads, NextInUnit
<1>2. SshPort \notin proxy.live /\ proxy.stock = "ssh"
  BY FirstReady DEF UnitReady
<1>3. proxy'.live = proxy.live /\ proxy'.stock = proxy.stock
  BY WorldFacts DEF SaveActivity, ProxyType
<1> QED BY <1>1, <1>2, <1>3 DEF UnitReady, Unsteady, Restoring, Forwards

LEMMA UnitStop ==
  ASSUME Active, NEW t, Passes(t), First.call = "stop-admin", StopAdmin
  PROVE  UnitReady(t)'
<1>1. /\ t.call = IF First.block = "relocation" THEN "start-private" ELSE "start-stock"
      /\ t.block = First.block
  BY DEF Passes, Joins, Leads, NextInUnit
<1>2. First.block = "relocation" => SshPort \notin proxy.live /\ proxy.stock = "ssh"
  BY FirstReady DEF UnitReady
<1>3. proxy'.live = proxy.live /\ proxy'.stock = proxy.stock
  BY WorldFacts DEF StopAdmin, ProxyType
<1> QED BY <1>1, <1>2, <1>3 DEF UnitReady, Unsteady, Restoring, Forwards

LEMMA UnitPrivate ==
  ASSUME Active, NEW t, Passes(t), First.call = "start-private", StartPrivate
  PROVE  UnitReady(t)'
<1>1. Forwards(t) /\ t.name = First.name
  BY DEF Passes, Joins, Leads, NextInUnit
<1>2. proxy.stock = "ssh" /\ proxy.saved # "none" /\ IsSsh(First)
  BY FirstReady DEF UnitReady, ReadyAdmin, SshCalls
<1>3. proxy.saved = "active"
  BY <1>2, FirstReady DEF AdminOK, AdminRestorable
<1>4. proxy'.admin = "private" /\ proxy'.saved = proxy.saved
  BY <1>3, WorldFacts DEF StartPrivate, ProxyType
<1>5. IsSsh(t)'
  BY <1>1, <1>2, SameSubject
<1>6. Advances(t)
  BY DEF Passes
<1> QED BY <1>1, <1>4, <1>5, <1>6, UnitForwards

LEMMA UnitStock ==
  ASSUME Active, NEW t, Passes(t), First.call = "start-stock"
  PROVE  UnitReady(t)'
<1>1. t.call = "forget-activity"
  BY DEF Passes, Joins, Leads, NextInUnit
<1>2. t.block # "relocation"
  BY <1>1, Predecessors
<1> QED BY <1>1, <1>2 DEF UnitReady, Unsteady, Restoring, Forwards

LEMMA UnitClose ==
  ASSUME Active, NEW t, Passes(t), First.call = "close-gateway", proxy' = proxy
  PROVE  UnitReady(t)'
<1>1. CASE Forwards(First)
  <2>1. t.call = "install" /\ t.name = First.name /\ t.block = First.block
    BY <1>1 DEF Passes, Joins, Leads, NextInUnit
  <2>2. IsSsh(t)' = IsSsh(First)
    BY <2>1, SameSubject
  <2>3. Steady \/ IsSsh(First)
    BY <1>1, FirstReady DEF UnitReady, Unsteady, Restoring, Forwards
  <2>4. IsSsh(First) => proxy.admin # "ssh" /\ (proxy.saved = "none" \/ proxy.admin = "private")
    BY <1>1, FirstReady DEF UnitReady
  <2>5. t.block = "forward"
    BY <1>1, <2>1 DEF Forwards
  <2> QED BY <2>1, <2>2, <2>3, <2>4, <2>5 DEF UnitReady, Unsteady, Steady
<1>2. CASE ~Forwards(First)
  <2>1. Steady
    BY <1>2, SteadyNow DEF Restoring
  <2>2. /\ t.block # "relocation"
        /\ t.call \notin {"install", "open-gateway", "publish-route", "close-gateway"} /\ ~Forwards(t)
        /\ t.call = "publish-record" => ~StreamIn(Setting, t)
    BY <1>2, Predecessors DEF Forwards
  <2>3. Subject(t)' = Subject(t) /\ StreamIn(Setting, t) = IsStream(Subject(t))
    BY SameFacts, SettingFacts DEF Passes, Advances
  <2>4. ASSUME t.call = "restore" PROVE SshPort \notin proxy.live
    <3>1. op.todo \in Seq(CallRecord) /\ Len(op.todo) \in Nat /\ op'.todo = Tail(op.todo) /\ Head(op'.todo) = t
          /\ op'.todo # <<>> /\ Len(Tail(op.todo)) = Len(op.todo) - 1 /\ Tail(op.todo) \in Seq(CallRecord)
          /\ \A i \in 1..Len(Tail(op.todo)) : Tail(op.todo)[i] = op.todo[i + 1]
      BY TodoFacts DEF Passes, Advances, Active
    <3>2. Len(op'.todo) \in Nat \ {0} /\ Head(op'.todo) = op'.todo[1]
      BY <3>1
    <3>3. Len(op.todo) > 1 /\ op.todo[2] = t
      BY <3>1, <3>2
    <3> QED BY <2>4, <3>3, FirstReady DEF UnitReady
  <2> QED BY <2>1, <2>2, <2>3, <2>4 DEF UnitReady, Steady
<1> QED BY <1>1, <1>2

LEMMA UnitInstall ==
  ASSUME Active, NEW t, Passes(t), First.call = "install", InstallForwarding(PortOf(First), HostOf(First))
  PROVE  UnitReady(t)'
<1>1. First.block = "forward" /\ PortOf(First) \in Port /\ IsSsh(First) = (PortOf(First) = SshPort)
  BY FirstReady DEF Nameless
<1>2. t.call = "open-gateway" /\ t.name = First.name /\ t.to = First.to /\ t.block = First.block
  BY DEF Passes, Joins, Leads, NextInUnit
<1>3. /\ proxy'.record[PortOf(First)] = HostOf(First) /\ proxy'.live = proxy.live \cup {PortOf(First)}
      /\ proxy'.admin = proxy.admin /\ proxy'.saved = proxy.saved
  BY <1>1, WorldFacts DEF InstallForwarding, ProxyType
<1>4. Steady'
  <2>1. CASE IsSsh(First)
    <3>1. proxy.admin # "ssh" /\ (proxy.saved = "none" \/ proxy.admin = "private")
      BY <2>1, FirstReady DEF UnitReady
    <3> QED BY <1>1, <1>3, <2>1, <3>1 DEF Steady
  <2>2. CASE ~IsSsh(First)
    <3>1. Steady
      BY <1>1, <2>2, FirstReady DEF UnitReady, Unsteady, Restoring
    <3> QED BY <1>3, <3>1, SteadySame
  <2> QED BY <2>1, <2>2
<1>5. UnitCall(Setting, First)
  BY FirstInMenu, MenuFacts DEF PublishVerbs
<1>6. Forwarded(Subject(t), Target)'
  <2>1. HostOf(First) = <<Subject(First).label, Target>> /\ Subject(First).port = PortOf(First)
    BY <1>5, UnitFacts DEF Active, Target, PortOf
  <2>2. Subject(t)' = Subject(First) /\ Target' = Target
    BY <1>2, SameSubject
  <2>3. /\ proxy'.record[(Subject(t)').port] = <<(Subject(t)').label, Target'>>
        /\ (Subject(t)').port \in proxy'.live
    BY <1>3, <2>1, <2>2
  <2> QED BY <2>3 DEF Forwarded
<1> QED BY <1>1, <1>2, <1>4, <1>6 DEF UnitReady, Forwards, Target

LEMMA UnitOpen ==
  ASSUME Active, NEW t, Passes(t), First.call = "open-gateway", proxy' = proxy,
         OpenGateway(PortOf(First), Subject(First).tailnet)
  PROVE  UnitReady(t)'
<1>1. t.call = "publish-record" /\ t.name = First.name /\ t.to = First.to
  BY DEF Passes, Joins, Leads, NextInUnit
<1>2. t.block # "relocation" /\ ~Forwards(t)
  BY <1>1, Predecessors DEF Forwards
<1>3. Steady
  BY SteadyNow DEF Restoring, Forwards
<1>4. IsStream(Subject(First)) => Forwarded(Subject(First), Target)
  BY FirstReady DEF UnitReady, Target
<1>5. Subject(t)' = Subject(First) /\ Target' = Target
  BY <1>1, SameSubject
<1>6. IsStream(Subject(t))' => Forwarded(Subject(t), Target)'
  BY <1>4, <1>5 DEF Forwarded, IsStream
<1>7. GatewayOK(Subject(t))'
  <2>1. Subject(First) \in Exposure /\ PortOf(First) = Subject(First).port
    BY FirstReady DEF Nameless, PortOf
  <2>2. gateway'.up = gateway.up
        /\ gateway'.ports = IF gateway.up /\ Subject(First).tailnet THEN gateway.ports \cup {PortOf(First)}
                            ELSE gateway.ports \ {PortOf(First)}
    BY WorldFacts DEF OpenGateway, GatewayType
  <2>3. (PortOf(First) \in gateway'.ports) = (gateway'.up /\ Subject(First).tailnet)
    BY <2>1, <2>2, WorldFacts DEF Exposure
  <2>4. ((Subject(t)').port \in gateway'.ports) = (gateway'.up /\ (Subject(t)').tailnet)
    BY <1>5, <2>1, <2>3
  <2> QED BY <2>4 DEF GatewayOK
<1> QED BY <1>1, <1>2, <1>3, <1>6, <1>7 DEF UnitReady, Steady, Target

LEMMA UnitRecord ==
  ASSUME Active, NEW t, Passes(t), First.call = "publish-record", proxy' = proxy, HostOf(First) \in dns'
  PROVE  UnitReady(t)'
<1>1. /\ t.block # "relocation" /\ ~Forwards(t)
      /\ t.call \notin {"install", "open-gateway", "restore", "close-gateway"}
      /\ t.call = "publish-record" => ~StreamIn(Setting, t)
      /\ t.call = "publish-route" => First.name = t.name /\ First.to = t.to
  BY Predecessors DEF Forwards
<1>2. Steady
  BY SteadyNow DEF Restoring, Forwards
<1>3. t.call = "publish-route" => HostOf(t)' \in dns'
  BY <1>1, SameSubject
<1>4. Subject(t)' = Subject(t) /\ StreamIn(Setting, t) = IsStream(Subject(t))
  BY SameFacts, SettingFacts DEF Passes, Advances
<1> QED BY <1>1, <1>2, <1>3, <1>4 DEF UnitReady, Steady

LEMMA UnitRemove ==
  ASSUME Active, NEW t, Passes(t), First.call = "remove-forwarding", RemoveForwarding(PortOf(First))
  PROVE  UnitReady(t)'
<1>1. /\ t.block # "relocation" /\ ~Forwards(t)
      /\ t.call \notin {"install", "open-gateway", "publish-route", "close-gateway"}
      /\ t.call = "publish-record" => ~StreamIn(Setting, t)
      /\ t.call = "restore" => First.name = t.name
  BY Predecessors DEF Forwards
<1>2. Steady
  BY SteadyNow DEF Restoring, Forwards
<1>3. PortOf(First) \in Port /\ IsSsh(First) = (PortOf(First) = SshPort)
  BY FirstReady DEF Nameless
<1>4. proxy'.live = proxy.live \ {PortOf(First)} /\ proxy'.admin = proxy.admin /\ proxy'.saved = proxy.saved
  BY <1>3, WorldFacts DEF RemoveForwarding, ProxyType
<1>5. t.call = "restore" => IsSsh(First)
  <2>1. t.call = "restore" => t.name \in S_
    BY DEF Passes, CallType, SshCalls
  <2> QED BY <1>1, <2>1 DEF S_, KnownSsh, Known, Planned, IsSsh, Subject
<1>6. IsSsh(First) => t.call = "restore"
  BY SettingFacts DEF Passes, Joins, Leads, NextInUnit
<1>7. t.call = "restore" => SshPort \notin proxy'.live /\ (proxy'.saved = "none" \/ proxy'.admin = "private")
  BY <1>2, <1>3, <1>4, <1>5 DEF Steady
<1>8. Steady' \/ t.call = "restore"
  BY <1>2, <1>3, <1>4, <1>6 DEF Steady
<1>9. Subject(t)' = Subject(t) /\ StreamIn(Setting, t) = IsStream(Subject(t))
  BY SameFacts, SettingFacts DEF Passes, Advances
<1> QED BY <1>1, <1>7, <1>8, <1>9 DEF UnitReady, Unsteady, Restoring

-----------------------------------------------------------------------------
(* What the next call of the host's daemon finds *)

HostVerbs == KeyCalls \cup Writing \cup Closing \cup Cleaning
               \cup {"enable-host", "activate-key", "replace-key", "prepare-key"}

LEMMA HostPredecessors ==
  ASSUME Active, NEW t, Passes(t)
  PROVE  /\ t.call \notin {"revoke-keys", "prepare-key", "activate-key", "replace-key", "make-directory"}
         /\ t.call = "disable-record" => First.call = "revoke-keys"
         /\ t.call = "terminate" => First.call = "disable-record"
         /\ t.call = "stop-daemon" => First.call = "terminate"
         /\ t.call = "check-owned" => First.call = "stop-daemon"
         /\ t.call = "write-record" => First.call \in {"make-directory", "write-config"}
         /\ t.call = "write-config" => First.call \in {"write-record", "stop-daemon"}
         /\ t.call = "write-unit" => First.call = "write-config"
         /\ t.call = "install-key" => First.call \in {"write-unit", "write-record", "stop-daemon"}
         /\ t.call = "authorize" => First.call = "install-key"
         /\ t.call = "start-daemon" => First.call = "authorize"
         /\ t.call = "enable-record" => First.call = "start-daemon"
         /\ t.call = "verify" => First.call = "enable-record"
         /\ t.call = "enable-host" => First.call \in {"check-dns", "stop-daemon"}
         /\ t.call = "remove-unit" => First.call = "check-owned"
         /\ t.call = "reload" => First.call = "remove-unit"
         /\ t.call = "remove-record" => First.call = "reload"
         /\ t.call = "remove-files" => First.call = "remove-record"
<1>1. FollowsInKeys(First, t) /\ LedBy(First, t)
  BY DEF Passes, Joins, Follows
<1> QED BY <1>1 DEF FollowsInKeys, LedBy, Leading

\* What commands without a publication consist of.
LEMMA KeyMenu ==
  ASSUME NEW v, NEW t \in Menu(v)
  PROVE  /\ v.cmd.do \in {"activate", "replace"} => t.call \in HostVerbs /\ t.call # "prepare-key"
         /\ v.cmd.do \in {"prepare", "uninstall"} => t.call \in HostVerbs \cup {"delete-project"}
         /\ v.cmd.do = "prepare" => t.call = "prepare-key"
         /\ v.cmd.do = "uninstall" => t.call \in Closing \cup Cleaning \cup {"delete-project"}
         /\ PublishesSshIn(v) /\ t.call \notin HostVerbs => t.block \in UnitBlocks \/ t.call = "save" \/ Early(t)
         /\ t.block \in UnitBlocks => t.call \notin HostVerbs
         /\ t.call = "enable-host" => t.block = "plain"
<1>1. UnitCall(v, t) \/ WithdrawCall(v, t) \/ BareCall(v, t) \/ (t.block = "host" /\ MakesKeys(v) /\ t.call \in KeyCalls)
  BY DEF Menu
<1>2. CASE UnitCall(v, t)
  BY <1>2 DEF UnitCall, Everything, UnitBlocks, HostVerbs, UnitVerbs, RelocationCalls, KeyCalls, Writing, Closing,
     Cleaning
<1>3. CASE WithdrawCall(v, t)
  BY <1>3 DEF WithdrawCall, Withdrawing, Restoring, UnitBlocks, PublishesSshIn
<1>4. CASE t.block = "host" /\ MakesKeys(v) /\ t.call \in KeyCalls
  BY <1>4 DEF MakesKeys, PublishesSshIn, KeyCalls, HostVerbs, UnitBlocks
<1>5. CASE BareCall(v, t)
  BY <1>5 DEF BareCall, MakesKeys, PublishesSshIn, RemovesSsh, HostVerbs, UnitBlocks, Everything, Early, Checking,
     Withdrawing, Restoring, Closing, Writing, Cleaning, KeyCalls
<1> QED BY <1>1, <1>2, <1>3, <1>4, <1>5

LEMMA NotIdle ==
  ASSUME MakesKeys(Setting) \/ RemovesSsh(Setting) \/ op.cmd.do = "uninstall"
  PROVE  ~HostIdle /\ (RemovesSsh(Setting) = (op.cmd.do = "remove" /\ ~HostIdle))
<1>1. /\ Setting.cmd = op.cmd /\ Setting.inventory = inventory /\ PublishesSshIn(Setting) = PublishesSsh
  BY SettingFacts
<1> QED BY <1>1 DEF MakesKeys, RemovesSsh, HostIdle, Everything, PublishesSsh

\* Nothing changes for the host's daemon.
LEMMA HostSame ==
  ASSUME Active, NEW t, Advances(t), Passes(t) \/ (First.call \in Compound /\ t.call \notin HostVerbs),
         host' = host, First.call \notin HostVerbs
  PROVE  HostReady(t)'
<1>1. /\ HostReady(First) /\ First' = t /\ Same
  BY DEF Active, UnderWay, Advances, First
<1>2. /\ HostIdle' = HostIdle /\ PublishesSsh' = PublishesSsh /\ op'.cmd = op.cmd /\ inventory' = inventory
      /\ SshOf(inventory)' = SshOf(inventory)
  BY <1>1, SameFacts DEF Same
<1>3. HostRest' = HostRest /\ HostOwned' = HostOwned /\ HostEnabled' = HostEnabled
  BY <1>2 DEF HostRest, HostHealthy, HostOwned, HostEnabled
<1>4. t.call \in HostVerbs => t.call = "enable-host" /\ First.call = "check-dns"
  <2>1. SUFFICES ASSUME Passes(t), t.call \in HostVerbs PROVE t.call = "enable-host" /\ First.call = "check-dns"
    OBVIOUS
  <2>2. First.call \notin KeyCalls \cup Writing \cup Closing \cup Cleaning
    BY DEF HostVerbs
  <2> QED BY <2>1, <2>2, HostPredecessors DEF HostVerbs, KeyCalls, Writing, Closing, Cleaning
<1>5. op.cmd.do \notin {"activate", "replace"}
  BY FirstInMenu, KeyMenu, SettingFacts
<1>6. MayRefuse(Checking \cup {"enable-host"})' => HostIdle \/ MayRefuse(Checking \cup {"enable-host"})
  <2>1. SUFFICES ASSUME op.cmd.do = "publish", PublishesSsh, t.call \in Checking \cup {"enable-host"}, t.block = "plain"
                 PROVE  MayRefuse(Checking \cup {"enable-host"})
    BY <1>1, <1>2 DEF MayRefuse, HostIdle
  <2>2. Early(First)
    BY <2>1 DEF Advances, Early
  <2> QED BY <2>1, <2>2 DEF MayRefuse, Early
<1>7. (HostIdle \/ MayRefuse(Checking \cup {"enable-host"}) \/ t.call \in {"activate-key", "replace-key"}
         => HostRest)'
  <2>1. t.call \notin {"activate-key", "replace-key"}
    BY <1>4 DEF HostVerbs
  <2> QED BY <1>1, <1>2, <1>3, <1>6, <2>1 DEF HostReady
<1>8. PublishesSsh /\ (t.block \in UnitBlocks \/ t.call = "save") => HostHealthy(op.cmd.wish.account)
  <2>1. SUFFICES ASSUME PublishesSsh, t.block \in UnitBlocks \/ t.call = "save"
                 PROVE  First.block \in UnitBlocks \/ First.call = "save"
    BY <1>1 DEF HostReady
  <2>2. CASE Early(First)
    <3>1. Passes(t) /\ First.call \in Checking /\ First.block = "plain"
      BY <2>2 DEF Early, Compound, Checking
    <3>2. StreamIn(Setting, First)
      <4>1. op.cmd.do = "publish"
        BY <2>1 DEF PublishesSsh
      <4>2. Subject(First) = op.cmd.wish
        BY <4>1, PublishFacts
      <4> QED BY <2>1, <4>2, SettingFacts DEF PublishesSsh, IsStream
    <3>3. t.block = "plain" /\ t.call # "save"
      BY <3>1, <3>2 DEF Passes, Joins, Leads, NextInUnit, Checking
    <3> QED BY <2>1, <3>3 DEF UnitBlocks
  <2> QED BY <2>1, <2>2, FirstInMenu, KeyMenu, SettingFacts
<1>9. op.cmd.do = "remove" /\ ~HostIdle => host.disabled
  BY <1>1 DEF HostReady, HostVerbs, Closing
<1>10. op.cmd.do = "uninstall" => ~HostEnabled
  BY <1>1 DEF HostReady, HostVerbs, Closing
<1>11. PublishesSsh' /\ (t.block \in UnitBlocks \/ t.call = "save") => HostHealthy(op.cmd.wish.account)'
  BY <1>2, <1>8 DEF HostHealthy, HostOwned, HostEnabled
<1>12. t.call \notin Closing \cup {"check-owned", "terminate", "stop-daemon", "authorize", "start-daemon",
                                   "enable-record", "verify"}
  BY <1>4 DEF HostVerbs, Closing, Cleaning, KeyCalls
<1> QED BY <1>2, <1>3, <1>5, <1>7, <1>9, <1>10, <1>11, <1>12 DEF HostReady

\* A command that changes the host's daemon.
HostBusy == MakesKeys(Setting) \/ RemovesSsh(Setting) \/ op.cmd.do = "uninstall"

LEMMA BusyFirst ==
  ASSUME Active, First.call \in HostVerbs \ {"prepare-key"}
  PROVE  /\ HostBusy /\ ~HostIdle
         /\ First.call \in KeyCalls \cup Writing \cup {"enable-host", "activate-key", "replace-key"} => MakesKeys(Setting)
         /\ First.call \in Cleaning => op.cmd.do = "uninstall"
         /\ MakesKeys(Setting) => op.cmd.do \notin {"remove", "uninstall"}
         /\ RemovesSsh(Setting) => op.cmd.do = "remove" /\ ~PublishesSsh
         /\ op.cmd.do = "uninstall" => ~PublishesSsh
<1>1. HostBusy /\ Setting.cmd = op.cmd
  BY FirstInMenu, MenuFacts, SettingFacts DEF HostBusy, HostVerbs, MakesKeys
<1>2. First.call \in KeyCalls \cup Writing \cup {"enable-host", "activate-key", "replace-key"} => MakesKeys(Setting)
  BY <1>1, FirstInMenu, MenuFacts DEF MakesKeys
<1>3. First.call \in Cleaning => op.cmd.do = "uninstall"
  BY <1>1, FirstInMenu, MenuFacts
<1>4. MakesKeys(Setting) => op.cmd.do \notin {"remove", "uninstall"}
  BY <1>1 DEF MakesKeys, PublishesSshIn
<1> QED BY <1>1, <1>2, <1>3, <1>4, NotIdle DEF RemovesSsh, PublishesSsh, HostBusy

\* What is left to show of the call after one of the host's daemon.
HostFinds(t) ==
  LET a == Subject(t).account
  IN /\ PublishesSsh /\ (t.block \in UnitBlocks \/ t.call = "save") => HostHealthy(op.cmd.wish.account)
     /\ op.cmd.do \in {"activate", "replace"} /\ t.call \in Closing \cup {"enable-host"}
          => HostOwned /\ host.record = a
     /\ op.cmd.do \in {"activate", "replace"} /\ t.call = "enable-host" => (HostEnabled => op.key # NoKey)
     /\ t.call \in Closing \cup {"check-owned"}
          => HostOwned \/ (op.cmd.do = "uninstall" /\ SshOf(inventory) = {})
     /\ t.call \in {"terminate", "stop-daemon"} => host.disabled
     /\ t.call \in {"authorize", "start-daemon", "enable-record", "verify"}
          => HostOwned /\ host.record = a /\ host.client # NoKey
     /\ t.call \in {"start-daemon", "enable-record", "verify"} => host.client = host.authorized
     /\ t.call \in {"enable-record", "verify"} => host.daemon
     /\ t.call = "verify" => ~host.disabled
     /\ op.cmd.do = "remove" => t.call \in {"revoke-keys", "disable-record"} \/ host.disabled
     /\ op.cmd.do = "uninstall"
          => (t.call \in {"revoke-keys", "disable-record"} /\ SshOf(inventory) # {}) \/ ~HostEnabled

LEMMA HostBusyReady ==
  ASSUME Active, NEW t, Advances(t), First.call \in HostVerbs \ {"prepare-key"},
         t.call \notin {"activate-key", "replace-key"}, HostFinds(t)'
  PROVE  HostReady(t)'
<1>1. First' = t /\ Same /\ ~HostIdle
  BY BusyFirst DEF Advances, First
<1>2. HostIdle' = HostIdle /\ PublishesSsh' = PublishesSsh /\ op'.cmd = op.cmd
  BY <1>1, SameFacts DEF Same
<1>3. ~MayRefuse(Checking \cup {"enable-host"})'
  <2>1. SUFFICES ASSUME op.cmd.do = "publish", t.call \in Checking \cup {"enable-host"},
                        t.block = IF PublishesSsh THEN "plain" ELSE "publish"
                 PROVE  FALSE
    BY <1>1, <1>2 DEF MayRefuse
  <2>2. PublishesSsh
    BY <1>1, <2>1 DEF HostIdle
  <2>3. Early(First)
    BY <2>1, <2>2 DEF Advances, Early
  <2> QED BY <2>3 DEF Early, Checking, HostVerbs, KeyCalls, Writing, Closing, Cleaning
<1> QED BY <1>1, <1>2, <1>3 DEF HostReady, HostFinds

\* What the next call of a command that changes the daemon is about.
LEMMA BusyNext ==
  ASSUME Active, NEW t, Advances(t), First.call \in HostVerbs \ {"prepare-key"}
  PROVE  /\ Same /\ op'.cmd = op.cmd /\ PublishesSsh' = PublishesSsh /\ SshOf(inventory)' = SshOf(inventory)
         /\ HostFinds(First)
         /\ t.name = First.name => Subject(t)' = Subject(First)
         /\ t.call \in HostVerbs => t.block \notin UnitBlocks
         /\ HostOwned' = (host'.record # Nobody /\ host'.config = host'.record /\ host'.unit)
         /\ HostEnabled' = (host'.record # Nobody /\ ~host'.disabled)
<1>1. Same /\ HostReady(First)
  BY DEF Advances, Active, UnderWay
<1>2. /\ PublishesSsh' = PublishesSsh /\ SshOf(inventory)' = SshOf(inventory) /\ Subject(t)' = Subject(t)
  BY <1>1, SameFacts
<1>3. HostFinds(First)
  BY <1>1, BusyFirst DEF HostReady, HostFinds
<1>4. t.call \in HostVerbs => t.block \notin UnitBlocks
  BY KeyMenu DEF Advances
<1> QED BY <1>1, <1>2, <1>3, <1>4 DEF Same, Subject, HostOwned, HostEnabled

LEMMA HostWriting ==
  ASSUME Active, NEW t, Advances(t), First.call \in HostVerbs \ {"prepare-key"}, MakesKeys(Setting),
         t.call \in Writing \cup {"install-key"}
  PROVE  HostReady(t)'
<1>1. t.call \in HostVerbs /\ t.block \notin UnitBlocks
  BY BusyNext DEF HostVerbs, KeyCalls
<1>2. op'.cmd.do \notin {"remove", "uninstall"}
  BY BusyFirst, BusyNext
<1>3. HostFinds(t)'
  BY <1>1, <1>2 DEF HostFinds, Writing, Closing
<1> QED BY <1>3, HostBusyReady DEF Writing

LEMMA HostRevoke ==
  ASSUME Active, NEW t, Passes(t), First.call = "revoke-keys", RevokeKeys
  PROVE  HostReady(t)'
<1>1. t.call = "disable-record" /\ t.name = First.name /\ Advances(t)
  BY DEF Passes, Joins, Leads, NextOnHost
<1>2. /\ First.call \in HostVerbs \ {"prepare-key"} /\ t.call \in HostVerbs
  BY <1>1 DEF HostVerbs, Closing
<1>3. /\ host'.record = host.record /\ host'.config = host.config /\ host'.unit = host.unit
      /\ host'.disabled = host.disabled
  BY WorldFacts DEF RevokeKeys, HostType
<1>4. HostFinds(t)'
  BY <1>1, <1>2, <1>3, BusyNext, BusyFirst DEF HostFinds, HostOwned, HostEnabled, Closing
<1> QED BY <1>1, <1>2, <1>4, HostBusyReady

LEMMA HostDisable ==
  ASSUME Active, NEW t, Passes(t), First.call = "disable-record", DisableRecord
  PROVE  HostReady(t)'
<1>1. t.call = "terminate" /\ t.name = First.name /\ Advances(t)
  BY DEF Passes, Joins, Leads, NextOnHost
<1>2. /\ First.call \in HostVerbs \ {"prepare-key"} /\ t.call \in HostVerbs
  BY <1>1 DEF HostVerbs, Closing
<1>3. /\ host'.record = host.record /\ host'.config = host.config /\ host'.unit = host.unit
      /\ host'.disabled
  BY WorldFacts DEF DisableRecord, HostType
<1>4. HostFinds(t)'
  BY <1>1, <1>2, <1>3, BusyNext, BusyFirst DEF HostFinds, HostOwned, HostEnabled, Closing
<1> QED BY <1>1, <1>2, <1>4, HostBusyReady

LEMMA HostTerminate ==
  ASSUME Active, NEW t, Passes(t), First.call = "terminate", host' = host
  PROVE  HostReady(t)'
<1>1. t.call = "stop-daemon" /\ t.name = First.name /\ Advances(t)
  BY DEF Passes, Joins, Leads, NextOnHost
<1>2. /\ First.call \in HostVerbs \ {"prepare-key"} /\ t.call \in HostVerbs
  BY <1>1 DEF HostVerbs, Closing
<1>4. HostFinds(t)'
  BY <1>1, <1>2, BusyNext, BusyFirst DEF HostFinds, HostOwned, HostEnabled, Closing
<1> QED BY <1>1, <1>2, <1>4, HostBusyReady

LEMMA HostStop ==
  ASSUME Active, NEW t, Passes(t), First.call = "stop-daemon", StopDaemon
  PROVE  HostReady(t)'
<1>1. Advances(t) /\ Joins(Setting, First, t)
  BY DEF Passes
<1>2. First.call \in HostVerbs \ {"prepare-key"}
  BY DEF HostVerbs, Closing
<1>3. /\ host'.record = host.record /\ host'.config = host.config /\ host'.unit = host.unit
      /\ host'.disabled = host.disabled
  BY WorldFacts DEF StopDaemon, HostType
<1>4. HostFinds(First) /\ host.disabled
  BY <1>1, <1>2, BusyNext DEF HostFinds
<1>5. op.cmd.do # "remove" =>
        /\ t.name = First.name
        /\ \/ op.cmd.do = "uninstall" /\ t.call = "check-owned"
           \/ MakesKeys(Setting) /\ t.call \in {"enable-host", "install-key", "write-config"}
  BY <1>1, SettingFacts DEF Joins, Leads, NextOnHost
<1>6. CASE op.cmd.do = "uninstall"
  <2>1. t.call = "check-owned" /\ t.name = First.name
    BY <1>2, <1>5, <1>6, BusyFirst
  <2> QED BY <1>1, <1>2, <1>3, <1>4, <1>6, <2>1, BusyNext, BusyFirst, HostBusyReady DEF HostFinds, HostOwned, HostEnabled, Closing
<1>7. CASE MakesKeys(Setting)
  <2>1. t.call \in {"enable-host", "install-key", "write-config"} /\ t.name = First.name
    BY <1>2, <1>5, <1>7, BusyFirst
  <2>2. CASE t.call # "enable-host"
    BY <1>1, <1>2, <1>7, <2>1, <2>2, HostWriting DEF Writing
  <2>3. CASE t.call = "enable-host"
    <3>1. t.block \notin UnitBlocks
      BY <1>1, <1>2, <2>3, BusyNext DEF HostVerbs
    <3>2. HostFinds(t)'
      BY <1>1, <1>2, <1>3, <1>4, <1>7, <2>1, <2>3, <3>1, BusyNext, BusyFirst DEF HostFinds, HostOwned, HostEnabled, Closing
    <3> QED BY <1>1, <1>2, <2>3, <3>2, HostBusyReady
  <2> QED BY <2>2, <2>3
<1>8. CASE RemovesSsh(Setting)
  <2>1. t.call \notin HostVerbs
    <3>1. t.call \notin {"enable-host", "check-owned", "install-key", "write-config"}
      BY <1>1, <1>2, <1>8, BusyFirst, MenuFacts, SettingFacts DEF Advances, KeyCalls, Cleaning
    <3> QED BY <3>1, HostPredecessors DEF HostVerbs, KeyCalls, Writing, Closing, Cleaning
  <2> QED BY <1>1, <1>2, <1>3, <1>4, <1>8, <2>1, BusyNext, BusyFirst, HostBusyReady
          DEF HostFinds, HostVerbs, Closing, Cleaning, KeyCalls
<1> QED BY <1>2, <1>6, <1>7, <1>8, BusyFirst DEF HostBusy

\* The next call authorizes the key of a daemon that is all there.
LEMMA HostInstall ==
  ASSUME Active, NEW t, Passes(t), First.call = "install-key", InstallKey(op.key)
  PROVE  HostReady(t)'
<1>1. t.call = "authorize" /\ t.name = First.name /\ Advances(t)
  BY DEF Passes, Joins, Leads, NextOnHost
<1>2. /\ First.call \in HostVerbs \ {"prepare-key"} /\ t.call \in HostVerbs /\ MakesKeys(Setting)
  BY <1>1, BusyFirst DEF HostVerbs, KeyCalls
<1>3. /\ host'.record = host.record /\ host'.config = host.config /\ host'.unit = host.unit
      /\ host'.client # NoKey
  <2>1. host \in HostType /\ op.key \in Nat
    BY WorldFacts DEF Active, IInv, CommandOK, OpType
  <2> QED BY <2>1 DEF InstallKey, HostType, NoKey
<1>4. host.record = Subject(First).account /\ host.config = Subject(First).account /\ host.unit
  <2>1. 1 \in DOMAIN op.todo /\ op.todo[1] = First /\ DOMAIN op.todo = 1..Len(op.todo) /\ Len(op.todo) \in Nat
    BY TodoFacts DEF Active
  <2>2. \A v : ~WrittenBefore(1, v)
    BY <2>1 DEF WrittenBefore
  <2>3. KeysReady
    BY DEF Active, UnderWay
  <2> QED BY <2>1, <2>2, <2>3 DEF KeysReady
<1>5. host.record # Nobody
  BY FirstReady DEF ReadyKeys
<1>6. HostFinds(t)'
  BY <1>1, <1>2, <1>3, <1>4, <1>5, BusyNext, BusyFirst DEF HostFinds, Closing
<1> QED BY <1>1, <1>2, <1>6, HostBusyReady

LEMMA HostAuthorize ==
  ASSUME Active, NEW t, Passes(t), First.call = "authorize", Authorize
  PROVE  HostReady(t)'
<1>1. t.call = "start-daemon" /\ t.name = First.name /\ Advances(t)
  BY DEF Passes, Joins, Leads, NextOnHost
<1>2. /\ First.call \in HostVerbs \ {"prepare-key"} /\ t.call \in HostVerbs /\ MakesKeys(Setting)
  BY <1>1, BusyFirst DEF HostVerbs, KeyCalls
<1>3. /\ host'.record = host.record /\ host'.config = host.config /\ host'.unit = host.unit
      /\ host'.client = host.client /\ host'.authorized = host.client
  BY WorldFacts DEF Authorize, HostType
<1>4. HostFinds(t)'
  BY <1>1, <1>2, <1>3, BusyNext, BusyFirst DEF HostFinds, HostOwned, Closing
<1> QED BY <1>1, <1>2, <1>4, HostBusyReady

LEMMA HostStart ==
  ASSUME Active, NEW t, Passes(t), First.call = "start-daemon", StartDaemon
  PROVE  HostReady(t)'
<1>1. t.call = "enable-record" /\ t.name = First.name /\ Advances(t)
  BY DEF Passes, Joins, Leads, NextOnHost
<1>2. /\ First.call \in HostVerbs \ {"prepare-key"} /\ t.call \in HostVerbs /\ MakesKeys(Setting)
  BY <1>1, BusyFirst DEF HostVerbs, KeyCalls
<1>3. /\ host'.record = host.record /\ host'.config = host.config /\ host'.unit = host.unit
      /\ host'.client = host.client /\ host'.authorized = host.authorized /\ host'.daemon
  BY WorldFacts DEF StartDaemon, HostType
<1>4. HostFinds(t)'
  BY <1>1, <1>2, <1>3, BusyNext, BusyFirst DEF HostFinds, HostOwned, Closing
<1> QED BY <1>1, <1>2, <1>4, HostBusyReady

LEMMA HostEnable ==
  ASSUME Active, NEW t, Passes(t), First.call = "enable-record", EnableRecord
  PROVE  HostReady(t)'
<1>1. t.call = "verify" /\ t.name = First.name /\ Advances(t)
  BY DEF Passes, Joins, Leads, NextOnHost
<1>2. /\ First.call \in HostVerbs \ {"prepare-key"} /\ t.call \in HostVerbs /\ MakesKeys(Setting)
  BY <1>1, BusyFirst DEF HostVerbs, KeyCalls
<1>3. /\ host'.record = host.record /\ host'.config = host.config /\ host'.unit = host.unit
      /\ host'.client = host.client /\ host'.authorized = host.authorized /\ host'.daemon = host.daemon
      /\ ~host'.disabled
  BY WorldFacts DEF EnableRecord, HostType
<1>4. HostFinds(t)'
  BY <1>1, <1>2, <1>3, BusyNext, BusyFirst DEF HostFinds, HostOwned, Closing
<1> QED BY <1>1, <1>2, <1>4, HostBusyReady

\* Calls that end the work on the daemon: a key in use, or one that has just been verified.
LEMMA HostServed ==
  ASSUME Active, NEW t, Passes(t), First.call \in {"verify", "enable-host"}, host' = host,
         HostHealthy(Subject(First).account)
  PROVE  HostReady(t)'
<1>1. Advances(t)
  BY DEF Passes
<1>2. /\ First.call \in HostVerbs \ {"prepare-key"} /\ MakesKeys(Setting)
  BY <1>1, BusyFirst DEF HostVerbs, KeyCalls
<1>3. t.call \notin HostVerbs
  BY <1>2, HostPredecessors DEF HostVerbs, KeyCalls, Writing, Closing, Cleaning
<1>4. op.cmd.do \notin {"activate", "replace", "remove", "uninstall"}
  BY <1>1, <1>2, <1>3, BusyFirst, KeyMenu, SettingFacts DEF Advances
<1>5. PublishesSsh => HostHealthy(op.cmd.wish.account)'
  <2>1. SUFFICES ASSUME PublishesSsh PROVE HostHealthy(op.cmd.wish.account)'
    OBVIOUS
  <2>2. Subject(First) = op.cmd.wish
    BY <2>1, PublishFacts DEF PublishesSsh
  <2>3. op'.cmd = op.cmd
    BY <1>1, <1>2, BusyNext
  <2> QED BY <2>2, <2>3 DEF HostHealthy, HostOwned, HostEnabled
<1>6. HostFinds(t)'
  BY <1>1, <1>2, <1>3, <1>4, <1>5, BusyNext DEF HostFinds, HostVerbs, Closing, KeyCalls, Cleaning
<1> QED BY <1>1, <1>2, <1>3, <1>6, HostBusyReady DEF HostVerbs

\* The daemon goes, after its access has been closed.
LEMMA HostCleans ==
  ASSUME Active, NEW t, Passes(t), First.call \in Cleaning, host'.record \in {host.record, Nobody},
         host'.disabled = host.disabled \/ host'.disabled
  PROVE  HostReady(t)'
<1>1. Advances(t) /\ Joins(Setting, First, t)
  BY DEF Passes
<1>2. /\ First.call \in HostVerbs \ {"prepare-key"} /\ op.cmd.do = "uninstall"
  BY BusyFirst DEF HostVerbs, Cleaning
<1>3. t.call \in {"remove-unit", "reload", "remove-record", "remove-files", "delete-project"}
  BY <1>1 DEF Joins, Leads, NextOnHost, Cleaning
<1>4. ~HostEnabled
  BY <1>1, <1>2, BusyNext DEF HostFinds, Cleaning
<1>5. ~HostEnabled'
  BY <1>4, WorldFacts DEF HostEnabled, HostType
<1>6. t.call # "save" /\ t.block \notin UnitBlocks
  <2>1. t.block \in UnitBlocks => UnitCall(Setting, t)
    BY <1>1, MenuFacts DEF Advances
  <2> QED BY <1>2, <1>3, <2>1, SettingFacts DEF UnitCall, Everything
<1>7. HostFinds(t)'
  BY <1>1, <1>2, <1>3, <1>5, <1>6, BusyNext DEF HostFinds, Closing
<1> QED BY <1>1, <1>2, <1>3, <1>7, HostBusyReady

-----------------------------------------------------------------------------
(* What is there when a key is installed *)

\* A command that makes keys is about one exposure.
LEMMA OneSubject ==
  ASSUME Active, MakesKeys(Setting), NEW x \in Menu(Setting)
  PROVE  Subject(x) = Subject(First)
<1>1. First \in Menu(Setting)
  BY FirstInMenu
<1>2. CASE op.cmd.do = "publish"
  <2>1. x.name = op.cmd.name /\ First.name = op.cmd.name
    BY <1>1, <1>2, MenuFacts, SettingFacts
  <2> QED BY <2>1 DEF Subject
<1>3. CASE op.cmd.do \in {"activate", "replace"}
  <2>1. x.name \in SshOf(inventory) /\ First.name \in SshOf(inventory)
    BY <1>1, <1>3, SettingFacts DEF Menu
  <2>2. SlotFree(inventory, x.name, inventory[x.name])
    BY <2>1 DEF Active, Sound, Unique, SshOf
  <2>3. inventory[x.name].port = SshPort /\ inventory[First.name].port = SshPort
    BY <2>1 DEF Active, IInv, CommandOK, Good, SshOf, Of
  <2>4. x.name = First.name
    BY <2>1, <2>2, <2>3 DEF SlotFree, SshOf, IsStream
  <2> QED BY <2>4 DEF Subject
<1>4. op.cmd.do \in {"publish", "activate", "replace"}
  BY SettingFacts DEF MakesKeys, PublishesSshIn
<1> QED BY <1>2, <1>3, <1>4

LEMMA NoInstall ==
  ASSUME NEW C, op'.todo \in Seq(C), \A x \in ToSet(op'.todo) : x.call # "install-key"
  PROVE  KeysReady'
<1>1. \A i \in DOMAIN op'.todo : op'.todo[i] \in ToSet(op'.todo)
  BY DEF ToSet
<1> QED BY <1>1 DEF KeysReady

LEMMA KeysKept ==
  ASSUME Active, Same, op'.todo = Tail(op.todo),
         \A x \in Menu(Setting) : x.call = "install-key" /\ MakesKeys(Setting) =>
           /\ host.record = Subject(x).account \/ First.call = "write-record" => host'.record = Subject(x).account
           /\ host.config = Subject(x).account \/ First.call = "write-config" => host'.config = Subject(x).account
           /\ host.unit \/ First.call = "write-unit" => host'.unit
  PROVE  KeysReady'
<1>1. /\ op.todo \in Seq(CallRecord) /\ Len(op.todo) \in Nat \ {0} /\ DOMAIN op.todo = 1..Len(op.todo)
      /\ First = op.todo[1] /\ Tail(op.todo) \in Seq(CallRecord) /\ Len(Tail(op.todo)) = Len(op.todo) - 1
      /\ \A i \in 1..Len(Tail(op.todo)) : Tail(op.todo)[i] = op.todo[i + 1]
  BY TodoFacts DEF Active
<1> DEFINE r == Tail(op.todo)
<1>2. DOMAIN r = 1..(Len(op.todo) - 1) /\ \A i \in DOMAIN r : r[i] = op.todo[i + 1]
  <2>1. r \in Seq(CallRecord) /\ Len(r) = Len(op.todo) - 1 /\ \A i \in 1..Len(r) : r[i] = op.todo[i + 1]
    BY <1>1
  <2> HIDE DEF r
  <2> QED BY <2>1
<1>3. ASSUME NEW i \in DOMAIN r, NEW verb, WrittenBefore(i + 1, verb)
      PROVE  First.call = verb \/ \E j \in DOMAIN r : j < i /\ r[j].call = verb
  <2>1. PICK j \in DOMAIN op.todo : j < i + 1 /\ op.todo[j].call = verb
    BY <1>3 DEF WrittenBefore
  <2>2. CASE j = 1
    BY <1>1, <2>1, <2>2
  <2>3. CASE j # 1
    <3>1. j - 1 \in DOMAIN r /\ j - 1 < i /\ r[j - 1] = op.todo[j]
      BY <1>1, <1>2, <1>3, <2>1, <2>3
    <3> QED BY <2>1, <3>1
  <2> QED BY <2>2, <2>3
<1>4. ASSUME NEW i \in DOMAIN r, r[i].call = "install-key"
      PROVE  LET a == Subject(r[i]).account
             IN /\ host'.record = a \/ \E j \in DOMAIN r : j < i /\ r[j].call = "write-record"
                /\ host'.config = a \/ \E j \in DOMAIN r : j < i /\ r[j].call = "write-config"
                /\ host'.unit \/ \E j \in DOMAIN r : j < i /\ r[j].call = "write-unit"
  <2>1. i + 1 \in DOMAIN op.todo /\ op.todo[i + 1] = r[i]
    BY <1>1, <1>2, <1>4
  <2>2. r[i] \in Menu(Setting)
    <3>1. op.todo[i + 1] \in ToSet(op.todo)
      BY <2>1 DEF ToSet
    <3> QED BY <2>1, <3>1 DEF Active, UnderWay, Listed
  <2>3. MakesKeys(Setting)
    BY <1>4, <2>2, MenuFacts DEF KeyCalls
  <2>4. LET a == Subject(r[i]).account
        IN /\ host.record = a \/ WrittenBefore(i + 1, "write-record")
           /\ host.config = a \/ WrittenBefore(i + 1, "write-config")
           /\ host.unit \/ WrittenBefore(i + 1, "write-unit")
    BY <1>4, <2>1 DEF Active, UnderWay, KeysReady
  <2> HIDE DEF r
  <2> QED BY <1>3, <1>4, <2>2, <2>3, <2>4
<1>5. op'.plan = op.plan /\ inventory' = inventory
  BY DEF Same
<1>6. op'.todo = r
  OBVIOUS
<1> HIDE DEF r
<1>7. \A i \in DOMAIN op'.todo : op'.todo[i].call = "install-key" =>
        LET a == Subject(op.todo[i])'.account
        IN /\ host'.record = a \/ WrittenBefore(i, "write-record")'
           /\ host'.config = a \/ WrittenBefore(i, "write-config")'
           /\ host'.unit \/ WrittenBefore(i, "write-unit")'
  <2>1. SUFFICES ASSUME NEW i \in DOMAIN r, r[i].call = "install-key"
                 PROVE  LET a == Subject(op.todo[i])'.account
                        IN /\ host'.record = a \/ WrittenBefore(i, "write-record")'
                           /\ host'.config = a \/ WrittenBefore(i, "write-config")'
                           /\ host'.unit \/ WrittenBefore(i, "write-unit")'
    BY <1>6
  <2>2. Subject(op.todo[i])' = Subject(r[i])
    BY <1>5, <1>6 DEF Subject
  <2>3. \A verb : (\E j \in DOMAIN r : j < i /\ r[j].call = verb) => WrittenBefore(i, verb)'
    BY <1>6 DEF WrittenBefore
  <2> QED BY <1>4, <2>1, <2>2, <2>3
<1> QED BY <1>7 DEF KeysReady

\* No key is installed any more.
LEMMA NoInstallAhead ==
  ASSUME Active
  PROVE  /\ First.call \in Openers => \A x \in ToSet(Tail(op.todo)) : x.call # "install-key"
         /\ First.call \in {"relocate", "unforward", "restore"} => \A x \in ToSet(Tail(op.todo)) : x.call # "install-key"
<1>1. /\ op.todo \in Seq(CallRecord) /\ Len(op.todo) \in Nat \ {0} /\ DOMAIN op.todo = 1..Len(op.todo)
      /\ First = op.todo[1] /\ Tail(op.todo) \in Seq(CallRecord) /\ Len(Tail(op.todo)) = Len(op.todo) - 1
      /\ \A i \in 1..Len(Tail(op.todo)) : Tail(op.todo)[i] = op.todo[i + 1]
  BY TodoFacts DEF Active
<1>2. ASSUME First.call \in Openers, NEW x \in ToSet(Tail(op.todo)) PROVE x.call # "install-key"
  <2>1. \A i \in DOMAIN Tail(op.todo) : Later(First, Tail(op.todo)[i])
    BY FirstInMenu DEF FirstOK, RestOK
  <2>2. PICK i \in DOMAIN Tail(op.todo) : x = Tail(op.todo)[i]
    BY <1>2 DEF ToSet
  <2> QED BY <1>2, <2>1, <2>2 DEF Later, Starters
<1>3. ASSUME First.call \in {"relocate", "unforward", "restore"}, NEW x \in ToSet(Tail(op.todo)), x.call = "install-key" PROVE FALSE
  <2>1. x \in Menu(Setting) /\ First \in Menu(Setting) /\ x \in ToSet(op.todo)
    BY <1>3, FirstInMenu DEF Active, UnderWay, Listed
  <2>2. MakesKeys(Setting)
    BY <1>3, <2>1, MenuFacts DEF KeyCalls
  <2>3. op.cmd.do \notin {"activate", "replace"}
    BY <1>3, <2>1, KeyMenu, SettingFacts DEF HostVerbs, KeyCalls, Writing, Closing, Cleaning
  <2>4. PublishesSsh /\ op.cmd.do = "publish"
    BY <2>2, <2>3, SettingFacts DEF MakesKeys, PublishesSsh
  <2>5. First.call \in BeforeNet
    <3>1. PICK j \in 1..Len(op.todo) : x = op.todo[j]
      BY <1>1, <2>1, ListMembers
    <3>2. 1 \in DOMAIN op.todo /\ j \in DOMAIN op.todo /\ 1 <= j
      BY <1>1
    <3>3. x.call \in BeforeNet
      BY <1>3 DEF BeforeNet, KeyCalls
    <3>4. PhasedPublication(Setting, op.todo) /\ Setting.cmd.do = "publish"
      BY <2>4, SettingFacts DEF Active, UnderWay, Listed, Phased
    <3>5. 1 < j => op.todo[1].call \in BeforeNet
      BY <3>1, <3>2, <3>3, <3>4 DEF PhasedPublication
    <3>6. j = 1 \/ 1 < j
      BY <1>1, <3>1
    <3> QED BY <1>1, <3>1, <3>3, <3>5, <3>6
  <2> QED BY <1>3, <2>5 DEF BeforeNet, Checking, KeyCalls, Closing, Writing
<1> QED BY <1>2, <1>3

-----------------------------------------------------------------------------
(* A call that succeeds, and the next one *)

\* What a calm world always is.
GoesWell == Sound /\ IF op.todo = <<>> THEN AtRest ELSE UnderWay

LEMMA OnTheWay ==
  ASSUME NEW t, Advances(t), Sound', PlanReady', NetReady', UnitReady(t)', HostReady(t)', KeysReady'
  PROVE  GoesWell'
<1>1. /\ op'.todo # <<>> /\ Listed(Setting, op'.todo) /\ Setting' = Setting /\ First' = t
  BY SameFacts DEF Advances, First
<1>2. Listed(Setting, op.todo)'
  BY <1>1
<1>3. UnitReady(First)'
  BY <1>1 DEF UnitReady, Unsteady, Forwards, IsSsh, Subject, PortOf, HostOf
<1>4. HostReady(First)'
  BY <1>1 DEF HostReady, Subject
<1> QED BY <1>1, <1>2, <1>3, <1>4 DEF GoesWell, UnderWay

LEMMA SoundKept ==
  ASSUME Sound, inventory' = inventory, ~op'.late, proxy'.stock = proxy.stock,
         proxy'.record = proxy'.unit, \A p \in Port : (p \in proxy'.live) = (proxy'.record[p] # Free),
         gateway'.ports \subseteq proxy'.live, proxy'.admin = "private" => proxy'.stock = "ssh"
  PROVE  Sound'
<1>1. Unique(inventory)' /\ Compatible(inventory)'
  BY DEF Sound, Unique, Of, SlotFree, Compatible, StreamPorts, Streams, IsStream
<1> QED BY <1>1 DEF Sound

LEMMA SoundSame ==
  ASSUME Sound, inventory' = inventory, ~op'.late, UNCHANGED <<proxy, gateway>>
  PROVE  Sound'
BY SoundKept DEF Sound

\* Calls that leave all there is.
StillVerbs == Checking \cup {"check-web", "check-host", "check-owned", "inspect", "reload", "verify", "terminate",
                             "enable-host", "restore"}

LEMMA StillPass ==
  ASSUME Active, NEW t, Passes(t), UNCHANGED <<adapters>>, First.call \in StillVerbs, Steady,
         First.call = "check-slot" => SlotFree(op.plan, First.name, Subject(First)),
         First.call = "check-forwarding" => Compatible(op.plan),
         First.call = "check-dns" => (HostOf(First) \in dns => Recorded(First)),
         HostReady(t)'
  PROVE  GoesWell'
<1>1. /\ Advances(t) /\ Same /\ op'.todo = Tail(op.todo) /\ op'.late = op.late /\ inventory' = inventory
      /\ ToSet(op'.todo) \subseteq ToSet(op.todo)
  BY PassesOnly DEF Advances, Same
<1>2. UNCHANGED <<proxy, gateway, dns, routes, host>>
  BY DEF adapters
<1>3. Sound' /\ Steady'
  BY <1>1, <1>2, SoundSame DEF Active, Sound, Steady
<1>4. PlanReady'
  BY <1>1, <1>2, PlanKept
<1>5. First.call \notin {"save-activity", "stop-admin", "relocate", "start-private", "close-gateway", "install",
                         "open-gateway", "remove-forwarding", "publish-record", "unforward", "publish-route",
                         "write-record", "write-config", "write-unit"}
  BY DEF StillVerbs, Checking
<1>6. NetReady'
  BY <1>1, <1>2, <1>5, NetSame DEF PortsSame
<1>7. UnitReady(t)'
  BY <1>3, <1>5, UnitCalm
<1>8. KeysReady'
  BY <1>1, <1>2, <1>5, KeysKept
<1> QED BY <1>1, <1>3, <1>4, <1>6, <1>7, <1>8, OnTheWay

\* Calls to the host's daemon.
LEMMA HostPass ==
  ASSUME Active, NEW t, Passes(t), UNCHANGED <<proxy, gateway, dns, routes>>, First.call \in HostVerbs,
         HostReady(t)',
         \A x \in Menu(Setting) : x.call = "install-key" /\ MakesKeys(Setting) =>
           /\ host.record = Subject(x).account \/ First.call = "write-record" => host'.record = Subject(x).account
           /\ host.config = Subject(x).account \/ First.call = "write-config" => host'.config = Subject(x).account
           /\ host.unit \/ First.call = "write-unit" => host'.unit
  PROVE  GoesWell'
<1>1. /\ Advances(t) /\ Same /\ op'.todo = Tail(op.todo) /\ op'.late = op.late /\ inventory' = inventory
      /\ ToSet(op'.todo) \subseteq ToSet(op.todo)
  BY PassesOnly DEF Advances, Same
<1>2. First.call \notin {"save-activity", "stop-admin", "relocate", "start-private", "close-gateway", "install",
                         "open-gateway", "remove-forwarding", "publish-record", "unforward", "publish-route",
                         "check-slot", "check-forwarding", "check-dns", "restore", "start-stock", "forget-activity"}
  BY DEF HostVerbs, KeyCalls, Writing, Closing, Cleaning
<1>3. Steady
  BY <1>2, SteadyNow DEF Restoring, Forwards
<1>4. Sound' /\ Steady'
  BY <1>1, <1>3, SoundSame DEF Active, Sound, Steady
<1>5. PlanReady'
  BY <1>1, <1>2, PlanKept
<1>6. NetReady'
  BY <1>1, <1>2, NetSame DEF PortsSame
<1>7. UnitReady(t)'
  BY <1>2, <1>4, UnitCalm
<1>8. KeysReady'
  BY <1>1, KeysKept
<1> QED BY <1>1, <1>4, <1>5, <1>6, <1>7, <1>8, OnTheWay

\* Calls to everything else.
LEMMA NetPass ==
  ASSUME Active, NEW t, Passes(t), host' = host, First.call \notin HostVerbs \cup BeforeNet, Sound', NetReady',
         UnitReady(t)', proxy'.stock = proxy.stock
  PROVE  GoesWell'
<1>1. /\ Advances(t) /\ Same /\ op'.todo = Tail(op.todo)
  BY DEF Passes, Advances
<1>2. First.call \notin {"check-slot", "check-forwarding", "check-dns", "write-record", "write-config", "write-unit"}
  BY DEF BeforeNet, Checking, Writing
<1>3. PlanReady'
  BY <1>1, <1>2, PlanKept
<1>4. HostReady(t)'
  BY <1>1, HostSame
<1>5. KeysReady'
  BY <1>1, <1>2, KeysKept
<1> QED BY <1>1, <1>3, <1>4, <1>5, OnTheWay

-----------------------------------------------------------------------------
(* Commands that are refused, and checks *)

\* A command that gives up before it has changed anything.
LEMMA AbortAtRest ==
  ASSUME Active, Abort, First.block \in {"plain", "publish"}, ~NewSsh(First),
         UNCHANGED <<adapters, inventory, domain>>, AtRest
  PROVE  GoesWell'
<1>1. Undo(First) = <<>>
  BY DEF Undo
<1>2. Failure(First) = <<>>
  <2>1. Failure(First) = <<>> \o <<>>
    BY <1>1 DEF Failure, SoftBlocks
  <2>2. <<>> \o <<>> = <<>>
    OBVIOUS
  <2> QED BY <2>1, <2>2
<1>3. op \in OpType
  BY DEF Active, IInv, CommandOK
<1>4. op'.todo = <<>> /\ ~op'.late
  BY <1>2, <1>3 DEF Abort, OpType
<1>5. Sound'
  BY <1>4, SoundSame DEF Active, adapters
<1>6. AtRest'
  BY DEF AtRest, NetRest, OwnedIn, ServedAt, Forwarded, GatewayOK, IsStream, Of, Streams, HostRest, SshOf, HostHealthy,
     HostOwned, HostEnabled, Steady, adapters
<1> QED BY <1>4, <1>5, <1>6 DEF GoesWell

\* Commands without publications find everything served.
LEMMA NetAtRest ==
  ASSUME Active, op.cmd.do \in {"prepare", "activate", "replace", "uninstall"}
  PROVE  NetRest(inventory, domain) /\ op.plan = inventory /\ Target = domain
<1>1. op.plan = inventory /\ Target = domain
  BY OtherPlans DEF Target, TargetOf, Setting
<1>2. \A x \in ToSet(op.todo) : ~UnitCall(Setting, x)
  BY DEF UnitCall, Setting, Everything
<1>3. \A x \in ToSet(op.todo) : x.call # "check-slot"
  <2> SUFFICES ASSUME NEW x \in ToSet(op.todo), x.call = "check-slot" PROVE FALSE
    OBVIOUS
  <2>1. x \in Menu(Setting)
    BY DEF Active, UnderWay, Listed
  <2>2. PublishesSshIn(Setting)
    BY <1>2, <2>1, MenuFacts
  <2> QED BY <2>2 DEF PublishesSshIn, Setting
<1>4. First \in ToSet(op.todo) /\ First \in Menu(Setting)
  BY FirstInMenu
<1>5. First.block \notin UnitBlocks
  BY <1>2, <1>4, MenuFacts
<1>6. \A m \in Of(op.plan) : ~Awaits(m) /\ ~InUnit(m)
  BY <1>3, <1>5 DEF Awaits, Begins, InUnit
<1>7. \A x \in ToSet(op.todo) : x.call \notin {"unforward", "remove-forwarding"}
  BY NothingRemoved
<1>8. NetReady
  BY DEF Active, UnderWay
<1> QED BY <1>1, <1>6, <1>7, <1>8 DEF NetReady, NetRest, Target, Removes

\* A publication that is refused by one of its first checks.
LEMMA Refused ==
  ASSUME Active, Abort, UNCHANGED <<adapters, inventory, domain>>,
         NEW verbs \in SUBSET (Checking \cup {"check-web", "enable-host"}), MayRefuse(verbs), HostRest
  PROVE  GoesWell'
<1>1. op.cmd.do = "publish" /\ First.call \in BeforeNet /\ First.call \in Checking \cup {"check-web", "enable-host"}
  BY DEF MayRefuse, BeforeNet
<1>2. NetRest(inventory, domain)
  BY <1>1 DEF Active, UnderWay, NetReady
<1>3. Steady
  BY <1>1, SteadyNow DEF Checking, Restoring, Forwards
<1>4. First.block \in {"plain", "publish"} /\ ~NewSsh(First)
  BY DEF MayRefuse, NewSsh, PublishesSsh
<1> QED BY <1>2, <1>3, <1>4, AbortAtRest DEF AtRest

\* A call that is not the last one of its command.
LEMMA NextCall ==
  ASSUME Active, Continue, UNCHANGED <<inventory, domain>>,
         First.call \notin {"delete-project", "prepare-key", "activate-key", "enable-host", "verify", "replace-key", "save"}
  PROVE  \E t \in CallRecord : Passes(t)
<1>1. First.call \notin Finals(Setting)
  BY DEF Finals
<1> QED BY <1>1, CalmContinue

\* A check that finds what it looks for.
LEMMA StillGoes ==
  ASSUME Active, Continue, UNCHANGED <<adapters, inventory, domain>>,
         First.call \in Checking \cup {"check-web", "check-host", "inspect"},
         First.call = "check-slot" => SlotFree(op.plan, First.name, Subject(First)),
         First.call = "check-forwarding" => Compatible(op.plan),
         First.call = "check-dns" => (HostOf(First) \in dns => Recorded(First))
  PROVE  GoesWell'
<1>1. PICK t \in CallRecord : Passes(t)
  BY NextCall DEF Checking
<1>2. First.call \notin HostVerbs /\ First.call \in StillVerbs
  BY DEF HostVerbs, KeyCalls, Writing, Closing, Cleaning, Checking, StillVerbs
<1>3. Steady
  BY SteadyNow DEF Checking, Restoring, Forwards
<1>4. HostReady(t)'
  BY <1>1, <1>2, HostSame DEF Passes, adapters
<1> QED BY <1>1, <1>2, <1>3, <1>4, StillPass

\* A forwarding belongs to an exposure of the plan, unless something is to be removed.
LEMMA PortInPlan ==
  ASSUME Active, First.block \in UnitBlocks \/ op.cmd.do \in {"publish", "redirect", "vpn", "prepare", "activate",
                                                             "replace", "uninstall"},
         NEW p \in Port, proxy.record[p] # Free \/ p \in proxy.live
  PROVE  OwnedIn(op.plan, Target, p) /\ p \in StreamPorts(op.plan)
<1>1. \A x \in ToSet(op.todo) : x.call \notin {"unforward", "remove-forwarding"}
  BY NothingRemoved
<1>2. NetReady /\ Sound
  BY DEF Active, UnderWay
<1>3. proxy.record[p] # Free
  BY <1>2 DEF Sound
<1>4. OwnedIn(op.plan, Target, p)
  BY <1>1, <1>2, <1>3 DEF NetReady, Removes, Target
<1> QED BY <1>4 DEF OwnedIn, StreamPorts

\* What the check of a stream is about.
LEMMA StreamChecked ==
  ASSUME Active, First.call \in {"check-forwarding", "check-dns"} \/ (First.call = "check-slot" /\ op.cmd.do # "publish")
  PROVE  /\ First.name \in Of(op.plan) /\ Subject(First) = op.plan[First.name] /\ First.to = Target
         /\ HostOf(First) = <<op.plan[First.name].label, Target>>
         /\ PortOf(First) = op.plan[First.name].port
         /\ First.call # "check-slot" => First.name \in Streams(op.plan)
         /\ op.cmd.do \in {"publish", "domain", "redirect", "vpn"}
         /\ First.block \in UnitBlocks \/ op.cmd.do = "publish"
<1>1. First \in Menu(Setting) /\ Setting.cmd = op.cmd /\ Setting.plan = op.plan /\ op.todo # <<>> /\ IInv
  BY FirstInMenu, SettingFacts DEF Active
<1>2. UnitCall(Setting, First) \/ (First.block = "plain" /\ PublishesSsh)
  BY <1>1, MenuFacts, SettingFacts
<1>3. /\ First.name \in Of(op.plan) /\ First.to = Target
      /\ op.cmd.do \in {"publish", "domain", "redirect", "vpn"} /\ (First.block \in UnitBlocks \/ op.cmd.do = "publish")
  <2>1. CASE UnitCall(Setting, First)
    BY <1>1, <2>1, UnitFacts DEF UnitCall, Everything, Target
  <2>2. CASE First.block = "plain" /\ PublishesSsh
    <3>1. op.cmd.do = "publish"
      BY <2>2 DEF PublishesSsh
    <3> QED BY <1>1, <3>1, PublishFacts DEF Of, Target, TargetOf, Setting
  <2> QED BY <1>2, <2>1, <2>2
<1>4. Subject(First) = op.plan[First.name]
  BY <1>3 DEF Subject, Of
<1>5. First.call # "check-slot" => IsStream(Subject(First))
  <2>1. First.call # "check-slot" => First.call \in StreamVerbs
    BY DEF StreamVerbs
  <2>2. First.call # "check-slot" => StreamIn(Setting, First)
    BY <1>1, <2>1 DEF Menu
  <2> QED BY <2>2, SettingFacts
<1> QED BY <1>3, <1>4, <1>5 DEF Streams, HostOf, PortOf

LEMMA CheckSlotGoes ==
  ASSUME Active, CheckSlot
  PROVE  GoesWell'
<1> DEFINE c == SlotFree(op.plan, First.name, Subject(First))
<1>1. /\ Require(SameSlot(First.name, Subject(First)) /\ c) /\ First.call = "check-slot"
      /\ UNCHANGED <<adapters, inventory, domain>>
  BY DEF CheckSlot, Stay, On, files
<1>2. PlanReady
  BY DEF Active, UnderWay
<1>3. SameSlot(First.name, Subject(First))
  <2>1. CASE op.cmd.do = "publish"
    BY <2>1, PublishFacts
  <2>2. CASE op.cmd.do # "publish"
    <3>1. Subject(First) = op.plan[First.name] /\ op.cmd.do \in {"publish", "domain", "redirect", "vpn"}
      BY <1>1, <2>2, StreamChecked
    <3>2. op.plan = inventory
      BY <2>2, <3>1, OtherPlans
    <3> QED BY <3>1, <3>2 DEF SameSlot
  <2> QED BY <2>1, <2>2
<1>4. c \/ MayRefuse({"check-slot"})
  <2>1. Unique(op.plan) \/ MayRefuse({"check-slot"})
    BY <1>2 DEF PlanReady
  <2>2. First.name \in Of(op.plan) /\ Subject(First) = op.plan[First.name]
    <3>1. CASE op.cmd.do = "publish"
      BY <3>1, PublishFacts DEF Of
    <3>2. CASE op.cmd.do # "publish"
      BY <1>1, <3>2, StreamChecked
    <3> QED BY <3>1, <3>2
  <2> QED BY <2>1, <2>2 DEF Unique
<1>5. CASE c
  <2>1. Continue
    BY <1>1, <1>3, <1>5 DEF Require
  <2> HIDE DEF c
  <2> QED BY <1>1, <1>5, <2>1, StillGoes DEF Checking, c
<1>6. CASE ~c
  <2>1. Abort /\ MayRefuse({"check-slot"})
    BY <1>1, <1>4, <1>6 DEF Require
  <2>2. HostRest
    BY <2>1 DEF Active, UnderWay, HostReady, MayRefuse, Checking
  <2> QED BY <1>1, <2>1, <2>2, Refused DEF Checking
<1> QED BY <1>5, <1>6

\* A forwarding is allowed, or the proxy's own sshd stands in its way.
LEMMA AllowedIfCompatible ==
  ASSUME Active, First.call = "check-forwarding", Compatible(op.plan)
  PROVE  ForwardingAllowed(PortOf(First), HostOf(First))
<1> DEFINE p == PortOf(First)
           h == HostOf(First)
<1> SUFFICES ForwardingAllowed(p, h)
  OBVIOUS
<1>1. /\ First.name \in Streams(op.plan) /\ p = op.plan[First.name].port
      /\ h = <<op.plan[First.name].label, Target>>
      /\ First.block \in UnitBlocks \/ op.cmd.do \in {"publish", "redirect", "vpn", "prepare", "activate",
                                                      "replace", "uninstall"}
  BY StreamChecked
<1>2. /\ proxy.record = proxy.unit /\ \A q \in Port : (q \in proxy.live) = (proxy.record[q] # Free)
      /\ gateway.ports \subseteq proxy.live /\ (proxy.admin = "private" => proxy.stock = "ssh")
  BY DEF Active, Sound
<1>3. p \in Port /\ h \in Hostname /\ AdminOK
  BY FirstReady DEF Nameless
<1>4. Steady
  BY SteadyNow DEF Restoring, Forwards
<1>5. \A q \in Port : q \in proxy.live \/ proxy.record[q] # Free
        => OwnedIn(op.plan, Target, q) /\ q \in StreamPorts(op.plan)
  BY <1>1, PortInPlan
<1>6. Unique(op.plan)
  BY DEF Active, UnderWay, PlanReady, MayRefuse
<1>7. proxy.record[p] \in {Free, h}
  <2>1. SUFFICES ASSUME proxy.record[p] # Free PROVE proxy.record[p] = h
    OBVIOUS
  <2>2. PICK n \in Streams(op.plan) : op.plan[n].port = p /\ Forwarded(op.plan[n], Target)
    BY <1>3, <1>5, <2>1 DEF OwnedIn
  <2>3. n = First.name
    BY <1>1, <1>6, <2>2 DEF Unique, SlotFree, Streams
  <2> QED BY <1>1, <2>2, <2>3 DEF Forwarded
<1>8. proxy \in ProxyType /\ proxy.live \subseteq Port /\ Free \notin Hostname
  BY WorldFacts, FreeIsNoHostname
<1> HIDE DEF p, h
<1>9. CASE proxy.record[p] = h
  BY <1>2, <1>3, <1>8, <1>9 DEF ForwardingAllowed
<1>10. CASE proxy.record[p] = Free /\ proxy.record[p] # h
  <2>1. proxy.unit[p] = Free /\ p \notin proxy.live /\ p \notin gateway.ports
    BY <1>2, <1>3, <1>10
  <2>2. ASSUME Listening(p) PROVE p = SshPort /\ Relocatable
    <3>1. \/ p = SshPort /\ proxy.admin = "ssh"
          \/ p = AdminPort /\ proxy.admin = "private"
      BY <2>1, <2>2 DEF Listening
    <3>2. p \in StreamPorts(op.plan)
      BY <1>1 DEF StreamPorts
    <3>3. proxy.saved = "none" => proxy.admin = proxy.stock
      BY <1>3 DEF AdminOK, AdminRestorable
    <3>4. proxy.stock \in {"ssh", "stopped"}
      BY <1>8 DEF ProxyType
    <3>5. p # AdminPort \/ proxy.admin # "private"
      <4> SUFFICES ASSUME p = AdminPort, proxy.admin = "private" PROVE FALSE
        OBVIOUS
      <4>1. SshPort \in proxy.live
        BY <1>4, <3>3, <3>4 DEF Steady
      <4>2. SshPort \in StreamPorts(op.plan)
        BY <1>5, <1>8, <4>1
      <4> QED BY <1>2, <3>2, <4>2 DEF Compatible
    <3>6. p = SshPort /\ proxy.admin = "ssh"
      BY <3>1, <3>5
    <3>7. Relocatable
      <4>1. SUFFICES ASSUME proxy.saved = "none" PROVE ~Listening(AdminPort)
        BY <2>1, <3>6 DEF Relocatable
      <4>2. proxy.stock = "ssh"
        BY <3>3, <3>6, <4>1
      <4>3. AdminPort \notin proxy.live
        BY <1>5, <1>8, <3>2, <3>6, <4>2 DEF Compatible
      <4> QED BY <3>6, <4>3, PortsDiffer DEF Listening
    <3> QED BY <3>6, <3>7
  <2> QED BY <1>10, <2>1, <2>2 DEF ForwardingAllowed
<1> QED BY <1>7, <1>9, <1>10

LEMMA CompatibleIfAllowed ==
  ASSUME Active, First.call = "check-forwarding", op.cmd.do = "publish",
         ForwardingAllowed(PortOf(First), HostOf(First))
  PROVE  Compatible(op.plan)
<1> SUFFICES ASSUME proxy.stock = "ssh", SshPort \in StreamPorts(op.plan), AdminPort \in StreamPorts(op.plan)
             PROVE  FALSE
  BY DEF Compatible
<1>1. /\ Compatible(inventory) /\ \A q \in Port : (q \in proxy.live) = (proxy.record[q] # Free)
      /\ proxy.record = proxy.unit
  BY DEF Active, Sound
<1>2. NetRest(inventory, domain)
  BY DEF Active, UnderWay, NetReady, BeforeNet, Checking
<1>3. /\ First.name \in Streams(op.plan) /\ PortOf(First) = op.plan[First.name].port /\ First.name = op.cmd.name
  BY StreamChecked, PublishFacts
<1>4. \A n \in Streams(op.plan) \ {First.name} : n \in Streams(inventory) /\ op.plan[n].port = inventory[n].port
  BY <1>3, PublishFacts DEF Streams, Of
<1>5. \A q \in StreamPorts(op.plan) : q = PortOf(First) \/ q \in StreamPorts(inventory)
  BY <1>3, <1>4 DEF StreamPorts
<1>6. \A q \in StreamPorts(inventory) : q \in proxy.live
  BY <1>2 DEF NetRest, ServedAt, Forwarded, StreamPorts, Streams
<1>7. PortOf(First) \in Port /\ AdminOK /\ proxy \in ProxyType /\ HostOf(First) \in Hostname
  BY FirstReady, WorldFacts DEF Nameless
<1>8. PortOf(First) \notin StreamPorts(inventory) => proxy.record[PortOf(First)] = Free
  BY <1>2, <1>7 DEF NetRest, OwnedIn, StreamPorts
<1>9. Steady
  BY SteadyNow DEF Restoring, Forwards
<1>10. proxy.saved = "none" => proxy.admin = "ssh"
  BY <1>7 DEF AdminOK, AdminRestorable
<1>11. ~(SshPort \in StreamPorts(inventory) /\ AdminPort \in StreamPorts(inventory))
  BY <1>1 DEF Compatible
<1>12. HostOf(First) # Free
  BY <1>7, FreeIsNoHostname
<1>13. CASE PortOf(First) = SshPort /\ SshPort \notin StreamPorts(inventory)
  <2>1. AdminPort \in proxy.live
    BY <1>5, <1>6, <1>13, PortsDiffer
  <2>2. proxy.record[SshPort] = Free /\ SshPort \notin proxy.live
    BY <1>1, <1>7, <1>8, <1>13
  <2>3. proxy.saved = "none" /\ Listening(SshPort)
    BY <1>9, <1>10, <2>2 DEF Steady, Listening
  <2>4. Relocatable
    BY <1>12, <1>13, <2>2, <2>3 DEF ForwardingAllowed
  <2> QED BY <2>1, <2>3, <2>4 DEF Relocatable, Listening
<1>14. CASE PortOf(First) = AdminPort /\ AdminPort \notin StreamPorts(inventory)
  <2>1. SshPort \in proxy.live
    BY <1>5, <1>6, <1>14, PortsDiffer
  <2>2. proxy.record[AdminPort] = Free
    BY <1>8, <1>14
  <2>3. proxy.admin = "private"
    BY <1>7, <1>9, <1>10, <2>1 DEF Steady, AdminOK
  <2>4. Listening(AdminPort)
    BY <2>3 DEF Listening
  <2> QED BY <1>12, <1>14, <2>2, <2>4, PortsDiffer DEF ForwardingAllowed
<1> QED BY <1>5, <1>11, <1>13, <1>14

LEMMA CheckForwardingGoes ==
  ASSUME Active, CheckForwarding
  PROVE  GoesWell'
<1> DEFINE c == ForwardingAllowed(PortOf(First), HostOf(First))
<1>1. Require(c) /\ First.call = "check-forwarding" /\ UNCHANGED <<adapters, inventory, domain>>
  BY DEF CheckForwarding, Stay, On, files
<1>2. Compatible(op.plan) \/ MayRefuse({"check-slot", "check-forwarding"})
  BY DEF Active, UnderWay, PlanReady
<1>3. Compatible(op.plan) => c
  BY <1>1, AllowedIfCompatible
<1>4. c => Compatible(op.plan)
  BY <1>1, <1>2, CompatibleIfAllowed DEF MayRefuse
<1> HIDE DEF c
<1>5. CASE c
  <2>1. Continue
    BY <1>1, <1>5 DEF Require
  <2> QED BY <1>1, <1>4, <1>5, <2>1, StillGoes DEF Checking
<1>6. CASE ~c
  <2>1. Abort /\ MayRefuse({"check-slot", "check-forwarding"})
    BY <1>1, <1>2, <1>3, <1>6 DEF Require
  <2>2. HostRest
    BY <2>1 DEF Active, UnderWay, HostReady, MayRefuse, Checking
  <2> QED BY <1>1, <2>1, <2>2, Refused DEF Checking
<1> QED BY <1>5, <1>6

LEMMA CheckDnsGoes ==
  ASSUME Active, CheckDns
  PROVE  GoesWell'
<1> DEFINE c == HostOf(First) \in dns => Recorded(First)
<1>1. Require(c) /\ First.call = "check-dns" /\ UNCHANGED <<adapters, inventory, domain>>
  BY DEF CheckDns, Stay, On, files
<1>2. CASE c
  <2>1. Continue
    BY <1>1, <1>2 DEF Require
  <2> QED BY <1>1, <1>2, <2>1, StillGoes DEF Checking
<1>3. CASE ~c
  <2>1. Abort /\ op.cmd.do = "publish" /\ ~Recorded(First) /\ HostOf(First) \in dns
    BY <1>1, <1>3 DEF Require, Recorded
  <2>2. Subject(First) = op.cmd.wish /\ HostOf(First) = <<op.cmd.wish.label, domain>>
    BY <2>1, PublishFacts DEF HostOf
  <2>3. ~(\E n \in Of(inventory) : inventory[n].label = op.cmd.wish.label)
    BY <2>1, <2>2 DEF Recorded
  <2>4. First \in Menu(Setting) /\ First \in CallType(N_, S_)
    BY FirstInMenu
  <2>5. UnitCall(Setting, First) \/ (First.block = "plain" /\ PublishesSsh)
    BY <1>1, <2>4, MenuFacts, SettingFacts
  <2>6. First.block \in {"plain", "publish"} /\ (First.block = "plain" => PublishesSsh)
    BY <1>1, <2>4, <2>5 DEF UnitCall, UnitBlocks, CallType, RelocationCalls, ForwardCalls
  <2>7. MayRefuse({"check-dns"})
    <3>1. ASSUME PublishesSsh, First.block = "publish" PROVE FALSE
      <4>1. ~MayRefuse(Checking)
        BY <3>1 DEF MayRefuse
      <4>2. First.call \in BeforeNet
        BY <1>1 DEF BeforeNet, Checking
      <4> QED BY <2>1, <2>2, <2>3, <3>1, <4>1, <4>2 DEF Active, UnderWay, PlanReady
    <3> QED BY <1>1, <2>1, <2>6, <3>1 DEF MayRefuse
  <2>8. HostRest
    BY <2>7 DEF Active, UnderWay, HostReady, MayRefuse, Checking
  <2> QED BY <1>1, <2>1, <2>7, <2>8, Refused DEF Checking
<1> QED BY <1>2, <1>3

LEMMA CheckWebGoes ==
  ASSUME Active, CheckWeb
  PROVE  GoesWell'
<1> DEFINE c == op.cmd.do = "publish" /\ inventory[First.name] = Absent /\ Recorded(First)
                  => HostOf(First) \notin routes
<1>1. Require(c) /\ First.call = "check-web" /\ UNCHANGED <<adapters, inventory, domain>>
  BY DEF CheckWeb, Stay, On, files
<1>2. CASE c
  <2>1. Continue
    BY <1>1, <1>2 DEF Require
  <2> QED BY <1>1, <2>1, StillGoes DEF Checking
<1>3. CASE ~c
  <2>1. Abort /\ op.cmd.do = "publish"
    BY <1>1, <1>3 DEF Require
  <2>2. First \in Menu(Setting) /\ First \in CallType(N_, S_)
    BY FirstInMenu
  <2>3. UnitCall(Setting, First) /\ ~StreamIn(Setting, First)
    BY <1>1, <2>2, MenuFacts DEF PublishVerbs, Menu, WebVerbs
  <2>4. First.block = "publish"
    BY <1>1, <2>2, <2>3 DEF UnitCall, UnitBlocks, CallType, RelocationCalls, ForwardCalls
  <2>5. ~PublishesSsh
    BY <2>1, <2>3, PublishFacts, SettingFacts DEF PublishesSsh, IsStream
  <2>6. MayRefuse({"check-web"})
    BY <1>1, <2>1, <2>4, <2>5 DEF MayRefuse
  <2>7. HostRest
    BY <2>1, <2>5 DEF Active, UnderWay, HostReady, HostIdle
  <2> QED BY <1>1, <2>1, <2>6, <2>7, Refused
<1> QED BY <1>2, <1>3

LEMMA CheckHostGoes ==
  ASSUME Active, CheckHost
  PROVE  GoesWell'
<1>1. Require(HostHealthy(Subject(First).account)) /\ First.call = "check-host" /\ UNCHANGED <<adapters, inventory, domain>>
  BY DEF CheckHost, Stay, On, files
<1>2. First.name \in SshOf(inventory) /\ op.cmd.do \in Everything
  BY <1>1, FirstInMenu, SettingFacts DEF Menu
<1>3. op.plan = inventory
  BY <1>2, OtherPlans DEF Everything
<1>4. Subject(First) = inventory[First.name]
  BY <1>3 DEF Subject
<1>5. HostRest
  BY <1>2 DEF Active, UnderWay, HostReady, HostIdle
<1>6. Continue
  BY <1>1, <1>2, <1>4, <1>5 DEF Require, HostRest
<1> QED BY <1>1, <1>6, StillGoes DEF Checking

\* A call of the removal of the daemon that leaves it as it is.
LEMMA StillCleans ==
  ASSUME Active, Continue, UNCHANGED <<adapters, inventory, domain>>, First.call \in {"check-owned", "reload"}
  PROVE  GoesWell'
<1>1. PICK t \in CallRecord : Passes(t)
  BY NextCall
<1>2. HostReady(t)'
  BY <1>1, HostCleans DEF Cleaning, adapters
<1>3. Steady
  BY SteadyNow DEF Restoring, Forwards
<1> QED BY <1>1, <1>2, <1>3, StillPass DEF StillVerbs

\* Nothing is left of a host's daemon that is not there.
LEMMA AbortUninstall ==
  ASSUME Active, Abort, UNCHANGED <<adapters, inventory, domain>>, op.cmd.do = "uninstall",
         First.call \in Closing \cup Cleaning, SshOf(inventory) = {}
  PROVE  GoesWell'
<1>1. ~HostEnabled
  BY DEF Active, UnderWay, HostReady
<1>2. HostRest
  BY <1>1 DEF HostRest
<1>3. NetRest(inventory, domain)
  BY NetAtRest
<1>4. Steady
  BY SteadyNow DEF Restoring, Forwards, Closing, Cleaning
<1>5. First.block = "plain"
  <2>1. First \in Menu(Setting) /\ Setting.cmd = op.cmd
    BY FirstInMenu, SettingFacts
  <2>2. ~UnitCall(Setting, First) /\ ~WithdrawCall(Setting, First) /\ ~MakesKeys(Setting)
    BY <2>1 DEF UnitCall, WithdrawCall, MakesKeys, PublishesSshIn, Everything
  <2> QED BY <2>1, <2>2 DEF Menu, BareCall
<1>6. ~NewSsh(First)
  BY DEF NewSsh
<1> QED BY <1>2, <1>3, <1>4, <1>5, <1>6, AbortAtRest DEF AtRest

LEMMA CheckOwnedGoes ==
  ASSUME Active, CheckOwned
  PROVE  GoesWell'
<1>1. Require(HostOwned) /\ First.call = "check-owned" /\ UNCHANGED <<adapters, inventory, domain>>
  BY DEF CheckOwned, Stay, On, files
<1>2. CASE HostOwned
  BY <1>1, <1>2, StillCleans DEF Require
<1>3. CASE ~HostOwned
  <2>1. op.cmd.do = "uninstall" /\ SshOf(inventory) = {}
    BY <1>1, <1>3 DEF Active, UnderWay, HostReady
  <2> QED BY <1>1, <1>3, <2>1, AbortUninstall DEF Require, Cleaning
<1> QED BY <1>2, <1>3

LEMMA InspectGoes ==
  ASSUME Active, Inspect
  PROVE  GoesWell'
<1>1. Continue /\ First.call \in {"inspect", "reload"} /\ UNCHANGED <<adapters, inventory, domain>>
  BY DEF Inspect, Stay, On, files, Require
<1> QED BY <1>1, StillGoes, StillCleans DEF Checking

LEMMA ChecksGoWell ==
  ASSUME Active, Checks
  PROVE  GoesWell'
BY CheckSlotGoes, CheckForwardingGoes, CheckDnsGoes, CheckWebGoes, CheckHostGoes, CheckOwnedGoes, InspectGoes
   DEF Checks

-----------------------------------------------------------------------------
(* Calls to the host's daemon *)

HostStays == UNCHANGED <<proxy, gateway, dns, routes, inventory, domain>>

\* There is one host SSH.
LEMMA SshIsOne ==
  ASSUME Active, NEW n \in SshOf(inventory), NEW m \in SshOf(inventory)
  PROVE  n = m
<1>1. Unique(inventory) /\ Good(inventory)
  BY DEF Active, Sound, IInv, CommandOK
<1>2. inventory[n].port = SshPort /\ inventory[m].port = SshPort /\ n \in Of(inventory) /\ m \in Of(inventory)
      /\ IsStream(inventory[n]) /\ IsStream(inventory[m])
  BY <1>1 DEF Good, SshOf, Of, IsStream
<1> QED BY <1>1, <1>2 DEF Unique, SlotFree

\* A command that ends as it has found the world, the host's daemon apart.
LEMMA DoneAtRest ==
  ASSUME Active, op'.todo = <<>>, ~op'.late, HostStays, NetRest(inventory, domain), HostRest', Steady
  PROVE  GoesWell'
<1>1. Sound'
  BY SoundSame DEF Active, HostStays
<1>2. NetRest(inventory, domain)' /\ Steady'
  BY DEF NetRest, OwnedIn, ServedAt, Forwarded, GatewayOK, IsStream, Of, Streams, Steady, HostStays
<1> QED BY <1>1, <1>2 DEF GoesWell, AtRest

\* A call of the daemon's with a next one that finds what it needs.
LEMMA HostGoes ==
  ASSUME Active, Continue, HostStays, First.call \in HostVerbs,
         First.call \notin {"prepare-key", "activate-key", "enable-host", "verify", "replace-key"},
         \A t \in CallRecord : Passes(t) => HostReady(t)',
         \/ op.cmd.do = "uninstall"
         \/ /\ host'.record = host.record \/ (First.call = "write-record" /\ host'.record = Subject(First).account)
            /\ host'.config = host.config \/ (First.call = "write-config" /\ host'.config = Subject(First).account)
            /\ host'.unit = host.unit \/ host'.unit = TRUE
            /\ First.call = "write-record" => host'.record = Subject(First).account
            /\ First.call = "write-config" => host'.config = Subject(First).account
            /\ First.call = "write-unit" => host'.unit
  PROVE  GoesWell'
<1>1. PICK t \in CallRecord : Passes(t)
  BY NextCall DEF HostStays, HostVerbs, KeyCalls, Writing, Closing, Cleaning
<1>2. HostReady(t)'
  BY <1>1
<1>3. \A x \in Menu(Setting) : x.call = "install-key" /\ MakesKeys(Setting) =>
        /\ host.record = Subject(x).account \/ First.call = "write-record" => host'.record = Subject(x).account
        /\ host.config = Subject(x).account \/ First.call = "write-config" => host'.config = Subject(x).account
        /\ host.unit \/ First.call = "write-unit" => host'.unit
  <2> SUFFICES ASSUME NEW x \in Menu(Setting), x.call = "install-key", MakesKeys(Setting)
               PROVE  /\ host.record = Subject(x).account \/ First.call = "write-record" => host'.record = Subject(x).account
                      /\ host.config = Subject(x).account \/ First.call = "write-config" => host'.config = Subject(x).account
                      /\ host.unit \/ First.call = "write-unit" => host'.unit
    OBVIOUS
  <2>1. Subject(x) = Subject(First)
    BY OneSubject
  <2>2. op.cmd.do # "uninstall"
    BY DEF MakesKeys, PublishesSshIn, Setting
  <2> QED BY <2>1, <2>2
<1> QED BY <1>1, <1>2, <1>3, HostPass DEF HostStays

\* The daemon's directory, record, configuration and unit.
LEMMA WritesGoWell ==
  ASSUME Active, NEW ACTION Effect, NEW call \in Writing, OnHost(call, Effect),
         call = "make-directory" /\ Effect => MakeDirectory,
         call = "write-record" /\ Effect => WriteRecord(Subject(First).account),
         call = "write-config" /\ Effect => WriteConfig(Subject(First).account),
         call = "write-unit" /\ Effect => WriteUnit
  PROVE  GoesWell'
<1>1. First.call = call /\ Continue /\ HostStays /\ Effect
  BY DEF OnHost, On, HostStays, files
<1>2. host \in HostType
  BY WorldFacts
<1>3. MakesKeys(Setting) /\ First \in Menu(Setting)
  BY <1>1, FirstInMenu, MenuFacts
<1>4. ASSUME NEW t \in CallRecord, Passes(t) PROVE HostReady(t)'
  <2>1. Advances(t) /\ Joins(Setting, First, t)
    BY <1>4 DEF Passes
  <2>2. Leads(Setting, First)
    BY <1>1 DEF Leads
  <2>3. t.call \in Writing \cup {"install-key"}
    BY <1>1, <2>1, <2>2 DEF Joins, NextOnHost, Writing
  <2> QED BY <1>1, <1>3, <2>1, <2>3, HostWriting DEF HostVerbs, Writing
<1>5. call \in {"make-directory", "write-record", "write-config", "write-unit"}
  BY DEF Writing
<1>6. CASE call = "make-directory"
  <2>1. host'.record = host.record /\ host'.config = host.config /\ host'.unit = host.unit
    BY <1>1, <1>2, <1>6 DEF MakeDirectory, HostType
  <2> QED BY <1>1, <1>4, <1>6, <2>1, HostGoes DEF HostVerbs, Writing
<1>7. CASE call = "write-record"
  <2>1. host'.record = Subject(First).account /\ host'.config = host.config /\ host'.unit = host.unit
    BY <1>1, <1>2, <1>7 DEF WriteRecord, HostType
  <2> QED BY <1>1, <1>4, <1>7, <2>1, HostGoes DEF HostVerbs, Writing
<1>8. CASE call = "write-config"
  <2>1. host'.record = host.record /\ host'.config = Subject(First).account /\ host'.unit = host.unit
    BY <1>1, <1>2, <1>8 DEF WriteConfig, HostType
  <2> QED BY <1>1, <1>4, <1>8, <2>1, HostGoes DEF HostVerbs, Writing
<1>9. CASE call = "write-unit"
  <2>1. host'.record = host.record /\ host'.config = host.config /\ host'.unit
    BY <1>1, <1>2, <1>9 DEF WriteUnit, HostType
  <2>2. host'.unit = TRUE
    BY <1>1, <1>2, <1>9 DEF WriteUnit, HostType
  <2> QED BY <1>1, <1>4, <1>9, <2>1, <2>2, HostGoes DEF HostVerbs, Writing
<1> QED BY <1>5, <1>6, <1>7, <1>8, <1>9

\* Calls that leave the daemon's record, configuration and unit.
LEMMA KeepsGoWell ==
  ASSUME Active, Continue, HostStays, First.call \in KeyCalls \cup Closing, First.call \notin Writing \cup {"verify"},
         \A t \in CallRecord : Passes(t) => HostReady(t)',
         UNCHANGED <<host.record, host.config, host.unit>>
  PROVE  GoesWell'
BY HostGoes DEF HostVerbs, KeyCalls, Closing, Writing

\* The keys, and the access that they give.
LEMMA KeysGoWell ==
  ASSUME Active,
         \/ OnHost("install-key", InstallKey(op.key))
         \/ OnHost("start-daemon", StartDaemon)
         \/ OnHost("enable-record", EnableRecord)
         \/ OnHost("disable-record", DisableRecord)
         \/ AuthorizeKey \/ Terminate
  PROVE  GoesWell'
<1>1. host \in HostType
  BY WorldFacts
<1>2. CASE OnHost("install-key", InstallKey(op.key))
  <2>1. First.call = "install-key" /\ Continue /\ HostStays /\ InstallKey(op.key)
    BY <1>2 DEF OnHost, On, HostStays, files
  <2>2. UNCHANGED <<host.record, host.config, host.unit>>
    BY <1>1, <2>1 DEF InstallKey, HostType
  <2> QED BY <2>1, <2>2, HostInstall, KeepsGoWell DEF KeyCalls, Writing
<1>3. CASE OnHost("start-daemon", StartDaemon)
  <2>1. First.call = "start-daemon" /\ Continue /\ HostStays /\ StartDaemon
    BY <1>3 DEF OnHost, On, HostStays, files
  <2>2. UNCHANGED <<host.record, host.config, host.unit>>
    BY <1>1, <2>1 DEF StartDaemon, HostType
  <2> QED BY <2>1, <2>2, HostStart, KeepsGoWell DEF KeyCalls, Writing
<1>4. CASE OnHost("enable-record", EnableRecord)
  <2>1. First.call = "enable-record" /\ Continue /\ HostStays /\ EnableRecord
    BY <1>4 DEF OnHost, On, HostStays, files
  <2>2. UNCHANGED <<host.record, host.config, host.unit>>
    BY <1>1, <2>1 DEF EnableRecord, HostType
  <2> QED BY <2>1, <2>2, HostEnable, KeepsGoWell DEF KeyCalls, Writing
<1>5. CASE OnHost("disable-record", DisableRecord)
  <2>1. First.call = "disable-record" /\ Continue /\ HostStays /\ DisableRecord
    BY <1>5 DEF OnHost, On, HostStays, files
  <2>2. UNCHANGED <<host.record, host.config, host.unit>>
    BY <1>1, <2>1 DEF DisableRecord, HostType
  <2> QED BY <2>1, <2>2, HostDisable, KeepsGoWell DEF Closing, Writing
<1>6. CASE AuthorizeKey
  <2>1. First.call = "authorize" /\ Continue /\ HostStays /\ Authorize
    BY <1>6 DEF AuthorizeKey, On, HostStays, files
  <2>2. UNCHANGED <<host.record, host.config, host.unit>>
    BY <1>1, <2>1 DEF Authorize, HostType
  <2> QED BY <2>1, <2>2, HostAuthorize, KeepsGoWell DEF KeyCalls, Writing
<1>7. CASE Terminate
  <2>1. First.call = "terminate" /\ Continue /\ HostStays /\ host' = host
    BY <1>7 DEF Terminate, On, HostStays, files, adapters
  <2> QED BY <2>1, HostTerminate, KeepsGoWell DEF Closing, Writing
<1> QED BY <1>2, <1>3, <1>4, <1>5, <1>6, <1>7

LEMMA CloseGoesWell ==
  ASSUME Active, RevokeAccess \/ StopHost
  PROVE  GoesWell'
<1>1. host \in HostType /\ ~op.late
  BY WorldFacts DEF Active, Sound
<1>2. CASE RevokeAccess /\ host.record # Nobody
  <2>1. First.call = "revoke-keys" /\ Continue /\ HostStays /\ RevokeKeys
    BY <1>2 DEF RevokeAccess, On, HostStays, files
  <2>2. UNCHANGED <<host.record, host.config, host.unit>>
    BY <1>1, <2>1 DEF RevokeKeys, HostType
  <2> QED BY <2>1, <2>2, HostRevoke, KeepsGoWell DEF Closing, Writing
<1>3. CASE StopHost /\ host.unit
  <2>1. First.call = "stop-daemon" /\ Continue /\ HostStays /\ StopDaemon
    BY <1>1, <1>3 DEF StopHost, Require, On, HostStays, files
  <2>2. UNCHANGED <<host.record, host.config, host.unit>>
    BY <1>1, <2>1 DEF StopDaemon, HostType
  <2> QED BY <2>1, <2>2, HostStop, KeepsGoWell DEF Closing, Writing
<1>4. CASE (RevokeAccess /\ host.record = Nobody) \/ (StopHost /\ ~host.unit)
  <2>1. First.call \in {"revoke-keys", "stop-daemon"} /\ Abort /\ UNCHANGED <<adapters, inventory, domain>> /\ ~HostOwned
    BY <1>4 DEF RevokeAccess, StopHost, On, files, adapters, HostOwned
  <2>2. op.cmd.do = "uninstall" /\ SshOf(inventory) = {}
    BY <2>1 DEF Active, UnderWay, HostReady, Closing
  <2> QED BY <2>1, <2>2, AbortUninstall DEF Closing
<1> QED BY <1>2, <1>3, <1>4

LEMMA CleansGoWell ==
  ASSUME Active,
         \/ OnHost("remove-unit", RemoveUnit) \/ OnHost("remove-record", RemoveRecord)
         \/ OnHost("remove-files", RemoveFiles)
  PROVE  GoesWell'
<1>1. host \in HostType
  BY WorldFacts
<1>2. First.call \in {"remove-unit", "remove-record", "remove-files"} /\ Continue /\ HostStays
  BY DEF OnHost, On, HostStays, files
<1>3. host'.record \in {host.record, Nobody} /\ (host'.disabled = host.disabled \/ host'.disabled)
  BY <1>1 DEF OnHost, RemoveUnit, RemoveRecord, RemoveFiles, HostType
<1>4. op.cmd.do = "uninstall"
  BY <1>2, FirstInMenu, MenuFacts, SettingFacts DEF Cleaning
<1> QED BY <1>2, <1>3, <1>4, HostCleans, HostGoes DEF HostVerbs, Cleaning

\* A prepared key changes nothing that is served.
LEMMA PrepareGoesWell ==
  ASSUME Active, PrepareReplacement
  PROVE  GoesWell'
<1>1. First.call = "prepare-key" /\ UNCHANGED <<proxy, gateway, dns, routes, inventory, domain>> /\ host \in HostType
  BY WorldFacts DEF PrepareReplacement, On, files
<1>2. First \in Menu(Setting) /\ op.cmd.do = "prepare"
  BY <1>1, FirstInMenu, MenuFacts, SettingFacts
<1>3. NetRest(inventory, domain) /\ HostRest /\ Steady
  BY <1>1, <1>2, NetAtRest, SteadyNow DEF Active, UnderWay, HostReady, HostIdle, Restoring, Forwards
<1>4. CASE PrepareKey /\ Continue
  <2>1. op'.todo = <<>>
    <3> SUFFICES ASSUME op'.todo # <<>> PROVE FALSE
      OBVIOUS
    <3>1. PICK t \in CallRecord : Passes(t)
      BY <1>1, <1>4, CalmContinue
    <3>2. t.call = "prepare-key"
      BY <1>2, <3>1, KeyMenu, SettingFacts DEF Passes, Advances
    <3> QED BY <3>1, <3>2, HostPredecessors
  <2>2. ~op'.late
    BY <1>1, <1>4, CalmContinue DEF Same, Active, Sound
  <2>3. UNCHANGED <<host.record, host.config, host.unit, host.disabled, host.daemon, host.client, host.authorized>>
    BY <1>1, <1>4 DEF PrepareKey, HostType
  <2>4. HostRest'
    BY <1>1, <1>3, <2>3 DEF HostRest, HostHealthy, HostOwned, HostEnabled, SshOf, Of
  <2> QED BY <1>1, <1>3, <2>1, <2>2, <2>4, DoneAtRest DEF HostStays
<1>5. CASE Abort /\ UNCHANGED host
  <2>1. First.block = "plain"
    <3>1. ~UnitCall(Setting, First) /\ ~WithdrawCall(Setting, First) /\ ~MakesKeys(Setting)
      BY <1>2, SettingFacts DEF UnitCall, WithdrawCall, MakesKeys, PublishesSshIn, Everything
    <3> QED BY <1>2, <3>1 DEF Menu, BareCall
  <2>2. ~NewSsh(First)
    BY <1>2 DEF NewSsh
  <2> QED BY <1>1, <1>3, <1>5, <2>1, <2>2, AbortAtRest DEF AtRest, adapters
<1> QED BY <1>4, <1>5 DEF PrepareReplacement

\* The daemon is in use with its new key.
LEMMA VerifyGoesWell ==
  ASSUME Active, VerifyHost
  PROVE  GoesWell'
<1>1. First.call = "verify" /\ Require(HostHealthy(Subject(First).account)) /\ UNCHANGED <<adapters, inventory, domain>>
  BY DEF VerifyHost, Stay, On, files
<1>2. HostHealthy(Subject(First).account)
  BY <1>1 DEF Active, UnderWay, HostReady, HostHealthy, HostEnabled, HostOwned
<1>3. Continue
  BY <1>1, <1>2 DEF Require
<1>4. Steady
  BY <1>1, SteadyNow DEF Restoring, Forwards
<1>5. First \in Menu(Setting) /\ MakesKeys(Setting)
  BY <1>1, FirstInMenu, MenuFacts DEF KeyCalls
<1>6. CASE op'.todo # <<>>
  <2>1. PICK t \in CallRecord : Passes(t)
    BY <1>1, <1>3, <1>6, CalmContinue
  <2>2. HostReady(t)'
    BY <1>1, <1>2, <2>1, HostServed DEF adapters
  <2> QED BY <1>1, <1>4, <2>1, <2>2, StillPass DEF StillVerbs, Checking
<1>7. CASE op'.todo = <<>>
  <2>1. First.call \in Finals(Setting)
    BY <1>1, <1>3, <1>7, CalmContinue
  <2>2. op.cmd.do \in {"activate", "replace"}
    BY <1>1, <2>1, SettingFacts DEF Finals
  <2>3. First.name \in SshOf(inventory) /\ op.plan = inventory
    BY <1>5, <2>2, OtherPlans, SettingFacts DEF Menu
  <2>4. HostRest
    BY <1>2, <2>3, SshIsOne DEF HostRest, Subject
  <2>5. HostRest'
    BY <1>1, <2>4 DEF HostRest, HostHealthy, HostOwned, HostEnabled, SshOf, Of, adapters
  <2>6. ~op'.late
    BY <1>1, <1>3, CalmContinue DEF Same, Active, Sound
  <2>7. NetRest(inventory, domain)
    BY <2>2, NetAtRest
  <2> QED BY <1>1, <1>4, <1>7, <2>5, <2>6, <2>7, DoneAtRest DEF HostStays, adapters
<1> QED BY <1>6, <1>7

LEMMA HostCallsGoWell ==
  ASSUME Active, HostCalls
  PROVE  GoesWell'
<1>1. CASE OnHost("make-directory", MakeDirectory)
  BY <1>1, WritesGoWell DEF Writing
<1>2. CASE OnHost("write-record", WriteRecord(Subject(First).account))
  BY <1>2, WritesGoWell DEF Writing
<1>3. CASE OnHost("write-config", WriteConfig(Subject(First).account))
  BY <1>3, WritesGoWell DEF Writing
<1>4. CASE OnHost("write-unit", WriteUnit)
  BY <1>4, WritesGoWell DEF Writing
<1> QED BY <1>1, <1>2, <1>3, <1>4, KeysGoWell, CloseGoesWell, CleansGoWell, PrepareGoesWell, VerifyGoesWell DEF HostCalls

-----------------------------------------------------------------------------
(* Calls to the proxy, the gateway and the names *)

\* Calls that neither the host's daemon nor a refusal is about.
NetVerbs == {"save-activity", "stop-admin", "start-private", "start-stock", "forget-activity", "install",
             "remove-forwarding", "close-gateway", "open-gateway", "start-gateway", "publish-record",
             "delete-record", "publish-route", "delete-route"}

LEMMA NetGoes ==
  ASSUME Active, Continue, UNCHANGED <<host, inventory, domain>>, First.call \in NetVerbs,
         proxy'.stock = proxy.stock, ~op'.late => Sound',
         \A t \in CallRecord : Passes(t) => NetReady' /\ UnitReady(t)'
  PROVE  GoesWell'
<1>1. PICK t \in CallRecord : Passes(t)
  BY NextCall DEF NetVerbs
<1>2. ~op'.late
  BY CalmContinue DEF Same, Active, Sound
<1>3. First.call \notin HostVerbs \cup BeforeNet
  BY DEF NetVerbs, HostVerbs, BeforeNet, KeyCalls, Writing, Closing, Cleaning, Checking
<1> QED BY <1>1, <1>2, <1>3, NetPass

\* The proxy's own sshd moves, and the forwardings stay.
LEMMA AdminGoes ==
  ASSUME Active, Continue, UNCHANGED <<host, gateway, dns, routes, inventory, domain>>,
         First.call \in {"save-activity", "stop-admin", "start-private", "start-stock", "forget-activity"},
         PortsSame, proxy'.unit = proxy.unit, proxy'.stock = proxy.stock,
         proxy'.admin = "private" => proxy.admin = "private" \/ proxy.stock = "ssh",
         \A t \in CallRecord : Passes(t) => UnitReady(t)'
  PROVE  GoesWell'
<1>1. ~op'.late => Sound'
  BY SoundKept DEF Active, Sound, PortsSame
<1>2. ASSUME NEW t \in CallRecord, Passes(t) PROVE NetReady'
  BY <1>2, PassesOnly, NetSame
<1> QED BY <1>1, <1>2, NetGoes DEF NetVerbs

LEMMA StartsPrivate ==
  ASSUME Active, First.call = "start-private"
  PROVE  CanStartPrivate /\ proxy.stock = "ssh"
<1>1. First.block = "relocation" /\ UnitReady(First) /\ IsSsh(First) = (PortOf(First) = SshPort) /\ PortOf(First) \in Port
      /\ IsSsh(First)
  BY FirstReady DEF Nameless, SshCalls
<1>2. SshPort \notin proxy.live /\ proxy.stock = "ssh"
  BY <1>1 DEF UnitReady
<1>3. UnitCall(Setting, First) /\ First.block \in UnitBlocks
  BY FirstInMenu, MenuFacts DEF PublishVerbs
<1>4. First.name \in Streams(op.plan) /\ op.plan[First.name].port = SshPort
  BY <1>1, <1>3, UnitFacts DEF Active, Streams, IsSsh, IsStream
<1>5. SshPort \in StreamPorts(op.plan)
  BY <1>4 DEF StreamPorts
<1>6. Compatible(op.plan)
  BY DEF Active, UnderWay, PlanReady, MayRefuse
<1>7. AdminPort \notin proxy.live
  <2> SUFFICES ASSUME AdminPort \in proxy.live PROVE FALSE
    OBVIOUS
  <2>1. AdminPort \in Port
    BY WorldFacts
  <2>2. AdminPort \in StreamPorts(op.plan)
    BY <1>3, <2>1, PortInPlan
  <2> QED BY <1>2, <1>5, <1>6, <2>2 DEF Compatible
<1> QED BY <1>2, <1>7 DEF CanStartPrivate

LEMMA CanInstall ==
  ASSUME Active, First.call = "install"
  PROVE  CanListen(PortOf(First))
<1> DEFINE p == PortOf(First)
<1>1. /\ UnitReady(First) /\ IsSsh(First) = (p = SshPort) /\ p \in Port /\ AdminOK
  BY FirstReady DEF Nameless
<1>2. UnitCall(Setting, First) /\ First.block \in UnitBlocks /\ StreamIn(Setting, First)
  BY FirstInMenu, MenuFacts DEF PublishVerbs, Menu, StreamVerbs
<1>3. p \in StreamPorts(op.plan)
  BY <1>2, UnitFacts DEF Active, Streams, StreamPorts
<1>4. Compatible(op.plan)
  BY DEF Active, UnderWay, PlanReady, MayRefuse
<1>5. proxy.admin = "private" => proxy.stock = "ssh"
  BY DEF Active, Sound
<1>6. p # SshPort \/ proxy.admin # "ssh"
  BY <1>1 DEF UnitReady
<1>7. ASSUME p = AdminPort, proxy.admin = "private" PROVE FALSE
  <2>1. ~IsSsh(First)
    BY <1>1, <1>7, PortsDiffer
  <2>2. Steady
    BY <1>1, <2>1 DEF UnitReady, Unsteady, Restoring
  <2>3. SshPort \in proxy.live
    BY <1>1, <1>5, <1>7, <2>2 DEF Steady, AdminOK, AdminRestorable
  <2>4. SshPort \in Port
    BY <2>3, WorldFacts
  <2>5. SshPort \in StreamPorts(op.plan)
    BY <1>2, <2>3, <2>4, PortInPlan
  <2> QED BY <1>3, <1>4, <1>5, <1>7, <2>5 DEF Compatible
<1> QED BY <1>6, <1>7 DEF CanListen, Listening

LEMMA AdminsGoWell ==
  ASSUME Active,
         \/ OnProxy("save-activity", SaveActivity) \/ OnProxy("stop-admin", StopAdmin)
         \/ OnProxy("start-stock", StartStock) \/ OnProxy("forget-activity", ForgetActivity)
         \/ StartPrivateAdmin
  PROVE  GoesWell'
<1>1. proxy \in ProxyType
  BY WorldFacts
<1>2. CASE OnProxy("save-activity", SaveActivity)
  <2>1. First.call = "save-activity" /\ Continue /\ UNCHANGED <<host, gateway, dns, routes, inventory, domain>> /\ SaveActivity
    BY <1>2 DEF OnProxy, On, files
  <2>2. PortsSame /\ UNCHANGED <<proxy.unit, proxy.stock, proxy.admin>>
    BY <1>1, <2>1 DEF SaveActivity, PortsSame, ProxyType
  <2> QED BY <2>1, <2>2, UnitSave, AdminGoes
<1>3. CASE OnProxy("stop-admin", StopAdmin)
  <2>1. First.call = "stop-admin" /\ Continue /\ UNCHANGED <<host, gateway, dns, routes, inventory, domain>> /\ StopAdmin
    BY <1>3 DEF OnProxy, On, files
  <2>2. PortsSame /\ UNCHANGED <<proxy.unit, proxy.stock>> /\ proxy'.admin = "stopped"
    BY <1>1, <2>1 DEF StopAdmin, PortsSame, ProxyType
  <2> QED BY <2>1, <2>2, UnitStop, AdminGoes
<1>4. CASE OnProxy("start-stock", StartStock)
  <2>1. First.call = "start-stock" /\ Continue /\ UNCHANGED <<host, gateway, dns, routes, inventory, domain>> /\ StartStock
    BY <1>4 DEF OnProxy, On, files
  <2>2. PortsSame /\ UNCHANGED <<proxy.unit, proxy.stock>> /\ proxy'.admin \in {"ssh", proxy.admin}
    BY <1>1, <2>1 DEF StartStock, PortsSame, ProxyType
  <2> QED BY <2>1, <2>2, UnitStock, AdminGoes
<1>5. CASE OnProxy("forget-activity", ForgetActivity)
  <2>1. First.call = "forget-activity" /\ Continue /\ UNCHANGED <<host, gateway, dns, routes, inventory, domain>> /\ ForgetActivity
    BY <1>5 DEF OnProxy, On, files
  <2>2. PortsSame /\ UNCHANGED <<proxy.unit, proxy.stock, proxy.admin>> /\ proxy'.saved = "none"
    BY <1>1, <2>1 DEF ForgetActivity, PortsSame, ProxyType
  <2>3. Steady'
    BY <2>2 DEF Steady
  <2>4. \A t \in CallRecord : Passes(t) => UnitReady(t)'
    BY <2>1, <2>3, UnitCalm
  <2> QED BY <2>1, <2>2, <2>4, AdminGoes
<1>6. CASE StartPrivateAdmin
  <2>1. First.call = "start-private" /\ UNCHANGED <<host, gateway, dns, routes, inventory, domain>>
    BY <1>6 DEF StartPrivateAdmin, On, files
  <2>2. Continue /\ StartPrivate /\ proxy.stock = "ssh"
    BY <1>6, <2>1, StartsPrivate DEF StartPrivateAdmin
  <2>3. PortsSame /\ UNCHANGED <<proxy.unit, proxy.stock>>
    BY <1>1, <2>2 DEF StartPrivate, PortsSame, ProxyType
  <2> QED BY <2>1, <2>2, <2>3, UnitPrivate, AdminGoes
<1> QED BY <1>2, <1>3, <1>4, <1>5, <1>6

LEMMA InstallGoesWell ==
  ASSUME Active, Install
  PROVE  GoesWell'
<1> DEFINE p == PortOf(First)
           h == HostOf(First)
<1>1. First.call = "install" /\ UNCHANGED <<host, gateway, dns, routes, inventory, domain>>
  BY DEF Install, On, files
<1>2. InstallForwarding(p, h) /\ Continue
  BY <1>1, CanInstall DEF Install
<1>3. p \in Port /\ h \in Hostname /\ h # Free
  BY <1>1, FirstReady, FreeIsNoHostname DEF Nameless
<1>4. /\ proxy.record \in [Port -> Hostname \cup {Free}] /\ proxy.unit \in [Port -> Hostname \cup {Free}]
      /\ proxy \in ProxyType /\ proxy.live \in SUBSET Port
  BY WorldFacts
<1> HIDE DEF p, h
<1>5. /\ proxy'.record = [proxy.record EXCEPT ![p] = h] /\ proxy'.unit = [proxy.unit EXCEPT ![p] = h]
      /\ proxy'.live = proxy.live \cup {p} /\ proxy'.admin = proxy.admin /\ proxy'.stock = proxy.stock
  BY <1>2, <1>4 DEF InstallForwarding, ProxyType
<1>6. Sound
  BY DEF Active
<1>7. \A q \in Port : (q \in proxy'.live) = (proxy'.record[q] # Free)
  BY <1>3, <1>4, <1>5, <1>6 DEF Sound
<1>8. proxy'.record = proxy'.unit /\ gateway'.ports \subseteq proxy'.live /\ (proxy'.admin = "private" => proxy'.stock = "ssh")
  BY <1>1, <1>5, <1>6 DEF Sound
<1>9. ~op'.late => Sound'
  BY <1>1, <1>5, <1>6, <1>7, <1>8, SoundKept
<1>10. \A t \in CallRecord : Passes(t) => NetReady' /\ UnitReady(t)'
  BY <1>1, <1>2, NetInstall, UnitInstall DEF p, h
<1> QED BY <1>1, <1>2, <1>5, <1>9, <1>10, NetGoes DEF NetVerbs

LEMMA RemoveGoesWell ==
  ASSUME Active, RemoveUnits("remove-forwarding")
  PROVE  GoesWell'
<1> DEFINE p == PortOf(First)
<1>1. /\ First.call = "remove-forwarding" /\ UNCHANGED <<host, gateway, dns, routes, inventory, domain>>
      /\ RemoveForwarding(p) /\ Continue
  BY DEF RemoveUnits, On, files
<1>2. p \in Port /\ p \notin gateway.ports
  BY <1>1, FirstReady DEF Nameless, ReadyAdmin
<1>3. /\ proxy.record \in [Port -> Hostname \cup {Free}] /\ proxy.unit \in [Port -> Hostname \cup {Free}]
      /\ proxy \in ProxyType /\ proxy.live \in SUBSET Port
  BY WorldFacts
<1> HIDE DEF p
<1>4. /\ proxy'.record = [proxy.record EXCEPT ![p] = Free] /\ proxy'.unit = [proxy.unit EXCEPT ![p] = Free]
      /\ proxy'.live = proxy.live \ {p} /\ proxy'.admin = proxy.admin /\ proxy'.stock = proxy.stock
  BY <1>1, <1>3 DEF RemoveForwarding, ProxyType
<1>5. Sound
  BY DEF Active
<1>6. \A q \in Port : (q \in proxy'.live) = (proxy'.record[q] # Free)
  BY <1>2, <1>3, <1>4, <1>5 DEF Sound
<1>7. proxy'.record = proxy'.unit /\ gateway'.ports \subseteq proxy'.live /\ (proxy'.admin = "private" => proxy'.stock = "ssh")
  BY <1>1, <1>2, <1>4, <1>5 DEF Sound
<1>8. ~op'.late => Sound'
  BY <1>1, <1>4, <1>5, <1>6, <1>7, SoundKept
<1>9. \A t \in CallRecord : Passes(t) => NetReady' /\ UnitReady(t)'
  BY <1>1, NetRemove, UnitRemove DEF p
<1> QED BY <1>1, <1>4, <1>8, <1>9, NetGoes DEF NetVerbs

LEMMA GatewayGoesWell ==
  ASSUME Active,
         \/ OnGateway("close-gateway", CloseGateway(PortOf(First)))
         \/ OnGateway("open-gateway", OpenGateway(PortOf(First), Subject(First).tailnet))
         \/ OnGateway("start-gateway", gateway' = [gateway EXCEPT !.up = TRUE])
  PROVE  GoesWell'
<1> DEFINE p == PortOf(First)
<1>1. /\ First.call \in {"close-gateway", "open-gateway", "start-gateway"} /\ Continue
      /\ UNCHANGED <<host, proxy, dns, routes, inventory, domain>>
  BY DEF OnGateway, On, files
<1>2. gateway \in GatewayType /\ Sound
  BY WorldFacts DEF Active
<1>3. PortsSame /\ proxy'.stock = proxy.stock
  BY <1>1 DEF PortsSame
<1>4. gateway'.ports \subseteq proxy.live
  <2>1. First.call = "open-gateway" => p \in proxy.live
    BY FirstReady DEF ReadyAdmin
  <2> HIDE DEF p
  <2>2. gateway.ports \subseteq proxy.live
    BY <1>2 DEF Sound
  <2>3. \/ gateway'.ports \subseteq gateway.ports
        \/ First.call = "open-gateway" /\ gateway'.ports \subseteq gateway.ports \cup {p}
    BY <1>2 DEF OnGateway, On, CloseGateway, OpenGateway, GatewayType, p
  <2> QED BY <2>1, <2>2, <2>3
<1>5. ~op'.late => Sound'
  BY <1>1, <1>2, <1>4, SoundKept DEF Sound
<1>6. ASSUME NEW t \in CallRecord, Passes(t) PROVE NetReady' /\ UnitReady(t)'
  <2>1. CASE OnGateway("close-gateway", CloseGateway(PortOf(First)))
    <3>1. First.call = "close-gateway" /\ CloseGateway(PortOf(First))
      BY <2>1 DEF OnGateway, On
    <3> QED BY <1>1, <1>3, <1>6, <3>1, NetGateway, UnitClose
  <2>2. CASE OnGateway("open-gateway", OpenGateway(PortOf(First), Subject(First).tailnet))
    <3>1. First.call = "open-gateway" /\ OpenGateway(PortOf(First), Subject(First).tailnet)
      BY <2>2 DEF OnGateway, On
    <3> QED BY <1>1, <1>3, <1>6, <3>1, NetGateway, UnitOpen
  <2>3. CASE OnGateway("start-gateway", gateway' = [gateway EXCEPT !.up = TRUE])
    <3>1. First.call = "start-gateway" /\ gateway' = [gateway EXCEPT !.up = TRUE]
      BY <2>3 DEF OnGateway, On
    <3>2. Steady'
      BY <1>1, <3>1, SteadyNow DEF Restoring, Forwards, Steady
    <3> QED BY <1>1, <1>3, <1>6, <3>1, <3>2, NetStart, UnitCalm
  <2> QED BY <2>1, <2>2, <2>3
<1> QED BY <1>1, <1>3, <1>5, <1>6, NetGoes DEF NetVerbs

LEMMA NamesGoWell ==
  ASSUME Active, NameCalls
  PROVE  GoesWell'
<1>1. PICK call \in {"publish-record", "delete-record", "publish-route", "delete-route"} :
        First.call = call /\ dns' = NamesAfter(call)[1] /\ routes' = NamesAfter(call)[2]
  BY DEF NameCalls, On
<1>2. Continue /\ UNCHANGED <<host, proxy, gateway, inventory, domain>>
  BY DEF NameCalls, files
<1>3. /\ First.call = "publish-record" => dns' = dns \cup {HostOf(First)} /\ routes' = routes
      /\ First.call = "delete-record" => dns' = dns \ {HostOf(First)} /\ routes' = routes
      /\ First.call = "publish-route" => routes' = routes \cup {HostOf(First)} /\ dns' = dns
      /\ First.call = "delete-route" => routes' = routes \ {HostOf(First)} /\ dns' = dns
  BY <1>1 DEF NamesAfter
<1>4. PortsSame /\ proxy'.stock = proxy.stock
  BY <1>2 DEF PortsSame
<1>5. ~op'.late => Sound'
  BY <1>2, SoundSame DEF Active
<1>6. Steady'
  BY <1>1, <1>2, SteadyNow DEF Restoring, Forwards, Steady
<1>7. ASSUME NEW t \in CallRecord, Passes(t) PROVE NetReady'
  BY <1>1, <1>2, <1>3, <1>4, <1>7, NetRecord, NetRoute, NetDelete
<1>8. ASSUME NEW t \in CallRecord, Passes(t) PROVE UnitReady(t)'
  <2>1. CASE First.call = "publish-record"
    BY <1>2, <1>3, <1>8, <2>1, UnitRecord
  <2>2. CASE First.call # "publish-record"
    BY <1>1, <1>6, <1>8, <2>2, UnitCalm
  <2> QED BY <2>1, <2>2
<1> QED BY <1>1, <1>2, <1>4, <1>5, <1>7, <1>8, NetGoes DEF NetVerbs

\* Nothing has to be undone.
LEMMA NothingUndone ==
  ASSUME Active
  PROVE  First.call # "undo-units"
<1>1. First \in Menu(Setting)
  BY FirstInMenu
<1>2. UnitCall(Setting, First) => First.call # "undo-units"
  BY DEF UnitCall, UnitVerbs, RelocationCalls
<1>3. WithdrawCall(Setting, First) => First.call # "undo-units"
  BY DEF WithdrawCall, Withdrawing, Restoring
<1>4. BareCall(Setting, First) => First.call # "undo-units"
  BY DEF BareCall, Checking, Writing, Closing, Withdrawing, Restoring, Cleaning
<1> QED BY <1>1, <1>2, <1>3, <1>4 DEF Menu, KeyCalls

-----------------------------------------------------------------------------
(* Calls that stand for others *)

\* A call about the exposure of the next one.
Item(c, b) == Call(c, First.name, First.to, b)

LEMMA Parts ==
  ASSUME Active, NEW calls \in Seq(Verb), NEW b \in Block, NEW l, l = Part(calls, b)
  PROVE  /\ l \in Seq(CallRecord) /\ Len(l) = Len(calls) /\ DOMAIN l = 1..Len(calls)
         /\ \A i \in 1..Len(calls) : l[i] = Item(calls[i], b)
         /\ ToSet(l) = {Item(calls[i], b) : i \in 1..Len(calls)}
         /\ calls # <<>> => l # <<>> /\ Head(l) = Item(calls[1], b)
<1>1. First \in CallRecord
  BY FirstInMenu
<1>2. \A i \in 1..Len(calls) : Item(calls[i], b) \in CallRecord
  BY <1>1 DEF Item, Call, CallRecord
<1>3. l = [i \in 1..Len(calls) |-> Item(calls[i], b)]
  BY DEF Part, Calls, Item
<1>4. Len(calls) \in Nat
  OBVIOUS
<1>5. l \in Seq(CallRecord) /\ Len(l) = Len(calls)
  BY <1>2, <1>3, <1>4
<1>6. ToSet(l) = {l[i] : i \in 1..Len(l)} /\ (l # <<>> => Head(l) = l[1]) /\ (l = <<>> <=> Len(l) = 0)
  BY <1>5, ListMembers
<1>7. calls # <<>> => Len(calls) # 0 /\ 1 \in 1..Len(calls)
  BY <1>4
<1> QED BY <1>3, <1>5, <1>6, <1>7

LEMMA Items ==
  ASSUME NEW c, NEW b
  PROVE  /\ Item(c, b).call = c /\ Item(c, b).block = b /\ Item(c, b).name = First.name /\ Item(c, b).to = First.to
         /\ StreamIn(Setting, Item(c, b)) = StreamIn(Setting, First) /\ SshIn(Setting, Item(c, b)) = SshIn(Setting, First)
BY DEF Item, Call, StreamIn, SshIn

\* A call that others always come after.
LEMMA NotLast ==
  ASSUME Active, First.call \notin {"delete-project", "prepare-key", "activate-key", "enable-host", "verify",
                                    "replace-key", "save"}
  PROVE  /\ Tail(op.todo) # <<>> /\ Joins(Setting, First, Head(Tail(op.todo)))
         /\ Follows(First, Head(Tail(op.todo)))
<1>1. Listed(Setting, op.todo) /\ First = Head(op.todo) /\ op.todo # <<>>
  BY DEF Active, UnderWay, First
<1>2. First.call \notin Finals(Setting)
  BY DEF Finals
<1>3. Tail(op.todo) # <<>> /\ Joins(Setting, First, Head(Tail(op.todo)))
  BY <1>1, <1>2, ListedTail
<1> QED BY <1>3, FirstInMenu DEF FirstOK, RestOK

\* What a publication or a withdrawal puts in the place of a call.
LEMMA InsertGoes ==
  ASSUME Active, First.call \in {"relocate", "unforward", "restore"}, NEW l, Fits(Setting, First, l),
         op'.todo = l \o Tail(op.todo), Same, UNCHANGED adapters,
         Joins(Setting, l[Len(l)], Head(Tail(op.todo))),
         \A x \in ToSet(l) : x.call \notin HostVerbs,
         NetReady', UnitReady(Head(l))'
  PROVE  GoesWell'
<1>1. PICK t : t = Head(l)
  OBVIOUS
<1>2. Tail(op.todo) # <<>>
  BY NotLast
<1>3. Advances(t) /\ ToSet(op'.todo) = ToSet(l) \cup ToSet(Tail(op.todo))
  BY <1>1, <1>2, CalmInsert
<1>4. l \in Seq(CallRecord) /\ l # <<>>
  BY DEF Fits
<1>5. t \in ToSet(l)
  BY <1>1, <1>4, ListMembers
<1>6. t.call \notin HostVerbs /\ First.call \in Compound /\ First.call \notin HostVerbs
  BY <1>5 DEF Compound, HostVerbs, KeyCalls, Writing, Closing, Cleaning
<1>7. Sound'
  BY SoundSame DEF Active, Same, Sound, adapters
<1>8. PlanReady'
  BY <1>3, <1>6, PlanKept DEF adapters
<1>9. HostReady(t)'
  BY <1>3, <1>6, HostSame DEF adapters
<1>10. KeysReady'
  <2>1. \A x \in ToSet(op'.todo) : x.call # "install-key"
    BY <1>3, NoInstallAhead DEF HostVerbs, KeyCalls
  <2>2. op'.todo \in Seq(CallRecord)
    BY <1>3 DEF Advances, Listed
  <2> QED BY <2>1, <2>2, NoInstall
<1>11. UnitReady(t)'
  BY <1>1
<1> QED BY <1>3, <1>7, <1>8, <1>9, <1>10, <1>11, OnTheWay

\* What takes something away is followed by calls of its own.
LEMMA AfterRemoval ==
  ASSUME NEW s, NEW last, NEW t, LedBy(s, t), s.call \in {"unforward", "restore"}
  PROVE  LedBy(last, t)
BY DEF LedBy

\* What may stand for a call that takes something away.
LEMMA WithdrawItem ==
  ASSUME Active, First.call \in {"unforward", "restore"}, NEW t \in CallRecord,
         t.call \in Withdrawing \ {"unforward", "delete-record", "delete-route"},
         t.name = First.name, t.to = First.to, t.block = First.block,
         t.call \in {"close-gateway", "remove-forwarding"} => First.call = "unforward"
  PROVE  /\ t \in Menu(Setting) /\ t.call # "start-gateway" /\ t.call \notin HostVerbs
         /\ op.cmd.do # "publish" /\ First.block \notin UnitBlocks
<1>1. First \in Menu(Setting)
  BY FirstInMenu
<1>2. Withdraws(Setting, First)
  BY <1>1, MenuFacts DEF WithdrawVerbs
<1>3. WithdrawCall(Setting, t) \/ BareCall(Setting, t)
  BY <1>2 DEF Withdraws, WithdrawCall, BareCall
<1>4. op.cmd.do \in {"domain", "remove"} /\ First.block \in {"withdraw", "plain"}
  BY <1>2 DEF Withdraws, WithdrawCall, Setting
<1>5. First.call = "unforward" => StreamIn(Setting, First)
  BY <1>1 DEF Menu, StreamVerbs
<1>6. StreamIn(Setting, t) = StreamIn(Setting, First)
  BY DEF StreamIn
<1>7. t.call \notin {"save", "delete-record", "check-host"} \cup WebVerbs
  BY DEF Withdrawing, Restoring, WebVerbs
<1>8. t.call \in StreamVerbs => t.call \in {"close-gateway", "remove-forwarding"}
  BY DEF Withdrawing, Restoring, StreamVerbs
<1>9. Setting.cmd = op.cmd
  BY SettingFacts
<1>10. /\ op.cmd.do = "remove" => t.name = op.cmd.name /\ t.to = Setting.domain
       /\ op.cmd.do \notin {"activate", "replace", "publish"}
  BY <1>1, <1>4, <1>9 DEF Menu
<1>11. t \in Menu(Setting)
  BY <1>3, <1>5, <1>6, <1>7, <1>8, <1>9, <1>10 DEF Menu
<1> QED BY <1>4, <1>11 DEF Withdrawing, Restoring, HostVerbs, KeyCalls, Writing, Closing, Cleaning, UnitBlocks

\* What a compound call does to the rest.
LEMMA InsteadSame ==
  ASSUME Active, NEW l, Instead(l), UNCHANGED <<adapters, files>>
  PROVE  Same /\ op'.todo = l \o Tail(op.todo) /\ op'.key = op.key
<1>1. op \in OpType
  BY DEF Active, IInv, CommandOK
<1> QED BY <1>1 DEF Instead, Same, files, OpType

\* The proxy's sshd returns to its port.
LEMMA RestoreList2 ==
  ASSUME Active, First.call = "restore", NEW l, l = Part(<<"stop-admin", "start-stock", "forget-activity">>, First.block)
  PROVE  /\ Fits(Setting, First, l) /\ Joins(Setting, l[Len(l)], Head(Tail(op.todo)))
         /\ \A x \in ToSet(l) : x.call \notin HostVerbs /\ x.call # "unforward"
         /\ Head(l).call = "stop-admin" /\ Head(l).block \notin UnitBlocks
<1>1. First \in CallRecord /\ First \in Menu(Setting)
  BY FirstInMenu
<1> DEFINE calls == <<"stop-admin", "start-stock", "forget-activity">>
<1>2. calls \in Seq(Verb) /\ Len(calls) = 3 /\ calls # <<>> /\ First.block \in Block
  BY <1>1 DEF Verb, SshCalls, CallRecord
<1>3. /\ l \in Seq(CallRecord) /\ Len(l) = Len(calls)
      /\ \A i \in 1..Len(calls) : l[i] = Item(calls[i], First.block)
      /\ ToSet(l) = {Item(calls[i], First.block) : i \in 1..Len(calls)}
      /\ l # <<>> /\ Head(l) = Item(calls[1], First.block)
  <2> HIDE DEF calls
  <2>1. l = Part(calls, First.block)
    BY DEF calls
  <2>2. /\ l \in Seq(CallRecord) /\ Len(l) = Len(calls)
        /\ \A i \in 1..Len(calls) : l[i] = Item(calls[i], First.block)
    BY <1>2, <2>1, Parts
  <2>3. ToSet(l) = {Item(calls[i], First.block) : i \in 1..Len(calls)}
    BY <1>2, <2>1, Parts
  <2>4. l # <<>> /\ Head(l) = Item(calls[1], First.block)
    BY <1>2, <2>1, Parts
  <2> QED BY <2>2, <2>3, <2>4
<1>4. /\ Len(l) = 3 /\ l[1] = Item("stop-admin", First.block) /\ l[2] = Item("start-stock", First.block)
      /\ l[3] = Item("forget-activity", First.block)
  BY <1>2, <1>3
<1>5. \A x \in ToSet(l) : /\ x \in CallRecord /\ x.call \in {"stop-admin", "start-stock", "forget-activity"}
                          /\ x.name = First.name /\ x.to = First.to /\ x.block = First.block
  <2>1. \A x \in ToSet(l) : x \in CallRecord
    BY <1>3, ListMembers
  <2>2. \A x \in ToSet(l) : \E i \in 1..3 : x = Item(calls[i], First.block)
    BY <1>2, <1>3
  <2> QED BY <2>1, <2>2, Items
<1>6. \A x \in ToSet(l) : /\ x \in Menu(Setting) /\ x.call # "start-gateway" /\ x.call \notin HostVerbs
                          /\ op.cmd.do # "publish" /\ First.block \notin UnitBlocks
  BY <1>5, WithdrawItem DEF Withdrawing, Restoring
<1>7. l[1] \in ToSet(l)
  BY <1>3, <1>4, ListMembers
<1>8. op.cmd.do # "publish" /\ First.block \notin UnitBlocks
  BY <1>6, <1>7
<1>9. Joins(Setting, l[1], l[2]) /\ Joins(Setting, l[2], l[3])
  BY <1>4, <1>8, Items DEF Joins, NextInUnit, NextOnHost, LedBy, Leading, Forwards, UnitBlocks, Writing, Cleaning
<1>10. Fits(Setting, First, l)
  <2>1. \A i \in 1..(Len(l) - 1) : i = 1 \/ i = 2
    <3>1. Len(l) - 1 = 2
      BY <1>4
    <3>2. \A i \in 1..2 : i = 1 \/ i = 2
      OBVIOUS
    <3>3. 1..(Len(l) - 1) = 1..2
      BY <3>1
    <3> QED BY <3>2, <3>3
  <2>2. \A i \in 1..(Len(l) - 1) : Joins(Setting, l[i], l[i + 1])
    BY <1>9, <2>1
  <2>3. Setting.cmd.do # "publish"
    BY <1>8, SettingFacts
  <2>4. ~Early(First)
    BY DEF Early, Checking
  <2> QED BY <1>3, <1>5, <1>6, <2>2, <2>3, <2>4 DEF Fits
<1>11. Joins(Setting, l[3], Head(Tail(op.todo)))
  <2>1. LedBy(First, Head(Tail(op.todo)))
    BY NotLast DEF Joins
  <2>2. LedBy(l[3], Head(Tail(op.todo)))
    BY <2>1, AfterRemoval
  <2>3. ~Leads(Setting, l[3])
    BY <1>4, Items DEF Leads, Writing, Cleaning, Forwards
  <2> QED BY <2>2, <2>3 DEF Joins
<1>12. Head(l).call = "stop-admin" /\ Head(l).block \notin UnitBlocks
  BY <1>3, <1>8, Items
<1> QED BY <1>4, <1>5, <1>6, <1>10, <1>11, <1>12

\* Calls that are put in the place of one leave what is served.
LEMMA InsertNet ==
  ASSUME Active, First.call \in {"relocate", "restore"}, NEW l, Fits(Setting, First, l),
         op'.todo = l \o Tail(op.todo), Same, UNCHANGED adapters,
         Joins(Setting, l[Len(l)], Head(Tail(op.todo))),
         \A x \in ToSet(l) : x.call # "unforward",
         First.call = "relocate" =>
           Head(l).name = First.name /\ Head(l).block \in UnitBlocks /\ Head(l).call \in UnitVerbs
  PROVE  NetReady'
<1>1. PICK t : t = Head(l)
  OBVIOUS
<1>2. Tail(op.todo) # <<>>
  BY NotLast
<1>3. Advances(t) /\ ToSet(op'.todo) = ToSet(l) \cup ToSet(Tail(op.todo))
  BY <1>1, <1>2, CalmInsert
<1>4. \A x \in ToSet(op'.todo) \ ToSet(op.todo) : x.call # "unforward"
  BY <1>3, FirstInMenu
<1> QED BY <1>1, <1>3, <1>4, NetSame DEF Compound, PortsSame, adapters

LEMMA RestoreGoesWell ==
  ASSUME Active, Restore
  PROVE  GoesWell'
<1>1. First.call = "restore" /\ UNCHANGED <<adapters, files>>
  BY DEF Restore, On
<1>2. CASE proxy.saved = "none"
  <2>1. Continue /\ UNCHANGED <<inventory, domain>>
    BY <1>2, <1>1 DEF Restore, files
  <2>2. PICK t \in CallRecord : Passes(t)
    BY <1>1, <2>1, NextCall
  <2>3. First.call \notin HostVerbs /\ First.call \in StillVerbs
    BY <1>1 DEF HostVerbs, KeyCalls, Writing, Closing, Cleaning, StillVerbs
  <2>4. HostReady(t)'
    BY <1>1, <2>2, <2>3, HostSame DEF Passes, adapters
  <2>5. Steady
    BY <1>2 DEF Steady
  <2> QED BY <1>1, <2>2, <2>3, <2>4, <2>5, StillPass
<1>3. CASE proxy.saved # "none"
  <2>1. SshPort \notin proxy.live /\ proxy.admin = "private"
    BY <1>1, <1>3 DEF Active, UnderWay, UnitReady
  <2>2. ~Listening(SshPort)
    BY <2>1, PortsDiffer DEF Listening
  <2>3. PICK l : l = Part(<<"stop-admin", "start-stock", "forget-activity">>, First.block)
    OBVIOUS
  <2>4. Instead(l)
    BY <1>3, <2>2, <2>3 DEF Restore
  <2>5. Same /\ op'.todo = l \o Tail(op.todo)
    BY <1>1, <2>4, InsteadSame
  <2>6. /\ Fits(Setting, First, l) /\ Joins(Setting, l[Len(l)], Head(Tail(op.todo)))
        /\ \A x \in ToSet(l) : x.call \notin HostVerbs /\ x.call # "unforward"
        /\ Head(l).call = "stop-admin" /\ Head(l).block \notin UnitBlocks
    BY <1>1, <2>3, RestoreList2
  <2>7. NetReady'
    BY <1>1, <2>5, <2>6, InsertNet
  <2>8. PICK t : t = Head(l)
    OBVIOUS
  <2>9. UnitReady(t)'
    BY <2>6, <2>8 DEF UnitReady, Unsteady, Restoring, UnitBlocks, Forwards
  <2>10. UnitReady(Head(l))'
    BY <2>8, <2>9
  <2> QED BY <1>1, <2>5, <2>6, <2>7, <2>10, InsertGoes
<1> QED BY <1>2, <1>3

\* What a publication's relocation finds.
LEMMA RelocateFacts ==
  ASSUME Active, First.call = "relocate"
  PROVE  /\ UnitCall(Setting, First) /\ First.block \in UnitBlocks /\ First.name \in Streams(op.plan)
         /\ PortOf(First) = op.plan[First.name].port /\ Compatible(op.plan) /\ Steady
         /\ Tail(op.todo) # <<>> /\ Joins(Setting, First, Head(Tail(op.todo)))
         /\ Head(Tail(op.todo)).name = First.name /\ Head(Tail(op.todo)).to = First.to
         /\ Forwards(Head(Tail(op.todo)))
<1>1. First \in Menu(Setting)
  BY FirstInMenu
<1>2. UnitCall(Setting, First) /\ First.block \in UnitBlocks
  BY <1>1, MenuFacts DEF PublishVerbs
<1>3. StreamIn(Setting, First)
  BY <1>1 DEF Menu, StreamVerbs
<1>4. IInv /\ op.todo # <<>>
  BY DEF Active
<1>5. /\ First.name \in Of(op.plan) /\ Subject(First) = op.plan[First.name]
      /\ PortOf(First) = op.plan[First.name].port /\ IsStream(Subject(First))
  BY <1>2, <1>3, <1>4, UnitFacts
<1>6. First.name \in Streams(op.plan)
  BY <1>5 DEF Streams
<1>7. Compatible(op.plan)
  BY DEF Active, UnderWay, PlanReady, MayRefuse
<1>8. Steady
  BY SteadyNow DEF Restoring, Forwards
<1>9. Tail(op.todo) # <<>> /\ Joins(Setting, First, Head(Tail(op.todo)))
  BY NotLast
<1>10. Leads(Setting, First)
  BY DEF Leads
<1>11. /\ Head(Tail(op.todo)).name = First.name /\ Head(Tail(op.todo)).to = First.to
       /\ Forwards(Head(Tail(op.todo)))
  BY <1>9, <1>10 DEF Joins, NextInUnit
<1> QED BY <1>2, <1>5, <1>6, <1>7, <1>8, <1>9, <1>11

\* The proxy's sshd can make room: no stream that is recorded, or published now, has its new port.
LEMMA MakesRoom ==
  ASSUME Active, First.call = "relocate", IsSsh(First), proxy.record[SshPort] = Free
  PROVE  /\ SshPort \notin proxy.live /\ proxy.saved = "none" /\ proxy.admin = proxy.stock
         /\ proxy.stock = "ssh" => Relocatable
         /\ Listening(SshPort) => proxy.stock = "ssh"
<1>1. /\ First.name \in Streams(op.plan) /\ PortOf(First) = op.plan[First.name].port
      /\ Compatible(op.plan) /\ Steady /\ First.block \in UnitBlocks
  BY RelocateFacts
<1>2. PortOf(First) = SshPort /\ SshPort \in Port /\ AdminOK
  BY FirstReady DEF Nameless
<1>3. SshPort \in StreamPorts(op.plan)
  BY <1>1, <1>2 DEF StreamPorts
<1>4. SshPort \notin proxy.live
  BY <1>2 DEF Active, Sound
<1>5. proxy.saved = "none"
  BY <1>1, <1>4 DEF Steady
<1>6. proxy.admin = proxy.stock
  BY <1>2, <1>5 DEF AdminOK, AdminRestorable
<1>7. proxy.live \in SUBSET Port /\ proxy \in ProxyType
  BY WorldFacts
<1>8. proxy.stock \in {"ssh", "stopped"}
  BY <1>7 DEF ProxyType
<1>9. Listening(SshPort) => proxy.stock = "ssh"
  BY <1>4, <1>6, PortsDiffer DEF Listening
<1>10. ASSUME proxy.stock = "ssh" PROVE Relocatable
  <2>1. AdminPort \notin StreamPorts(op.plan)
    BY <1>1, <1>3, <1>10 DEF Compatible
  <2>2. AdminPort \notin proxy.live
    BY <1>1, <1>7, <2>1, PortInPlan
  <2>3. ~Listening(AdminPort)
    BY <1>6, <1>10, <2>2, PortsDiffer DEF Listening
  <2> QED BY <1>4, <2>3 DEF Relocatable
<1> QED BY <1>4, <1>5, <1>6, <1>9, <1>10

\* The proxy's sshd is moved.
LEMMA RelocateList2 ==
  ASSUME Active, First.call = "relocate",
         NEW l, l = Part(<<"save-activity", "stop-admin", "start-private">>, "relocation")
  PROVE  /\ Fits(Setting, First, l) /\ Joins(Setting, l[Len(l)], Head(Tail(op.todo)))
         /\ \A x \in ToSet(l) : x.call \notin HostVerbs /\ x.call # "unforward"
         /\ Head(l) = Item("save-activity", "relocation")
<1>1. First \in CallRecord /\ First \in Menu(Setting)
  BY FirstInMenu
<1> DEFINE calls == <<"save-activity", "stop-admin", "start-private">>
<1>2. calls \in Seq(Verb) /\ Len(calls) = 3 /\ calls # <<>> /\ "relocation" \in Block
  BY DEF Verb, SshCalls, Block
<1>3. /\ l \in Seq(CallRecord) /\ Len(l) = Len(calls)
      /\ \A i \in 1..Len(calls) : l[i] = Item(calls[i], "relocation")
      /\ ToSet(l) = {Item(calls[i], "relocation") : i \in 1..Len(calls)}
      /\ l # <<>> /\ Head(l) = Item(calls[1], "relocation")
  <2> HIDE DEF calls
  <2>1. l = Part(calls, "relocation")
    BY DEF calls
  <2>2. /\ l \in Seq(CallRecord) /\ Len(l) = Len(calls)
        /\ \A i \in 1..Len(calls) : l[i] = Item(calls[i], "relocation")
    BY <1>2, <2>1, Parts
  <2>3. ToSet(l) = {Item(calls[i], "relocation") : i \in 1..Len(calls)}
    BY <1>2, <2>1, Parts
  <2>4. l # <<>> /\ Head(l) = Item(calls[1], "relocation")
    BY <1>2, <2>1, Parts
  <2> QED BY <2>2, <2>3, <2>4
<1>4. /\ Len(l) = 3 /\ l[1] = Item("save-activity", "relocation") /\ l[2] = Item("stop-admin", "relocation")
      /\ l[3] = Item("start-private", "relocation")
  BY <1>2, <1>3
<1>5. \A x \in ToSet(l) : /\ x \in CallRecord /\ x.call \in RelocationCalls
                          /\ x.name = First.name /\ x.to = First.to /\ x.block = "relocation"
  <2>1. \A x \in ToSet(l) : x \in CallRecord
    BY <1>3, ListMembers
  <2>2. \A x \in ToSet(l) : \E i \in 1..3 : x = Item(calls[i], "relocation")
    BY <1>2, <1>3
  <2>3. \A i \in 1..3 : calls[i] \in RelocationCalls
    BY DEF RelocationCalls
  <2> HIDE DEF calls
  <2> QED BY <2>1, <2>2, <2>3, Items
<1>6. UnitCall(Setting, First) /\ First.block \in UnitBlocks
  BY RelocateFacts
<1>7. \A x \in ToSet(l) : x \in Menu(Setting)
  <2> SUFFICES ASSUME NEW x \in ToSet(l) PROVE x \in Menu(Setting)
    OBVIOUS
  <2>1. UnitCall(Setting, x)
    BY <1>5, <1>6 DEF UnitCall, UnitVerbs, RelocationCalls, UnitBlocks
  <2>2. x.call \notin {"save", "delete-record", "check-host"} \cup StreamVerbs \cup WebVerbs
    BY <1>5 DEF RelocationCalls, StreamVerbs, WebVerbs
  <2>3. Setting.cmd.do \in {"remove", "publish"} => x.name = Setting.cmd.name /\ x.to = Setting.domain
    BY <1>1, <1>5 DEF Menu
  <2>4. Setting.cmd.do \notin {"activate", "replace"}
    BY <1>6 DEF UnitCall, Everything
  <2> QED BY <1>5, <2>1, <2>2, <2>3, <2>4 DEF Menu
<1>8. Joins(Setting, l[1], l[2]) /\ Joins(Setting, l[2], l[3])
  BY <1>4, Items DEF Joins, NextInUnit, NextOnHost, LedBy, Leading, Forwards, UnitBlocks, Writing, Cleaning
<1>9. Fits(Setting, First, l)
  <2>1. Len(l) - 1 = 2
    BY <1>4
  <2>2. 1..(Len(l) - 1) = 1..2
    BY <2>1
  <2>0. \A i \in 1..2 : i = 1 \/ i = 2
    OBVIOUS
  <2>3. \A i \in 1..(Len(l) - 1) : i = 1 \/ i = 2
    BY <2>0, <2>2
  <2>4. \A i \in 1..(Len(l) - 1) : Joins(Setting, l[i], l[i + 1])
    BY <1>8, <2>3
  <2>5. ~Early(First)
    BY DEF Early, Checking
  <2>6. \A x \in ToSet(l) : /\ x.call # "start-gateway" /\ x.block # "withdraw" /\ x.call \notin BeforeNet
                            /\ ~Early(x) /\ x.call # "enable-host"
    BY <1>5 DEF RelocationCalls, BeforeNet, Checking, KeyCalls, Closing, Writing, Early
  <2>7. First.call \notin BeforeNet /\ First.block # "withdraw"
    BY <1>6 DEF BeforeNet, Checking, KeyCalls, Closing, Writing, UnitBlocks
  <2> QED BY <1>3, <1>7, <2>4, <2>5, <2>6, <2>7 DEF Fits
<1>10. Joins(Setting, l[3], Head(Tail(op.todo)))
  <2>1. /\ Head(Tail(op.todo)).name = First.name /\ Head(Tail(op.todo)).to = First.to
        /\ Forwards(Head(Tail(op.todo)))
    BY RelocateFacts
  <2>2. PICK s : s = l[3]
    OBVIOUS
  <2>3. PICK t : t = Head(Tail(op.todo))
    OBVIOUS
  <2>4. s.call = "start-private" /\ s.name = First.name /\ s.to = First.to
    BY <1>4, <2>2, Items
  <2>5. t.name = s.name /\ t.to = s.to /\ Forwards(t)
    BY <2>1, <2>3, <2>4
  <2>6. t.call = "close-gateway" /\ t.block = "forward"
    BY <2>5 DEF Forwards
  <2>7. NextInUnit(Setting, s, t)
    BY <2>4, <2>5 DEF NextInUnit, Forwards
  <2>8. NextOnHost(Setting, s, t) /\ LedBy(s, t)
    BY <2>4, <2>6 DEF NextOnHost, LedBy, Leading
  <2>9. Joins(Setting, s, t)
    BY <2>4, <2>5, <2>7, <2>8 DEF Joins
  <2> QED BY <2>2, <2>3, <2>9
<1>11. \A x \in ToSet(l) : x.call \notin HostVerbs /\ x.call # "unforward"
  BY <1>5 DEF RelocationCalls, HostVerbs, KeyCalls, Writing, Closing, Cleaning
<1>12. Head(l) = Item("save-activity", "relocation")
  BY <1>3
<1> QED BY <1>4, <1>9, <1>10, <1>11, <1>12

LEMMA RelocateGoesWell ==
  ASSUME Active, Relocate
  PROVE  GoesWell'
<1> DEFINE fresh == IsSsh(First) /\ proxy.record[SshPort] = Free
           clear == proxy.saved = "none" /\ ~Listening(SshPort)
<1>1. First.call = "relocate" /\ UNCHANGED <<adapters, files>> /\ UNCHANGED <<inventory, domain>>
  BY DEF Relocate, On, files
<1>2. op \in OpType /\ Sound
  BY DEF Active, IInv, CommandOK
<1>3. fresh /\ ~clear => Relocatable /\ proxy.stock = "ssh" /\ SshPort \notin proxy.live
  BY <1>1, MakesRoom
<1>4. op' = [op EXCEPT !.fresh = fresh,
                       !.todo = (IF fresh /\ ~clear THEN Part(<<"save-activity", "stop-admin", "start-private">>, "relocation")
                                 ELSE <<>>) \o Tail(@)]
  BY <1>3 DEF Relocate
<1>5. Same /\ op'.todo = (IF fresh /\ ~clear THEN Part(<<"save-activity", "stop-admin", "start-private">>, "relocation")
                          ELSE <<>>) \o Tail(op.todo)
  BY <1>1, <1>2, <1>4 DEF Same, OpType
<1>6. Steady /\ Tail(op.todo) # <<>> /\ First.block \in UnitBlocks
  BY <1>1, RelocateFacts
<1>7. Steady'
  BY <1>1, <1>6 DEF Steady, adapters
<1>8. CASE fresh /\ ~clear
  <2>1. PICK l : l = Part(<<"save-activity", "stop-admin", "start-private">>, "relocation")
    OBVIOUS
  <2>2. op'.todo = l \o Tail(op.todo)
    BY <1>5, <1>8, <2>1
  <2>3. /\ Fits(Setting, First, l) /\ Joins(Setting, l[Len(l)], Head(Tail(op.todo)))
        /\ \A x \in ToSet(l) : x.call \notin HostVerbs /\ x.call # "unforward"
        /\ Head(l) = Item("save-activity", "relocation")
    BY <1>1, <2>1, RelocateList2
  <2>4. /\ Head(l).name = First.name /\ Head(l).block = "relocation" /\ Head(l).call = "save-activity"
    BY <2>3, Items
  <2>5. NetReady'
    BY <1>1, <1>5, <2>2, <2>3, <2>4, InsertNet DEF UnitBlocks, UnitVerbs, RelocationCalls
  <2>6. PICK t : t = Head(l)
    OBVIOUS
  <2>7. UnitReady(t)'
    BY <1>1, <1>3, <1>7, <1>8, <2>4, <2>6 DEF UnitReady, Forwards, adapters
  <2>8. UnitReady(Head(l))'
    BY <2>6, <2>7
  <2> QED BY <1>1, <1>5, <2>2, <2>3, <2>5, <2>8, InsertGoes
<1>9. CASE ~(fresh /\ ~clear)
  <2>1. op'.todo = Tail(op.todo)
    <3>1. Tail(op.todo) \in Seq(CallRecord)
      BY <1>2, <1>6 DEF OpType, Active
    <3>2. op'.todo = <<>> \o Tail(op.todo)
      BY <1>5, <1>9
    <3> QED BY <3>1, <3>2
  <2>2. PICK t \in CallRecord : Passes(t)
    BY <1>5, <1>6, <2>1, CalmTail
  <2>3. t = Head(Tail(op.todo)) /\ Advances(t)
    BY <2>1, <2>2 DEF Passes, Advances
  <2>4. t.name = First.name /\ t.to = First.to /\ Forwards(t)
    BY <1>1, <2>3, RelocateFacts
  <2>5. First.call \in Compound /\ First.call \notin HostVerbs
    BY <1>1 DEF Compound, HostVerbs, KeyCalls, Writing, Closing, Cleaning
  <2>6. Sound'
    BY <1>1, <1>2, <1>5, SoundSame DEF Same, Sound, adapters
  <2>7. PlanReady'
    BY <1>1, <2>3, <2>5, PlanKept DEF adapters
  <2>8. HostReady(t)'
    BY <1>1, <2>2, <2>3, <2>5, HostSame DEF adapters
  <2>9. KeysReady'
    BY <1>1, <1>5, <2>1, KeysKept DEF adapters
  <2>10. NetReady'
    <3>1. \A x \in ToSet(op'.todo) \ ToSet(op.todo) : x.call # "unforward"
      BY <2>1, FirstInMenu
    <3>2. t.block \in UnitBlocks /\ t.call \in UnitVerbs
      BY <2>4 DEF Forwards, UnitBlocks, UnitVerbs
    <3> QED BY <1>1, <2>3, <2>4, <2>5, <3>1, <3>2, NetSame DEF PortsSame, adapters
  <2>11. UnitReady(t)'
    <3>1. IsSsh(t)' = IsSsh(First)
      BY <2>2, <2>4, SameSubject
    <3>2. ASSUME IsSsh(First) PROVE proxy.admin # "ssh" /\ (proxy.saved = "none" \/ proxy.admin = "private")
      <4>1. CASE proxy.record[SshPort] = Free
        <5>1. clear
          BY <1>9, <3>2, <4>1
        <5> QED BY <5>1 DEF Listening
      <4>2. CASE proxy.record[SshPort] # Free
        <5>1. AdminOK /\ SshPort \in Port
          BY <1>1, <3>2, FirstReady DEF Nameless
        <5>2. SshPort \in proxy.live
          BY <1>2, <4>2, <5>1 DEF Sound
        <5> QED BY <1>6, <5>1, <5>2 DEF AdminOK, Steady
      <4> QED BY <4>1, <4>2
    <3> QED BY <1>1, <1>7, <2>3, <2>4, <3>1, <3>2, UnitForwards DEF adapters
  <2> QED BY <2>3, <2>6, <2>7, <2>8, <2>9, <2>10, <2>11, OnTheWay
<1> QED BY <1>8, <1>9

\* What a forwarding that is taken away consists of.
Takes(calls, mine) ==
  /\ calls \in Seq(Verb) /\ Len(calls) \in 1..3 /\ calls[1] = "close-gateway"
  /\ \A i \in 2..Len(calls) : calls[i] \in {"remove-forwarding", "restore"}
  /\ \A i \in 1..Len(calls) : calls[i] = "restore" => i = Len(calls)
  /\ mine => 2 <= Len(calls) /\ calls[2] = "remove-forwarding"
  /\ ~mine /\ 2 <= Len(calls) => calls[2] = "restore"
  /\ IsSsh(First) <=> calls[Len(calls)] = "restore"
  /\ \A i \in 1..(Len(calls) - 1) : calls[i] = "remove-forwarding" => calls[i + 1] = "restore"

LEMMA Tuples ==
  ASSUME NEW S, NEW a \in S, NEW b \in S, NEW c \in S
  PROVE  /\ <<a>> \in Seq(S) /\ Len(<<a>>) = 1 /\ <<a>>[1] = a
         /\ <<a, b>> \in Seq(S) /\ Len(<<a, b>>) = 2 /\ <<a, b>>[1] = a /\ <<a, b>>[2] = b
         /\ <<a, b, c>> \in Seq(S) /\ Len(<<a, b, c>>) = 3
         /\ <<a, b, c>>[1] = a /\ <<a, b, c>>[2] = b /\ <<a, b, c>>[3] = c
OBVIOUS

LEMMA TakenForms ==
  ASSUME NEW mine \in BOOLEAN, NEW calls, NEW a \in Verb, NEW b \in Verb, NEW c \in Verb,
         a = "close-gateway", b = "remove-forwarding", c = "restore",
         \/ ~mine /\ ~IsSsh(First) /\ calls = <<a>>
         \/ mine /\ ~IsSsh(First) /\ calls = <<a, b>>
         \/ ~mine /\ IsSsh(First) /\ calls = <<a, c>>
         \/ mine /\ IsSsh(First) /\ calls = <<a, b, c>>
  PROVE  Takes(calls, mine)
<1>1. CASE ~mine /\ ~IsSsh(First) /\ calls = <<a>>
  <2>1. calls \in Seq(Verb) /\ Len(calls) = 1 /\ calls[1] = a
    BY <1>1, Tuples
  <2>2. \A i \in 1..Len(calls) : i = 1
    BY <2>1
  <2>3. 1 \in 1..3 /\ (2 <= Len(calls)) = (1 # 1) /\ \A i \in 2..Len(calls) : i \in 1..Len(calls) /\ i # 1
    BY <2>1
  <2>4. \A i \in 1..(Len(calls) - 1) : i \in 1..Len(calls) /\ i # Len(calls) /\ (i = 2 => i + 1 = 3)
    BY <2>1
  <2> QED BY <1>1, <2>1, <2>2, <2>3, <2>4 DEF Takes
<1>2. CASE mine /\ ~IsSsh(First) /\ calls = <<a, b>>
  <2>1. calls \in Seq(Verb) /\ Len(calls) = 2 /\ calls[1] = a /\ calls[2] = b
    BY <1>2, Tuples
  <2>2. \A i \in 1..Len(calls) : i = 1 \/ i = 2
    BY <2>1
  <2>3. 2 \in 1..3 /\ (2 <= Len(calls)) = (2 # 1) /\ \A i \in 2..Len(calls) : i \in 1..Len(calls) /\ i # 1
    BY <2>1
  <2>4. \A i \in 1..(Len(calls) - 1) : i \in 1..Len(calls) /\ i # Len(calls) /\ (i = 2 => i + 1 = 3)
    BY <2>1
  <2> QED BY <1>2, <2>1, <2>2, <2>3, <2>4 DEF Takes
<1>3. CASE ~mine /\ IsSsh(First) /\ calls = <<a, c>>
  <2>1. calls \in Seq(Verb) /\ Len(calls) = 2 /\ calls[1] = a /\ calls[2] = c
    BY <1>3, Tuples
  <2>2. \A i \in 1..Len(calls) : i = 1 \/ i = 2
    BY <2>1
  <2>3. 2 \in 1..3 /\ (2 <= Len(calls)) = (2 # 1) /\ \A i \in 2..Len(calls) : i \in 1..Len(calls) /\ i # 1
    BY <2>1
  <2>4. \A i \in 1..(Len(calls) - 1) : i \in 1..Len(calls) /\ i # Len(calls) /\ (i = 2 => i + 1 = 3)
    BY <2>1
  <2> QED BY <1>3, <2>1, <2>2, <2>3, <2>4 DEF Takes
<1>4. CASE mine /\ IsSsh(First) /\ calls = <<a, b, c>>
  <2>1. calls \in Seq(Verb) /\ Len(calls) = 3 /\ calls[1] = a /\ calls[2] = b /\ calls[3] = c
    BY <1>4, Tuples
  <2>2. \A i \in 1..Len(calls) : i = 1 \/ i = 2 \/ i = 3
    BY <2>1
  <2>3. 3 \in 1..3 /\ (2 <= Len(calls)) = (3 # 1) /\ \A i \in 2..Len(calls) : i \in 1..Len(calls) /\ i # 1
    BY <2>1
  <2>4. \A i \in 1..(Len(calls) - 1) : i \in 1..Len(calls) /\ i # Len(calls) /\ (i = 2 => i + 1 = 3)
    BY <2>1
  <2> QED BY <1>4, <2>1, <2>2, <2>3, <2>4 DEF Takes
<1> QED BY <1>1, <1>2, <1>3, <1>4

LEMMA TakenCalls ==
  ASSUME NEW mine \in BOOLEAN,
         NEW calls, calls = <<"close-gateway">> \o (IF mine THEN <<"remove-forwarding">> ELSE <<>>)
                              \o (IF IsSsh(First) THEN <<"restore">> ELSE <<>>)
  PROVE  Takes(calls, mine)
<1>1. PICK a \in Verb, b \in Verb, c \in Verb : a = "close-gateway" /\ b = "remove-forwarding" /\ c = "restore"
  BY DEF Verb, SshCalls
<1>2. <<a>> \o <<b>> = <<a, b>> /\ <<a>> \o <<c>> = <<a, c>> /\ <<a, b>> \o <<c>> = <<a, b, c>>
  BY PairConcat, TripleConcat
<1>3. <<a>> \o <<>> = <<a>> /\ <<a, b>> \o <<>> = <<a, b>>
  OBVIOUS
<1>4. \/ ~mine /\ ~IsSsh(First) /\ calls = <<a>>
      \/ mine /\ ~IsSsh(First) /\ calls = <<a, b>>
      \/ ~mine /\ IsSsh(First) /\ calls = <<a, c>>
      \/ mine /\ IsSsh(First) /\ calls = <<a, b, c>>
  BY <1>1, <1>2, <1>3
<1> QED BY <1>1, <1>4, TakenForms

LEMMA UnforwardFacts ==
  ASSUME Active, First.call = "unforward"
  PROVE  /\ First.block \in Block /\ First.block \notin UnitBlocks /\ op.cmd.do # "publish" /\ Steady
         /\ First \in CallRecord /\ SshIn(Setting, First) = IsSsh(First)
         /\ PortOf(First) \in Port /\ HostOf(First) \in Hostname /\ IsSsh(First) = (PortOf(First) = SshPort)
         /\ proxy.record[PortOf(First)] \in {Free, HostOf(First)}
<1>1. First \in Menu(Setting) /\ First \in CallRecord /\ First \in ToSet(op.todo)
  BY FirstInMenu
<1>2. Withdraws(Setting, First)
  BY <1>1, MenuFacts DEF WithdrawVerbs
<1>3. First.block \in {"withdraw", "plain"} /\ op.cmd.do # "publish"
  BY <1>2 DEF Withdraws, WithdrawCall, Setting
<1>4. Steady
  BY SteadyNow DEF Restoring, Forwards
<1>5. PortOf(First) \in Port /\ HostOf(First) \in Hostname /\ IsSsh(First) = (PortOf(First) = SshPort)
  BY FirstReady DEF Nameless
<1>6. proxy.record[PortOf(First)] \in {Free, HostOf(First)}
  BY <1>1 DEF Active, UnderWay, NetReady
<1>7. First.block \in Block
  BY <1>1 DEF CallRecord
<1> QED BY <1>1, <1>3, <1>4, <1>5, <1>6, <1>7, SettingFacts DEF UnitBlocks

LEMMA UnforwardList2 ==
  ASSUME Active, First.call = "unforward", NEW mine \in BOOLEAN, NEW calls, Takes(calls, mine),
         NEW l, l = Part(calls, First.block)
  PROVE  /\ Fits(Setting, First, l) /\ Joins(Setting, l[Len(l)], Head(Tail(op.todo)))
         /\ \A x \in ToSet(l) : x.call \notin HostVerbs /\ x.call # "unforward"
         /\ l # <<>> /\ Head(l) = Item("close-gateway", First.block) /\ Len(l) = Len(calls) /\ Len(l) \in 1..3
         /\ \A i \in 1..Len(calls) : l[i] = Item(calls[i], First.block) /\ l[i] \in ToSet(l)
<1>1. /\ First.block \in Block /\ First.block \notin UnitBlocks /\ First \in CallRecord
      /\ op.cmd.do # "publish" /\ SshIn(Setting, First) = IsSsh(First)
  BY UnforwardFacts
<1>2. /\ calls \in Seq(Verb) /\ Len(calls) \in 1..3 /\ calls # <<>> /\ calls[1] = "close-gateway"
      /\ \A i \in 1..Len(calls) : calls[i] \in {"close-gateway", "remove-forwarding", "restore"}
      /\ \A i \in 1..Len(calls) : i # 1 => calls[i] \in {"remove-forwarding", "restore"}
  BY DEF Takes
<1>3. /\ l \in Seq(CallRecord) /\ Len(l) = Len(calls)
      /\ \A i \in 1..Len(calls) : l[i] = Item(calls[i], First.block)
      /\ l # <<>> /\ Head(l) = Item(calls[1], First.block)
  BY <1>1, <1>2, Parts
<1>4. ToSet(l) = {Item(calls[i], First.block) : i \in 1..Len(calls)}
  BY <1>1, <1>2, Parts
<1>5. \A x \in ToSet(l) : /\ x \in CallRecord /\ x.call \in {"close-gateway", "remove-forwarding", "restore"}
                          /\ x.name = First.name /\ x.to = First.to /\ x.block = First.block
  <2>1. \A x \in ToSet(l) : x \in CallRecord
    BY <1>3, ListMembers
  <2> QED BY <1>2, <1>4, <2>1, Items
<1>6. \A x \in ToSet(l) : x \in Menu(Setting) /\ x.call # "start-gateway" /\ x.call \notin HostVerbs
  BY <1>5, WithdrawItem DEF Withdrawing, Restoring
<1>7. \A i \in 1..(Len(l) - 1) : Joins(Setting, l[i], l[i + 1])
  <2> SUFFICES ASSUME NEW i \in 1..(Len(l) - 1) PROVE Joins(Setting, l[i], l[i + 1])
    OBVIOUS
  <2>1. i \in 1..Len(calls) /\ i + 1 \in 1..Len(calls) /\ i + 1 # 1 /\ i # Len(calls)
    BY <1>2, <1>3
  <2>2. PICK s : s = l[i]
    OBVIOUS
  <2>3. PICK t : t = l[i + 1]
    OBVIOUS
  <2>4. s = Item(calls[i], First.block) /\ t = Item(calls[i + 1], First.block)
    BY <1>3, <2>1, <2>2, <2>3
  <2>5. /\ s.call = calls[i] /\ t.call = calls[i + 1] /\ s.name = t.name /\ s.to = t.to
        /\ s.block = First.block /\ t.block = First.block
    BY <2>4, Items
  <2>6. /\ s.call \in {"close-gateway", "remove-forwarding"} /\ t.call \in {"remove-forwarding", "restore"}
        /\ s.call = "remove-forwarding" => t.call = "restore"
    BY <1>2, <1>3, <2>1, <2>5 DEF Takes
  <2>7. NextInUnit(Setting, s, t)
    BY <1>1, <2>5, <2>6 DEF NextInUnit, Forwards, UnitBlocks
  <2>8. NextOnHost(Setting, s, t) /\ LedBy(s, t)
    BY <2>6 DEF NextOnHost, LedBy, Leading
  <2> QED BY <2>2, <2>3, <2>5, <2>7, <2>8 DEF Joins
<1>8. Fits(Setting, First, l)
  <2>1. ~Early(First)
    BY DEF Early, Checking
  <2>2. Setting.cmd.do # "publish"
    BY <1>1, SettingFacts
  <2> QED BY <1>3, <1>5, <1>6, <1>7, <2>1, <2>2 DEF Fits
<1>9. Joins(Setting, l[Len(l)], Head(Tail(op.todo)))
  <2>1. PICK s : s = l[Len(l)]
    OBVIOUS
  <2>2. Len(calls) \in 1..Len(calls)
    BY <1>2
  <2>3. s = Item(calls[Len(calls)], First.block)
    BY <1>3, <2>1, <2>2
  <2>4. s.call = calls[Len(calls)] /\ s.block = First.block /\ SshIn(Setting, s) = IsSsh(First)
    BY <1>1, <2>3, Items
  <2>5. s.call \in {"close-gateway", "remove-forwarding", "restore"} /\ (IsSsh(First) <=> s.call = "restore")
    BY <1>2, <2>2, <2>4 DEF Takes
  <2>6. ~Leads(Setting, s)
    BY <1>1, <2>4, <2>5 DEF Leads, Writing, Cleaning, Forwards, UnitBlocks
  <2>7. LedBy(First, Head(Tail(op.todo)))
    BY NotLast DEF Joins
  <2>8. LedBy(s, Head(Tail(op.todo)))
    BY <2>7, AfterRemoval
  <2> QED BY <2>1, <2>6, <2>8 DEF Joins
<1>10. \A i \in 1..Len(calls) : l[i] \in ToSet(l)
  BY <1>3, ListMembers
<1>11. \A x \in ToSet(l) : x.call # "unforward"
  BY <1>5
<1> QED BY <1>2, <1>3, <1>6, <1>8, <1>9, <1>10, <1>11

\* A forwarding that is to be taken away still is.
LEMMA UnforwardNet ==
  ASSUME Active, First.call = "unforward", NEW mine \in BOOLEAN, NEW calls, Takes(calls, mine),
         mine = (proxy.record[PortOf(First)] = HostOf(First)),
         NEW l, l = Part(calls, First.block), op'.todo = l \o Tail(op.todo), Same, UNCHANGED adapters
  PROVE  NetReady'
<1>1. PICK t : t = Head(l)
  OBVIOUS
<1>2. /\ Fits(Setting, First, l) /\ Joins(Setting, l[Len(l)], Head(Tail(op.todo))) /\ Tail(op.todo) # <<>>
      /\ \A x \in ToSet(l) : x.call # "unforward"
      /\ \A i \in 1..Len(calls) : l[i] = Item(calls[i], First.block) /\ l[i] \in ToSet(l)
  <2>1. Tail(op.todo) # <<>>
    BY NotLast
  <2>2. Fits(Setting, First, l) /\ Joins(Setting, l[Len(l)], Head(Tail(op.todo)))
    BY UnforwardList2
  <2>3. \A x \in ToSet(l) : x.call # "unforward"
    BY UnforwardList2
  <2>4. \A i \in 1..Len(calls) : l[i] = Item(calls[i], First.block) /\ l[i] \in ToSet(l)
    <3>1. calls \in Seq(Verb) /\ First.block \in Block
      BY UnforwardFacts DEF Takes
    <3>2. /\ l \in Seq(CallRecord) /\ Len(l) = Len(calls)
          /\ \A i \in 1..Len(calls) : l[i] = Item(calls[i], First.block)
      BY <3>1, Parts
    <3> QED BY <3>2, ListMembers
  <2> QED BY <2>1, <2>2, <2>3, <2>4
<1>3. Advances(t) /\ ToSet(op'.todo) = ToSet(l) \cup ToSet(Tail(op.todo))
  BY <1>1, <1>2, CalmInsert
<1>4. ToSet(op.todo) = {First} \cup ToSet(Tail(op.todo)) /\ ToSet(Tail(op.todo)) \subseteq ToSet(op'.todo)
  BY <1>3, FirstInMenu
<1>5. NetReady /\ PortsSame /\ UNCHANGED <<dns, routes, gateway>>
  BY DEF Active, UnderWay, adapters, PortsSame
<1>6. Setting' = Setting /\ op'.plan = op.plan /\ inventory' = inventory
  BY SameFacts DEF Same
<1>7. \A x : PortOf(x)' = PortOf(x) /\ HostOf(x)' = HostOf(x)
  BY SameFacts
<1>8. \A x, d : ServedAt(x, d) => ServedAt(x, d)'
  BY <1>5 DEF ServedAt, Forwarded, GatewayOK, PortsSame
<1>9. \A m \in Of(op.plan) : ServedAt(op.plan[m], Target) => ServedAt(op.plan[m], Target)'
  BY <1>6, <1>8 DEF Target
<1>10. \A p \in Port : OwnedIn(op.plan, Target, p) => OwnedIn(op.plan, Target, p)'
  BY <1>5, <1>6 DEF OwnedIn, Forwarded, PortsSame, Streams, Of, Target
<1>11. ASSUME NEW p \in Port PROVE \/ proxy'.record[p] = Free \/ OwnedIn(op.plan, Target, p)'
                                   \/ \E x \in ToSet(op'.todo) : Removes(x, p)'
  <2>1. proxy.record[p] = Free \/ OwnedIn(op.plan, Target, p) \/ \E x \in ToSet(op.todo) : Removes(x, p)
    BY <1>5 DEF NetReady, Target
  <2>2. CASE \E x \in ToSet(Tail(op.todo)) : Removes(x, p)
    <3>1. PICK x \in ToSet(Tail(op.todo)) : Removes(x, p)
      BY <2>2
    <3>2. x \in ToSet(op'.todo) /\ Removes(x, p)'
      BY <1>4, <1>7, <3>1 DEF Removes
    <3> QED BY <3>2
  <2>3. CASE Removes(First, p) /\ proxy.record[p] # Free
    <3>1. PortOf(First) = p
      BY <2>3 DEF Removes
    <3>2. mine
      BY <2>3, <3>1, UnforwardFacts
    <3>3. 2 \in 1..Len(calls) /\ calls[2] = "remove-forwarding"
      BY <3>2 DEF Takes
    <3>4. PICK y : y = l[2]
      OBVIOUS
    <3>5. y = Item("remove-forwarding", First.block) /\ y \in ToSet(op'.todo)
      BY <1>2, <1>3, <3>3, <3>4
    <3>6. y.call = "remove-forwarding" /\ y.name = First.name
      BY <3>5, Items
    <3>7. PortOf(y)' = p
      <4>1. PortOf(y) = p
        BY <3>1, <3>6 DEF PortOf, Subject
      <4> QED BY <1>7, <4>1
    <3> QED BY <3>5, <3>6, <3>7 DEF Removes
  <2> QED BY <1>4, <1>5, <1>10, <2>1, <2>2, <2>3 DEF PortsSame
<1>12. ASSUME NEW x \in ToSet(op'.todo), x.call = "unforward"
       PROVE proxy'.record[PortOf(x)'] \in {Free, HostOf(x)'}
  <2>1. x \in ToSet(op.todo)
    BY <1>2, <1>3, <1>4, <1>12
  <2> QED BY <1>5, <1>7, <1>12, <2>1 DEF NetReady, PortsSame
<1> QED BY <1>3, <1>5, <1>9, <1>11, <1>12, NetStep DEF Compound

\* A forwarding that is taken away is this exposure's, or is not there.
LEMMA UnforwardShape ==
  ASSUME Active, Unforward
  PROVE  \E mine \in BOOLEAN : \E calls :
           /\ mine = (proxy.record[PortOf(First)] = HostOf(First)) /\ Takes(calls, mine)
           /\ Instead(Part(calls, First.block))
<1>1. First.call = "unforward"
  BY DEF Unforward, On
<1>2. /\ PortOf(First) \in Port /\ HostOf(First) \in Hostname
      /\ proxy.record[PortOf(First)] \in {Free, HostOf(First)}
  BY <1>1, UnforwardFacts
<1>3. proxy.record = proxy.unit /\ (PortOf(First) \in proxy.live) = (proxy.record[PortOf(First)] # Free)
  BY <1>2 DEF Active, Sound
<1>4. PICK mine \in BOOLEAN : mine = (proxy.record[PortOf(First)] = HostOf(First))
  OBVIOUS
<1>5. PICK calls : calls = <<"close-gateway">> \o (IF mine THEN <<"remove-forwarding">> ELSE <<>>)
                             \o (IF IsSsh(First) THEN <<"restore">> ELSE <<>>)
  OBVIOUS
<1>6. mine = (proxy.record[PortOf(First)] = HostOf(First) /\ proxy.unit[PortOf(First)] = proxy.record[PortOf(First)])
  BY <1>3, <1>4
<1>7. mine \/ (proxy.record[PortOf(First)] = Free /\ AlreadyRemoved(PortOf(First)))
  BY <1>2, <1>3, <1>4 DEF AlreadyRemoved
<1>8. Instead(Part(calls, First.block))
  BY <1>5, <1>6, <1>7 DEF Unforward
<1> QED BY <1>4, <1>5, <1>8, TakenCalls

\* What the first of its calls finds.
LEMMA UnforwardUnit ==
  ASSUME Active, First.call = "unforward", NEW mine \in BOOLEAN, NEW calls, Takes(calls, mine),
         mine = (proxy.record[PortOf(First)] = HostOf(First)),
         NEW l, l = Part(calls, First.block), op'.todo = l \o Tail(op.todo), Same, UNCHANGED adapters,
         NEW t, t = Head(l)
  PROVE  UnitReady(t)'
<1>1. /\ First.block \notin UnitBlocks /\ Steady /\ IsSsh(First) = (PortOf(First) = SshPort)
      /\ PortOf(First) \in Port /\ HostOf(First) \in Hostname
      /\ proxy.record[PortOf(First)] \in {Free, HostOf(First)}
  BY UnforwardFacts
<1>2. /\ Head(l) = Item("close-gateway", First.block) /\ Len(l) = Len(calls) /\ Len(l) \in 1..3
      /\ \A i \in 1..Len(calls) : l[i] = Item(calls[i], First.block)
  <2>1. Head(l) = Item("close-gateway", First.block) /\ Len(l) = Len(calls) /\ Len(l) \in 1..3
    BY UnforwardList2
  <2>2. calls \in Seq(Verb) /\ First.block \in Block
    BY UnforwardFacts DEF Takes
  <2>3. \A i \in 1..Len(calls) : l[i] = Item(calls[i], First.block)
    BY <2>2, Parts
  <2> QED BY <2>1, <2>3
<1>3. t.call = "close-gateway" /\ t.block = First.block
  BY <1>2, Items
<1>4. l \in Seq(CallRecord) /\ Tail(op.todo) \in Seq(CallRecord) /\ Tail(op.todo) # <<>>
  <2>1. l \in Seq(CallRecord)
    BY UnforwardList2 DEF Fits
  <2>2. op.todo \in Seq(CallRecord) /\ op.todo # <<>>
    BY DEF Active, IInv, CommandOK, OpType
  <2> QED BY <2>1, <2>2, NotLast
<1>5. ASSUME op'.todo[2].call = "restore" PROVE SshPort \notin proxy.live
  <2>1. CASE Len(l) = 1
    <3>1. op'.todo[2] = Head(Tail(op.todo))
      <4>1. Len(Tail(op.todo)) \in Nat /\ Len(Tail(op.todo)) # 0 /\ Head(Tail(op.todo)) = Tail(op.todo)[1]
        <5>1. PICK T : T = Tail(op.todo)
          OBVIOUS
        <5>2. T \in Seq(CallRecord) /\ T # <<>>
          BY <1>4, <5>1
        <5>3. Len(T) \in Nat /\ Len(T) # 0 /\ Head(T) = T[1]
          BY <5>2, ListMembers
        <5> QED BY <5>1, <5>3
      <4>2. 2 \in 1..(Len(l) + Len(Tail(op.todo))) /\ ~(2 <= Len(l)) /\ 2 - Len(l) = 1
        BY <2>1, <4>1
      <4>3. (l \o Tail(op.todo))[2] = Tail(op.todo)[2 - Len(l)]
        BY <1>4, <4>2, ConcatProperties
      <4> QED BY <4>1, <4>2, <4>3
    <3>2. Follows(First, Head(Tail(op.todo)))
      BY NotLast
    <3> QED BY <1>5, <3>1, <3>2 DEF Follows, FollowsInAdmin
  <2>2. CASE Len(l) # 1
    <3>1. 2 \in 1..Len(l) /\ 2 \in 1..Len(calls) /\ 2 <= Len(calls)
      BY <1>2, <2>2
    <3>2. op'.todo[2] = l[2]
      BY <1>4, <3>1
    <3>3. calls[2] = "restore"
      <4>1. l[2] = Item(calls[2], First.block)
        BY <1>2, <3>1
      <4>2. l[2].call = "restore"
        BY <1>5, <3>2
      <4>3. Item(calls[2], First.block).call = calls[2]
        BY Items
      <4> QED BY <4>1, <4>2, <4>3
    <3>4. ~mine /\ IsSsh(First)
      BY <3>1, <3>3 DEF Takes
    <3>5. proxy.record[SshPort] = Free /\ SshPort \in Port
      BY <1>1, <3>4
    <3> QED BY <3>5 DEF Active, Sound
  <2> QED BY <2>1, <2>2
<1>6. Steady'
  BY <1>1 DEF Steady, adapters
<1>7. t.block # "relocation" /\ ~Forwards(t)
  BY <1>1, <1>3 DEF UnitBlocks, Forwards
<1> QED BY <1>3, <1>5, <1>6, <1>7 DEF UnitReady, adapters

LEMMA UnforwardGoesWell ==
  ASSUME Active, Unforward
  PROVE  GoesWell'
<1>1. First.call = "unforward" /\ UNCHANGED <<adapters, files>>
  BY DEF Unforward, On
<1>2. PICK mine \in BOOLEAN :
             \E calls : /\ mine = (proxy.record[PortOf(First)] = HostOf(First)) /\ Takes(calls, mine)
                        /\ Instead(Part(calls, First.block))
  BY UnforwardShape
<1>0. PICK calls : /\ mine = (proxy.record[PortOf(First)] = HostOf(First)) /\ Takes(calls, mine)
                   /\ Instead(Part(calls, First.block))
  BY <1>2
<1>3. PICK l : l = Part(calls, First.block)
  OBVIOUS
<1>4. Same /\ op'.todo = l \o Tail(op.todo)
  BY <1>1, <1>2, <1>0, <1>3, InsteadSame
<1>5. /\ Fits(Setting, First, l) /\ Joins(Setting, l[Len(l)], Head(Tail(op.todo)))
      /\ \A x \in ToSet(l) : x.call \notin HostVerbs
  BY <1>1, <1>2, <1>0, <1>3, UnforwardList2
<1>6. NetReady'
  BY <1>1, <1>2, <1>0, <1>3, <1>4, UnforwardNet
<1>7. PICK t : t = Head(l)
  OBVIOUS
<1>8. UnitReady(t)'
  BY <1>1, <1>2, <1>0, <1>3, <1>4, <1>7, UnforwardUnit
<1>9. UnitReady(Head(l))'
  BY <1>7, <1>8
<1> QED BY <1>1, <1>4, <1>5, <1>6, <1>9, InsertGoes

\* Calls that may come one after the other.
Chain(v, l) == /\ l \in Seq(CallRecord) /\ l # <<>>
               /\ \A i \in 1..(Len(l) - 1) : Joins(v, l[i], l[i + 1])

LEMMA ChainConcat ==
  ASSUME NEW v, NEW s, NEW t, Chain(v, s), Chain(v, t), Joins(v, s[Len(s)], t[1])
  PROVE  /\ Chain(v, s \o t) /\ Len(s \o t) = Len(s) + Len(t) /\ ToSet(s \o t) = ToSet(s) \cup ToSet(t)
         /\ (s \o t)[1] = s[1] /\ (s \o t)[Len(s \o t)] = t[Len(t)]
         /\ \A i \in 1..Len(s) : (s \o t)[i] = s[i]
         /\ \A i \in 1..Len(t) : (s \o t)[Len(s) + i] = t[i]
<1>1. s \in Seq(CallRecord) /\ t \in Seq(CallRecord) /\ s # <<>> /\ t # <<>>
  BY DEF Chain
<1>2. Len(s) \in Nat \ {0} /\ Len(t) \in Nat \ {0}
  BY <1>1, ListMembers
<1>3. /\ s \o t \in Seq(CallRecord) /\ Len(s \o t) = Len(s) + Len(t)
      /\ \A i \in 1..(Len(s) + Len(t)) : (s \o t)[i] = IF i <= Len(s) THEN s[i] ELSE t[i - Len(s)]
  BY <1>1, ConcatProperties
<1>4. \A i \in 1..Len(s) : (s \o t)[i] = s[i]
  BY <1>2, <1>3
<1>5. \A i \in 1..Len(t) : (s \o t)[Len(s) + i] = t[i]
  <2> SUFFICES ASSUME NEW i \in 1..Len(t) PROVE (s \o t)[Len(s) + i] = t[i]
    OBVIOUS
  <2>1. Len(s) + i \in 1..(Len(s) + Len(t)) /\ ~(Len(s) + i <= Len(s)) /\ (Len(s) + i) - Len(s) = i
    BY <1>2
  <2> QED BY <1>3, <2>1
<1>6. s \o t # <<>>
  BY <1>2, <1>3, ListMembers
<1>7. ToSet(s \o t) = ToSet(s) \cup ToSet(t)
  <2>1. Range(s \o t) = Range(s) \cup Range(t)
    BY <1>1, RangeConcatenation
  <2> QED BY <2>1 DEF ToSet, Range
<1>8. ASSUME NEW i \in 1..(Len(s \o t) - 1) PROVE Joins(v, (s \o t)[i], (s \o t)[i + 1])
  <2>1. CASE i < Len(s)
    <3>1. i \in 1..Len(s) /\ i + 1 \in 1..Len(s) /\ i \in 1..(Len(s) - 1)
      BY <1>2, <2>1
    <3>2. (s \o t)[i] = s[i] /\ (s \o t)[i + 1] = s[i + 1]
      BY <1>4, <3>1
    <3> QED BY <3>1, <3>2 DEF Chain
  <2>2. CASE i = Len(s)
    <3>1. i \in 1..Len(s) /\ 1 \in 1..Len(t)
      BY <1>2, <2>2
    <3>2. (s \o t)[i] = s[Len(s)] /\ (s \o t)[i + 1] = t[1]
      BY <1>4, <1>5, <2>2, <3>1
    <3> QED BY <3>2
  <2>3. CASE i > Len(s)
    <3>1. PICK j \in Nat : j = i - Len(s)
      BY <1>2, <2>3
    <3>2. j \in 1..(Len(t) - 1) /\ j \in 1..Len(t) /\ j + 1 \in 1..Len(t) /\ i = Len(s) + j /\ i + 1 = Len(s) + (j + 1)
      BY <1>2, <1>3, <2>3, <3>1
    <3>3. (s \o t)[i] = t[j]
      BY <1>5, <3>2
    <3>4. (s \o t)[i + 1] = t[j + 1]
      BY <1>5, <3>2
    <3> QED BY <3>2, <3>3, <3>4 DEF Chain
  <2> QED BY <1>2, <2>1, <2>2, <2>3
<1>9. (s \o t)[1] = s[1] /\ (s \o t)[Len(s \o t)] = t[Len(t)]
  BY <1>2, <1>3, <1>4, <1>5
<1> QED BY <1>3, <1>4, <1>5, <1>6, <1>7, <1>8, <1>9 DEF Chain

\* Calls about one exposure, one after the other.
LEMMA PartChain ==
  ASSUME Active, NEW calls \in Seq(Verb), calls # <<>>, NEW b \in Block, NEW l, l = Part(calls, b),
         \A i \in 1..(Len(calls) - 1) : Joins(Setting, Item(calls[i], b), Item(calls[i + 1], b))
  PROVE  /\ Chain(Setting, l) /\ Len(l) = Len(calls)
         /\ \A i \in 1..Len(calls) : l[i] = Item(calls[i], b)
         /\ \A x \in ToSet(l) : \E i \in 1..Len(calls) : x = Item(calls[i], b)
<1>1. /\ l \in Seq(CallRecord) /\ Len(l) = Len(calls) /\ l # <<>>
      /\ \A i \in 1..Len(calls) : l[i] = Item(calls[i], b)
  BY Parts
<1>2. ToSet(l) = {Item(calls[i], b) : i \in 1..Len(calls)}
  BY Parts
<1>3. Len(calls) \in Nat
  OBVIOUS
<1>4. \A i \in 1..(Len(l) - 1) : Joins(Setting, l[i], l[i + 1])
  BY <1>1, <1>3
<1>5. \A x \in ToSet(l) : \E i \in 1..Len(calls) : x = Item(calls[i], b)
  BY <1>2
<1> QED BY <1>1, <1>4, <1>5 DEF Chain

\* Calls to the host's daemon that come one after the other.
LEMMA HostJoins ==
  ASSUME Active, First.call \in {"enable-host", "replace-key"}, MakesKeys(Setting), NEW b \in {"plain", "host"}
  PROVE  /\ Joins(Setting, Item("make-directory", b), Item("write-record", b))
         /\ b = "plain" => Joins(Setting, Item("write-record", b), Item("write-config", b))
         /\ b = "plain" => Joins(Setting, Item("write-config", b), Item("write-unit", b))
         /\ Joins(Setting, Item("revoke-keys", b), Item("disable-record", b))
         /\ Joins(Setting, Item("disable-record", b), Item("terminate", b))
         /\ Joins(Setting, Item("terminate", b), Item("stop-daemon", b))
         /\ b = "host" => Joins(Setting, Item("write-config", b), Item("write-record", b))
         /\ Joins(Setting, Item("install-key", b), Item("authorize", b))
         /\ Joins(Setting, Item("authorize", b), Item("start-daemon", b))
         /\ Joins(Setting, Item("start-daemon", b), Item("enable-record", b))
         /\ Joins(Setting, Item("enable-record", b), Item("verify", b))
         /\ Joins(Setting, Item("write-unit", "plain"), Item("install-key", "host"))
         /\ Joins(Setting, Item("write-record", "host"), Item("install-key", "host"))
         /\ Joins(Setting, Item("stop-daemon", "plain"), Item("write-config", "host"))
         /\ Joins(Setting, Item("stop-daemon", "plain"), Item("install-key", "host"))
         /\ Joins(Setting, Item("stop-daemon", "plain"), Item("enable-host", "plain"))
<1> DEFINE Pair(c, x, d, y) ==
     /\ c = "make-directory" => d = "write-record" /\ x = y
     /\ c = "write-record" => x = y /\ d = IF x = "host" THEN "install-key" ELSE "write-config"
     /\ c = "write-config" => x = y /\ d = IF x = "host" THEN "write-record" ELSE "write-unit"
     /\ c = "revoke-keys" => d = "disable-record" /\ x = y
     /\ c = "disable-record" => d = "terminate" /\ x = y
     /\ c = "terminate" => d = "stop-daemon" /\ x = y
     /\ c = "install-key" => d = "authorize" /\ x = y
     /\ c = "authorize" => d = "start-daemon" /\ x = y
     /\ c = "start-daemon" => d = "enable-record" /\ x = y
     /\ c = "enable-record" => d = "verify" /\ x = y
     /\ c = "write-unit" => d = "install-key"
     /\ c = "stop-daemon" => d \in {"write-config", "install-key", "enable-host"}
<1>1. \A c \in {"make-directory", "write-record", "write-config", "write-unit", "revoke-keys", "disable-record",
                "terminate", "stop-daemon", "install-key", "authorize", "start-daemon", "enable-record"},
         d \in {"write-record", "write-config", "write-unit", "disable-record", "terminate", "stop-daemon",
                "install-key", "authorize", "start-daemon", "enable-record", "verify", "enable-host"} :
         \A x, y : Pair(c, x, d, y) => Joins(Setting, Item(c, x), Item(d, y))
  <2> SUFFICES ASSUME NEW c \in {"make-directory", "write-record", "write-config", "write-unit", "revoke-keys",
                                 "disable-record", "terminate", "stop-daemon", "install-key", "authorize",
                                 "start-daemon", "enable-record"},
                      NEW d \in {"write-record", "write-config", "write-unit", "disable-record", "terminate",
                                 "stop-daemon", "install-key", "authorize", "start-daemon", "enable-record", "verify",
                                 "enable-host"},
                      NEW x, NEW y, Pair(c, x, d, y)
               PROVE  Joins(Setting, Item(c, x), Item(d, y))
    OBVIOUS
  <2>1. PICK s, t : s = Item(c, x) /\ t = Item(d, y)
    OBVIOUS
  <2>2. /\ s.call = c /\ s.block = x /\ t.call = d /\ t.block = y /\ s.name = t.name /\ s.to = t.to
    BY <2>1, Items
  <2>3. x = y \/ c \in {"stop-daemon", "write-unit"}
    OBVIOUS
  <2>4. NextInUnit(Setting, s, t)
    BY <2>2 DEF NextInUnit, Forwards
  <2>5. NextOnHost(Setting, s, t)
    BY <2>2 DEF NextOnHost
  <2>6. LedBy(s, t)
    BY <2>2 DEF LedBy, Leading
  <2>7. Joins(Setting, s, t)
    BY <2>2, <2>3, <2>4, <2>5, <2>6 DEF Joins
  <2> QED BY <2>1, <2>7
<1> QED BY <1>1
=============================================================================
