------------------------ MODULE ProjectLockProofs ------------------------
(***************************************************************************)
(* Safety of the project lock for every set of processes and tokens, under *)
(* the timing assumption PromptRecovery: see README, "What is proved".     *)
(***************************************************************************)
EXTENDS ProjectLock, TLAPS

USE DEF PC, Acquiring, Recovering, Releasing

LEMMA InitIInv == Init => IInv
<1>1. SUFFICES ASSUME Init PROVE IInv
  OBVIOUS
<1>2. TypeOK
  BY <1>1, SentinelsDistinct DEF Init, TypeOK
<1>3. InsideInv /\ MutualExclusion /\ GuardInv /\ RecoveryInv
  BY <1>1 DEF Init, InsideInv, MutualExclusion, GuardInv, RecoveryInv, Inside, InRecovery
<1>4. TokenInv
  BY <1>1 DEF Init, TokenInv
<1>. QED
  BY <1>1, <1>2, <1>3, <1>4 DEF Init, IInv

-----------------------------------------------------------------------------
(* Each group of actions preserves the invariant. *)

LEMMA AcquireIInv ==
  ASSUME IInv, NEW p \in Process, Acquire(p)
  PROVE  IInv'
<1>. USE SentinelsDistinct
  DEF IInv, TypeOK, InsideInv, MutualExclusion, TokenInv, GuardInv, RecoveryInv,
      Inside, InRecovery, Alive, Goto, Finish
<1>1. CASE Begin(p)
  BY <1>1 DEF Begin, FreshTokens
<1>2. CASE MakeLock(p)
  BY <1>2 DEF MakeLock
<1>3. CASE LockExists(p)
  BY <1>3 DEF LockExists
<1>4. CASE ProjectMissing(p)
  BY <1>4 DEF ProjectMissing
<1>5. CASE WriteOwner(p)
  BY <1>5 DEF WriteOwner, Record
<1>6. CASE WriteOwnerFails(p)
  BY ZenonT(40), <1>6 DEF WriteOwnerFails
<1>7. CASE GiveUp(p)
  BY <1>7 DEF GiveUp
<1>8. CASE Sleep(p)
  BY <1>8 DEF Sleep
<1>. QED
  BY <1>1, <1>2, <1>3, <1>4, <1>5, <1>6, <1>7, <1>8 DEF Acquire

LEMMA RecoverIInv ==
  ASSUME IInv, NEW p \in Process, Recover(p)
  PROVE  IInv'
<1>. USE SentinelsDistinct
  DEF IInv, TypeOK, InsideInv, MutualExclusion, TokenInv, GuardInv, RecoveryInv,
      Inside, InRecovery, Alive, Goto, Finish
<1>1. CASE MakeGuard(p)
  BY <1>1 DEF MakeGuard
<1>2. CASE GuardExists(p)
  BY <1>2 DEF GuardExists
<1>3. CASE ReadOwner(p)
  BY <1>3 DEF ReadOwner, Record
<1>4. CASE OwnerUnverifiable(p)
  BY <1>4 DEF OwnerUnverifiable
<1>5. CASE ProbeOwner(p)
  BY <1>5 DEF ProbeOwner
<1>6. CASE TakeAway(p)
  \* The record names a dead process, so nobody is inside.
  <2>1. \A q \in Process : ~Inside(q)
    BY <1>6 DEF TakeAway
  <2>2. TypeOK' /\ (owner' # NoOwner => lock')
    BY <1>6 DEF TakeAway
  <2>3. InsideInv' /\ MutualExclusion'
    BY <1>6, <2>1 DEF TakeAway
  <2>4. TokenInv'
    BY <1>6 DEF TakeAway
  \* No other process is in recovery.
  <2>5. GuardInv' /\ RecoveryInv'
    BY <1>6 DEF TakeAway
  <2>. QED
    BY <2>2, <2>3, <2>4, <2>5
<1>7. CASE TakeAwayFails(p)
  BY <1>7 DEF TakeAwayFails
<1>8. CASE RemoveGuard(p)
  <2>1. UNCHANGED <<dir, lock, owner, seen>> /\ guard' = FALSE
    BY <1>8 DEF RemoveGuard
  <2>2. \/ pc' = [pc EXCEPT ![p] = "poll"] /\ pc[p] = "unguard" /\ token' = token
        \/ /\ pc' = [pc EXCEPT ![p] = "idle"] /\ pc[p] = "abort"
           /\ token' = [token EXCEPT ![p] = NoToken]
    BY <1>8 DEF RemoveGuard
  <2>3. TypeOK'
    BY <2>1, <2>2
  \* p was the only process in recovery, so nobody is after it.
  <2>4. \A q \in Process : ~InRecovery(q)'
    BY <2>2
  <2>5. InsideInv' /\ MutualExclusion'
    BY <2>1, <2>2
  <2>6. TokenInv'
    BY <2>1, <2>2
  <2>. QED
    BY <2>1, <2>3, <2>4, <2>5, <2>6
<1>9. CASE RemoveGuardFails(p)
  BY <1>9 DEF RemoveGuardFails
<1>. QED
  BY <1>1, <1>2, <1>3, <1>4, <1>5, <1>6, <1>7, <1>8, <1>9 DEF Recover

LEMMA ReleaseIInv ==
  ASSUME IInv, NEW p \in Process, Release(p)
  PROVE  IInv'
<1>. USE SentinelsDistinct
  DEF IInv, TypeOK, InsideInv, MutualExclusion, TokenInv, GuardInv, RecoveryInv,
      Inside, InRecovery, Alive, Goto, Finish
<1>1. CASE CheckOwner(p)
  \* An uninstaller never finds its token, so this is a holder.
  <2>1. pc[p] = "holding"
    BY <1>1 DEF CheckOwner, OwnsLock
  <2>. QED
    BY <1>1, <2>1 DEF CheckOwner
<1>2. CASE NotOwner(p)
  BY <1>2 DEF NotOwner
<1>3. CASE RemoveOwner(p)
  BY <1>3 DEF RemoveOwner
<1>4. CASE RemoveOwnerFails(p)
  BY <1>4 DEF RemoveOwnerFails
<1>5. CASE RemoveLock(p)
  BY <1>5 DEF RemoveLock
<1>. QED
  BY <1>1, <1>2, <1>3, <1>4, <1>5 DEF Release

LEMMA ProjectIInv ==
  ASSUME PromptRecovery, IInv, NEW p \in Process, Project(p)
  PROVE  IInv'
<1>. USE SentinelsDistinct
  DEF IInv, TypeOK, InsideInv, MutualExclusion, TokenInv, GuardInv, RecoveryInv,
      Inside, InRecovery, Alive, Goto, Finish
<1>1. CASE RemoveEntries(p)
  BY ZenonT(40), <1>1 DEF RemoveEntries
<1>2. CASE RemoveProject(p)
  BY <1>2 DEF RemoveProject
<1>3. CASE CreateProject(p)
  BY <1>3 DEF CreateProject
<1>. QED
  BY <1>1, <1>2, <1>3 DEF Project

LEMMA EnvironmentIInv ==
  ASSUME PromptRecovery, IInv, NEW p \in Process, Environment(p)
  PROVE  IInv'
<1>. USE SentinelsDistinct, CrashPointsArePCs
  DEF IInv, TypeOK, InsideInv, MutualExclusion, TokenInv, GuardInv, RecoveryInv,
      Inside, InRecovery, Alive, Goto, Finish
<1>1. CASE Crash(p)
  BY <1>1 DEF Crash, UnderInspection
<1>2. CASE ReusePid(p)
  BY <1>2 DEF ReusePid, UnderInspection
<1>. QED
  BY <1>1, <1>2 DEF Environment

LEMMA StepIInv == PromptRecovery /\ IInv /\ [Next]_vars => IInv'
<1>. SUFFICES ASSUME PromptRecovery, IInv, [Next]_vars PROVE IInv'
  OBVIOUS
<1>1. CASE UNCHANGED vars
  BY <1>1 DEF vars, IInv, TypeOK, InsideInv, MutualExclusion, TokenInv, GuardInv,
              RecoveryInv, Inside, InRecovery, Alive
<1>2. CASE Next
  BY <1>2, AcquireIInv, RecoverIInv, ReleaseIInv, ProjectIInv, EnvironmentIInv DEF Next
<1>. QED
  BY <1>1, <1>2

-----------------------------------------------------------------------------
(* The theorems. *)

\* The invariant holds in every reachable state.
THEOREM Inductive == ASSUME PromptRecovery PROVE Spec => []IInv
<1>1. IInv /\ [Next]_vars => IInv'
  BY StepIInv
<1>. QED
  BY InitIInv, <1>1, PTL DEF Spec

\* Every variable keeps its type.
THEOREM TypeCorrectness == ASSUME PromptRecovery PROVE Spec => []TypeOK
<1>1. IInv => TypeOK
  BY DEF IInv
<1>. QED
  BY Inductive, <1>1, PTL

\* acquireProjectLock never lets two processes hold one lock.
THEOREM LockIsExclusive == ASSUME PromptRecovery PROVE Spec => []MutualExclusion
<1>1. IInv => MutualExclusion
  BY DEF IInv
<1>. QED
  BY Inductive, <1>1, PTL

\* A command under the lock finds its own record in it when it releases.
THEOREM ReleaseFindsOwnLock == ASSUME PromptRecovery PROVE Spec => []HolderOwnsLock
<1>1. IInv => HolderOwnsLock
  BY DEF IInv, InsideInv, HolderOwnsLock
<1>. QED
  BY Inductive, <1>1, PTL

-----------------------------------------------------------------------------
\* A step of q changes a complete record only if it is q's own or that of a
\* dead process.
LEMMA RecordChange ==
  ASSUME IInv, NEW q \in Process, owner \in Record, owner' # owner,
         Acquire(q) \/ Recover(q) \/ Release(q) \/ Project(q) \/ Environment(q)
  PROVE  owner.pid = q \/ ~Alive(owner.pid)
<1>. USE SentinelsDistinct DEF IInv, Goto, Finish
<1>1. CASE Acquire(q)
  \* Only a process that has just made the lock writes a record.
  <2>1. pc[q] = "record" => owner = NoOwner
    BY DEF InsideInv
  <2>. QED
    BY <1>1, <2>1 DEF Acquire, Begin, MakeLock, LockExists, ProjectMissing, WriteOwner,
                     WriteOwnerFails, GiveUp, Sleep
<1>2. CASE Recover(q)
  BY <1>2 DEF Recover, MakeGuard, GuardExists, ReadOwner, OwnerUnverifiable, ProbeOwner,
              TakeAway, TakeAwayFails, RemoveGuard, RemoveGuardFails, RecoveryInv
<1>3. CASE Release(q)
  <2>1. pc[q] = "unlink" => owner.pid = q
    BY DEF InsideInv
  <2>. QED
    BY <1>3, <2>1 DEF Release, CheckOwner, NotOwner, RemoveOwner, RemoveOwnerFails, RemoveLock
<1>4. CASE Project(q)
  <2>1. pc[q] = "holding" => owner.pid = q
    BY DEF InsideInv
  <2>. QED
    BY <1>4, <2>1 DEF Project, RemoveEntries, RemoveProject, CreateProject
<1>5. CASE Environment(q)
  <2>1. pc[q] = "record" => owner = NoOwner
    BY DEF InsideInv
  <2>. QED
    BY <1>5, <2>1 DEF Environment, Crash, ReusePid
<1>. QED
  BY <1>1, <1>2, <1>3, <1>4, <1>5

\* The record of a running process leaves the lock only by its own step.
THEOREM LiveOwners == ASSUME PromptRecovery PROVE Spec => LiveOwnersUntouched
<1>1. IInv /\ [Next]_vars => [LiveOwnerKept]_vars
  <2>. SUFFICES ASSUME IInv, Next,
                       NEW p \in Process, owner \in Record,
                       owner = [pid |-> p, token |-> token[p]], owner' # owner
                PROVE  pc'[p] # pc[p]
    BY DEF LiveOwnerKept
  <2>1. PICK q \in Process : Acquire(q) \/ Recover(q) \/ Release(q) \/ Project(q) \/ Environment(q)
    BY DEF Next
  <2>2. owner.pid = p /\ owner.token = token[p] /\ token[p] # NoToken
    BY SentinelsDistinct DEF Record
  <2>3. Alive(p)
    BY <2>2 DEF IInv, TokenInv, Alive
  <2>4. q = p
    BY <2>1, <2>2, <2>3, RecordChange
  <2>. QED
    BY <2>1, <2>4
       DEF IInv, TypeOK, Goto, Finish,
           Acquire, Begin, MakeLock, LockExists, ProjectMissing, WriteOwner, WriteOwnerFails,
           GiveUp, Sleep, Recover, MakeGuard, GuardExists, ReadOwner, OwnerUnverifiable,
           ProbeOwner, TakeAway, TakeAwayFails, RemoveGuard, RemoveGuardFails, Release,
           CheckOwner, NotOwner, RemoveOwner, RemoveOwnerFails, RemoveLock, Project,
           RemoveEntries, RemoveProject, CreateProject, Environment, Crash, ReusePid
<1>. QED
  BY Inductive, <1>1, PTL DEF Spec, LiveOwnersUntouched

-----------------------------------------------------------------------------
(* The detailed lock implements LockService. *)

\* What Holder stands for in the reachable states.
HolderMap ==
  /\ ~lock => Holder = Nobody
  /\ lock /\ owner \in Record => Holder = owner.pid
  /\ \A p \in Process : Inside(p) => Holder = p
  /\ lock /\ owner \notin Record /\ (\A p \in Process : ~Inside(p)) => Holder = Lost

LEMMA HolderFacts == IInv => HolderMap
<1>. SUFFICES ASSUME IInv PROVE HolderMap
  OBVIOUS
<1>. USE DEF IInv
<1>1. ~lock => Holder = Nobody
  BY DEF Holder
<1>2. lock /\ owner \in Record => Holder = owner.pid
  BY DEF Holder
<1>3. ASSUME NEW p \in Process, Inside(p) PROVE Holder = p
  <2>1. lock
    BY <1>3 DEF InsideInv, Inside
  <2>2. CASE pc[p] \in {"holding", "unlink"}
    BY <2>1, <2>2, <1>2 DEF InsideInv, TypeOK, Record, TokenInv
  <2>3. CASE pc[p] \in {"record", "rmdir"}
    <3>1. owner \notin Record
      BY <2>3, SentinelsDistinct DEF InsideInv
    <3>2. Changing = {p}
      BY <1>3, <2>3 DEF MutualExclusion, Inside, Changing
    <3>. QED
      BY <2>1, <2>3, <3>1, <3>2 DEF Holder
  <2>. QED
    BY <1>3, <2>2, <2>3 DEF Inside
<1>4. ASSUME lock, owner \notin Record, \A p \in Process : ~Inside(p) PROVE Holder = Lost
  BY <1>4 DEF Holder, Changing, Inside
<1>. QED
  BY <1>1, <1>2, <1>3, <1>4 DEF HolderMap

\* A step that leaves lock, record and the processes inside as they are leaves
\* the holder as it is.
LEMMA SameHolder ==
  ASSUME HolderMap, HolderMap', UNCHANGED <<lock, owner>>,
         \A q \in Process : Inside(q)' <=> Inside(q)
  PROVE  Holder' = Holder
<1>1. CASE ~lock
  BY <1>1 DEF HolderMap
<1>2. CASE lock /\ owner \in Record
  BY <1>2 DEF HolderMap
<1>3. CASE \E q \in Process : Inside(q)
  BY <1>3 DEF HolderMap
<1>4. CASE lock /\ owner \notin Record /\ \A q \in Process : ~Inside(q)
  BY <1>4 DEF HolderMap
<1>. QED
  BY <1>1, <1>2, <1>3, <1>4

LEMMA AcquireRefines ==
  ASSUME IInv, IInv', HolderMap, HolderMap', NEW p \in Process, Acquire(p)
  PROVE  [Service!Next]_<<Holder, Live>>
<1>. USE DEF IInv, TypeOK, Goto, Finish
<1>1. Live' = Live /\ p \in Live
  BY DEF Live, Alive, Acquire, Begin, MakeLock, LockExists, ProjectMissing, WriteOwner,
         WriteOwnerFails, GiveUp, Sleep
<1>2. CASE Begin(p) \/ LockExists(p) \/ ProjectMissing(p) \/ GiveUp(p) \/ Sleep(p)
  <2>1. UNCHANGED <<lock, owner>> /\ \A q \in Process : Inside(q)' <=> Inside(q)
    BY <1>2 DEF Begin, LockExists, ProjectMissing, GiveUp, Sleep, Inside
  <2>. QED
    BY <1>1, <2>1, SameHolder
<1>3. CASE MakeLock(p)
  <2>1. Holder = Nobody /\ Inside(p)'
    BY <1>3 DEF MakeLock, HolderMap, Inside
  <2>2. Service!Acquire(p)
    BY <1>1, <2>1 DEF HolderMap, Service!Acquire
  <2>. QED
    BY <2>2 DEF Service!Next
<1>4. CASE WriteOwner(p)
  <2>1. Inside(p) /\ Inside(p)'
    BY <1>4 DEF WriteOwner, Inside
  <2>. QED
    BY <1>1, <2>1 DEF HolderMap
<1>5. CASE WriteOwnerFails(p)
  <2>1. Inside(p) /\ owner = NoOwner /\ \A q \in Process : ~Inside(q)'
    BY <1>5 DEF WriteOwnerFails, Inside, InsideInv, MutualExclusion
  <2>2. Holder = p /\ Holder' \in {Nobody, Lost}
    BY <1>5, <2>1, SentinelsDistinct DEF WriteOwnerFails, HolderMap
  <2>. QED
    BY <1>1, <2>2 DEF Service!Next, Service!Leave
<1>. QED
  BY <1>2, <1>3, <1>4, <1>5 DEF Acquire

LEMMA RecoverRefines ==
  ASSUME IInv, IInv', HolderMap, HolderMap', NEW p \in Process, Recover(p)
  PROVE  [Service!Next]_<<Holder, Live>>
<1>. USE DEF IInv, TypeOK, Goto, Finish
<1>1. Live' = Live
  BY DEF Live, Alive, Recover, MakeGuard, GuardExists, ReadOwner, OwnerUnverifiable,
         ProbeOwner, TakeAway, TakeAwayFails, RemoveGuard, RemoveGuardFails
<1>2. CASE TakeAway(p)
  <2>1. Holder = owner.pid /\ Holder \in Process \ Live
    BY <1>2 DEF TakeAway, RecoveryInv, HolderMap, Live, Alive
  <2>2. Holder' = Nobody
    BY <1>2 DEF TakeAway, HolderMap
  <2>. QED
    BY <1>1, <2>1, <2>2 DEF Service!Next, Service!Recover
<1>3. CASE ~TakeAway(p)
  <2>1. UNCHANGED <<lock, owner>> /\ \A q \in Process : Inside(q)' <=> Inside(q)
    BY <1>3 DEF Recover, MakeGuard, GuardExists, ReadOwner, OwnerUnverifiable, ProbeOwner,
                TakeAwayFails, RemoveGuard, RemoveGuardFails, Inside
  <2>. QED
    BY <1>1, <2>1, SameHolder
<1>. QED
  BY <1>2, <1>3

LEMMA ReleaseRefines ==
  ASSUME IInv, IInv', HolderMap, HolderMap', NEW p \in Process, Release(p)
  PROVE  [Service!Next]_<<Holder, Live>>
<1>. USE DEF IInv, TypeOK, Goto, Finish
<1>1. Live' = Live /\ p \in Live
  BY DEF Live, Alive, Release, CheckOwner, NotOwner, RemoveOwner, RemoveOwnerFails, RemoveLock
<1>2. CASE CheckOwner(p)
  <2>1. pc[p] = "holding"
    BY <1>2 DEF CheckOwner, OwnsLock, TokenInv
  <2>2. UNCHANGED <<lock, owner>> /\ \A q \in Process : Inside(q)' <=> Inside(q)
    BY <1>2, <2>1 DEF CheckOwner, Inside
  <2>. QED
    BY <1>1, <2>2, SameHolder
<1>3. CASE NotOwner(p)
  \* A holder finds its record, so this is an uninstaller.
  <2>1. pc[p] = "cleared"
    <3>1. pc[p] # "holding"
      BY <1>3 DEF NotOwner, OwnsLock, InsideInv, TokenInv, Record
    <3>. QED
      BY <1>3, <3>1 DEF NotOwner
  <2>2. UNCHANGED <<lock, owner>> /\ \A q \in Process : Inside(q)' <=> Inside(q)
    BY <1>3, <2>1 DEF NotOwner, Inside
  <2>. QED
    BY <1>1, <2>2, SameHolder
<1>4. CASE RemoveOwner(p)
  <2>1. Inside(p) /\ Inside(p)'
    BY <1>4 DEF RemoveOwner, Inside
  <2>. QED
    BY <1>1, <2>1 DEF HolderMap
<1>5. CASE RemoveOwnerFails(p)
  \* A process that removes its record still has it.
  <2>1. owner = [pid |-> p, token |-> token[p]] /\ token[p] \in Token
    BY <1>5 DEF RemoveOwnerFails, InsideInv, TokenInv
  <2>. QED
    BY <1>5, <2>1, SentinelsDistinct DEF RemoveOwnerFails, Record
<1>6. CASE RemoveLock(p)
  <2>1. Holder = p /\ Holder' = Nobody
    BY <1>6 DEF RemoveLock, Inside, InsideInv, HolderMap
  <2>. QED
    BY <1>1, <2>1 DEF Service!Next, Service!Leave
<1>. QED
  BY <1>2, <1>3, <1>4, <1>5, <1>6 DEF Release

LEMMA ProjectRefines ==
  ASSUME IInv, IInv', HolderMap, HolderMap', NEW p \in Process, Project(p)
  PROVE  [Service!Next]_<<Holder, Live>>
<1>. USE DEF IInv, TypeOK, Goto
<1>1. Live' = Live /\ p \in Live
  BY DEF Live, Alive, Project, RemoveEntries, RemoveProject, CreateProject
<1>2. CASE RemoveEntries(p)
  <2>1. Holder = p /\ Holder' = Nobody
    BY <1>2 DEF RemoveEntries, Inside, HolderMap
  <2>. QED
    BY <1>1, <2>1 DEF Service!Next, Service!Leave
<1>3. CASE RemoveProject(p) \/ CreateProject(p)
  <2>1. UNCHANGED <<lock, owner>> /\ \A q \in Process : Inside(q)' <=> Inside(q)
    BY <1>3 DEF RemoveProject, CreateProject, Inside
  <2>. QED
    BY <1>1, <2>1, SameHolder
<1>. QED
  BY <1>2, <1>3 DEF Project

LEMMA EnvironmentRefines ==
  ASSUME IInv, IInv', HolderMap, HolderMap', NEW p \in Process, Environment(p)
  PROVE  [Service!Next]_<<Holder, Live>>
<1>. USE DEF IInv, TypeOK, Goto
<1>1. CASE Crash(p)
  <2>1. p \in Live /\ Live' = Live \ {p}
    BY <1>1, CrashPointsArePCs DEF Crash, Live, Alive
  <2>2. Holder' = Holder \/ (Holder = p /\ Holder' = Lost)
    <3>1. CASE ~Inside(p)
      <4>1. UNCHANGED <<lock, owner>> /\ \A q \in Process : Inside(q)' <=> Inside(q)
        BY <1>1, <3>1 DEF Crash, Inside
      <4>. QED
        BY <4>1, SameHolder
    <3>2. CASE pc[p] \in {"holding", "unlink"}
      \* Its record stays behind.
      <4>1. UNCHANGED <<lock, owner>> /\ lock /\ owner \in Record
        BY <1>1, <3>2 DEF Crash, InsideInv, TokenInv, Record
      <4>. QED
        BY <4>1 DEF HolderMap
    <3>3. CASE pc[p] \in {"record", "rmdir"}
      \* There is no record, and nobody else is inside.
      <4>1. Inside(p) /\ lock' /\ owner' \notin Record /\ \A q \in Process : ~Inside(q)'
        BY <1>1, <3>3, SentinelsDistinct DEF Crash, Inside, InsideInv, MutualExclusion
      <4>. QED
        BY <4>1 DEF HolderMap
    <3>. QED
      BY <3>1, <3>2, <3>3 DEF Inside
  <2>. QED
    BY <2>1, <2>2 DEF Service!Next, Service!Die
<1>2. CASE ReusePid(p)
  <2>1. p \notin Live /\ Live' = Live \cup {p}
    BY <1>2 DEF ReusePid, Live, Alive
  <2>2. UNCHANGED <<lock, owner>> /\ \A q \in Process : Inside(q)' <=> Inside(q)
    BY <1>2 DEF ReusePid, Inside
  <2>. QED
    BY <2>1, <2>2, SameHolder DEF Service!Next, Service!Reuse
<1>. QED
  BY <1>1, <1>2 DEF Environment

\* The filesystem lock keeps the promises of LockService.
THEOREM Refinement == ASSUME PromptRecovery PROVE Spec => ImplementsService
<1>1. Init => Service!Init
  BY SentinelsDistinct DEF Init, Service!Init, Holder, Live, Alive
<1>2. IInv /\ IInv' /\ HolderMap /\ HolderMap' /\ [Next]_vars => [Service!Next]_<<Holder, Live>>
  <2>. SUFFICES ASSUME IInv, IInv', HolderMap, HolderMap', [Next]_vars
                PROVE  [Service!Next]_<<Holder, Live>>
    OBVIOUS
  <2>1. CASE UNCHANGED vars
    BY <2>1 DEF vars, Holder, Changing, Live, Alive
  <2>2. CASE Next
    BY <2>2, AcquireRefines, RecoverRefines, ReleaseRefines, ProjectRefines,
       EnvironmentRefines DEF Next
  <2>. QED
    BY <2>1, <2>2
<1>. QED
  BY Inductive, HolderFacts, <1>1, <1>2, PTL DEF Spec, ImplementsService, Service!Spec
=============================================================================
