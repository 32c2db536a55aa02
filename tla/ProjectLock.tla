--------------------------- MODULE ProjectLock ---------------------------
(***************************************************************************)
(* The per-project filesystem lock of src/src/project-lock.js, one action  *)
(* per system call, because other processes run between any two of them.   *)
(*                                                                         *)
(* The lock is the directory .nomina/<name>.lock with a file owner.json    *)
(* that records {pid, token}.  A process that finds the directory tries to *)
(* take it away from a dead owner under a second directory, the recovery   *)
(* guard.  A random token tells a process, on release, whether the lock it *)
(* finds is still its own.  uninstall deletes .nomina, and with it lock    *)
(* and guard, while it holds the lock; init creates .nomina without it.    *)
(*                                                                         *)
(* The five-second deadline is a choice between giving up and sleeping;    *)
(* strong fairness on giving up stands for the clock that moves on.        *)
(***************************************************************************)
EXTENDS Naturals, FiniteSets

CONSTANTS
  Process,          \* process ids that run nomina
  Token,            \* values of randomUUID()
  NoToken,          \* a process that has drawn no token
  NoOwner,          \* the lock directory holds no owner.json
  Torn,             \* owner.json was created but not written in full
  CrashPoints,      \* program counters at which a process may die
  PromptRecovery    \* TRUE: no process dies, and no pid is reused, between the
                    \* read, the probe and the rename of one recovery that
                    \* looks at that pid, and .nomina is not deleted during
                    \* a recovery

VARIABLES
  dir,      \* .nomina exists
  lock,     \* the lock directory exists
  owner,    \* what owner.json in it holds
  guard,    \* the recovery guard directory exists
  pc,       \* the system call each process makes next
  token,    \* the token of its current acquisition
  seen      \* the pid it read from owner.json while recovering

vars == <<dir, lock, owner, guard, pc, token, seen>>

-----------------------------------------------------------------------------
Record == [pid : Process, token : Token]

Acquiring == {"try", "record", "enter", "poll"}
Recovering == {"inspect", "probe", "rename", "unguard", "abort"}
Releasing == {"unlink", "rmdir"}
PC == Acquiring \cup Recovering \cup Releasing
        \cup {"idle", "holding", "clearing", "cleared", "dead"}

ASSUME ProcessNotEmpty == Process # {}
ASSUME SentinelsDistinct ==
  NoToken \notin Token /\ NoOwner \notin Record /\ Torn \notin Record /\ NoOwner # Torn
ASSUME CrashPointsArePCs == CrashPoints \subseteq PC \ {"dead"}
ASSUME PromptRecoveryIsBoolean == PromptRecovery \in BOOLEAN

Init == /\ dir = TRUE
        /\ lock = FALSE
        /\ owner = NoOwner
        /\ guard = FALSE
        /\ pc = [p \in Process |-> "idle"]
        /\ token = [p \in Process |-> NoToken]
        /\ seen = [p \in Process |-> p]

Alive(q) == pc[q] # "dead"

Goto(p, from, to) == pc[p] = from /\ pc' = [pc EXCEPT ![p] = to]

\* The operation ends, with a result or an error; its locals go with it.
Finish(p, from) == /\ Goto(p, from, "idle")
                   /\ token' = [token EXCEPT ![p] = NoToken]

-----------------------------------------------------------------------------
(* Faults: plausible mistakes in single actions, each of which one of the   *)
(* properties below exists to catch.  No action of Spec uses them.          *)

\* The acquisition draws no token.
BeginWithoutToken(p) == /\ dir
                        /\ Goto(p, "idle", "try")
                        /\ UNCHANGED <<dir, lock, owner, guard, token, seen>>

\* mkdir(lock, {recursive: true}) also succeeds for a lock that exists.
MakeLockRecursive(p) == /\ dir
                        /\ Goto(p, "try", "record")
                        /\ lock' = TRUE
                        /\ UNCHANGED <<dir, owner, guard, token, seen>>

\* The wait has no deadline.
GiveUpNever(p) == /\ Goto(p, "poll", "try")
                  /\ UNCHANGED <<dir, lock, owner, guard, token, seen>>

\* A lock without a readable owner counts as abandoned.
UnverifiableIsAbandoned(p) == /\ owner \notin Record
                              /\ Goto(p, "inspect", "rename")
                              /\ UNCHANGED <<dir, lock, owner, guard, token, seen>>

\* Every recorded owner counts as dead, or as alive.
ProbeSaysDead(p) == /\ Goto(p, "probe", "rename")
                    /\ UNCHANGED <<dir, lock, owner, guard, token, seen>>

ProbeSaysAlive(p) == /\ Goto(p, "probe", "unguard")
                     /\ UNCHANGED <<dir, lock, owner, guard, token, seen>>

\* The release does not compare the recorded token with its own.
CheckAnyOwner(p) == /\ owner \in Record
                    /\ Goto(p, "holding", "unlink") \/ Goto(p, "cleared", "unlink")
                    /\ UNCHANGED <<dir, lock, owner, guard, token, seen>>

-----------------------------------------------------------------------------
(* acquireProjectLock *)

\* randomUUID() repeats no value that is still referred to somewhere.
FreshTokens == {t \in Token : /\ \A q \in Process : token[q] # t
                              /\ owner \in Record => owner.token # t}

\* A command finds the project's state file and starts to acquire.
Begin(p) == /\ dir
            /\ Goto(p, "idle", "try")
            /\ \E t \in FreshTokens : token' = [token EXCEPT ![p] = t]
            /\ UNCHANGED <<dir, lock, owner, guard, seen>>

\* mkdir(lock) succeeds for exactly one caller.
MakeLock(p) == /\ dir /\ ~lock
               /\ Goto(p, "try", "record")
               /\ lock' = TRUE
               /\ UNCHANGED <<dir, owner, guard, token, seen>>

\* mkdir(lock) fails with EEXIST: look for an abandoned lock.
LockExists(p) == /\ lock
                 /\ Goto(p, "try", "enter")
                 /\ UNCHANGED <<dir, lock, owner, guard, token, seen>>

\* Any other error of mkdir(lock) is thrown: here, the project is gone.
ProjectMissing(p) == /\ ~dir
                     /\ Finish(p, "try") \/ Finish(p, "enter")
                     /\ UNCHANGED <<dir, lock, owner, guard, seen>>

WriteOwner(p) == /\ Goto(p, "record", "holding")
                 /\ lock
                 /\ owner' = [pid |-> p, token |-> token[p]]
                 /\ UNCHANGED <<dir, lock, guard, token, seen>>

\* Writing owner.json fails.  rmdir(lock) then removes an empty directory,
\* but not one that a partial owner.json is in.
WriteOwnerFails(p) == /\ Finish(p, "record")
                      /\ \/ owner = NoOwner /\ lock' = FALSE /\ UNCHANGED owner
                         \/ lock /\ owner' = Torn /\ UNCHANGED lock
                         \/ owner # NoOwner /\ UNCHANGED <<lock, owner>>
                      /\ UNCHANGED <<dir, guard, seen>>

GiveUp(p) == /\ Finish(p, "poll")
             /\ UNCHANGED <<dir, lock, owner, guard, seen>>

Sleep(p) == /\ Goto(p, "poll", "try")
            /\ UNCHANGED <<dir, lock, owner, guard, token, seen>>

-----------------------------------------------------------------------------
(* recoverAbandonedLock *)

MakeGuard(p) == /\ dir /\ ~guard
                /\ Goto(p, "enter", "inspect")
                /\ guard' = TRUE
                /\ UNCHANGED <<dir, lock, owner, token, seen>>

\* mkdir(guard) fails with EEXIST: another process is recovering.
GuardExists(p) == /\ guard
                  /\ Goto(p, "enter", "poll")
                  /\ UNCHANGED <<dir, lock, owner, guard, token, seen>>

ReadOwner(p) == /\ owner \in Record
                /\ Goto(p, "inspect", "probe")
                /\ seen' = [seen EXCEPT ![p] = owner.pid]
                /\ UNCHANGED <<dir, lock, owner, guard, token>>

\* owner.json is absent or cannot be parsed.
OwnerUnverifiable(p) == /\ owner \notin Record
                        /\ Goto(p, "inspect", "unguard")
                        /\ UNCHANGED <<dir, lock, owner, guard, token, seen>>

\* process.kill(pid, 0)
ProbeOwner(p) == /\ Goto(p, "probe", IF Alive(seen[p]) THEN "unguard" ELSE "rename")
                 /\ UNCHANGED <<dir, lock, owner, guard, token, seen>>

\* rename(lock, abandoned); what is renamed is then removed under a name
\* no other process knows.
TakeAway(p) == /\ lock
               /\ Goto(p, "rename", "unguard")
               /\ lock' = FALSE
               /\ owner' = NoOwner
               /\ UNCHANGED <<dir, guard, token, seen>>

\* rename fails: the lock is gone; the error leaves through the finally block.
TakeAwayFails(p) == /\ ~lock
                    /\ Goto(p, "rename", "abort")
                    /\ UNCHANGED <<dir, lock, owner, guard, token, seen>>

RemoveGuard(p) == /\ guard
                  /\ \/ Goto(p, "unguard", "poll") /\ UNCHANGED token
                     \/ Finish(p, "abort")
                  /\ guard' = FALSE
                  /\ UNCHANGED <<dir, lock, owner, seen>>

\* rmdir(guard) fails: the guard is gone, and the acquisition throws.
RemoveGuardFails(p) == /\ ~guard
                       /\ Finish(p, "unguard") \/ Finish(p, "abort")
                       /\ UNCHANGED <<dir, lock, owner, guard, seen>>

-----------------------------------------------------------------------------
(* The release callback.  It runs after a command and after an uninstall   *)
(* that has deleted the lock. *)

OwnsLock(p) == owner \in Record /\ owner.token = token[p]

CheckOwner(p) == /\ OwnsLock(p)
                 /\ Goto(p, "holding", "unlink") \/ Goto(p, "cleared", "unlink")
                 /\ UNCHANGED <<dir, lock, owner, guard, token, seen>>

\* No lock: nothing to release.  A lock with another owner, or with none that
\* can be read: the release throws.  Neither touches the lock.
NotOwner(p) == /\ ~OwnsLock(p)
               /\ Finish(p, "holding") \/ Finish(p, "cleared")
               /\ UNCHANGED <<dir, lock, owner, guard, seen>>

RemoveOwner(p) == /\ owner # NoOwner
                  /\ Goto(p, "unlink", "rmdir")
                  /\ owner' = NoOwner
                  /\ UNCHANGED <<dir, lock, guard, token, seen>>

RemoveOwnerFails(p) == /\ owner = NoOwner
                       /\ Finish(p, "unlink")
                       /\ UNCHANGED <<dir, lock, owner, guard, seen>>

\* rmdir(lock) fails when the directory is missing or not empty.
RemoveLock(p) == /\ Finish(p, "rmdir")
                 /\ lock' = (lock /\ owner # NoOwner)
                 /\ UNCHANGED <<dir, owner, guard, seen>>

-----------------------------------------------------------------------------
(* uninstall and init *)

InRecovery(p) == pc[p] \in Recovering

\* rm -r .nomina removes the entries it lists, then the directory.
RemoveEntries(p) == /\ PromptRecovery => \A q \in Process : ~InRecovery(q)
                    /\ Goto(p, "holding", "clearing")
                    /\ lock' = FALSE
                    /\ owner' = NoOwner
                    /\ guard' = FALSE
                    /\ UNCHANGED <<dir, token, seen>>

\* rmdir(.nomina) fails when a waiting process has made a new entry.
RemoveProject(p) == /\ Goto(p, "clearing", "cleared")
                    /\ dir' = (lock \/ guard)
                    /\ UNCHANGED <<lock, owner, guard, token, seen>>

\* init holds no lock.
CreateProject(p) == /\ ~dir
                    /\ pc[p] = "idle"
                    /\ dir' = TRUE
                    /\ UNCHANGED <<lock, owner, guard, pc, token, seen>>

-----------------------------------------------------------------------------
(* Processes end and their ids are reused. *)

UnderInspection(h) == \E q \in Process : pc[q] \in {"probe", "rename"} /\ seen[q] = h

\* A process ends at any system call.  While it writes owner.json it may
\* leave a part of it.
Crash(p) == /\ pc[p] \in CrashPoints
            /\ PromptRecovery => ~UnderInspection(p)
            /\ pc' = [pc EXCEPT ![p] = "dead"]
            /\ token' = [token EXCEPT ![p] = NoToken]
            /\ \/ UNCHANGED owner
               \/ pc[p] = "record" /\ lock /\ owner' = Torn
            /\ UNCHANGED <<dir, lock, guard, seen>>

ReusePid(p) == /\ PromptRecovery => ~UnderInspection(p)
               /\ Goto(p, "dead", "idle")
               /\ UNCHANGED <<dir, lock, owner, guard, token, seen>>

-----------------------------------------------------------------------------
Acquire(p) == Begin(p) \/ MakeLock(p) \/ LockExists(p) \/ ProjectMissing(p)
                \/ WriteOwner(p) \/ WriteOwnerFails(p) \/ GiveUp(p) \/ Sleep(p)

Recover(p) == MakeGuard(p) \/ GuardExists(p) \/ ReadOwner(p) \/ OwnerUnverifiable(p)
                \/ ProbeOwner(p) \/ TakeAway(p) \/ TakeAwayFails(p)
                \/ RemoveGuard(p) \/ RemoveGuardFails(p)

Release(p) == CheckOwner(p) \/ NotOwner(p) \/ RemoveOwner(p) \/ RemoveOwnerFails(p)
                \/ RemoveLock(p)

Project(p) == RemoveEntries(p) \/ RemoveProject(p) \/ CreateProject(p)

Environment(p) == Crash(p) \/ ReusePid(p)

Next == \E p \in Process :
          Acquire(p) \/ Recover(p) \/ Release(p) \/ Project(p) \/ Environment(p)

Spec == Init /\ [][Next]_vars

\* A process that runs keeps making system calls until its operation ends.
\* Beginning a command, and leaving the lock held for ever, stay its choice.
Step(p) == \/ pc[p] # "idle" /\ Acquire(p)
           \/ Recover(p)
           \/ pc[p] # "holding" /\ Release(p)
           \/ RemoveProject(p)

Fairness == \A p \in Process : WF_vars(Step(p)) /\ SF_vars(GiveUp(p))

FairSpec == Spec /\ Fairness

-----------------------------------------------------------------------------
(* Properties *)

TypeOK == /\ dir \in BOOLEAN
          /\ lock \in BOOLEAN
          /\ owner \in Record \cup {NoOwner, Torn}
          /\ guard \in BOOLEAN
          /\ pc \in [Process -> PC]
          /\ token \in [Process -> Token \cup {NoToken}]
          /\ seen \in [Process -> Process]

\* The process has made the lock directory and has not yet removed it.
Inside(p) == pc[p] \in {"record", "holding"} \cup Releasing

\* Two commands never hold the project lock at the same time, whatever
\* crashes, recoveries, uninstalls and reused pids come between them.
MutualExclusion == \A p, q \in Process : Inside(p) /\ Inside(q) => p = q

\* A command that runs under the lock finds its own record in it, so its
\* release never fails with "Project lock ownership changed unexpectedly."
HolderOwnsLock == \A p \in Process :
  pc[p] = "holding" => lock /\ owner = [pid |-> p, token |-> token[p]]

\* recoverAbandonedLock: "leave live or unverifiable owners untouched".  The
\* record of a process that runs goes away only by a step of that process.
LiveOwnerKept == \A p \in Process :
  (owner \in Record /\ owner = [pid |-> p, token |-> token[p]] /\ owner' # owner)
    => pc'[p] # pc[p]

LiveOwnersUntouched == [][LiveOwnerKept]_vars

\* Whatever the lock holds, a process that starts to acquire it ends: it holds
\* the lock, it is refused, or it has died.
AcquireEnds == \A p \in Process :
  pc[p] = "try" ~> pc[p] \in {"idle", "holding", "dead"}

RecordedDead == owner \in Record /\ ~Alive(owner.pid)

\* docs/docker-hosts.md: "Locks with a recorded dead owner are recovered
\* automatically", as long as attempts at recovery go on being completed.
DeadOwnersRecovered ==
  []<>(\E p \in Process : pc[p] = "poll") => (RecordedDead ~> ~RecordedDead)

-----------------------------------------------------------------------------
(* The inductive invariant behind the safety properties. *)

\* Who is inside determines what the lock directory holds.
InsideInv == \A p \in Process :
  /\ pc[p] \in {"record", "rmdir"} => lock /\ owner = NoOwner
  /\ pc[p] \in {"holding", "unlink"} =>
       lock /\ owner = [pid |-> p, token |-> token[p]]

\* Tokens identify acquisitions: no two processes share one, and an uninstaller
\* finds its own in no lock that was made after it deleted the project.
TokenInv ==
  /\ \A p \in Process : pc[p] \in {"idle", "dead"} <=> token[p] = NoToken
  /\ \A p, q \in Process : token[p] = token[q] /\ token[p] # NoToken => p = q
  /\ \A p \in Process : pc[p] \in {"clearing", "cleared"} /\ owner \in Record =>
       owner.token # token[p]

\* One recovery at a time, and only under the guard.
GuardInv == /\ \A p \in Process : InRecovery(p) => guard
            /\ \A p, q \in Process : InRecovery(p) /\ InRecovery(q) => p = q

\* A recovery that goes on past the probe renames the lock of the dead process
\* it read.  Between read and rename, that lock is not replaced.
RecoveryInv == \A p \in Process :
  /\ pc[p] = "probe" /\ ~Alive(seen[p]) =>
       owner \in Record /\ owner.pid = seen[p]
  /\ pc[p] = "rename" =>
       owner \in Record /\ owner.pid = seen[p] /\ ~Alive(seen[p])

IInv == /\ TypeOK
        /\ owner # NoOwner => lock
        /\ InsideInv
        /\ MutualExclusion
        /\ TokenInv
        /\ GuardInv
        /\ RecoveryInv

-----------------------------------------------------------------------------
\* The detailed lock implements LockService: who holds it is read off the
\* directory, its record and the process that is about to write or has just
\* removed that record.
CONSTANTS Nobody, Lost

Changing == {p \in Process : pc[p] \in {"record", "rmdir"}}

Holder == IF ~lock THEN Nobody
          ELSE IF owner \in Record THEN owner.pid
          ELSE IF Changing # {} THEN CHOOSE p \in Changing : TRUE
          ELSE Lost

Live == {p \in Process : Alive(p)}

Service == INSTANCE LockService WITH holder <- Holder,
                                     live <- Live

ImplementsService == Service!Spec
=============================================================================
