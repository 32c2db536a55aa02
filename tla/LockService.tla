--------------------------- MODULE LockService ---------------------------
(***************************************************************************)
(* What the named project lock promises to the commands that use it: at    *)
(* most one process holds it, only its holder gives it up while that       *)
(* process is alive, and only the lock of a dead holder is taken away by   *)
(* somebody else.  A holder that fails half-way through recording or       *)
(* removing its lock may leave it Lost: held by nobody and free for        *)
(* nobody, until the project itself is deleted.                            *)
(***************************************************************************)
CONSTANTS Process,   \* process ids that can run nomina
          Nobody,    \* the holder of a free lock
          Lost       \* the holder of a lock that no process can release

VARIABLES holder, live

TypeOK == /\ holder \in Process \cup {Nobody, Lost}
          /\ live \subseteq Process

Init == holder = Nobody /\ live = Process

Acquire(p) == /\ p \in live
              /\ holder = Nobody
              /\ holder' = p
              /\ UNCHANGED live

\* The holder releases the lock, or fails to and leaves it Lost.
Leave(p) == /\ p \in live
            /\ holder = p
            /\ holder' \in {Nobody, Lost}
            /\ UNCHANGED live

\* A process ends; if it held the lock, its record stays unless it dies
\* while it is writing or removing that record.
Die(p) == /\ p \in live
          /\ live' = live \ {p}
          /\ \/ UNCHANGED holder
             \/ holder = p /\ holder' = Lost

\* The operating system gives the process id to a new process.
Reuse(p) == /\ p \notin live
            /\ live' = live \cup {p}
            /\ UNCHANGED holder

\* Another process takes the lock away from a dead holder.
Recover == /\ holder \in Process \ live
           /\ holder' = Nobody
           /\ UNCHANGED live

Next == \/ \E p \in Process : Acquire(p) \/ Leave(p) \/ Die(p) \/ Reuse(p)
        \/ Recover

Spec == Init /\ [][Next]_<<holder, live>>
=============================================================================
