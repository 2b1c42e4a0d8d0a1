------------------------------ MODULE FileLock ------------------------------
(***************************************************************************)
(* The inter-process lock of kernel/file_lock.py, and the read-modify-     *)
(* write transaction kernel/session_control.py runs inside it.             *)
(*                                                                         *)
(* The lock is a marker file made with O_EXCL.  A process that finds one   *)
(* looks at its age: a marker older than StaleAfter is unlinked, and a     *)
(* process that has waited Timeout enters WITHOUT the marker.  The age is  *)
(* read by one system call and the marker unlinked by another, so anything *)
(* may happen in between, and any unlink may fail, which nobody is told.   *)
(* Only differences of times matter, so time is kept as an age and as      *)
(* waiting times that stop counting once no comparison can tell a longer.  *)
(***************************************************************************)
EXTENDS Integers

CONSTANTS Proc,        \* the processes that share one session directory
          None,        \* no marker file
          StaleAfter,  \* the age past which a marker is broken
          Timeout,     \* how long a process waits before it goes ahead unlocked
          MaxHold,     \* the longest a running process stays in the section
          MaxOps       \* bound: transactions per process

\* A holder that is alive and makes progress leaves before its marker looks
\* stale: the transaction reads and writes one small file, in 30 seconds.
ASSUME LockAssumption ==
  /\ None \notin Proc
  /\ StaleAfter \in Nat /\ Timeout \in Nat /\ MaxOps \in Nat
  /\ MaxHold \in Nat /\ MaxHold <= StaleAfter

VARIABLES owner,     \* who created the marker file on disk, or None
          age,       \* the age of that marker
          pc,        \* where each process is in locked() and its transaction
          acquired,  \* the boolean locked() yields
          waited,    \* time since the process computed its deadline
          disk,      \* the file: how many updates of each process it holds
          copy,      \* what each process read of it
          ops,       \* transactions each process has begun
          unlocked,  \* history: some section was entered without the marker
          left       \* history: some exit could not unlink its marker

lockVars == <<owner, age, pc, acquired, waited, disk, copy, ops, unlocked, left>>

Section == {"read", "write", "exit"}
Steps == {"idle", "create", "stat", "unlink", "crashed"} \cup Section

LockTypeOK ==
  /\ owner \in Proc \cup {None}
  /\ age \in 0 .. StaleAfter + 1
  /\ pc \in [Proc -> Steps]
  /\ acquired \in [Proc -> BOOLEAN]
  /\ waited \in [Proc -> 0 .. Timeout]
  /\ disk \in [Proc -> Nat]
  /\ copy \in [Proc -> [Proc -> Nat]]
  /\ ops \in [Proc -> 0 .. MaxOps]
  /\ unlocked \in BOOLEAN /\ left \in BOOLEAN

LockInit ==
  /\ owner = None /\ age = 0
  /\ pc = [p \in Proc |-> "idle"]
  /\ acquired = [p \in Proc |-> FALSE]
  /\ waited = [p \in Proc |-> 0]
  /\ disk = [p \in Proc |-> 0]
  /\ copy = [p \in Proc |-> [q \in Proc |-> 0]]
  /\ ops = [p \in Proc |-> 0]
  /\ unlocked = FALSE /\ left = FALSE

Goto(p, step) == pc' = [pc EXCEPT ![p] = step]
CountTo(n, cap) == IF n < cap THEN n + 1 ELSE n

-----------------------------------------------------------------------------
(* locked(): the acquisition loop *)

\* A call: the deadline is set once, before the loop.
Begin(p) ==
  /\ pc[p] = "idle" /\ ops[p] < MaxOps
  /\ ops' = [ops EXCEPT ![p] = @ + 1]
  /\ waited' = [waited EXCEPT ![p] = 0]
  /\ acquired' = [acquired EXCEPT ![p] = FALSE]
  /\ Goto(p, "create")
  /\ UNCHANGED <<owner, age, disk, copy, unlocked, left>>

\* Mutant: the create without O_EXCL, which succeeds on a marker in place.
CreateNotExclusive(p) ==
  /\ pc[p] = "create"
  /\ owner' = p /\ age' = 0
  /\ acquired' = [acquired EXCEPT ![p] = TRUE]
  /\ Goto(p, "read")
  /\ UNCHANGED <<waited, disk, copy, ops, unlocked, left>>

\* os.open(O_CREAT | O_EXCL) on no file: this process now owns the marker.
Create(p) ==
  /\ pc[p] = "create" /\ owner = None
  /\ owner' = p /\ age' = 0
  /\ acquired' = [acquired EXCEPT ![p] = TRUE]
  /\ Goto(p, "read")
  /\ UNCHANGED <<waited, disk, copy, ops, unlocked, left>>

\* FileExistsError: go and look at the marker.
Exists(p) ==
  /\ pc[p] = "create" /\ owner # None
  /\ Goto(p, "stat")
  /\ UNCHANGED <<owner, age, acquired, waited, disk, copy, ops, unlocked, left>>

EnterUnlocked(p) ==
  /\ unlocked' = TRUE
  /\ Goto(p, "read")
  /\ UNCHANGED <<owner, age, acquired, waited, disk, copy, ops, left>>

\* Any other OSError of the create leaves the loop without the marker.
CreateError(p) == pc[p] = "create" /\ EnterUnlocked(p)

\* Mutant: a marker of exactly the limit is already broken.
IsStaleTooSoon == age >= StaleAfter

IsStale == age > StaleAfter

\* The marker went away before it could be looked at: try again at once.
Vanished(p) ==
  /\ pc[p] = "stat" /\ owner = None
  /\ Goto(p, "create")
  /\ UNCHANGED <<owner, age, acquired, waited, disk, copy, ops, unlocked, left>>

JudgeStale(p) ==
  /\ pc[p] = "stat" /\ owner # None /\ IsStale
  /\ Goto(p, "unlink")
  /\ UNCHANGED <<owner, age, acquired, waited, disk, copy, ops, unlocked, left>>

\* Not stale and before the deadline: sleep a little and try again.
Retry(p) ==
  /\ pc[p] = "stat" /\ owner # None /\ ~IsStale /\ waited[p] < Timeout
  /\ Goto(p, "create")
  /\ UNCHANGED <<owner, age, acquired, waited, disk, copy, ops, unlocked, left>>

GiveUp(p) ==
  /\ pc[p] = "stat" /\ owner # None /\ ~IsStale /\ waited[p] >= Timeout
  /\ EnterUnlocked(p)

\* Mutant: the stale marker is left where it is.
BreakNothing(p) ==
  /\ pc[p] = "unlink"
  /\ Goto(p, "create")
  /\ UNCHANGED <<owner, age, acquired, waited, disk, copy, ops, unlocked, left>>

\* The unlink removes whatever marker is there NOW.
Break(p) ==
  /\ pc[p] = "unlink"
  /\ owner' = None
  /\ Goto(p, "create")
  /\ UNCHANGED <<age, acquired, waited, disk, copy, ops, unlocked, left>>

\* It fails: the error is suppressed, and the loop goes round again without a
\* look at the deadline.
BreakError(p) ==
  /\ pc[p] = "unlink"
  /\ Goto(p, "create")
  /\ UNCHANGED <<owner, age, acquired, waited, disk, copy, ops, unlocked, left>>

-----------------------------------------------------------------------------
(* The transaction: SessionControl._transaction never looks at acquired *)

Read(p) ==
  /\ pc[p] = "read"
  /\ copy' = [copy EXCEPT ![p] = disk]
  /\ Goto(p, "write")
  /\ UNCHANGED <<owner, age, acquired, waited, disk, ops, unlocked, left>>

Write(p) ==
  /\ pc[p] = "write"
  /\ disk' = [copy[p] EXCEPT ![p] = @ + 1]
  /\ Goto(p, "exit")
  /\ UNCHANGED <<owner, age, acquired, waited, copy, ops, unlocked, left>>

\* The finally clause: whoever believes it acquired unlinks what is there.
Exit(p) ==
  /\ pc[p] = "exit"
  /\ owner' = IF acquired[p] THEN None ELSE owner
  /\ Goto(p, "idle")
  /\ UNCHANGED <<age, acquired, waited, disk, copy, ops, unlocked, left>>

\* That unlink fails, unnoticed too: the marker stays, and nobody holds it.
ExitError(p) ==
  /\ pc[p] = "exit" /\ acquired[p]
  /\ left' = TRUE
  /\ Goto(p, "idle")
  /\ UNCHANGED <<owner, age, acquired, waited, disk, copy, ops, unlocked>>

\* The process is killed; its marker, if it owns one, stays.
Crash(p) ==
  /\ pc[p] \notin {"idle", "crashed"}
  /\ Goto(p, "crashed")
  /\ UNCHANGED <<owner, age, acquired, waited, disk, copy, ops, unlocked, left>>

Holds(p) == pc[p] \in Section /\ acquired[p]

\* Time passes for everybody.  A running holder leaves within MaxHold.
LockTick ==
  /\ (owner # None /\ Holds(owner)) => age < MaxHold
  /\ age' = CountTo(age, StaleAfter + 1)
  /\ waited' = [p \in Proc |-> CountTo(waited[p], Timeout)]
  /\ UNCHANGED <<owner, pc, acquired, disk, copy, ops, unlocked, left>>

Step(p) ==
  \/ Begin(p) \/ Create(p) \/ Exists(p) \/ Vanished(p) \/ JudgeStale(p)
  \/ Retry(p) \/ GiveUp(p) \/ Break(p) \/ Read(p) \/ Write(p) \/ Exit(p)

\* What may fail or die at any time, and is never owed.
Failure(p) == CreateError(p) \/ BreakError(p) \/ ExitError(p) \/ Crash(p)

LockNext == LockTick \/ \E p \in Proc : Step(p) \/ Failure(p)

LockSpec == LockInit /\ [][LockNext]_lockVars

\* Time goes on and every running process is scheduled.
ScheduledLockSpec == LockSpec /\ WF_lockVars(LockTick) /\ \A p \in Proc : WF_lockVars(Step(p))

\* A stale marker that is unlinked again and again is gone in the end: the
\* directory does not stay read-only, or the marker somebody else's, for ever.
FairLockSpec == ScheduledLockSpec /\ \A p \in Proc : SF_lockVars(Break(p))

-----------------------------------------------------------------------------
(* Properties *)

\* No marker was left behind: nobody was killed, every exit unlinked its own.
NoneLeft == ~left /\ \A p \in Proc : pc[p] # "crashed"

\* As long as no marker was left behind, two processes that both hold one are
\* never in the section together: no live holder's marker is ever judged stale
\* or unlinked by another (file_lock.py, the loop and the finally).
Exclusion == NoneLeft => \A p, q \in Proc : Holds(p) /\ Holds(q) => p = q

\* No transaction erases another's committed update while no marker was left
\* behind and nobody went ahead without one (_transaction, read to replace).
NoLostUpdateWhenLocked ==
  [][(NoneLeft /\ ~unlocked)' => \A q \in Proc : disk'[q] >= disk[q]]_lockVars

\* What the docstring asks of a read-modify-write caller (check the boolean,
\* fail closed) would give this without a proviso on `unlocked`.
NoLostUpdate == [][NoneLeft' => \A q \in Proc : disk'[q] >= disk[q]]_lockVars

\* A process that wants the section gets in, whoever was killed in it and
\* whichever markers were left behind ("a crashed holder must never wedge a
\* session"), provided that a stale marker goes when it is unlinked again and
\* again; without that the loop never looks at its deadline.
NeverWedged ==
  \A p \in Proc : pc[p] = "create" ~> pc[p] \in Section \cup {"crashed"}

=============================================================================
