------------------------------- MODULE Mutex -------------------------------
(***************************************************************************)
(* The spin lock of libk and libc (mutex.c, try_lock.S, mutex.h) and the   *)
(* counting lock built on it, which the C library takes around every       *)
(* stream operation.  thrlock and memlock of the root task are such locks. *)
(*                                                                         *)
(* try_lock is NOT one atomic step: the locked cmpxchg and the comparison  *)
(* of the holder with the caller are two reads of m->holder, and another   *)
(* thread may run between them.  mutex_unlock ends with a branch on        *)
(* m->needed, which no code ever sets, so the branch is left out.          *)
(***************************************************************************)
EXTENDS Naturals

CONSTANTS
  Threads,    \* the threads that use the lock
  NoThread,   \* the value 0 of m->holder
  MaxDepth    \* bound: how deep a thread nests mutex_count_lock

ASSUME ThreadAssumption == NoThread \notin Threads
ASSUME DepthAssumption == MaxDepth \in Nat

VARIABLES
  holder,     \* m->holder
  count,      \* m->count
  pc,         \* pc[t]: the next instruction of thread t in the lock's code
  depth       \* depth[t]: mutex_count_lock calls of t not yet undone

lockvars == <<holder, count, pc, depth>>

Locations == {"run", "cmpxchg", "compare", "increment", "decrement", "ifzero", "release"}

\* mutex_init
LockInit ==
  /\ holder = NoThread
  /\ count = 0
  /\ pc = [t \in Threads |-> "run"]
  /\ depth = [t \in Threads |-> 0]

Goto(t, l) == pc' = [pc EXCEPT ![t] = l]

\* A thread calls mutex_count_lock, from outside or from inside the lock.
CallLock(t) ==
  /\ pc[t] = "run"
  /\ depth[t] < MaxDepth
  /\ Goto(t, "cmpxchg")
  /\ UNCHANGED <<holder, count, depth>>

\* Mutant: a plain store in place of the compare-and-exchange.
MutStore(t) ==
  /\ pc[t] = "cmpxchg"
  /\ holder' = t
  /\ Goto(t, "compare")
  /\ UNCHANGED <<count, depth>>

\* lock cmpxchg: take the holder field if it is 0.
CompareExchange(t) ==
  /\ pc[t] = "cmpxchg"
  /\ holder' = IF holder = NoThread THEN t ELSE holder
  /\ Goto(t, "compare")
  /\ UNCHANGED <<count, depth>>

\* The second read of m->holder: success, or yield and try again.
CompareHolder(t) ==
  /\ pc[t] = "compare"
  /\ Goto(t, IF holder = t THEN "increment" ELSE "cmpxchg")
  /\ UNCHANGED <<holder, count, depth>>

\* mutex->count++, after which mutex_count_lock returns.
Increment(t) ==
  /\ pc[t] = "increment"
  /\ count' = count + 1
  /\ depth' = [depth EXCEPT ![t] = @ + 1]
  /\ Goto(t, "run")
  /\ UNCHANGED holder

\* A thread that is inside calls mutex_count_unlock.
CallUnlock(t) ==
  /\ pc[t] = "run"
  /\ depth[t] > 0
  /\ Goto(t, "decrement")
  /\ UNCHANGED <<holder, count, depth>>

Decrement(t) ==
  /\ pc[t] = "decrement"
  /\ count' = count - 1
  /\ depth' = [depth EXCEPT ![t] = @ - 1]
  /\ Goto(t, "ifzero")
  /\ UNCHANGED holder

\* Mutant: the count is not looked at, any unlock frees the lock.
MutNoCount(t) ==
  /\ pc[t] = "ifzero"
  /\ Goto(t, "release")
  /\ UNCHANGED <<holder, count, depth>>

IfZero(t) ==
  /\ pc[t] = "ifzero"
  /\ Goto(t, IF count = 0 THEN "release" ELSE "run")
  /\ UNCHANGED <<holder, count, depth>>

\* Mutant: the lock is never freed.
MutKeep(t) ==
  /\ pc[t] = "release"
  /\ Goto(t, "run")
  /\ UNCHANGED <<holder, count, depth>>

\* mutex_unlock
Release(t) ==
  /\ pc[t] = "release"
  /\ holder' = NoThread
  /\ Goto(t, "run")
  /\ UNCHANGED <<count, depth>>

\* The instructions of a call in progress; the calls themselves are the
\* caller's choice.
Step(t) ==
  \/ CompareExchange(t) \/ CompareHolder(t) \/ Increment(t)
  \/ Decrement(t) \/ IfZero(t) \/ Release(t)

LockNext == \E t \in Threads : CallLock(t) \/ CallUnlock(t) \/ Step(t)

LockSpec == LockInit /\ [][LockNext]_lockvars

\* The kernel's round-robin scheduler runs every runnable thread, so a call in
\* progress goes on; whether a thread ever calls is up to the thread.
FairLockSpec == LockSpec /\ \A t \in Threads : WF_lockvars(Step(t))

-----------------------------------------------------------------------------
LockTypeOK ==
  /\ holder \in Threads \cup {NoThread}
  /\ count \in Nat
  /\ pc \in [Threads -> Locations]
  /\ depth \in [Threads -> 0 .. MaxDepth]

\* t is between a successful try_lock and the store that frees the lock.
Inside(t) ==
  \/ depth[t] > 0
  \/ pc[t] \in {"increment", "decrement", "ifzero", "release"}

Trying(t) == pc[t] \in {"cmpxchg", "compare"} /\ depth[t] = 0

\* No two threads are between lock and unlock at the same time, although the
\* outcome of cmpxchg is decided by a second, unlocked read (try_lock.S).
MutualExclusion == \A t, u \in Threads : Inside(t) /\ Inside(u) => t = u

\* The lock's own count equals the holder's nesting depth: a nested lock or
\* unlock never lets go of the lock early and never keeps it too long
\* (mutex_count_lock, mutex_count_unlock).
CountIsDepth ==
  /\ holder # NoThread => count = depth[holder]
  /\ holder = NoThread => count = 0

\* While somebody tries to enter, somebody eventually is inside: the lock may
\* starve a thread (it has no queue) but never all of them (mutex_lock).
SomeoneEnters ==
  (\E t \in Threads : Trying(t)) ~> (\E t \in Threads : Inside(t))

\* The counting lock implements the recursive lock of RecursiveLock.
Abstract == INSTANCE RecursiveLock
              WITH owner <- IF count = 0 THEN NoThread ELSE holder, level <- count
ImplementsRecursiveLock == Abstract!Spec

-----------------------------------------------------------------------------
\* The strengthening that makes MutualExclusion and CountIsDepth inductive.
LockIInv ==
  /\ LockTypeOK
  /\ CountIsDepth
  /\ \A t \in Threads :
       /\ Inside(t) => holder = t
       /\ pc[t] = "cmpxchg" => depth[t] < MaxDepth
       /\ pc[t] \in {"compare", "increment"} => depth[t] < MaxDepth
       /\ pc[t] = "decrement" => depth[t] > 0
       /\ pc[t] = "release" => depth[t] = 0
=============================================================================
