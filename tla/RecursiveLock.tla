--------------------------- MODULE RecursiveLock ---------------------------
(***************************************************************************)
(* What the counting lock of libc and libk promises its callers: at most   *)
(* one thread owns it, the owner may enter again, and it becomes free only *)
(* when the owner has left as often as it entered.  Mutex implements this. *)
(***************************************************************************)
EXTENDS Naturals

CONSTANTS Threads, NoThread

VARIABLES owner,   \* the thread inside, or NoThread
          level    \* how often the owner has entered and not yet left

vars == <<owner, level>>

Init == owner = NoThread /\ level = 0

Enter(t) ==
  /\ owner \in {NoThread, t}
  /\ owner' = t
  /\ level' = level + 1

Leave(t) ==
  /\ owner = t
  /\ level' = level - 1
  /\ owner' = IF level = 1 THEN NoThread ELSE t

Next == \E t \in Threads : Enter(t) \/ Leave(t)

Spec == Init /\ [][Next]_vars
=============================================================================
