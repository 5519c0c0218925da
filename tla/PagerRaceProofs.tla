-------------------------- MODULE PagerRaceProofs --------------------------
(***************************************************************************)
(* Proofs about the two threads of the root task, for any number of        *)
(* programs, frames and slabs: kmalloc's lock keeps its promise, even      *)
(* where the pool of slabs and the lists, which have none, do not.         *)
(***************************************************************************)
EXTENDS PagerRace, TLAPS

\* Where a thread is.
Places == {"idle", "search", "take", "advance", "store", "lock", "find", "mark",
           "fill", "push", "link", "free"}

\* The inductive invariant: what a thread took out of the pool is a slab or
\* nothing, and a thread that is to mark a frame has found one.
Carried ==
  /\ pc \in [Threads -> Places]
  /\ job \in [Threads -> [space : Programs, page : Pages]]
  /\ sb \in [Threads -> Records] /\ nxt \in [Threads -> Records]
  /\ start \in [Threads -> Frames \cup {Null}]
  /\ \A t \in Threads : pc[t] = "mark" => start[t] \in Frames

IInv == RaceTypeOK /\ Carried /\ GrantedOnce

\* No two threads are inside kmalloc.
LEMMA Exclusion ==
  ASSUME IInv, NEW t \in Threads, NEW u \in Threads,
         pc[t] \in {"find", "mark"}, pc[u] \in {"find", "mark"}
  PROVE  t = u
BY DEF IInv, RaceTypeOK

\* One thread moves.
LEMMA Moves ==
  ASSUME IInv, NEW t \in Threads, NEW place \in Places, Goto(t, place)
  PROVE  /\ pc' \in [Threads -> Places] /\ pc'[t] = place
         /\ \A u \in Threads \ {t} : pc'[u] = pc[u]
BY DEF IInv, Carried, Goto

\* A step of a thread that stays outside kmalloc leaves lock, bitmap and the
\* frames found as they are.
LEMMA Outside ==
  ASSUME IInv, NEW t \in Threads, NEW place \in Places \ {"find", "mark"},
         Goto(t, place), pc[t] \notin {"find", "mark"},
         UNCHANGED <<pagebitmap, memlock, start>>
  PROVE  /\ pc' \in [Threads -> Places] /\ GrantedOnce'
         /\ \A u \in Threads : memlock' = u <=> pc'[u] \in {"find", "mark"}
         /\ \A u \in Threads : pc'[u] = "mark" => start'[u] \in Frames
<1>1. /\ pc' \in [Threads -> Places] /\ pc'[t] = place
      /\ \A u \in Threads \ {t} : pc'[u] = pc[u]
  BY Moves
<1>2. ASSUME NEW u \in Threads
      PROVE  /\ memlock' = u <=> pc'[u] \in {"find", "mark"}
             /\ pc'[u] = "mark" => start'[u] \in Frames /\ start'[u] \notin pagebitmap'
  <2>1. CASE u = t
    <3>1. pc'[u] \notin {"find", "mark"}
      BY <1>1, <2>1
    <3>2. memlock # u
      BY <2>1 DEF IInv, RaceTypeOK
    <3> QED
      BY <3>1, <3>2
  <2>2. CASE u # t
    <3>1. pc'[u] = pc[u]
      BY <1>1, <2>2
    <3> QED
      BY <3>1 DEF IInv, RaceTypeOK, Carried, GrantedOnce
  <2> QED
    BY <2>1, <2>2
<1> QED
  BY <1>1, <1>2 DEF GrantedOnce

\* At the start no thread is inside, and the free list is made of slabs.
LEMMA Initially == RaceInit => IInv
<1> SUFFICES ASSUME RaceInit PROVE IInv
  OBVIOUS
<1>1. first \in Records
  BY CountAssumption DEF RaceInit, Records, Slabs
<1>2. snext \in [Records -> Records]
  <2>1. ASSUME NEW b \in Records
        PROVE  (IF b \in {Null, NSlabs} THEN Null ELSE b + 1) \in Records
    BY CountAssumption DEF Records, Slabs, Null
  <2> QED
    BY <2>1 DEF RaceInit
<1>3. \A t \in Threads : memlock # t /\ pc[t] = "idle"
  BY DEF RaceInit, Threads, Nobody
<1>4. RaceTypeOK
  BY <1>1, <1>2, <1>3 DEF RaceInit, RaceTypeOK, Records
<1>5. job \in [Threads -> [space : Programs, page : Pages]]
  BY ProgramAssumption DEF RaceInit, Pages
<1>6. Carried
  BY <1>3, <1>5 DEF RaceInit, Carried, Places, Records
<1> QED
  BY <1>3, <1>4, <1>6 DEF IInv, GrantedOnce

\* The callers: main and the pager begin a request.
LEMMA RequestStep ==
  ASSUME IInv, NEW t \in Threads, NEW s \in Programs, NEW page \in Pages,
         Request(t, s, page)
  PROVE  IInv'
<1>1. /\ pc[t] = "idle" /\ Goto(t, "search")
      /\ UNCHANGED <<pagebitmap, memlock, first, snext, lnext, content, memory, sb, nxt, start>>
  BY DEF Request, poolvars, lists
<1>2. /\ pc' \in [Threads -> Places] /\ GrantedOnce'
      /\ \A u \in Threads : memlock' = u <=> pc'[u] \in {"find", "mark"}
      /\ \A u \in Threads : pc'[u] = "mark" => start'[u] \in Frames
  BY <1>1, Outside DEF Places
<1>3. job' \in [Threads -> [space : Programs, page : Pages]]
  <2>1. job' = [job EXCEPT ![t] = [space |-> s, page |-> page]]
    BY DEF Request
  <2> QED
    BY <2>1 DEF IInv, Carried
<1> QED
  BY <1>1, <1>2, <1>3 DEF IInv, RaceTypeOK, Carried

LEMMA CallerStep ==
  ASSUME IInv, NEW s \in Programs,
         Load(s) \/ PrepareStack(s) \/ Start(s) \/ PageFault(s)
  PROVE  IInv'
<1>1. CASE Start(s)
  BY <1>1 DEF Start, IInv, RaceTypeOK, Carried, GrantedOnce, poolvars, lists
<1>2. CASE Load(s)
  BY <1>2, RequestStep DEF Load, Threads, Pages
<1>3. CASE PrepareStack(s)
  BY <1>3, RequestStep DEF PrepareStack, Threads, Pages
<1>4. CASE PageFault(s)
  BY <1>4, RequestStep DEF PageFault, Threads, Pages
<1> QED
  BY <1>1, <1>2, <1>3, <1>4

\* Searching the list, and the pool's two operations.
LEMMA UnlockedStep ==
  ASSUME IInv, NEW t \in Threads,
         \/ Found(t) \/ NotFound(t) \/ Take(t) \/ ReadNext(t) \/ StoreNext(t)
         \/ LinkSlab(t) \/ FreeSlab(t) \/ Fill(t) \/ Push(t)
  PROVE  IInv'
<1>1. PICK place \in Places \ {"find", "mark"} : Goto(t, place)
  <2>1. {"idle", "take", "advance", "store", "lock", "free", "push"}
          \subseteq Places \ {"find", "mark"}
    BY DEF Places
  <2> QED
    BY <2>1 DEF Found, NotFound, Take, ReadNext, StoreNext, LinkSlab, FreeSlab, Fill,
                Push, Answer
<1>2. pc[t] \notin {"find", "mark"} /\ UNCHANGED <<pagebitmap, memlock, start>>
  BY DEF Found, NotFound, NoMatch, Take, ReadNext, StoreNext, LinkSlab, FreeSlab, Fill,
         Push
<1>3. /\ pc' \in [Threads -> Places] /\ GrantedOnce'
      /\ \A u \in Threads : memlock' = u <=> pc'[u] \in {"find", "mark"}
      /\ \A u \in Threads : pc'[u] = "mark" => start'[u] \in Frames
  BY <1>1, <1>2, Outside
<1>4. first' \in Records
  BY DEF IInv, RaceTypeOK, Carried, Found, NotFound, Take, ReadNext, StoreNext, LinkSlab,
         FreeSlab, Fill, Push, poolvars
<1>5. snext' \in [Records -> Records]
  BY DEF IInv, RaceTypeOK, Carried, Found, NotFound, Take, ReadNext, StoreNext, LinkSlab,
         FreeSlab, Fill, Push, poolvars
<1>6. lnext' \in [Records -> Records \cup {End}]
  <2>1. CASE Fill(t)
    <3>1. memory[job[t].space] \in Records \cup {End}
      BY DEF IInv, RaceTypeOK, Carried
    <3> QED
      BY <2>1, <3>1 DEF IInv, RaceTypeOK, Fill
  <2>2. CASE ~Fill(t)
    BY <2>2 DEF IInv, RaceTypeOK, Found, NotFound, Take, ReadNext, StoreNext, LinkSlab,
           FreeSlab, Push, lists
  <2> QED
    BY <2>1, <2>2
<1>7. memory' \in [Programs -> Records \cup {End}]
  BY DEF IInv, RaceTypeOK, Carried, Found, NotFound, Take, ReadNext, StoreNext, LinkSlab,
         FreeSlab, Fill, Push, lists
<1>8. sb' \in [Threads -> Records]
  BY DEF IInv, RaceTypeOK, Carried, Found, NotFound, Take, ReadNext, StoreNext, LinkSlab,
         FreeSlab, Fill, Push
<1>9. nxt' \in [Threads -> Records]
  BY DEF IInv, RaceTypeOK, Carried, Found, NotFound, Take, ReadNext, StoreNext, LinkSlab,
         FreeSlab, Fill, Push
<1>10. job' = job
  BY DEF Found, NotFound, Take, ReadNext, StoreNext, LinkSlab, FreeSlab, Fill, Push
<1> QED
  BY <1>2, <1>3, <1>4, <1>5, <1>6, <1>7, <1>8, <1>9, <1>10 DEF IInv, RaceTypeOK, Carried

\* kmalloc takes its lock only when nobody holds it.
LEMMA LockStep ==
  ASSUME IInv, NEW t \in Threads, Lock(t)
  PROVE  IInv'
<1>1. /\ pc[t] = "lock" /\ memlock = Nobody /\ memlock' = t /\ Goto(t, "find")
      /\ UNCHANGED <<pagebitmap, first, snext, lnext, content, memory, job, sb, nxt, start>>
  BY DEF Lock, poolvars, lists
<1>2. /\ pc' \in [Threads -> Places] /\ pc'[t] = "find"
      /\ \A u \in Threads \ {t} : pc'[u] = pc[u]
  BY <1>1, Moves DEF Places
<1>3. \A u \in Threads : pc[u] \notin {"find", "mark"}
  BY <1>1 DEF IInv, RaceTypeOK, Threads, Nobody
<1>4. ASSUME NEW u \in Threads
      PROVE  /\ memlock' = u <=> pc'[u] \in {"find", "mark"}
             /\ pc'[u] # "mark"
  <2>1. CASE u = t
    BY <1>1, <1>2, <2>1
  <2>2. CASE u # t
    BY <1>1, <1>2, <1>3, <2>2
  <2> QED
    BY <2>1, <2>2
<1> QED
  BY <1>1, <1>2, <1>4 DEF IInv, RaceTypeOK, Carried, GrantedOnce

\* What it finds is free, and the other thread is not inside.
LEMMA FindStep ==
  ASSUME IInv, NEW t \in Threads, Find(t)
  PROVE  IInv'
<1>1. PICK f \in Frames \ pagebitmap : start' = [start EXCEPT ![t] = f]
  BY DEF Find
<1>2. /\ pc[t] = "find" /\ Goto(t, "mark")
      /\ UNCHANGED <<pagebitmap, memlock, first, snext, lnext, content, memory, job, sb, nxt>>
  BY DEF Find, poolvars, lists
<1>3. /\ pc' \in [Threads -> Places] /\ pc'[t] = "mark"
      /\ \A u \in Threads \ {t} : pc'[u] = pc[u]
  BY <1>2, Moves DEF Places
<1>4. /\ start' \in [Threads -> Frames \cup {Null}] /\ start'[t] = f
      /\ \A u \in Threads \ {t} : start'[u] = start[u]
  BY <1>1 DEF IInv, Carried
<1>5. ASSUME NEW u \in Threads
      PROVE  /\ memlock' = u <=> pc'[u] \in {"find", "mark"}
             /\ pc'[u] = "mark" => start'[u] \in Frames /\ start'[u] \notin pagebitmap'
  <2>1. CASE u = t
    BY <1>2, <1>3, <1>4, <2>1 DEF IInv, RaceTypeOK
  <2>2. CASE u # t
    BY <1>2, <1>3, <1>4, <2>2 DEF IInv, RaceTypeOK, Carried, GrantedOnce
  <2> QED
    BY <2>1, <2>2
<1> QED
  BY <1>2, <1>3, <1>4, <1>5 DEF IInv, RaceTypeOK, Carried, GrantedOnce

\* Leaving kmalloc, with a frame or without.
LEMMA LeaveStep ==
  ASSUME IInv, NEW t \in Threads, NothingFree(t) \/ Mark(t)
  PROVE  IInv'
<1>1. PICK place \in {"link", "fill"} : Goto(t, place)
  BY DEF NothingFree, Mark
<1>2. /\ pc[t] \in {"find", "mark"} /\ memlock' = Nobody
      /\ UNCHANGED <<first, snext, lnext, content, memory, job, sb, nxt, start>>
  BY DEF NothingFree, Mark, poolvars, lists
<1>3. /\ pc' \in [Threads -> Places] /\ pc'[t] = place
      /\ \A u \in Threads \ {t} : pc'[u] = pc[u]
  BY <1>1, Moves DEF Places
<1>4. pagebitmap' \subseteq Frames
  BY DEF NothingFree, Mark, IInv, RaceTypeOK, Carried
<1>5. ASSUME NEW u \in Threads
      PROVE  pc'[u] \notin {"find", "mark"} /\ memlock' # u
  <2>1. pc'[u] \notin {"find", "mark"}
    <3>1. CASE u = t
      BY <1>3, <3>1
    <3>2. CASE u # t
      BY <1>2, <1>3, <3>2, Exclusion
    <3> QED
      BY <3>1, <3>2
  <2>2. memlock' # u
    BY <1>2 DEF Threads, Nobody
  <2> QED
    BY <2>1, <2>2
<1> QED
  BY <1>2, <1>3, <1>4, <1>5 DEF IInv, RaceTypeOK, Carried, GrantedOnce

\* Every state of the two threads satisfies the invariant.
LEMMA Invariant == RaceSpec => []IInv
<1>1. RaceInit => IInv
  BY Initially
<1>2. IInv /\ [RaceNext]_racevars => IInv'
  <2> SUFFICES ASSUME IInv, [RaceNext]_racevars PROVE IInv'
    OBVIOUS
  <2>1. CASE UNCHANGED racevars
    BY <2>1 DEF racevars, poolvars, lists, IInv, RaceTypeOK, Carried, GrantedOnce
  <2>2. ASSUME NEW s \in Programs,
               Load(s) \/ PrepareStack(s) \/ Start(s) \/ PageFault(s)
        PROVE  IInv'
    BY <2>2, CallerStep
  <2>3. ASSUME NEW t \in Threads, Spin(t)
        PROVE  IInv'
    BY <2>1, <2>3 DEF Spin
  <2>4. ASSUME NEW t \in Threads,
               \/ Found(t) \/ NotFound(t) \/ Take(t) \/ ReadNext(t) \/ StoreNext(t)
               \/ LinkSlab(t) \/ FreeSlab(t) \/ Fill(t) \/ Push(t)
        PROVE  IInv'
    BY <2>4, UnlockedStep
  <2>5. ASSUME NEW t \in Threads, Lock(t) \/ Find(t) \/ NothingFree(t) \/ Mark(t)
        PROVE  IInv'
    BY <2>5, LockStep, FindStep, LeaveStep
  <2> QED
    BY <2>1, <2>2, <2>3, <2>4, <2>5 DEF RaceNext
<1> QED
  BY <1>1, <1>2, PTL DEF RaceSpec

\* memlock is held exactly by the thread between kmalloc's lock and unlock
\* (memory.c:91-107), whatever the unlocked pool and lists come to.
THEOREM TypeCorrect == RaceSpec => []RaceTypeOK
<1>1. IInv => RaceTypeOK
  BY DEF IInv
<1> QED
  BY <1>1, Invariant, PTL

\* A frame that kmalloc found free is still free when it marks it, however
\* main and the pager interleave and however many frames and slabs there are.
THEOREM FramesGrantedOnce == RaceSpec => []GrantedOnce
<1>1. IInv => GrantedOnce
  BY DEF IInv
<1> QED
  BY <1>1, Invariant, PTL
=============================================================================
