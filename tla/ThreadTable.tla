---------------------------- MODULE ThreadTable ----------------------------
(***************************************************************************)
(* The root task manager (olymp: thread.c, task_manager.c, the part of     *)
(* memory.c that creates and ends an address space, and the boot loop of   *)
(* olymp.c): thread numbers, the list of threads, the thread slots of each *)
(* address space, the thread that stands for the space, and the            *)
(* capabilities by which clients name threads.                             *)
(*                                                                         *)
(* All of it runs in the main thread of the root task under thrlock, one   *)
(* request at a time, so a handler is one action.  A refusal (no number,   *)
(* no slot, no slab, or an L4 system call that fails) leaves everything as *)
(* it was, so refusals are stuttering steps.  The list is a set: the order *)
(* of its elements decides only which remaining thread comes to stand for  *)
(* a space.  A thread id is its number: the version part is always 1.      *)
(* DestroyTask is a stub, and task_destroy, which it would call, has no    *)
(* caller: both are left out.                                              *)
(***************************************************************************)
EXTENDS Naturals, FiniteSets

CONSTANTS
  MaxTasks,       \* thread numbers are 0 .. MaxTasks - 1
  Occupied,       \* highest number in use when olymp starts: its pager's
  MaxThreads,     \* MAX_THREADS_PER_TASK
  AddrSpaces,         \* identities of address spaces (addresses of AddrSpace_t)
  BootModules,    \* how many programs main launches
  Published,      \* task manager capabilities that programs are given
  MaxCreations    \* bound: how many threads a behaviour creates

Number == 0 .. MaxTasks - 1
Slot == 0 .. MaxThreads - 1
Kinds == {"full", "newtask", "newthread"}

ASSUME NumberAssumption ==
  MaxTasks \in Nat \ {0} /\ Occupied \in Number /\ MaxThreads \in Nat \ {0}
ASSUME BoundAssumption == BootModules \in Nat /\ MaxCreations \in Nat
ASSUME ModeAssumption == Published \subseteq Kinds

VARIABLES
  tnobitmap,     \* thread numbers in use
  threads,    \* thread_list: records [tid, space, index, creation, born]
  addrspaces,     \* the address spaces that exist
  head,       \* head[s]: as->tid, the thread that stands for space s
  slots,      \* slots[s]: as->threads, the thread slots in use
  running,    \* threads that the kernel may run: they exist and have a pager
  caps,       \* thread capabilities handed out: [object, secret, born]
  launched,   \* programs launched so far
  clock,      \* L4_SystemClock
  serial      \* threads created so far; gives each its own identity "born"

threadvars == <<tnobitmap, threads, addrspaces, head, slots, running, caps, launched, clock, serial>>

ThreadRecord ==
  [tid : Number, space : AddrSpaces, index : Slot, creation : Nat, born : Nat]
Capability == [object : Number, secret : Nat, born : Nat]

Tids == {t.tid : t \in threads}
ThreadsOf(s) == {t \in threads : t.space = s}

\* threadno_find_free: the smallest free number; 0 also when there is none.
FindFree(used, max, n) ==
  IF 0 .. max - 1 \subseteq used THEN n = 0
  ELSE n \in (0 .. max - 1) \ used /\ \A m \in (0 .. max - 1) \ used : n <= m

\* Clock readings: one per created thread is enough.
Instant == 0 .. MaxCreations

\* The system clock when the next thread is created: it goes by ticks, and the last
\* thread may have been created in the same one.
Now(c) == c \in {clock, clock + 1}

-----------------------------------------------------------------------------
\* thread_init: the numbers up to the pager's are taken.
ThreadsInit ==
  /\ tnobitmap = 0 .. Occupied
  /\ threads = {} /\ addrspaces = {} /\ running = {} /\ caps = {}
  /\ head = [s \in AddrSpaces |-> 0]
  /\ slots = [s \in AddrSpaces |-> {}]
  /\ launched = 0 /\ clock = 0 /\ serial = 0

Booted == launched = BootModules

\* The tail that thread_new and task_new share: the record goes into the list,
\* both bitmaps are marked.
AddThread(s, tno, i, c) ==
  /\ serial < MaxCreations
  /\ Now(c)
  /\ threads' = threads \cup
       {[tid |-> tno, space |-> s, index |-> i, creation |-> c, born |-> serial]}
  /\ tnobitmap' = tnobitmap \cup {tno}
  /\ clock' = c
  /\ serial' = serial + 1

\* task_new: a thread number, a new address space and its thread with slot 0.
\* The result of the second ThreadControl, which gives the thread its pager,
\* is ignored: the thread may be left unable to run.
TaskNew(s) ==
  /\ s \notin addrspaces
  /\ \E tno \in Number, c \in Instant : \E set \in {{}, {tno}} :
       /\ FindFree(tnobitmap, MaxTasks, tno) /\ tno # 0
       /\ AddThread(s, tno, 0, c)
       /\ addrspaces' = addrspaces \cup {s}
       /\ head' = [head EXCEPT ![s] = tno]
       /\ slots' = [slots EXCEPT ![s] = {0}]
       /\ running' = running \cup set

\* Mutant: the slot is not marked in the space.
MutSlotUnmarked(s) ==
  \E tno \in Number, i \in Slot, c \in Instant :
    /\ FindFree(tnobitmap, MaxTasks, tno) /\ tno # 0
    /\ FindFree(slots[s], MaxThreads, i) /\ i # 0
    /\ AddThread(s, tno, i, c)
    /\ running' = running \cup {tno}
    /\ UNCHANGED <<addrspaces, head, slots>>

\* thread_new: a number and a free slot; slot 0 counts as "none free".
ThreadNew(s) ==
  \E tno \in Number, i \in Slot, c \in Instant :
    /\ FindFree(tnobitmap, MaxTasks, tno) /\ tno # 0
    /\ FindFree(slots[s], MaxThreads, i) /\ i # 0
    /\ AddThread(s, tno, i, c)
    /\ slots' = [slots EXCEPT ![s] = @ \cup {i}]
    /\ running' = running \cup {tno}
    /\ UNCHANGED <<addrspaces, head>>

\* Mutant: the thread's number is not freed.
MutNumberLost(t) ==
  /\ threads' = threads \ {t}
  /\ UNCHANGED tnobitmap
  /\ running' = running \ {t.tid}
  /\ slots' = [slots EXCEPT ![t.space] = @ \ {t.index}]
  /\ LET rest == ThreadsOf(t.space) \ {t}
     IN  IF t.tid # head[t.space] THEN UNCHANGED <<addrspaces, head>>
         ELSE IF rest = {} THEN addrspaces' = addrspaces \ {t.space} /\ UNCHANGED head
         ELSE /\ \E u \in rest : head' = [head EXCEPT ![t.space] = u.tid]
              /\ UNCHANGED addrspaces

\* Mutant: the space goes with the thread that stood for it.
MutNoSuccessor(t) ==
  /\ threads' = threads \ {t}
  /\ tnobitmap' = tnobitmap \ {t.tid}
  /\ running' = running \ {t.tid}
  /\ slots' = [slots EXCEPT ![t.space] = @ \ {t.index}]
  /\ addrspaces' = IF t.tid = head[t.space] THEN addrspaces \ {t.space} ELSE addrspaces
  /\ UNCHANGED head

\* Mutant: the result of ThreadControl is not looked at.
MutHopesForTheBest(t) ==
  /\ threads' = threads \ {t}
  /\ tnobitmap' = tnobitmap \ {t.tid}
  /\ running' \in {running, running \ {t.tid}}
  /\ slots' = [slots EXCEPT ![t.space] = @ \ {t.index}]
  /\ LET rest == ThreadsOf(t.space) \ {t}
     IN  IF t.tid # head[t.space] THEN UNCHANGED <<addrspaces, head>>
         ELSE IF rest = {} THEN addrspaces' = addrspaces \ {t.space} /\ UNCHANGED head
         ELSE /\ \E u \in rest : head' = [head EXCEPT ![t.space] = u.tid]
              /\ UNCHANGED addrspaces

\* thread_destroy, once the kernel has deleted the thread.  If the thread stood
\* for its space, another thread of the space takes its place; if there is
\* none, the space is destroyed.
ThreadDestroy(t) ==
  /\ threads' = threads \ {t}
  /\ tnobitmap' = tnobitmap \ {t.tid}
  /\ running' = running \ {t.tid}
  /\ slots' = [slots EXCEPT ![t.space] = @ \ {t.index}]
  /\ LET rest == ThreadsOf(t.space) \ {t}
     IN  IF t.tid # head[t.space] THEN UNCHANGED <<addrspaces, head>>
         ELSE IF rest = {} THEN addrspaces' = addrspaces \ {t.space} /\ UNCHANGED head
         ELSE /\ \E u \in rest : head' = [head EXCEPT ![t.space] = u.tid]
              /\ UNCHANGED addrspaces

\* Mutant: only the thread id is compared.
MutIdOnly(cap) == {t \in threads : t.tid = cap.object}

\* thread_from_capability: the thread with that id, if the protection code was
\* made from its creation time.
FromCapability(cap) ==
  {t \in threads : t.tid = cap.object /\ t.creation = cap.secret}

\* thread_get_capability, for a thread in the list.
CapabilityOf(t) == [object |-> t.tid, secret |-> t.creation, born |-> t.born]

-----------------------------------------------------------------------------
\* main's boot loop: launch one program.
Launch ==
  /\ ~ Booted
  /\ \E s \in AddrSpaces : TaskNew(s)
  /\ launched' = launched + 1
  /\ UNCHANGED caps

\* TaskManager_NewTask and TaskManager_NewThread, for a client with the right
\* capability.  A client names the space by the id of one of its threads.
NewTask ==
  /\ Booted /\ running # {}
  /\ "newtask" \in Published
  /\ \E s \in AddrSpaces : TaskNew(s)
  /\ UNCHANGED <<caps, launched>>

NewThread ==
  /\ Booted /\ running # {}
  /\ "newthread" \in Published
  /\ \E t \in threads : ThreadNew(t.space)
  /\ caps' = caps \cup {CapabilityOf(t) : t \in threads' \ threads}
  /\ UNCHANGED launched

\* TaskManager_GetMyCapability: a thread asks for the capability of itself.
GetMyCapability ==
  /\ Booted
  /\ \E t \in threads : t.tid \in running /\ caps' = caps \cup {CapabilityOf(t)}
  /\ UNCHANGED <<tnobitmap, threads, addrspaces, head, slots, running, launched, clock, serial>>

\* TaskManager_DestroyThread, by whoever holds a capability of the thread.
DestroyThread ==
  /\ Booted /\ running # {}
  /\ \E cap \in caps : \E t \in FromCapability(cap) : ThreadDestroy(t)
  /\ UNCHANGED <<caps, launched, clock, serial>>

ThreadsNext == Launch \/ NewTask \/ NewThread \/ GetMyCapability \/ DestroyThread

ThreadsSpec == ThreadsInit /\ [][ThreadsNext]_threadvars

-----------------------------------------------------------------------------
ThreadsTypeOK ==
  /\ tnobitmap \subseteq Number
  /\ threads \subseteq ThreadRecord
  /\ addrspaces \subseteq AddrSpaces
  /\ head \in [AddrSpaces -> Number]
  /\ slots \in [AddrSpaces -> SUBSET Slot]
  /\ running \subseteq Number
  /\ caps \subseteq Capability
  /\ launched \in Nat /\ clock \in Nat /\ serial \in Nat

\* A number is marked exactly while it is reserved or one thread in the list
\* has it: no number is lost, none is given to two threads.
NumbersExact ==
  /\ tnobitmap = (0 .. Occupied) \cup Tids
  /\ \A t \in threads : t.tid > Occupied
  /\ \A t, u \in threads : t.tid = u.tid => t = u

\* The slots marked in a space are those of its threads, each thread has its
\* own: no two threads share a UTCB or a stack area.
SlotsExact ==
  /\ \A s \in addrspaces : slots[s] = {t.index : t \in ThreadsOf(s)}
  /\ \A t, u \in threads : t.space = u.space /\ t.index = u.index => t = u

\* A space exists exactly while it has threads, and as->tid, by which the
\* kernel is told the space when a thread is added, is one of them.
SpaceStandsForThreads ==
  /\ \A t \in threads : t.space \in addrspaces
  /\ \A s \in addrspaces : \E t \in ThreadsOf(s) : t.tid = head[s]

\* What the kernel may run, the list knows: no thread survives its record and
\* runs on under a number that is given out again.
RunningIsListed == running \subseteq Tids

\* Once the clock has gone on since the thread of a capability was created, no thread
\* that is created comes to be named by it, whatever number it is given: that of a
\* thread that is gone is given out again (thread_from_capability).
StaleCapabilitiesNameNoNewThread ==
  [][\A cap \in caps :
       cap.secret < clock' => FromCapability(cap)' \subseteq FromCapability(cap)]_threadvars

\* What a capability proves (overview.txt) is the right to one thread: it acts on no
\* other, even when the thread is gone and its number belongs to another one.  It is
\* not so if both were created in one tick of the clock, whose reading is all that
\* thread_from_capability has to tell them apart by.
CapabilityNamesOneThread ==
  \A cap \in caps : \A t \in FromCapability(cap) : t.born = cap.born
=============================================================================
