----------------------------- MODULE PagerRace -----------------------------
(***************************************************************************)
(* The two threads of the root task while the system comes up: main        *)
(* launches programs one after another (olymp.c) and asks for the pages of *)
(* each (elf.c, thread.c), while the pager thread asks for the pages that  *)
(* the programs already running touch (memory_manager.c).  Both run        *)
(* address_space_request_page (memory.c) on the same bitmap and on the     *)
(* same pool of slabs.  kmalloc has a lock of its own, memlock; the pool   *)
(* and the lists have none.  Each access of the head of the pool is a step *)
(* here (the code is compiled without optimization), searching a list, and *)
(* filling in a record, is one.                                            *)
(*                                                                         *)
(* Memory models the same operations one at a time and in full.  Here all  *)
(* requests are for one page, more_core finds no memory for the pool, and  *)
(* tasks are not destroyed.                                                *)
(***************************************************************************)
EXTENDS Integers

CONSTANTS
  Programs,   \* 1 .. the number of boot modules, in their order
  Image,   \* the pages that main loads of a program's image
  Stack,      \* the page of its stack
  Touched,    \* the pages that a running program touches
  NFrames,    \* the page frames are 1 .. NFrames
  NSlabs      \* the slabs of mempool are 1 .. NSlabs

Pages == Image \cup {Stack} \cup Touched
Frames == 1 .. NFrames
Slabs == 1 .. NSlabs
Threads == {"main", "pager"}

ASSUME CountAssumption == NFrames \in Nat /\ NSlabs \in Nat
ASSUME ProgramAssumption == Programs \subseteq Nat /\ 1 \in Programs /\ Stack \notin Image

Null == 0       \* no slab; used as one, the memory at address 0
End == 0 - 1    \* the end of a list of pages
Records == Slabs \cup {Null}
Nobody == "nobody"
Blank == [page |-> Stack, frame |-> Null]

VARIABLES
  pagebitmap,    \* the frames whose bit is 1
  memlock,   \* the thread that holds it, or Nobody
  thrlock,   \* main holds it, to start a program
  first,     \* head of mempool's free list
  snext,     \* snext[b]: the next slab on the free list
  lnext,     \* lnext[b]: the next page on the list of a space
  content,   \* content[b]: the mempage in slab b
  memory,    \* memory[s]: head of the list of space s
  loaded,    \* loaded[s]: the pages that main has asked for
  active,   \* the programs that were started
  pc, job,   \* where thread t is, and in which request [space, page]
  sb, nxt,   \* the slab that t took and the one it read to come next
  start,     \* the frame that t found
  answers    \* what was answered: [space, page, frame]

poolvars == <<first, snext>>
lists == <<lnext, content, memory>>
boot == <<thrlock, loaded, active>>
racevars == <<pagebitmap, memlock, poolvars, lists, boot, pc, job, sb, nxt, start, answers>>

RaceInit ==
  /\ pagebitmap = {} /\ memlock = Nobody /\ thrlock = FALSE
  /\ first = (IF NSlabs = 0 THEN Null ELSE 1)
  /\ snext = [b \in Records |-> IF b \in {Null, NSlabs} THEN Null ELSE b + 1]
  /\ lnext = [b \in Records |-> End]
  /\ content = [b \in Records |-> Blank]
  /\ memory = [s \in Programs |-> End]
  /\ loaded = [s \in Programs |-> {}]
  /\ active = {}
  /\ pc = [t \in Threads |-> "idle"]
  /\ job = [t \in Threads |-> [space |-> 1, page |-> Stack]]
  /\ sb = [t \in Threads |-> Null]
  /\ nxt = [t \in Threads |-> Null]
  /\ start = [t \in Threads |-> Null]
  /\ answers = {}

Goto(t, place) == pc' = [pc EXCEPT ![t] = place]

\* The records on the list of space s, in the order of the search, and whether
\* the list has an end.
Walk(s) ==
  LET place[n \in 0 .. NSlabs + 1] ==
        IF n = 0 THEN memory[s] ELSE IF place[n - 1] = End THEN End ELSE lnext[place[n - 1]]
  IN  place
OnList(s) == {Walk(s)[n] : n \in 0 .. NSlabs} \ {End}
Ends(s) == Walk(s)[NSlabs + 1] = End

-----------------------------------------------------------------------------
\* The callers.  main loads the segments of the first program that does not
\* run, then takes thrlock, asks for the stack, and starts it.
Request(t, s, page) ==
  /\ pc[t] = "idle"
  /\ Goto(t, "search")
  /\ job' = [job EXCEPT ![t] = [space |-> s, page |-> page]]
  /\ UNCHANGED <<pagebitmap, memlock, poolvars, lists, active, sb, nxt, start, answers>>

ToLaunch(s) == s \notin active /\ \A r \in Programs : r < s => r \in active

Load(s) ==
  /\ ToLaunch(s)
  /\ \E page \in Image \ loaded[s] :
       /\ Request("main", s, page)
       /\ loaded' = [loaded EXCEPT ![s] = @ \cup {page}]
  /\ UNCHANGED thrlock

PrepareStack(s) ==
  /\ ToLaunch(s)
  /\ loaded[s] = Image
  /\ Request("main", s, Stack)
  /\ loaded' = [loaded EXCEPT ![s] = @ \cup {Stack}]
  /\ thrlock' = TRUE

Start(s) ==
  /\ ToLaunch(s)
  /\ Stack \in loaded[s] /\ pc["main"] = "idle"
  /\ active' = active \cup {s}
  /\ thrlock' = FALSE
  /\ UNCHANGED <<pagebitmap, memlock, poolvars, lists, loaded, pc, job, sb, nxt, start, answers>>

\* The pager looks up the thread, for which it needs thrlock for a moment.
PageFault(s) ==
  /\ s \in active
  /\ ~thrlock
  /\ \E page \in Touched : Request("pager", s, page)
  /\ UNCHANGED <<thrlock, loaded>>

-----------------------------------------------------------------------------
\* address_space_request_page.  A page that is on the list is the answer.
Answer(t, frame) ==
  /\ Goto(t, "idle")
  /\ answers' = answers \cup
       {[space |-> job[t].space, page |-> job[t].page, frame |-> frame]}

Found(t) ==
  /\ pc[t] = "search"
  /\ \E b \in OnList(job[t].space) :
       content[b].page = job[t].page /\ Answer(t, content[b].frame)
  /\ UNCHANGED <<pagebitmap, memlock, poolvars, lists, boot, job, sb, nxt, start>>

NoMatch(t) ==
  /\ pc[t] = "search"
  /\ \A b \in OnList(job[t].space) : content[b].page # job[t].page

\* A list that bites its tail is searched for ever.
Spin(t) == NoMatch(t) /\ ~Ends(job[t].space) /\ UNCHANGED racevars

\* slab_alloc: is there a slab?
NotFound(t) ==
  /\ NoMatch(t)
  /\ Ends(job[t].space)
  /\ Goto(t, IF first = Null THEN "idle" ELSE "take")
  /\ UNCHANGED <<pagebitmap, memlock, poolvars, lists, boot, job, sb, nxt, start, answers>>

\* tmp = first; first = first->next.
Take(t) ==
  /\ pc[t] = "take"
  /\ sb' = [sb EXCEPT ![t] = first]
  /\ Goto(t, "advance")
  /\ UNCHANGED <<pagebitmap, memlock, poolvars, lists, boot, job, nxt, start, answers>>

\* If the other thread has taken the last slab, this reads from address 0.
ReadNext(t) ==
  /\ pc[t] = "advance"
  /\ \E b \in Records :
       /\ first # Null => b = snext[first]
       /\ nxt' = [nxt EXCEPT ![t] = b]
  /\ Goto(t, "store")
  /\ UNCHANGED <<pagebitmap, memlock, poolvars, lists, boot, job, sb, start, answers>>

StoreNext(t) ==
  /\ pc[t] = "store"
  /\ first' = nxt[t]
  /\ Goto(t, "lock")
  /\ UNCHANGED <<pagebitmap, memlock, snext, lists, boot, job, sb, nxt, start, answers>>

\* kmalloc.  Mutant: the lock is not waited for.
MutNotWaited(t) ==
  /\ pc[t] = "lock"
  /\ memlock' = t
  /\ Goto(t, "find")
  /\ UNCHANGED <<pagebitmap, poolvars, lists, boot, job, sb, nxt, start, answers>>

Lock(t) ==
  /\ pc[t] = "lock"
  /\ memlock = Nobody
  /\ memlock' = t
  /\ Goto(t, "find")
  /\ UNCHANGED <<pagebitmap, poolvars, lists, boot, job, sb, nxt, start, answers>>

Find(t) ==
  /\ pc[t] = "find"
  /\ \E f \in Frames \ pagebitmap :
       /\ \A g \in Frames \ pagebitmap : f <= g
       /\ start' = [start EXCEPT ![t] = f]
  /\ Goto(t, "mark")
  /\ UNCHANGED <<pagebitmap, memlock, poolvars, lists, boot, job, sb, nxt, answers>>

NothingFree(t) ==
  /\ pc[t] = "find" /\ Frames \subseteq pagebitmap
  /\ memlock' = Nobody
  /\ Goto(t, "link")
  /\ UNCHANGED <<pagebitmap, poolvars, lists, boot, job, sb, nxt, start, answers>>

\* slab_free, again without a lock: object->next = first; first = object.
LinkSlab(t) ==
  /\ pc[t] = "link"
  /\ snext' = [snext EXCEPT ![sb[t]] = first]
  /\ Goto(t, "free")
  /\ UNCHANGED <<pagebitmap, memlock, first, lists, boot, job, sb, nxt, start, answers>>

FreeSlab(t) ==
  /\ pc[t] = "free"
  /\ first' = sb[t]
  /\ Goto(t, "idle")
  /\ UNCHANGED <<pagebitmap, memlock, snext, lists, boot, job, sb, nxt, start, answers>>

Mark(t) ==
  /\ pc[t] = "mark"
  /\ pagebitmap' = pagebitmap \cup {start[t]}
  /\ memlock' = Nobody
  /\ Goto(t, "fill")
  /\ UNCHANGED <<poolvars, lists, boot, job, sb, nxt, start, answers>>

\* The mempage is filled in and pushed on the list of the space.
Fill(t) ==
  /\ pc[t] = "fill"
  /\ content' = [content EXCEPT ![sb[t]] = [page |-> job[t].page, frame |-> start[t]]]
  /\ lnext' = [lnext EXCEPT ![sb[t]] = memory[job[t].space]]
  /\ Goto(t, "push")
  /\ UNCHANGED <<pagebitmap, memlock, poolvars, memory, boot, job, sb, nxt, start, answers>>

Push(t) ==
  /\ pc[t] = "push"
  /\ memory' = [memory EXCEPT ![job[t].space] = sb[t]]
  /\ Answer(t, start[t])
  /\ UNCHANGED <<pagebitmap, memlock, poolvars, lnext, content, boot, job, sb, nxt, start>>

RaceNext ==
  \/ \E s \in Programs : Load(s) \/ PrepareStack(s) \/ Start(s) \/ PageFault(s)
  \/ \E t \in Threads :
       \/ Found(t) \/ Spin(t) \/ NotFound(t)
       \/ Take(t) \/ ReadNext(t) \/ StoreNext(t)
       \/ Lock(t) \/ Find(t) \/ NothingFree(t) \/ Mark(t)
       \/ LinkSlab(t) \/ FreeSlab(t) \/ Fill(t) \/ Push(t)

RaceSpec == RaceInit /\ [][RaceNext]_racevars

-----------------------------------------------------------------------------
\* Whoever is between kmalloc's two ends, and nobody else, holds memlock.
RaceTypeOK ==
  /\ pagebitmap \subseteq Frames
  /\ first \in Records
  /\ snext \in [Records -> Records]
  /\ lnext \in [Records -> Records \cup {End}]
  /\ memory \in [Programs -> Records \cup {End}]
  /\ \A t \in Threads : memlock = t <=> pc[t] \in {"find", "mark"}

\* In any interleaving of the two threads a frame is granted to one request:
\* what kmalloc found free is still free when it takes it.
GrantedOnce == \A t \in Threads : pc[t] = "mark" => start[t] \notin pagebitmap

\* "finds a free site, assigned the task address space" (overview.txt:127): no
\* frame is ever answered to two programs.
NoForeignPage ==
  \A a, b \in answers : a.frame = b.frame => a.space = b.space
=============================================================================
