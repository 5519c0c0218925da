------------------------------- MODULE Memory -------------------------------
(***************************************************************************)
(* The root memory manager (olymp: memory.c, bitmap.c, slab.c's pools, and *)
(* the handler of memory_manager.c), one operation at a time: the bitmap   *)
(* of page frames, kmalloc and kfree, the address spaces with their lists  *)
(* of mempages, page faults, and what the kernel has mapped in answer to   *)
(* them.  The interleavings of the pager thread with the main thread are   *)
(* the subject of PagerRace.                                               *)
(*                                                                         *)
(* Addresses and sizes are counted in pages.  A mempage is a block of      *)
(* frames with the space it belongs to and its virtual base; a block that  *)
(* kmalloc gave to the root task itself belongs to Root.  A slab pool is   *)
(* the number of slabs on its free list: which slab comes off is left out. *)
(***************************************************************************)
EXTENDS Integers, FiniteSets

CONSTANTS
  NPages,        \* MEMORY_CAPACITY / PAGE_SIZE
  LowPages,      \* frames below 1 MB, which memory_init sets aside
  VideoPage,     \* frame of 0xb8000, mapped to whoever touches it
  Spaces,        \* identities of address spaces
  Root,          \* the root task as owner of a block
  Free, Reserved,\* owners in the abstract view
  RamChoices,    \* the sets of frames that sigma0 may hand over
  Faults,        \* virtual page numbers that programs touch
  Segments,      \* [base, size]: what elf_load32 and thread_prepare_stack ask for
  KernelSizes,   \* sizes the root task kmallocs for itself (thread stacks)
  InitialSlabs,  \* slabs per pool that memory_init starts with
  RefillPages,   \* frames of one more_core block
  RefillSlabs    \* slabs in one more_core block

\* A request is never larger than the memory: total - size would wrap.
Frame == 0 .. NPages - 1
Low == 0 .. LowPages - 1
Pools == {"mempage", "addrspace"}

Block(start, size) == start .. (start + size - 1)

\* Fpage arithmetic: L4_Address masks the bits below the size.
FpageAddress(start, size) == start - (start % size)
VirtualRange(v) == Block(FpageAddress(v.base, v.size), v.size)

ASSUME SizeAssumption == NPages \in Nat /\ LowPages \in 1 .. NPages
ASSUME VideoAssumption == VideoPage \in Low
ASSUME OwnerAssumption ==
  /\ Root \notin Spaces
  /\ Free \notin Spaces \cup {Root, Reserved}
  /\ Reserved \notin Spaces \cup {Root, Free}
ASSUME RequestAssumption ==
  /\ Faults \subseteq Nat
  /\ RamChoices \subseteq SUBSET Frame
  /\ Segments \subseteq [base : Nat, size : 1 .. NPages]
  /\ KernelSizes \subseteq 1 .. NPages
\* A program's segments and its stack do not overlap, and none covers a device
\* page: ld -N makes one loadable segment far from the stack at STACK_BASE.
ASSUME SegmentAssumption ==
  \A v \in Segments :
    /\ VirtualRange(v) \cap {0, VideoPage} = {}
    /\ \A w \in Segments : v # w => VirtualRange(v) \cap VirtualRange(w) = {}
ASSUME SlabAssumption ==
  /\ InitialSlabs \in Nat
  /\ RefillPages \in 1 .. NPages /\ RefillSlabs \in Nat \ {0}

VARIABLES
  ram,       \* the frames sigma0 handed over; fixed after memory_init
  bitmap,    \* the frames whose bit is 1
  blocks,    \* outstanding kmalloc blocks [space, base, size, frame]
  spaces,    \* the address spaces that exist
  started,   \* those whose program has been started
  pool,      \* pool[p]: length of the free list of slab pool p
  mapped     \* what the kernel has mapped: [space, addr, frame]

vars == <<ram, bitmap, blocks, spaces, started, pool, mapped>>

FramesOf(b) == Block(b.frame, b.size)

-----------------------------------------------------------------------------
\* Mutant: only the first page of a candidate is tested.
MutFirstPageOnly(bm, size) ==
  {p \in Frame : p % size = 0 /\ p < NPages - size /\ p \notin bm}

\* Mutant: the scan goes on by one page instead of by the size.
MutUnaligned(bm, size) ==
  {p \in Frame : p < NPages - size /\ Block(p, size) \cap bm = {}}

(* bitmap_find_pages and kmalloc.  The scan steps by the size of the       *)
(* request, stops before the last possible block (page < total - size) and *)
(* returns 0 both for "none" and for page 0.                               *)
Fit(bm, size) ==
  {p \in Frame : /\ p % size = 0
                 /\ p < NPages - size
                 /\ Block(p, size) \cap bm = {}}

FindPages(bm, size, p) ==
  IF Fit(bm, size) = {} THEN p = 0
  ELSE p \in Fit(bm, size) /\ \A q \in Fit(bm, size) : p <= q

\* A block given to s; none when kmalloc returned 0.
NewBlocks(s, base, size, f) ==
  IF f = 0 THEN {} ELSE {[space |-> s, base |-> base, size |-> size, frame |-> f]}
NewFrames(size, f) == IF f = 0 THEN {} ELSE Block(f, size)

\* slab_alloc on a pool of n slabs: r is the block that more_core (kmalloc)
\* fetched, or 0; the pool then has SlabsAfter(n, r) slabs, none if it failed.
MoreCore(n, bm, r) == IF n > 0 THEN r = 0 ELSE FindPages(bm, RefillPages, r)
SlabsAfter(n, r) == IF r = 0 THEN n ELSE n + RefillSlabs
CoreFrames(r) == NewFrames(RefillPages, r)
CoreBlocks(r) == NewBlocks(Root, 0, RefillPages, r)

-----------------------------------------------------------------------------
\* memory_init: everything is busy but what sigma0 hands over; the first
\* megabyte is set aside again; the pools get their static buffers.
Init ==
  /\ ram \in RamChoices
  /\ bitmap = Low \cup (Frame \ ram)
  /\ blocks = {} /\ spaces = {} /\ started = {} /\ mapped = {}
  /\ pool = [p \in Pools |-> InitialSlabs]

\* kmalloc by the root task itself: the stack of a local thread, never freed.
RootKmalloc(size) ==
  /\ \E f \in Frame :
       /\ FindPages(bitmap, size, f)
       /\ bitmap' = bitmap \cup NewFrames(size, f)
       /\ blocks' = blocks \cup NewBlocks(Root, 0, size, f)
  /\ UNCHANGED <<ram, spaces, started, pool, mapped>>

\* address_space_new.  SpaceControl may refuse; then the slab goes back, but
\* what slab_alloc fetched for the pool stays.
AddressSpaceNew(s) ==
  /\ s \notin spaces
  /\ \E r \in Frame, accepted \in BOOLEAN :
       LET n == SlabsAfter(pool["addrspace"], r)
       IN  /\ MoreCore(pool["addrspace"], bitmap, r)
           /\ n > 0
           /\ bitmap' = bitmap \cup CoreFrames(r)
           /\ blocks' = blocks \cup CoreBlocks(r)
           /\ pool' = [pool EXCEPT !["addrspace"] = IF accepted THEN n - 1 ELSE n]
           /\ spaces' = IF accepted THEN spaces \cup {s} ELSE spaces
  /\ UNCHANGED <<ram, started, mapped>>

\* Mutant: one page too many is freed (size / PAGE_SIZE + 1).
MutFreesOneMore(B) == UNION {Block(FpageAddress(b.frame, b.size), b.size + 1) : b \in B}

\* Mutant: a block is freed as if it were one page.
MutFreesOnePage(B) == {FpageAddress(b.frame, b.size) : b \in B}

\* kfree of a block: the bits of the fpage's address range are cleared.
Freed(B) == UNION {Block(FpageAddress(b.frame, b.size), b.size) : b \in B}

\* address_space_destroy: the frames go back to the bitmap and the space to
\* its pool; the mempage records popped from the list go nowhere.  The kernel
\* drops the space's mappings with its last thread.
AddressSpaceDestroy(s) ==
  /\ s \in spaces
  /\ LET B == {b \in blocks : b.space = s}
     IN  bitmap' = bitmap \ Freed(B) /\ blocks' = blocks \ B
  /\ pool' = [pool EXCEPT !["addrspace"] = @ + 1]
  /\ spaces' = spaces \ {s}
  /\ started' = started \ {s}
  /\ mapped' = {m \in mapped : m.space # s}
  /\ UNCHANGED ram

\* address_space_request_page past its exact-match search; f is the frame, 0
\* if there is none.
RequestPage(s, base, size, f) ==
  /\ ~ \E b \in blocks : b.space = s /\ b.base = base /\ b.size = size
  /\ \E r \in Frame :
       LET n  == SlabsAfter(pool["mempage"], r)
           bm == bitmap \cup CoreFrames(r)
       IN  /\ MoreCore(pool["mempage"], bitmap, r)
           /\ n > 0
           /\ FindPages(bm, size, f)
           /\ bitmap' = bm \cup NewFrames(size, f)
           /\ blocks' = blocks \cup CoreBlocks(r) \cup NewBlocks(s, base, size, f)
           /\ pool' = [pool EXCEPT !["mempage"] = IF f = 0 THEN n ELSE n - 1]

\* elf_load32 and thread_prepare_stack: memory for a task not yet running.
LoadSegment(s) ==
  /\ s \in spaces \ started
  /\ \E v \in Segments, f \in Frame : RequestPage(s, v.base, v.size, f)
  /\ UNCHANGED <<ram, spaces, started, mapped>>

\* thread_start: the program runs, whether or not its segments were loaded
\* (launch ignores the result of elf_load32).
ThreadStart(s) ==
  /\ s \in spaces \ started
  /\ started' = started \cup {s}
  /\ UNCHANGED <<ram, bitmap, blocks, spaces, pool, mapped>>

\* Mutant: only the first page of a mempage is looked at.
MutContains(b, s, a) == b.space = s /\ a = FpageAddress(b.base, b.size)

\* address_space_contains: a block whose virtual range holds page a.
Contains(b, s, a) == b.space = s /\ a \in VirtualRange(b)

\* What the pager's answer lets the kernel map.
MappingOf(b) ==
  {[space |-> b.space,
    addr  |-> FpageAddress(b.base, b.size) + i,
    frame |-> FpageAddress(b.frame, b.size) + i] : i \in 0 .. b.size - 1}

\* Pager_pagefault for video memory and for page 0: one frame for everybody.
FaultOnDevice(s, a) ==
  /\ s \in started
  /\ a \in {0, VideoPage}
  /\ mapped' = mapped \cup {[space |-> s, addr |-> a, frame |-> a]}
  /\ UNCHANGED <<ram, bitmap, blocks, spaces, started, pool>>

\* Pager_pagefault on a page that already has memory: it is mapped again.
FaultOnKnown(s, a) ==
  /\ s \in started
  /\ a >= LowPages
  /\ \E b \in blocks : Contains(b, s, a) /\ mapped' = mapped \cup MappingOf(b)
  /\ UNCHANGED <<ram, bitmap, blocks, spaces, started, pool>>

\* Pager_pagefault on a new page; without memory there is no answer.  Any
\* other address below 1 MB has no answer either.
FaultOnNew(s, a) ==
  /\ s \in started
  /\ a >= LowPages
  /\ ~ \E b \in blocks : Contains(b, s, a)
  /\ \E f \in Frame :
       /\ RequestPage(s, a, 1, f)
       /\ mapped' = mapped \cup UNION {MappingOf(b) : b \in NewBlocks(s, a, 1, f)}
  /\ UNCHANGED <<ram, spaces, started>>

Next ==
  \/ \E size \in KernelSizes : RootKmalloc(size)
  \/ \E s \in Spaces :
       \/ AddressSpaceNew(s) \/ AddressSpaceDestroy(s)
       \/ LoadSegment(s) \/ ThreadStart(s)
       \/ \E a \in Faults :
            FaultOnDevice(s, a) \/ FaultOnKnown(s, a) \/ FaultOnNew(s, a)

Spec == Init /\ [][Next]_vars

-----------------------------------------------------------------------------
ReservedFrames == Low \cup (Frame \ ram)

BlockType ==
  [space : Spaces \cup {Root}, base : Nat, size : 1 .. NPages, frame : Frame]

TypeOK ==
  /\ ram \subseteq Frame /\ bitmap \subseteq Frame
  /\ blocks \subseteq BlockType
  /\ spaces \subseteq Spaces /\ started \subseteq spaces
  /\ pool \in [Pools -> Nat]
  /\ mapped \subseteq [space : Spaces, addr : Nat, frame : Frame]

\* A frame is busy in the bitmap exactly when it is reserved or belongs to an
\* outstanding block: nothing is lost and nothing is free too early
\* (bitmap_set in kmalloc, bitmap_clear in kfree, the masking of L4_Address).
BitmapExact == bitmap = ReservedFrames \cup UNION {FramesOf(b) : b \in blocks}

\* No frame is in two outstanding blocks, and none is in a reserved place.
BlocksDisjoint ==
  /\ \A b, c \in blocks : b # c => FramesOf(b) \cap FramesOf(c) = {}
  /\ \A b \in blocks : FramesOf(b) \cap ReservedFrames = {}

\* Whatever the kernel has mapped for a program is memory the program owns
\* now, or one of the two device pages: no program keeps or gets the frame of
\* another one (Pager_pagefault, address_space_destroy).
MappedIsOwned ==
  \A m \in mapped :
    \/ m.frame \in {0, VideoPage} /\ m.addr = m.frame
    \/ \E b \in blocks : b.space = m.space /\ m.frame \in FramesOf(b)

\* A page of a program is always served from the same frame: answering a
\* fault again never shows the program other contents (address_space_contains
\* before address_space_request_page).
ServedFromOneFrame ==
  \A m, n \in mapped : m.space = n.space /\ m.addr = n.addr => m.frame = n.frame

\* The bitmap and the lists implement the abstract ownership of frames.
OwnerIn(bm, B) ==
  [f \in Frame |->
    IF \E b \in B : f \in FramesOf(b)
    THEN (CHOOSE b \in B : f \in FramesOf(b)).space
    ELSE IF f \in bm THEN Reserved ELSE Free]
Abstract == INSTANCE FrameOwnership
              WITH Frames <- Frame, Owners <- Spaces \cup {Root},
                   owner <- OwnerIn(bitmap, blocks)
ImplementsFrameOwnership == Abstract!Spec
=============================================================================
