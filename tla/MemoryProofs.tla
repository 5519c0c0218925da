---------------------------- MODULE MemoryProofs ----------------------------
(***************************************************************************)
(* Proofs about the root memory manager, for any size of the machine, any  *)
(* set of address spaces and any requests.                                 *)
(*                                                                         *)
(* Consistent(bm, B) says that the bitmap bm and the outstanding blocks B  *)
(* agree.  Two lemmas carry everything: a block found by kmalloc may be    *)
(* added, and any set of blocks may be freed.                              *)
(***************************************************************************)
EXTENDS Memory, TLAPS

Sound(b) ==
  /\ b.frame % b.size = 0
  /\ b.frame + b.size <= NPages
  /\ FramesOf(b) \cap ReservedFrames = {}

Consistent(bm, B) ==
  /\ ReservedFrames \subseteq bm
  /\ bm \subseteq Frame
  /\ B \subseteq BlockType
  /\ \A b \in B : Sound(b) /\ FramesOf(b) \subseteq bm
  /\ \A b, c \in B : b # c => FramesOf(b) \cap FramesOf(c) = {}
  /\ \A f \in bm : f \in ReservedFrames \/ \E b \in B : f \in FramesOf(b)

\* The inductive invariant of the allocator.
Allocation ==
  /\ TypeOK
  /\ Consistent(bitmap, blocks)
  /\ \A b \in blocks : b.space \in spaces \cup {Root}

\* bitmap_find_pages answers 0, or an aligned run of free frames inside memory.
LEMMA FindPagesFinds ==
  ASSUME NEW bm \in SUBSET Frame, 0 \in bm,
         NEW size \in 1 .. NPages, NEW f \in Frame,
         FindPages(bm, size, f), f # 0
  PROVE  /\ f % size = 0
         /\ f + size <= NPages
         /\ Block(f, size) \cap bm = {}
         /\ Block(f, size) \subseteq Frame
<1>1. f \in Fit(bm, size)
  BY DEF FindPages
<1>2. f % size = 0 /\ f < NPages - size /\ Block(f, size) \cap bm = {}
  BY <1>1 DEF Fit
<1>3. NPages \in Nat
  BY SizeAssumption
<1> QED
  BY <1>2, <1>3 DEF Block, Frame

\* Page 0 is among the reserved frames, so 0 can stand for "none".
LEMMA ZeroReserved == 0 \in ReservedFrames /\ 0 \in Frame
BY SizeAssumption DEF ReservedFrames, Low, Frame

\* What kmalloc finds can be added to a consistent state.
LEMMA AddBlock ==
  ASSUME NEW bm, NEW B, Consistent(bm, B),
         NEW s \in Spaces \cup {Root}, NEW base \in Nat,
         NEW size \in 1 .. NPages, NEW f \in Frame,
         FindPages(bm, size, f)
  PROVE  Consistent(bm \cup NewFrames(size, f), B \cup NewBlocks(s, base, size, f))
<1>1. CASE f = 0
  BY <1>1 DEF NewFrames, NewBlocks
<1>2. CASE f # 0
  <2> DEFINE new == [space |-> s, base |-> base, size |-> size, frame |-> f]
             bm2 == bm \cup Block(f, size)
             B2 == B \cup {new}
  <2>1. bm \in SUBSET Frame /\ 0 \in bm
    BY ZeroReserved DEF Consistent
  <2>2. /\ f % size = 0 /\ f + size <= NPages
        /\ Block(f, size) \cap bm = {} /\ Block(f, size) \subseteq Frame
    BY <2>1, <1>2, FindPagesFinds
  <2>3. new \in BlockType /\ FramesOf(new) = Block(f, size)
    BY DEF BlockType, FramesOf
  <2>4. Sound(new)
    BY <2>2, <2>3 DEF Sound, Consistent
  <2>5. \A b \in B : FramesOf(b) \cap FramesOf(new) = {}
    BY <2>2, <2>3 DEF Consistent
  <2>6. ReservedFrames \subseteq bm2 /\ bm2 \subseteq Frame /\ B2 \subseteq BlockType
    BY <2>2, <2>3 DEF Consistent
  <2>7. \A b \in B2 : Sound(b) /\ FramesOf(b) \subseteq bm2
    BY <2>3, <2>4 DEF Consistent
  <2>8. \A b, c \in B2 : b # c => FramesOf(b) \cap FramesOf(c) = {}
    BY <2>5 DEF Consistent
  <2>9. \A x \in bm2 : x \in ReservedFrames \/ \E b \in B2 : x \in FramesOf(b)
    BY <2>3 DEF Consistent
  <2>10. Consistent(bm2, B2)
    BY <2>6, <2>7, <2>8, <2>9 DEF Consistent
  <2> QED
    BY <1>2, <2>10 DEF NewFrames, NewBlocks
<1> QED
  BY <1>1, <1>2

\* So can the block that slab_alloc fetches when a pool is empty.
LEMMA AddCore ==
  ASSUME NEW bm, NEW B, Consistent(bm, B), NEW n \in Nat, NEW r \in Frame,
         MoreCore(n, bm, r)
  PROVE  Consistent(bm \cup CoreFrames(r), B \cup CoreBlocks(r))
<1>1. CASE n > 0
  BY <1>1 DEF MoreCore, CoreFrames, CoreBlocks, NewFrames, NewBlocks
<1>2. CASE ~ n > 0
  <2>1. FindPages(bm, RefillPages, r)
    BY <1>2 DEF MoreCore
  <2>2. RefillPages \in 1 .. NPages /\ 0 \in Nat /\ Root \in Spaces \cup {Root}
    BY SlabAssumption
  <2> QED
    BY <2>1, <2>2, AddBlock DEF CoreFrames, CoreBlocks
<1> QED
  BY <1>1, <1>2

\* The address range that kfree clears is the block that kmalloc found: the
\* block is aligned, so L4_Address masks nothing.
LEMMA FreedIsFrames ==
  ASSUME NEW b \in BlockType, Sound(b)
  PROVE  FpageAddress(b.frame, b.size) = b.frame
BY DEF Sound, FpageAddress, BlockType, Frame

\* Any set of outstanding blocks may be freed.
LEMMA FreeBlocks ==
  ASSUME NEW bm, NEW B, Consistent(bm, B), NEW R \in SUBSET B
  PROVE  Consistent(bm \ Freed(R), B \ R)
<1> DEFINE bm2 == bm \ Freed(R)
           B2 == B \ R
<1>1. \A b \in R : Block(FpageAddress(b.frame, b.size), b.size) = FramesOf(b)
  BY FreedIsFrames DEF Consistent, FramesOf
<1>2. \A x : x \in Freed(R) <=> \E b \in R : x \in FramesOf(b)
  BY <1>1 DEF Freed
<1>3. ReservedFrames \subseteq bm2
  BY <1>2 DEF Consistent, Sound
<1>4. \A b \in B2 : FramesOf(b) \subseteq bm2
  BY <1>2 DEF Consistent
<1>5. \A x \in bm2 : x \in ReservedFrames \/ \E b \in B2 : x \in FramesOf(b)
  BY <1>2 DEF Consistent
<1> QED
  BY <1>3, <1>4, <1>5 DEF Consistent

-----------------------------------------------------------------------------
\* memory_init establishes the allocator's invariant.
LEMMA InitAllocation == Init => Allocation
<1> SUFFICES ASSUME Init PROVE Allocation
  OBVIOUS
<1>1. TypeOK
  BY SizeAssumption, RequestAssumption, SlabAssumption DEF Init, TypeOK, Low, Frame
<1>2. Consistent(bitmap, blocks)
  BY SizeAssumption, RequestAssumption DEF Init, Consistent, ReservedFrames, Low, Frame
<1> QED
  BY <1>1, <1>2 DEF Allocation, Init

\* address_space_request_page keeps it, for any space and any request.
LEMMA RequestKeeps ==
  ASSUME Allocation, NEW s \in spaces, NEW base \in Nat, NEW size \in 1 .. NPages,
         NEW f \in Frame, RequestPage(s, base, size, f), UNCHANGED <<ram, spaces>>
  PROVE  /\ Consistent(bitmap, blocks)'
         /\ bitmap' \subseteq Frame /\ blocks' \subseteq BlockType
         /\ pool' \in [Pools -> Nat]
         /\ \A b \in blocks' : b.space \in spaces' \cup {Root}
         /\ blocks \subseteq blocks'
         /\ NewBlocks(s, base, size, f) \subseteq blocks'
<1> USE DEF Allocation, TypeOK
<1>1. PICK r \in Frame :
        /\ MoreCore(pool["mempage"], bitmap, r)
        /\ SlabsAfter(pool["mempage"], r) > 0
        /\ FindPages(bitmap \cup CoreFrames(r), size, f)
        /\ bitmap' = (bitmap \cup CoreFrames(r)) \cup NewFrames(size, f)
        /\ blocks' = (blocks \cup CoreBlocks(r)) \cup NewBlocks(s, base, size, f)
        /\ pool' = [pool EXCEPT !["mempage"] =
                      IF f = 0 THEN SlabsAfter(pool["mempage"], r)
                      ELSE SlabsAfter(pool["mempage"], r) - 1]
  BY Zenon DEF RequestPage
<1>2. pool["mempage"] \in Nat
  BY DEF Pools
<1>3. Consistent(bitmap \cup CoreFrames(r), blocks \cup CoreBlocks(r))
  BY <1>1, <1>2, AddCore
<1>4. Consistent(bitmap', blocks')
  BY <1>1, <1>3, AddBlock
<1>5. Consistent(bitmap, blocks)'
  BY <1>4 DEF Consistent, Sound, ReservedFrames
<1>6. pool' \in [Pools -> Nat]
  <2> DEFINE n == SlabsAfter(pool["mempage"], r)
  <2>1. n \in Nat /\ n > 0
    BY <1>1, <1>2, SlabAssumption DEF SlabsAfter
  <2>2. (IF f = 0 THEN n ELSE n - 1) \in Nat
    BY <2>1
  <2> HIDE DEF n
  <2> QED
    BY <1>1, <2>2 DEF n
<1>7. \A b \in blocks' : b.space \in spaces' \cup {Root}
  BY <1>1 DEF CoreBlocks, NewBlocks
<1> QED
  BY <1>1, <1>4, <1>5, <1>6, <1>7 DEF Consistent

\* What the pager lets the kernel map has the type of a mapping.
LEMMA MappingType ==
  ASSUME NEW b \in BlockType, b.space \in Spaces, Sound(b)
  PROVE  MappingOf(b) \subseteq [space : Spaces, addr : Nat, frame : Frame]
<1>1. FpageAddress(b.frame, b.size) = b.frame
  BY FreedIsFrames
<1>2. b.base \in Nat /\ b.size \in 1 .. NPages /\ b.frame \in Frame
      /\ b.frame + b.size <= NPages
  BY DEF BlockType, Sound
<1>3. FpageAddress(b.base, b.size) \in Nat
  BY <1>2, SizeAssumption DEF FpageAddress
<1> QED
  BY <1>1, <1>2, <1>3, SizeAssumption DEF MappingOf, Frame

\* Every operation of the memory manager keeps the allocator's invariant.
LEMMA NextAllocation == Allocation /\ [Next]_vars => Allocation'
<1> SUFFICES ASSUME Allocation, [Next]_vars PROVE Allocation'
  OBVIOUS
<1> USE DEF Allocation
<1>1. ASSUME NEW size \in KernelSizes, RootKmalloc(size) PROVE Allocation'
  <2>1. PICK f \in Frame :
          /\ FindPages(bitmap, size, f)
          /\ bitmap' = bitmap \cup NewFrames(size, f)
          /\ blocks' = blocks \cup NewBlocks(Root, 0, size, f)
    BY <1>1 DEF RootKmalloc
  <2>2. size \in 1 .. NPages /\ 0 \in Nat /\ Root \in Spaces \cup {Root}
    BY RequestAssumption
  <2>3. Consistent(bitmap', blocks')
    BY <2>1, <2>2, AddBlock
  <2>4. Consistent(bitmap, blocks)'
    BY <1>1, <2>3 DEF Consistent, Sound, ReservedFrames, RootKmalloc
  <2>5. TypeOK'
    BY <1>1, <2>3 DEF TypeOK, Consistent, RootKmalloc
  <2> QED
    BY <1>1, <2>1, <2>4, <2>5 DEF RootKmalloc, NewBlocks
<1>2. ASSUME NEW s \in Spaces, AddressSpaceNew(s) PROVE Allocation'
  <2>1. PICK r \in Frame, accepted \in BOOLEAN :
          /\ MoreCore(pool["addrspace"], bitmap, r)
          /\ SlabsAfter(pool["addrspace"], r) > 0
          /\ bitmap' = bitmap \cup CoreFrames(r)
          /\ blocks' = blocks \cup CoreBlocks(r)
          /\ pool' = [pool EXCEPT !["addrspace"] =
                        IF accepted THEN SlabsAfter(pool["addrspace"], r) - 1
                        ELSE SlabsAfter(pool["addrspace"], r)]
          /\ spaces' = IF accepted THEN spaces \cup {s} ELSE spaces
    BY <1>2, Zenon DEF AddressSpaceNew
  <2>2. pool["addrspace"] \in Nat
    BY DEF TypeOK, Pools
  <2>3. Consistent(bitmap', blocks')
    BY <2>1, <2>2, AddCore
  <2>4. Consistent(bitmap, blocks)'
    BY <1>2, <2>3 DEF Consistent, Sound, ReservedFrames, AddressSpaceNew
  <2>5. pool' \in [Pools -> Nat]
    <3> DEFINE n == SlabsAfter(pool["addrspace"], r)
    <3>1. n \in Nat /\ n > 0
      BY <2>1, <2>2, SlabAssumption DEF SlabsAfter
    <3>2. (IF accepted THEN n - 1 ELSE n) \in Nat
      BY <3>1
    <3> HIDE DEF n
    <3> QED
      BY <2>1, <3>2 DEF TypeOK, n
  <2>6. TypeOK'
    BY <1>2, <2>1, <2>3, <2>5 DEF TypeOK, Consistent, AddressSpaceNew
  <2>7. \A b \in blocks' : b.space \in spaces' \cup {Root}
    BY <2>1 DEF CoreBlocks, NewBlocks
  <2> QED
    BY <2>4, <2>6, <2>7
<1>3. ASSUME NEW s \in Spaces, AddressSpaceDestroy(s) PROVE Allocation'
  <2> DEFINE B == {b \in blocks : b.space = s}
  <2>1. Consistent(bitmap', blocks')
    BY <1>3, FreeBlocks DEF AddressSpaceDestroy
  <2>2. Consistent(bitmap, blocks)'
    BY <1>3, <2>1 DEF Consistent, Sound, ReservedFrames, AddressSpaceDestroy
  <2>3. pool' \in [Pools -> Nat]
    BY <1>3 DEF TypeOK, Pools, AddressSpaceDestroy
  <2>4. mapped' \subseteq [space : Spaces, addr : Nat, frame : Frame]
    BY <1>3 DEF TypeOK, AddressSpaceDestroy
  <2>5. bitmap' \subseteq Frame /\ blocks' \subseteq BlockType
    BY <2>1 DEF Consistent
  <2>6. TypeOK'
    BY <1>3, <2>3, <2>4, <2>5 DEF TypeOK, AddressSpaceDestroy
  <2>7. \A b \in blocks' : b.space \in spaces' \cup {Root}
    BY <1>3 DEF AddressSpaceDestroy
  <2> QED
    BY <2>2, <2>6, <2>7
<1>4. ASSUME NEW s \in Spaces, LoadSegment(s) PROVE Allocation'
  <2>1. PICK v \in Segments, f \in Frame : RequestPage(s, v.base, v.size, f)
    BY <1>4 DEF LoadSegment
  <2>2. v.base \in Nat /\ v.size \in 1 .. NPages
    BY RequestAssumption
  <2> QED
    BY <1>4, <2>1, <2>2, RequestKeeps DEF LoadSegment, TypeOK
<1>5. ASSUME NEW s \in Spaces, ThreadStart(s) PROVE Allocation'
  BY <1>5 DEF ThreadStart, TypeOK, Consistent, Sound, ReservedFrames
<1>6. ASSUME NEW s \in Spaces, NEW a \in Faults, FaultOnDevice(s, a) PROVE Allocation'
  <2>1. VideoPage \in Frame /\ 0 \in Frame /\ VideoPage \in Nat
    BY SizeAssumption, VideoAssumption DEF Low, Frame
  <2> QED
    BY <1>6, <2>1 DEF FaultOnDevice, TypeOK, Consistent, Sound, ReservedFrames
<1>7. ASSUME NEW s \in Spaces, NEW a \in Faults, FaultOnKnown(s, a) PROVE Allocation'
  <2>1. PICK b \in blocks : Contains(b, s, a) /\ mapped' = mapped \cup MappingOf(b)
    BY <1>7 DEF FaultOnKnown
  <2>2. MappingOf(b) \subseteq [space : Spaces, addr : Nat, frame : Frame]
    BY <2>1, MappingType DEF Contains, Consistent
  <2> QED
    BY <1>7, <2>1, <2>2 DEF FaultOnKnown, TypeOK, Consistent, Sound, ReservedFrames
<1>8. ASSUME NEW s \in Spaces, NEW a \in Faults, FaultOnNew(s, a) PROVE Allocation'
  <2>1. PICK f \in Frame :
          /\ RequestPage(s, a, 1, f)
          /\ mapped' = mapped \cup UNION {MappingOf(b) : b \in NewBlocks(s, a, 1, f)}
    BY <1>8 DEF FaultOnNew
  <2>2. a \in Nat /\ 1 \in 1 .. NPages /\ s \in spaces
    BY <1>8, RequestAssumption, SizeAssumption DEF FaultOnNew, TypeOK
  <2>3. /\ Consistent(bitmap, blocks)'
        /\ bitmap' \subseteq Frame /\ blocks' \subseteq BlockType
        /\ pool' \in [Pools -> Nat]
        /\ \A b \in blocks' : b.space \in spaces' \cup {Root}
        /\ NewBlocks(s, a, 1, f) \subseteq blocks'
    BY <1>8, <2>1, <2>2, RequestKeeps DEF FaultOnNew
  <2>4. \A b \in blocks' : Sound(b)
    BY <1>8, <2>3 DEF Consistent, Sound, ReservedFrames, FaultOnNew
  <2>5. \A b \in NewBlocks(s, a, 1, f) :
          MappingOf(b) \subseteq [space : Spaces, addr : Nat, frame : Frame]
    BY <2>3, <2>4, MappingType DEF NewBlocks
  <2>6. mapped' \subseteq [space : Spaces, addr : Nat, frame : Frame]
    BY <2>1, <2>5 DEF TypeOK
  <2> QED
    BY <1>8, <2>3, <2>6 DEF FaultOnNew, TypeOK
<1>9. CASE UNCHANGED vars
  BY <1>9 DEF vars, TypeOK, Consistent, Sound, ReservedFrames
<1> QED
  BY <1>1, <1>2, <1>3, <1>4, <1>5, <1>6, <1>7, <1>8, <1>9 DEF Next

\* The allocator's invariant holds in every reachable state.
LEMMA AllocationInvariant == Spec => []Allocation
BY InitAllocation, NextAllocation, PTL DEF Spec

\* The memory manager's state keeps its types; no slab pool is overdrawn.
THEOREM TypeCorrect == Spec => []TypeOK
<1>1. Allocation => TypeOK
  BY DEF Allocation
<1> QED
  BY <1>1, AllocationInvariant, PTL

\* A frame is busy exactly when it is reserved or in an outstanding block
\* (kmalloc, kfree), for every machine size and every sequence of requests.
THEOREM BitmapIsExact == Spec => []BitmapExact
<1>1. Allocation => BitmapExact
  BY DEF Allocation, BitmapExact, Consistent
<1> QED
  BY <1>1, AllocationInvariant, PTL

\* kmalloc never gives a frame to two owners and never a reserved one.
THEOREM BlocksAreDisjoint == Spec => []BlocksDisjoint
<1>1. Allocation => BlocksDisjoint
  BY DEF Allocation, BlocksDisjoint, Consistent, Sound
<1> QED
  BY <1>1, AllocationInvariant, PTL

-----------------------------------------------------------------------------
\* What relates the kernel's mappings to the lists of mempages.
Device(m) == m.addr \in {0, VideoPage} /\ m.frame = m.addr

Mapping ==
  /\ \A m \in mapped : m.space \in started
  /\ \A m \in mapped : Device(m) \/ \E b \in blocks : m \in MappingOf(b)

\* The mempages of one program do not overlap, and before the program runs
\* they are its segments.
Apart ==
  /\ \A b \in blocks : b.space # Root => VirtualRange(b) \cap {0, VideoPage} = {}
  /\ \A b, c \in blocks :
       b.space = c.space /\ b.space # Root /\ b # c
         => VirtualRange(b) \cap VirtualRange(c) = {}
  /\ \A b \in blocks :
       b.space \in spaces \ started
         => \E v \in Segments : b.base = v.base /\ b.size = v.size

MInv == Allocation /\ Mapping /\ Apart

\* A page fault or a segment adds a mempage that overlaps no other one.
LEMMA RequestApart ==
  ASSUME MInv, NEW s \in spaces, NEW base \in Nat, NEW size \in 1 .. NPages,
         NEW f \in Frame, RequestPage(s, base, size, f), UNCHANGED <<spaces, started>>,
         LET v == [base |-> base, size |-> size]
         IN  /\ VirtualRange(v) \cap {0, VideoPage} = {}
             /\ \A b \in blocks : b.space = s => VirtualRange(b) \cap VirtualRange(v) = {}
             /\ s \notin started => v \in Segments
  PROVE  Apart'
<1> DEFINE v == [base |-> base, size |-> size]
<1>1. PICK r \in Frame :
        blocks' = (blocks \cup CoreBlocks(r)) \cup NewBlocks(s, base, size, f)
  BY Zenon DEF RequestPage
<1>2. s # Root
  BY OwnerAssumption DEF MInv, Allocation, TypeOK
<1>3. \A b \in blocks' :
        \/ b \in blocks
        \/ b.space = Root
        \/ b.space = s /\ b.base = base /\ b.size = size /\ b.frame = f
              /\ b = [space |-> s, base |-> base, size |-> size, frame |-> f]
  BY <1>1 DEF CoreBlocks, NewBlocks
<1>4. \A b \in blocks' : b.base = base /\ b.size = size => VirtualRange(b) = VirtualRange(v)
  BY DEF VirtualRange
<1>5. \A b \in blocks' : b.space # Root => VirtualRange(b) \cap {0, VideoPage} = {}
  BY <1>3, <1>4 DEF MInv, Apart
<1>6. \A b, c \in blocks' :
        b.space = c.space /\ b.space # Root /\ b # c
          => VirtualRange(b) \cap VirtualRange(c) = {}
  BY <1>2, <1>3, <1>4 DEF MInv, Apart
<1>7. \A b \in blocks' :
        b.space \in spaces \ started
          => \E w \in Segments : b.base = w.base /\ b.size = w.size
  BY <1>2, <1>3, OwnerAssumption DEF MInv, Apart, Allocation, TypeOK
<1> QED
  BY <1>5, <1>6, <1>7 DEF Apart

\* memory_init establishes the whole invariant.
LEMMA InitMInv == Init => MInv
BY InitAllocation DEF Init, MInv, Mapping, Apart

\* Every operation keeps the kernel's mappings inside the lists of mempages.
LEMMA NextMapping == MInv /\ [Next]_vars => Mapping'
<1> SUFFICES ASSUME MInv, [Next]_vars PROVE Mapping'
  OBVIOUS
<1> USE DEF MInv, Mapping
<1>1. ASSUME NEW size \in KernelSizes, RootKmalloc(size) PROVE Mapping'
  BY <1>1 DEF RootKmalloc, Device
<1>2. ASSUME NEW s \in Spaces, AddressSpaceNew(s) PROVE Mapping'
  BY <1>2 DEF AddressSpaceNew, Device
<1>3. ASSUME NEW s \in Spaces, AddressSpaceDestroy(s) PROVE Mapping'
  <2>1. \A b \in blocks : \A m \in MappingOf(b) : m.space = b.space
    BY DEF MappingOf
  <2> QED
    BY <1>3, <2>1 DEF AddressSpaceDestroy, Device
<1>4. ASSUME NEW s \in Spaces, LoadSegment(s) PROVE Mapping'
  BY <1>4 DEF LoadSegment, RequestPage, Device
<1>5. ASSUME NEW s \in Spaces, ThreadStart(s) PROVE Mapping'
  BY <1>5 DEF ThreadStart, Device
<1>6. ASSUME NEW s \in Spaces, NEW a \in Faults, FaultOnDevice(s, a) PROVE Mapping'
  BY <1>6 DEF FaultOnDevice, Device
<1>7. ASSUME NEW s \in Spaces, NEW a \in Faults, FaultOnKnown(s, a) PROVE Mapping'
  <2>1. PICK b \in blocks : Contains(b, s, a) /\ mapped' = mapped \cup MappingOf(b)
    BY <1>7 DEF FaultOnKnown
  <2>2. \A m \in MappingOf(b) : m.space = s
    BY <2>1 DEF MappingOf, Contains
  <2> QED
    BY <1>7, <2>1, <2>2 DEF FaultOnKnown, Device
<1>8. ASSUME NEW s \in Spaces, NEW a \in Faults, FaultOnNew(s, a) PROVE Mapping'
  <2>1. PICK f \in Frame :
          /\ RequestPage(s, a, 1, f)
          /\ mapped' = mapped \cup UNION {MappingOf(b) : b \in NewBlocks(s, a, 1, f)}
    BY <1>8 DEF FaultOnNew
  <2>2. blocks \subseteq blocks' /\ NewBlocks(s, a, 1, f) \subseteq blocks'
    BY <2>1 DEF RequestPage
  <2>3. \A b \in NewBlocks(s, a, 1, f) : \A m \in MappingOf(b) : m.space = s
    BY DEF MappingOf, NewBlocks
  <2> QED
    BY <1>8, <2>1, <2>2, <2>3 DEF FaultOnNew, Device
<1>9. CASE UNCHANGED vars
  BY <1>9 DEF vars, Device
<1> QED
  BY <1>1, <1>2, <1>3, <1>4, <1>5, <1>6, <1>7, <1>8, <1>9 DEF Next

\* Every operation keeps the mempages of a program apart.
LEMMA NextApart == MInv /\ [Next]_vars => Apart'
<1> SUFFICES ASSUME MInv, [Next]_vars PROVE Apart'
  OBVIOUS
<1>0. /\ \A b \in blocks : b.space \in spaces \cup {Root}
      /\ spaces \subseteq Spaces /\ started \subseteq spaces /\ Root \notin Spaces
      /\ Apart
  BY OwnerAssumption DEF MInv, Allocation, TypeOK
<1>1. ASSUME NEW size \in KernelSizes, RootKmalloc(size) PROVE Apart'
  BY <1>0, <1>1 DEF RootKmalloc, NewBlocks, Apart
<1>2. ASSUME NEW s \in Spaces, AddressSpaceNew(s) PROVE Apart'
  <2>1. \A b \in blocks' : b \in blocks \/ b.space = Root
    BY <1>2 DEF AddressSpaceNew, CoreBlocks, NewBlocks
  <2>2. spaces' \in {spaces, spaces \cup {s}} /\ started' = started /\ s \notin spaces
    BY <1>2 DEF AddressSpaceNew
  <2> QED
    BY <1>0, <2>1, <2>2 DEF Apart
<1>3. ASSUME NEW s \in Spaces, AddressSpaceDestroy(s) PROVE Apart'
  BY <1>0, <1>3 DEF AddressSpaceDestroy, Apart
<1>4. ASSUME NEW s \in Spaces, LoadSegment(s) PROVE Apart'
  <2>1. PICK v \in Segments, f \in Frame : RequestPage(s, v.base, v.size, f)
    BY <1>4 DEF LoadSegment
  <2>2. v.base \in Nat /\ v.size \in 1 .. NPages /\ v = [base |-> v.base, size |-> v.size]
    BY RequestAssumption
  <2>3. s \in spaces \ started /\ UNCHANGED <<spaces, started>>
    BY <1>4 DEF LoadSegment
  <2>4. \A b \in blocks : b.space = s => VirtualRange(b) \cap VirtualRange(v) = {}
    <3> SUFFICES ASSUME NEW b \in blocks, b.space = s
                 PROVE  VirtualRange(b) \cap VirtualRange(v) = {}
      OBVIOUS
    <3>1. PICK w \in Segments : b.base = w.base /\ b.size = w.size
      BY <1>0, <2>3 DEF Apart
    <3>2. w # v
      BY <2>1, <3>1 DEF RequestPage
    <3>3. VirtualRange(b) = VirtualRange(w)
      BY <3>1 DEF VirtualRange
    <3> QED
      BY <3>2, <3>3, SegmentAssumption
  <2>5. VirtualRange(v) \cap {0, VideoPage} = {}
    BY SegmentAssumption
  <2> HIDE DEF Apart
  <2> QED
    BY <2>1, <2>2, <2>3, <2>4, <2>5, RequestApart
<1>5. ASSUME NEW s \in Spaces, ThreadStart(s) PROVE Apart'
  BY <1>0, <1>5 DEF ThreadStart, Apart
<1>6. ASSUME NEW s \in Spaces, NEW a \in Faults, FaultOnDevice(s, a) PROVE Apart'
  BY <1>0, <1>6 DEF FaultOnDevice, Apart
<1>7. ASSUME NEW s \in Spaces, NEW a \in Faults, FaultOnKnown(s, a) PROVE Apart'
  BY <1>0, <1>7 DEF FaultOnKnown, Apart
<1>8. ASSUME NEW s \in Spaces, NEW a \in Faults, FaultOnNew(s, a) PROVE Apart'
  <2>1. PICK f \in Frame : RequestPage(s, a, 1, f)
    BY <1>8 DEF FaultOnNew
  <2> DEFINE v == [base |-> a, size |-> 1]
  <2>2. a \in Nat /\ 1 \in 1 .. NPages /\ a >= LowPages
    BY <1>8, RequestAssumption, SizeAssumption DEF FaultOnNew
  <2>3. VirtualRange(v) = {a}
    BY <2>2 DEF VirtualRange, FpageAddress, Block
  <2>4. s \in started /\ s \in spaces /\ UNCHANGED <<spaces, started>>
    BY <1>0, <1>8 DEF FaultOnNew
  <2>5. \A b \in blocks : b.space = s => VirtualRange(b) \cap VirtualRange(v) = {}
    BY <1>8, <2>3 DEF FaultOnNew, Contains
  <2>6. VirtualRange(v) \cap {0, VideoPage} = {}
    BY <2>2, <2>3, VideoAssumption, SizeAssumption DEF Low
  <2> QED
    BY <2>1, <2>2, <2>4, <2>5, <2>6, RequestApart
<1>9. CASE UNCHANGED vars
  BY <1>0, <1>9 DEF vars, Apart
<1> QED
  BY <1>1, <1>2, <1>3, <1>4, <1>5, <1>6, <1>7, <1>8, <1>9 DEF Next

\* The whole invariant holds in every reachable state.
LEMMA MInvariant == Spec => []MInv
<1>1. MInv /\ [Next]_vars => MInv'
  BY NextAllocation, NextMapping, NextApart DEF MInv
<1> QED
  BY <1>1, InitMInv, PTL DEF Spec

\* Memory that the kernel has mapped for a program belongs to that program or
\* is a device page (Pager_pagefault, address_space_destroy).
THEOREM MappedIsOwnedAlways == Spec => []MappedIsOwned
<1>1. MInv => MappedIsOwned
  <2> SUFFICES ASSUME MInv, NEW m \in mapped, ~ Device(m)
               PROVE  \E b \in blocks : b.space = m.space /\ m.frame \in FramesOf(b)
    BY DEF MappedIsOwned, Device
  <2>1. PICK b \in blocks : m \in MappingOf(b)
    BY DEF MInv, Mapping
  <2>2. FpageAddress(b.frame, b.size) = b.frame /\ b \in BlockType
    BY FreedIsFrames DEF MInv, Allocation, Consistent
  <2>3. m.space = b.space /\ m.frame \in FramesOf(b)
    BY <2>1, <2>2, SizeAssumption DEF MappingOf, FramesOf, Block, BlockType, Frame
  <2> QED
    BY <2>3
<1> QED
  BY <1>1, MInvariant, PTL

\* A page of a program is always served from one frame, however often it
\* faults (address_space_contains, address_space_request_page).
THEOREM ServedFromOneFrameAlways == Spec => []ServedFromOneFrame
<1>1. MInv => ServedFromOneFrame
  <2> SUFFICES ASSUME MInv, NEW m \in mapped, NEW n \in mapped,
                      m.space = n.space, m.addr = n.addr
               PROVE  m.frame = n.frame
    BY DEF ServedFromOneFrame
  <2>0. m.space # Root
    BY OwnerAssumption DEF MInv, Allocation, TypeOK
  <2>1. \A b \in blocks, x \in mapped :
          x \in MappingOf(b) => x.space = b.space /\ x.addr \in VirtualRange(b)
    BY SizeAssumption
       DEF MInv, Allocation, Consistent, BlockType, MappingOf, VirtualRange, Block,
           FpageAddress
  <2>2. CASE Device(m) /\ Device(n)
    BY <2>2 DEF Device
  <2>3. \A b \in blocks, x \in mapped :
          x \in MappingOf(b) /\ x.space # Root => x.addr \notin {0, VideoPage}
    BY <2>1 DEF MInv, Apart
  <2>4. CASE ~ Device(m) /\ ~ Device(n)
    <3>1. PICK b \in blocks : m \in MappingOf(b)
      BY <2>4 DEF MInv, Mapping
    <3>2. PICK c \in blocks : n \in MappingOf(c)
      BY <2>4 DEF MInv, Mapping
    <3>3. b = c
      BY <2>0, <2>1, <3>1, <3>2 DEF MInv, Apart
    <3>4. b \in BlockType /\ b.size \in Nat \ {0} /\ b.base \in Nat /\ b.frame \in Nat
      BY SizeAssumption DEF MInv, Allocation, Consistent, BlockType, Frame
    <3>5. FpageAddress(b.base, b.size) \in Int /\ FpageAddress(b.frame, b.size) \in Int
      BY <3>4 DEF FpageAddress
    <3> QED
      BY <3>1, <3>2, <3>3, <3>4, <3>5 DEF MappingOf
  <2>5. CASE Device(m) /\ ~ Device(n)
    BY <2>0, <2>3, <2>5 DEF MInv, Mapping, Device
  <2>6. CASE ~ Device(m) /\ Device(n)
    BY <2>0, <2>3, <2>6 DEF MInv, Mapping, Device
  <2> QED
    BY <2>2, <2>4, <2>5, <2>6
<1> QED
  BY <1>1, MInvariant, PTL

-----------------------------------------------------------------------------
\* In a consistent state the abstract owner of a frame is what one expects.
LEMMA OwnerInBlock ==
  ASSUME NEW bm, NEW B, Consistent(bm, B), NEW b \in B, NEW f \in FramesOf(b)
  PROVE  f \in Frame /\ OwnerIn(bm, B)[f] = b.space
<1>1. f \in Frame
  BY DEF Consistent
<1>2. \A c \in B : f \in FramesOf(c) => c = b
  BY DEF Consistent
<1>3. (CHOOSE c \in B : f \in FramesOf(c)) = b
  BY <1>2
<1> QED
  BY <1>1, <1>3 DEF OwnerIn

LEMMA OwnerElsewhere ==
  ASSUME NEW bm, NEW B, Consistent(bm, B), NEW f \in Frame,
         \A b \in B : f \notin FramesOf(b)
  PROVE  OwnerIn(bm, B)[f] = IF f \in ReservedFrames THEN Reserved ELSE Free
BY DEF OwnerIn, Consistent

LEMMA OwnerType ==
  ASSUME NEW bm, NEW B, Consistent(bm, B)
  PROVE  OwnerIn(bm, B) \in Abstract!Assignments
<1> SUFFICES ASSUME NEW f \in Frame
             PROVE  OwnerIn(bm, B)[f] \in (Spaces \cup {Root}) \cup {Free, Reserved}
  BY DEF OwnerIn, Abstract!Assignments
<1>1. CASE \E b \in B : f \in FramesOf(b)
  BY <1>1, OwnerInBlock DEF Consistent, BlockType
<1>2. CASE \A b \in B : f \notin FramesOf(b)
  BY <1>2, OwnerElsewhere
<1> QED
  BY <1>1, <1>2

\* Adding blocks of o and of the root task is an abstract Take.
LEMMA GrowthIsTake ==
  ASSUME NEW bm, NEW B, Consistent(bm, B), NEW bm2, NEW B2, Consistent(bm2, B2),
         B \subseteq B2, NEW o, \A b \in B2 \ B : b.space \in {o, Root},
         NEW f \in Frame, OwnerIn(bm2, B2)[f] # OwnerIn(bm, B)[f]
  PROVE  OwnerIn(bm, B)[f] = Free /\ OwnerIn(bm2, B2)[f] \in {o, Root}
<1>1. \A b \in B : f \notin FramesOf(b)
  BY OwnerInBlock
<1>2. OwnerIn(bm, B)[f] = IF f \in ReservedFrames THEN Reserved ELSE Free
  BY <1>1, OwnerElsewhere
<1>3. PICK b \in B2 : f \in FramesOf(b)
  BY <1>2, OwnerElsewhere
<1>4. OwnerIn(bm2, B2)[f] = b.space /\ b \notin B
  BY <1>1, <1>3, OwnerInBlock
<1>5. f \notin ReservedFrames
  BY <1>3 DEF Consistent, Sound
<1> QED
  BY <1>2, <1>4, <1>5

\* Freeing all blocks of s is an abstract Give.
LEMMA ReleaseIsGive ==
  ASSUME NEW bm, NEW B, Consistent(bm, B), NEW bm2, NEW B2, Consistent(bm2, B2),
         NEW s, B2 = {b \in B : b.space # s},
         NEW f \in Frame, OwnerIn(bm2, B2)[f] # OwnerIn(bm, B)[f]
  PROVE  OwnerIn(bm, B)[f] = s /\ OwnerIn(bm2, B2)[f] = Free
<1>1. \A b \in B2 : f \notin FramesOf(b)
  BY OwnerInBlock
<1>2. OwnerIn(bm2, B2)[f] = IF f \in ReservedFrames THEN Reserved ELSE Free
  BY <1>1, OwnerElsewhere
<1>3. PICK b \in B : f \in FramesOf(b)
  BY <1>2, OwnerElsewhere
<1>4. OwnerIn(bm, B)[f] = b.space /\ b.space = s
  BY <1>1, <1>3, OwnerInBlock
<1>5. f \notin ReservedFrames
  BY <1>3 DEF Consistent, Sound
<1> QED
  BY <1>2, <1>4, <1>5

\* Every operation of the memory manager is a step of the abstract
\* specification, or changes no frame's owner.
LEMMA StepRefines == Allocation /\ [Next]_vars => [Abstract!Next]_(OwnerIn(bitmap, blocks))
<1> SUFFICES ASSUME Allocation, [Next]_vars
             PROVE  [Abstract!Next]_(OwnerIn(bitmap, blocks))
  OBVIOUS
<1>1. Allocation'
  BY NextAllocation
<1>2. ram' = ram
  BY DEF Next, vars, RootKmalloc, AddressSpaceNew, AddressSpaceDestroy, LoadSegment,
         ThreadStart, FaultOnDevice, FaultOnKnown, FaultOnNew
<1>3. Consistent(bitmap, blocks) /\ Consistent(bitmap', blocks')
  BY <1>1, <1>2 DEF Allocation, Consistent, Sound, ReservedFrames
<1>4. OwnerIn(bitmap', blocks') \in Abstract!Assignments
  BY <1>3, OwnerType
<1>5. ASSUME NEW o \in Spaces \cup {Root}, blocks \subseteq blocks',
             \A b \in blocks' \ blocks : b.space \in {o, Root}
      PROVE  Abstract!Take(o)
  BY <1>3, <1>4, <1>5, GrowthIsTake DEF Abstract!Take
<1>6. ASSUME NEW size \in KernelSizes, RootKmalloc(size) PROVE Abstract!Next
  BY <1>5, <1>6 DEF RootKmalloc, NewBlocks, Abstract!Next
<1>7. ASSUME NEW s \in Spaces, AddressSpaceNew(s) PROVE Abstract!Next
  BY <1>5, <1>7 DEF AddressSpaceNew, CoreBlocks, NewBlocks, Abstract!Next
<1>8. ASSUME NEW s \in Spaces, AddressSpaceDestroy(s) PROVE Abstract!Next
  <2>1. blocks' = {b \in blocks : b.space # s}
    BY <1>8 DEF AddressSpaceDestroy
  <2>2. s # Root
    BY OwnerAssumption
  <2>3. \A f \in Frame :
          OwnerIn(bitmap', blocks')[f] # OwnerIn(bitmap, blocks)[f] =>
            /\ OwnerIn(bitmap, blocks)[f] = s
            /\ OwnerIn(bitmap', blocks')[f] = Free
    <3> HIDE DEF Allocation, Next
    <3> QED
      BY <1>3, <2>1, ReleaseIsGive
  <2>4. Abstract!Give(s)
    BY <1>4, <2>2, <2>3 DEF Abstract!Give
  <2> QED
    BY <2>4 DEF Abstract!Next
<1>9. ASSUME NEW s \in Spaces, NEW base, NEW size, NEW f, RequestPage(s, base, size, f)
      PROVE  Abstract!Next
  BY <1>5, <1>9 DEF RequestPage, CoreBlocks, NewBlocks, Abstract!Next
<1>10. ASSUME NEW s \in Spaces, LoadSegment(s) PROVE Abstract!Next
  BY <1>9, <1>10 DEF LoadSegment
<1>11. ASSUME NEW s \in Spaces, NEW a \in Faults, FaultOnNew(s, a) PROVE Abstract!Next
  BY <1>9, <1>11 DEF FaultOnNew
<1>12. ASSUME UNCHANGED <<bitmap, blocks>> PROVE UNCHANGED OwnerIn(bitmap, blocks)
  BY <1>12
<1> QED
  BY <1>6, <1>7, <1>8, <1>10, <1>11, <1>12
     DEF Next, vars, ThreadStart, FaultOnDevice, FaultOnKnown

\* The bitmap, kmalloc, kfree and the address spaces' lists implement exclusive
\* ownership of page frames, for any machine.
THEOREM Refinement == Spec => ImplementsFrameOwnership
<1>1. Init => Abstract!Init
  BY DEF Init, Abstract!Init, OwnerIn
<1> QED
  BY <1>1, AllocationInvariant, StepRefines, PTL
     DEF Spec, ImplementsFrameOwnership, Abstract!Spec
=============================================================================
