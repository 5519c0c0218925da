------------------------------ MODULE Storage ------------------------------
(***************************************************************************)
(* The memory of the Scheme interpreter at work for a program of which no  *)
(* more is known than that it keeps to the rules of get_cell: what it uses *)
(* it reaches from the registers, or it is the cell made last, or it is    *)
(* given to get_cell as what the new cell is to hold.  A collection goes   *)
(* step by step.                                                           *)
(***************************************************************************)
EXTENDS Cells

CONSTANTS
  SegSize,      \* CELL_SEGSIZE
  Registers,    \* how many registers the interpreter has
  Immediates,   \* pointers to what takes no cell
  Kinds,        \* the types of cells with two pointers ...
  Atoms,        \* ... and what cells without pointers hold
  Lengths,      \* of vectors
  MaxWork       \* bounds what the program does

ASSUME SizeAssumption ==
  /\ SegSize \in Nat \ {0} /\ FirstSegs \in Nat /\ NSegment \in Nat /\ FewCells \in Nat
  /\ Registers \in Nat /\ Lengths \subseteq Nat
ASSUME ContentAssumption ==
  /\ \A q \in Immediates : q \in Int /\ q <= 0
  /\ NIL \in Immediates
  /\ {"free", "vector"} \cap Kinds = {}
  /\ \A c \in Atoms : c = Cell(c.type, TRUE, c.car, NIL) /\ c.type \notin {"free", "vector"}

VARIABLES
  mem,     \* struct scheme: cells, free list, the cell made last
  regs,    \* its registers
  asked,   \* what the call is to make for which the collector runs
  walk,    \* the collector's walk
  heap,    \* the memory when it began, and the pointers from which it marks (history)
  work     \* how much the program has done (bound)
storagevars == <<mem, regs, asked, walk, heap, work>>

-----------------------------------------------------------------------------
\* What can be reached: the cells in every set that has those to which the
\* roots point and with a cell those that it leads to.
ClosedUnder(cell, S) == \A x \in S : Kids(cell, x) \subseteq S
Holds(h, S) ==
  /\ ClosedUnder(h.cell, S)
  /\ \A k \in 1 .. Len(h.roots) : h.roots[k] > 0 => h.roots[k] \in S
Reach(h) == {x \in DOMAIN h.cell : \A S \in SUBSET DOMAIN h.cell : Holds(h, S) => x \in S}

\* What the program may use; the cells of a vector it knows by the vector only.
Elements(cell) ==
  {x \in DOMAIN cell : \E v \in DOMAIN cell :
                         cell[v].type = "vector" /\ x \in ElementCells(cell, v)}
Rooted ==
  [cell |-> mem.cell,
   roots |-> IF asked.call = "none" THEN Append(regs, mem.new) ELSE heap.roots]
Held == Immediates \cup (Reach(Rooted) \ Elements(mem.cell))

Contents ==
  {Cell(kind, FALSE, a, b) : kind \in Kinds, a \in Held, b \in Held} \cup Atoms

-----------------------------------------------------------------------------
NoCall == [call |-> "none", cell |-> Cell("none", TRUE, NIL, NIL), len |-> 0]
ForCell(c) == [NoCall EXCEPT !.call = "get_cell", !.cell = c]
ForVector(n) == [NoCall EXCEPT !.call = "mk_vector", !.len = n]
ForGc == [NoCall EXCEPT !.call = "gc"]

Idle == [Begin([x \in {} |-> FreeCell(NIL)], <<>>) EXCEPT !.at = "idle"]
NoCells ==
  [cell |-> [x \in {} |-> FreeCell(NIL)], free_cell |-> NIL, fcells |-> 0,
   last_cell_seg |-> 0 - 1, segsize |-> SegSize, no_memory |-> FALSE, new |-> NIL]
Fresh ==
  /\ mem = NoCells
  /\ regs = [i \in 1 .. Registers |-> NIL]
  /\ asked = NoCall /\ walk = Idle /\ heap = [cell |-> Idle.cell, roots |-> <<>>]
StorageInit == Fresh /\ work = 0

\* The program at work: nothing is being made, and scheme_init is over.
AtWork == asked.call = "none" /\ work < MaxWork
Works == AtWork /\ mem.last_cell_seg >= FirstSegs - 1 /\ work' = work + 1

Load ==
  \E i \in 1 .. Registers, q \in Held : regs' = [regs EXCEPT ![i] = q] /\ UNCHANGED mem

\* set-car! and set-cdr!; macro; and force, which copies a cell.
Write(x, c) == x \in Held /\ x > 0 /\ mem' = [mem EXCEPT !.cell[x] = c] /\ UNCHANGED regs
SetTheCar ==
  \E x, q \in Held : /\ x > 0 /\ ~mem.cell[x].atom
                     /\ Write(x, [mem.cell[x] EXCEPT !.car = q])
SetTheCdr ==
  \E x, q \in Held : /\ x > 0 /\ ~mem.cell[x].atom
                     /\ Write(x, [mem.cell[x] EXCEPT !.cdr = q])
SetKind ==
  \E x \in Held, kind \in Kinds : /\ x > 0 /\ ~mem.cell[x].atom
                                /\ Write(x, [mem.cell[x] EXCEPT !.type = kind])
CopyCell ==
  \E x, y \in Held : /\ x > 0 /\ y > 0
                     /\ mem.cell[x].type # "vector" /\ mem.cell[y].type # "vector"
                     /\ Write(x, mem.cell[y])

SetElement ==
  \E v \in Held, q \in Held :
    /\ v > 0 /\ mem.cell[v].type = "vector"
    /\ \E i \in 0 .. mem.cell[v].car - 1 :
         LET x == ElementCell(v, i)
         IN  mem' = IF i % 2 = 0 THEN [mem EXCEPT !.cell[x].car = q]
                    ELSE [mem EXCEPT !.cell[x].cdr = q]
    /\ UNCHANGED regs

WritesCell == SetTheCar \/ SetTheCdr \/ SetKind \/ CopyCell \/ SetElement

\* new-segment, and the segments of scheme_init.
NewSegment ==
  /\ AtWork /\ work' = work + 1
  /\ mem' = alloc_cellseg(mem)
  /\ UNCHANGED <<regs, asked, walk, heap>>

\* What needs no collection.
TakeCell(c) ==
  /\ IF mem.free_cell # NIL THEN mem' = Filled(Taken(mem), c)
     ELSE mem.no_memory /\ mem' = [mem EXCEPT !.new = Sink]
  /\ UNCHANGED regs
TakeVector(n) ==
  LET found == find_consecutive_cells(mem, Halves(n) + 1)
  IN  /\ IF mem.no_memory THEN mem' = [mem EXCEPT !.new = Sink]
         ELSE found.new # NIL /\ mem' = Vector(found, n)
      /\ UNCHANGED regs

Program ==
  /\ Works
  /\ Load \/ WritesCell
     \/ (\E c \in Contents : TakeCell(c)) \/ \E n \in Lengths : TakeVector(n)
  /\ UNCHANGED <<asked, walk, heap>>

-----------------------------------------------------------------------------
\* gc marks from the registers and from what the new cell is to hold.
Asks(call, a, b) ==
  /\ asked' = call
  /\ heap' = [cell |-> mem.cell, roots |-> regs \o <<a, b>>]
  /\ walk' = Begin(mem.cell, regs \o <<a, b>>)
  /\ UNCHANGED <<mem, regs>>

AskCell ==
  /\ Works /\ mem.free_cell = NIL /\ ~mem.no_memory
  /\ \E c \in Contents :
       IF c.atom THEN Asks(ForCell(c), NIL, NIL) ELSE Asks(ForCell(c), c.car, c.cdr)
AskVector ==
  /\ Works /\ ~mem.no_memory
  /\ \E n \in Lengths : /\ find_consecutive_cells(mem, Halves(n) + 1).new = NIL
                        /\ Asks(ForVector(n), NIL, NIL)
AskGc == Works /\ Asks(ForGc, NIL, NIL)

Go(label, w) == walk.at = label /\ walk' = w /\ UNCHANGED <<mem, regs, asked, heap, work>>
Collect ==
  \/ Go("gc", NextRoot(walk))
  \/ Go("E2", Visit(walk))
  \/ Go("vector", MarkElement(walk))
  \/ Go("E4", DownCar(walk))
  \/ Go("E5", DownCdr(walk))
  \/ Go("E6", Up(walk))
SweepUp ==
  /\ walk.at = "end"
  /\ walk' = [walk EXCEPT !.at = "swept"]
  /\ mem' = Sweep(mem, walk.cell)
  /\ UNCHANGED <<regs, asked, heap, work>>

\* With what the collection has brought, the call goes on.
Answer ==
  /\ walk.at = "swept"
  /\ mem' = CASE asked.call = "get_cell" -> Filled(Supplied(Enlarged(mem)), asked.cell)
              [] asked.call = "mk_vector" ->
                   Vector(consecutive_cells(mem, Halves(asked.len) + 1), asked.len)
              [] asked.call = "gc" -> [mem EXCEPT !.new = T]
  /\ asked' = NoCall /\ walk' = Idle
  /\ UNCHANGED <<regs, heap, work>>

StorageNext == NewSegment \/ Program \/ AskCell \/ AskVector \/ AskGc \/ Collect \/ SweepUp \/ Answer
Storage == StorageInit /\ [][StorageNext]_storagevars

-----------------------------------------------------------------------------
\* mark's inversion of the links leaves every cell that can be reached as it
\* was, through cycles, shared cells and vectors in vectors, and the sweep takes
\* all the others and no more, linked up in the order of their addresses.
CollectionIsExact ==
  walk.at = "swept" =>
    LET live == Reach(heap)
        dead == DOMAIN heap.cell \ live
    IN  /\ DOMAIN mem.cell = DOMAIN heap.cell
        /\ \A x \in live : mem.cell[x] = heap.cell[x]
        /\ \A x \in dead : mem.cell[x] = FreeCell(First({y \in dead : y > x}))

\* Whatever the program does, no cell that it can reach changes but by its own
\* writing: neither a collection nor an allocation touches it, from a list that
\* is cut at the wrong place, from a run of cells of which one is in use, or
\* from a segment that is linked up before the last free cell.
InUse == Reach(Rooted)
OnlyTheProgramWrites ==
  [][mem' # mem =>
       \/ \A x \in InUse : /\ x \in DOMAIN mem'.cell /\ mem'.cell[x] = mem.cell[x]
                            /\ mem'.new = x => mem.new = x
       \/ WritesCell]_storagevars

\* The free list goes through the free cells in the order of their addresses, from
\* which count_consecutive_cells tells cells in a row, and no others: nothing in use
\* is on it, and fcells counts it.  A run that get_consecutive_cells has forgotten
\* is not on it either, until the next sweep.  The cells of a vector are its own.
MemoryIsSound ==
  /\ WellFormed(Rooted)
  /\ Reach(Rooted) \cap Free(mem.cell) = {}
  /\ mem.free_cell = First(Free(mem.cell))
  /\ \A x \in Free(mem.cell) : mem.cell[x].cdr = First({y \in Free(mem.cell) : y > x})
  /\ mem.fcells = Cardinality(Free(mem.cell))

\* What get_consecutive_cells says of itself: failure is reported if all has failed,
\* the search in what the collection has brought and the one with more heap.  It is
\* not so: a run that the first of them finds is forgotten, and the second needs
\* another.
FailsWhenAllFail ==
  [][asked.call = "mk_vector" /\ mem'.no_memory =>
       LET n == Halves(asked.len) + 1
       IN  /\ find_consecutive_cells(mem, n).new = NIL
           /\ find_consecutive_cells(alloc_cellseg(mem), n).new = NIL]_storagevars
=============================================================================
