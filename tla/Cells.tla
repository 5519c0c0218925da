------------------------------- MODULE Cells -------------------------------
(***************************************************************************)
(* The cells of scheme.c: which of them gc marks, by Deutsch, Schorr and   *)
(* Waite's inversion of links, what the sweep makes of the others, and how *)
(* segments come to the free list and cells are taken from it.             *)
(*                                                                         *)
(* A pointer above 0 is a cell.  What scheme_init makes and keeps for ever *)
(* (the empty list, the truth values, the symbols and the procedures of    *)
(* the interpreter) is named by a number of 0 or below and takes no cell.  *)
(***************************************************************************)
EXTENDS Integers, Sequences, FiniteSets

CONSTANTS
  FirstSegs,  \* FIRST_CELLSEGS
  NSegment,   \* CELL_NSEGMENT
  FewCells    \* the cells per segment that a collection should bring (8)

NIL == 0
T == 0 - 1
F == 0 - 2
Sink == 0 - 3
Null == 0 - 4      \* C's null pointer

\* A cell: its type, the flag T_ATOM, the mark, and a pair of pointers, or a
\* number or the length of a vector in place of the first.
Cell(type, atom, a, b) ==
  [type |-> type, atom |-> atom, mark |-> FALSE, car |-> a, cdr |-> b]
FreeCell(rest) == Cell("free", FALSE, NIL, rest)
Free(cell) == {x \in DOMAIN cell : cell[x].type = "free"}
\* A cell that was taken from the free list and then forgotten: to the code a free
\* cell (its flags are 0), but on no list until the sweep finds it unmarked.
LostCell == Cell("lost", TRUE, NIL, NIL)

\* The cells of a vector behind its header: two elements each.
Halves(n) == (n \div 2) + (n % 2)
ElementCells(cell, v) == (v + 1) .. (v + Halves(cell[v].car))

Marked(cell, q) == q <= 0 \/ cell[q].mark

\* A pointer leads to a cell or is one of the constants.
Pointer(cell, q) == q \in DOMAIN cell \/ (q \in Int /\ q <= 0)

\* The cells that a cell leads to: those of a vector, or what it points to.
Kids(cell, x) ==
  IF cell[x].type = "vector" THEN ElementCells(cell, x)
  ELSE IF cell[x].atom THEN {}
  ELSE {q \in {cell[x].car, cell[x].cdr} : q > 0}

\* A memory h when gc is called: its cells, and the pointers from which it
\* marks.  The cells of a vector are its own: nothing else leads to them.
IsVector(h, x) ==
  /\ h.cell[x].atom /\ h.cell[x].car \in Nat
  /\ ElementCells(h.cell, x) \subseteq DOMAIN h.cell
  /\ \A e \in ElementCells(h.cell, x) :
       /\ h.cell[e].type # "vector"
       /\ \A y \in DOMAIN h.cell : e \in Kids(h.cell, y) => y = x
       /\ \A k \in 1 .. Len(h.roots) : h.roots[k] # e
WellFormed(h) ==
  /\ DOMAIN h.cell \subseteq Nat \ {0}
  /\ \A x \in DOMAIN h.cell :
       /\ h.cell[x] = Cell(h.cell[x].type, h.cell[x].atom, h.cell[x].car, h.cell[x].cdr)
       /\ h.cell[x].atom \in BOOLEAN
       /\ h.cell[x].type = "vector" => IsVector(h, x)
       /\ ~h.cell[x].atom =>
            Pointer(h.cell, h.cell[x].car) /\ Pointer(h.cell, h.cell[x].cdr)
  /\ h.roots \in Seq(Int)
  /\ \A k \in 1 .. Len(h.roots) : Pointer(h.cell, h.roots[k])

-----------------------------------------------------------------------------
\* A walk w: the cells; the pointers that gc gives to mark and how many it has
\* given; t, p and i of mark, its place at, named for the labels of the code;
\* and calls, the calls of mark that wait for the cells of a vector.
Begin(cell, roots) ==
  [cell |-> cell, roots |-> roots, given |-> 0, calls |-> <<>>,
   t |-> Null, p |-> Null, i |-> 0, at |-> "gc"]

\* gc calls mark for one pointer after the other.
NextRoot(w) ==
  IF w.given = Len(w.roots) THEN [w EXCEPT !.at = "end"]
  ELSE LET a == w.roots[w.given + 1]
       IN  IF a <= 0 THEN [w EXCEPT !.given = @ + 1]
           ELSE [w EXCEPT !.given = @ + 1, !.p = a, !.at = "E2"]

Visit(w) ==
  [w EXCEPT !.cell[w.p].mark = TRUE, !.i = 0,
            !.at = IF w.cell[w.p].type = "vector" THEN "vector" ELSE "E4"]

\* Mutant: the cell behind the last whole pair of elements is forgotten.
MutMarkElement(w) ==
  IF w.i >= w.cell[w.p].car \div 2 THEN [w EXCEPT !.at = "E4"]
  ELSE [w EXCEPT !.calls = Append(@, [t |-> w.t, p |-> w.p, i |-> w.i + 1]),
                 !.t = Null, !.p = w.p + 1 + w.i, !.at = "E2"]
\* mark calls itself for the cells of a vector, whether they are marked or not.
MarkElement(w) ==
  IF w.i >= Halves(w.cell[w.p].car) THEN [w EXCEPT !.at = "E4"]
  ELSE [w EXCEPT !.calls = Append(@, [t |-> w.t, p |-> w.p, i |-> w.i + 1]),
                 !.t = Null, !.p = w.p + 1 + w.i, !.at = "E2"]

DownCar(w) ==
  LET q == w.cell[w.p].car
  IN  IF w.cell[w.p].atom THEN [w EXCEPT !.at = "E6"]
      ELSE IF Marked(w.cell, q) THEN [w EXCEPT !.at = "E5"]
      ELSE [w EXCEPT !.cell[w.p].car = w.t, !.cell[w.p].atom = TRUE,
                     !.t = w.p, !.p = q, !.at = "E2"]

DownCdr(w) ==
  LET q == w.cell[w.p].cdr
  IN  IF Marked(w.cell, q) THEN [w EXCEPT !.at = "E6"]
      ELSE [w EXCEPT !.cell[w.p].cdr = w.t, !.t = w.p, !.p = q, !.at = "E2"]

\* mark returns, to gc or to the call that waits.
Return(w) ==
  LET n == Len(w.calls)
      c == w.calls[n]
  IN  IF n = 0 THEN [w EXCEPT !.at = "gc"]
      ELSE [w EXCEPT !.calls = SubSeq(@, 1, n - 1),
                     !.t = c.t, !.p = c.p, !.i = c.i, !.at = "vector"]

\* Mutant: the way up forgets to put the second pointer back.
MutUp(w) ==
  IF w.t = Null THEN Return(w)
  ELSE IF w.cell[w.t].atom
       THEN [w EXCEPT !.cell[w.t].atom = FALSE, !.cell[w.t].car = w.p,
                      !.t = w.cell[w.t].car, !.p = w.t, !.at = "E5"]
       ELSE [w EXCEPT !.t = w.cell[w.t].cdr, !.p = w.t]
Up(w) ==
  IF w.t = Null THEN Return(w)
  ELSE IF w.cell[w.t].atom
       THEN [w EXCEPT !.cell[w.t].atom = FALSE, !.cell[w.t].car = w.p,
                      !.t = w.cell[w.t].car, !.p = w.t, !.at = "E5"]
       ELSE [w EXCEPT !.cell[w.t].cdr = w.p, !.t = w.cell[w.t].cdr, !.p = w.t]

\* From one label to the next.
Jump(w) ==
  CASE w.at = "gc" -> NextRoot(w)
    [] w.at = "E2" -> Visit(w)
    [] w.at = "vector" -> MarkElement(w)
    [] w.at = "E4" -> DownCar(w)
    [] w.at = "E5" -> DownCdr(w)
    [] w.at = "E6" -> Up(w)

-----------------------------------------------------------------------------
\* The sweep: what is not marked is linked up in the order of addresses.
Unmarked(cell) == {x \in DOMAIN cell : ~cell[x].mark}
First(S) == IF S = {} THEN NIL ELSE CHOOSE x \in S : \A y \in S : x <= y
Swept(cell) ==
  LET dead == Unmarked(cell)
  IN  [x \in DOMAIN cell |-> IF x \in dead THEN FreeCell(First({y \in dead : y > x}))
                             ELSE [cell[x] EXCEPT !.mark = FALSE]]

-----------------------------------------------------------------------------
\* m is struct scheme; m.new is the cell made last.
Sweep(m, c) ==
  [m EXCEPT !.cell = Swept(c), !.free_cell = First(Unmarked(c)),
            !.fcells = Cardinality(Unmarked(c))]

\* alloc_cellseg: malloc gives higher addresses each time, so the new cells
\* come last on the free list.  Segments do not touch.
alloc_cellseg(m) ==
  LET first == (m.last_cell_seg + 1) * (m.segsize + 1) + 1
      new == first .. first + m.segsize - 1
      old == {x \in Free(m.cell) : m.cell[x].cdr = NIL}
      linked(x) == IF x \in old THEN [m.cell[x] EXCEPT !.cdr = first] ELSE m.cell[x]
  IN  IF m.last_cell_seg >= NSegment - 1 THEN m
      ELSE [m EXCEPT
              !.last_cell_seg = @ + 1,
              !.fcells = @ + m.segsize,
              !.free_cell = IF @ = NIL THEN first ELSE @,
              !.cell = [x \in DOMAIN m.cell \cup new |->
                          IF x \notin new THEN linked(x)
                          ELSE FreeCell(IF x + 1 \in new THEN x + 1 ELSE NIL)]]

NoMemory(m) == [m EXCEPT !.no_memory = TRUE, !.new = Sink]
Taken(m) ==
  [m EXCEPT !.new = m.free_cell, !.free_cell = m.cell[m.free_cell].cdr, !.fcells = @ - 1]

\* A segment more if the collection has not brought enough.
Enlarged(g) ==
  IF g.fcells < g.last_cell_seg * FewCells \/ g.free_cell = NIL THEN alloc_cellseg(g) ELSE g
Supplied(m) == IF m.free_cell = NIL THEN NoMemory(m) ELSE Taken(m)

\* The new cell is filled in; what is written to the sink is lost.
Filled(m, c) == IF m.new > 0 THEN [m EXCEPT !.cell[m.new] = c] ELSE m

-----------------------------------------------------------------------------
\* Vectors need cells in a row: the first run of the free list that has n.
\* Mutant: the list goes on behind the first cell of the run.
Mutfind_consecutive_cells(m, n) ==
  LET runs == {x \in Free(m.cell) : \A i \in 0 .. n - 1 : x + i \in Free(m.cell)}
      x == First(runs)
      behind == m.cell[x].cdr
      before == {y \in Free(m.cell) : m.cell[y].cdr = x}
  IN  IF runs = {} THEN [m EXCEPT !.new = NIL]
      ELSE [m EXCEPT !.new = x, !.fcells = @ - n,
                     !.free_cell = IF @ = x THEN behind ELSE @,
                     !.cell = [y \in DOMAIN @ |->
                                 IF y \in before THEN [@[y] EXCEPT !.cdr = behind]
                                 ELSE @[y]]]
find_consecutive_cells(m, n) ==
  LET runs == {x \in Free(m.cell) : \A i \in 0 .. n - 1 : x + i \in Free(m.cell)}
      x == First(runs)
      behind == m.cell[x + n - 1].cdr
      before == {y \in Free(m.cell) : m.cell[y].cdr = x}
  IN  IF runs = {} THEN [m EXCEPT !.new = NIL]
      ELSE [m EXCEPT !.new = x, !.fcells = @ - n,
                     !.free_cell = IF @ = x THEN behind ELSE @,
                     !.cell = [y \in DOMAIN @ |->
                                 IF y \in before THEN [@[y] EXCEPT !.cdr = behind]
                                 ELSE @[y]]]

\* After a collection: in what it has brought, or else in a new segment.  The search
\* that follows is made either way, so that a run which the first one has found, and
\* taken from the list, is forgotten and a second one is wanted.
Forgotten(m, n) ==
  [m EXCEPT !.cell = [x \in DOMAIN @ |-> IF x \in m.new .. m.new + n - 1 THEN LostCell ELSE @[x]]]
consecutive_cells(m, n) ==
  LET found == find_consecutive_cells(m, n)
      again == find_consecutive_cells(IF found.new = NIL THEN alloc_cellseg(m)
                                      ELSE Forgotten(found, n), n)
  IN  IF again.new = NIL THEN NoMemory(again) ELSE again

fill_vector(m, v, obj) ==
  [m EXCEPT !.cell = [x \in DOMAIN @ |->
     IF x \in ElementCells(@, v) THEN Cell("pair", FALSE, obj, obj) ELSE @[x]]]

\* What mk_vector makes of the cells it gets.
Vector(m, len) ==
  IF m.new = Sink THEN m
  ELSE fill_vector(Filled(m, Cell("vector", TRUE, len, NIL)), m.new, NIL)

\* The cell of an element, of which it is one half.
ElementCell(v, i) == v + 1 + (i \div 2)
=============================================================================
