---------------------------- MODULE SchemeCells ----------------------------
(***************************************************************************)
(* The memory of scheme.c: gc and what allocates.  Everything works on m,  *)
(* the struct scheme: cells, registers and the rest of the interpreter.    *)
(***************************************************************************)
EXTENDS Cells, SequencesExt, TLC

CONSTANT Names   \* the symbols: a sequence of strings

NumberOf(s) == CHOOSE i \in DOMAIN Names : Names[i] = s
Symbol(s) == 0 - 100 - NumberOf(s)
Procedure(s) == 0 - 1000 - NumberOf(s)
IsSymbol(p) == p < 0 - 100 /\ p > 0 - 1000
IsProc(p) == p < 0 - 1000
NameOf(p) == IF IsProc(p) THEN Names[0 - 1000 - p] ELSE Names[0 - 100 - p]

TypeOf(m, p) == IF p > 0 THEN m.cell[p].type ELSE "constant"
Car(m, p) == IF p > 0 THEN m.cell[p].car ELSE p
Cdr(m, p) == IF p > 0 THEN m.cell[p].cdr ELSE p
IsPair(m, p) == TypeOf(m, p) = "pair"
SetCar(m, p, a) == IF p > 0 THEN [m EXCEPT !.cell[p].car = a] ELSE m
SetCdr(m, p, b) == IF p > 0 THEN [m EXCEPT !.cell[p].cdr = b] ELSE m

\* One thing after another: Rest goes on with m.
Then(m, Rest(_)) == CHOOSE r \in {Rest(x) : x \in {m}} : TRUE

-----------------------------------------------------------------------------
\* gc: the registers, and a and b for the caller.
\* Mutant: the value of the last expression is forgotten.
MutRoots(m) == <<m.global_env, m.args, m.envir, m.code, m.dump>>
Roots(m) == <<m.global_env, m.args, m.envir, m.code, m.dump, m.value>>

\* At most 2^k jumps from label to label.
RECURSIVE Jumps(_, _)
Jumps(w, k) ==
  IF w.at = "end" THEN w
  ELSE IF k > 0 THEN Then(Jumps(w, k - 1), LAMBDA v : Jumps(v, k - 1))
  ELSE Jump(w)
MaxJumps == 11
gc(m, a, b) ==
  Then(Jumps(Begin(m.cell, Roots(m) \o <<a, b>>), MaxJumps), LAMBDA w : Sweep(m, w.cell))

\* Mutant: what the new cell is to hold is not kept.
Mut_get_cell(m, a, b) ==
  IF m.no_memory THEN [m EXCEPT !.new = Sink]
  ELSE Then(Enlarged(gc(m, NIL, NIL)), Supplied)
_get_cell(m, a, b) ==
  IF m.no_memory THEN [m EXCEPT !.new = Sink]
  ELSE Then(Enlarged(gc(m, a, b)), Supplied)

get_cell(m, a, b) == IF m.free_cell # NIL THEN Taken(m) ELSE _get_cell(m, a, b)

cons(m, a, b) == Filled(get_cell(m, a, b), Cell("pair", FALSE, a, b))
\* Calls of cons in one another's last argument: s in front of the list end.
conses(m, s, end) == FoldRight(LAMBDA a, c : cons(c, a, c.new), s, [m EXCEPT !.new = end])
mk_integer(m, n) == Filled(get_cell(m, NIL, NIL), Cell("number", TRUE, n, NIL))
mk_string(m, s) == Filled(get_cell(m, NIL, NIL), Cell("string", TRUE, s, NIL))
mk_closure(m, c, e) == Filled(get_cell(m, c, e), Cell("closure", FALSE, c, e))
mk_continuation(m, d) == Filled(get_cell(m, NIL, d), Cell("continuation", FALSE, NIL, d))

-----------------------------------------------------------------------------
\* Vectors: their cells at once, or after a collection.
get_consecutive_cells(m, n) ==
  IF m.no_memory THEN [m EXCEPT !.new = Sink]
  ELSE Then(find_consecutive_cells(m, n), LAMBDA one :
         IF one.new # NIL THEN one
         ELSE Then(gc(one, NIL, NIL), LAMBDA two : consecutive_cells(two, n)))

mk_vector(m, len) ==
  Then(get_consecutive_cells(m, Halves(len) + 1), LAMBDA g : Vector(g, len))

vector_elem(m, v, i) ==
  LET x == ElementCell(v, i) IN IF i % 2 = 0 THEN Car(m, x) ELSE Cdr(m, x)
set_vector_elem(m, v, i, a) ==
  LET x == ElementCell(v, i) IN IF i % 2 = 0 THEN SetCar(m, x, a) ELSE SetCdr(m, x, a)

-----------------------------------------------------------------------------
\* Lists.
RECURSIVE ListOf(_, _)
ListOf(m, p) == IF IsPair(m, p) THEN <<p>> \o ListOf(m, Cdr(m, p)) ELSE <<>>

list_length(m, p) ==
  LET l == ListOf(m, p)
  IN  IF (IF l = <<>> THEN p ELSE Cdr(m, Last(l))) = NIL THEN Len(l) ELSE 0 - 1

\* reverse_in_place(term, list): the new head is in m.new.
RECURSIVE reverse_in_place(_, _, _)
reverse_in_place(m, term, p) ==
  IF p <= 0 THEN [m EXCEPT !.new = term]
  ELSE reverse_in_place(SetCdr(m, p, term), p, Cdr(m, p))

RECURSIVE ReverseOnto(_, _, _)
ReverseOnto(m, p, a) ==
  IF IsPair(m, a)
  THEN Then(cons(m, Car(m, a), p), LAMBDA c : ReverseOnto(c, c.new, Cdr(c, a)))
  ELSE [m EXCEPT !.new = p]
reverse(m, a) == ReverseOnto(m, NIL, a)

\* append(a, b): the copy of a is turned round once more, before b.
append(m, a, b) ==
  IF a = NIL THEN [m EXCEPT !.new = b]
  ELSE Then(reverse(m, a), LAMBDA r : reverse_in_place(r, b, r.new))

-----------------------------------------------------------------------------
\* Environments: frames that are lists of slots.  The hash table of the first
\* frame is a list as well.
new_frame_in_env(m, old) ==
  Then(Filled(get_cell(m, NIL, old), Cell("environment", FALSE, NIL, old)), LAMBDA g :
    [g EXCEPT !.envir = g.new])

new_slot_in_env(m, variable, value) ==
  Then(cons(m, variable, value), LAMBDA s :
    Then(cons(s, s.new, Car(s, s.envir)), LAMBDA f : SetCar(f, f.envir, f.new)))

RECURSIVE find_slot_in_env(_, _, _, _)
find_slot_in_env(m, env, hdl, all) ==
  LET found == SelectSeq(ListOf(m, Car(m, env)), LAMBDA y : Car(m, Car(m, y)) = hdl)
  IN  IF env = NIL THEN NIL
      ELSE IF found # <<>> THEN Car(m, found[1])
      ELSE IF all THEN find_slot_in_env(m, Cdr(m, env), hdl, all) ELSE NIL
=============================================================================
