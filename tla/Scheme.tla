------------------------------- MODULE Scheme -------------------------------
(***************************************************************************)
(* The Scheme interpreter (scheme/scheme.c) at work on a text, in a memory *)
(* of a given size.  A text has one course for each size: what varies is   *)
(* where the cells run out and the collector is called.                    *)
(***************************************************************************)
EXTENDS SchemeText

CONSTANTS
  Texts,       \* the texts: what each says and what it means, tokens and pieces
  SegSizes     \* the values of CELL_SEGSIZE

VARIABLE meant  \* what the text that is read should write
vars == <<sc, meant>>

\* scheme_init and scheme_load_file.
scheme_init(size, in) ==
  LET none == [cell |-> [x \in {} |-> FreeCell(NIL)], free_cell |-> NIL, fcells |-> 0,
               last_cell_seg |-> 0 - 1, segsize |-> size, no_memory |-> FALSE,
               args |-> NIL, envir |-> NIL, code |-> NIL, dump |-> NIL, value |-> NIL,
               global_env |-> NIL, op |-> "T0LVL", tok |-> "EOF", print_flag |-> FALSE,
               new |-> NIL, in |-> in, out |-> <<>>]
      segments == FoldLeft(LAMBDA m, i : alloc_cellseg(m), none, [i \in 1 .. FirstSegs |-> i])
  IN  Then(new_frame_in_env(segments, NIL), LAMBDA m : [m EXCEPT !.global_env = m.envir])

Init ==
  \E text \in Texts, size \in SegSizes :
    /\ sc = scheme_init(size, text.says)
    /\ meant = text.means

Eval_Cycle ==
  \/ T0LVL \/ T1LVL \/ READ_INTERNAL \/ VALUEPRINT
  \/ EvalVariable \/ EvalSyntax \/ EvalCall \/ EvalConstant
  \/ E0ARGS \/ E1ARGS \/ DOMACRO
  \/ ApplyProcedure \/ ApplyClosure \/ ApplyContinuation \/ ApplyNothing
  \/ LAMBDA0 \/ QUOTE0 \/ DEF0 \/ DEF1 \/ MACRO0 \/ MACRO1 \/ SET0 \/ SET1
  \/ BEGIN \/ IF0 \/ IF1 \/ COND0 \/ CondHolds \/ CondFails
  \/ AND0 \/ AND1 \/ OR0 \/ OR1 \/ CASE0 \/ CASE1 \/ CASE2
  \/ LET0 \/ LET1 \/ LET2 \/ LET0AST \/ LET1AST \/ LET2AST
  \/ LET0REC \/ LET1REC \/ LET2REC
  \/ DELAY \/ C0STREAM \/ C1STREAM \/ FORCE \/ SAVE_FORCED
  \/ WrongArguments \/ Arithmetic \/ Comparisons \/ Predicates \/ EQ \/ EQV
  \/ CAR \/ CDR \/ CONS \/ SETCAR \/ SETCDR
  \/ REVERSE \/ APPEND \/ LIST_LENGTH \/ ASSQ \/ LIST_STAR
  \/ VECTOR \/ MKVECTOR \/ VECLEN \/ VECREF \/ VECSET
  \/ PAPPLY \/ PEVAL \/ CONTINUATION \/ DEFP \/ CURR_ENV \/ INT_ENV
  \/ QUIT \/ GC \/ NEWSEGMENT
  \/ ReadEnd \/ ReadList \/ ReadPrefix \/ ReadAtom \/ ReadIllegal
  \/ RDLIST \/ RDDOT \/ RDPREFIX \/ RDVEC
  \/ PrintVector \/ PrintAtom \/ PrintAbbreviated \/ PrintList \/ P1LIST \/ PVECFROM
  \/ DISPLAY \/ NEWLINE \/ ERR0 \/ ERR1

Next == Eval_Cycle /\ UNCHANGED meant
Spec == Init /\ [][Next]_vars

-----------------------------------------------------------------------------
\* What is written is what the text means, whatever the size of the memory and
\* whenever the collector is called; a text may be cut off only by a report that
\* there is no memory (Eval_Cycle ends with "No memory!"), be it too small or, for a
\* vector, such a run of cells forgotten.
OutputIsMeant ==
  /\ IsPrefix(sc.out, meant)
  /\ sc.op = "QUIT" => sc.out = meant

\* What the interpreter can still get at, without the help of the collector.
Children(m, x) ==
  CASE TypeOf(m, x) \in {"pair", "closure", "macro", "promise", "environment"} ->
         {Car(m, x), Cdr(m, x)}
    [] TypeOf(m, x) = "continuation" -> {Cdr(m, x)}
    [] TypeOf(m, x) = "vector" -> ElementCells(m.cell, x)
    [] OTHER -> {}
RECURSIVE ReachedFrom(_, _, _)
ReachedFrom(m, edge, seen) ==
  Then({q \in UNION {Children(m, x) : x \in edge} : q > 0} \ seen, LAMBDA more :
    IF more = {} THEN seen ELSE ReachedFrom(m, more, seen \cup more))
Reachable(m) ==
  LET roots == {p \in {m.global_env, m.args, m.envir, m.code, m.dump, m.value} : p > 0}
  IN  ReachedFrom(m, roots, roots)

\* At whatever moment the collector is called (get_cell calls it when no cell
\* is left), the inversion of the links leaves every cell that can be reached
\* as it was, and all the others and no more, forgotten runs among them, are free
\* (mark, gc): the memory is as Storage has it, the cells of a vector are its own.
CollectorIsExact ==
  /\ WellFormed([cell |-> sc.cell, roots |-> Roots(sc)])
  /\ LET exact(g, live) ==
           /\ \A x \in live : g.cell[x] = sc.cell[x]
           /\ Free(g.cell) = DOMAIN sc.cell \ live
     IN  exact(gc(sc, NIL, NIL), Reachable(sc))

\* No opcode leaves a pointer to a cell that the collector took from it while
\* it held that cell in a C variable only (get_cell marks its two arguments for
\* that); and the free list goes through the free cells, but for runs forgotten
\* since the last sweep, in the order of their addresses, from which
\* count_consecutive_cells tells cells in a row.
NothingInUseIsFree ==
  /\ Reachable(sc) \cap Free(sc.cell) = {}
  /\ sc.free_cell = First(Free(sc.cell))
  /\ \A x \in Free(sc.cell) : sc.cell[x].cdr = First({y \in Free(sc.cell) : y > x})
  /\ sc.fcells = Cardinality(Free(sc.cell))
=============================================================================
