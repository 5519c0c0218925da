---------------------------- MODULE SchemeProcs ----------------------------
(***************************************************************************)
(* scheme.c: the procedures of the interpreter, with the check of their    *)
(* arguments that Eval_Cycle makes first.  They find the arguments as a    *)
(* list in register args.                                                  *)
(***************************************************************************)
EXTENDS SchemeEval

Args(m) == [i \in DOMAIN ListOf(m, m.args) |-> Car(m, ListOf(m, m.args)[i])]
Arg(m, i) == Args(m)[i]
Integer(m, p) == m.cell[p].car
Integers_(m) == [i \in DOMAIN Args(m) |-> Integer(m, Args(m)[i])]

\* tests: whether p is what an argument must be.
IsA(m, kind, p) ==
  CASE kind = "any" -> TRUE
    [] kind = "symbol" -> IsSymbol(p)
    [] kind \in {"number", "integer"} -> TypeOf(m, p) = "number"
    [] kind = "non-negative integer" -> TypeOf(m, p) = "number" /\ Integer(m, p) >= 0
    [] kind = "pair or '()" -> p = NIL \/ IsPair(m, p)
    [] kind = "output_port" -> FALSE
    [] OTHER -> TypeOf(m, p) = kind

\* What Eval_Cycle has to say against the call, "" if nothing.
Complaint(m) ==
  LET row == dispatch_table[m.op]
      n == list_length(m, m.args)
      kind(i) == row.kinds[IF i < Len(row.kinds) THEN i ELSE Len(row.kinds)]
      bad == {i \in 1 .. n : ~IsA(m, kind(i), Arg(m, i))}
      first == CHOOSE i \in bad : \A j \in bad : i <= j
      needs(how, k) == m.op \o ": needs" \o (IF row.min = row.max THEN "" ELSE how)
                       \o " " \o ToString(k) \o " argument(s)"
  IN  IF n < row.min THEN needs(" at least", row.min)
      ELSE IF n > row.max THEN needs(" at most", row.max)
      ELSE IF bad = {} THEN ""
      ELSE m.op \o ": argument " \o ToString(first) \o " must be: " \o kind(first)

Calls(names) == sc.op \in names /\ Complaint(sc) = ""
WrongArguments ==
  /\ sc.op \in DOMAIN dispatch_table /\ Complaint(sc) # ""
  /\ Become(_Error_1(sc, Complaint(sc), <<>>))

-----------------------------------------------------------------------------
\* Numbers: C divides towards zero.
Abs(a) == IF a < 0 THEN 0 - a ELSE a
num_intdiv(a, b) == IF (a < 0) = (b < 0) THEN Abs(a) \div Abs(b) ELSE 0 - (Abs(a) \div Abs(b))
num_rem(a, b) == a - b * num_intdiv(a, b)
num_mod(a, b) ==
  LET res == num_rem(a, b)
  IN  IF res * b >= 0 THEN res ELSE IF res > 0 THEN res - Abs(b) ELSE res + Abs(b)

Arithmetic ==
  /\ Calls({"+", "*", "-", "quotient", "remainder", "modulo"})
  /\ LET v == Integers_(sc)
         one == Len(v) = 1
         first == IF one THEN (IF sc.op = "-" THEN 0 ELSE 1) ELSE v[1]
         rest == IF one THEN v ELSE Tail(v)
         number(n) == Returns(mk_integer(sc, n))
     IN  Become(
           CASE sc.op = "+" -> number(FoldLeft(LAMBDA a, b : a + b, 0, v))
             [] sc.op = "*" -> number(FoldLeft(LAMBDA a, b : a * b, 1, v))
             [] sc.op = "-" -> number(FoldLeft(LAMBDA a, b : a - b, first, rest))
             [] OTHER ->
                  IF 0 \in Range(rest)
                  THEN _Error_1(sc, sc.op \o ": division by zero", <<>>)
                  ELSE number(CASE sc.op = "quotient" -> FoldLeft(num_intdiv, first, rest)
                                [] sc.op = "remainder" -> num_rem(v[1], v[2])
                                [] sc.op = "modulo" -> num_mod(v[1], v[2])))

Comparisons ==
  /\ Calls({"=", "<", ">", "<=", ">="})
  /\ LET v == Integers_(sc)
         holds(a, b) == CASE sc.op = "=" -> a = b
                          [] sc.op = "<" -> a < b
                          [] sc.op = ">" -> a > b
                          [] sc.op = "<=" -> a <= b
                          [] sc.op = ">=" -> a >= b
     IN  Become(s_retbool(sc, \A i \in 1 .. Len(v) - 1 : holds(v[i], v[i + 1])))

\* LISTP walks with two pointers, one twice as fast, to notice a circle.
RECURSIVE ListP(_, _, _)
ListP(m, fast, slow) ==
  LET one == Cdr(m, fast)
      two == Cdr(m, one)
  IN  IF ~IsPair(m, fast) THEN fast = NIL
      ELSE IF ~IsPair(m, one) THEN one = NIL
      ELSE two # Cdr(m, slow) /\ ListP(m, two, Cdr(m, slow))

Predicates ==
  /\ Calls({"not", "boolean?", "null?", "symbol?", "number?", "string?", "procedure?",
            "pair?", "list?", "vector?", "environment?", "closure?", "macro?"})
  /\ LET p == Arg(sc, 1)
         type == TypeOf(sc, p)
     IN  Become(s_retbool(sc,
           CASE sc.op = "not" -> p = F
             [] sc.op = "boolean?" -> p \in {T, F}
             [] sc.op = "null?" -> p = NIL
             [] sc.op = "symbol?" -> IsSymbol(p)
             [] sc.op = "number?" -> type = "number"
             [] sc.op = "string?" -> type = "string"
             [] sc.op = "procedure?" -> IsProc(p) \/ type \in {"closure", "continuation"}
             [] sc.op = "pair?" -> type = "pair"
             [] sc.op = "list?" -> ListP(sc, p, p)
             [] sc.op = "vector?" -> type = "vector"
             [] sc.op = "environment?" -> type = "environment"
             [] sc.op = "closure?" -> type = "closure"
             [] sc.op = "macro?" -> type = "macro"))

EQ == Calls({"eq?"}) /\ Become(s_retbool(sc, Arg(sc, 1) = Arg(sc, 2)))
EQV == Calls({"eqv?"}) /\ Become(s_retbool(sc, eqv(sc, Arg(sc, 1), Arg(sc, 2))))

-----------------------------------------------------------------------------
\* Pairs and lists.  cons makes its pair of the list of its arguments.
CAR == Calls({"car"}) /\ Become(_s_return(sc, Car(sc, Arg(sc, 1))))
CDR == Calls({"cdr"}) /\ Become(_s_return(sc, Cdr(sc, Arg(sc, 1))))
CONS == Calls({"cons"}) /\ Become(_s_return(SetCdr(sc, sc.args, Arg(sc, 2)), sc.args))
SETCAR ==
  Calls({"set-car!"}) /\ Become(_s_return(SetCar(sc, Arg(sc, 1), Arg(sc, 2)), Arg(sc, 1)))
SETCDR ==
  Calls({"set-cdr!"}) /\ Become(_s_return(SetCdr(sc, Arg(sc, 1), Arg(sc, 2)), Arg(sc, 1)))

REVERSE == Calls({"reverse"}) /\ Become(Returns(reverse(sc, Arg(sc, 1))))

\* A single argument is returned in the list of arguments itself.
APPEND ==
  /\ Calls({"append"})
  /\ Become(IF list_length(sc, sc.args) <= 1 THEN _s_return(sc, sc.args)
            ELSE Returns(FoldLeft(LAMBDA m, b : append(m, m.new, b),
                                  [sc EXCEPT !.new = Car(sc, sc.args)], Tail(Args(sc)))))

LIST_LENGTH ==
  /\ Calls({"length"})
  /\ LET n == list_length(sc, Arg(sc, 1))
     IN  Become(IF n < 0 THEN _Error_1(sc, "length: not a list:", <<Arg(sc, 1)>>)
                ELSE Returns(mk_integer(sc, n)))

ASSQ ==
  /\ Calls({"assq"})
  /\ LET l == [i \in DOMAIN ListOf(sc, Arg(sc, 2)) |-> Car(sc, ListOf(sc, Arg(sc, 2))[i])]
         stops == {i \in DOMAIN l : ~IsPair(sc, l[i]) \/ Car(sc, l[i]) = Arg(sc, 1)}
         i == CHOOSE x \in stops : \A y \in stops : x <= y
     IN  Become(IF stops = {} THEN _s_return(sc, F)
                ELSE IF IsPair(sc, l[i]) THEN _s_return(sc, l[i])
                ELSE _Error_1(sc, "unable to handle non pair element", <<>>))

\* list_star: the first cell is copied, the others are the caller's.
RECURSIVE StarLoop(_, _)
StarLoop(m, p) ==
  IF m.no_memory THEN m
  ELSE IF Cdr(m, Cdr(m, p)) = NIL THEN SetCdr(m, p, Car(m, Cdr(m, p)))
  ELSE Then(cons(m, Car(m, p), Cdr(m, p)), LAMBDA d : StarLoop(d, Cdr(d, d.new)))
list_star(m, d) ==
  IF Cdr(m, d) = NIL THEN [m EXCEPT !.new = Car(m, d)]
  ELSE Then(cons(m, Car(m, d), Cdr(m, d)), LAMBDA q :
         [StarLoop(q, q.new) EXCEPT !.new = q.new])
LIST_STAR == Calls({"list*"}) /\ Become(Returns(list_star(sc, sc.args)))

-----------------------------------------------------------------------------
\* Vectors.
VECTOR ==
  /\ Calls({"vector"})
  /\ Become(Then(mk_vector(sc, Len(Args(sc))), LAMBDA v :
       Returns(FoldLeft(LAMBDA m, i : set_vector_elem(m, v.new, i - 1, Arg(sc, i)),
                        v, [i \in DOMAIN Args(sc) |-> i]))))

MKVECTOR ==
  /\ Calls({"make-vector"})
  /\ Become(Then(mk_vector(sc, Integer(sc, Arg(sc, 1))), LAMBDA v :
       Returns(IF v.no_memory \/ Len(Args(sc)) = 1 THEN v
               ELSE fill_vector(v, v.new, Arg(sc, 2)))))

VECLEN ==
  Calls({"vector-length"}) /\ Become(Returns(mk_integer(sc, Integer(sc, Arg(sc, 1)))))

InBounds == Integer(sc, Arg(sc, 2)) < Integer(sc, Arg(sc, 1))
VECREF ==
  /\ Calls({"vector-ref"})
  /\ Become(IF InBounds THEN _s_return(sc, vector_elem(sc, Arg(sc, 1), Integer(sc, Arg(sc, 2))))
            ELSE _Error_1(sc, "vector-ref: out of bounds:", <<Arg(sc, 2)>>))
VECSET ==
  /\ Calls({"vector-set!"})
  /\ LET m == set_vector_elem(sc, Arg(sc, 1), Integer(sc, Arg(sc, 2)), Arg(sc, 3))
     IN  Become(IF InBounds THEN _s_return(m, Arg(sc, 1))
                ELSE _Error_1(sc, "vector-set!: out of bounds:", <<Arg(sc, 2)>>))

-----------------------------------------------------------------------------
\* Evaluation, promises and continuations.
PAPPLY ==
  /\ Calls({"apply"})
  /\ Become(Then(list_star([sc EXCEPT !.code = Arg(sc, 1)], Cdr(sc, sc.args)), LAMBDA l :
       [l EXCEPT !.args = l.new, !.op = "APPLY"]))

PEVAL ==
  /\ Calls({"eval"})
  /\ Become(Eval([sc EXCEPT !.envir = IF Len(Args(sc)) = 2 THEN Arg(sc, 2) ELSE @], Arg(sc, 1)))

CONTINUATION ==
  /\ Calls({"call-with-current-continuation"})
  /\ Become(Then(mk_continuation([sc EXCEPT !.code = Arg(sc, 1)], sc.dump), LAMBDA k :
       Then(cons(k, k.new, NIL), LAMBDA c : [c EXCEPT !.args = c.new, !.op = "APPLY"])))

FORCE ==
  /\ Calls({"force"})
  /\ Become(Then([sc EXCEPT !.code = Arg(sc, 1)], LAMBDA m :
       IF TypeOf(m, m.code) = "promise"
       THEN [s_save(m, "SAVE_FORCED", NIL, m.code) EXCEPT !.args = NIL, !.op = "APPLY"]
       ELSE _s_return(m, m.code)))

\* The promise becomes a copy of the cell of its value.
SAVE_FORCED ==
  /\ sc.op = "SAVE_FORCED"
  /\ LET copy == IF sc.value > 0 THEN sc.cell[sc.value] ELSE Cell("copy", TRUE, sc.value, NIL)
     IN  Become(_s_return([sc EXCEPT !.cell[sc.code] = copy], sc.value))

DEFP ==
  /\ Calls({"defined?"})
  /\ Become(s_retbool(sc, Bound(sc, IF Len(Args(sc)) = 2 THEN Arg(sc, 2) ELSE sc.envir,
                                Arg(sc, 1))))

CURR_ENV == Calls({"current-environment"}) /\ Become(_s_return(sc, sc.envir))
INT_ENV == Calls({"interaction-environment"}) /\ Become(_s_return(sc, sc.global_env))

-----------------------------------------------------------------------------
\* The end of it all, and the memory.
QUIT == Calls({"quit"}) /\ Become(s_goto(sc, "QUIT"))
GC == Calls({"gc"}) /\ Become(_s_return(gc(sc, NIL, NIL), T))
NEWSEGMENT ==
  /\ Calls({"new-segment"})
  /\ Become(IF sc.args = NIL
            THEN _Error_1(sc, "new-segment: argument must be a number", <<>>)
            ELSE _s_return(FoldLeft(LAMBDA m, i : alloc_cellseg(m), sc,
                                    [i \in 1 .. Integer(sc, Arg(sc, 1)) |-> i]), T))
=============================================================================
