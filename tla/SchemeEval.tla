----------------------------- MODULE SchemeEval -----------------------------
(***************************************************************************)
(* scheme.c: the evaluation cycle and the operations of the syntax.  One   *)
(* action per opcode; the stack is a list of cells like any other.         *)
(***************************************************************************)
EXTENDS SchemeCells, SchemeTable

VARIABLE sc      \* struct scheme, of which the fields are listed in Scheme

\* The opcodes that are saved on the stack, as numbers.
Ops == <<"T0LVL", "VALUEPRINT", "T1LVL", "E0ARGS", "E1ARGS", "DOMACRO", "DEF1",
         "SET1", "BEGIN", "IF1", "LET1", "LET1AST", "LET2AST", "LET1REC", "COND1",
         "AND1", "OR1", "C1STREAM", "MACRO1", "CASE1", "CASE2", "SAVE_FORCED",
         "ERR1", "RDLIST", "RDDOT", "RDQUOTE", "RDQQUOTE", "RDUNQUOTE", "RDUQTSP",
         "RDVEC", "P1LIST", "PVECFROM">>
OpNumber(op) == CHOOSE i \in DOMAIN Ops : Ops[i] = op

IsSyntax(p) == IsSymbol(p) /\ NameOf(p) \in DOMAIN Syntax

QUOTE_ == Symbol("quote")
LAMBDA_ == Symbol("lambda")
FEED_TO == Symbol("=>")

\* Eval_Cycle goes on with m, unless no cell was left.
Become(m) == sc' = IF m.no_memory THEN [m EXCEPT !.op = "NOMEMORY"] ELSE m

s_goto(m, op) == [m EXCEPT !.op = op]
Eval(m, x) == [m EXCEPT !.code = x, !.op = "EVAL"]

_s_return(m, a) ==
  LET d1 == m.dump
      d2 == Cdr(m, d1)
      d3 == Cdr(m, d2)
      d4 == Cdr(m, d3)
  IN  IF m.dump = NIL THEN [m EXCEPT !.value = a, !.op = "QUIT"]
      ELSE [m EXCEPT !.value = a, !.op = Ops[m.cell[Car(m, d1)].car], !.args = Car(m, d2),
                     !.envir = Car(m, d3), !.code = Car(m, d4), !.dump = Cdr(m, d4)]
s_retbool(m, b) == _s_return(m, IF b THEN T ELSE F)

s_save(m, op, args, code) ==
  Then(conses(m, <<args, m.envir, code>>, m.dump), LAMBDA d :
    Then(mk_integer([d EXCEPT !.dump = d.new], OpNumber(op)), LAMBDA n :
      Then(cons(n, n.new, n.dump), LAMBDA s : [s EXCEPT !.dump = s.new])))

\* The error with the message s, and with the object in a if there is one.
_Error_1(m, s, a) ==
  Then(conses(m, a, NIL), LAMBDA b :
    Then(mk_string([b EXCEPT !.args = b.new], s), LAMBDA t :
      Then(cons(t, t.new, t.args), LAMBDA e : [e EXCEPT !.args = e.new, !.op = "error"])))

\* The value of a variable.  The first frame ends with the procedures of the
\* interpreter and with else.
Bound(m, env, x) ==
  \/ find_slot_in_env(m, env, x, TRUE) # NIL
  \/ NameOf(x) \in DOMAIN dispatch_table \cup {"else"}
ValueOf(m, env, x) ==
  LET slot == find_slot_in_env(m, env, x, TRUE)
  IN  IF slot # NIL THEN Cdr(m, slot)
      ELSE IF NameOf(x) = "else" THEN T ELSE Procedure(NameOf(x))

-----------------------------------------------------------------------------
\* EVAL.
EvalVariable ==
  /\ sc.op = "EVAL" /\ IsSymbol(sc.code)
  /\ Become(IF Bound(sc, sc.envir, sc.code)
            THEN _s_return(sc, ValueOf(sc, sc.envir, sc.code))
            ELSE _Error_1(sc, "eval: unbound variable:", <<sc.code>>))

EvalSyntax ==
  /\ sc.op = "EVAL" /\ IsPair(sc, sc.code) /\ IsSyntax(Car(sc, sc.code))
  /\ Become([sc EXCEPT !.code = Cdr(sc, @), !.op = Syntax[NameOf(Car(sc, sc.code))]])

EvalCall ==
  /\ sc.op = "EVAL" /\ IsPair(sc, sc.code) /\ ~IsSyntax(Car(sc, sc.code))
  /\ Become(Eval(s_save(sc, "E0ARGS", NIL, sc.code), Car(sc, sc.code)))

EvalConstant ==
  /\ sc.op = "EVAL" /\ ~IsSymbol(sc.code) /\ ~IsPair(sc, sc.code)
  /\ Become(_s_return(sc, sc.code))

E0ARGS ==
  /\ sc.op = "E0ARGS"
  /\ Become(IF TypeOf(sc, sc.value) = "macro"
            THEN Then(s_save(sc, "DOMACRO", NIL, NIL), LAMBDA s :
                   Then(cons(s, s.code, NIL), LAMBDA c :
                     [c EXCEPT !.args = c.new, !.code = c.value, !.op = "APPLY"]))
            ELSE [sc EXCEPT !.code = Cdr(sc, @), !.op = "E1ARGS"])

\* What E1ARGS, LET1 and LET1REC share: one more value, then either the next
\* expression, or the values in their order, the first of which is the code.
\* The expressions of the latter two stand in bindings.
Init_(m, code) == Car(m, Cdr(m, Car(m, code)))     \* cadar
NextExpression(m, op) ==
  IF op = "E1ARGS" THEN Car(m, m.code) ELSE Init_(m, m.code)
Gathered(op, done) ==
  Then(cons(sc, sc.value, sc.args), LAMBDA c :
    IF IsPair(c, c.code)
    THEN Eval([s_save([c EXCEPT !.args = c.new], op, c.new, Cdr(c, c.code)) EXCEPT !.args = NIL],
              NextExpression(c, op))
    ELSE Then(reverse_in_place(c, NIL, c.new), LAMBDA r :
           [r EXCEPT !.code = Car(r, r.new), !.args = Cdr(r, r.new), !.op = done]))

E1ARGS == sc.op = "E1ARGS" /\ Become(Gathered("E1ARGS", "APPLY"))

-----------------------------------------------------------------------------
\* APPLY.
ApplyProcedure ==
  /\ sc.op = "APPLY" /\ IsProc(sc.code)
  /\ Become(s_goto(sc, NameOf(sc.code)))

\* The parameters x are bound to the arguments y one by one.
RECURSIVE BindParameters(_, _, _)
BindParameters(m, x, y) ==
  IF m.no_memory THEN m
  ELSE IF IsPair(m, x)
  THEN IF y = NIL THEN _Error_1(m, "not enough arguments", <<>>)
       ELSE BindParameters(new_slot_in_env(m, Car(m, x), Car(m, y)), Cdr(m, x), Cdr(m, y))
  ELSE IF x # NIL /\ ~IsSymbol(x)
  THEN _Error_1(m, "syntax error in closure: not a symbol:", <<x>>)
  ELSE Then(IF x = NIL THEN m ELSE new_slot_in_env(m, x, y), LAMBDA b :
         [b EXCEPT !.code = Cdr(b, Car(b, b.code)), !.args = NIL, !.op = "BEGIN"])

ApplyClosure ==
  /\ sc.op = "APPLY" /\ TypeOf(sc, sc.code) \in {"closure", "macro", "promise"}
  /\ Become(BindParameters(new_frame_in_env(sc, Cdr(sc, sc.code)),
                           Car(sc, Car(sc, sc.code)), sc.args))

ApplyContinuation ==
  /\ sc.op = "APPLY" /\ TypeOf(sc, sc.code) = "continuation"
  /\ Become(_s_return([sc EXCEPT !.dump = Cdr(sc, sc.code)], Car(sc, sc.args)))

ApplyNothing ==
  /\ sc.op = "APPLY" /\ ~IsProc(sc.code)
  /\ TypeOf(sc, sc.code) \notin {"closure", "macro", "promise", "continuation"}
  /\ Become(_Error_1(sc, "illegal function", <<>>))

DOMACRO == sc.op = "DOMACRO" /\ Become(Eval(sc, sc.value))

-----------------------------------------------------------------------------
\* Procedures, definitions and assignments.
Returns(m) == Then(m, LAMBDA n : _s_return(n, n.new))

LAMBDA0 == sc.op = "LAMBDA" /\ Become(Returns(mk_closure(sc, sc.code, sc.envir)))

QUOTE0 == sc.op = "QUOTE" /\ Become(_s_return(sc, Car(sc, sc.code)))

\* DEF0 and MACRO0: either the name and a parameter list, or a variable.
Define(op) ==
  LET h == Car(sc, sc.code)
      x == IF IsPair(sc, h) THEN Car(sc, h) ELSE h
  IN  Then(IF IsPair(sc, h) THEN conses(sc, <<LAMBDA_, Cdr(sc, h)>>, Cdr(sc, sc.code))
           ELSE [sc EXCEPT !.new = Car(sc, Cdr(sc, sc.code))], LAMBDA c :
        IF IsSymbol(x) THEN s_goto(s_save([c EXCEPT !.code = c.new], op, NIL, x), "EVAL")
        ELSE _Error_1([c EXCEPT !.code = c.new], "variable is not a symbol", <<>>))
\* DEF1 and MACRO1: the frame that is there gets the variable.
Defined(m) ==
  LET slot == find_slot_in_env(m, m.envir, m.code, FALSE)
  IN  Then(IF slot # NIL THEN SetCdr(m, slot, m.value)
           ELSE new_slot_in_env(m, m.code, m.value), LAMBDA d : _s_return(d, d.code))

DEF0 == sc.op = "DEF0" /\ Become(Define("DEF1"))
DEF1 == sc.op = "DEF1" /\ Become(Defined(sc))
MACRO0 == sc.op = "MACRO0" /\ Become(Define("MACRO1"))
MACRO1 == sc.op = "MACRO1" /\ Become(Defined([sc EXCEPT !.cell[sc.value].type = "macro"]))

SET0 ==
  /\ sc.op = "SET0"
  /\ Become(Eval(s_save(sc, "SET1", NIL, Car(sc, sc.code)), Car(sc, Cdr(sc, sc.code))))
SET1 ==
  /\ sc.op = "SET1"
  /\ LET slot == find_slot_in_env(sc, sc.envir, sc.code, TRUE)
     IN  Become(IF slot # NIL THEN _s_return(SetCdr(sc, slot, sc.value), sc.value)
                ELSE _Error_1(sc, "set!: unbound variable:", <<sc.code>>))

-----------------------------------------------------------------------------
\* Sequences and conditions.  After goes on with the first of the code, and
\* then with op on the rest.
After(m, op, rest) == Eval(s_save(m, op, NIL, rest), Car(m, m.code))

BEGIN ==
  /\ sc.op = "BEGIN"
  /\ Become(IF ~IsPair(sc, sc.code) THEN _s_return(sc, sc.code)
            ELSE IF Cdr(sc, sc.code) # NIL THEN After(sc, "BEGIN", Cdr(sc, sc.code))
            ELSE Eval(sc, Car(sc, sc.code)))

IF0 == sc.op = "IF0" /\ Become(After(sc, "IF1", Cdr(sc, sc.code)))
IF1 ==
  /\ sc.op = "IF1"
  /\ Become(Eval(sc, IF sc.value # F THEN Car(sc, sc.code) ELSE Car(sc, Cdr(sc, sc.code))))

CondClause(m) == Eval(s_save(m, "COND1", NIL, m.code), Car(m, Car(m, m.code)))
COND0 ==
  /\ sc.op = "COND0"
  /\ Become(IF IsPair(sc, sc.code) THEN CondClause(sc)
            ELSE _Error_1(sc, "syntax error in cond", <<>>))

\* (test => receiver): the receiver is called with the quoted value.
FeedTo(m) ==
  IF ~IsPair(m, Cdr(m, m.code)) THEN _Error_1(m, "syntax error in cond", <<>>)
  ELSE Then(conses(m, <<QUOTE_, m.value>>, NIL), LAMBDA q :
         Then(conses(q, <<Car(q, Cdr(q, q.code)), q.new>>, NIL), LAMBDA c : Eval(c, c.new)))

CondHolds ==
  /\ sc.op = "COND1" /\ sc.value # F
  /\ Become(Then([sc EXCEPT !.code = Cdr(sc, Car(sc, @))], LAMBDA m :
       IF m.code = NIL THEN _s_return(m, m.value)
       ELSE IF Car(m, m.code) = FEED_TO THEN FeedTo(m)
       ELSE s_goto(m, "BEGIN")))
CondFails ==
  /\ sc.op = "COND1" /\ sc.value = F
  /\ Become(Then([sc EXCEPT !.code = Cdr(sc, @)], LAMBDA m :
       IF m.code = NIL THEN _s_return(m, NIL) ELSE CondClause(m)))

AND0 ==
  /\ sc.op = "AND0"
  /\ Become(IF sc.code = NIL THEN _s_return(sc, T) ELSE After(sc, "AND1", Cdr(sc, sc.code)))
AND1 ==
  /\ sc.op = "AND1"
  /\ Become(IF sc.value = F \/ sc.code = NIL THEN _s_return(sc, sc.value)
            ELSE After(sc, "AND1", Cdr(sc, sc.code)))
OR0 ==
  /\ sc.op = "OR0"
  /\ Become(IF sc.code = NIL THEN _s_return(sc, F) ELSE After(sc, "OR1", Cdr(sc, sc.code)))
OR1 ==
  /\ sc.op = "OR1"
  /\ Become(IF sc.value # F \/ sc.code = NIL THEN _s_return(sc, sc.value)
            ELSE After(sc, "OR1", Cdr(sc, sc.code)))

eqv(m, a, b) ==
  LET number(x) == TypeOf(m, x) = "number"
  IN  IF number(a) /\ number(b) THEN m.cell[a].car = m.cell[b].car ELSE a = b

\* CASE1 takes the first clause with the value in its list, or one without.
CaseMatches(m, clause) ==
  LET keys == Car(m, Car(m, clause))
  IN  ~IsPair(m, keys) \/ \E k \in Range(ListOf(m, keys)) : eqv(m, Car(m, k), m.value)
CASE0 == sc.op = "CASE0" /\ Become(After(sc, "CASE1", Cdr(sc, sc.code)))
CASE1 ==
  /\ sc.op = "CASE1"
  /\ LET x == SelectSeq(ListOf(sc, sc.code), LAMBDA c : CaseMatches(sc, c))
         keys == Car(sc, Car(sc, x[1]))
         body == Cdr(sc, Car(sc, x[1]))
     IN  Become(IF x = <<>> THEN _s_return(sc, NIL)
                ELSE IF IsPair(sc, keys) THEN [sc EXCEPT !.code = body, !.op = "BEGIN"]
                ELSE Eval(s_save(sc, "CASE2", NIL, body), keys))
CASE2 ==
  /\ sc.op = "CASE2"
  /\ Become(IF sc.value # F THEN s_goto(sc, "BEGIN") ELSE _s_return(sc, NIL))

-----------------------------------------------------------------------------
\* The four kinds of let.
Body(m) == [m EXCEPT !.code = Cdr(m, @), !.args = NIL, !.op = "BEGIN"]
Bindings(m) ==
  IF IsSymbol(Car(m, m.code)) THEN Car(m, Cdr(m, m.code)) ELSE Car(m, m.code)

\* The names in the list x of bindings get the values in y.
RECURSIVE BindNames(_, _, _)
BindNames(m, x, y) ==
  IF y = NIL \/ m.no_memory THEN m
  ELSE BindNames(new_slot_in_env(m, Car(m, Car(m, x)), Car(m, y)), Cdr(m, x), Cdr(m, y))

\* The names themselves, one cons each in register args.
RECURSIVE NamesOf(_, _)
NamesOf(m, x) ==
  IF x = NIL \/ m.no_memory THEN m
  ELSE Then(cons(m, Car(m, Car(m, x)), m.args), LAMBDA c :
         NamesOf([c EXCEPT !.args = c.new], Cdr(c, x)))

LET0 ==
  /\ sc.op = "LET0"
  /\ Become([sc EXCEPT !.args = NIL, !.value = sc.code, !.code = Bindings(sc), !.op = "LET1"])
LET1 == sc.op = "LET1" /\ Become(Gathered("LET1", "LET2"))
LET2 ==
  /\ sc.op = "LET2"
  /\ Become(Then(BindNames(new_frame_in_env(sc, sc.envir), Bindings(sc), sc.args), LAMBDA m :
       IF ~IsSymbol(Car(m, m.code)) THEN Body(m)
       ELSE Then(NamesOf([m EXCEPT !.args = NIL], Bindings(m)), LAMBDA n :
            Then(reverse_in_place(n, NIL, n.args), LAMBDA r :
            Then(cons(r, r.new, Cdr(r, Cdr(r, r.code))), LAMBDA c :
            Then(mk_closure(c, c.new, c.envir), LAMBDA f :
              Body([new_slot_in_env(f, Car(f, f.code), f.new) EXCEPT !.code = Cdr(f, @)])))))))

LET0AST ==
  /\ sc.op = "LET0AST"
  /\ Become(IF Car(sc, sc.code) = NIL
            THEN [new_frame_in_env(sc, sc.envir) EXCEPT !.code = Cdr(sc, @), !.op = "BEGIN"]
            ELSE Eval(s_save(sc, "LET1AST", Cdr(sc, sc.code), Car(sc, sc.code)),
                      Init_(sc, Car(sc, sc.code))))
LET1AST ==
  sc.op = "LET1AST" /\ Become(s_goto(new_frame_in_env(sc, sc.envir), "LET2AST"))
LET2AST ==
  /\ sc.op = "LET2AST"
  /\ Become(Then(new_slot_in_env(sc, Car(sc, Car(sc, sc.code)), sc.value), LAMBDA b :
       Then([b EXCEPT !.code = Cdr(b, @)], LAMBDA m :
         IF IsPair(m, m.code)
         THEN Eval([s_save(m, "LET2AST", m.args, m.code) EXCEPT !.args = NIL],
                   Init_(m, m.code))
         ELSE [m EXCEPT !.code = m.args, !.args = NIL, !.op = "BEGIN"])))

LET0REC ==
  /\ sc.op = "LET0REC"
  /\ Become([new_frame_in_env(sc, sc.envir) EXCEPT
               !.args = NIL, !.value = sc.code, !.code = Car(sc, @), !.op = "LET1REC"])
LET1REC == sc.op = "LET1REC" /\ Become(Gathered("LET1REC", "LET2REC"))
LET2REC ==
  sc.op = "LET2REC" /\ Become(Body(BindNames(sc, Car(sc, sc.code), sc.args)))

-----------------------------------------------------------------------------
\* Promises and continuations.
Promise(m) ==
  Then(cons(m, NIL, m.code), LAMBDA c :
    Then(mk_closure(c, c.new, c.envir), LAMBDA p :
      IF p.new > 0 THEN [p EXCEPT !.cell[p.new].type = "promise"] ELSE p))

DELAY == sc.op = "DELAY" /\ Become(Returns(Promise(sc)))
C0STREAM == sc.op = "C0STREAM" /\ Become(After(sc, "C1STREAM", Cdr(sc, sc.code)))
C1STREAM ==
  /\ sc.op = "C1STREAM"
  /\ Become(Then(Promise([sc EXCEPT !.args = sc.value]), LAMBDA p :
       Returns(cons(p, p.args, p.new))))
=============================================================================
