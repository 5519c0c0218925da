--------------------------- MODULE SchemeMeaning ---------------------------
(***************************************************************************)
(* What a program of this Scheme should write: a reader, an evaluator and  *)
(* a printer over objects that are made and never given back, with the     *)
(* control in the recursion of the operators.  It knows nothing of cells,  *)
(* of registers, of a stack or of a collector.                             *)
(*                                                                         *)
(* A value is <<"num", n>>, <<"sym", s>>, <<"proc", s>>, <<"nil">>,        *)
(* <<"t">>, <<"f">> or <<"ref", i>> for object i.  s is the state: objects *)
(* and text, the value, and why evaluation stops: "" if it does not.       *)
(***************************************************************************)
EXTENDS SchemeTable, SequencesExt

Nil == <<"nil">>
True == <<"t">>
False == <<"f">>
Truth(b) == IF b THEN True ELSE False
Num(n) == <<"num", n>>
Sym(s) == <<"sym", s>>
Global == <<"ref", 1>>

Gives(s, v) == [s EXCEPT !.val = v]
Writes(s, text) == [s EXCEPT !.out = @ \o text]
Make(s, is, a, b) ==
  [s EXCEPT !.heap = Append(@, [is |-> is, a |-> a, b |-> b]), !.val = <<"ref", Len(s.heap) + 1>>]
Put(s, v, a, b) == [s EXCEPT !.heap[v[2]].a = a, !.heap[v[2]].b = b]

\* A forced promise is the same as its value.
RECURSIVE Value(_, _)
Value(s, v) ==
  IF v[1] = "ref" /\ s.heap[v[2]].is = "same" THEN Value(s, s.heap[v[2]].a) ELSE v
Kind(s, v) == LET w == Value(s, v) IN IF w[1] = "ref" THEN s.heap[w[2]].is ELSE w[1]
A(s, v) == LET w == Value(s, v) IN IF w[1] = "ref" THEN s.heap[w[2]].a ELSE w
B(s, v) == LET w == Value(s, v) IN IF w[1] = "ref" THEN s.heap[w[2]].b ELSE w

\* One thing after another, unless evaluation stops.
AndThen(s, Next(_)) == CHOOSE r \in {IF x.stop = "" THEN Next(x) ELSE x : x \in {s}} : TRUE

RECURSIVE Items(_, _)
Items(s, v) == IF Kind(s, v) = "pair" THEN <<A(s, v)>> \o Items(s, B(s, v)) ELSE <<>>
List(s, values, end) ==
  FoldRight(LAMBDA v, m : Make(m, "pair", v, m.val), values, Gives(s, end))
\* Whether v leads to the empty list in at most n pairs; all there are is enough.
RECURSIVE EndsWithin(_, _, _)
EndsWithin(s, v, n) ==
  v = Nil \/ (n > 0 /\ Kind(s, v) = "pair" /\ EndsWithin(s, B(s, v), n - 1))
IsList(s, v) == EndsWithin(s, v, Len(s.heap))

-----------------------------------------------------------------------------
\* The printed form.
Short == ("quote" :> "'") @@ ("quasiquote" :> "~") @@ ("unquote" :> ",")
         @@ ("unquote-splicing" :> ",@")
RECURSIVE Printed(_, _, _), PrintedTail(_, _, _)
Printed(s, v, quoted) ==
  LET w == Value(s, v)
      k == Kind(s, w)
      l == Items(s, w)
      short == k = "pair" /\ Len(l) = 2 /\ IsList(s, w) /\ l[1] \in {Sym(x) : x \in DOMAIN Short}
  IN  CASE short -> <<Short[l[1][2]]>> \o Printed(s, l[2], quoted)
        [] k = "pair" /\ ~short -> <<"(">> \o Printed(s, A(s, w), quoted)
                                   \o PrintedTail(s, B(s, w), quoted)
        [] k = "vector" -> <<"#(">> \o FlattenSeq([i \in DOMAIN A(s, w) |->
                             <<" ">> \o Printed(s, A(s, w)[i], quoted)]) \o <<")">>
        [] k = "num" -> <<ToString(w[2])>>
        [] k = "sym" -> <<w[2]>>
        [] k = "proc" -> <<"#<" \o w[2] \o " PROCEDURE>">>
        [] k = "string" -> <<IF quoted THEN "\"" \o A(s, w) \o "\"" ELSE A(s, w)>>
        [] k = "nil" -> <<"()">>
        [] k = "t" -> <<"#t">>
        [] k = "f" -> <<"#f">>
        [] k = "env" -> <<"#<ENVIRONMENT>">>
        [] k = "macro" -> <<"#<MACRO>">>
        [] k = "closure" -> <<"#<CLOSURE>">>
        [] k = "promise" -> <<"#<PROMISE>">>
        [] k = "cont" -> <<"#<CONTINUATION>">>
PrintedTail(s, v, quoted) ==
  CASE Kind(s, v) = "pair" -> <<" ">> \o Printed(s, A(s, v), quoted)
                              \o PrintedTail(s, B(s, v), quoted)
    [] Kind(s, v) = "nil" -> <<")">>
    [] OTHER -> <<" . ">> \o Printed(s, v, quoted) \o <<")">>

\* An error is written and ends the evaluation of the expression at the top.
Error(s, message, objects) ==
  [Writes(s, <<"Error: ", message, " ">>
             \o FlattenSeq([i \in DOMAIN objects |-> Printed(s, objects[i], TRUE) \o <<" ">>])
             \o <<"\n">>) EXCEPT !.stop = "error"]

-----------------------------------------------------------------------------
\* The reader.
IntegerOf == [t \in {ToString(n) : n \in 0 - 20 .. 99} |->
                CHOOSE n \in 0 - 20 .. 99 : ToString(n) = t]
Long == ("'" :> "quote") @@ ("~" :> "quasiquote") @@ ("," :> "unquote")
        @@ (",@" :> "unquote-splicing")
NextIs(s, t) == s.in # <<>> /\ Head(s.in) = t
Take(s) == [s EXCEPT !.in = Tail(@)]
BadDot(s) == Error(s, "syntax error: illegal dot expression", <<>>)

RECURSIVE Read(_), ReadItems(_, _)
Read(s) ==
  LET t == Head(s.in)
      r == Take(s)
      l == IF NextIs(r, ")") THEN Gives(Take(r), Nil)
           ELSE IF NextIs(r, ".") THEN BadDot(Take(r)) ELSE ReadItems(r, <<>>)
  IN  IF s.in = <<>> THEN [s EXCEPT !.stop = "quit"]
      ELSE CASE t = "(" -> l
             [] t = "#(" -> AndThen(l, LAMBDA x : Make(x, "vector", Items(x, x.val), Nil))
             [] t \in DOMAIN Long ->
                  AndThen(Read(r), LAMBDA x : List(x, <<Sym(Long[t]), x.val>>, Nil))
             [] t \in {")", "."} -> Error(r, "syntax error: illegal token", <<>>)
             [] t \in DOMAIN IntegerOf -> Gives(r, Num(IntegerOf[t]))
             [] t = "#t" -> Gives(r, True)
             [] t = "#f" -> Gives(r, False)
             [] SubSeq(t, 1, 1) = "\"" -> Make(r, "string", SubSeq(t, 2, Len(t) - 1), Nil)
             [] OTHER -> Gives(r, Sym(t))
ReadItems(s, done) ==
  AndThen(Read(s), LAMBDA x :
    LET l == Append(done, x.val)
    IN  IF NextIs(x, ")") THEN List(Take(x), l, Nil)
        ELSE IF NextIs(x, ".")
        THEN AndThen(Read(Take(x)), LAMBDA y :
               IF NextIs(y, ")") THEN List(Take(y), l, y.val)
               ELSE BadDot(IF y.in # <<>> /\ Head(y.in) \in DOMAIN Long \cup {"(", ".", "#("}
                           THEN Take(y) ELSE y))
        ELSE ReadItems(x, l))

-----------------------------------------------------------------------------
\* Frames: an object whose first part is a function from names to values and
\* whose second is the frame around it.
NoNames == [n \in {} |-> Nil]
Frame(s, around) == Make(s, "env", NoNames, around)
Binds(s, e, n, v) == [s EXCEPT !.heap[e[2]].a = (n :> v) @@ @]
RECURSIVE FrameWith(_, _, _)
FrameWith(s, e, n) ==
  IF e = Nil THEN Nil ELSE IF n \in DOMAIN A(s, e) THEN e ELSE FrameWith(s, B(s, e), n)
Known(s, e, n) == FrameWith(s, e, n) # Nil \/ n \in DOMAIN dispatch_table \cup {"else"}
Lookup(s, e, n) ==
  LET f == FrameWith(s, e, n)
  IN  IF f # Nil THEN A(s, f)[n] ELSE IF n = "else" THEN True ELSE <<"proc", n>>

\* The parameters, with the arguments; the rest of them for a lone symbol.
RECURSIVE Parameters(_, _, _, _)
Parameters(s, e, params, values) ==
  CASE Kind(s, params) = "pair" ->
         IF values = <<>> THEN Error(s, "not enough arguments", <<>>)
         ELSE Parameters(Binds(s, e, A(s, params)[2], Head(values)), e, B(s, params), Tail(values))
    [] params[1] = "sym" ->
         LET l == List(s, values, Nil) IN Gives(Binds(l, e, params[2], l.val), e)
    [] params = Nil -> Gives(s, e)
    [] OTHER -> Error(s, "syntax error in closure: not a symbol:", <<params>>)

-----------------------------------------------------------------------------
\* The procedures of the interpreter that only look at their arguments.
Fits(s, kind, v) ==
  CASE kind = "any" -> TRUE
    [] kind = "symbol" -> Kind(s, v) = "sym"
    [] kind \in {"number", "integer"} -> Kind(s, v) = "num"
    [] kind = "non-negative integer" -> Kind(s, v) = "num" /\ Value(s, v)[2] >= 0
    [] kind = "pair or '()" -> Kind(s, v) \in {"nil", "pair"}
    [] kind = "environment" -> Kind(s, v) = "env"
    [] kind = "output_port" -> FALSE
    [] OTHER -> Kind(s, v) = kind
\* What is wrong with a call, "" if nothing.
Wrong(s, name, args) ==
  LET row == dispatch_table[name]
      kind(i) == row.kinds[IF i < Len(row.kinds) THEN i ELSE Len(row.kinds)]
      bad == SelectInSeq([i \in DOMAIN args |-> <<i>>], LAMBDA i : ~Fits(s, kind(i[1]), args[i[1]]))
      needs(how, k) == name \o ": needs" \o (IF row.min = row.max THEN "" ELSE how)
                       \o " " \o ToString(k) \o " argument(s)"
  IN  CASE Len(args) < row.min -> needs(" at least", row.min)
        [] Len(args) > row.max -> needs(" at most", row.max)
        [] OTHER -> IF bad = 0 THEN ""
                    ELSE name \o ": argument " \o ToString(bad) \o " must be: " \o kind(bad)

Quotient(a, b) ==
  CHOOSE q \in 0 - 100 .. 100 :
    LET r == a - q * b
    IN  /\ IF b > 0 THEN r < b /\ 0 - r < b ELSE r < 0 - b /\ 0 - r < 0 - b
        /\ IF a >= 0 THEN r >= 0 ELSE r <= 0
Modulo(a, b) ==
  CHOOSE r \in 0 - 100 .. 100 :
    /\ IF b > 0 THEN r \in 0 .. b - 1 ELSE r \in b + 1 .. 0
    /\ \E q \in 0 - 100 .. 100 : a = q * b + r

Eqv(s, a, b) == Value(s, a) = Value(s, b)

\* The value of a predicate.
Test(s, name, x) ==
  LET k == Kind(s, x[1])
      n == [i \in DOMAIN x |-> Value(s, x[i])[2]]
      chain(R(_, _)) == \A i \in 1 .. Len(n) - 1 : R(n[i], n[i + 1])
  IN  CASE name = "not" -> k = "f"
        [] name = "boolean?" -> k \in {"t", "f"}
        [] name = "null?" -> k = "nil"
        [] name = "symbol?" -> k = "sym"
        [] name = "number?" -> k = "num"
        [] name = "string?" -> k = "string"
        [] name = "procedure?" -> k \in {"proc", "closure", "cont"}
        [] name = "pair?" -> k = "pair"
        [] name = "list?" -> IsList(s, x[1])
        [] name = "vector?" -> k = "vector"
        [] name = "environment?" -> k = "env"
        [] name = "closure?" -> k = "closure"
        [] name = "macro?" -> k = "macro"
        [] name \in {"eq?", "eqv?"} -> Eqv(s, x[1], x[2])
        [] name = "=" -> chain(LAMBDA a, b : a = b)
        [] name = "<" -> chain(LAMBDA a, b : a < b)
        [] name = ">" -> chain(LAMBDA a, b : a > b)
        [] name = "<=" -> chain(LAMBDA a, b : a <= b)
        [] name = ">=" -> chain(LAMBDA a, b : a >= b)
Tests == {"not", "boolean?", "null?", "symbol?", "number?", "string?", "procedure?", "pair?",
          "list?", "vector?", "environment?", "closure?", "macro?", "eq?", "eqv?", "=", "<",
          ">", "<=", ">="}

\* Numbers, pairs, lists and vectors.
Sums(s, name, x) ==
  LET n == [i \in DOMAIN x |-> Value(s, x[i])[2]]
      full == IF Len(n) = 1 THEN <<IF name = "-" THEN 0 ELSE 1>> \o n ELSE n
      gives(op(_, _)) == Gives(s, Num(FoldLeft(op, full[1], Tail(full))))
  IN  CASE name = "+" -> Gives(s, Num(FoldLeft(LAMBDA a, b : a + b, 0, n)))
        [] name = "*" -> Gives(s, Num(FoldLeft(LAMBDA a, b : a * b, 1, n)))
        [] name = "-" -> gives(LAMBDA a, b : a - b)
        [] 0 \in Range(Tail(full)) /\ name \in {"quotient", "remainder", "modulo"} ->
             Error(s, name \o ": division by zero", <<>>)
        [] name = "quotient" -> gives(Quotient)
        [] name = "remainder" -> gives(LAMBDA a, b : a - b * Quotient(a, b))
        [] name = "modulo" -> gives(Modulo)

Data(s, name, x) ==
  LET items == Items(s, x[1])
      n(i) == Value(s, x[i])[2]
      hit == SelectInSeq(Items(s, x[2]), LAMBDA p : Kind(s, p) # "pair" \/ Eqv(s, A(s, p), x[1]))
      inside == n(2) < Len(A(s, x[1]))
  IN  CASE name = "cons" -> Make(s, "pair", x[1], x[2])
        [] name = "car" -> Gives(s, A(s, x[1]))
        [] name = "cdr" -> Gives(s, B(s, x[1]))
        [] name = "set-car!" -> Gives(Put(s, Value(s, x[1]), x[2], B(s, x[1])), x[1])
        [] name = "set-cdr!" -> Gives(Put(s, Value(s, x[1]), A(s, x[1]), x[2]), x[1])
        [] name = "reverse" -> List(s, Reverse(items), Nil)
        [] name = "append" -> IF x = <<>> THEN Gives(s, Nil) ELSE List(s, items, x[2])
        [] name = "list*" -> List(s, Front(x), Last(x))
        [] name = "length" -> IF IsList(s, x[1]) THEN Gives(s, Num(Len(items)))
                              ELSE Error(s, "length: not a list:", <<x[1]>>)
        [] name = "assq" ->
             IF hit = 0 THEN Gives(s, False)
             ELSE IF Kind(s, Items(s, x[2])[hit]) = "pair" THEN Gives(s, Items(s, x[2])[hit])
             ELSE Error(s, "unable to handle non pair element", <<>>)
        [] name = "vector" -> Make(s, "vector", x, Nil)
        [] name = "make-vector" ->
             Make(s, "vector", [i \in 1 .. n(1) |-> IF Len(x) = 2 THEN x[2] ELSE Nil], Nil)
        [] name = "vector-length" -> Gives(s, Num(Len(A(s, x[1]))))
        [] name = "vector-ref" ->
             IF inside THEN Gives(s, A(s, x[1])[n(2) + 1])
             ELSE Error(s, "vector-ref: out of bounds:", <<x[2]>>)
        [] name = "vector-set!" ->
             IF inside
             THEN Gives(Put(s, Value(s, x[1]), [A(s, x[1]) EXCEPT ![n(2) + 1] = x[3]], Nil), x[1])
             ELSE Error(s, "vector-set!: out of bounds:", <<x[2]>>)

-----------------------------------------------------------------------------
\* The evaluator.
RECURSIVE Ev(_, _, _), EvAll(_, _, _, _), Run(_, _, _), Special(_, _, _, _),
          Call(_, _, _, _), Procedure_(_, _, _, _), Clauses(_, _, _), Bind(_, _, _, _, _),
          Junction(_, _, _, _)

\* The expressions xs, for the list of their values.
EvAll(s, xs, e, done) ==
  IF xs = <<>> THEN [s EXCEPT !.val = done]
  ELSE AndThen(Ev(s, Head(xs), e), LAMBDA r : EvAll(r, Tail(xs), e, Append(done, r.val)))
\* The expressions xs, for the value of the last.
Run(s, xs, e) ==
  IF xs = <<>> THEN Gives(s, Nil)
  ELSE IF Len(xs) = 1 THEN Ev(s, xs[1], e)
  ELSE AndThen(Ev(s, xs[1], e), LAMBDA r : Run(r, Tail(xs), e))

Ev(s, x, e) ==
  LET k == Kind(s, x)
  IN  CASE k = "sym" ->
             IF Known(s, e, x[2]) THEN Gives(s, Lookup(s, e, x[2]))
             ELSE Error(s, "eval: unbound variable:", <<x>>)
        [] k = "pair" ->
             LET h == A(s, x)
             IN  IF h[1] = "sym" /\ h[2] \in DOMAIN Syntax THEN Special(s, h[2], B(s, x), e)
                 ELSE AndThen(Ev(s, h, e), LAMBDA f :
                        IF Kind(f, f.val) = "macro"
                        THEN AndThen(Call(f, f.val, <<x>>, e), LAMBDA r : Ev(r, r.val, e))
                        ELSE AndThen(EvAll(f, Items(f, B(f, x)), e, <<>>),
                                  LAMBDA a : Call(a, f.val, a.val, e)))
        [] OTHER -> Gives(s, x)

Call(s, f, args, e) ==
  CASE f[1] = "proc" ->
         IF Wrong(s, f[2], args) # "" THEN Error(s, Wrong(s, f[2], args), <<>>)
         ELSE Procedure_(s, f[2], args, e)
    [] Kind(s, f) \in {"closure", "macro", "promise"} ->
         LET n == Frame(s, B(s, f))
         IN  AndThen(Parameters(n, n.val, A(s, A(s, f)), args),
                  LAMBDA r : Run(r, Items(r, B(r, A(r, f))), n.val))
    [] Kind(s, f) = "cont" ->
         [s EXCEPT !.stop = "leave", !.to = f, !.val = IF args = <<>> THEN Nil ELSE args[1]]
    [] OTHER -> Error(s, "illegal function", <<>>)

Procedure_(s, name, x, e) ==
  CASE name \in Tests -> Gives(s, Truth(Test(s, name, x)))
    [] name \in {"+", "*", "-", "quotient", "remainder", "modulo"} -> Sums(s, name, x)
    [] name = "apply" ->
         LET spread == IF Len(x) = 1 THEN <<>>
                       ELSE SubSeq(x, 2, Len(x) - 1) \o Items(s, Last(x))
         IN  Call(s, x[1], spread, e)
    [] name = "eval" -> Ev(s, x[1], IF Len(x) = 2 THEN x[2] ELSE e)
    [] name = "call-with-current-continuation" ->
         LET k == Make(s, "cont", Nil, Nil)
             r == Call(k, x[1], <<k.val>>, e)
         IN  IF r.stop = "leave" /\ r.to = k.val THEN [r EXCEPT !.stop = ""] ELSE r
    [] name = "force" ->
         IF Kind(s, x[1]) # "promise" THEN Gives(s, x[1])
         ELSE AndThen(Call(s, x[1], <<>>, e), LAMBDA r :
                [r EXCEPT !.heap[Value(s, x[1])[2]] = [is |-> "same", a |-> r.val, b |-> Nil]])
    [] name = "defined?" -> Gives(s, Truth(Known(s, IF Len(x) = 2 THEN x[2] ELSE e, x[1][2])))
    [] name = "current-environment" -> Gives(s, e)
    [] name = "interaction-environment" -> Gives(s, Global)
    [] name \in {"display", "write"} ->
         Gives(Writes(s, Printed(s, x[1], name = "write")), True)
    [] name = "newline" -> Gives(Writes(s, <<"\n">>), True)
    [] name = "error" ->
         IF Kind(s, x[1]) = "string" THEN Error(s, A(s, x[1]), Tail(x)) ELSE Error(s, " -- ", x)
    [] name = "quit" -> [s EXCEPT !.stop = "quit"]
    [] name = "gc" -> Gives(s, True)
    [] name = "new-segment" ->
         IF x = <<>> THEN Error(s, "new-segment: argument must be a number", <<>>)
         ELSE Gives(s, True)
    [] OTHER -> Data(s, name, x)

\* The clauses of cond.
Clauses(s, c, e) ==
  IF c = <<>> THEN Gives(s, Nil)
  ELSE LET body == Tail(Items(s, c[1]))
       IN  AndThen(Ev(s, A(s, c[1]), e), LAMBDA t :
             IF t.val = False THEN Clauses(t, Tail(c), e)
             ELSE IF body = <<>> THEN t
             ELSE IF body[1] # Sym("=>") THEN Run(t, body, e)
             ELSE IF Len(body) = 1 THEN Error(t, "syntax error in cond", <<>>)
             ELSE AndThen(Ev(t, body[2], e), LAMBDA f : Call(f, f.val, <<t.val>>, e)))

\* and, or: the first value that decides, or the last one.
Junction(s, xs, decides, e) ==
  IF Len(xs) = 1 THEN Ev(s, xs[1], e)
  ELSE AndThen(Ev(s, xs[1], e), LAMBDA r :
         IF (r.val = False) = decides THEN Junction(r, Tail(xs), decides, e) ELSE r)

\* The bindings b: values found in frame e, put in frame n; all at once, or
\* one by one.
Bind(s, b, e, n, serial) ==
  LET name(i) == A(s, b[i])[2]
      expression(i) == A(s, B(s, b[i]))
      all == EvAll(s, [i \in DOMAIN b |-> expression(i)], e, <<>>)
  IN  IF b = <<>> THEN s
      ELSE IF serial
      THEN AndThen(Ev(s, expression(1), e), LAMBDA r :
             Bind(Binds(r, n, name(1), r.val), Tail(b), n, n, serial))
      ELSE AndThen(all, LAMBDA r : FoldLeft(LAMBDA m, i : Binds(m, n, name(i), r.val[i]), r,
                                         [i \in DOMAIN b |-> i]))

Special(s, keyword, rest, e) ==
  LET x == Items(s, rest)
      named == x[1][1] = "sym"
      \* let and its relatives: a new frame, the bindings, the body.
      n == Frame(s, e)
      bindings == Items(s, IF named THEN x[2] ELSE x[1])
      params == List(n, [i \in DOMAIN bindings |-> A(n, bindings[i])], Nil)
      code == Make(params, "pair", params.val, B(s, B(s, rest)))
      loop == Make(code, "closure", code.val, n.val)
      \* define and macro: the name, and the expression.
      header == Kind(s, x[1]) = "pair"
      lambda == Make(s, "pair", B(s, x[1]), B(s, rest))
      closure == Make(lambda, "closure", lambda.val, e)
      name == IF header THEN A(s, x[1]) ELSE x[1]
      value == IF header THEN closure ELSE Ev(s, x[2], e)
      delayed == Make(s, "pair", Nil, rest)
      promise == Make(delayed, "promise", delayed.val, e)
  IN  CASE keyword = "quote" -> Gives(s, x[1])
        [] keyword = "lambda" -> Make(s, "closure", rest, e)
        [] keyword \in {"define", "macro"} ->
             IF name[1] # "sym" THEN Error(s, "variable is not a symbol", <<>>)
             ELSE AndThen(value, LAMBDA r :
                    LET v == IF keyword = "define" THEN r ELSE [r EXCEPT !.heap[r.val[2]].is = "macro"]
                    IN  Gives(Binds(v, e, name[2], r.val), name))
        [] keyword = "set!" ->
             AndThen(Ev(s, x[2], e), LAMBDA r :
               IF FrameWith(r, e, x[1][2]) = Nil THEN Error(r, "set!: unbound variable:", <<x[1]>>)
               ELSE Binds(r, FrameWith(r, e, x[1][2]), x[1][2], r.val))
        [] keyword = "begin" -> Run(s, x, e)
        [] keyword = "if" ->
             AndThen(Ev(s, x[1], e), LAMBDA r :
               IF r.val # False THEN Ev(r, x[2], e)
               ELSE IF Len(x) = 2 THEN Gives(r, Nil) ELSE Ev(r, x[3], e))
        [] keyword = "cond" ->
             IF x = <<>> THEN Error(s, "syntax error in cond", <<>>) ELSE Clauses(s, x, e)
        [] keyword = "and" -> IF x = <<>> THEN Gives(s, True) ELSE Junction(s, x, FALSE, e)
        [] keyword = "or" -> IF x = <<>> THEN Gives(s, False) ELSE Junction(s, x, TRUE, e)
        [] keyword = "case" ->
             AndThen(Ev(s, x[1], e), LAMBDA r :
               LET matches(c) == Kind(r, A(r, c)) # "pair"
                                 \/ \E k \in Range(Items(r, A(r, c))) : Eqv(r, k, r.val)
                   c == SelectInSeq(Tail(x), matches)
                   body == Tail(Items(r, x[c + 1]))
               IN  IF c = 0 THEN Gives(r, Nil)
                   ELSE IF Kind(r, A(r, x[c + 1])) = "pair" THEN Run(r, body, e)
                   ELSE AndThen(Ev(r, A(r, x[c + 1]), e), LAMBDA t :
                          IF t.val # False THEN Run(t, body, e) ELSE Gives(t, Nil)))
        [] keyword = "let" ->
             IF named
             THEN AndThen(Bind(loop, bindings, e, n.val, FALSE), LAMBDA r :
                    Run(Binds(r, n.val, x[1][2], loop.val), SubSeq(x, 3, Len(x)), n.val))
             ELSE AndThen(Bind(n, bindings, e, n.val, FALSE), LAMBDA r : Run(r, Tail(x), n.val))
        [] keyword = "let*" ->
             AndThen(Bind(n, bindings, e, n.val, TRUE), LAMBDA r : Run(r, Tail(x), n.val))
        [] keyword = "letrec" ->
             AndThen(Bind(n, bindings, n.val, n.val, FALSE), LAMBDA r : Run(r, Tail(x), n.val))
        [] keyword = "delay" -> promise
        [] keyword = "cons-stream" ->
             AndThen(Ev(s, x[1], e), LAMBDA r :
               LET d == Make(r, "pair", Nil, B(r, rest))
                   p == Make(d, "promise", d.val, e)
               IN  Make(p, "pair", r.val, p.val))

-----------------------------------------------------------------------------
\* The top level: read, evaluate, print, until the text or the program ends.
RECURSIVE Sessions(_)
Sessions(s) ==
  LET r == Read([Writes(s, <<"\n", "> ">>) EXCEPT !.stop = ""])
      v == AndThen(r, LAMBDA x : Ev(x, x.val, Global))
      p == AndThen(v, LAMBDA x : Writes(x, Printed(x, x.val, TRUE)))
  IN  IF p.stop = "quit" THEN p ELSE Sessions(p)
Meaning(text) ==
  Sessions([heap |-> <<[is |-> "env", a |-> NoNames, b |-> Nil]>>,
            in |-> text, out |-> <<>>, val |-> Nil, stop |-> "", to |-> Nil]).out
=============================================================================
