---------------------------- MODULE BasicMeaning ----------------------------
(***************************************************************************)
(* Programs as they are thought of, their blocks one in another; what they *)
(* print; and the text in which they are written for the interpreter.      *)
(*                                                                         *)
(* A program is a block and the blocks of its subroutines; a block is a    *)
(* sequence of statements.  The meaning knows nothing of places in a text, *)
(* of labels or of stacks.                                                 *)
(***************************************************************************)
EXTENDS BasicText

-----------------------------------------------------------------------------
\* Expressions, and their values for variables v.
Num(n) == [is |-> "num", n |-> n]
Var(x) == [is |-> "var", x |-> x]
Neg(a) == [is |-> "neg", a |-> a]
Bin(op, a, b) == [is |-> op, a |-> a, b |-> b]

\* Division rounds towards zero; there are no powers below the first but a^0.
Quotient(a, b) ==
  CHOOSE q \in (IF a < 0 THEN a ELSE 0 - a) .. (IF a < 0 THEN 0 - a ELSE a) :
    LET r == a - q * b
    IN  /\ r \in (1 - (IF b < 0 THEN 0 - b ELSE b)) .. ((IF b < 0 THEN 0 - b ELSE b) - 1)
        /\ a < 0 => r <= 0
        /\ a > 0 => r >= 0
Operations(op, a, b) ==
  CASE op = "+" -> a + b
    [] op = "-" -> a - b
    [] op = "*" -> a * b
    [] op = "/" -> Quotient(a, b)
    [] op = "%" -> a - Quotient(a, b) * b
    [] op = "^" -> IF b = 0 THEN 1 ELSE FoldLeft(LAMBDA x, i : x * a, a, [i \in 1 .. b - 1 |-> i])

RECURSIVE Value(_, _)
Value(e, v) ==
  CASE e.is = "num" -> e.n
    [] e.is = "var" -> v[e.x]
    [] e.is = "neg" -> 0 - Value(e.a, v)
    [] OTHER -> Operations(e.is, Value(e.a, v), Value(e.b, v))

\* Nothing is divided by zero, and no number gets large.
RECURSIVE Bounded(_, _)
Bounded(e, v) ==
  CASE e.is \in {"num", "var"} -> TRUE
    [] e.is = "neg" -> Bounded(e.a, v)
    [] OTHER -> /\ Bounded(e.a, v) /\ Bounded(e.b, v)
                /\ e.is \in {"/", "%"} => Value(e.b, v) # 0
                /\ e.is = "^" => Value(e.b, v) < 5

\* Written with the parentheses that are needed: + and - bind least, then the
\* multiplications, powers from the right, signs before a single number.
Binds(e) ==
  CASE e.is \in {"+", "-"} -> 2 [] e.is \in {"*", "/", "%"} -> 3 [] e.is = "^" -> 4
    [] e.is = "neg" -> 5 [] OTHER -> 6
RECURSIVE Expression(_, _)
Expression(e, least) ==
  LET level == Binds(e)
      bare == CASE e.is = "num" -> <<Number(e.n)>>
                [] e.is = "var" -> <<Variable(e.x)>>
                [] e.is = "neg" -> <<Delimiter("-")>> \o Expression(e.a, 6)
                [] e.is = "^"   -> Expression(e.a, 5) \o <<Delimiter("^")>> \o Expression(e.b, 4)
                [] OTHER -> Expression(e.a, level) \o <<Delimiter(e.is)>> \o Expression(e.b, level + 1)
  IN  IF level < least THEN <<Delimiter("(")>> \o bare \o <<Delimiter(")")>> ELSE bare

-----------------------------------------------------------------------------
\* Statements.
Let(x, e) == [is |-> "let", x |-> x, e |-> e]
Say(items) == [is |-> "say", items |-> items]         \* strings and expressions, in columns
Ask(prompt, x) == [is |-> "ask", prompt |-> prompt, x |-> x]
If(a, op, b, then) == [is |-> "if", a |-> a, op |-> op, b |-> b, then |-> then]
For(x, from, to, body) == [is |-> "for", x |-> x, from |-> from, to |-> to, body |-> body]
Until(label, body, a, op, b) ==                        \* repeated while a op b
  [is |-> "until", label |-> label, body |-> body, a |-> a, op |-> op, b |-> b]
Call(sub) == [is |-> "call", sub |-> sub]

Compares(op, a, b) == CASE op = "<" -> a < b [] op = ">" -> a > b [] op = "=" -> a = b
Str(s) == [is |-> "str", s |-> s]
Shown(item, v) == IF item.is = "str" THEN item.s ELSE ToString(Value(item, v))

\* Each item but the last fills its columns of eight, and one line is written.
Columns(items, v) ==
  FlattenSeq([i \in DOMAIN items |->
    LET s == Shown(items[i], v)
        pad == 8 - (Len(s) % 8)
    IN  <<s>> \o (IF i = Len(items) THEN <<"\n">> ELSE [j \in 1 .. pad |-> " "])])

\* s: variables v, what is typed in, and what is written out.
RECURSIVE Does(_, _, _), Block(_, _, _), Again(_, _, _, _), Repeats(_, _, _)
Block(b, s, subs) == IF b = <<>> THEN s ELSE Block(Tail(b), Does(Head(b), s, subs), subs)
Sets(s, x, n) == [s EXCEPT !.v[x] = n]
Does(t, s, subs) ==
  CASE t.is = "let" -> Sets(s, t.x, Value(t.e, s.v))
    [] t.is = "say" -> [s EXCEPT !.out = @ \o Columns(t.items, s.v)]
    [] t.is = "ask" -> [Sets(s, t.x, Head(s.in)) EXCEPT
                          !.in = Tail(s.in),
                          !.out = Append(@, IF t.prompt = "" THEN "? " ELSE t.prompt)]
    [] t.is = "if" -> IF Compares(t.op, Value(t.a, s.v), Value(t.b, s.v))
                      THEN Does(t.then, s, subs) ELSE s
    [] t.is = "for" -> LET r == Sets(s, t.x, Value(t.from, s.v))
                       IN  Again(t, r, subs, Value(t.to, r.v))
    [] t.is = "until" -> Repeats(t, s, subs)
    [] t.is = "call" -> Block(subs[t.sub], s, subs)
\* The body of a FOR is executed while its variable has not passed the target, and
\* not at all if it begins behind it.
Again(t, s, subs, target) ==
  LET r == Block(t.body, s, subs)
  IN  IF s.v[t.x] > target THEN s ELSE Again(t, Sets(r, t.x, r.v[t.x] + 1), subs, target)
Repeats(t, s, subs) ==
  LET r == Block(t.body, s, subs)
  IN  IF Compares(t.op, Value(t.a, r.v), Value(t.b, r.v)) THEN Repeats(t, r, subs) ELSE r

-----------------------------------------------------------------------------
\* The text: subroutine k stands behind label 100 * k, after an END.
Exp(e) == Expression(e, 2)
RECURSIVE Text(_), Line(_)
Text(b) == IF b = <<>> THEN <<>> ELSE Line(Head(b)) \o <<EOL>> \o Text(Tail(b))
Condition(t) ==
  <<Command("if")>> \o Exp(t.a) \o <<Delimiter(t.op)>> \o Exp(t.b) \o <<Command("then")>>
Line(t) ==
  CASE t.is = "let" -> <<Variable(t.x), Delimiter("=")>> \o Exp(t.e)
    [] t.is = "say" -> <<Command("print")>> \o FlattenSeq([i \in DOMAIN t.items |->
         (IF i = 1 THEN <<>> ELSE <<Delimiter(";")>>)
           \o (IF t.items[i].is = "str" THEN <<Quoted(t.items[i].s)>> ELSE Exp(t.items[i]))])
    [] t.is = "ask" -> <<Command("input")>>
         \o (IF t.prompt = "" THEN <<>> ELSE <<Quoted(t.prompt), Delimiter(",")>>) \o <<Variable(t.x)>>
    [] t.is = "if" -> Condition(t) \o Line(t.then)
    [] t.is = "for" -> <<Command("for"), Variable(t.x), Delimiter("=")>> \o Exp(t.from)
         \o <<Command("to")>> \o Exp(t.to) \o <<EOL>> \o Text(t.body) \o <<Command("next")>>
    [] t.is = "until" -> <<Number(t.label), EOL>> \o Text(t.body)
         \o Condition(t) \o <<Command("goto"), Number(t.label)>>
    [] t.is = "call" -> <<Command("gosub"), Number(100 * t.sub)>>

Letters == {"a", "b", "c", "d", "e", "f", "g", "h", "i", "j", "k", "l", "m",
            "n", "o", "p", "q", "r", "s", "t", "u", "v", "w", "x", "y", "z"}
\* in: the numbers that are typed, keys: how.
Program(block, subs, in, keys) ==
  [text   |-> Text(block) \o <<Command("end"), EOL>>
              \o FlattenSeq([k \in DOMAIN subs |->
                   <<Number(100 * k), EOL>> \o Text(subs[k]) \o <<Command("return"), EOL>>]),
   typed  |-> keys,
   prints |-> {Block(block, [v |-> [x \in Letters |-> 0], in |-> in, out |-> <<>>], subs).out}]
=============================================================================
