------------------------------ MODULE MCBasic ------------------------------
(***************************************************************************)
(* Programs for the BASIC interpreter: all expressions of two operations,  *)
(* loops, subroutines, repetitions and conditions one in another, and      *)
(* texts with one fault each.                                              *)
(***************************************************************************)
EXTENDS BasicMeaning

\* Expressions over 2, 3 and the variable a, which is 1.
Simple == {Num(2), Num(3), Var("a")}
Of(left, right) ==
  {Bin(op, l, r) : op \in {"+", "-", "*", "/", "%", "^"}, l \in left, r \in right}
    \cup {Neg(l) : l \in left}
Two == Simple \cup Of(Simple, Simple)
Expressions ==
  {e \in Of(Two, Simple) \cup Of(Simple, Two) : Bounded(e, [x \in Letters |-> 1])}
Calculations == {Program(<<Let("a", Num(1)), Say(<<e>>)>>, <<>>, <<>>, <<>>) : e \in Expressions}

-----------------------------------------------------------------------------
More(x) == Let(x, Bin("+", Var(x), Num(1)))
Inner(n) ==
  {Say(<<Var("a")>>), More("a"),
   If(Var("a"), "<", Num(2), Say(<<Str("less")>>)),
   If(Var("a"), "=", Num(1), If(Var("b"), "<", Num(2), Call(1))),
   For("i", Num(1), Num(2), <<More("a")>>),
   For("i", Neg(Num(1)), Var("a"), <<Say(<<Var("i")>>)>>),
   Until(n, <<More("a")>>, Var("a"), "<", Num(2)),
   Call(1)}
\* What stands in the first subroutine, and what surrounds the statements s.
Sub == <<Say(<<Str("sub"), Var("a")>>), For("k", Num(1), Num(2), <<More("a")>>)>>
After(block, subs) == Program(Append(block, Say(<<Var("a"), Var("b")>>)), <<Sub>> \o subs, <<>>, <<>>)
Around(s) ==
  {After(<<For("j", Var("a"), Bin("+", Var("a"), Num(1)), s)>>, <<>>),
   After(<<Until(30, <<More("b")>> \o s, Var("b"), "<", Num(2))>>, <<>>),
   After(<<For("j", Num(0 - 1), Num(0), <<Call(2)>>)>>, <<s>>)}
Nested == UNION {Around(<<x, y>>) : x \in Inner(10), y \in Inner(20)}

\* Ways to type the number n: a wrong key, taken back, before it or behind it.
Keys(n) == LET s == ToString(n) IN [i \in 1 .. Len(s) |-> SubSeq(s, i, i)] \o <<"\n">>
Typing(n) ==
  {Keys(n), <<" ">> \o Keys(n), <<"4", "BS">> \o Keys(n),
   Front(Keys(n)) \o <<"-", "0", "BS", "BS", "\n">>}
Dialogue(in, keys) ==
  Program(<<Ask("", "a"), Ask("b is ", "b"), If(Var("a"), ">", Var("b"), Ask("again", "a")),
            Say(<<Var("a"), Str("eight..."), Var("b"), Str("nine.....")>>)>>, <<>>, in, keys)
Dialogues ==
  {Dialogue(<<1, 20>>, k \o l) : k \in Typing(1), l \in Typing(20)}
  \cup {Dialogue(<<2, 0 - 1, 305>>, Keys(2) \o k \o l) : k \in Typing(0 - 1), l \in Typing(305)}
-----------------------------------------------------------------------------
\* Texts that are not the text of blocks, and what they print.
Op(d) == Delimiter(d)
N(n) == Number(n)
V(x) == Variable(x)
C(c) == Command(c)
L(lines) == FlattenSeq([i \in DOMAIN lines |-> Append(lines[i], EOL)])
Prints(lines, out) == [text |-> L(lines), typed |-> <<>>, prints |-> {out}]
Fault(lines, message) == Prints(lines, <<message, "\n">>)

One == <<C("print"), N(1)>>
Asks == <<C("input"), V("a")>>
Says == <<C("print"), V("a")>>
Layout == {
  Prints(<<<<C("print"), Quoted("a"), Op(","), N(1), Op(","), Quoted("b")>>>>, <<"a", "1", "b", "\n">>),
  Prints(<<<<C("print"), Quoted("abcdef"), Op(";")>>, One>>, <<"abcdef", " ", " ", "1", "\n">>),
  Prints(<<<<C("print"), N(4), Op(",")>>, One>>, <<"4", "1", "\n">>),
  Prints(<<<<C("print"), Quoted("abcde"), Op(","), N(123), Op(";"), N(1)>>>>,
         <<"abcde", "123">> \o [i \in 1 .. 8 |-> " "] \o <<"1", "\n">>),
  \* A PRINT of nothing ends its line, or does not.
  [text |-> L(<<<<C("print")>>, One>>), typed |-> <<>>,
   prints |-> {<<"\n", "1", "\n">>, <<"1", "\n">>}],
  \* A backspace on an empty line leaves what the buffer has in its first place,
  \* a line that is too long in the last one, and its rest is the next line.
  [text |-> L(<<Asks, Says>>), typed |-> <<"BS", "5", "\n">>,
   prints |-> {<<"? ", "0", "\n">>, <<"? ", "75", "\n">>}],
  [text |-> L(<<Asks, Says, Asks, Says>>), typed |-> <<"1", "2", "3", "4", "5", "6", "\n">>,
   prints |-> {<<"? ", n, "\n", "? ", "6", "\n">> : n \in {"12345", "123457"}}],
  [text |-> L(<<Asks, Says>>), typed |-> <<"-", "x", "\n">>, prints |-> {<<"? ", "0", "\n">>}],
  \* What begins no statement is passed over.
  Prints(<<<<>>, <<N(5), Quoted("s"), Op(";"), C("then"), C("to")>> \o One, <<>>>>, <<"1", "\n">>)}

\* Jumps into and out of lines, loops and subroutines.
Jumps == {
  \* A loop that was left stays open, and the second NEXT is its own.
  Prints(<<<<C("for"), V("i"), Op("="), N(1), C("to"), N(3)>>, <<C("goto"), N(10)>>, <<C("next")>>,
           <<N(10), C("for"), V("j"), Op("="), N(1), C("to"), N(1)>>, One, <<C("next")>>, <<C("next")>>>>,
         <<"1", "\n", "1", "\n", "1", "\n">>),
  \* NEXT takes no variable.
  Fault(<<<<C("for"), V("i"), Op("="), N(1), C("to"), N(2)>>, <<C("next"), V("i")>>>>,
        "equals sign expected"),
  \* After an empty first line, the label on the second one is lost.
  Prints(<<<<>>, <<N(10)>> \o One, <<C("goto"), N(10)>>>>, <<"1", "\n", "undefined label", "\n">>),
  \* A label within a line is none.
  Fault(<<<<V("a"), Op("="), N(1), N(10)>>, <<C("goto"), N(10)>>>>, "undefined label")}

Faults ==
  {Fault(<<f[1]>>, f[2]) : f \in {
     <<<<V("a"), N(1)>>, "equals sign expected">>,
     <<<<V("a"), Op("=")>>, "no expression present">>,
     <<<<V("a"), Op("="), Op("*")>>, "syntax error">>,
     <<<<V("a"), Op("="), Op("("), N(1), Op("+"), N(2)>>, "unbalanced parentheses">>,
     <<<<V("a"), Op("="), Op("("), Op(")")>>, "syntax error">>,
     <<<<V("a"), Op("="), N(2), Op("^"), Op("-"), Op("-"), N(1)>>, "syntax error">>,
     <<<<C("goto"), N(5)>>, "undefined label">>,
     <<<<C("goto"), V("a")>>, "undefined label">>,
     <<<<C("gosub"), N(5)>>, "undefined label">>,
     <<<<C("if"), N(1), Op(")")>>, "syntax error">>,
     <<<<C("if"), Op("=")>>, "syntax error">>,
     <<<<C("if"), N(1)>>, "no expression present">>,
     <<<<C("if"), N(1), Op("<"), Op("="), N(1)>>, "syntax error">>,
     <<<<C("if"), N(1), Op("<"), N(2)>> \o One, "THEN expected">>,
     <<<<C("for"), N(1), Op("="), N(1)>>, "not a variable">>,
     <<<<C("for"), V("i"), C("to")>>, "equals sign expected">>,
     <<<<C("for"), V("i"), Op("="), C("to")>>, "syntax error">>,
     <<<<C("for"), V("i"), Op("="), N(1), N(2)>>, "TO expected">>,
     <<<<C("for"), V("i"), Op("="), N(1), C("to")>>, "no expression present">>,
     <<<<C("next")>>, "NEXT without FOR">>,
     <<<<C("return")>>, "RETURN without GOSUB">>}}
  \cup {
    Prints(<<<<C("print"), N(1), N(2)>>>>, <<"1", "syntax error", "\n">>),
    Prints(<<<<C("print"), Quoted("q"), Op(","), Op("/")>>>>, <<"q", "syntax error", "\n">>),
    Prints(<<<<C("input"), Quoted("q"), V("a")>>>>, <<"q", "unbalanced parentheses", "\n">>),
    Fault(<<<<C("if"), N(1), Op(">"), N(1), Op("+")>>>>, "syntax error"),
    Fault(<<<<N(5), C("gosub"), N(5)>>>>, "too many nested GOSUBs"),
    Fault(<<<<C("for"), V("i"), Op("="), N(1), C("to"), N(1)>>, <<C("next")>>, <<C("next")>>>>,
          "NEXT without FOR"),
    Fault(<<One, <<N(5)>>, <<>>, <<N(6)>>, <<N(5)>>>>, "duplicate label"),
    Fault([i \in 1 .. 7 |-> <<N(i)>>], "Label table full"),
    Fault([i \in 1 .. 7 |-> IF i = 7 THEN <<N(1)>> ELSE <<N(i)>>], "duplicate label")}

\* Loops that begin behind their targets, which are no part of the others: exec_for
\* means to skip them.
EmptyLoops ==
  {Program(<<Let("a", Num(1)), For("i", from, to, <<Say(<<Var("i")>>)>>), Say(<<Var("a")>>)>>,
           <<>>, <<>>, <<>>) : from \in {Num(1), Var("a")}, to \in {Num(0), Neg(Num(1))}}

Programs == Calculations \cup Nested \cup Dialogues \cup Layout \cup Jumps \cup Faults
=============================================================================
