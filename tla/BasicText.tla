----------------------------- MODULE BasicText -----------------------------
(***************************************************************************)
(* What the BASIC interpreter is given to read: the text of a program, and *)
(* what is typed for INPUT.                                                *)
(***************************************************************************)
EXTENDS Integers, SequencesExt

CONSTANT LINE   \* the n of fgets

\* What get_token (basic/basic.c) makes of the text of a program: a token is its
\* token_type and what it is.  Of a variable's name the first letter counts.
Number(n) == <<"number", n>>
Variable(v) == <<"variable", v>>
Command(c) == <<"command", c>>
Delimiter(d) == <<"delimiter", d>>
Quoted(s) == <<"quote", s>>

TypeOfToken(t) == t[1]
What(t) == t[2]

EOL == Delimiter("end of line")
FINISHED == Delimiter("end of program")

-----------------------------------------------------------------------------
\* Reading a number from the console with the C library: fgets, in which the
\* system lets the user take back what he typed, and atoi, which is strtol with
\* base 10.  A text is a sequence of characters; BS is the backspace.

\* s: the buffer, in which place i comes next; keys: what is typed.  The end of
\* the line is stored; a backspace goes back, but not behind the first place.
RECURSIVE Typed(_, _, _)
Typed(keys, i, s) ==
  IF i >= LINE - 1 \/ keys = <<>> THEN [i |-> i, s |-> s, keys |-> keys]
  ELSE CASE Head(keys) = "BS" -> Typed(Tail(keys), IF i > 0 THEN i - 1 ELSE 1, s)
         [] Head(keys) = "\n" -> [i |-> i, s |-> [s EXCEPT ![i] = "\n"], keys |-> Tail(keys)]
         [] OTHER -> Typed(Tail(keys), i + 1, [s EXCEPT ![i] = Head(keys)])

\* junk is what the buffer held before.  The string ends behind place i, which
\* is written only if it has the end of the line.
fgets(keys, junk) ==
  LET r == Typed(keys, 0, [i \in 0 .. LINE |-> junk])
  IN  [str |-> [k \in 1 .. r.i + 1 |-> r.s[k - 1]], keys |-> r.keys]

char_value(c) ==
  CASE c = "0" -> 0 [] c = "1" -> 1 [] c = "2" -> 2 [] c = "3" -> 3 [] c = "4" -> 4
    [] c = "5" -> 5 [] c = "6" -> 6 [] c = "7" -> 7 [] c = "8" -> 8 [] c = "9" -> 9
    [] OTHER -> 37

\* The characters of str before the first one that is not among chars.
Leading(str, chars) ==
  LET other == SelectInSeq(str, LAMBDA c : c \notin chars)
  IN  IF other = 0 THEN str ELSE SubSeq(str, 1, other - 1)
strtol(str) ==
  LET blanks == Len(Leading(str, {" ", "\t", "\n"}))
      sign == blanks < Len(str) /\ str[blanks + 1] \in {"+", "-"}
      number == SubSeq(str, blanks + (IF sign THEN 2 ELSE 1), Len(str))
      digits == Leading(number, {c \in ToSet(number) : char_value(c) < 10})
      value == FoldLeft(LAMBDA n, c : 10 * n + char_value(c), 0, digits)
  IN  IF sign /\ str[blanks + 1] = "-" THEN 0 - value ELSE value
=============================================================================
