----------------------------- MODULE SchemeText -----------------------------
(***************************************************************************)
(* scheme.c: the reader, the printer and the top level.  The text that is  *)
(* read is a sequence of tokens, the text that is written a sequence of    *)
(* pieces.                                                                 *)
(***************************************************************************)
EXTENDS SchemeProcs

Numerals == [s \in {ToString(n) : n \in 0 - 20 .. 99} |->
               CHOOSE n \in 0 - 20 .. 99 : ToString(n) = s]
\* The backquote, which TLA+ has not in its strings, is written ~.
Quotations == ("'" :> "quote") @@ ("~" :> "quasiquote") @@ ("," :> "unquote")
            @@ (",@" :> "unquote-splicing")
Readers == ("'" :> "RDQUOTE") @@ ("~" :> "RDQQUOTE") @@ ("," :> "RDUNQUOTE")
           @@ (",@" :> "RDUQTSP")
Punctuation == {"(", ")", ".", "#("} \cup DOMAIN Quotations

putstr(m, s) == [m EXCEPT !.out = Append(@, s)]

\* token: the next token; an atom or a string stays to be read by RDSEXPR.
token(m) ==
  LET t == IF m.in = <<>> THEN "EOF" ELSE Head(m.in)
  IN  [m EXCEPT !.tok = t, !.in = IF t \in Punctuation THEN Tail(@) ELSE @]

-----------------------------------------------------------------------------
\* The top level.  The interpreter reads from the console and is interactive.
T0LVL ==
  /\ sc.op = "T0LVL"
  /\ Become(Then(FoldLeft(LAMBDA m, op : s_save(m, op, NIL, NIL),
                          [putstr(sc, "\n") EXCEPT !.dump = NIL, !.envir = sc.global_env],
                          <<"T0LVL", "VALUEPRINT", "T1LVL">>), LAMBDA s :
       s_goto(putstr(s, "> "), "READ_INTERNAL")))
T1LVL == sc.op = "T1LVL" /\ Become(Eval(sc, sc.value))
VALUEPRINT ==
  /\ sc.op = "VALUEPRINT"
  /\ Become([sc EXCEPT !.print_flag = TRUE, !.args = sc.value, !.op = "P0LIST"])

AtEnd(m) == [m EXCEPT !.args = NIL, !.op = "quit"]
READ_INTERNAL ==
  /\ sc.op = "READ_INTERNAL"
  /\ Become(Then(token(sc), LAMBDA m : IF m.tok = "EOF" THEN AtEnd(m) ELSE s_goto(m, "RDSEXPR")))

-----------------------------------------------------------------------------
\* RDSEXPR: one expression, of which the first token has been read.
ReadEnd == sc.op = "RDSEXPR" /\ sc.tok = "EOF" /\ Become(AtEnd(sc))

ReadList ==
  /\ sc.op = "RDSEXPR" /\ sc.tok \in {"(", "#("}
  /\ Become(Then(token(IF sc.tok = "(" THEN sc ELSE s_save(sc, "RDVEC", NIL, NIL)), LAMBDA m :
       IF m.tok = ")" THEN _s_return(m, NIL)
       ELSE IF m.tok = "." THEN _Error_1(m, "syntax error: illegal dot expression", <<>>)
       ELSE s_goto(s_save(m, "RDLIST", NIL, NIL), "RDSEXPR")))

ReadPrefix ==
  /\ sc.op = "RDSEXPR" /\ sc.tok \in DOMAIN Quotations
  /\ Become(s_goto(token(s_save(sc, Readers[sc.tok], NIL, NIL)), "RDSEXPR"))

ReadAtom ==
  /\ sc.op = "RDSEXPR" /\ sc.tok \notin Punctuation \cup {"EOF"}
  /\ LET m == [sc EXCEPT !.in = Tail(@)]
         t == sc.tok
         string == SubSeq(t, 1, 1) = "\""
     IN  Become(IF string THEN Returns(mk_string(m, SubSeq(t, 2, Len(t) - 1)))
                ELSE IF t \in DOMAIN Numerals THEN Returns(mk_integer(m, Numerals[t]))
                ELSE _s_return(m, IF t = "#t" THEN T ELSE IF t = "#f" THEN F ELSE Symbol(t)))

ReadIllegal ==
  /\ sc.op = "RDSEXPR" /\ sc.tok \in {")", "."}
  /\ Become(_Error_1(sc, "syntax error: illegal token", <<>>))

RDLIST ==
  /\ sc.op = "RDLIST"
  /\ Become(Then(cons(sc, sc.value, sc.args), LAMBDA c :
       Then(token([c EXCEPT !.args = c.new]), LAMBDA m :
         IF m.tok = ")" THEN Returns(reverse_in_place(m, NIL, m.args))
         ELSE IF m.tok = "." THEN s_goto(token(s_save(m, "RDDOT", m.args, NIL)), "RDSEXPR")
         ELSE s_goto(s_save(m, "RDLIST", m.args, NIL), "RDSEXPR"))))

RDDOT ==
  /\ sc.op = "RDDOT"
  /\ Become(Then(token(sc), LAMBDA m :
       IF m.tok = ")"
       THEN Returns(reverse_in_place([m EXCEPT !.tok = sc.tok], m.value, m.args))
       ELSE _Error_1([m EXCEPT !.tok = sc.tok], "syntax error: illegal dot expression", <<>>)))

RDPREFIX ==
  /\ sc.op \in Range(Readers)
  /\ LET p == CHOOSE x \in DOMAIN Readers : Readers[x] = sc.op
     IN  Become(Returns(conses(sc, <<Symbol(Quotations[p]), sc.value>>, NIL)))

RDVEC == sc.op = "RDVEC" /\ Become([sc EXCEPT !.args = sc.value, !.op = "vector"])

-----------------------------------------------------------------------------
\* The printer.  f is the print flag: strings in quotes.
atom2str(m, p, f) ==
  LET type == TypeOf(m, p)
  IN  CASE p = NIL -> "()"
        [] p = T -> "#t"
        [] p = F -> "#f"
        [] IsSymbol(p) -> NameOf(p)
        [] IsProc(p) -> "#<" \o NameOf(p) \o " PROCEDURE>"
        [] type = "number" -> ToString(m.cell[p].car)
        [] type = "string" -> IF f THEN "\"" \o m.cell[p].car \o "\"" ELSE m.cell[p].car
        [] type = "macro" -> "#<MACRO>"
        [] type = "closure" -> "#<CLOSURE>"
        [] type = "promise" -> "#<PROMISE>"
        [] type = "continuation" -> "#<CONTINUATION>"
        [] OTHER -> "#<ERROR>"

\* The prefix in which a list (quote x) is abbreviated, "" if it is not.
Abbreviation(m, p) ==
  LET rest == Cdr(m, p)
      fits == {x \in DOMAIN Quotations : Car(m, p) = Symbol(Quotations[x])}
  IN  IF IsPair(m, p) /\ IsPair(m, rest) /\ Cdr(m, rest) = NIL /\ fits # {}
      THEN CHOOSE x \in fits : TRUE ELSE ""

PrintVector ==
  /\ sc.op = "P0LIST" /\ TypeOf(sc, sc.args) = "vector"
  /\ Become(Then(mk_integer(putstr(sc, "#("), 0), LAMBDA n :
       Then(cons(n, n.args, n.new), LAMBDA c : [c EXCEPT !.args = c.new, !.op = "PVECFROM"])))
PrintAtom ==
  /\ sc.op = "P0LIST" /\ TypeOf(sc, sc.args) \notin {"vector", "pair"}
  /\ LET s == IF TypeOf(sc, sc.args) = "environment" THEN "#<ENVIRONMENT>"
              ELSE atom2str(sc, sc.args, sc.print_flag)
     IN  Become(_s_return(putstr(sc, s), T))
PrintAbbreviated ==
  /\ sc.op = "P0LIST" /\ IsPair(sc, sc.args) /\ Abbreviation(sc, sc.args) # ""
  /\ Become([putstr(sc, Abbreviation(sc, sc.args)) EXCEPT !.args = Car(sc, Cdr(sc, @))])
PrintList ==
  /\ sc.op = "P0LIST" /\ IsPair(sc, sc.args) /\ Abbreviation(sc, sc.args) = ""
  /\ Become([s_save(putstr(sc, "("), "P1LIST", Cdr(sc, sc.args), NIL) EXCEPT
               !.args = Car(sc, @), !.op = "P0LIST"])

P1LIST ==
  /\ sc.op = "P1LIST"
  /\ LET type == TypeOf(sc, sc.args)
         more(rest) == s_save(sc, "P1LIST", rest, NIL)
         tail == IF sc.args = NIL THEN sc
                 ELSE putstr(putstr(sc, " . "), atom2str(sc, sc.args, sc.print_flag))
     IN  Become(CASE type = "pair" -> [putstr(more(Cdr(sc, sc.args)), " ") EXCEPT
                                         !.args = Car(sc, @), !.op = "P0LIST"]
                  [] type = "vector" -> s_goto(putstr(more(NIL), " . "), "P0LIST")
                  [] OTHER -> _s_return(putstr(tail, ")"), T))

PVECFROM ==
  /\ sc.op = "PVECFROM"
  /\ LET vec == Car(sc, sc.args)
         i == sc.cell[Cdr(sc, sc.args)].car
         m == [sc EXCEPT !.cell[Cdr(sc, sc.args)].car = i + 1]
     IN  Become(IF i = sc.cell[vec].car THEN _s_return(putstr(sc, ")"), T)
                ELSE [putstr(s_save(m, "PVECFROM", m.args, NIL), " ") EXCEPT
                        !.args = vector_elem(sc, vec, i), !.op = "P0LIST"])

-----------------------------------------------------------------------------
\* What writes.
DISPLAY ==
  /\ Calls({"display", "write"})
  /\ Become([sc EXCEPT !.args = Arg(sc, 1), !.print_flag = (sc.op = "write"), !.op = "P0LIST"])
NEWLINE == Calls({"newline"}) /\ Become(_s_return(putstr(sc, "\n"), T))

ERR0 ==
  /\ Calls({"error"})
  /\ Become(Then(IF TypeOf(sc, Arg(sc, 1)) = "string" THEN sc
                 ELSE Then(mk_string(sc, " -- "), LAMBDA t :
                        Then(cons(t, t.new, t.args), LAMBDA c : [c EXCEPT !.args = c.new])),
       LAMBDA m :
         IF m.no_memory THEN m
         ELSE [putstr(putstr(m, "Error: "), m.cell[Car(m, m.args)].car) EXCEPT
                 !.args = Cdr(m, @), !.op = "ERR1"]))
ERR1 ==
  /\ sc.op = "ERR1"
  /\ LET m == putstr(sc, " ")
     IN  Become(IF sc.args = NIL THEN s_goto(putstr(m, "\n"), "T0LVL")
                ELSE [s_save(m, "ERR1", Cdr(m, m.args), NIL) EXCEPT
                        !.args = Car(m, @), !.print_flag = TRUE, !.op = "P0LIST"])
=============================================================================
