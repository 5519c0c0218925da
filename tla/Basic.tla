-------------------------------- MODULE Basic --------------------------------
(***************************************************************************)
(* The BASIC interpreter (basic/basic.c), one action per statement.        *)
(* prog is the place of the next token; putback takes it back to the token *)
(* read last.                                                              *)
(*                                                                         *)
(* Left out: the characters of tokens and the size of the buffers they are *)
(* read into, characters that begin no token, numbers that do not fit a    *)
(* word, division by zero, a string behind an expression, where putback    *)
(* forgets its quotation marks, a keyword or nothing where a variable is   *)
(* due, and a FOR inside FOR_NEST others, which fpush writes behind its    *)
(* stack.                                                                  *)
(***************************************************************************)
EXTENDS BasicText

CONSTANTS
  BasicPrograms,   \* what may be run: its text, what is typed, what it may print
  NUM_LAB,         \* the size of the label table
  FOR_NEST,        \* the size of the stack of loops
  SUB_NEST         \* the size of the stack of subroutines, of which one is not used

VARIABLES
  text,        \* the tokens of the program
  typed,       \* the keys that the user is going to type
  intended,    \* what the program may print
  labels,      \* labels[n]: the place behind label n
  prog,        \* the place of the next token
  variables,   \* the values of the variables
  fstack,      \* the loops that are open: variable, target and place
  gstack,      \* the places that the open subroutines return to
  printed,     \* what was printed
  ended        \* "scanning", "running", or how it ended

basicvars ==
  <<text, typed, intended, labels, prog, variables, fstack, gstack, printed, ended>>

Letters == {"a", "b", "c", "d", "e", "f", "g", "h", "i", "j", "k", "l", "m",
            "n", "o", "p", "q", "r", "s", "t", "u", "v", "w", "x", "y", "z"}

\* load_program drops the last character, which is the end of the last line.
load_program(p) ==
  /\ text = Front(p.text) /\ typed = p.typed /\ intended = p.prints
  /\ labels = [n \in {} |-> 0]
  /\ prog = 1
  /\ variables = [v \in Letters |-> 0]
  /\ fstack = <<>> /\ gstack = <<>>
  /\ printed = <<>>
BasicInit == ended = "scanning" /\ \E p \in BasicPrograms : load_program(p)

At(p) == IF p \in DOMAIN text THEN text[p] ELSE FINISHED
Past(p) == IF p \in DOMAIN text THEN p + 1 ELSE p
find_eol(p) ==
  LET ends == {q \in p .. Len(text) : text[q] = EOL}
  IN  IF ends = {} THEN Len(text) + 1 ELSE Min(ends) + 1

\* An error is printed behind what the statement has printed before, and ends
\* the program.
serror(before, message) ==
  /\ printed' = printed \o before \o <<message, "\n">>
  /\ ended' = message
  /\ UNCHANGED <<text, typed, intended, labels, prog, variables, fstack, gstack>>

\* The statement at prog has been executed; the next one is at p.
Goes(p) ==
  /\ prog' = p
  /\ UNCHANGED <<text, intended, labels, ended>>

-----------------------------------------------------------------------------
\* The places where the search for labels looks.  After an empty first line it
\* has lost a line.
LineStarts ==
  {p \in 1 .. Len(text) : p = 1 \/ text[p - 1] = EOL}
    \ (IF At(1) = EOL THEN {2} ELSE {})
Labelled == {p \in LineStarts : TypeOfToken(text[p]) = "number"}
Twice == {p \in Labelled : \E q \in Labelled : q < p /\ text[q] = text[p]}
TooMany == {p \in Labelled : Cardinality({q \in Labelled : q < p}) >= NUM_LAB}

scan_labels ==
  /\ ended = "scanning"
  /\ LET wrong == Twice \cup TooMany IN
     \/ /\ wrong # {}
        /\ serror(<<>>, IF Min(wrong) \in Twice THEN "duplicate label" ELSE "Label table full")
     \/ /\ wrong = {}
        /\ labels' = [n \in {What(text[p]) : p \in Labelled} |->
                        1 + CHOOSE p \in Labelled : What(text[p]) = n]
        /\ ended' = "running"
        /\ UNCHANGED <<text, typed, intended, prog, variables, fstack, gstack, printed>>

HasLabel(p) == TypeOfToken(At(p)) = "number" /\ What(At(p)) \in DOMAIN labels

-----------------------------------------------------------------------------
\* Expressions.  v are the values of the variables; at is the place of the
\* token that was read last, which does not belong to the expression any more.
Nothing == "none"
Yields(value, at) == [value |-> value, at |-> at, fault |-> Nothing]
Fails(fault) == [value |-> 0, at |-> Len(text) + 1, fault |-> fault]

Quot(a, b) ==
  LET abs(x) == IF x < 0 THEN 0 - x ELSE x
      q == abs(a) \div abs(b)
  IN  IF (a < 0) = (b < 0) THEN q ELSE 0 - q

arith(op, a, b) ==
  CASE op = "-" -> a - b
    [] op = "+" -> a + b
    [] op = "*" -> a * b
    [] op = "/" -> Quot(a, b)
    [] op = "%" -> a - Quot(a, b) * b
    [] op = "^" -> IF b = 0 THEN 1 ELSE IF b < 0 THEN a ELSE a ^ b

Both(op, r, s) ==
  IF r.fault # Nothing THEN r ELSE IF s.fault # Nothing THEN s
  ELSE Yields(arith(op, r.value, s.value), s.at)
Followed(r, ops) == r.fault = Nothing /\ At(r.at) \in {Delimiter(op) : op \in ops}

find_var(t, v) == v[What(t)]
primitive(p, v) ==
  CASE TypeOfToken(At(p)) = "variable" -> Yields(find_var(At(p), v), p + 1)
    [] TypeOfToken(At(p)) = "number"   -> Yields(What(At(p)), p + 1)
    [] OTHER                           -> Fails("syntax error")

\* A parenthesized expression r.
Closed(r) ==
  IF r.fault # Nothing THEN r
  ELSE IF At(r.at) # Delimiter(")") THEN Fails("unbalanced parentheses")
  ELSE Yields(r.value, r.at + 1)

\* level2 and level3 take their operands from the left.
Operators(n) == CASE n = 2 -> {"+", "-"} [] n = 3 -> {"*", "/", "%"}

\* level2 to level6: the expression of level n that begins at p.
RECURSIVE level(_, _, _), Operands(_, _, _)
Operands(n, r, v) ==
  IF Followed(r, Operators(n))
  THEN Operands(n, Both(What(At(r.at)), r, level(n + 1, r.at + 1, v)), v) ELSE r
level(n, p, v) ==
  LET sign == n = 5 /\ At(p) \in {Delimiter("-"), Delimiter("+")}
      open == n = 6 /\ At(p) = Delimiter("(")
      \* The first part: of level n + 1 but behind a sign or a parenthesis.
      r == IF open THEN level(2, p + 1, v) ELSE level(n + 1, IF sign THEN p + 1 ELSE p, v)
  IN  CASE n \in {2, 3} -> Operands(n, r, v)
        [] n = 4 -> IF Followed(r, {"^"}) THEN Both("^", r, level(4, r.at + 1, v)) ELSE r
        [] n = 5 -> IF At(p) = Delimiter("-") THEN Both("-", Yields(0, p), r) ELSE r
        [] n = 6 -> IF open THEN Closed(r) ELSE primitive(p, v)

get_exp(p, v) == IF At(p) = FINISHED THEN Fails("no expression present") ELSE level(2, p, v)

-----------------------------------------------------------------------------
\* Statements.  fault is what is wrong with the one at prog, or Nothing.
Executes(command) == ended = "running" /\ At(prog) = Command(command)

assignment ==
  LET r == get_exp(prog + 2, variables)
      fault == IF At(prog + 1) # Delimiter("=") THEN "equals sign expected" ELSE r.fault
  IN  /\ ended = "running" /\ TypeOfToken(At(prog)) = "variable"
      /\ \/ fault # Nothing /\ serror(<<>>, fault)
         \/ /\ fault = Nothing
            /\ variables' = [variables EXCEPT ![What(At(prog))] = r.value]
            /\ Goes(r.at)
            /\ UNCHANGED <<typed, fstack, gstack, printed>>

\* The items from p on, behind those that were printed: len characters, the
\* last of them followed by delim.
RECURSIVE Listed(_, _, _, _)
Listed(p, out, len, delim) ==
  LET quote == TypeOfToken(At(p)) = "quote"
      r == IF quote THEN Yields(0, p + 1) ELSE get_exp(p, variables)
      item == IF quote THEN What(At(p)) ELSE ToString(r.value)
      more == Append(out, item)
      end == len + Len(item)
      spaces == 8 - (end % 8)
      next_ == At(r.at)
  IN  CASE At(p) \in {EOL, FINISHED} -> [out |-> out, at |-> Past(p), fault |-> Nothing, delim |-> delim]
        [] r.fault # Nothing -> [out |-> out, at |-> p, fault |-> r.fault, delim |-> delim]
        [] next_ = Delimiter(";") ->
             Listed(r.at + 1, more \o [i \in 1 .. spaces |-> " "], end + spaces, ";")
        [] next_ = Delimiter(",") -> Listed(r.at + 1, more, end, ",")
        [] next_ \in {EOL, FINISHED} ->
             [out |-> more, at |-> Past(r.at), fault |-> Nothing, delim |-> "\n"]
        [] OTHER -> [out |-> more, at |-> p, fault |-> "syntax error", delim |-> delim]

\* last_delim is not initialized, so a PRINT of nothing may begin a new line or not.
print ==
  \E last_delim \in {";", "\n"} :
    LET r == Listed(prog + 1, <<>>, 0, last_delim)
    IN  /\ Executes("print")
        /\ \/ r.fault # Nothing /\ serror(r.out, r.fault)
           \/ /\ r.fault = Nothing
              /\ printed' = printed \o r.out \o (IF r.delim = "\n" THEN <<"\n">> ELSE <<>>)
              /\ Goes(r.at)
              /\ UNCHANGED <<typed, variables, fstack, gstack>>

exec_goto ==
  /\ Executes("goto")
  /\ \/ ~HasLabel(prog + 1) /\ serror(<<>>, "undefined label")
     \/ /\ HasLabel(prog + 1)
        /\ Goes(labels[What(At(prog + 1))])
        /\ UNCHANGED <<typed, variables, fstack, gstack, printed>>

exec_if ==
  LET x == get_exp(prog + 1, variables)
      op == At(x.at)
      y == get_exp(x.at + 1, variables)
      cond == \/ op = Delimiter("<") /\ x.value < y.value
              \/ op = Delimiter(">") /\ x.value > y.value
              \/ op = Delimiter("=") /\ x.value = y.value
      fault == CASE x.fault # Nothing -> x.fault
                 [] x.fault = Nothing /\ op \notin {FINISHED, Delimiter("="), Delimiter("<"), Delimiter(">")}
                      -> "syntax error"
                 [] OTHER -> IF y.fault = Nothing /\ cond /\ At(y.at) # Command("then")
                             THEN "THEN expected" ELSE y.fault
  IN  /\ Executes("if")
      /\ \/ fault # Nothing /\ serror(<<>>, fault)
         \/ /\ fault = Nothing
            /\ Goes(IF cond THEN y.at + 1 ELSE find_eol(y.at))
            /\ UNCHANGED <<typed, variables, fstack, gstack, printed>>

\* The loop is entered whatever its target: value >= variables[i.var] compares
\* the variable with the value that it was just given.
exec_for ==
  LET var == At(prog + 1)
      start == get_exp(prog + 3, variables)
      set == [variables EXCEPT ![What(var)] = start.value]
      target == get_exp(start.at + 1, set)
      fault == CASE TypeOfToken(var) # "variable" -> "not a variable"
                 [] TypeOfToken(var) = "variable" /\ At(prog + 2) # Delimiter("=") -> "equals sign expected"
                 [] OTHER -> IF start.fault # Nothing THEN start.fault
                             ELSE IF At(start.at) # Command("to") THEN "TO expected"
                             ELSE target.fault
  IN  /\ Executes("for")
      /\ \/ fault # Nothing /\ serror(<<>>, fault)
         \/ /\ fault = Nothing
            /\ Len(fstack) < FOR_NEST
            /\ variables' = set
            /\ fstack' = Append(fstack, [var |-> What(var), target |-> target.value, loc |-> target.at])
            /\ Goes(target.at)
            /\ UNCHANGED <<typed, gstack, printed>>

\* Mutant: a loop that has ended stays on the stack.
Mutnext ==
  /\ Executes("next")
  /\ \/ fstack = <<>> /\ serror(<<>>, "NEXT without FOR")
     \/ /\ fstack # <<>>
        /\ LET i == Last(fstack)
               count == variables[i.var] + 1
           IN  /\ variables' = [variables EXCEPT ![i.var] = count]
               /\ Goes(IF count > i.target THEN prog + 1 ELSE i.loc)
        /\ UNCHANGED <<typed, fstack, gstack, printed>>

next ==
  /\ Executes("next")
  /\ \/ fstack = <<>> /\ serror(<<>>, "NEXT without FOR")
     \/ /\ fstack # <<>>
        /\ LET i == Last(fstack)
               count == variables[i.var] + 1
           IN  /\ variables' = [variables EXCEPT ![i.var] = count]
               /\ fstack' = IF count > i.target THEN Front(fstack) ELSE fstack
               /\ Goes(IF count > i.target THEN prog + 1 ELSE i.loc)
        /\ UNCHANGED <<typed, gstack, printed>>

\* The line is read into a buffer on the stack; junk is what that has.
input ==
  \E junk \in {"NUL", "7"} :
    LET quote == TypeOfToken(At(prog + 1)) = "quote"
        prompt == IF quote THEN What(At(prog + 1)) ELSE "? "
        var == prog + (IF quote THEN 3 ELSE 1)
        line == fgets(typed, junk)
    IN  /\ Executes("input")
        /\ \/ quote /\ At(prog + 2) # Delimiter(",") /\ serror(<<prompt>>, "unbalanced parentheses")
           \/ /\ quote => At(prog + 2) = Delimiter(",")
              /\ typed # <<>>
              /\ typed' = line.keys
              /\ variables' = [variables EXCEPT ![What(At(var))] = strtol(line.str)]
              /\ printed' = Append(printed, prompt)
              /\ Goes(var + 1)
              /\ UNCHANGED <<fstack, gstack>>

gosub ==
  LET fault == IF ~HasLabel(prog + 1) THEN "undefined label"
               ELSE IF Len(gstack) + 1 = SUB_NEST THEN "too many nested GOSUBs" ELSE Nothing
  IN  /\ Executes("gosub")
      /\ \/ fault # Nothing /\ serror(<<>>, fault)
         \/ /\ fault = Nothing
            /\ gstack' = Append(gstack, prog + 2)
            /\ Goes(labels[What(At(prog + 1))])
            /\ UNCHANGED <<typed, variables, fstack, printed>>

greturn ==
  /\ Executes("return")
  /\ \/ gstack = <<>> /\ serror(<<>>, "RETURN without GOSUB")
     \/ /\ gstack # <<>>
        /\ gstack' = Front(gstack)
        /\ Goes(Last(gstack))
        /\ UNCHANGED <<typed, variables, fstack, printed>>

\* A label, the end of a line or whatever else begins no statement.
Skip ==
  /\ ended = "running" /\ At(prog) # FINISHED
  /\ \/ TypeOfToken(At(prog)) \in {"number", "delimiter", "quote"}
     \/ At(prog) \in {Command("then"), Command("to")}
  /\ Goes(prog + 1)
  /\ UNCHANGED <<typed, variables, fstack, gstack, printed>>

\* END, or the end of the text.
Ends ==
  /\ ended = "running" /\ At(prog) \in {Command("end"), FINISHED}
  /\ ended' = "finished"
  /\ UNCHANGED <<text, typed, intended, labels, prog, variables, fstack, gstack, printed>>

BasicNext ==
  \/ scan_labels \/ assignment \/ print \/ exec_goto \/ exec_if \/ exec_for \/ next
  \/ input \/ gosub \/ greturn \/ Skip \/ Ends

-----------------------------------------------------------------------------
\* A program prints what its blocks mean, and when it has ended no loop and no
\* subroutine is left open: NEXT and RETURN know their FOR and GOSUB only from
\* the order in which they are come to, and an expression gives back to the
\* text the one token that it read too far.
BasicPrintsWhatIsMeant ==
  /\ \E out \in intended : IsPrefix(printed, out)
  /\ ended \notin {"scanning", "running"} => printed \in intended
  /\ ended = "finished" => fstack = <<>> /\ gstack = <<>>

\* What exec_for says of itself: a loop goes on the stack if it can execute at least
\* once.  It is not so: every loop does, and its body is executed.
OnlyLoopsThatCount ==
  [][Len(fstack') > Len(fstack) =>
       variables'[Last(fstack').var] <= Last(fstack').target]_basicvars
=============================================================================
