---------------------------- MODULE SchemeTable ----------------------------
(***************************************************************************)
(* The keywords of scheme.c and its table of procedures (opdefines.h).     *)
(***************************************************************************)
EXTENDS Integers, Sequences, TLC

\* syntaxnum: the keywords and the opcode each starts.
Syntax ==
  [lambda |-> "LAMBDA", quote |-> "QUOTE", define |-> "DEF0", if |-> "IF0",
   begin |-> "BEGIN", let |-> "LET0", letrec |-> "LET0REC", cond |-> "COND0",
   delay |-> "DELAY", and |-> "AND0", or |-> "OR0", macro |-> "MACRO0",
   case |-> "CASE0"]
  @@ ("set!" :> "SET0") @@ ("let*" :> "LET0AST") @@ ("cons-stream" :> "C0STREAM")

\* dispatch_table: the procedures that the model has, with the fewest and the
\* most arguments and the kinds of the arguments, the last one repeated.
INF_ARG == 65535
With(min, max, kinds) == [min |-> min, max |-> max, kinds |-> kinds]
Each(names, row) == [n \in names |-> row]
dispatch_table ==
  Each({"+", "*"}, With(0, INF_ARG, <<"number">>))
  @@ Each({"-"}, With(1, INF_ARG, <<"number">>))
  @@ Each({"quotient"}, With(1, INF_ARG, <<"integer">>))
  @@ Each({"remainder", "modulo"}, With(2, 2, <<"integer">>))
  @@ Each({"=", "<", ">", "<=", ">="}, With(2, INF_ARG, <<"number">>))
  @@ Each({"car", "cdr", "reverse"}, With(1, 1, <<"pair">>))
  @@ Each({"set-car!", "set-cdr!"}, With(2, 2, <<"pair", "any">>))
  @@ Each({"make-vector"}, With(1, 2, <<"non-negative integer", "any">>))
  @@ Each({"vector-length"}, With(1, 1, <<"vector">>))
  @@ Each({"vector-ref"}, With(2, 2, <<"vector", "non-negative integer">>))
  @@ Each({"vector-set!"}, With(3, 3, <<"vector", "non-negative integer", "any">>))
  @@ Each({"symbol?", "number?", "string?", "procedure?", "pair?", "list?", "vector?",
           "not", "null?", "boolean?", "closure?", "macro?", "environment?", "force",
           "call-with-current-continuation"}, With(1, 1, <<"any">>))
  @@ Each({"display", "write"}, With(1, 2, <<"any", "output_port">>))
  @@ Each({"eq?", "eqv?", "cons", "assq"}, With(2, 2, <<"any">>))
  @@ Each({"length"}, With(1, 1, <<"pair or '()">>))
  @@ Each({"defined?"}, With(1, 2, <<"symbol", "environment">>))
  @@ Each({"vector", "append"}, With(0, INF_ARG, <<"any">>))
  @@ Each({"apply", "list*", "error"}, With(1, INF_ARG, <<"any">>))
  @@ Each({"eval"}, With(1, 2, <<"any", "environment">>))
  @@ Each({"newline"}, With(0, 1, <<"output_port">>))
  @@ Each({"gc", "current-environment", "interaction-environment"}, With(0, 0, <<"any">>))
  @@ Each({"quit", "new-segment"}, With(0, 1, <<"number">>))
=============================================================================
