--------------------------- MODULE MCInterpreters ---------------------------
(***************************************************************************)
(* The two interpreters among the user programs side by side: Scheme reads *)
(* a text, or BASIC runs a program, or some program works in the memory of *)
(* Scheme, while the others wait; and what they are given to read, to run  *)
(* and to collect.                                                         *)
(***************************************************************************)
EXTENDS Scheme, Basic, SchemeMeaning, Storage

\* Texts in which every opcode of the model is executed, each in memories of all
\* sizes from one that is too small to one that never fills up.
\* The words of s from its i-th character on, of which the first began at from.
RECURSIVE Split(_, _, _)
Split(s, from, i) ==
  LET word == SubSeq(s, from, i - 1)
  IN  IF i > Len(s) THEN <<word>>
      ELSE IF SubSeq(s, i, i) = " " THEN <<word>> \o Split(s, i + 1, i + 1)
      ELSE Split(s, from, i + 1)
Tokens(expressions) ==
  FlattenSeq([i \in DOMAIN expressions |-> Split(expressions[i], 1, 1)])

MCTexts ==
  LET texts == {
    <<"( define ( f n ) ( if ( < n 2 ) 1 ( * n ( f ( - n 1 ) ) ) ) )", "( f 4 )">>,
    <<"( let loop ( ( i 0 ) ( acc ( quote ( ) ) ) ) ( if ( = i 3 ) ( reverse acc ) ( loop ( + i 1 ) ( cons i acc ) ) ) )">>,
    <<"( let* ( ( a 1 ) ( b ( + a 1 ) ) ) ( cons a ( cons b ( quote ( ) ) ) ) )",
      "( let* ( ) 5 )",
      "( let ( ( x 2 ) ( y 3 ) ) ( begin ( quotient 7 x ) ( modulo ( - y ) 2 ) ) )">>,
    <<"( letrec ( ( even ( lambda ( n ) ( or ( = n 0 ) ( odd ( - n 1 ) ) ) ) ) ( odd ( lambda ( n ) ( and ( > n 0 ) ( even ( - n 1 ) ) ) ) ) ) ( even 3 ) )",
      "( and )", "( or )">>,
    <<"( define ( g x ) ( cond ( ( assq x ' ( ( a 1 ) ( b 2 ) ) ) => cdr ) ( ( eq? x ' c ) ) ( else ' none ) ) )",
      "( append ( g ' b ) ( append ( g ' a ) ( g ' c ) ) )", "( g ' d )">>,
    <<"( define ( h n ) ( case n ( ( 1 2 ) ' few ) ( ( 3 ) 3 ) ( else ' many ) ) )",
      "( h 2 )", "( h 7 )", "( define z 1 )", "( set! z ( + z ( h 3 ) ) )", "z",
      "( case 1 ( ( 2 ) 3 ) )", "( case 1 ( #f 3 ) )", "( cond ( #f 1 ) )">>,
    <<"( macro ( unless f ) ( cons ' if ( cons ( car ( cdr f ) ) ( cons ( ) ( cdr ( cdr f ) ) ) ) ) )",
      "( unless ( null? 1 ) ( remainder 7 4 ) )", "unless",
      "( macro m ( lambda ( f ) 1 ) )", "( m )">>,
    <<"( define v ( make-vector 3 7 ) )", "( vector-set! v 1 #( 1 a ) )", "v",
      "( vector-ref v 2 )", "( vector-length ( vector 1 \"x\" v ) )",
      "( vector-ref v 3 )", "( vector-set! v 9 v )", "( make-vector 2 )", "( cons 1 v )">>,
    <<"( + 1 ( call-with-current-continuation ( lambda ( k ) ( + 10 ( k 5 ) ) ) ) )",
      "( call-with-current-continuation procedure? )">>,
    <<"( define p ( delay ( * 2 3 ) ) )", "p", "( + ( force p ) ( force p ) )",
      "( define ( from n ) ( cons-stream n ( from ( + n 1 ) ) ) )",
      "( car ( force ( cdr ( from 1 ) ) ) )">>,
    <<"( car 1 )", "( + 1 ( foo ) )", "( error \"bad\" ' x 2 )", "( error ' x )",
      "( 1 2 )", "( car )", "( eq? 1 2 3 )">>,
    <<")", "( . 1 )", "( 1 . 2 3 )", "( set! zz 1 )", "( ( lambda ( x ) x ) )",
      "( ( lambda ( 1 ) 1 ) 2 )", "( define ( 1 ) 2 )", "( cond )", "( cond ( 1 => ) )",
      "( quotient 1 0 )">>,
    <<"( define e ( ( lambda ( a ) ( current-environment ) ) 4 ) )",
      "( eval ' ( + a 1 ) e )", "( defined? ' a e )", "( defined? ' a )", "( eval ' e )",
      "( eqv? 2 ( interaction-environment ) )", "e">>,
    <<"( define l ' ( 1 2 ) )", "( begin ( set-cdr! ( cdr l ) l ) ( list? l ) )",
      "( car ( cdr ( cdr l ) ) )", "( list? ' ( 1 . 2 ) )", "( length ' ( 1 2 . 3 ) )",
      "( assq 1 ' ( 2 ) )", "( begin ( set-car! l 9 ) ( car l ) )",
      "( begin ( define l 1 ) ( set-cdr! ' ( 1 2 ) 3 ) )">>,
    <<"( define x ' ( 1 2 ) )", "( gc )", "x", "( new-segment 1 )", "( new-segment )",
      "( apply + 1 x )", "( list* 1 x )", "( apply ( lambda y y ) x )", "( list* 3 )",
      "( length x )", "( quit )", "x">>,
    <<"( quote ( ' a ~ ( b , c ,@ d ) . \"e\" ) )", "( display \"hi\" )",
      "( write \"hi\" )", "( newline )", "car", "( lambda ( ) 1 )", "' #( )",
      "( display ' ( #t #f ) )", "( call-with-current-continuation ( lambda ( k ) k ) )",
      "( a">>}
  IN  {[says |-> Tokens(t), means |-> Meaning(Tokens(t))] : t \in texts}

MCSegSizes == 16 .. 40

\* The symbols of the texts and of the interpreter.
MCNames == <<
  "*", "+", "-", "<", "<=", "=", "=>", ">", ">=", "a", "acc", "and", "append",
  "apply", "assq", "b", "begin", "boolean?", "c", "call-with-current-continuation",
  "car", "case", "cdr", "closure?", "cond", "cons", "cons-stream",
  "current-environment", "d", "define", "defined?", "delay", "display", "e", "else",
  "environment?", "eq?", "eqv?", "error", "eval", "even", "f", "few", "foo", "force",
  "from", "g", "gc", "h", "i", "if", "interaction-environment", "k", "l", "lambda",
  "length", "let", "let*", "letrec", "list*", "list?", "loop", "m", "macro",
  "macro?", "make-vector", "many", "modulo", "n", "new-segment", "newline", "none",
  "not", "null?", "number?", "odd", "or", "p", "pair?", "procedure?", "quasiquote",
  "quit", "quote", "quotient", "remainder", "reverse", "set!", "set-car!",
  "set-cdr!", "string?", "symbol?", "unless", "unquote", "unquote-splicing", "v",
  "vector", "vector-length", "vector-ref", "vector-set!", "vector?", "write", "x",
  "y", "z", "zz">>

-----------------------------------------------------------------------------
InBasic == INSTANCE MCBasic
MCPrograms == InBasic!Programs
MCEmptyLoops == InBasic!EmptyLoops

-----------------------------------------------------------------------------
\* Memories that the collector finds: all of three pairs and numbers ...
MCAtoms == {Cell("number", TRUE, 7, NIL)}
Pair(a, b) == Cell("pair", FALSE, a, b)
Three == {Pair(a, b) : a, b \in 0 .. 3} \cup MCAtoms
OfPairs == {[cell |-> <<x, y, z>>, roots |-> <<1, NIL, 2>>] : x, y, z \in Three}
\* ... and two vectors, of three elements and of one, that hold each other,
\* themselves and a pair in any way.
VectorOf(n) == Cell("vector", TRUE, n, NIL)
Things == {NIL, 1, 4, 6}
OfVectors ==
  {[cell |-> <<VectorOf(3), Pair(a, b), Pair(c, NIL), VectorOf(1), Pair(d, NIL), Pair(e, f)>>,
    roots |-> <<6, T, 1>>] : a, b \in Things \ {NIL}, c, d, e, f \in Things}
CollectorStarts ==
  \E h \in OfPairs \cup OfVectors :
    /\ mem = [NoCells EXCEPT !.cell = h.cell, !.last_cell_seg = NSegment - 1]
    /\ regs = <<h.roots[1]>> /\ asked = ForGc /\ work = MaxWork
    /\ heap = h /\ walk = Begin(h.cell, h.roots)

-----------------------------------------------------------------------------
SchemeWaits == sc = [scheme_init(FewCells, <<>>) EXCEPT !.op = "QUIT"] /\ meant = <<>>
BasicWaits ==
  ended = "finished" /\ load_program([text |-> <<EOL>>, typed |-> <<>>, prints |-> {<<>>}])
StorageWaits == Fresh /\ work = MaxWork

Started ==
  \/ Init /\ BasicWaits /\ StorageWaits
  \/ SchemeWaits /\ BasicInit /\ StorageWaits
  \/ SchemeWaits /\ BasicWaits /\ (StorageInit \/ CollectorStarts)
Advances ==
  \/ Next /\ UNCHANGED <<basicvars, storagevars>>
  \/ BasicNext /\ UNCHANGED <<vars, storagevars>>
  \/ StorageNext /\ UNCHANGED <<vars, basicvars>>
Interpret == Started /\ [][Advances]_<<vars, basicvars, storagevars>>
=============================================================================
