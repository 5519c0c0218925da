----------------------------- MODULE ByteStream -----------------------------
(***************************************************************************)
(* What a stream of libc gives the threads of a program: each byte of the  *)
(* file once and in order, a byte pushed back comes again, and a call is   *)
(* only told of the end, or left unsatisfied, at the end of the file; but  *)
(* a read that is too long for its server is told of the end wherever it   *)
(* is, and moves nothing.  Stdio implements it.                            *)
(***************************************************************************)
EXTENDS Naturals, Sequences

CONSTANTS Content, Lengths, Threads,
          TooLong   \* the lengths of the reads that the server refuses

VARIABLES left,   \* the bytes still to come
          said    \* said[t]: what the last call of thread t returned

vars == <<left, said>>

Silence == [end |-> FALSE, bytes |-> <<>>]

\* What is left of the file from a place in it.
From(place) == SubSeq(Content, place + 1, Len(Content))

Take(t, n) ==
  /\ left' = SubSeq(left, n + 1, Len(left))
  /\ said' = [said EXCEPT ![t] = [end |-> FALSE, bytes |-> SubSeq(left, 1, n)]]

Init == left = Content /\ said = [t \in Threads |-> Silence]

Get(t) == left # <<>> /\ Take(t, 1)

End(t) ==
  /\ left = <<>>
  /\ said' = [said EXCEPT ![t] = [end |-> TRUE, bytes |-> <<>>]]
  /\ UNCHANGED left

Unget(t) ==
  /\ Len(said[t].bytes) = 1
  /\ left' = said[t].bytes \o left
  /\ said' = [said EXCEPT ![t] = Silence]

Seek(t) ==
  /\ \E place \in 0 .. Len(Content) : left' = From(place)
  /\ said' = [said EXCEPT ![t] = Silence]

\* A read of a length that is served is left unsatisfied only where the stream
\* ends.
Read(t) ==
  \E n \in Lengths \ TooLong :
    \/ n <= Len(left) /\ Take(t, n)
    \/ /\ n > Len(left)
       /\ \E k \in 0 .. Len(left) :
            /\ left' = SubSeq(left, k + 1, Len(left))
            /\ said' = [said EXCEPT ![t] = [end |-> TRUE, bytes |-> SubSeq(left, 1, k)]]

Refuse(t) ==
  /\ TooLong # {}
  /\ said' = [said EXCEPT ![t] = [end |-> TRUE, bytes |-> <<>>]]
  /\ UNCHANGED left

Next ==
  \E t \in Threads :
    Get(t) \/ End(t) \/ Unget(t) \/ Seek(t) \/ Read(t) \/ Refuse(t)

Spec == Init /\ [][Next]_vars
=============================================================================
