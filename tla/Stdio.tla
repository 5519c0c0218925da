------------------------------- MODULE Stdio -------------------------------
(***************************************************************************)
(* A stream of libc on a file of a server: fgetc, ungetc, fseek and fread  *)
(* (libc/src), whose reads are calls of the interface File.                *)
(*                                                                         *)
(* fgetc fetches up to BufSize bytes at a time and keeps them, reversed,   *)
(* on the stack that ungetc pushes on; current_pos is where the next fetch *)
(* starts.  Calls hold the stream's lock, but fgetc gives it back between  *)
(* its fetch and the call of itself that takes the byte, and ungetc takes  *)
(* no lock at all.                                                         *)
(*                                                                         *)
(* Left out: error codes, whence other than SEEK_SET (no program uses it), *)
(* stdin, which fgetc reads without a buffer, and writing.                 *)
(***************************************************************************)
EXTENDS Integers, SequencesExt

CONSTANTS
  Content,     \* the bytes of the file
  BufSize,     \* __UNGET_SIZE: slots of the stack
  ChunkSize,   \* what fread asks for at a time
  MaxOutput,   \* MAX_OUTPUT_LEN: requests of this size are refused
  Lengths,     \* numbers of bytes programs give to fread
  Callers,     \* the threads of the program
  Usages       \* usage[op] are the threads that call op, for each kind of program

Bytes == {Content[i] : i \in DOMAIN Content}

ASSUME SizeAssumption == {BufSize, ChunkSize, MaxOutput} \cup Lengths \subseteq Nat \ {0}
ASSUME ContentAssumption == Content \in Seq(Bytes)
ASSUME UsageAssumption ==
  Usages \subseteq [{"fgetc", "ungetc", "fseek", "fread"} -> SUBSET Callers]

\* A fetch of fgetc is not so large that the server refuses it.  (A chunk of
\* fread is: both it and the limit are 4096 bytes.)
ASSUME ServedAssumption == BufSize < MaxOutput

\* A stream is read by characters or by blocks, and where one thread pushes
\* characters back no other thread uses it.
ASSUME ProgramAssumption ==
  \A u \in Usages :
    \/ u["fgetc"] = {} /\ u["ungetc"] = {}
    \/ u["fread"] = {} /\ u["ungetc"] = {}
    \/ /\ u["fread"] = {}
       /\ \E t \in Callers : u["fgetc"] \cup u["ungetc"] \cup u["fseek"] \subseteq {t}

VARIABLES
  current_pos,   \* place in the file of the next byte to fetch
  unget_stack,   \* slots 0 .. BufSize - 1
  unget_pos,     \* how many slots are in use
  eof,           \* whether the stream is marked as ended
  usage,         \* what kind of program this is
  call,          \* call[t]: idle, again (in fgetc, unlocked) or push (in ungetc)
  slot,          \* slot[t]: the slot that ungetc of thread t picked
  said           \* said[t]: what the last call of thread t returned

stream == <<current_pos, unget_stack, unget_pos, eof>>
vars == <<stream, usage, call, slot, said>>

Unused == 0
Silence == [end |-> FALSE, bytes |-> <<>>]

\* The File server's answer: how many bytes it returns for a request, or
\* Refused.
Refused == -1
Served(offset, count) ==
  IF count >= MaxOutput \/ offset > Len(Content) THEN Refused
  ELSE Min({count, Len(Content) - offset})

Init ==
  /\ current_pos = 0
  /\ unget_stack = [i \in 0 .. BufSize - 1 |-> Unused]
  /\ unget_pos = 0
  /\ eof = FALSE
  /\ usage \in Usages
  /\ call = [t \in Callers |-> "idle"]
  /\ slot = [t \in Callers |-> 0]
  /\ said = [t \in Callers |-> Silence]

Returns(t, bytes, end) ==
  /\ call' = [call EXCEPT ![t] = "idle"]
  /\ said' = [said EXCEPT ![t] = [end |-> end, bytes |-> bytes]]

-----------------------------------------------------------------------------
\* fgetc with a byte on the stack.
Pop(t) ==
  /\ t \in usage["fgetc"] /\ call[t] \in {"idle", "again"}
  /\ unget_pos > 0
  /\ unget_pos' = unget_pos - 1
  /\ Returns(t, <<unget_stack[unget_pos - 1]>>, FALSE)
  /\ UNCHANGED <<current_pos, unget_stack, eof, slot, usage>>

\* Whether a fetch brought something.  Mutant: no bytes are a success, too.
MutAnyAnswer(cnt) == cnt >= 0
Some(cnt) == cnt > 0

\* What a request for so many bytes brings, be it refused.
Arriving(wanted) ==
  LET cnt == Served(current_pos, wanted)
  IN  SubSeq(Content, current_pos + 1, current_pos + cnt)

\* fgetc with an empty stack: one request, whose bytes the next round takes.
Fetch(t, bytes) ==
  /\ t \in usage["fgetc"] /\ call[t] \in {"idle", "again"}
  /\ unget_pos = 0
  /\ Some(Len(bytes))
  /\ unget_stack' = [i \in DOMAIN unget_stack \cup 0 .. Len(bytes) - 1 |->
                       IF i < Len(bytes) THEN bytes[i + 1] ELSE unget_stack[i]]
  /\ unget_pos' = Len(bytes)
  /\ current_pos' = current_pos + Len(bytes)
  /\ call' = [call EXCEPT ![t] = "again"]
  /\ UNCHANGED <<eof, slot, said, usage>>

\* Mutant: the bytes are not reversed.
MutForward(t) == Fetch(t, Arriving(BufSize))

Fill(t) == Fetch(t, Reverse(Arriving(BufSize)))

\* fgetc when nothing comes, be it the end of the file or a refusal.
FindEnd(t) ==
  /\ t \in usage["fgetc"] /\ call[t] \in {"idle", "again"}
  /\ unget_pos = 0
  /\ ~Some(Len(Arriving(BufSize)))
  /\ eof' = TRUE
  /\ Returns(t, <<>>, TRUE)
  /\ UNCHANGED <<current_pos, unget_stack, unget_pos, slot, usage>>

\* ungetc of the byte that fgetc has just returned (backchar of scheme.c):
\* the place is picked first and written after.
UngetPick(t) ==
  /\ t \in usage["ungetc"] /\ call[t] = "idle"
  /\ Len(said[t].bytes) = 1
  /\ unget_pos < BufSize
  /\ eof' = FALSE
  /\ slot' = [slot EXCEPT ![t] = unget_pos]
  /\ call' = [call EXCEPT ![t] = "push"]
  /\ UNCHANGED <<current_pos, unget_stack, unget_pos, said, usage>>

UngetStore(t) ==
  /\ call[t] = "push"
  /\ unget_stack' = [unget_stack EXCEPT ![slot[t]] = said[t].bytes[1]]
  /\ unget_pos' = slot[t] + 1
  /\ Returns(t, <<>>, FALSE)
  /\ UNCHANGED <<current_pos, eof, slot, usage>>

\* fseek to a place of the file.  eof stays as it is.
\* Mutant: the fetched bytes stay on the stack.
MutSeekKeepsStack(t) ==
  /\ t \in usage["fseek"] /\ call[t] = "idle"
  /\ current_pos' \in 0 .. Len(Content)
  /\ Returns(t, <<>>, FALSE)
  /\ UNCHANGED <<unget_stack, unget_pos, eof, slot, usage>>

Seek(t) ==
  /\ t \in usage["fseek"] /\ call[t] = "idle"
  /\ current_pos' \in 0 .. Len(Content)
  /\ unget_pos' = 0
  /\ Returns(t, <<>>, FALSE)
  /\ UNCHANGED <<unget_stack, eof, slot, usage>>

-----------------------------------------------------------------------------
\* fread of n bytes in chunks: what whole chunks bring until one comes short.
\* A chunk that comes short is dropped and the position stays before it.
Chunks(n) == 0 .. (n - 1) \div ChunkSize
Whole(n, j) ==
  LET size == Min({ChunkSize, n - j * ChunkSize})
  IN  Served(current_pos + j * ChunkSize, size) = size
Elems(n) ==
  Min({n} \cup {j * ChunkSize : j \in {j \in Chunks(n) : ~Whole(n, j)}})

Transfer(t, n, advance) ==
  LET elems == Elems(n) IN
  /\ t \in usage["fread"] /\ call[t] = "idle"
  /\ current_pos' = current_pos + advance
  /\ eof' = (eof \/ elems < n)
  /\ Returns(t, SubSeq(Content, current_pos + 1, current_pos + elems), elems < n)
  /\ UNCHANGED <<unget_stack, unget_pos, slot, usage>>

\* Mutant: the position moves by what was asked for.
MutReadRunsAhead(t) == \E n \in Lengths : Transfer(t, n, n)

Read(t) == \E n \in Lengths : Transfer(t, n, Elems(n))

Next ==
  \E t \in Callers :
    \/ Pop(t) \/ Fill(t) \/ FindEnd(t)
    \/ UngetPick(t) \/ UngetStore(t)
    \/ Seek(t) \/ Read(t)

Spec == Init /\ [][Next]_vars

\* A thread inside a call goes on.
GoesOn(t) == call[t] # "idle" /\ (Pop(t) \/ Fill(t) \/ FindEnd(t) \/ UngetStore(t))
FairSpec == Spec /\ \A t \in Callers : WF_vars(GoesOn(t))

-----------------------------------------------------------------------------
\* The stack is never overrun and the position stays in the file: fgetc asks
\* for no more than there is room for, ungetc and fread keep the bounds.
TypeOK ==
  /\ current_pos \in 0 .. Len(Content)
  /\ unget_stack \in [0 .. BufSize - 1 -> Bytes \cup {Unused}]
  /\ unget_pos \in 0 .. BufSize
  /\ eof \in BOOLEAN
  /\ call \in [Callers -> {"idle", "again", "push"}]
  /\ slot \in [Callers -> 0 .. BufSize - 1]
  /\ \A t \in Callers : said[t].end \in BOOLEAN /\ said[t].bytes \in Seq(Bytes)

\* What is still to come: the stack from its top, then the rest of the file.
\* (A byte that ungetc has not yet stored still belongs to its thread.)
Coming ==
  [i \in 1 .. unget_pos |-> unget_stack[unget_pos - i]]
    \o SubSeq(Content, current_pos + 1, Len(Content))

\* The freads whose first chunk the server refuses.
TooLong == IF ChunkSize < MaxOutput THEN {} ELSE {n \in Lengths : n >= MaxOutput}

Promise == INSTANCE ByteStream
             WITH left <- Coming, said <- said, Threads <- Callers, TooLong <- TooLong

\* The stream implements the byte stream: buffering, pushing back, seeking
\* and reading in chunks neither lose, repeat nor reorder a byte, and the
\* end is reported only where it is, or to an fread of a chunk or more, which
\* brings nothing and moves nothing.
ImplementsByteStream == Promise!Spec

\* "max buffer size for File interface" (fread.c:103): what fread asks for at a
\* time is what a server gives at a time, so that a block is read short only
\* where the file has no more.
ShortOnlyAtTheEnd ==
  [][\A t \in Callers, n \in Lengths :
       Transfer(t, n, Elems(n)) /\ said'[t].end => n > Len(Coming)]_vars

\* Where one thread reads characters, a call that has given the lock back comes
\* to its end: fgetc does not fetch for ever.  (Of two threads, one may take each
\* time what the other has fetched.)
CallsEnd ==
  \A t \in Callers : usage["fgetc"] = {t} /\ call[t] # "idle" ~> call[t] = "idle"

=============================================================================
