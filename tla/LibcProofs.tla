---------------------------- MODULE LibcProofs -----------------------------
(***************************************************************************)
(* Proofs about the lock of mutex.c and try_lock.S, for any set of threads *)
(* and any nesting bound, and about a stream of stdio.c on a file of any   *)
(* size and with any sizes of stack, chunk and request.                    *)
(***************************************************************************)
EXTENDS Mutex, Stdio, SequenceTheorems, WellFoundedInduction, TLAPS

\* The inductive invariant holds in the initial state of mutex_init.
LEMMA InitLockIInv == LockInit => LockIInv
BY ThreadAssumption, DepthAssumption
   DEF LockInit, LockIInv, LockTypeOK, CountIsDepth, Inside, Locations

\* Every instruction of every thread preserves the inductive invariant.
LEMMA NextLockIInv == LockIInv /\ [LockNext]_lockvars => LockIInv'
<1> SUFFICES ASSUME LockIInv, [LockNext]_lockvars PROVE LockIInv'
  OBVIOUS
<1> USE ThreadAssumption, DepthAssumption
    DEF LockIInv, LockTypeOK, CountIsDepth, Inside, Locations, Goto
<1>1. ASSUME NEW t \in Threads, CallLock(t) PROVE LockIInv'
  BY <1>1 DEF CallLock
<1>2. ASSUME NEW t \in Threads, CallUnlock(t) PROVE LockIInv'
  BY <1>2 DEF CallUnlock
<1>3. ASSUME NEW t \in Threads, CompareExchange(t) PROVE LockIInv'
  BY <1>3 DEF CompareExchange
<1>4. ASSUME NEW t \in Threads, CompareHolder(t) PROVE LockIInv'
  BY <1>4 DEF CompareHolder
<1>5. ASSUME NEW t \in Threads, Increment(t) PROVE LockIInv'
  BY <1>5 DEF Increment
<1>6. ASSUME NEW t \in Threads, Decrement(t) PROVE LockIInv'
  BY <1>6 DEF Decrement
<1>7. ASSUME NEW t \in Threads, IfZero(t) PROVE LockIInv'
  BY <1>7 DEF IfZero
<1>8. ASSUME NEW t \in Threads, Release(t) PROVE LockIInv'
  BY <1>8 DEF Release
<1>9. CASE UNCHANGED lockvars
  BY <1>9 DEF lockvars
<1> QED
  BY <1>1, <1>2, <1>3, <1>4, <1>5, <1>6, <1>7, <1>8, <1>9 DEF LockNext, Step

\* The inductive invariant is an invariant of the lock.
LEMMA LockInvariance == LockSpec => []LockIInv
BY InitLockIInv, NextLockIInv, PTL DEF LockSpec

\* The fields of the lock keep their types: the count never goes below zero.
THEOREM LockTypeCorrect == LockSpec => []LockTypeOK
<1>1. LockIInv => LockTypeOK
  BY DEF LockIInv
<1> QED
  BY <1>1, LockInvariance, PTL

\* No two threads are ever between lock and unlock (mutex_lock, mutex_unlock),
\* although try_lock decides by a second read of the holder.
THEOREM Exclusion == LockSpec => []MutualExclusion
<1>1. LockIInv => MutualExclusion
  BY DEF LockIInv, MutualExclusion
<1> QED
  BY <1>1, LockInvariance, PTL

\* The lock's count is the holder's nesting depth (mutex_count_lock and
\* mutex_count_unlock), so the lock is freed exactly by the outermost unlock.
THEOREM CountCorrect == LockSpec => []CountIsDepth
<1>1. LockIInv => CountIsDepth
  BY DEF LockIInv
<1> QED
  BY <1>1, LockInvariance, PTL

\* Every step of the lock is a step of the recursive lock or changes nothing
\* there: mutex_count_lock enters at its count++, mutex_count_unlock leaves
\* at its count--.
LEMMA StepRefines == LockIInv /\ [LockNext]_lockvars => [Abstract!Next]_(Abstract!vars)
<1> SUFFICES ASSUME LockIInv, [LockNext]_lockvars PROVE [Abstract!Next]_(Abstract!vars)
  OBVIOUS
<1> USE ThreadAssumption
    DEF LockIInv, LockTypeOK, CountIsDepth, Inside, Goto, Abstract!vars
<1>1. ASSUME NEW t \in Threads, Increment(t) PROVE Abstract!Enter(t)
  BY <1>1 DEF Increment, Abstract!Enter
<1>2. ASSUME NEW t \in Threads, Decrement(t) PROVE Abstract!Leave(t)
  BY <1>2 DEF Decrement, Abstract!Leave
<1>3. ASSUME NEW t \in Threads,
             CallLock(t) \/ CallUnlock(t) \/ CompareHolder(t) \/ IfZero(t)
      PROVE UNCHANGED Abstract!vars
  BY <1>3 DEF CallLock, CallUnlock, CompareHolder, IfZero
<1>4. ASSUME NEW t \in Threads, CompareExchange(t)
      PROVE UNCHANGED Abstract!vars
  BY <1>4 DEF CompareExchange
<1>5. ASSUME NEW t \in Threads, Release(t)
      PROVE UNCHANGED Abstract!vars
  BY <1>5 DEF Release
<1>6. CASE UNCHANGED lockvars
  BY <1>6 DEF lockvars
<1> QED
  BY <1>1, <1>2, <1>3, <1>4, <1>5, <1>6 DEF LockNext, Step, Abstract!Next

\* The counting lock of the C library implements the recursive lock.
THEOREM LockRefinement == LockSpec => ImplementsRecursiveLock
<1>1. LockInit => Abstract!Init
  BY DEF LockInit, Abstract!Init
<1> QED
  BY <1>1, LockInvariance, StepRefines, PTL DEF LockSpec, ImplementsRecursiveLock, Abstract!Spec

-----------------------------------------------------------------------------
\* The smallest of a set of numbers is one of them.
LEMMA MinOfSet ==
  ASSUME NEW S \in SUBSET Nat, S # {}
  PROVE  Min(S) \in S /\ \A x \in S : Min(S) <= x
<1>1. PICK m \in S : \A x \in S : ~ (<<x, m>> \in OpToRel(<, Nat))
  BY NatLessThanWellFounded, WFMin
<1>2. ASSUME NEW x \in S PROVE m <= x
  <2>1. m \in Nat /\ x \in Nat
    OBVIOUS
  <2>2. ~ (x < m)
    <3>1. <<x, m>> \in Nat \X Nat /\ <<x, m>>[1] = x /\ <<x, m>>[2] = m
      BY <2>1
    <3> QED
      BY <1>1, <3>1 DEF OpToRel
  <2> QED
    BY <2>1, <2>2
<1> QED
  BY <1>2 DEF Min

\* The smaller of two numbers.
LEMMA MinOfTwo ==
  ASSUME NEW a \in Nat, NEW b \in Nat
  PROVE  Min({a, b}) = IF a <= b THEN a ELSE b
<1>1. Min({a, b}) \in {a, b} /\ \A x \in {a, b} : Min({a, b}) <= x
  BY MinOfSet
<1> QED
  BY <1>1

\* A function on 1 .. n is a sequence of length n.
LEMMA FunctionIsSeq ==
  ASSUME NEW S, NEW n \in Nat, NEW f \in [1 .. n -> S]
  PROVE  f \in Seq(S) /\ Len(f) = n
OBVIOUS

\* A byte alone is a sequence of bytes.
LEMMA OneByte ==
  ASSUME NEW b \in Bytes
  PROVE  <<b>> \in Seq(Bytes) /\ Len(<<b>>) = 1 /\ <<b>>[1] = b
OBVIOUS

\* What is to come from a stack of n bytes above a place of the file.
Ahead(stack, n, place) ==
  [i \in 1 .. n |-> stack[n - i]] \o SubSeq(Content, place + 1, Len(Content))

\* The bytes of the file.
LEMMA FileBytes ==
  Len(Content) \in Nat /\ \A i \in 1 .. Len(Content) : Content[i] \in Bytes
BY ContentAssumption, LenProperties, ElementOfSeq

\* A part of the file is a sequence of its bytes.
LEMMA PartOfFile ==
  ASSUME NEW place \in 0 .. Len(Content), NEW k \in 0 .. Len(Content) - place
  PROVE  /\ SubSeq(Content, place + 1, place + k) \in Seq(Bytes)
         /\ Len(SubSeq(Content, place + 1, place + k)) = k
         /\ \A i \in 1 .. k : SubSeq(Content, place + 1, place + k)[i] = Content[place + i]
<1>1. \A i \in place + 1 .. place + k : Content[i] \in Bytes
  BY FileBytes
<1>2. place + 1 \in Int /\ place + k \in Int /\ k \in Nat
  BY FileBytes
<1>3. /\ SubSeq(Content, place + 1, place + k) \in Seq(Bytes)
      /\ Len(SubSeq(Content, place + 1, place + k))
           = IF place + 1 <= place + k THEN (place + k) - (place + 1) + 1 ELSE 0
      /\ \A i \in 1 .. (place + k) - (place + 1) + 1 :
           SubSeq(Content, place + 1, place + k)[i] = Content[(place + 1) + i - 1]
  BY <1>1, <1>2, SubSeqProperties
<1> QED
  BY <1>2, <1>3, FileBytes, SMTT(30)

\* What is to come, byte by byte: the stack from its top, then the file.
LEMMA AheadIs ==
  ASSUME NEW n \in Nat, NEW stack, \A i \in 0 .. n - 1 : stack[i] \in Bytes,
         NEW place \in 0 .. Len(Content)
  PROVE  /\ Ahead(stack, n, place) \in Seq(Bytes)
         /\ Len(Ahead(stack, n, place)) = n + Len(Content) - place
         /\ \A i \in 1 .. n + Len(Content) - place :
              Ahead(stack, n, place)[i]
                = IF i <= n THEN stack[n - i] ELSE Content[place + i - n]
<1> DEFINE top == [i \in 1 .. n |-> stack[n - i]]
           rest == SubSeq(Content, place + 1, Len(Content))
           k == Len(Content) - place
<1>1. top \in Seq(Bytes) /\ Len(top) = n
  <2>1. top \in [1 .. n -> Bytes]
    OBVIOUS
  <2> QED
    BY <2>1, FunctionIsSeq
<1>2. k \in 0 .. Len(Content) - place /\ place + k = Len(Content)
  BY FileBytes
<1>3. rest \in Seq(Bytes) /\ Len(rest) = k /\ \A i \in 1 .. k : rest[i] = Content[place + i]
  BY <1>2, PartOfFile, ZenonT(40)
<1>4. /\ top \o rest \in Seq(Bytes)
      /\ Len(top \o rest) = Len(top) + Len(rest)
      /\ \A i \in 1 .. Len(top) + Len(rest) :
           (top \o rest)[i] = IF i <= Len(top) THEN top[i] ELSE rest[i - Len(top)]
  BY <1>1, <1>3, ConcatProperties
<1>5. \A i \in 1 .. n : top[i] = stack[n - i]
  OBVIOUS
<1>6. Ahead(stack, n, place) = top \o rest
  BY DEF Ahead
<1> HIDE DEF top, rest, k
<1>7. n + Len(Content) - place = n + k /\ k \in Nat /\ k = Len(Content) - place
  BY <1>2, FileBytes DEF k
<1>8. ASSUME NEW i \in 1 .. n + k
      PROVE  (top \o rest)[i] = IF i <= n THEN stack[n - i] ELSE Content[place + i - n]
  <2>1. CASE i <= n
    BY <1>1, <1>3, <1>4, <1>5, <1>7, <2>1
  <2>2. CASE ~ (i <= n)
    <3>1. i - n \in 1 .. k /\ place + (i - n) = place + i - n
      BY <1>7, <2>2
    <3> QED
      BY <1>1, <1>3, <1>4, <1>7, <2>2, <3>1
  <2> QED
    BY <2>1, <2>2
<1> QED
  BY <1>1, <1>3, <1>4, <1>6, <1>7, <1>8

\* What a request brings that is not refused: all, or what the file has left.
LEMMA ServedIs ==
  ASSUME NEW place \in 0 .. Len(Content), NEW asked \in Nat, asked < MaxOutput
  PROVE  Served(place, asked)
           = IF asked <= Len(Content) - place THEN asked ELSE Len(Content) - place
<1>1. MaxOutput \in Nat /\ Len(Content) \in Nat
  BY SizeAssumption, FileBytes
<1>2. Len(Content) - place \in Nat
  BY <1>1
<1>3. Min({asked, Len(Content) - place})
        = IF asked <= Len(Content) - place THEN asked ELSE Len(Content) - place
  BY <1>2, MinOfTwo
<1> QED
  BY <1>1, <1>3 DEF Served

\* How many bytes a fetch brings: none only at the end of the file.
Brought == IF BufSize <= Len(Content) - current_pos
             THEN BufSize ELSE Len(Content) - current_pos

\* A fetch of fgetc and hpf_stdio_read brings the next bytes of the file.
LEMMA ArrivingIs ==
  ASSUME current_pos \in 0 .. Len(Content)
  PROVE  /\ Brought \in 0 .. BufSize
         /\ Brought \in 0 .. Len(Content) - current_pos
         /\ Brought = 0 <=> current_pos = Len(Content)
         /\ Arriving(BufSize) \in Seq(Bytes)
         /\ Len(Arriving(BufSize)) = Brought
         /\ \A i \in 1 .. Brought : Arriving(BufSize)[i] = Content[current_pos + i]
<1>1. BufSize \in Nat \ {0} /\ BufSize < MaxOutput /\ Len(Content) \in Nat
  BY SizeAssumption, ServedAssumption, FileBytes
<1>2. /\ Brought \in 0 .. BufSize /\ Brought \in 0 .. Len(Content) - current_pos
      /\ Brought = 0 <=> current_pos = Len(Content)
  BY <1>1 DEF Brought
<1>3. Served(current_pos, BufSize) = Brought
  BY <1>1, ServedIs DEF Brought
<1>4. Arriving(BufSize) = SubSeq(Content, current_pos + 1, current_pos + Brought)
  BY <1>3 DEF Arriving
<1> QED
  BY <1>2, <1>4, PartOfFile

\* A call that has given the lock back, or that has picked its slot, was made
\* by a thread that makes such calls, and the slot is the one above the stack.
Midway(t) ==
  /\ call[t] = "again" => t \in usage["fgetc"]
  /\ call[t] = "push" =>
       /\ t \in usage["ungetc"]
       /\ slot[t] = unget_pos /\ unget_pos < BufSize
       /\ Len(said[t].bytes) = 1

\* The types of the stream's variables.
StreamTypes ==
  /\ current_pos \in 0 .. Len(Content)
  /\ unget_stack \in [0 .. BufSize - 1 -> Bytes \cup {Unused}]
  /\ unget_pos \in 0 .. BufSize
  /\ eof \in BOOLEAN
  /\ usage \in Usages
  /\ call \in [Callers -> {"idle", "again", "push"}]
  /\ slot \in [Callers -> 0 .. BufSize - 1]
  /\ said \in [Callers -> [end : BOOLEAN, bytes : Seq(Bytes)]]

\* The slots in use hold bytes of the file.
StackHoldsBytes == \A i \in 0 .. unget_pos - 1 : unget_stack[i] \in Bytes

\* The inductive invariant of the stream.
IInv ==
  /\ StreamTypes
  /\ StackHoldsBytes
  /\ usage["fread"] # {} => unget_pos = 0
  /\ \A t \in Callers : Midway(t)

\* While a thread pushes a character back, no other thread is in a call that
\* moves the stack, and nobody reads blocks.
LEMMA PushesAlone ==
  ASSUME IInv, NEW t \in Callers, call[t] = "push"
  PROVE  /\ usage["fread"] = {}
         /\ \A u \in Callers :
              u \in usage["fgetc"] \cup usage["ungetc"] \cup usage["fseek"] => u = t
<1>1. t \in usage["ungetc"] /\ usage \in Usages
  BY DEF IInv, StreamTypes, Midway
<1>2. /\ usage["fread"] = {}
      /\ \E u \in Callers : usage["fgetc"] \cup usage["ungetc"] \cup usage["fseek"] \subseteq {u}
  BY <1>1, ProgramAssumption
<1> QED
  BY <1>1, <1>2

\* So a thread that begins such a call, or goes on with fgetc, finds nobody
\* pushing.
LEMMA NobodyPushes ==
  ASSUME IInv, NEW t \in Callers, call[t] # "push",
         t \in usage["fgetc"] \cup usage["ungetc"] \cup usage["fseek"] \cup usage["fread"]
  PROVE  \A u \in Callers : call[u] # "push"
BY PushesAlone

\* A stream that is read by characters is not read by blocks.
LEMMA NoBlocks ==
  ASSUME IInv, usage["fgetc"] \cup usage["ungetc"] # {}
  PROVE  usage["fread"] = {}
BY ProgramAssumption DEF IInv, StreamTypes

\* The invariant gives the types that are checked.
LEMMA InvariantTypes == IInv => TypeOK
BY DEF IInv, StreamTypes, TypeOK

\* A stream that was just opened (fopen) satisfies the invariant.
LEMMA InitIInv == Init => IInv
<1> SUFFICES ASSUME Init PROVE IInv
  OBVIOUS
<1>1. BufSize \in Nat \ {0} /\ Len(Content) \in Nat
  BY SizeAssumption, FileBytes
<1>2. Silence \in [end : BOOLEAN, bytes : Seq(Bytes)]
  BY EmptySeq DEF Silence
<1>3. said \in [Callers -> [end : BOOLEAN, bytes : Seq(Bytes)]]
  BY <1>2 DEF Init
<1>4. unget_pos = 0 /\ usage \in Usages /\ \A t \in Callers : call[t] = "idle"
  BY DEF Init
<1>5. unget_stack \in [0 .. BufSize - 1 -> Bytes \cup {Unused}]
  BY DEF Init
<1>6. slot \in [Callers -> 0 .. BufSize - 1] /\ call \in [Callers -> {"idle", "again", "push"}]
  BY <1>1 DEF Init
<1>7. current_pos \in 0 .. Len(Content) /\ unget_pos \in 0 .. BufSize /\ eof \in BOOLEAN
  BY <1>1 DEF Init
<1>8. StreamTypes
  BY <1>3, <1>4, <1>5, <1>6, <1>7 DEF StreamTypes
<1> QED
  BY <1>4, <1>8 DEF IInv, Midway, StackHoldsBytes

\* A call that returns answers its thread and no other.
LEMMA ReturnIs ==
  ASSUME IInv, NEW t \in Callers, NEW bytes \in Seq(Bytes), NEW end \in BOOLEAN,
         Returns(t, bytes, end)
  PROVE  /\ said' \in [Callers -> [end : BOOLEAN, bytes : Seq(Bytes)]]
         /\ call' \in [Callers -> {"idle", "again", "push"}]
         /\ call'[t] = "idle"
         /\ \A u \in Callers : u # t => call'[u] = call[u] /\ said'[u] = said[u]
BY DEF IInv, StreamTypes, Returns

\* A character from the stack (fgetc).
LEMMA PopKeeps ==
  ASSUME IInv, NEW t \in Callers, Pop(t)
  PROVE  IInv'
<1> DEFINE top == unget_stack[unget_pos - 1]
<1>1. /\ unget_pos \in 1 .. BufSize /\ BufSize \in Nat /\ unget_pos' = unget_pos - 1
      /\ t \in usage["fgetc"] /\ call[t] # "push"
  BY SizeAssumption DEF Pop, IInv, StreamTypes
<1>2. top \in Bytes
  BY <1>1 DEF IInv, StackHoldsBytes
<1>3. <<top>> \in Seq(Bytes) /\ Returns(t, <<top>>, FALSE)
  <2>1. Returns(t, <<top>>, FALSE)
    BY DEF Pop
  <2> QED
    BY <1>2, <2>1, OneByte
<1>4. /\ said' \in [Callers -> [end : BOOLEAN, bytes : Seq(Bytes)]]
      /\ call' \in [Callers -> {"idle", "again", "push"}]
      /\ call'[t] = "idle"
      /\ \A u \in Callers : u # t => call'[u] = call[u] /\ said'[u] = said[u]
  BY <1>3, ReturnIs
<1>5. \A u \in Callers : call[u] # "push"
  BY <1>1, NobodyPushes
<1>6. usage["fread"] = {}
  BY <1>1, NoBlocks
<1>7. UNCHANGED <<current_pos, unget_stack, eof, slot, usage>>
  BY DEF Pop
<1>8. StreamTypes'
  BY <1>1, <1>4, <1>7 DEF IInv, StreamTypes
<1>9. StackHoldsBytes'
  BY <1>1, <1>7 DEF IInv, StackHoldsBytes
<1>10. ASSUME NEW u \in Callers PROVE Midway(u)'
  BY <1>4, <1>5, <1>7 DEF IInv, Midway
<1> QED
  BY <1>6, <1>7, <1>8, <1>9, <1>10 DEF IInv

\* What a fetch leaves on the stack: its bytes in the opposite order.
LEMMA FetchedIs ==
  ASSUME IInv, NEW t \in Callers, Fill(t)
  PROVE  /\ Brought \in 1 .. BufSize /\ Brought <= Len(Content) - current_pos
         /\ unget_pos = 0 /\ unget_pos' = Brought
         /\ current_pos' = current_pos + Brought
         /\ unget_stack' \in [0 .. BufSize - 1 -> Bytes \cup {Unused}]
         /\ \A i \in 0 .. Brought - 1 :
              unget_stack'[i] = Content[current_pos + Brought - i]
<1> DEFINE bytes == Arriving(BufSize)
           pushed == Reverse(bytes)
<1>1. current_pos \in 0 .. Len(Content) /\ BufSize \in Nat
  BY SizeAssumption DEF IInv, StreamTypes
<1>2. /\ Brought \in 0 .. BufSize
      /\ Brought \in 0 .. Len(Content) - current_pos
      /\ bytes \in Seq(Bytes)
      /\ Len(bytes) = Brought
      /\ \A i \in 1 .. Brought : bytes[i] = Content[current_pos + i]
  BY <1>1, ArrivingIs
<1>3. Fetch(t, pushed)
  BY DEF Fill
<1> HIDE DEF bytes
<1>4. /\ pushed \in [1 .. Brought -> Bytes] /\ Brought \in Nat
      /\ \A i \in 1 .. Brought : pushed[i] = bytes[Brought - i + 1]
  <2>1. pushed = [i \in 1 .. Brought |-> bytes[(Brought - i) + 1]] /\ Brought \in Nat
    BY <1>2 DEF Reverse
  <2>2. \A i \in 1 .. Brought : (Brought - i) + 1 \in 1 .. Brought
    BY <2>1
  <2>3. \A i \in 1 .. Brought : bytes[i] \in Bytes
    BY <1>2, ElementOfSeq
  <2> QED
    BY <2>1, <2>2, <2>3
<1>5. Len(pushed) = Brought
  BY <1>4, FunctionIsSeq
<1> HIDE DEF pushed
<1>6. /\ Brought > 0 /\ unget_pos = 0 /\ unget_pos' = Brought
      /\ current_pos' = current_pos + Brought
      /\ unget_stack' = [i \in DOMAIN unget_stack \cup 0 .. Brought - 1 |->
                          IF i < Brought THEN pushed[i + 1] ELSE unget_stack[i]]
  BY <1>3, <1>5 DEF Fetch, Some
<1>7. DOMAIN unget_stack \cup 0 .. Brought - 1 = 0 .. BufSize - 1
  BY <1>1, <1>2 DEF IInv, StreamTypes
<1>8. \A i \in 0 .. Brought - 1 : unget_stack'[i] = pushed[i + 1]
  BY <1>1, <1>2, <1>6, <1>7
<1>9. ASSUME NEW i \in 0 .. Brought - 1
      PROVE  unget_stack'[i] = Content[current_pos + Brought - i]
  <2>1. i + 1 \in 1 .. Brought /\ Brought - i \in 1 .. Brought
        /\ Brought - (i + 1) + 1 = Brought - i
        /\ current_pos + (Brought - i) = current_pos + Brought - i
    BY <1>1, <1>2
  <2>2. pushed[i + 1] = bytes[Brought - i] /\ bytes[Brought - i] = Content[current_pos + (Brought - i)]
    BY <1>2, <1>4, <2>1
  <2> QED
    BY <1>8, <2>1, <2>2
<1>10. unget_stack' \in [0 .. BufSize - 1 -> Bytes \cup {Unused}]
  <2>1. \A i \in 0 .. BufSize - 1 : i < Brought => i + 1 \in 1 .. Brought
    BY <1>1, <1>2
  <2>2. \A i \in 0 .. BufSize - 1 :
          (IF i < Brought THEN pushed[i + 1] ELSE unget_stack[i]) \in Bytes \cup {Unused}
    BY <1>4, <2>1 DEF IInv, StreamTypes
  <2> QED
    BY <1>6, <1>7, <2>2
<1>11. Brought \in 1 .. BufSize /\ Brought <= Len(Content) - current_pos
  BY <1>2, <1>6, <1>1, FileBytes
<1> QED
  BY <1>6, <1>9, <1>10, <1>11

\* A fetch of fgetc.
LEMMA FillKeeps ==
  ASSUME IInv, NEW t \in Callers, Fill(t)
  PROVE  IInv'
<1>1. /\ Brought \in 1 .. BufSize /\ Brought <= Len(Content) - current_pos
      /\ unget_pos' = Brought /\ current_pos' = current_pos + Brought
      /\ unget_stack' \in [0 .. BufSize - 1 -> Bytes \cup {Unused}]
      /\ \A i \in 0 .. Brought - 1 : unget_stack'[i] = Content[current_pos + Brought - i]
  BY FetchedIs
<1>2. /\ t \in usage["fgetc"] /\ call[t] # "push"
      /\ call' = [call EXCEPT ![t] = "again"]
      /\ UNCHANGED <<eof, slot, said, usage>>
  BY DEF Fill, Fetch
<1>3. current_pos \in 0 .. Len(Content) /\ BufSize \in Nat /\ Len(Content) \in Nat
  BY SizeAssumption, FileBytes DEF IInv, StreamTypes
<1>4. \A u \in Callers : call[u] # "push"
  BY <1>2, NobodyPushes
<1>5. usage["fread"] = {}
  BY <1>2, NoBlocks
<1>6. StreamTypes'
  <2>1. current_pos' \in 0 .. Len(Content) /\ unget_pos' \in 0 .. BufSize
    BY <1>1, <1>3
  <2> QED
    BY <1>1, <1>2, <2>1 DEF IInv, StreamTypes
<1>7. StackHoldsBytes'
  <2>1. \A i \in 0 .. Brought - 1 : current_pos + Brought - i \in 1 .. Len(Content)
    BY <1>1, <1>3
  <2> QED
    BY <1>1, <2>1, FileBytes DEF StackHoldsBytes
<1>8. ASSUME NEW u \in Callers PROVE Midway(u)'
  BY <1>2, <1>4 DEF IInv, StreamTypes, Midway
<1> QED
  BY <1>2, <1>5, <1>6, <1>7, <1>8 DEF IInv

\* The end of the file (fgetc).
LEMMA FindEndKeeps ==
  ASSUME IInv, NEW t \in Callers, FindEnd(t)
  PROVE  IInv'
<1>1. /\ t \in usage["fgetc"] /\ call[t] # "push" /\ eof' = TRUE
      /\ Returns(t, <<>>, TRUE)
      /\ UNCHANGED <<current_pos, unget_stack, unget_pos, slot, usage>>
  BY DEF FindEnd
<1>2. /\ said' \in [Callers -> [end : BOOLEAN, bytes : Seq(Bytes)]]
      /\ call' \in [Callers -> {"idle", "again", "push"}]
      /\ call'[t] = "idle"
      /\ \A u \in Callers : u # t => call'[u] = call[u] /\ said'[u] = said[u]
  BY <1>1, ReturnIs, EmptySeq
<1>3. \A u \in Callers : call[u] # "push"
  BY <1>1, NobodyPushes
<1>4. StreamTypes'
  BY <1>1, <1>2 DEF IInv, StreamTypes
<1>5. ASSUME NEW u \in Callers PROVE Midway(u)'
  BY <1>1, <1>2, <1>3 DEF IInv, Midway
<1> QED
  BY <1>1, <1>4, <1>5 DEF IInv, StackHoldsBytes

\* ungetc picks its slot.
LEMMA UngetPickKeeps ==
  ASSUME IInv, NEW t \in Callers, UngetPick(t)
  PROVE  IInv'
<1>1. /\ t \in usage["ungetc"] /\ call[t] = "idle" /\ Len(said[t].bytes) = 1
      /\ unget_pos < BufSize /\ eof' = FALSE
      /\ slot' = [slot EXCEPT ![t] = unget_pos] /\ call' = [call EXCEPT ![t] = "push"]
      /\ UNCHANGED <<current_pos, unget_stack, unget_pos, said, usage>>
  BY DEF UngetPick
<1>2. \A u \in Callers : call[u] # "push"
  BY <1>1, NobodyPushes
<1>3. unget_pos \in 0 .. BufSize - 1
  <2>1. unget_pos \in 0 .. BufSize /\ BufSize \in Nat
    BY SizeAssumption DEF IInv, StreamTypes
  <2> QED
    BY <1>1, <2>1
<1>4. StreamTypes'
  BY <1>1, <1>3 DEF IInv, StreamTypes
<1>5. ASSUME NEW u \in Callers PROVE Midway(u)'
  BY <1>1, <1>2 DEF IInv, StreamTypes, Midway
<1> QED
  BY <1>1, <1>4, <1>5 DEF IInv, StackHoldsBytes

\* ungetc stores the byte in the slot it picked.
LEMMA UngetStoreKeeps ==
  ASSUME IInv, NEW t \in Callers, UngetStore(t)
  PROVE  IInv'
<1> DEFINE byte == said[t].bytes[1]
<1>1. /\ call[t] = "push" /\ Returns(t, <<>>, FALSE)
      /\ unget_stack' = [unget_stack EXCEPT ![slot[t]] = byte]
      /\ unget_pos' = slot[t] + 1
      /\ UNCHANGED <<current_pos, eof, slot, usage>>
  BY DEF UngetStore
<1>2. slot[t] = unget_pos /\ unget_pos < BufSize /\ Len(said[t].bytes) = 1
  BY <1>1 DEF IInv, Midway
<1>3. byte \in Bytes
  <2>1. said[t].bytes \in Seq(Bytes)
    BY DEF IInv, StreamTypes
  <2> QED
    BY <1>2, <2>1, ElementOfSeq
<1> HIDE DEF byte
<1>4. /\ said' \in [Callers -> [end : BOOLEAN, bytes : Seq(Bytes)]]
      /\ call' \in [Callers -> {"idle", "again", "push"}]
      /\ call'[t] = "idle"
      /\ \A u \in Callers : u # t => call'[u] = call[u] /\ said'[u] = said[u]
  BY <1>1, ReturnIs, EmptySeq
<1>5. usage["fread"] = {} /\ \A u \in Callers : call[u] = "push" => u = t
  <2>1. \A u \in Callers : call[u] = "push" => u \in usage["ungetc"]
    BY DEF IInv, Midway
  <2> QED
    BY <1>1, <2>1, PushesAlone
<1>6. unget_pos \in 0 .. BufSize - 1 /\ unget_pos' = unget_pos + 1 /\ BufSize \in Nat
  BY <1>1, <1>2, SizeAssumption DEF IInv, StreamTypes
<1>7. StreamTypes'
  BY <1>1, <1>2, <1>3, <1>4, <1>6 DEF IInv, StreamTypes
<1>8. StackHoldsBytes'
  BY <1>1, <1>2, <1>3, <1>6 DEF IInv, StreamTypes, StackHoldsBytes
<1>9. ASSUME NEW u \in Callers PROVE Midway(u)'
  BY <1>1, <1>4, <1>5 DEF IInv, Midway
<1> QED
  BY <1>1, <1>5, <1>7, <1>8, <1>9 DEF IInv

\* fseek drops what is on the stack.
LEMMA SeekKeeps ==
  ASSUME IInv, NEW t \in Callers, Seek(t)
  PROVE  IInv'
<1>1. /\ t \in usage["fseek"] /\ call[t] = "idle" /\ Returns(t, <<>>, FALSE)
      /\ current_pos' \in 0 .. Len(Content) /\ unget_pos' = 0
      /\ UNCHANGED <<unget_stack, eof, slot, usage>>
  BY DEF Seek
<1>2. /\ said' \in [Callers -> [end : BOOLEAN, bytes : Seq(Bytes)]]
      /\ call' \in [Callers -> {"idle", "again", "push"}]
      /\ call'[t] = "idle"
      /\ \A u \in Callers : u # t => call'[u] = call[u] /\ said'[u] = said[u]
  BY <1>1, ReturnIs, EmptySeq
<1>3. \A u \in Callers : call[u] # "push"
  BY <1>1, NobodyPushes
<1>4. StreamTypes'
  BY <1>1, <1>2, SizeAssumption DEF IInv, StreamTypes
<1>5. ASSUME NEW u \in Callers PROVE Midway(u)'
  BY <1>1, <1>2, <1>3 DEF IInv, Midway
<1> QED
  BY <1>1, <1>4, <1>5 DEF IInv, StackHoldsBytes

\* Division: the quotient and what it leaves.
LEMMA Divided ==
  ASSUME NEW a \in Nat, NEW b \in Nat \ {0}
  PROVE  /\ a \div b \in Nat
         /\ (a \div b) * b <= a
         /\ a < (a \div b) * b + b
OBVIOUS

\* Multiples of b lie at least b apart.
LEMMA Apart ==
  ASSUME NEW b \in Nat, NEW x \in Nat, NEW y \in Nat
  PROVE  /\ x * b \in Nat
         /\ x <= y => x * b <= y * b
         /\ x < y => x * b + b <= y * b
<1>1. x * b \in Nat
  OBVIOUS
<1>2. ASSUME x <= y PROVE x * b <= y * b /\ (x < y => x * b + b <= y * b)
  <2>1. PICK d \in Nat : y = x + d
    <3>1. y - x \in Nat /\ y = x + (y - x)
      BY <1>2
    <3> QED
      BY <3>1
  <2>2. y * b = x * b + d * b /\ d * b \in Nat
    BY <2>1
  <2>3. x < y => d * b >= b
    <3>1. ASSUME x < y PROVE d * b >= b
      <4>1. PICK e \in Nat : d = e + 1
        <5>1. d - 1 \in Nat /\ d = (d - 1) + 1
          BY <2>1, <3>1
        <5> QED
          BY <5>1
      <4>2. d * b = e * b + b /\ e * b \in Nat
        BY <4>1
      <4> QED
        BY <4>2
    <3> QED
      BY <3>1
  <2> QED
    BY <1>1, <2>2, <2>3
<1> QED
  BY <1>1, <1>2

\* The chunks of fread begin before the bytes asked for end.
LEMMA ChunkBegins ==
  ASSUME NEW n \in Lengths, NEW j \in Chunks(n)
  PROVE  j \in Nat /\ j * ChunkSize \in 0 .. n - 1
<1>1. n - 1 \in Nat /\ ChunkSize \in Nat \ {0}
  BY SizeAssumption
<1> DEFINE q == (n - 1) \div ChunkSize
<1>2. q \in Nat /\ q * ChunkSize <= n - 1
  BY <1>1, Divided
<1>3. j \in 0 .. q
  BY DEF Chunks
<1> HIDE DEF q
<1>4. j \in Nat /\ j <= q
  BY <1>2, <1>3
<1>5. j * ChunkSize \in Nat /\ j * ChunkSize <= q * ChunkSize /\ q * ChunkSize \in Nat
  BY <1>1, <1>2, <1>4, Apart
<1> QED
  BY <1>1, <1>2, <1>4, <1>5

\* How much the j-th chunk asks for.
Asked(n, j) == IF ChunkSize <= n - j * ChunkSize THEN ChunkSize ELSE n - j * ChunkSize

\* A chunk that is not refused comes whole exactly when the file has all of it.
LEMMA WholeIs ==
  ASSUME current_pos \in 0 .. Len(Content), NEW n \in Lengths \ TooLong, NEW j \in Chunks(n)
  PROVE  /\ Asked(n, j) \in Nat
         /\ j * ChunkSize + Asked(n, j) <= n
         /\ Whole(n, j) <=> j * ChunkSize + Asked(n, j) <= Len(Content) - current_pos
<1> DEFINE start == j * ChunkSize
           size == IF ChunkSize <= n - start THEN ChunkSize ELSE n - start
<1>1. start \in 0 .. n - 1
  BY ChunkBegins
<1>2. Min({ChunkSize, n - start}) = size
  <2>1. ChunkSize \in Nat /\ n - start \in Nat
    BY <1>1, SizeAssumption
  <2> QED
    BY <2>1, MinOfTwo
<1>3. Asked(n, j) = size
  BY DEF Asked
<1>4. Whole(n, j) <=> Served(current_pos + start, size) = size
  BY <1>2 DEF Whole
<1> HIDE DEF start
<1>5. size \in Nat \ {0} /\ size < MaxOutput /\ start + size <= n
  <2>1. ChunkSize \in Nat \ {0} /\ n \in Nat \ {0} /\ MaxOutput \in Nat
    BY SizeAssumption
  <2>2. ChunkSize < MaxOutput \/ n < MaxOutput
    BY <2>1 DEF TooLong
  <2> QED
    BY <1>1, <2>1, <2>2
<1> HIDE DEF size
<1>6. Len(Content) \in Nat /\ start \in Nat
  BY <1>1, FileBytes
<1>7. Served(current_pos + start, size) = size <=> start + size <= Len(Content) - current_pos
  <2>1. CASE current_pos + start \in 0 .. Len(Content)
    BY <1>5, <1>6, <2>1, ServedIs
  <2>2. CASE current_pos + start > Len(Content)
    BY <1>5, <1>6, <2>2 DEF Served, Refused
  <2> QED
    BY <1>6, <2>1, <2>2
<1> QED
  BY <1>3, <1>4, <1>5, <1>7 DEF start

\* An fread that is not refused brings all it was asked for where the file has
\* it, and else no more than the file has.
LEMMA ElemsIs ==
  ASSUME current_pos \in 0 .. Len(Content), NEW n \in Lengths \ TooLong
  PROVE  /\ Elems(n) \in 0 .. n
         /\ n <= Len(Content) - current_pos => Elems(n) = n
         /\ n > Len(Content) - current_pos => Elems(n) <= Len(Content) - current_pos
<1> DEFINE left == Len(Content) - current_pos
           Short == {j \in Chunks(n) : ~Whole(n, j)}
           S == {n} \cup {j * ChunkSize : j \in Short}
<1>1. n \in Nat \ {0} /\ ChunkSize \in Nat \ {0} /\ left \in Nat
  BY SizeAssumption, FileBytes
<1>2. \A j \in Chunks(n) : j * ChunkSize \in 0 .. n - 1
  BY ChunkBegins
<1>3. Elems(n) \in S /\ \A x \in S : Elems(n) <= x
  <2>1. S \in SUBSET Nat /\ S # {}
    BY <1>1, <1>2
  <2>2. Elems(n) = Min(S)
    BY DEF Elems
  <2> HIDE DEF S
  <2> QED
    BY <2>1, <2>2, MinOfSet
<1>4. Elems(n) \in 0 .. n
  BY <1>1, <1>2, <1>3
<1>5. ASSUME n <= left PROVE Elems(n) = n
  <2>1. ASSUME NEW j \in Chunks(n) PROVE Whole(n, j)
    <3>1. /\ Asked(n, j) \in Nat /\ j * ChunkSize + Asked(n, j) <= n
          /\ Whole(n, j) <=> j * ChunkSize + Asked(n, j) <= left
      BY WholeIs
    <3>2. j * ChunkSize \in Nat
      BY <1>2
    <3> QED
      BY <1>1, <1>5, <3>1, <3>2
  <2>2. S = {n}
    BY <2>1
  <2> QED
    BY <1>3, <2>2
<1>6. ASSUME n > left PROVE Elems(n) <= left
  <2> DEFINE j == left \div ChunkSize
             q == (n - 1) \div ChunkSize
  <2> HIDE DEF left
  <2>1. j \in Nat /\ j * ChunkSize <= left /\ left < j * ChunkSize + ChunkSize
    BY <1>1, Divided
  <2>2. q \in Nat /\ n - 1 < q * ChunkSize + ChunkSize
    BY <1>1, Divided
  <2>3. j <= q
    <3> HIDE DEF j, q
    <3>1. SUFFICES ASSUME q < j PROVE FALSE
      BY <2>1, <2>2
    <3>2. /\ q * ChunkSize \in Nat /\ j * ChunkSize \in Nat
          /\ q * ChunkSize + ChunkSize <= j * ChunkSize
      BY <1>1, <2>1, <2>2, <3>1, Apart
    <3> QED
      BY <1>1, <1>6, <2>1, <2>2, <3>2
  <2>4. j \in Chunks(n)
    BY <2>1, <2>2, <2>3 DEF Chunks
  <2> HIDE DEF j
  <2>5. ~Whole(n, j)
    <3>1. Whole(n, j) <=> j * ChunkSize + Asked(n, j) <= left
      BY <2>4, WholeIs DEF left
    <3>2. j * ChunkSize \in Nat
      BY <1>2, <2>4
    <3> HIDE DEF q
    <3> QED
      BY <1>1, <1>6, <2>1, <3>1, <3>2 DEF Asked
  <2>6. j * ChunkSize \in S
    BY <2>4, <2>5
  <2>7. j * ChunkSize \in Nat
    BY <1>2, <2>4
  <2>8. Elems(n) <= j * ChunkSize
    BY <1>3, <2>6
  <2> QED
    BY <1>1, <1>4, <2>1, <2>7, <2>8
<1> QED
  BY <1>4, <1>5, <1>6

\* An fread whose chunks are refused brings nothing.
LEMMA RefusedIs ==
  ASSUME NEW n \in TooLong
  PROVE  Elems(n) = 0
<1>1. /\ n \in Lengths /\ n \in Nat \ {0} /\ ChunkSize \in Nat \ {0} /\ MaxOutput \in Nat
      /\ MaxOutput <= n /\ MaxOutput <= ChunkSize
  BY SizeAssumption DEF TooLong
<1> DEFINE S == {n} \cup {j * ChunkSize : j \in {j \in Chunks(n) : ~Whole(n, j)}}
           size == Min({ChunkSize, n - 0 * ChunkSize})
<1>2. 0 \in Chunks(n) /\ 0 * ChunkSize = 0 /\ n - 0 = n
  BY <1>1, Divided DEF Chunks
<1>3. ~Whole(n, 0)
  <2>1. size \in Nat /\ size >= MaxOutput
    <3>1. size = IF ChunkSize <= n THEN ChunkSize ELSE n
      BY <1>1, <1>2, MinOfTwo
    <3> HIDE DEF size
    <3> QED
      BY <1>1, <3>1
  <2>2. Whole(n, 0) <=> Served(current_pos + 0 * ChunkSize, size) = size
    BY DEF Whole
  <2> HIDE DEF size
  <2> QED
    BY <1>1, <2>1, <2>2 DEF Served, Refused
<1>4. 0 \in S
  BY <1>2, <1>3
<1>5. S \in SUBSET Nat
  <2>1. \A j \in Chunks(n) : j * ChunkSize \in 0 .. n - 1
    BY <1>1, ChunkBegins
  <2> QED
    BY <1>1, <2>1
<1>6. Elems(n) = Min(S)
  BY DEF Elems
<1> HIDE DEF S
<1>7. Elems(n) \in S /\ \A x \in S : Elems(n) <= x
  BY <1>4, <1>5, <1>6, MinOfSet
<1>8. Elems(n) \in Nat /\ Elems(n) <= 0
  BY <1>4, <1>5, <1>7
<1> QED
  BY <1>8

\* What fread of n bytes does, and what it returns.
LEMMA TransferIs ==
  ASSUME IInv, NEW t \in Callers, NEW n \in Lengths, Transfer(t, n, Elems(n))
  PROVE  /\ t \in usage["fread"] /\ call[t] = "idle" /\ unget_pos = 0
         /\ current_pos' = current_pos + Elems(n)
         /\ Elems(n) \in 0 .. Len(Content) - current_pos
         /\ SubSeq(Content, current_pos + 1, current_pos + Elems(n)) \in Seq(Bytes)
         /\ Returns(t, SubSeq(Content, current_pos + 1, current_pos + Elems(n)), Elems(n) < n)
         /\ eof' = (eof \/ Elems(n) < n)
         /\ UNCHANGED <<unget_stack, unget_pos, slot, usage>>
<1>1. /\ t \in usage["fread"] /\ call[t] = "idle"
      /\ current_pos' = current_pos + Elems(n)
      /\ Returns(t, SubSeq(Content, current_pos + 1, current_pos + Elems(n)), Elems(n) < n)
      /\ eof' = (eof \/ Elems(n) < n)
      /\ UNCHANGED <<unget_stack, unget_pos, slot, usage>>
  BY DEF Transfer
<1>2. unget_pos = 0
  BY <1>1 DEF IInv
<1>3. current_pos \in 0 .. Len(Content)
  BY DEF IInv, StreamTypes
<1>4. Elems(n) \in 0 .. Len(Content) - current_pos
  <2>1. n \in Nat /\ Len(Content) - current_pos \in Nat
    BY <1>3, SizeAssumption, FileBytes
  <2>2. CASE n \in TooLong
    BY <2>1, <2>2, RefusedIs
  <2>3. CASE n \notin TooLong
    <3>1. /\ Elems(n) \in 0 .. n
          /\ n <= Len(Content) - current_pos => Elems(n) = n
          /\ n > Len(Content) - current_pos => Elems(n) <= Len(Content) - current_pos
      BY <1>3, <2>3, ElemsIs
    <3> QED
      BY <2>1, <3>1
  <2> QED
    BY <2>2, <2>3
<1>5. SubSeq(Content, current_pos + 1, current_pos + Elems(n)) \in Seq(Bytes)
  BY <1>3, <1>4, PartOfFile
<1> QED
  BY <1>1, <1>2, <1>4, <1>5

\* Reading blocks.
LEMMA ReadKeeps ==
  ASSUME IInv, NEW t \in Callers, NEW n \in Lengths, Transfer(t, n, Elems(n))
  PROVE  IInv'
<1> DEFINE bytes == SubSeq(Content, current_pos + 1, current_pos + Elems(n))
           end == Elems(n) < n
<1>1. /\ t \in usage["fread"] /\ call[t] = "idle" /\ unget_pos = 0
      /\ current_pos' = current_pos + Elems(n)
      /\ Elems(n) \in 0 .. Len(Content) - current_pos
      /\ bytes \in Seq(Bytes) /\ Returns(t, bytes, end)
      /\ eof' = (eof \/ end)
      /\ UNCHANGED <<unget_stack, unget_pos, slot, usage>>
  BY TransferIs
<1>2. end \in BOOLEAN
  OBVIOUS
<1> HIDE DEF bytes, end
<1>3. /\ said' \in [Callers -> [end : BOOLEAN, bytes : Seq(Bytes)]]
      /\ call' \in [Callers -> {"idle", "again", "push"}]
      /\ call'[t] = "idle"
      /\ \A u \in Callers : u # t => call'[u] = call[u] /\ said'[u] = said[u]
  BY <1>1, <1>2, ReturnIs
<1>4. \A u \in Callers : call[u] # "push"
  BY <1>1, NobodyPushes
<1>5. StreamTypes'
  <2>1. current_pos' \in 0 .. Len(Content)
    <3>1. current_pos \in 0 .. Len(Content) /\ Len(Content) \in Nat
      BY FileBytes DEF IInv, StreamTypes
    <3> QED
      BY <1>1, <3>1
  <2>2. eof' \in BOOLEAN
    BY <1>1, <1>2 DEF IInv, StreamTypes
  <2> QED
    BY <1>1, <1>3, <2>1, <2>2 DEF IInv, StreamTypes
<1>6. ASSUME NEW u \in Callers PROVE Midway(u)'
  BY <1>1, <1>3, <1>4 DEF IInv, Midway
<1> QED
  BY <1>1, <1>5, <1>6 DEF IInv, StackHoldsBytes

\* Every step of every thread preserves the invariant.
LEMMA NextIInv == IInv /\ [Next]_vars => IInv'
<1> SUFFICES ASSUME IInv, [Next]_vars PROVE IInv'
  OBVIOUS
<1>1. CASE UNCHANGED vars
  BY <1>1 DEF vars, stream, IInv, StreamTypes, StackHoldsBytes, Midway
<1>2. CASE Next
  <2>1. PICK t \in Callers :
          \/ Pop(t) \/ Fill(t) \/ FindEnd(t)
          \/ UngetPick(t) \/ UngetStore(t)
          \/ Seek(t) \/ Read(t)
    BY <1>2 DEF Next
  <2>2. CASE Read(t)
    BY <2>2, ReadKeeps DEF Read
  <2> QED
    BY <2>1, <2>2, PopKeeps, FillKeeps, FindEndKeeps, UngetPickKeeps,
       UngetStoreKeeps, SeekKeeps
<1> QED
  BY <1>1, <1>2

\* So it holds in every reachable state.
LEMMA StreamInvariance == Spec => []IInv
BY InitIInv, NextIInv, PTL DEF Spec

\* fgetc and ungetc never write outside the stack of a stream, and its position
\* stays within the file, whatever the sizes.
THEOREM StreamTypeCorrect == Spec => []TypeOK
BY InvariantTypes, StreamInvariance, PTL

\* What is still to come, byte by byte, before a step and after it.
LEMMA ComingIs ==
  ASSUME IInv, IInv'
  PROVE  /\ Coming \in Seq(Bytes)
         /\ Len(Coming) = unget_pos + Len(Content) - current_pos
         /\ \A i \in 1 .. unget_pos + Len(Content) - current_pos :
              Coming[i] = IF i <= unget_pos THEN unget_stack[unget_pos - i]
                          ELSE Content[current_pos + i - unget_pos]
         /\ Coming' \in Seq(Bytes)
         /\ Len(Coming') = unget_pos' + Len(Content) - current_pos'
         /\ \A i \in 1 .. unget_pos' + Len(Content) - current_pos' :
              Coming'[i] = IF i <= unget_pos' THEN unget_stack'[unget_pos' - i]
                           ELSE Content[current_pos' + i - unget_pos']
<1>1. /\ unget_pos \in Nat /\ current_pos \in 0 .. Len(Content)
      /\ \A i \in 0 .. unget_pos - 1 : unget_stack[i] \in Bytes
  BY SizeAssumption DEF IInv, StreamTypes, StackHoldsBytes
<1>2. /\ unget_pos' \in Nat /\ current_pos' \in 0 .. Len(Content)
      /\ \A i \in 0 .. unget_pos' - 1 : unget_stack'[i] \in Bytes
  <2>1. unget_pos' \in 0 .. BufSize /\ current_pos' \in 0 .. Len(Content)
    BY DEF IInv, StreamTypes
  <2>2. \A i \in 0 .. unget_pos' - 1 : unget_stack'[i] \in Bytes
    BY DEF IInv, StackHoldsBytes
  <2>3. unget_pos' \in Nat
    BY <2>1, SizeAssumption
  <2> QED
    BY <2>1, <2>2, <2>3
<1>3. Coming = Ahead(unget_stack, unget_pos, current_pos)
  BY DEF Coming, Ahead
<1>4. Coming' = Ahead(unget_stack', unget_pos', current_pos')
  BY DEF Coming, Ahead
<1>5. /\ Coming \in Seq(Bytes)
      /\ Len(Coming) = unget_pos + Len(Content) - current_pos
      /\ \A i \in 1 .. unget_pos + Len(Content) - current_pos :
           Coming[i] = IF i <= unget_pos THEN unget_stack[unget_pos - i]
                       ELSE Content[current_pos + i - unget_pos]
  BY <1>1, <1>3, AheadIs
<1>6. /\ Coming' \in Seq(Bytes)
      /\ Len(Coming') = unget_pos' + Len(Content) - current_pos'
      /\ \A i \in 1 .. unget_pos' + Len(Content) - current_pos' :
           Coming'[i] = IF i <= unget_pos' THEN unget_stack'[unget_pos' - i]
                        ELSE Content[current_pos' + i - unget_pos']
  BY <1>2, <1>4, AheadIs
<1> QED
  BY <1>5, <1>6

\* The first k bytes of a sequence.
LEMMA FirstBytes ==
  ASSUME NEW s \in Seq(Bytes), NEW k \in 0 .. Len(s), NEW got \in Seq(Bytes),
         Len(got) = k, \A i \in 1 .. k : got[i] = s[i]
  PROVE  got = SubSeq(s, 1, k)
<1>1. Len(s) \in Nat /\ \A i \in 1 .. Len(s) : s[i] \in Bytes
  BY LenProperties, ElementOfSeq
<1>2. k \in Nat /\ \A i \in 1 .. k : s[i] \in Bytes
  BY <1>1
<1>3. /\ SubSeq(s, 1, k) \in Seq(Bytes)
      /\ Len(SubSeq(s, 1, k)) = IF 1 <= k THEN k - 1 + 1 ELSE 0
      /\ \A i \in 1 .. k - 1 + 1 : SubSeq(s, 1, k)[i] = s[1 + i - 1]
  BY <1>2, SubSeqProperties
<1>4. Len(SubSeq(s, 1, k)) = k /\ \A i \in 1 .. k : SubSeq(s, 1, k)[i] = s[i]
  BY <1>2, <1>3
<1> QED
  BY <1>3, <1>4, SeqEqual

\* What is left of a sequence when its first k bytes are gone.
LEMMA OtherBytes ==
  ASSUME NEW s \in Seq(Bytes), NEW k \in 0 .. Len(s), NEW rest \in Seq(Bytes),
         Len(rest) = Len(s) - k, \A i \in 1 .. Len(s) - k : rest[i] = s[k + i]
  PROVE  rest = SubSeq(s, k + 1, Len(s))
<1> DEFINE n == Len(s)
           sub == SubSeq(s, k + 1, n)
<1>1. n \in Nat /\ \A i \in 1 .. n : s[i] \in Bytes
  BY LenProperties, ElementOfSeq
<1>2. k + 1 \in Int /\ n \in Int /\ \A i \in k + 1 .. n : s[i] \in Bytes
  BY <1>1
<1> HIDE DEF n
<1>3. /\ sub \in Seq(Bytes)
      /\ Len(sub) = IF k + 1 <= n THEN n - (k + 1) + 1 ELSE 0
      /\ \A i \in 1 .. n - (k + 1) + 1 : sub[i] = s[(k + 1) + i - 1]
  BY <1>2, SubSeqProperties
<1> HIDE DEF sub
<1>4. k \in 0 .. n
  BY DEF n
<1>5. Len(sub) = n - k /\ \A i \in 1 .. n - k : sub[i] = s[k + i]
  BY <1>1, <1>3, <1>4
<1>6. Len(rest) = n - k /\ \A i \in 1 .. n - k : rest[i] = s[k + i]
  BY DEF n
<1>7. rest = sub
  BY <1>3, <1>5, <1>6, SeqEqual
<1> QED
  BY <1>7 DEF sub, n

\* The character that fgetc takes from the stack is the next byte.
LEMMA PopRefines ==
  ASSUME IInv, IInv', NEW t \in Callers, Pop(t)
  PROVE  Promise!Get(t)
<1> DEFINE top == unget_stack[unget_pos - 1]
<1>1. /\ unget_pos > 0 /\ unget_pos' = unget_pos - 1
      /\ said' = [said EXCEPT ![t] = [end |-> FALSE, bytes |-> <<top>>]]
      /\ UNCHANGED <<current_pos, unget_stack>>
  BY DEF Pop, Returns
<1>2. unget_pos \in Nat \ {0} /\ current_pos \in 0 .. Len(Content) /\ Len(Content) \in Nat
  BY <1>1, FileBytes, SizeAssumption DEF IInv, StreamTypes
<1>3. Len(Coming) \in Nat /\ 1 \in 0 .. Len(Coming) /\ Coming \in Seq(Bytes)
  BY <1>2, ComingIs
<1>4. top \in Bytes /\ Coming[1] = top
  <2>1. unget_pos - 1 \in 0 .. unget_pos - 1 /\ 1 \in 1 .. unget_pos + Len(Content) - current_pos
    BY <1>2
  <2>2. Coming[1] = unget_stack[unget_pos - 1]
    BY <1>2, <2>1, ComingIs
  <2> QED
    BY <2>1, <2>2 DEF IInv, StackHoldsBytes
<1> HIDE DEF top
<1>5. <<top>> = SubSeq(Coming, 1, 1)
  <2>1. <<top>> \in Seq(Bytes) /\ Len(<<top>>) = 1 /\ <<top>>[1] = top
    BY <1>4, OneByte
  <2>2. \A i \in 1 .. 1 : <<top>>[i] = Coming[i]
    BY <1>4, <2>1
  <2> QED
    BY <1>3, <2>1, <2>2, FirstBytes
<1>6. Coming' = SubSeq(Coming, 1 + 1, Len(Coming))
  <2>1. Coming' \in Seq(Bytes) /\ Len(Coming') = Len(Coming) - 1
    BY <1>1, <1>2, ComingIs
  <2>2. ASSUME NEW i \in 1 .. Len(Coming) - 1
        PROVE  Coming'[i] = Coming[1 + i]
    <3>1. /\ i \in 1 .. unget_pos' + Len(Content) - current_pos'
          /\ 1 + i \in 1 .. unget_pos + Len(Content) - current_pos
          /\ i <= unget_pos' <=> 1 + i <= unget_pos
          /\ unget_pos' - i = unget_pos - (1 + i)
          /\ current_pos' + i - unget_pos' = current_pos + (1 + i) - unget_pos
      BY <1>1, <1>2, ComingIs
    <3>2. Coming'[i] = IF i <= unget_pos' THEN unget_stack'[unget_pos' - i]
                       ELSE Content[current_pos' + i - unget_pos']
      BY <3>1, ComingIs
    <3>3. Coming[1 + i] = IF 1 + i <= unget_pos THEN unget_stack[unget_pos - (1 + i)]
                          ELSE Content[current_pos + (1 + i) - unget_pos]
      BY <3>1, ComingIs
    <3> QED
      BY <1>1, <3>1, <3>2, <3>3
  <2> QED
    BY <1>3, <2>1, <2>2, OtherBytes
<1>7. Coming # <<>>
  BY <1>3, EmptySeq
<1> QED
  BY <1>1, <1>5, <1>6, <1>7 DEF Promise!Get, Promise!Take

\* A fetch of fgetc moves bytes from the file to the stack: the same bytes are
\* to come, in the same order.
LEMMA FillRefines ==
  ASSUME IInv, IInv', NEW t \in Callers, Fill(t)
  PROVE  UNCHANGED Promise!vars
<1>1. /\ Brought \in 1 .. BufSize /\ Brought <= Len(Content) - current_pos
      /\ unget_pos = 0 /\ unget_pos' = Brought
      /\ current_pos' = current_pos + Brought
      /\ \A i \in 0 .. Brought - 1 : unget_stack'[i] = Content[current_pos + Brought - i]
  BY FetchedIs
<1>2. current_pos \in 0 .. Len(Content) /\ Len(Content) \in Nat /\ Brought \in Nat
  BY <1>1, FileBytes, SizeAssumption DEF IInv, StreamTypes
<1>3. /\ Coming \in Seq(Bytes) /\ Coming' \in Seq(Bytes)
      /\ Len(Coming) = Len(Content) - current_pos /\ Len(Coming') = Len(Coming)
  BY <1>1, <1>2, ComingIs
<1>4. ASSUME NEW i \in 1 .. Len(Coming)
      PROVE  Coming[i] = Coming'[i]
  <2>1. /\ i \in 1 .. unget_pos + Len(Content) - current_pos
        /\ i \in 1 .. unget_pos' + Len(Content) - current_pos'
        /\ ~ (i <= unget_pos) /\ i \in Nat
    BY <1>1, <1>2, <1>3
  <2>2. Coming[i] = Content[current_pos + i - unget_pos]
    BY <2>1, ComingIs
  <2>3. Coming'[i] = IF i <= unget_pos' THEN unget_stack'[unget_pos' - i]
                     ELSE Content[current_pos' + i - unget_pos']
    BY <2>1, ComingIs
  <2>4. current_pos + i - unget_pos = current_pos + i
    BY <1>1, <1>2, <2>1
  <2>5. CASE i <= Brought
    <3>1. Brought - i \in 0 .. Brought - 1
          /\ current_pos + Brought - (Brought - i) = current_pos + i
      BY <1>2, <2>1, <2>5
    <3> QED
      BY <1>1, <2>2, <2>3, <2>4, <2>5, <3>1
  <2>6. CASE ~ (i <= Brought)
    <3>1. (current_pos + Brought) + i - Brought = current_pos + i
      BY <1>2, <2>1
    <3> QED
      BY <1>1, <2>2, <2>3, <2>4, <2>6, <3>1
  <2> QED
    BY <2>5, <2>6
<1>5. Coming' = Coming
  BY <1>3, <1>4, SeqEqual
<1>6. said' = said
  BY DEF Fill, Fetch
<1> QED
  BY <1>5, <1>6 DEF Promise!vars

\* fgetc reports the end only where nothing is to come.
LEMMA FindEndRefines ==
  ASSUME IInv, IInv', NEW t \in Callers, FindEnd(t)
  PROVE  Promise!End(t)
<1>1. /\ unget_pos = 0 /\ ~Some(Len(Arriving(BufSize)))
      /\ said' = [said EXCEPT ![t] = [end |-> TRUE, bytes |-> <<>>]]
      /\ UNCHANGED <<current_pos, unget_stack, unget_pos>>
  BY DEF FindEnd, Returns
<1>2. current_pos \in 0 .. Len(Content) /\ Len(Content) \in Nat /\ BufSize \in Nat
  BY FileBytes, SizeAssumption DEF IInv, StreamTypes
<1>3. /\ Brought \in 0 .. BufSize /\ Len(Arriving(BufSize)) = Brought
      /\ Brought = 0 <=> current_pos = Len(Content)
  BY <1>2, ArrivingIs
<1>4. current_pos = Len(Content)
  BY <1>1, <1>2, <1>3 DEF Some
<1>5. Coming \in Seq(Bytes) /\ Len(Coming) = 0
  BY <1>1, <1>2, <1>4, ComingIs
<1>6. Coming = <<>>
  BY <1>5, EmptySeq
<1>7. Coming' = Coming
  BY <1>1 DEF Coming
<1> QED
  BY <1>1, <1>6, <1>7 DEF Promise!End

\* The byte that ungetc stores is the next to come.
LEMMA UngetStoreRefines ==
  ASSUME IInv, IInv', NEW t \in Callers, UngetStore(t)
  PROVE  Promise!Unget(t)
<1> DEFINE byte == said[t].bytes[1]
           back == said[t].bytes
<1>1. /\ call[t] = "push"
      /\ unget_stack' = [unget_stack EXCEPT ![slot[t]] = byte]
      /\ unget_pos' = slot[t] + 1
      /\ said' = [said EXCEPT ![t] = [end |-> FALSE, bytes |-> <<>>]]
      /\ UNCHANGED current_pos
  BY DEF UngetStore, Returns
<1>2. slot[t] = unget_pos /\ unget_pos < BufSize /\ Len(back) = 1
  BY <1>1 DEF IInv, Midway
<1>3. back \in Seq(Bytes)
  BY DEF IInv, StreamTypes
<1>4. byte = back[1]
  OBVIOUS
<1> HIDE DEF byte
<1>5. /\ unget_pos \in 0 .. BufSize - 1 /\ unget_pos' = unget_pos + 1 /\ BufSize \in Nat
      /\ current_pos \in 0 .. Len(Content) /\ Len(Content) \in Nat
  <2>1. unget_pos \in 0 .. BufSize /\ BufSize \in Nat /\ current_pos \in 0 .. Len(Content)
    BY SizeAssumption DEF IInv, StreamTypes
  <2> QED
    BY <1>1, <1>2, <2>1, FileBytes
<1>6. \A j \in 0 .. BufSize - 1 :
        unget_stack'[j] = IF j = unget_pos THEN byte ELSE unget_stack[j]
  BY <1>1, <1>2 DEF IInv, StreamTypes
<1> HIDE DEF back
<1>7. /\ Coming \in Seq(Bytes) /\ Coming' \in Seq(Bytes)
      /\ Len(Coming) = unget_pos + Len(Content) - current_pos
      /\ Len(Coming') = Len(Coming) + 1 /\ Len(Coming) \in Nat
  BY <1>1, <1>5, ComingIs
<1>8. /\ back \o Coming \in Seq(Bytes)
      /\ Len(back \o Coming) = 1 + Len(Coming)
      /\ \A i \in 1 .. 1 + Len(Coming) :
           (back \o Coming)[i] = IF i <= 1 THEN back[i] ELSE Coming[i - 1]
  <2>1. /\ back \o Coming \in Seq(Bytes)
        /\ Len(back \o Coming) = Len(back) + Len(Coming)
        /\ \A i \in 1 .. Len(back) + Len(Coming) :
             (back \o Coming)[i] = IF i <= Len(back) THEN back[i] ELSE Coming[i - Len(back)]
    BY <1>3, <1>7, ConcatProperties
  <2>2. Len(back) = 1
    BY <1>2 DEF back
  <2> QED
    BY <2>1, <2>2
<1>9. ASSUME NEW i \in 1 .. 1 + Len(Coming)
      PROVE  Coming'[i] = (back \o Coming)[i]
  <2>1. /\ i \in 1 .. unget_pos' + Len(Content) - current_pos' /\ i \in Nat \ {0}
        /\ (back \o Coming)[i] = IF i <= 1 THEN back[i] ELSE Coming[i - 1]
    BY <1>1, <1>5, <1>7, <1>8, SMTT(30)
  <2>2. Coming'[i] = IF i <= unget_pos' THEN unget_stack'[unget_pos' - i]
                     ELSE Content[current_pos' + i - unget_pos']
    BY <2>1, ComingIs
  <2>3. CASE i = 1
    <3>1. i <= unget_pos' /\ unget_pos' - i = unget_pos /\ unget_pos \in 0 .. BufSize - 1
      BY <1>5, <2>3
    <3>2. unget_stack'[unget_pos] = byte
      BY <1>6, <3>1
    <3> QED
      BY <1>4, <2>1, <2>2, <2>3, <3>1, <3>2
  <2>4. CASE i # 1
    <3>1. i - 1 \in 1 .. unget_pos + Len(Content) - current_pos /\ ~ (i <= 1)
      BY <1>1, <1>5, <2>1, <2>4
    <3>2. Coming[i - 1] = IF i - 1 <= unget_pos THEN unget_stack[unget_pos - (i - 1)]
                          ELSE Content[current_pos + (i - 1) - unget_pos]
      BY <3>1, ComingIs
    <3>3. CASE i <= unget_pos'
      <4>1. /\ unget_pos' - i \in 0 .. BufSize - 1 /\ unget_pos' - i # unget_pos
            /\ unget_pos - (i - 1) = unget_pos' - i /\ i - 1 <= unget_pos
        BY <1>5, <2>1, <2>4, <3>3
      <4>2. unget_stack'[unget_pos' - i] = unget_stack[unget_pos' - i]
        BY <1>6, <4>1
      <4> QED
        BY <2>1, <2>2, <3>1, <3>2, <3>3, <4>1, <4>2
    <3>4. CASE ~ (i <= unget_pos')
      <4>1. /\ ~ (i - 1 <= unget_pos)
            /\ current_pos + (i - 1) - unget_pos = current_pos' + i - unget_pos'
        BY <1>1, <1>5, <2>1, <3>4
      <4> QED
        BY <2>1, <2>2, <3>1, <3>2, <3>4, <4>1
    <3> QED
      BY <3>3, <3>4
  <2> QED
    BY <2>3, <2>4
<1>10. Coming' = back \o Coming
  <2>1. Len(Coming') = 1 + Len(Coming)
    BY <1>7
  <2> QED
    BY <1>7, <1>8, <1>9, <2>1, SeqEqual
<1> QED
  BY <1>1, <1>2, <1>10 DEF Promise!Unget, Promise!Silence, back

\* With an empty stack the rest of the file is to come.
LEMMA RestOfFile ==
  ASSUME NEW place \in 0 .. Len(Content), NEW stack
  PROVE  Ahead(stack, 0, place) = Promise!From(place)
<1> DEFINE rest == SubSeq(Content, place + 1, Len(Content))
           k == Len(Content) - place
           ahead == Ahead(stack, 0, place)
<1>1. k \in 0 .. Len(Content) - place /\ place + k = Len(Content)
  BY FileBytes
<1>2. rest \in Seq(Bytes) /\ Len(rest) = k /\ \A i \in 1 .. k : rest[i] = Content[place + i]
  BY <1>1, PartOfFile, ZenonT(40)
<1>3. /\ ahead \in Seq(Bytes)
      /\ Len(ahead) = 0 + Len(Content) - place
      /\ \A i \in 1 .. 0 + Len(Content) - place :
           ahead[i] = IF i <= 0 THEN stack[0 - i] ELSE Content[place + i - 0]
  <2>1. 0 \in Nat /\ \A i \in 0 .. 0 - 1 : stack[i] \in Bytes
    OBVIOUS
  <2> QED
    BY <2>1, AheadIs
<1> HIDE DEF ahead, rest
<1>4. 0 + Len(Content) - place = k /\ k \in Nat
  BY FileBytes
<1>5. \A i \in 1 .. k : ~ (i <= 0) /\ place + i - 0 = place + i
  BY <1>4
<1>6. Len(ahead) = k /\ \A i \in 1 .. k : ahead[i] = Content[place + i]
  BY <1>3, <1>4, <1>5
<1>7. ahead = rest
  BY <1>2, <1>3, <1>6, SeqEqual
<1> QED
  BY <1>7 DEF ahead, rest, Promise!From

\* fseek to a place of the file.
LEMMA SeekRefines ==
  ASSUME IInv, NEW t \in Callers, Seek(t)
  PROVE  Promise!Seek(t)
<1>1. /\ current_pos' \in 0 .. Len(Content) /\ unget_pos' = 0
      /\ said' = [said EXCEPT ![t] = [end |-> FALSE, bytes |-> <<>>]]
  BY DEF Seek, Returns
<1>2. Coming' = Ahead(unget_stack', 0, current_pos')
  BY <1>1 DEF Coming, Ahead
<1>3. Coming' = Promise!From(current_pos')
  BY <1>1, <1>2, RestOfFile
<1> QED
  BY <1>1, <1>3 DEF Promise!Seek, Promise!Silence

\* fread returns the next bytes, fewer than it was asked for only where the
\* file ends, or is refused and returns none.
LEMMA ReadRefines ==
  ASSUME IInv, IInv', NEW t \in Callers, NEW n \in Lengths, Transfer(t, n, Elems(n))
  PROVE  Promise!Read(t) \/ Promise!Refuse(t)
<1> DEFINE k == Elems(n)
           bytes == SubSeq(Content, current_pos + 1, current_pos + k)
<1>1. /\ unget_pos = 0 /\ unget_pos' = 0
      /\ current_pos' = current_pos + k
      /\ k \in 0 .. Len(Content) - current_pos
      /\ said' = [said EXCEPT ![t] = [end |-> (k < n), bytes |-> bytes]]
  BY TransferIs DEF Returns
<1>2. /\ current_pos \in 0 .. Len(Content) /\ Len(Content) \in Nat
      /\ current_pos' \in 0 .. Len(Content)
  BY FileBytes DEF IInv, StreamTypes
<1>3. /\ n \in TooLong => k = 0
      /\ n \notin TooLong =>
           /\ k \in 0 .. n
           /\ n <= Len(Content) - current_pos => k = n
           /\ n > Len(Content) - current_pos => k <= Len(Content) - current_pos
  BY <1>2, ElemsIs, RefusedIs
<1>4. bytes \in Seq(Bytes) /\ Len(bytes) = k
      /\ \A i \in 1 .. k : bytes[i] = Content[current_pos + i]
  BY <1>1, <1>2, PartOfFile
<1> HIDE DEF k, bytes
<1>5. /\ Coming \in Seq(Bytes) /\ Coming' \in Seq(Bytes)
      /\ Len(Coming) = Len(Content) - current_pos
      /\ Len(Coming') = Len(Content) - current_pos'
  <2>1. /\ Coming \in Seq(Bytes) /\ Coming' \in Seq(Bytes)
        /\ Len(Coming) = unget_pos + Len(Content) - current_pos
        /\ Len(Coming') = unget_pos' + Len(Content) - current_pos'
    BY ComingIs
  <2>2. /\ unget_pos + Len(Content) - current_pos = Len(Content) - current_pos
        /\ unget_pos' + Len(Content) - current_pos' = Len(Content) - current_pos'
    BY <1>1, <1>2
  <2> QED
    BY <2>1, <2>2
<1>6. ASSUME NEW i \in 1 .. Len(Coming)
      PROVE  Coming[i] = Content[current_pos + i]
  <2>1. /\ i \in 1 .. unget_pos + Len(Content) - current_pos /\ ~ (i <= unget_pos)
        /\ current_pos + i - unget_pos = current_pos + i
    BY <1>1, <1>2, <1>5
  <2> QED
    BY <2>1, ComingIs
<1>7. ASSUME NEW i \in 1 .. Len(Coming')
      PROVE  Coming'[i] = Content[current_pos' + i]
  <2>1. /\ i \in 1 .. unget_pos' + Len(Content) - current_pos' /\ ~ (i <= unget_pos')
        /\ current_pos' + i - unget_pos' = current_pos' + i
    BY <1>1, <1>2, <1>5
  <2> QED
    BY <2>1, ComingIs
<1>8. Len(Coming) \in Nat /\ k \in 0 .. Len(Coming) /\ n \in Nat \ {0}
  BY <1>1, <1>2, <1>5, SizeAssumption
<1>9. bytes = SubSeq(Coming, 1, k)
  <2>1. \A i \in 1 .. k : bytes[i] = Coming[i]
    BY <1>4, <1>6, <1>8
  <2> QED
    BY <1>4, <1>5, <1>8, <2>1, FirstBytes
<1>10. Coming' = SubSeq(Coming, k + 1, Len(Coming))
  <2>1. Len(Coming') = Len(Coming) - k
    BY <1>1, <1>2, <1>5
  <2>2. ASSUME NEW i \in 1 .. Len(Coming) - k
        PROVE  Coming'[i] = Coming[k + i]
    <3>1. /\ i \in 1 .. Len(Coming') /\ k + i \in 1 .. Len(Coming)
          /\ current_pos' + i = current_pos + (k + i)
      BY <1>1, <1>2, <1>8, <2>1
    <3> QED
      BY <1>6, <1>7, <3>1
  <2> QED
    BY <1>5, <1>8, <2>1, <2>2, OtherBytes
<1>11. CASE n \notin TooLong /\ n <= Len(Coming)
  <2>1. k = n /\ (k < n) = FALSE
    BY <1>3, <1>5, <1>8, <1>11
  <2>2. Promise!Take(t, n)
    BY <1>1, <1>9, <1>10, <2>1 DEF Promise!Take
  <2> QED
    BY <1>11, <2>2 DEF Promise!Read
<1>12. CASE n \notin TooLong /\ n > Len(Coming)
  <2>1. (k < n) = TRUE
    BY <1>8, <1>12
  <2>2. said' = [said EXCEPT ![t] = [end |-> TRUE, bytes |-> SubSeq(Coming, 1, k)]]
    BY <1>1, <1>9, <2>1
  <2> QED
    BY <1>8, <1>10, <1>12, <2>2 DEF Promise!Read
<1>13. CASE n \in TooLong
  <2>1. k = 0 /\ (k < n) = TRUE
    BY <1>3, <1>8, <1>13
  <2>2. bytes = <<>>
    BY <1>4, <2>1
  <2>3. Coming' = Coming
    <3>1. Len(Coming') = Len(Coming) /\ current_pos' = current_pos
      BY <1>1, <1>2, <1>5, <2>1
    <3>2. ASSUME NEW i \in 1 .. Len(Coming') PROVE Coming'[i] = Coming[i]
      BY <1>6, <1>7, <3>1
    <3> QED
      BY <1>5, <3>1, <3>2, SeqEqual
  <2> QED
    BY <1>1, <1>13, <2>1, <2>2, <2>3 DEF Promise!Refuse
<1> QED
  BY <1>8, <1>11, <1>12, <1>13

\* A stream that was just opened has its whole file to come.
LEMMA InitRefines == Init => Promise!Init
<1> SUFFICES ASSUME Init PROVE Promise!Init
  OBVIOUS
<1>1. Coming = Ahead(unget_stack, 0, 0)
  BY DEF Init, Coming, Ahead
<1>2. Coming = SubSeq(Content, 0 + 1, Len(Content))
  <2>1. 0 \in 0 .. Len(Content)
    BY FileBytes
  <2> QED
    BY <1>1, <2>1, RestOfFile DEF Promise!From
<1>3. /\ SubSeq(Content, 0 + 1, 0 + Len(Content)) \in Seq(Bytes)
      /\ Len(SubSeq(Content, 0 + 1, 0 + Len(Content))) = Len(Content)
      /\ \A i \in 1 .. Len(Content) :
           SubSeq(Content, 0 + 1, 0 + Len(Content))[i] = Content[0 + i]
  <2>1. 0 \in 0 .. Len(Content) /\ Len(Content) \in 0 .. Len(Content) - 0
    BY FileBytes
  <2> QED
    BY <2>1, PartOfFile
<1>4. 0 + Len(Content) = Len(Content) /\ \A i \in 1 .. Len(Content) : 0 + i = i
  BY FileBytes
<1>5. SubSeq(Content, 0 + 1, Len(Content)) = Content
  BY <1>3, <1>4, ContentAssumption, SeqEqual
<1> QED
  BY <1>2, <1>5 DEF Init, Promise!Init, Silence, Promise!Silence

\* Every step of the stream is a step of the byte stream, or one the byte
\* stream does not see: a fetch, and ungetc picking its slot.
LEMMA StreamStepRefines == IInv /\ IInv' /\ [Next]_vars => [Promise!Next]_(Promise!vars)
<1> SUFFICES ASSUME IInv, IInv', [Next]_vars PROVE [Promise!Next]_(Promise!vars)
  OBVIOUS
<1>1. CASE UNCHANGED vars
  BY <1>1 DEF vars, stream, Coming, Promise!vars
<1>2. CASE Next
  <2>1. PICK t \in Callers :
          \/ Pop(t) \/ Fill(t) \/ FindEnd(t)
          \/ UngetPick(t) \/ UngetStore(t)
          \/ Seek(t) \/ Read(t)
    BY <1>2 DEF Next
  <2>2. CASE Pop(t)
    BY <2>2, PopRefines DEF Promise!Next
  <2>3. CASE Fill(t)
    BY <2>3, FillRefines
  <2>4. CASE FindEnd(t)
    BY <2>4, FindEndRefines DEF Promise!Next
  <2>5. CASE UngetPick(t)
    BY <2>5 DEF UngetPick, Coming, Promise!vars
  <2>6. CASE UngetStore(t)
    BY <2>6, UngetStoreRefines DEF Promise!Next
  <2>7. CASE Seek(t)
    BY <2>7, SeekRefines DEF Promise!Next
  <2>8. CASE Read(t)
    BY <2>8, ReadRefines DEF Read, Promise!Next
  <2> QED
    BY <2>1, <2>2, <2>3, <2>4, <2>5, <2>6, <2>7, <2>8
<1> QED
  BY <1>1, <1>2

\* The buffered stream of libc (fgetc, ungetc, fseek, fread) is the byte stream:
\* for every file, every size of the chunks and of what a server refuses, every
\* stack smaller than that, and any number of threads, no byte is lost, repeated
\* or out of order, and the end is reported only where it is, or to an fread
\* whose chunks are refused.
THEOREM StreamRefinement == Spec => ImplementsByteStream
<1>1. IInv /\ IInv' /\ [Next]_vars => [Promise!Next]_(Promise!vars)
  BY StreamStepRefines
<1> QED
  BY <1>1, InitRefines, StreamInvariance, PTL
     DEF Spec, ImplementsByteStream, Promise!Spec
=============================================================================
