-------------------------- MODULE ProgramsProofs ---------------------------
(***************************************************************************)
(* Proofs about the programs that olymp starts: how they come up, for any  *)
(* order of the boot modules and any number of interactive programs, and   *)
(* how the Scheme interpreter's memory stays sound, for every program.     *)
(***************************************************************************)
EXTENDS Startup, Storage, FiniteSetTheorems, SequenceTheorems, WellFoundedInduction, TLAPS

\* What the scripts say, program by program.
LEMMA Scripts ==
  /\ Script(Hermes) = <<"serve">>
  /\ Script(Console) = <<"register", "serve">>
  /\ Script(Ide) = <<"print", "register", "serve">>
  /\ Script(Ext2) = <<"open", "mount", "print", "register", "print", "serve">>
  /\ \A p \in Users : Script(p) = <<"print", "read">>
<1>1. Script(Hermes) = <<"serve">>
  BY BootAssumption DEF Script, Servers
<1>2. Script(Console) = <<"register", "serve">>
  BY BootAssumption DEF Script, Servers
<1>3. Script(Ide) = <<"print", "register", "serve">>
  BY BootAssumption DEF Script, Servers
<1>4. Script(Ext2) = <<"open", "mount", "print", "register", "print", "serve">>
  BY BootAssumption DEF Script, Servers
<1>5. \A p \in Users : Script(p) = <<"print", "read">>
  BY BootAssumption DEF Script, Servers
<1> QED  BY <1>1, <1>2, <1>3, <1>4, <1>5

\* No script is empty.
LEMMA ScriptLength ==
  ASSUME NEW p \in Programs
  PROVE  Len(Script(p)) \in Nat \ {0} /\ DOMAIN Script(p) = 1 .. Len(Script(p))
<1>1. CASE p = Hermes
  BY <1>1, Scripts
<1>2. CASE p = Console
  BY <1>2, Scripts
<1>3. CASE p = Ide
  BY <1>3, Scripts
<1>4. CASE p = Ext2
  BY <1>4, Scripts
<1>5. CASE p \in Users
  BY <1>5, Scripts
<1> QED  BY <1>1, <1>2, <1>3, <1>4, <1>5 DEF Programs, Servers

\* Only interactive programs read.
LEMMA Readers ==
  ASSUME NEW p \in Programs, Does(p, "read")
  PROVE  p \in Users
<1>1. step[p] \in DOMAIN Script(p) /\ Script(p)[step[p]] = "read"
  BY DEF Does
<1> QED
  BY <1>1, Scripts DEF Programs, Servers

\* The boot modules are each launched once, hermes first.
Order ==
  /\ order \in Seq(Programs) /\ order[1] = Hermes
  /\ \A j, k \in 1 .. Len(order) : j # k => order[j] # order[k]

\* Only launched programs run, and after the first launch olymp either waits
\* for hermes or has its capability.
Launched ==
  /\ \A p \in Programs : step[p] > 0 => \E k \in 1 .. launched : order[k] = p
  /\ launched > 0 /\ ~asking => catchall

\* The inductive invariant: Launched ties the step a program is at to the
\* modules launched so far, which EveryoneHasNames alone does not say.
IInv == BootTypeOK /\ Order /\ step \in [Programs -> Nat] /\ Launched /\ EveryoneHasNames

\* At the start nothing is launched, and SetToSeqs gives an order without
\* repetitions.
LEMMA Initially == BootInit => IInv
<1> SUFFICES ASSUME BootInit PROVE IInv
  OBVIOUS
<1> DEFINE N == Cardinality(Programs)
<1>1. N \in Nat
  <2>1. IsFiniteSet({Hermes}) /\ IsFiniteSet({Console}) /\ IsFiniteSet({Ide})
        /\ IsFiniteSet({Ext2}) /\ IsFiniteSet(Users)
    BY BootAssumption, FS_Singleton
  <2>2. IsFiniteSet({Hermes} \cup {Console}) /\ IsFiniteSet({Ide} \cup {Ext2})
    BY <2>1, FS_Union
  <2>3. IsFiniteSet(({Hermes} \cup {Console}) \cup ({Ide} \cup {Ext2}))
    BY <2>2, FS_Union
  <2>4. IsFiniteSet((({Hermes} \cup {Console}) \cup ({Ide} \cup {Ext2})) \cup Users)
    BY <2>1, <2>3, FS_Union
  <2>5. Programs = (({Hermes} \cup {Console}) \cup ({Ide} \cup {Ext2})) \cup Users
    BY DEF Programs, Servers
  <2> QED
    BY <2>4, <2>5, FS_CardinalityType
<1>2. /\ order \in [1 .. N -> Programs] /\ order[1] = Hermes
      /\ \A j, k \in 1 .. N : j # k => order[j] # order[k]
  BY DEF BootInit, SetToSeqs
<1>3. order \in Seq(Programs) /\ Len(order) = N
  BY <1>1, <1>2
<1>4. Order
  BY <1>2, <1>3 DEF Order
<1>5. BootTypeOK
  <2>1. launched \in 0 .. Len(order)
    BY <1>1, <1>3 DEF BootInit
  <2>2. \A p \in Programs : step[p] \in 0 .. Len(Script(p)) + 1
    BY ScriptLength DEF BootInit
  <2>3. console \in [Programs -> {Nobody, Hermes, Console}]
    BY DEF BootInit
  <2> QED
    BY <2>1, <2>2, <2>3 DEF BootInit, BootTypeOK
<1> QED
  BY <1>4, <1>5 DEF BootInit, IInv, Launched, EveryoneHasNames

\* A program that gets on stays in its script or ends behind it, and whoever
\* waits for the console keeps its place.
LEMMA Advances ==
  ASSUME IInv, NEW p \in Programs, step[p] \in 1 .. Len(Script(p)),
         Advance(p) \/ step' = [step EXCEPT ![p] = Len(Script(p)) + 1]
  PROVE  /\ step' \in [Programs -> Nat]
         /\ \A q \in Programs : step'[q] \in 0 .. Len(Script(q)) + 1
         /\ \A q \in Programs : step'[q] > 0 => step[q] > 0
         /\ \A q \in Programs \ {p} : step'[q] = step[q]
<1>1. Len(Script(p)) \in Nat \ {0} /\ step \in [Programs -> Nat]
  BY ScriptLength DEF IInv
<1>2. PICK n \in 1 .. Len(Script(p)) + 1 : step' = [step EXCEPT ![p] = n]
  <2>1. CASE Advance(p) /\ p \in Users
    <3>1. step' = [step EXCEPT ![p] = (step[p] % Len(Script(p))) + 1]
      BY <2>1 DEF Advance
    <3>2. step[p] % Len(Script(p)) \in 0 .. Len(Script(p)) - 1
      BY <1>1
    <3>3. (step[p] % Len(Script(p))) + 1 \in 1 .. Len(Script(p)) + 1
      BY <1>1, <3>2
    <3> QED
      BY <3>1, <3>3
  <2>2. CASE Advance(p) /\ p \notin Users
    <3>1. step' = [step EXCEPT ![p] = step[p] + 1]
      BY <2>2 DEF Advance
    <3>2. step[p] + 1 \in 1 .. Len(Script(p)) + 1
      BY <1>1
    <3> QED
      BY <3>1, <3>2
  <2>3. CASE step' = [step EXCEPT ![p] = Len(Script(p)) + 1]
    <3>1. Len(Script(p)) + 1 \in 1 .. Len(Script(p)) + 1
      BY <1>1
    <3> QED
      BY <2>3, <3>1
  <2> QED
    BY <2>1, <2>2, <2>3
<1>3. n \in Nat \ {0}
  BY <1>1
<1>4. step' \in [Programs -> Nat] /\ step'[p] = n
      /\ \A q \in Programs \ {p} : step'[q] = step[q]
  BY <1>1, <1>2, <1>3
<1>5. ASSUME NEW q \in Programs
      PROVE  step'[q] \in 0 .. Len(Script(q)) + 1 /\ (step'[q] > 0 => step[q] > 0)
  <2>1. CASE q = p
    BY <2>1, <1>1, <1>2, <1>4
  <2>2. CASE q # p
    BY <2>2, <1>4 DEF IInv, BootTypeOK
  <2> QED
    BY <2>1, <2>2
<1> QED
  BY <1>4, <1>5

\* A program that does something is inside its script.
LEMMA Doing ==
  ASSUME NEW p \in Programs, NEW op, Does(p, op)
  PROVE  step[p] \in 1 .. Len(Script(p)) /\ Script(p)[step[p]] = op
BY ScriptLength DEF Does

\* Names and launches stay as they are while programs get on.
LEMMA Onward ==
  ASSUME IInv, NEW p \in Programs, step[p] \in 1 .. Len(Script(p)),
         Advance(p) \/ step' = [step EXCEPT ![p] = Len(Script(p)) + 1],
         UNCHANGED <<order, launched, asking, catchall, local>>
  PROVE  /\ Order' /\ step' \in [Programs -> Nat] /\ Launched' /\ EveryoneHasNames'
         /\ launched' \in 0 .. Len(order')
         /\ asking' \in BOOLEAN /\ catchall' \in BOOLEAN /\ local' \in [Programs -> BOOLEAN]
         /\ \A q \in Programs : step'[q] \in 0 .. Len(Script(q)) + 1
<1>1. /\ step' \in [Programs -> Nat]
      /\ \A q \in Programs : step'[q] \in 0 .. Len(Script(q)) + 1
      /\ \A q \in Programs : step'[q] > 0 => step[q] > 0
  BY Advances
<1>2. Order'
  BY DEF IInv, Order
<1>3. Launched'
  BY <1>1 DEF IInv, Launched
<1>4. EveryoneHasNames'
  BY <1>1 DEF IInv, EveryoneHasNames
<1> QED
  BY <1>1, <1>2, <1>3, <1>4 DEF IInv, BootTypeOK

\* stdio finds the console, hermes, or nothing.
LEMMA FoundIs ==
  ASSUME IInv, NEW p \in Programs
  PROVE  Found(p) \in {Nobody, Hermes, Console}
BY DEF IInv, BootTypeOK, Found

\* Launching the next module: the first is hermes, and when it is another one,
\* hermes' capability is there.
LEMMA LaunchStep ==
  ASSUME IInv, Launch
  PROVE  IInv'
<1> DEFINE p == order[launched + 1]
<1>1. /\ launched \in Nat /\ Len(order) \in Nat /\ launched < Len(order) /\ ~asking
      /\ launched' = launched + 1 /\ step' = [step EXCEPT ![p] = 1]
      /\ local' = [local EXCEPT ![p] = catchall] /\ asking' = (launched = 0)
      /\ UNCHANGED <<order, catchall, registered, console, reader>>
  BY DEF IInv, BootTypeOK, Order, Launch
<1>2. launched + 1 \in 1 .. Len(order) /\ p \in Programs
  BY <1>1 DEF IInv, Order
<1>3. ~(step[p] > 0)
  <2>1. \A k \in 1 .. launched : order[k] # p
    <3>1. ASSUME NEW k \in 1 .. launched PROVE order[k] # p
      <4>1. k \in 1 .. Len(order) /\ k # launched + 1
        BY <1>1
      <4> QED
        BY <4>1, <1>2 DEF IInv, Order
    <3> QED
      BY <3>1
  <2> QED
    BY <2>1, <1>2 DEF IInv, Launched
<1>4. step \in [Programs -> Nat] /\ step' \in [Programs -> Nat]
  BY <1>1 DEF IInv
<1>5. step'[p] = 1 /\ \A q \in Programs \ {p} : step'[q] = step[q]
  BY <1>1, <1>2, <1>4
<1>6. /\ local' \in [Programs -> BOOLEAN] /\ local'[p] = catchall
      /\ \A q \in Programs \ {p} : local'[q] = local[q]
  BY <1>1, <1>2 DEF IInv, BootTypeOK
<1>7. Order'
  BY <1>1 DEF IInv, Order
<1>8. Launched'
  <2>1. ASSUME NEW q \in Programs, step'[q] > 0
        PROVE  \E k \in 1 .. launched + 1 : order[k] = q
    <3>1. CASE q = p
      BY <3>1, <1>1
    <3>2. CASE q # p
      <4>1. step[q] > 0
        BY <3>2, <2>1, <1>5
      <4>2. PICK k \in 1 .. launched : order[k] = q
        BY <4>1 DEF IInv, Launched
      <4>3. k \in 1 .. launched + 1
        BY <1>1
      <4> QED
        BY <4>2, <4>3
    <3> QED
      BY <3>1, <3>2
  <2>2. ASSUME launched' > 0, ~asking' PROVE catchall'
    <3>1. ~(launched = 0)
      BY <2>2, <1>1
    <3>2. launched > 0
      BY <3>1, <1>1
    <3>3. catchall
      BY <3>2, <1>1 DEF IInv, Launched
    <3> QED
      BY <3>3, <1>1
  <2> QED
    BY <2>1, <2>2, <1>1 DEF Launched
<1>9. EveryoneHasNames'
  <2>1. ASSUME NEW q \in Programs \ {Hermes}, step'[q] > 0 PROVE local'[q]
    <3>1. CASE q = p
      <4>1. launched # 0
        BY <3>1 DEF IInv, Order
      <4>2. catchall
        BY <4>1, <1>1 DEF IInv, Launched
      <4> QED
        BY <4>2, <3>1, <1>6
    <3>2. CASE q # p
      BY <3>2, <2>1, <1>5, <1>6 DEF IInv, EveryoneHasNames
    <3> QED
      BY <3>1, <3>2
  <2> QED
    BY <2>1 DEF EveryoneHasNames
<1>10. BootTypeOK'
  <2>1. \A q \in Programs : step'[q] \in 0 .. Len(Script(q)) + 1
    <3>1. ASSUME NEW q \in Programs PROVE step'[q] \in 0 .. Len(Script(q)) + 1
      <4>1. CASE q = p
        BY <4>1, <1>2, <1>5, ScriptLength
      <4>2. CASE q # p
        BY <4>2, <1>5 DEF IInv, BootTypeOK
      <4> QED
        BY <4>1, <4>2
    <3> QED
      BY <3>1
  <2>2. reader' # Nobody => /\ reader' \in Programs
                            /\ Does(reader, "read")' /\ console'[reader'] = Console
    <3>1. SUFFICES ASSUME reader # Nobody
                   PROVE  /\ reader \in Programs
                          /\ Does(reader, "read")' /\ console[reader] = Console
      BY <1>1
    <3>2. reader \in Programs /\ Does(reader, "read") /\ console[reader] = Console
      BY <3>1 DEF IInv, BootTypeOK
    <3>3. step[reader] > 0
      BY <3>2, Doing
    <3>4. step'[reader] = step[reader]
      BY <3>2, <3>3, <1>3, <1>5
    <3> QED
      BY <3>2, <3>4, <1>1 DEF Does
  <2>3. launched' \in 0 .. Len(order')
    BY <1>1, <1>2
  <2> QED
    BY <2>1, <2>2, <2>3, <1>1, <1>6 DEF IInv, BootTypeOK
<1> QED
  BY <1>4, <1>7, <1>8, <1>9, <1>10 DEF IInv

\* Hermes' answer to olymp.
LEMMA CapabilityStep ==
  ASSUME IInv, GetRootCapability
  PROVE  IInv'
<1>1. /\ asking' = FALSE /\ catchall' = TRUE
      /\ UNCHANGED <<order, launched, local, step, registered, console, reader>>
  BY DEF GetRootCapability
<1>2. Order'
  BY <1>1 DEF IInv, Order
<1>3. Launched'
  BY <1>1 DEF IInv, Launched
<1>4. EveryoneHasNames'
  BY <1>1 DEF IInv, EveryoneHasNames
<1>5. BootTypeOK'
  BY <1>1 DEF IInv, BootTypeOK, Does
<1> QED
  BY <1>1, <1>2, <1>3, <1>4, <1>5 DEF IInv

\* The program that the console serves keeps its place when another gets on.
LEMMA Waits ==
  ASSUME IInv, NEW p \in Programs, step[p] \in 1 .. Len(Script(p)), reader # p,
         Advance(p) \/ step' = [step EXCEPT ![p] = Len(Script(p)) + 1],
         reader # Nobody, reader' = reader
  PROVE  reader \in Programs /\ Does(reader, "read")' /\ console[reader] = Console
<1>1. reader \in Programs /\ Does(reader, "read") /\ console[reader] = Console
  BY DEF IInv, BootTypeOK
<1>2. step'[reader] = step[reader]
  BY <1>1, Advances
<1> QED
  BY <1>1, <1>2 DEF Does

\* A program whose next call is not a read is not the one the console serves.
LEMMA Busy ==
  ASSUME IInv, NEW p \in Programs, NEW op, Does(p, op), op # "read", p # Nobody
  PROVE  reader # p
BY DEF IInv, BootTypeOK, Does

\* Steps of a program that leave the console's capabilities alone.
LEMMA QuietStep ==
  ASSUME IInv, NEW p \in Programs, NEW op, Does(p, op), op # "read",
         Advance(p) \/ step' = [step EXCEPT ![p] = Len(Script(p)) + 1],
         registered' \subseteq Programs,
         UNCHANGED <<order, launched, asking, catchall, local, console, reader>>
  PROVE  IInv'
<1>1. step[p] \in 1 .. Len(Script(p))
  BY Doing
<1>2. reader # p
  BY BootAssumption, Busy
<1>3. /\ Order' /\ step' \in [Programs -> Nat] /\ Launched' /\ EveryoneHasNames'
      /\ launched' \in 0 .. Len(order')
      /\ asking' \in BOOLEAN /\ catchall' \in BOOLEAN /\ local' \in [Programs -> BOOLEAN]
      /\ \A q \in Programs : step'[q] \in 0 .. Len(Script(q)) + 1
  BY <1>1, Onward
<1>4. reader # Nobody =>
        reader \in Programs /\ Does(reader, "read")' /\ console[reader] = Console
  BY <1>1, <1>2, Waits
<1>5. reader' # Nobody =>
        reader' \in Programs /\ Does(reader, "read")' /\ console'[reader'] = Console
  BY <1>4
<1>6. BootTypeOK'
  BY <1>3, <1>5 DEF IInv, BootTypeOK
<1> QED
  BY <1>3, <1>6 DEF IInv

\* printf may change what stdio knows of the console, for its own program.
LEMMA PrintfStep ==
  ASSUME IInv, NEW p \in Programs, Printf(p)
  PROVE  IInv'
<1>1. /\ Does(p, "print") /\ console' = [console EXCEPT ![p] = Found(p)] /\ Advance(p)
      /\ UNCHANGED <<order, launched, asking, catchall, local, registered, reader>>
  BY DEF Printf
<1>2. step[p] \in 1 .. Len(Script(p))
  BY <1>1, Doing
<1>3. reader # p
  BY <1>1, BootAssumption, Busy
<1>4. /\ Order' /\ step' \in [Programs -> Nat] /\ Launched' /\ EveryoneHasNames'
      /\ launched' \in 0 .. Len(order')
      /\ asking' \in BOOLEAN /\ catchall' \in BOOLEAN /\ local' \in [Programs -> BOOLEAN]
      /\ \A q \in Programs : step'[q] \in 0 .. Len(Script(q)) + 1
  BY <1>1, <1>2, Onward
<1>5. /\ console' \in [Programs -> {Nobody, Hermes, Console}]
      /\ \A q \in Programs \ {p} : console'[q] = console[q]
  BY <1>1, FoundIs DEF IInv, BootTypeOK
<1>6. reader # Nobody =>
        reader \in Programs /\ Does(reader, "read")' /\ console[reader] = Console
  BY <1>1, <1>2, <1>3, Waits
<1>7. reader' # Nobody =>
        reader' \in Programs /\ Does(reader, "read")' /\ console'[reader'] = Console
  BY <1>1, <1>3, <1>5, <1>6
<1>8. BootTypeOK'
  BY <1>1, <1>4, <1>5, <1>7 DEF IInv, BootTypeOK
<1> QED
  BY <1>4, <1>8 DEF IInv

\* fgets reaches the console only when that serves calls, so never while
\* another program waits for a key.
LEMMA ReadStep ==
  ASSUME IInv, NEW p \in Programs, Fgets(p)
  PROVE  IInv'
<1>1. /\ Does(p, "read") /\ Reaches(p) /\ reader # p
      /\ console' = [console EXCEPT ![p] = Found(p)]
      /\ UNCHANGED <<order, launched, asking, catchall, local, registered>>
  BY DEF Fgets
<1>2. step[p] \in 1 .. Len(Script(p))
  BY <1>1, Doing
<1>3. /\ console' \in [Programs -> {Nobody, Hermes, Console}]
      /\ console'[p] = Found(p)
      /\ \A q \in Programs \ {p} : console'[q] = console[q]
  BY <1>1, FoundIs DEF IInv, BootTypeOK
<1>4. CASE Found(p) = Console
  <2>1. reader' = p /\ step' = step
    BY <1>4 DEF Fgets
  <2>2. /\ reader' \in Programs
        /\ Does(reader, "read")' /\ console'[reader'] = Console
    BY <1>1, <1>3, <1>4, <2>1 DEF Does
  <2>3. BootTypeOK'
    BY <1>1, <1>3, <2>1, <2>2 DEF IInv, BootTypeOK
  <2>4. Order' /\ Launched' /\ EveryoneHasNames'
    BY <1>1, <2>1 DEF IInv, Order, Launched, EveryoneHasNames
  <2> QED
    BY <2>1, <2>3, <2>4 DEF IInv
<1>5. CASE Found(p) # Console
  <2>1. Advance(p) /\ reader' = reader
    BY <1>5 DEF Fgets
  <2>2. /\ Order' /\ step' \in [Programs -> Nat] /\ Launched' /\ EveryoneHasNames'
        /\ launched' \in 0 .. Len(order')
        /\ asking' \in BOOLEAN /\ catchall' \in BOOLEAN
        /\ local' \in [Programs -> BOOLEAN]
        /\ \A q \in Programs : step'[q] \in 0 .. Len(Script(q)) + 1
    BY <1>1, <1>2, <2>1, Onward
  <2>3. reader # Nobody =>
          reader \in Programs /\ Does(reader, "read")' /\ console[reader] = Console
    BY <1>1, <1>2, <2>1, Waits
  <2>4. reader' # Nobody =>
          reader' \in Programs /\ Does(reader, "read")' /\ console'[reader'] = Console
    BY <1>1, <1>3, <2>1, <2>3
  <2>5. BootTypeOK'
    BY <1>1, <1>3, <2>2, <2>4 DEF IInv, BootTypeOK
  <2> QED
    BY <2>2, <2>5 DEF IInv
<1> QED
  BY <1>4, <1>5

\* A key ends the read that the console serves.
LEMMA KeyStep ==
  ASSUME IInv, Key
  PROVE  IInv'
<1>1. /\ reader # Nobody /\ Advance(reader) /\ reader' = Nobody
      /\ UNCHANGED <<order, launched, asking, catchall, local, registered, console>>
  BY DEF Key
<1>2. reader \in Programs /\ Does(reader, "read")
  BY <1>1 DEF IInv, BootTypeOK
<1>3. step[reader] \in 1 .. Len(Script(reader))
  BY <1>2, Doing
<1>4. /\ Order' /\ step' \in [Programs -> Nat] /\ Launched' /\ EveryoneHasNames'
      /\ launched' \in 0 .. Len(order')
      /\ asking' \in BOOLEAN /\ catchall' \in BOOLEAN /\ local' \in [Programs -> BOOLEAN]
      /\ \A q \in Programs : step'[q] \in 0 .. Len(Script(q)) + 1
  BY <1>1, <1>2, <1>3, Onward
<1>5. BootTypeOK'
  BY <1>1, <1>4 DEF IInv, BootTypeOK
<1> QED
  BY <1>4, <1>5 DEF IInv

\* The calls of one program.
LEMMA ProgramStep ==
  ASSUME IInv, NEW p \in Programs, RunsOn(p)
  PROVE  IInv'
<1>1. registered \subseteq Programs
  BY DEF IInv, BootTypeOK
<1>2. CASE Register(p)
  <2>1. /\ Does(p, "register")
        /\ Advance(p) \/ step' = [step EXCEPT ![p] = Len(Script(p)) + 1]
        /\ registered' \subseteq Programs
        /\ UNCHANGED <<order, launched, asking, catchall, local, console, reader>>
    BY <1>1, <1>2 DEF Register
  <2> QED
    BY <2>1, QuietStep
<1>3. CASE Open(p)
  <2>1. /\ Does(p, "open") /\ Advance(p) /\ registered' \subseteq Programs
        /\ UNCHANGED <<order, launched, asking, catchall, local, console, reader>>
    BY <1>1, <1>3 DEF Open
  <2> QED
    BY <2>1, QuietStep
<1>4. CASE Mount(p)
  <2>1. /\ Does(p, "mount")
        /\ Advance(p) \/ step' = [step EXCEPT ![p] = Len(Script(p)) + 1]
        /\ registered' \subseteq Programs
        /\ UNCHANGED <<order, launched, asking, catchall, local, console, reader>>
    BY <1>1, <1>4 DEF Mount
  <2> QED
    BY <2>1, QuietStep
<1> QED
  BY <1>2, <1>3, <1>4, PrintfStep, ReadStep DEF RunsOn

\* Every state of the start satisfies the invariant.
THEOREM Invariant == BootSpec => []IInv
<1>1. BootInit => IInv
  BY Initially
<1>2. IInv /\ [BootNext]_bootvars => IInv'
  <2> SUFFICES ASSUME IInv, [BootNext]_bootvars PROVE IInv'
    OBVIOUS
  <2>1. CASE UNCHANGED bootvars
    BY <2>1 DEF bootvars, IInv, BootTypeOK, Order, Launched, EveryoneHasNames, Does
  <2>2. CASE BootNext
    BY <2>2, LaunchStep, CapabilityStep, KeyStep, ProgramStep DEF BootNext
  <2> QED
    BY <2>1, <2>2
<1> QED
  BY <1>1, <1>2, PTL DEF BootSpec

\* The state of the start is well formed: in particular the program whose
\* read the console serves (File_Read_implementation waits for a key) is at
\* that read and knows the console.
THEOREM TypeCorrect == BootSpec => []BootTypeOK
<1>1. IInv => BootTypeOK
  BY DEF IInv
<1> QED
  BY <1>1, Invariant, PTL

\* Because olymp's main waits for hermes' root capability before it launches
\* the second module, every program after hermes starts with a local
\* directory that leads to hermes, in any order of the boot modules.
THEOREM NamesForEveryone == BootSpec => []EveryoneHasNames
<1>1. IInv => EveryoneHasNames
  BY DEF IInv
<1> QED
  BY <1>1, Invariant, PTL

-----------------------------------------------------------------------------
\* The collector of the Scheme interpreter.  h is the memory before, C the cells
\* in the course of the walk, which are those of h but for the marks and for the
\* links that are inverted along a path.
\*
\* The path: path[1] is the cell from which gc marks, path[m] the one at which
\* mark is.
Vec(h, x) == h.cell[x].type = "vector"
Prev(h, path, k) == IF k = 1 \/ Vec(h, path[k - 1]) THEN Null ELSE path[k - 1]

IsPath(h, m, path) ==
  /\ m \in Nat \ {0} /\ path \in [Nat -> DOMAIN h.cell]
  /\ \A k \in 1 .. m - 1 : path[k + 1] \in Kids(h.cell, path[k])
  /\ \A j, k \in 1 .. m : path[j] = path[k] => j = k

Call(h, path, k) ==
  [t |-> Prev(h, path, k), p |-> path[k], i |-> path[k + 1] - path[k]]
Waiting(h, calls, m, path, pos) ==
  /\ calls \in Seq([t : Int, p : Int, i : Int]) /\ pos \in [Nat -> Nat]
  /\ \A j \in 1 .. Len(calls) :
       /\ pos[j] \in 1 .. m - 1 /\ Vec(h, path[pos[j]])
       /\ calls[j] = Call(h, path, pos[j])
  /\ \A i, j \in 1 .. Len(calls) : i < j => pos[i] < pos[j]
  /\ \A k \in 1 .. m - 1 : Vec(h, path[k]) => \E j \in 1 .. Len(calls) : pos[j] = k

\* The cells: as they were but for the mark; or inverted, on the way down their
\* car or their cdr.
Fields(ty, atom, mark, a, b) ==
  [type |-> ty, atom |-> atom, mark |-> mark, car |-> a, cdr |-> b]
IsCell(c) == c = Fields(c.type, c.atom, c.mark, c.car, c.cdr)
Undisturbed(h, C, x) ==
  /\ IsCell(C[x])
  /\ C[x].type = h.cell[x].type /\ C[x].atom = h.cell[x].atom
  /\ C[x].car = h.cell[x].car /\ C[x].cdr = h.cell[x].cdr
Inverted(h, C, path, k) ==
  LET x == path[k]
  IN  /\ IsCell(C[x]) /\ C[x].type = h.cell[x].type /\ C[x].mark
      /\ \/ /\ C[x].atom
            /\ C[x].car = Prev(h, path, k) /\ C[x].cdr = h.cell[x].cdr
            /\ h.cell[x].car = path[k + 1]
         \/ /\ ~C[x].atom
            /\ C[x].car = h.cell[x].car /\ C[x].cdr = Prev(h, path, k)
            /\ h.cell[x].cdr = path[k + 1]
            /\ Marked(C, h.cell[x].car)
Partly(h, C, path, k) ==
  /\ C[path[k]].mark
  /\ \A e \in Kids(h.cell, path[k]) : e < path[k + 1] => C[e].mark
Cells(h, C, m, path) ==
  /\ DOMAIN C = DOMAIN h.cell
  /\ \A x \in DOMAIN h.cell :
        (\A k \in 1 .. m - 1 : path[k] # x \/ Vec(h, x)) => Undisturbed(h, C, x)
  /\ \A k \in 1 .. m - 1 :
        IF Vec(h, path[k]) THEN Partly(h, C, path, k) ELSE Inverted(h, C, path, k)

\* A marked cell off the path leads to marked cells only; what is marked can be
\* reached; the pointers already given are marked; and what is so at each label.
AllMarked(C, S) == \A y \in S : C[y].mark
Black(h, C, m, path) ==
  \A x \in DOMAIN h.cell :
    C[x].mark /\ (\A k \in 1 .. m : path[k] # x) => AllMarked(C, Kids(h.cell, x))
Sound(h, C) == \A x \in DOMAIN h.cell : C[x].mark => x \in Reach(h)
Asked(h, C, given, path) ==
  \A k \in 1 .. given : h.roots[k] > 0 => C[h.roots[k]].mark \/ h.roots[k] = path[1]
Here(h, C, p, i, at) ==
  /\ at # "E2" => C[p].mark
  /\ at = "vector" => /\ Vec(h, p) /\ i \in Nat
                      /\ \A e \in Kids(h.cell, p) : e <= p + i => C[e].mark
  /\ at = "E4" => (Vec(h, p) => AllMarked(C, Kids(h.cell, p)))
  /\ at = "E5" => ~h.cell[p].atom /\ Marked(C, h.cell[p].car)
  /\ at = "E6" => AllMarked(C, Kids(h.cell, p))

\* A walk by its fields.
Walk(C, roots, given, calls, t, p, i, at) ==
  [cell |-> C, roots |-> roots, given |-> given, calls |-> calls,
   t |-> t, p |-> p, i |-> i, at |-> at]
IsWalk(h, w) ==
  w = Walk(w.cell, h.roots, w.given, w.calls, w.t, w.p, w.i, w.at)

\* mark is under way, or it is not and the links are as they were.
Labels == {"E2", "vector", "E4", "E5", "E6"}
About(h, C, given, m, path) ==
  /\ IsPath(h, m, path) /\ Cells(h, C, m, path) /\ Black(h, C, m, path) /\ Sound(h, C)
  /\ \A k \in 1 .. m : path[k] \in Reach(h)
  /\ given \in 1 .. Len(h.roots) /\ path[1] = h.roots[given] /\ Asked(h, C, given, path)
OnPath(h, C, given, calls, t, p, i, at, m, path, pos) ==
  /\ About(h, C, given, m, path)
  /\ path[m] = p /\ t = Prev(h, path, m)
  /\ Waiting(h, calls, m, path, pos)
  /\ at \in Labels /\ Here(h, C, p, i, at)
Resting(h, C, given, calls, t, at) ==
  /\ calls = <<>> /\ t = Null
  /\ DOMAIN C = DOMAIN h.cell
  /\ \A x \in DOMAIN h.cell : Undisturbed(h, C, x)
  /\ \A x \in DOMAIN h.cell : C[x].mark => AllMarked(C, Kids(h.cell, x))
  /\ Sound(h, C)
  /\ given \in 0 .. Len(h.roots)
  /\ \A k \in 1 .. given : h.roots[k] > 0 => C[h.roots[k]].mark
  /\ at = "gc" \/ (at = "end" /\ given = Len(h.roots))

OnTheWay(h, C, given, calls, t, p, i, at) ==
  \E m \in Nat \ {0} : \E path \in [Nat -> DOMAIN h.cell], pos \in [Nat -> Nat] :
    OnPath(h, C, given, calls, t, p, i, at, m, path, pos)
\* Of a collection: where mark is, and what the sweep has made of the cells.
Marks(h, w) ==
  /\ IsWalk(h, w)
  /\ \/ Resting(h, w.cell, w.given, w.calls, w.t, w.at)
     \/ OnTheWay(h, w.cell, w.given, w.calls, w.t, w.p, w.i, w.at)
Exact(h, C) ==
  LET dead == DOMAIN h.cell \ Reach(h)
  IN  /\ DOMAIN C = DOMAIN h.cell
      /\ \A x \in Reach(h) : C[x] = h.cell[x]
      /\ \A x \in dead : C[x] = FreeCell(First({y \in dead : y > x}))

-----------------------------------------------------------------------------
\* The fields of a walk, and a walk with another value in one of them.
LEMMA WalkFields ==
  ASSUME NEW C, NEW r, NEW g, NEW s, NEW t, NEW p, NEW i, NEW at
  PROVE  LET w == Walk(C, r, g, s, t, p, i, at)
         IN  /\ w.cell = C /\ w.roots = r /\ w.given = g /\ w.calls = s
             /\ w.t = t /\ w.p = p /\ w.i = i /\ w.at = at
BY DEF Walk
LEMMA With_cell ==
  ASSUME NEW C, NEW r, NEW g, NEW s, NEW t, NEW p, NEW i, NEW at, NEW v,
         NEW w, w = Walk(C, r, g, s, t, p, i, at)
  PROVE  [w EXCEPT !.cell = v] = Walk(v, r, g, s, t, p, i, at)
BY SMT DEF Walk
LEMMA With_given ==
  ASSUME NEW C, NEW r, NEW g, NEW s, NEW t, NEW p, NEW i, NEW at, NEW v,
         NEW w, w = Walk(C, r, g, s, t, p, i, at)
  PROVE  [w EXCEPT !.given = v] = Walk(C, r, v, s, t, p, i, at)
BY SMT DEF Walk
LEMMA With_calls ==
  ASSUME NEW C, NEW r, NEW g, NEW s, NEW t, NEW p, NEW i, NEW at, NEW v,
         NEW w, w = Walk(C, r, g, s, t, p, i, at)
  PROVE  [w EXCEPT !.calls = v] = Walk(C, r, g, v, t, p, i, at)
BY SMT DEF Walk
LEMMA With_t ==
  ASSUME NEW C, NEW r, NEW g, NEW s, NEW t, NEW p, NEW i, NEW at, NEW v,
         NEW w, w = Walk(C, r, g, s, t, p, i, at)
  PROVE  [w EXCEPT !.t = v] = Walk(C, r, g, s, v, p, i, at)
BY SMT DEF Walk
LEMMA With_p ==
  ASSUME NEW C, NEW r, NEW g, NEW s, NEW t, NEW p, NEW i, NEW at, NEW v,
         NEW w, w = Walk(C, r, g, s, t, p, i, at)
  PROVE  [w EXCEPT !.p = v] = Walk(C, r, g, s, t, v, i, at)
BY SMT DEF Walk
LEMMA With_i ==
  ASSUME NEW C, NEW r, NEW g, NEW s, NEW t, NEW p, NEW i, NEW at, NEW v,
         NEW w, w = Walk(C, r, g, s, t, p, i, at)
  PROVE  [w EXCEPT !.i = v] = Walk(C, r, g, s, t, p, v, at)
BY SMT DEF Walk
LEMMA With_at ==
  ASSUME NEW C, NEW r, NEW g, NEW s, NEW t, NEW p, NEW i, NEW at, NEW v,
         NEW w, w = Walk(C, r, g, s, t, p, i, at)
  PROVE  [w EXCEPT !.at = v] = Walk(C, r, g, s, t, p, i, v)
BY SMT DEF Walk

-----------------------------------------------------------------------------
\* What the steps of mark make of the cells.
Visited(C, p) == [C EXCEPT ![p] = [C[p] EXCEPT !.mark = TRUE]]
CarTurned(C, p, t) ==
  LET c == [C EXCEPT ![p] = [C[p] EXCEPT !.car = t]]
  IN  [c EXCEPT ![p] = [c[p] EXCEPT !.atom = TRUE]]
CdrTurned(C, p, t) == [C EXCEPT ![p] = [C[p] EXCEPT !.cdr = t]]
CarBack(C, p, q) ==
  LET c == [C EXCEPT ![p] = [C[p] EXCEPT !.atom = FALSE]]
  IN  [c EXCEPT ![p] = [c[p] EXCEPT !.car = q]]

\* What NextRoot, Visit, MarkElement, DownCar, DownCdr and Up make of a walk.
LEMMA NextRootIs ==
  ASSUME NEW C, NEW r, NEW g, NEW s, NEW t, NEW p, NEW i, NEW at, NEW w,
         w = Walk(C, r, g, s, t, p, i, at)
  PROVE  /\ g = Len(r) =>
               NextRoot(w) = Walk(C, r, g, s, t, p, i, "end")
         /\ g # Len(r) /\ r[g + 1] <= 0 =>
               NextRoot(w) = Walk(C, r, g + 1, s, t, p, i, at)
         /\ g # Len(r) /\ ~(r[g + 1] <= 0) =>
               NextRoot(w) = Walk(C, r, g + 1, s, t, r[g + 1], i, "E2")
<1>0. /\ w.cell = C /\ w.roots = r /\ w.given = g /\ w.calls = s
      /\ w.t = t /\ w.p = p /\ w.i = i /\ w.at = at
  BY WalkFields
<1>1. ASSUME g = Len(r)
      PROVE  NextRoot(w) = Walk(C, r, g, s, t, p, i, "end")
  <2> DEFINE w1 == [w EXCEPT !.at = "end"]
  <2>1. w1 = Walk(C, r, g, s, t, p, i, "end")
    BY With_at
  <2> HIDE DEF w1
  <2> QED  BY <1>0, <1>1, <2>1, Zenon DEF NextRoot, w1
<1>2. ASSUME g # Len(r), r[g + 1] <= 0
      PROVE  NextRoot(w) = Walk(C, r, g + 1, s, t, p, i, at)
  <2> DEFINE w1 == [w EXCEPT !.given = g + 1]
  <2>1. w1 = Walk(C, r, g + 1, s, t, p, i, at)
    BY With_given
  <2> HIDE DEF w1
  <2> QED  BY <1>0, <1>2, <2>1, Zenon DEF NextRoot, w1
<1>3. ASSUME g # Len(r), ~(r[g + 1] <= 0)
      PROVE  NextRoot(w) = Walk(C, r, g + 1, s, t, r[g + 1], i, "E2")
  <2> DEFINE w1 == [w EXCEPT !.given = g + 1]
             w2 == [w1 EXCEPT !.p = r[g + 1]]
             w3 == [w2 EXCEPT !.at = "E2"]
  <2>1. w1 = Walk(C, r, g + 1, s, t, p, i, at)
    BY With_given
  <2> HIDE DEF w1
  <2>2. w2 = Walk(C, r, g + 1, s, t, r[g + 1], i, at)
    BY <2>1, With_p
  <2> HIDE DEF w2
  <2>3. w3 = Walk(C, r, g + 1, s, t, r[g + 1], i, "E2")
    BY <2>2, With_at
  <2> HIDE DEF w3
  <2> QED  BY <1>0, <1>3, <2>3, Zenon DEF NextRoot, w1, w2, w3
<1> QED  BY <1>1, <1>2, <1>3
LEMMA VisitIs ==
  ASSUME NEW C, NEW r, NEW g, NEW s, NEW t, NEW p, NEW i, NEW at, NEW w,
         w = Walk(C, r, g, s, t, p, i, at)
  PROVE  Visit(w) = Walk(Visited(C, p), r, g, s, t, p, 0,
                         IF C[p].type = "vector" THEN "vector" ELSE "E4")
<1>0. /\ w.cell = C /\ w.roots = r /\ w.given = g /\ w.calls = s
      /\ w.t = t /\ w.p = p /\ w.i = i /\ w.at = at
  BY WalkFields
<1>1. Visit(w) = Walk(Visited(C, p), r, g, s, t, p, 0,
                      IF C[p].type = "vector" THEN "vector" ELSE "E4")
  <2> DEFINE v1 == Visited(C, p)
             v3 == IF C[p].type = "vector" THEN "vector" ELSE "E4"
             w1 == [w EXCEPT !.cell = v1]
             w2 == [w1 EXCEPT !.i = 0]
             w3 == [w2 EXCEPT !.at = v3]
  <2> HIDE DEF v1, v3
  <2>1. w1 = Walk(v1, r, g, s, t, p, i, at)
    BY With_cell
  <2> HIDE DEF w1
  <2>2. w2 = Walk(v1, r, g, s, t, p, 0, at)
    BY <2>1, With_i
  <2> HIDE DEF w2
  <2>3. w3 = Walk(v1, r, g, s, t, p, 0, v3)
    BY <2>2, With_at
  <2> HIDE DEF w3
  <2> QED  BY <1>0, <2>3, Zenon DEF Visit, Visited, w1, w2, w3, v1, v3
<1> QED  BY <1>1
LEMMA MarkElementEnds ==
  ASSUME NEW C, NEW r, NEW g, NEW s, NEW t, NEW p, NEW i, NEW at, NEW w,
         w = Walk(C, r, g, s, t, p, i, at), i >= Halves(C[p].car)
  PROVE  MarkElement(w) = Walk(C, r, g, s, t, p, i, "E4")
<1> DEFINE w1 == [w EXCEPT !.at = "E4"]
<1>1. w.cell = C /\ w.p = p /\ w.i = i
  BY WalkFields
<1>2. w1 = Walk(C, r, g, s, t, p, i, "E4")
  BY With_at
<1> HIDE DEF w1
<1> QED  BY <1>1, <1>2, Zenon DEF MarkElement, w1
LEMMA MarkElementIs ==
  ASSUME NEW C, NEW r, NEW g, NEW s, NEW t, NEW p, NEW i, NEW at, NEW w,
         w = Walk(C, r, g, s, t, p, i, at), ~(i >= Halves(C[p].car))
  PROVE  MarkElement(w) = Walk(C, r, g, Append(s, [t |-> t, p |-> p, i |-> i + 1]),
                               Null, p + 1 + i, i, "E2")
<1>1. w.cell = C /\ w.calls = s /\ w.t = t /\ w.p = p /\ w.i = i
  BY WalkFields
<1> DEFINE v1 == Append(s, [t |-> t, p |-> p, i |-> i + 1])
           w1 == [w EXCEPT !.calls = v1]
           w2 == [w1 EXCEPT !.t = Null]
           w3 == [w2 EXCEPT !.p = p + 1 + i]
           w4 == [w3 EXCEPT !.at = "E2"]
<1> HIDE DEF v1
<1>2. w1 = Walk(C, r, g, v1, t, p, i, at)
  BY With_calls
<1> HIDE DEF w1
<1>3. w2 = Walk(C, r, g, v1, Null, p, i, at)
  BY <1>2, With_t
<1> HIDE DEF w2
<1>4. w3 = Walk(C, r, g, v1, Null, p + 1 + i, i, at)
  BY <1>3, With_p
<1> HIDE DEF w3
<1>5. w4 = Walk(C, r, g, v1, Null, p + 1 + i, i, "E2")
  BY <1>4, With_at
<1> HIDE DEF w4
<1> QED  BY <1>1, <1>5, Zenon DEF MarkElement, w1, w2, w3, w4, v1
LEMMA DownCarIs ==
  ASSUME NEW C, NEW r, NEW g, NEW s, NEW t, NEW p, NEW i, NEW at, NEW w,
         w = Walk(C, r, g, s, t, p, i, at)
  PROVE  /\ C[p].atom =>
               DownCar(w) = Walk(C, r, g, s, t, p, i, "E6")
         /\ ~C[p].atom /\ Marked(C, C[p].car) =>
               DownCar(w) = Walk(C, r, g, s, t, p, i, "E5")
         /\ ~C[p].atom /\ ~Marked(C, C[p].car) =>
               DownCar(w) = Walk(CarTurned(C, p, t), r, g, s, p, C[p].car, i, "E2")
<1>0. /\ w.cell = C /\ w.roots = r /\ w.given = g /\ w.calls = s
      /\ w.t = t /\ w.p = p /\ w.i = i /\ w.at = at
  BY WalkFields
<1>1. ASSUME C[p].atom
      PROVE  DownCar(w) = Walk(C, r, g, s, t, p, i, "E6")
  <2> DEFINE w1 == [w EXCEPT !.at = "E6"]
  <2>1. w1 = Walk(C, r, g, s, t, p, i, "E6")
    BY With_at
  <2> HIDE DEF w1
  <2> QED  BY <1>0, <1>1, <2>1, Zenon DEF DownCar, w1
<1>2. ASSUME ~C[p].atom, Marked(C, C[p].car)
      PROVE  DownCar(w) = Walk(C, r, g, s, t, p, i, "E5")
  <2> DEFINE w1 == [w EXCEPT !.at = "E5"]
  <2>1. w1 = Walk(C, r, g, s, t, p, i, "E5")
    BY With_at
  <2> HIDE DEF w1
  <2> QED  BY <1>0, <1>2, <2>1, Zenon DEF DownCar, w1
<1>3. ASSUME ~C[p].atom, ~Marked(C, C[p].car)
      PROVE  DownCar(w) = Walk(CarTurned(C, p, t), r, g, s, p, C[p].car, i, "E2")
  <2> DEFINE v1 == [C EXCEPT ![p] = [C[p] EXCEPT !.car = t]]
             v2 == CarTurned(C, p, t)
             w1 == [w EXCEPT !.cell = v1]
             w2 == [w1 EXCEPT !.cell = v2]
             w3 == [w2 EXCEPT !.t = p]
             w4 == [w3 EXCEPT !.p = C[p].car]
             w5 == [w4 EXCEPT !.at = "E2"]
  <2> HIDE DEF v1, v2
  <2>1. w1 = Walk(v1, r, g, s, t, p, i, at)
    BY With_cell
  <2> HIDE DEF w1
  <2>c. w1.cell = v1
    BY <2>1, WalkFields
  <2>2. w2 = Walk(v2, r, g, s, t, p, i, at)
    BY <2>1, With_cell
  <2> HIDE DEF w2
  <2>3. w3 = Walk(v2, r, g, s, p, p, i, at)
    BY <2>2, With_t
  <2> HIDE DEF w3
  <2>4. w4 = Walk(v2, r, g, s, p, C[p].car, i, at)
    BY <2>3, With_p
  <2> HIDE DEF w4
  <2>5. w5 = Walk(v2, r, g, s, p, C[p].car, i, "E2")
    BY <2>4, With_at
  <2> HIDE DEF w5
  <2> QED  BY <1>0, <1>3, <2>c, <2>5, Zenon DEF DownCar, CarTurned, w1, w2, w3, w4, w5, v1, v2
<1> QED  BY <1>1, <1>2, <1>3
LEMMA DownCdrIs ==
  ASSUME NEW C, NEW r, NEW g, NEW s, NEW t, NEW p, NEW i, NEW at, NEW w,
         w = Walk(C, r, g, s, t, p, i, at)
  PROVE  /\ Marked(C, C[p].cdr) =>
               DownCdr(w) = Walk(C, r, g, s, t, p, i, "E6")
         /\ ~Marked(C, C[p].cdr) =>
               DownCdr(w) = Walk(CdrTurned(C, p, t), r, g, s, p, C[p].cdr, i, "E2")
<1>0. /\ w.cell = C /\ w.roots = r /\ w.given = g /\ w.calls = s
      /\ w.t = t /\ w.p = p /\ w.i = i /\ w.at = at
  BY WalkFields
<1>1. ASSUME Marked(C, C[p].cdr)
      PROVE  DownCdr(w) = Walk(C, r, g, s, t, p, i, "E6")
  <2> DEFINE w1 == [w EXCEPT !.at = "E6"]
  <2>1. w1 = Walk(C, r, g, s, t, p, i, "E6")
    BY With_at
  <2> HIDE DEF w1
  <2> QED  BY <1>0, <1>1, <2>1, Zenon DEF DownCdr, w1
<1>2. ASSUME ~Marked(C, C[p].cdr)
      PROVE  DownCdr(w) = Walk(CdrTurned(C, p, t), r, g, s, p, C[p].cdr, i, "E2")
  <2> DEFINE v1 == CdrTurned(C, p, t)
             w1 == [w EXCEPT !.cell = v1]
             w2 == [w1 EXCEPT !.t = p]
             w3 == [w2 EXCEPT !.p = C[p].cdr]
             w4 == [w3 EXCEPT !.at = "E2"]
  <2> HIDE DEF v1
  <2>1. w1 = Walk(v1, r, g, s, t, p, i, at)
    BY With_cell
  <2> HIDE DEF w1
  <2>2. w2 = Walk(v1, r, g, s, p, p, i, at)
    BY <2>1, With_t
  <2> HIDE DEF w2
  <2>3. w3 = Walk(v1, r, g, s, p, C[p].cdr, i, at)
    BY <2>2, With_p
  <2> HIDE DEF w3
  <2>4. w4 = Walk(v1, r, g, s, p, C[p].cdr, i, "E2")
    BY <2>3, With_at
  <2> HIDE DEF w4
  <2> QED  BY <1>0, <1>2, <2>4, Zenon DEF DownCdr, CdrTurned, w1, w2, w3, w4, v1
<1> QED  BY <1>1, <1>2
LEMMA UpIs ==
  ASSUME NEW C, NEW r, NEW g, NEW s, NEW t, NEW p, NEW i, NEW at, NEW w,
         w = Walk(C, r, g, s, t, p, i, at)
  PROVE  /\ t = Null /\ Len(s) = 0 =>
               Up(w) = Walk(C, r, g, s, t, p, i, "gc")
         /\ t = Null /\ Len(s) # 0 =>
               Up(w) = Walk(C, r, g, SubSeq(s, 1, Len(s) - 1),
                            s[Len(s)].t, s[Len(s)].p, s[Len(s)].i, "vector")
         /\ t # Null /\ C[t].atom =>
               Up(w) = Walk(CarBack(C, t, p), r, g, s, C[t].car, t, i, "E5")
         /\ t # Null /\ ~C[t].atom =>
               Up(w) = Walk(CdrTurned(C, t, p), r, g, s, C[t].cdr, t, i, at)
<1>0. /\ w.cell = C /\ w.roots = r /\ w.given = g /\ w.calls = s
      /\ w.t = t /\ w.p = p /\ w.i = i /\ w.at = at
  BY WalkFields
<1>1. ASSUME t = Null, Len(s) = 0
      PROVE  Up(w) = Walk(C, r, g, s, t, p, i, "gc")
  <2> DEFINE w1 == [w EXCEPT !.at = "gc"]
  <2>1. w1 = Walk(C, r, g, s, t, p, i, "gc")
    BY With_at
  <2> HIDE DEF w1
  <2> QED  BY <1>0, <1>1, <2>1, Zenon DEF Up, w1, Return
<1>2. ASSUME t = Null, Len(s) # 0
      PROVE  Up(w) = Walk(C, r, g, SubSeq(s, 1, Len(s) - 1),
                          s[Len(s)].t, s[Len(s)].p, s[Len(s)].i, "vector")
  <2> DEFINE v1 == SubSeq(s, 1, Len(s) - 1)
             w1 == [w EXCEPT !.calls = v1]
             w2 == [w1 EXCEPT !.t = s[Len(s)].t]
             w3 == [w2 EXCEPT !.p = s[Len(s)].p]
             w4 == [w3 EXCEPT !.i = s[Len(s)].i]
             w5 == [w4 EXCEPT !.at = "vector"]
  <2> HIDE DEF v1
  <2>1. w1 = Walk(C, r, g, v1, t, p, i, at)
    BY With_calls
  <2> HIDE DEF w1
  <2>2. w2 = Walk(C, r, g, v1, s[Len(s)].t, p, i, at)
    BY <2>1, With_t
  <2> HIDE DEF w2
  <2>3. w3 = Walk(C, r, g, v1, s[Len(s)].t, s[Len(s)].p, i, at)
    BY <2>2, With_p
  <2> HIDE DEF w3
  <2>4. w4 = Walk(C, r, g, v1, s[Len(s)].t, s[Len(s)].p, s[Len(s)].i, at)
    BY <2>3, With_i
  <2> HIDE DEF w4
  <2>5. w5 = Walk(C, r, g, v1, s[Len(s)].t, s[Len(s)].p, s[Len(s)].i, "vector")
    BY <2>4, With_at
  <2> HIDE DEF w5
  <2> QED  BY <1>0, <1>2, <2>5, Zenon DEF Up, w1, w2, w3, w4, w5, v1, Return
<1>3. ASSUME t # Null, C[t].atom
      PROVE  Up(w) = Walk(CarBack(C, t, p), r, g, s, C[t].car, t, i, "E5")
  <2> DEFINE v1 == [C EXCEPT ![t] = [C[t] EXCEPT !.atom = FALSE]]
             v2 == CarBack(C, t, p)
             w1 == [w EXCEPT !.cell = v1]
             w2 == [w1 EXCEPT !.cell = v2]
             w3 == [w2 EXCEPT !.t = w.cell[w.t].car]
             w4 == [w3 EXCEPT !.p = w.t]
             w5 == [w4 EXCEPT !.at = "E5"]
  <2> HIDE DEF v1, v2
  <2>1. w1 = Walk(v1, r, g, s, t, p, i, at)
    BY With_cell
  <2> HIDE DEF w1
  <2>c. w1.cell = v1
    BY <2>1, WalkFields
  <2>d. v2 = [w1.cell EXCEPT ![w.t] = [w1.cell[w.t] EXCEPT !.car = w.p]]
    BY <1>0, <2>c, Zenon DEF v1, v2, CarBack
  <2>e. v1 = [w.cell EXCEPT ![w.t] = [w.cell[w.t] EXCEPT !.atom = FALSE]]
    BY <1>0, Zenon DEF v1
  <2>2. w2 = Walk(v2, r, g, s, t, p, i, at)
    BY <2>1, With_cell
  <2> HIDE DEF w2
  <2>3. w3 = Walk(v2, r, g, s, C[t].car, p, i, at)
    BY <1>0, <2>2, With_t
  <2> HIDE DEF w3
  <2>4. w4 = Walk(v2, r, g, s, C[t].car, t, i, at)
    BY <1>0, <2>3, With_p
  <2> HIDE DEF w4
  <2>5. w5 = Walk(v2, r, g, s, C[t].car, t, i, "E5")
    BY <2>4, With_at
  <2> HIDE DEF w5
  <2>6. Up(w) = [[[w2 EXCEPT !.t = w.cell[w.t].car] EXCEPT !.p = w.t] EXCEPT !.at = "E5"]
    BY <1>0, <1>3, <2>d, <2>e, Zenon DEF Up, w1, w2
  <2> QED  BY <2>5, <2>6, Zenon DEF w3, w4, w5, v2
<1>4. ASSUME t # Null, ~C[t].atom
      PROVE  Up(w) = Walk(CdrTurned(C, t, p), r, g, s, C[t].cdr, t, i, at)
  <2> DEFINE v1 == CdrTurned(C, t, p)
             w1 == [w EXCEPT !.cell = v1]
             w2 == [w1 EXCEPT !.t = C[t].cdr]
             w3 == [w2 EXCEPT !.p = t]
  <2> HIDE DEF v1
  <2>1. w1 = Walk(v1, r, g, s, t, p, i, at)
    BY With_cell
  <2> HIDE DEF w1
  <2>2. w2 = Walk(v1, r, g, s, C[t].cdr, p, i, at)
    BY <2>1, With_t
  <2> HIDE DEF w2
  <2>3. w3 = Walk(v1, r, g, s, C[t].cdr, t, i, at)
    BY <2>2, With_p
  <2> HIDE DEF w3
  <2> QED  BY <1>0, <1>4, <2>3, Zenon DEF Up, CdrTurned, w1, w2, w3, v1
<1> QED  BY <1>1, <1>2, <1>3, <1>4

-----------------------------------------------------------------------------
\* The fields of a cell, and a cell with another value in one of them.
LEMMA CellFields ==
  ASSUME NEW ty, NEW a, NEW m, NEW x, NEW y, NEW c, c = Fields(ty, a, m, x, y)
  PROVE  /\ c.type = ty /\ c.atom = a /\ c.mark = m /\ c.car = x /\ c.cdr = y
         /\ IsCell(c)
BY SMT DEF Fields, IsCell
LEMMA CellWith ==
  ASSUME NEW ty, NEW a, NEW m, NEW x, NEW y, NEW v, NEW c, c = Fields(ty, a, m, x, y)
  PROVE  /\ [c EXCEPT !.atom = v] = Fields(ty, v, m, x, y)
         /\ [c EXCEPT !.mark = v] = Fields(ty, a, v, x, y)
         /\ [c EXCEPT !.car = v] = Fields(ty, a, m, v, y)
         /\ [c EXCEPT !.cdr = v] = Fields(ty, a, m, x, v)
<1>1. [c EXCEPT !.atom = v] = Fields(ty, v, m, x, y)
  BY SMT DEF Fields
<1>2. [c EXCEPT !.mark = v] = Fields(ty, a, v, x, y)
  BY SMT DEF Fields
<1>3. [c EXCEPT !.car = v] = Fields(ty, a, m, v, y)
  BY SMT DEF Fields
<1>4. [c EXCEPT !.cdr = v] = Fields(ty, a, m, x, v)
  BY SMT DEF Fields
<1> QED  BY <1>1, <1>2, <1>3, <1>4

\* What the steps make of the cell at p: of the others, nothing.
LEMMA VisitedIs ==
  ASSUME NEW C, NEW p \in DOMAIN C, IsCell(C[p])
  PROVE  /\ DOMAIN Visited(C, p) = DOMAIN C
         /\ \A z \in DOMAIN C : z # p => Visited(C, p)[z] = C[z]
         /\ IsCell(Visited(C, p)[p])
         /\ Visited(C, p)[p].type = C[p].type /\ Visited(C, p)[p].atom = C[p].atom
         /\ Visited(C, p)[p].mark = TRUE
         /\ Visited(C, p)[p].car = C[p].car /\ Visited(C, p)[p].cdr = C[p].cdr
<1> DEFINE ty == C[p].type
           a == C[p].atom
           m == C[p].mark
           x == C[p].car
           y == C[p].cdr
<1>0. C[p] = Fields(ty, a, m, x, y)
  BY DEF IsCell
<1> HIDE DEF ty, a, m, x, y
<1> DEFINE v == TRUE
           c == [C[p] EXCEPT !.mark = v]
<1>1. c = Fields(ty, a, v, x, y)
  <2> DEFINE k == C[p]
  <2>1. k = Fields(ty, a, m, x, y)
    BY <1>0
  <2> HIDE DEF v, k
  <2>2. [k EXCEPT !.mark = v] = Fields(ty, a, v, x, y)
    BY <2>1, SMT DEF Fields
  <2> QED  BY <2>2, Zenon DEF k
<1>2. Visited(C, p) = [C EXCEPT ![p] = c]
  BY Zenon DEF Visited
<1> HIDE DEF c
<1>3. /\ DOMAIN Visited(C, p) = DOMAIN C
      /\ \A z \in DOMAIN C : z # p => Visited(C, p)[z] = C[z]
      /\ Visited(C, p)[p] = c
  BY <1>2
<1>6. /\ c.type = ty /\ c.atom = a /\ c.mark = v
      /\ c.car = x /\ c.cdr = y /\ IsCell(c)
  <2> HIDE DEF v
  <2> QED  BY <1>1, CellFields
<1> QED  BY <1>3, <1>6 DEF ty, a, m, x, y
LEMMA CdrTurnedIs ==
  ASSUME NEW C, NEW p \in DOMAIN C, IsCell(C[p]), NEW t
  PROVE  /\ DOMAIN CdrTurned(C, p, t) = DOMAIN C
         /\ \A z \in DOMAIN C : z # p => CdrTurned(C, p, t)[z] = C[z]
         /\ IsCell(CdrTurned(C, p, t)[p])
         /\ CdrTurned(C, p, t)[p].type = C[p].type /\ CdrTurned(C, p, t)[p].atom = C[p].atom
         /\ CdrTurned(C, p, t)[p].mark = C[p].mark
         /\ CdrTurned(C, p, t)[p].car = C[p].car /\ CdrTurned(C, p, t)[p].cdr = t
<1> DEFINE ty == C[p].type
           a == C[p].atom
           m == C[p].mark
           x == C[p].car
           y == C[p].cdr
<1>0. C[p] = Fields(ty, a, m, x, y)
  BY DEF IsCell
<1> HIDE DEF ty, a, m, x, y
<1> DEFINE c == [C[p] EXCEPT !.cdr = t]
<1>1. c = Fields(ty, a, m, x, t)
  <2> DEFINE k == C[p]
  <2>1. k = Fields(ty, a, m, x, y)
    BY <1>0
  <2> HIDE DEF k
  <2>2. [k EXCEPT !.cdr = t] = Fields(ty, a, m, x, t)
    BY <2>1, SMT DEF Fields
  <2> QED  BY <2>2, Zenon DEF k
<1>2. CdrTurned(C, p, t) = [C EXCEPT ![p] = c]
  BY Zenon DEF CdrTurned
<1> HIDE DEF c
<1>3. /\ DOMAIN CdrTurned(C, p, t) = DOMAIN C
      /\ \A z \in DOMAIN C : z # p => CdrTurned(C, p, t)[z] = C[z]
      /\ CdrTurned(C, p, t)[p] = c
  BY <1>2
<1>6. /\ c.type = ty /\ c.atom = a /\ c.mark = m
      /\ c.car = x /\ c.cdr = t /\ IsCell(c)
  BY <1>1, CellFields
<1> QED  BY <1>3, <1>6 DEF ty, a, m, x, y
LEMMA CarTurnedIs ==
  ASSUME NEW C, NEW p \in DOMAIN C, IsCell(C[p]), NEW t,
         NEW V, V = CarTurned(C, p, t)
  PROVE  /\ DOMAIN V = DOMAIN C
         /\ \A z \in DOMAIN C : z # p => V[z] = C[z]
         /\ IsCell(V[p])
         /\ V[p].type = C[p].type /\ V[p].atom
         /\ V[p].mark = C[p].mark
         /\ V[p].car = t /\ V[p].cdr = C[p].cdr
<1> DEFINE ty == C[p].type
           a == C[p].atom
           m == C[p].mark
           x == C[p].car
           y == C[p].cdr
<1>0. C[p] = Fields(ty, a, m, x, y)
  BY DEF IsCell
<1> HIDE DEF ty, a, m, x, y
<1> DEFINE v == TRUE
           c == [C[p] EXCEPT !.car = t]
           D == [C EXCEPT ![p] = c]
           d == [D[p] EXCEPT !.atom = v]
<1>1. c = Fields(ty, a, m, t, y)
  <2> DEFINE k == C[p]
  <2>1. k = Fields(ty, a, m, x, y)
    BY <1>0
  <2> HIDE DEF k
  <2>2. [k EXCEPT !.car = t] = Fields(ty, a, m, t, y)
    BY <2>1, SMT DEF Fields
  <2> QED  BY <2>2, Zenon DEF k
<1>2. V = [D EXCEPT ![p] = d]
  BY Zenon DEF CarTurned
<1> HIDE DEF c
<1>3. DOMAIN D = DOMAIN C /\ D[p] = c /\ \A z \in DOMAIN C : z # p => D[z] = C[z]
  OBVIOUS
<1> HIDE DEF D
<1>4. d = Fields(ty, v, m, t, y)
  <2> HIDE DEF v
  <2> QED  BY <1>1, <1>3, SMT DEF Fields
<1> HIDE DEF d
<1>5. /\ DOMAIN V = DOMAIN C
      /\ \A z \in DOMAIN C : z # p => V[z] = C[z]
      /\ V[p] = d
  BY <1>2, <1>3
<1>6. /\ d.type = ty /\ d.atom = v /\ d.mark = m
      /\ d.car = t /\ d.cdr = y /\ IsCell(d)
  <2> HIDE DEF v
  <2> QED  BY <1>4, CellFields
<1> QED  BY <1>5, <1>6 DEF ty, a, m, x, y
LEMMA CarBackIs ==
  ASSUME NEW C, NEW p \in DOMAIN C, IsCell(C[p]), NEW q,
         NEW V, V = CarBack(C, p, q)
  PROVE  /\ DOMAIN V = DOMAIN C
         /\ \A z \in DOMAIN C : z # p => V[z] = C[z]
         /\ IsCell(V[p])
         /\ V[p].type = C[p].type /\ ~V[p].atom /\ V[p].atom \in BOOLEAN
         /\ V[p].mark = C[p].mark
         /\ V[p].car = q /\ V[p].cdr = C[p].cdr
<1> DEFINE ty == C[p].type
           a == C[p].atom
           m == C[p].mark
           x == C[p].car
           y == C[p].cdr
<1>0. C[p] = Fields(ty, a, m, x, y)
  BY DEF IsCell
<1> HIDE DEF ty, a, m, x, y
<1> DEFINE v == FALSE
           c == [C[p] EXCEPT !.atom = v]
           D == [C EXCEPT ![p] = c]
           d == [D[p] EXCEPT !.car = q]
<1>1. c = Fields(ty, v, m, x, y)
  <2> DEFINE k == C[p]
  <2>1. k = Fields(ty, a, m, x, y)
    BY <1>0
  <2> HIDE DEF v, k
  <2>2. [k EXCEPT !.atom = v] = Fields(ty, v, m, x, y)
    BY <2>1, SMT DEF Fields
  <2> QED  BY <2>2, Zenon DEF k
<1>2. V = [D EXCEPT ![p] = d]
  BY Zenon DEF CarBack
<1> HIDE DEF c
<1>3. DOMAIN D = DOMAIN C /\ D[p] = c /\ \A z \in DOMAIN C : z # p => D[z] = C[z]
  OBVIOUS
<1> HIDE DEF D
<1>4. d = Fields(ty, v, m, q, y)
  <2> HIDE DEF v
  <2> QED  BY <1>1, <1>3, CellWith
<1> HIDE DEF d
<1>5. /\ DOMAIN V = DOMAIN C
      /\ \A z \in DOMAIN C : z # p => V[z] = C[z]
      /\ V[p] = d
  BY <1>2, <1>3
<1>6. /\ d.type = ty /\ d.atom = v /\ d.mark = m
      /\ d.car = q /\ d.cdr = y /\ IsCell(d)
  <2> HIDE DEF v
  <2> QED  BY <1>4, CellFields
<1> QED  BY <1>5, <1>6 DEF ty, a, m, x, y

-----------------------------------------------------------------------------
\* What every memory is like.
LEMMA CellsOf ==
  ASSUME NEW h, WellFormed(h), NEW x \in DOMAIN h.cell
  PROVE  /\ x \in Nat \ {0}
         /\ IsCell(h.cell[x]) /\ h.cell[x].mark = FALSE
         /\ h.cell[x].atom \in BOOLEAN
<1>1. h.cell[x] = Cell(h.cell[x].type, h.cell[x].atom, h.cell[x].car, h.cell[x].cdr)
  BY DEF WellFormed
<1>2. IsCell(h.cell[x]) /\ h.cell[x].mark = FALSE
  BY <1>1, SMT DEF Cell, IsCell, Fields
<1> QED  BY <1>2 DEF WellFormed
LEMMA HalvesNat ==
  ASSUME NEW n \in Nat
  PROVE  Halves(n) \in Nat
BY DEF Halves
LEMMA VectorFacts ==
  ASSUME NEW h, WellFormed(h), NEW x \in DOMAIN h.cell, Vec(h, x)
  PROVE  /\ h.cell[x].atom
         /\ Halves(h.cell[x].car) \in Nat
         /\ Kids(h.cell, x) = (x + 1) .. (x + Halves(h.cell[x].car))
         /\ \A e \in Kids(h.cell, x) :
              /\ e \in DOMAIN h.cell
              /\ ~Vec(h, e)
              /\ \A y \in DOMAIN h.cell : e \in Kids(h.cell, y) => y = x
              /\ \A k \in 1 .. Len(h.roots) : h.roots[k] # e
<1>1. IsVector(h, x)
  BY DEF WellFormed, Vec
<1>2. Kids(h.cell, x) = ElementCells(h.cell, x)
  BY DEF Kids, Vec
<1>3. h.cell[x].car \in Nat
  BY <1>1 DEF IsVector
<1>4. Halves(h.cell[x].car) \in Nat
  BY <1>3, HalvesNat
<1> QED  BY <1>1, <1>2, <1>4 DEF IsVector, ElementCells, Vec
LEMMA PairFacts ==
  ASSUME NEW h, WellFormed(h), NEW x \in DOMAIN h.cell, ~h.cell[x].atom
  PROVE  /\ ~Vec(h, x)
         /\ h.cell[x].car \in Int /\ h.cell[x].cdr \in Int
         /\ h.cell[x].car > 0 => h.cell[x].car \in DOMAIN h.cell
         /\ h.cell[x].cdr > 0 => h.cell[x].cdr \in DOMAIN h.cell
         /\ Kids(h.cell, x) = {q \in {h.cell[x].car, h.cell[x].cdr} : q > 0}
<1>1. ~Vec(h, x)
  BY VectorFacts
<1>2. Kids(h.cell, x) = {q \in {h.cell[x].car, h.cell[x].cdr} : q > 0}
  BY <1>1 DEF Kids, Vec
<1>3. DOMAIN h.cell \subseteq Nat \ {0}
  BY DEF WellFormed
<1>4. Pointer(h.cell, h.cell[x].car) /\ Pointer(h.cell, h.cell[x].cdr)
  BY DEF WellFormed
<1> QED  BY <1>1, <1>2, <1>3, <1>4 DEF Pointer
LEMMA AtomFacts ==
  ASSUME NEW h, WellFormed(h), NEW x \in DOMAIN h.cell, h.cell[x].atom, ~Vec(h, x)
  PROVE  Kids(h.cell, x) = {}
BY DEF Kids, Vec
LEMMA KidsAreCells ==
  ASSUME NEW h, WellFormed(h), NEW x \in DOMAIN h.cell
  PROVE  Kids(h.cell, x) \subseteq DOMAIN h.cell
<1>1. CASE Vec(h, x)
  BY <1>1, VectorFacts
<1>2. CASE ~h.cell[x].atom
  <2>1. /\ Kids(h.cell, x) = {q \in {h.cell[x].car, h.cell[x].cdr} : q > 0}
        /\ h.cell[x].car > 0 => h.cell[x].car \in DOMAIN h.cell
        /\ h.cell[x].cdr > 0 => h.cell[x].cdr \in DOMAIN h.cell
    BY <1>2, PairFacts
  <2> QED  BY <2>1
<1>3. CASE h.cell[x].atom /\ ~Vec(h, x)
  BY <1>3, AtomFacts
<1> QED  BY <1>1, <1>2, <1>3
LEMMA RootFacts ==
  ASSUME NEW h, WellFormed(h), NEW k \in 1 .. Len(h.roots)
  PROVE  /\ h.roots \in Seq(Int) /\ h.roots[k] \in Int
         /\ h.roots[k] > 0 => h.roots[k] \in DOMAIN h.cell
BY DEF WellFormed, Pointer

LEMMA Within ==
  ASSUME NEW h, WellFormed(h), NEW g \in 1 .. Len(h.roots), NEW k \in 1 .. g
  PROVE  k \in 1 .. Len(h.roots)
<1> DEFINE n == Len(h.roots)
<1>1. h.roots \in Seq(Int)
  BY DEF WellFormed
<1>2. n \in Nat
  BY <1>1, LenProperties
<1>3. g \in 1 .. n /\ k \in 1 .. g
  OBVIOUS
<1> HIDE DEF n
<1>4. k \in 1 .. n
  BY <1>2, <1>3
<1> QED  BY <1>4 DEF n

\* The cells that can be reached are the least set that Holds.
LEMMA ReachHolds ==
  ASSUME NEW h, WellFormed(h)
  PROVE  Reach(h) \subseteq DOMAIN h.cell /\ Holds(h, Reach(h))
<1>1. Reach(h) \subseteq DOMAIN h.cell
  BY DEF Reach
<1>2. ASSUME NEW x \in Reach(h), NEW y \in Kids(h.cell, x)
      PROVE  y \in Reach(h)
  <2>1. y \in DOMAIN h.cell
    BY <1>1, KidsAreCells
  <2>2. ASSUME NEW S \in SUBSET DOMAIN h.cell, Holds(h, S)
        PROVE  y \in S
    <3>1. x \in S
      BY <2>2 DEF Reach
    <3> QED  BY <2>2, <3>1 DEF Holds, ClosedUnder
  <2> QED  BY <2>1, <2>2 DEF Reach
<1>3. ASSUME NEW k \in 1 .. Len(h.roots), h.roots[k] > 0
      PROVE  h.roots[k] \in Reach(h)
  <2>1. h.roots[k] \in DOMAIN h.cell
    BY <1>3, RootFacts
  <2>2. ASSUME NEW S \in SUBSET DOMAIN h.cell, Holds(h, S)
        PROVE  h.roots[k] \in S
    BY <1>3, <2>2 DEF Holds
  <2> QED  BY <2>1, <2>2 DEF Reach
<1> QED  BY <1>1, <1>2, <1>3 DEF Holds, ClosedUnder
LEMMA ReachLeast ==
  ASSUME NEW h, NEW S \in SUBSET DOMAIN h.cell, Holds(h, S)
  PROVE  Reach(h) \subseteq S
BY DEF Reach

-----------------------------------------------------------------------------
\* One cell more at the end of the path, one less.
Longer(path, m, q) == [path EXCEPT ![m + 1] = q]
Agrees(h, m, path, l) ==
  /\ \A k \in 1 .. m : l[k] = path[k]
  /\ \A k \in 1 .. m : Prev(h, l, k) = Prev(h, path, k)
LEMMA LongerPath ==
  ASSUME NEW h, NEW m, NEW path, NEW q, IsPath(h, m, path), q \in DOMAIN h.cell,
         q \in Kids(h.cell, path[m]), \A k \in 1 .. m : path[k] # q
  PROVE  /\ IsPath(h, m + 1, Longer(path, m, q))
         /\ Agrees(h, m, path, Longer(path, m, q))
         /\ Longer(path, m, q)[m + 1] = q
         /\ Prev(h, Longer(path, m, q), m + 1) = IF Vec(h, path[m]) THEN Null ELSE path[m]
<1> DEFINE l == Longer(path, m, q)
<1>0. m \in Nat \ {0} /\ path \in [Nat -> DOMAIN h.cell]
  BY DEF IsPath
<1>1. l \in [Nat -> DOMAIN h.cell] /\ l[m + 1] = q /\ \A k \in 1 .. m : l[k] = path[k]
  BY <1>0 DEF Longer
<1> HIDE DEF l
<1>2. \A k \in 1 .. m : l[k + 1] \in Kids(h.cell, l[k])
  <2> TAKE k \in 1 .. m
  <2>1. CASE k = m
    BY <1>0, <1>1, <2>1
  <2>2. CASE k # m
    <3>1. k \in 1 .. m - 1 /\ k + 1 \in 1 .. m
      BY <1>0, <2>2
    <3> QED  BY <1>1, <3>1 DEF IsPath
  <2> QED  BY <2>1, <2>2
<1>3. ASSUME NEW j \in 1 .. m + 1, NEW k \in 1 .. m + 1, l[j] = l[k]
      PROVE  j = k
  <2>1. CASE j \in 1 .. m /\ k \in 1 .. m
    BY <1>1, <1>3, <2>1 DEF IsPath
  <2>2. CASE j = m + 1 /\ k \in 1 .. m
    BY <1>1, <1>3, <2>2
  <2>3. CASE k = m + 1 /\ j \in 1 .. m
    BY <1>1, <1>3, <2>3
  <2> QED  BY <1>0, <2>1, <2>2, <2>3
<1>4. IsPath(h, m + 1, l)
  <2>1. m + 1 \in Nat \ {0} /\ (m + 1) - 1 = m
    BY <1>0
  <2> QED  BY <1>1, <1>2, <1>3, <2>1 DEF IsPath
<1>5. ASSUME NEW k \in 1 .. m
      PROVE  Prev(h, l, k) = Prev(h, path, k)
  <2>1. k # 1 => k - 1 \in 1 .. m
    BY <1>0
  <2> QED  BY <1>1, <2>1 DEF Prev
<1>6. Prev(h, l, m + 1) = IF Vec(h, path[m]) THEN Null ELSE path[m]
  <2>1. m + 1 # 1 /\ (m + 1) - 1 = m /\ m \in 1 .. m
    BY <1>0
  <2> QED  BY <1>1, <2>1 DEF Prev
<1> QED  BY <1>1, <1>4, <1>5, <1>6 DEF l, Agrees
LEMMA ShorterPath ==
  ASSUME NEW h, NEW m, NEW path, IsPath(h, m, path), m # 1
  PROVE  IsPath(h, m - 1, path) /\ m - 1 \in 1 .. m /\ path[m - 1] # path[m]
<1>1. m \in Nat \ {0} /\ m - 1 \in Nat \ {0} /\ 1 .. m - 1 \subseteq 1 .. m
      /\ 1 .. m - 1 - 1 \subseteq 1 .. m - 1 /\ m - 1 \in 1 .. m /\ m \in 1 .. m /\ m - 1 # m
  BY DEF IsPath
<1> QED  BY <1>1 DEF IsPath

\* The calls that wait: of a cell that is no vector, none.
LEMMA CallsLonger ==
  ASSUME NEW h, NEW m, NEW path, NEW pos, NEW calls, NEW q,
         IsPath(h, m, path), Waiting(h, calls, m, path, pos),
         q \in DOMAIN h.cell, q \in Kids(h.cell, path[m]), \A k \in 1 .. m : path[k] # q,
         ~Vec(h, path[m])
  PROVE  Waiting(h, calls, m + 1, Longer(path, m, q), pos)
<1> DEFINE l == Longer(path, m, q)
<1>0. m \in Nat \ {0} /\ 1 .. m - 1 \subseteq 1 .. m /\ (m + 1) - 1 = m
  BY DEF IsPath
<1>1. /\ \A k \in 1 .. m : l[k] = path[k]
      /\ \A k \in 1 .. m : Prev(h, l, k) = Prev(h, path, k)
  <2>1. Agrees(h, m, path, Longer(path, m, q))
    BY LongerPath
  <2> QED  BY <2>1 DEF Agrees
<1> HIDE DEF l
<1>2. \A k \in 1 .. m - 1 : Call(h, l, k) = Call(h, path, k)
  <2> TAKE k \in 1 .. m - 1
  <2>1. k \in 1 .. m /\ k + 1 \in 1 .. m
    BY <1>0
  <2> QED  BY <1>1, <2>1 DEF Call
<1>3. \A j \in 1 .. Len(calls) :
        /\ pos[j] \in 1 .. m /\ Vec(h, l[pos[j]])
        /\ calls[j] = Call(h, l, pos[j])
  BY <1>0, <1>1, <1>2 DEF Waiting
<1>4. \A k \in 1 .. m : Vec(h, l[k]) => \E j \in 1 .. Len(calls) : pos[j] = k
  <2> SUFFICES ASSUME NEW k \in 1 .. m, Vec(h, l[k])
               PROVE  \E j \in 1 .. Len(calls) : pos[j] = k
    OBVIOUS
  <2>1. k # m /\ Vec(h, path[k])
    BY <1>1
  <2>2. k \in 1 .. m - 1
    BY <1>0, <2>1
  <2> QED  BY <2>1, <2>2 DEF Waiting
<1> QED  BY <1>0, <1>3, <1>4 DEF Waiting, l
LEMMA CallsShorter ==
  ASSUME NEW h, NEW m, NEW path, NEW pos, NEW calls,
         IsPath(h, m, path), Waiting(h, calls, m, path, pos), m # 1, ~Vec(h, path[m - 1])
  PROVE  Waiting(h, calls, m - 1, path, pos)
<1>0. /\ m \in Nat \ {0} /\ 1 .. m - 1 - 1 \subseteq 1 .. m - 1
      /\ \A k \in 1 .. m - 1 : k # m - 1 => k \in 1 .. m - 1 - 1
  BY DEF IsPath
<1>1. \A j \in 1 .. Len(calls) : pos[j] \in 1 .. m - 1 - 1
  BY <1>0 DEF Waiting
<1> QED  BY <1>0, <1>1 DEF Waiting
\* A call more for an element of the vector at the end of the path, and the
\* return from it.
LEMMA CallMore ==
  ASSUME NEW h, NEW m, NEW path, NEW pos, NEW calls, NEW q, WellFormed(h),
         IsPath(h, m, path), Waiting(h, calls, m, path, pos),
         q \in DOMAIN h.cell, q \in Kids(h.cell, path[m]), \A k \in 1 .. m : path[k] # q,
         Vec(h, path[m])
  PROVE  LET c == [t |-> Prev(h, path, m), p |-> path[m], i |-> q - path[m]]
             u == [pos EXCEPT ![Len(calls) + 1] = m]
         IN  /\ Waiting(h, Append(calls, c), m + 1, Longer(path, m, q), u)
             /\ u \in [Nat -> Nat]
<1> DEFINE l == Longer(path, m, q)
           n == Len(calls)
           Frame == [t : Int, p : Int, i : Int]
           c == [t |-> Prev(h, path, m), p |-> path[m], i |-> q - path[m]]
           a == Append(calls, c)
           u == [pos EXCEPT ![n + 1] = m]
<1>0. /\ m \in Nat \ {0} /\ m \in 1 .. m /\ 1 .. m - 1 \subseteq 1 .. m /\ (m + 1) - 1 = m
      /\ path \in [Nat -> DOMAIN h.cell] /\ DOMAIN h.cell \subseteq Nat \ {0}
  BY DEF IsPath, WellFormed
<1>1. /\ \A k \in 1 .. m : l[k] = path[k]
      /\ l[m + 1] = q
      /\ \A k \in 1 .. m : Prev(h, l, k) = Prev(h, path, k)
  <2>1. Agrees(h, m, path, Longer(path, m, q)) /\ Longer(path, m, q)[m + 1] = q
    BY LongerPath
  <2> QED  BY <2>1 DEF Agrees
<1>2. calls \in Seq(Frame) /\ n \in Nat /\ pos \in [Nat -> Nat]
  BY LenProperties DEF Waiting
<1>n. n \in Nat
  BY <1>2
<1>3. c \in Frame
  <2>1. path[m] \in Int /\ q - path[m] \in Int
    BY <1>0
  <2>2. Prev(h, path, m) \in Int
    <3>1. m # 1 => path[m - 1] \in Int
      BY <1>0
    <3> QED  BY <3>1 DEF Prev, Null
  <2> QED  BY <2>1, <2>2
<1>4. c = Call(h, l, m)
  BY <1>0, <1>1 DEF Call
<1> HIDE DEF Frame, c, l
<1>5. /\ a \in Seq(Frame) /\ Len(a) = n + 1 /\ a[n + 1] = c
      /\ \A j \in 1 .. n : a[j] = calls[j]
  BY <1>2, <1>3, AppendProperties
<1>6. u \in [Nat -> Nat] /\ u[n + 1] = m /\ \A j \in 1 .. n : u[j] = pos[j]
  <2> HIDE DEF n
  <2>1. n + 1 \in Nat /\ m \in Nat /\ \A j \in 1 .. n : j \in Nat /\ j # n + 1
    BY <1>0, <1>n
  <2> QED  BY <1>2, <2>1
<1> HIDE DEF a, u, n
<1>7. \A k \in 1 .. m - 1 : Call(h, l, k) = Call(h, path, k)
  <2> TAKE k \in 1 .. m - 1
  <2>1. k \in 1 .. m /\ k + 1 \in 1 .. m
    BY <1>0
  <2> QED  BY <1>1, <2>1 DEF Call
<1>8. \A j \in 1 .. n : /\ pos[j] \in 1 .. m - 1 /\ Vec(h, path[pos[j]])
                        /\ calls[j] = Call(h, path, pos[j])
  BY DEF Waiting, n
<1>9. ASSUME NEW j \in 1 .. n + 1
      PROVE  u[j] \in 1 .. m /\ Vec(h, l[u[j]]) /\ a[j] = Call(h, l, u[j])
  <2>1. CASE j = n + 1
    BY <1>0, <1>1, <1>4, <1>5, <1>6, <2>1
  <2>2. CASE j # n + 1
    <3>1. j \in 1 .. n
      BY <1>2, <2>2
    <3>2. u[j] \in 1 .. m - 1 /\ u[j] = pos[j]
      BY <1>6, <1>8, <3>1
    <3>3. Vec(h, l[u[j]])
      BY <1>0, <1>1, <1>8, <3>1, <3>2
    <3>4. a[j] = Call(h, l, u[j])
      BY <1>5, <1>7, <1>8, <3>1, <3>2
    <3> QED  BY <1>0, <3>2, <3>3, <3>4
  <2> QED  BY <2>1, <2>2
<1>10. ASSUME NEW i \in 1 .. n + 1, NEW j \in 1 .. n + 1, i < j
       PROVE  u[i] < u[j]
  <2>1. i \in 1 .. n
    BY <1>2, <1>10
  <2>2. u[i] = pos[i] /\ pos[i] \in 1 .. m - 1
    BY <1>6, <1>8, <2>1
  <2>3. CASE j = n + 1
    BY <1>0, <1>6, <2>2, <2>3
  <2>4. CASE j # n + 1
    <3>1. j \in 1 .. n
      BY <1>2, <2>4
    <3>2. pos[i] < pos[j]
      BY <1>10, <2>1, <3>1 DEF Waiting, n
    <3> QED  BY <1>6, <2>2, <3>1, <3>2
  <2> QED  BY <2>3, <2>4
<1>11. ASSUME NEW k \in 1 .. m, Vec(h, l[k])
       PROVE  \E j \in 1 .. n + 1 : u[j] = k
  <2>1. CASE k = m
    <3>1. n + 1 \in 1 .. n + 1
      BY <1>n
    <3> QED  BY <1>6, <2>1, <3>1
  <2>2. CASE k # m
    <3>1. k \in 1 .. m - 1 /\ Vec(h, path[k])
      BY <1>0, <1>1, <1>11, <2>2
    <3>2. PICK j \in 1 .. n : pos[j] = k
      BY <3>1 DEF Waiting, n
    <3>3. \A i \in 1 .. n : i \in 1 .. n + 1
      BY <1>n
    <3>4. u[j] = k /\ j \in 1 .. n + 1
      BY <1>6, <3>2, <3>3
    <3> QED  BY <3>4
  <2> QED  BY <2>1, <2>2
<1>12. Waiting(h, a, m + 1, l, u)
  BY <1>0, <1>5, <1>6, <1>9, <1>10, <1>11 DEF Waiting, Frame
<1> QED  BY <1>6, <1>12 DEF a, u, n, l, c
LEMMA CallReturns ==
  ASSUME NEW h, NEW m, NEW path, NEW pos, NEW calls, WellFormed(h),
         IsPath(h, m, path), Waiting(h, calls, m, path, pos), m # 1, Vec(h, path[m - 1])
  PROVE  /\ Len(calls) # 0
         /\ calls[Len(calls)] = Call(h, path, m - 1)
         /\ Waiting(h, SubSeq(calls, 1, Len(calls) - 1), m - 1, path, pos)
<1> DEFINE Frame == [t : Int, p : Int, i : Int]
           n == Len(calls)
           a == SubSeq(calls, 1, n - 1)
<1>0. /\ m \in Nat \ {0} /\ m - 1 \in 1 .. m - 1
      /\ \A k \in 1 .. m - 1 - 1 : k \in 1 .. m - 1 /\ k # m - 1
      /\ \A k \in 1 .. m - 1 : k <= m - 1 /\ (k # m - 1 => k \in 1 .. m - 1 - 1)
  BY DEF IsPath
<1>1. calls \in Seq(Frame) /\ n \in Nat /\ pos \in [Nat -> Nat]
  BY LenProperties DEF Waiting
<1> HIDE DEF Frame, n
<1>n. n \in Nat
  BY <1>1
<1>2. \A j \in 1 .. n : /\ pos[j] \in 1 .. m - 1 /\ Vec(h, path[pos[j]])
                        /\ calls[j] = Call(h, path, pos[j])
  BY DEF Waiting, n
<1>3. \A i, j \in 1 .. n : i < j => pos[i] < pos[j]
  BY DEF Waiting, n
<1>4. PICK j \in 1 .. n : pos[j] = m - 1
  BY <1>0 DEF Waiting, n
<1>5. n # 0 /\ n \in 1 .. n /\ j \in Nat
  BY <1>1, <1>4
<1>6. j = n
  <2> SUFFICES ASSUME j # n PROVE FALSE
    OBVIOUS
  <2>1. j < n
    BY <1>1
  <2>2. pos[j] < pos[n] /\ pos[n] \in 1 .. m - 1
    BY <1>2, <1>3, <1>5, <2>1
  <2> QED  BY <1>0, <1>4, <2>2
<1>7. /\ a \in Seq(Frame) /\ Len(a) = n - 1
      /\ \A k \in 1 .. n - 1 : a[k] = calls[k]
  <2>0. /\ n - 1 \in Int /\ 1 .. n - 1 \subseteq 1 .. n
        /\ (n - 1) - 1 + 1 = n - 1 /\ \A k \in 1 .. n - 1 : 1 + k - 1 = k
    BY <1>n
  <2>1. \A k \in 1 .. n - 1 : calls[k] \in Frame
    BY <1>1, <2>0, ElementOfSeq DEF n
  <2>2. /\ a \in Seq(Frame)
        /\ Len(a) = IF 1 <= n - 1 THEN (n - 1) - 1 + 1 ELSE 0
        /\ \A k \in 1 .. (n - 1) - 1 + 1 : a[k] = calls[1 + k - 1]
    BY <2>0, <2>1, SubSeqProperties
  <2> QED  BY <1>n, <1>5, <2>0, <2>2
<1> HIDE DEF a
<1>8. 1 .. n - 1 \subseteq 1 .. n /\ \A k \in 1 .. n - 1 : k < n
  BY <1>1
<1>9. ASSUME NEW k \in 1 .. n - 1
      PROVE  /\ pos[k] \in 1 .. m - 1 - 1 /\ Vec(h, path[pos[k]])
             /\ a[k] = Call(h, path, pos[k])
  <2>1. pos[k] < pos[n] /\ pos[k] \in 1 .. m - 1
    BY <1>2, <1>3, <1>5, <1>8
  <2>2. pos[k] # m - 1
    BY <1>0, <1>4, <1>6, <2>1
  <2> QED  BY <1>0, <1>2, <1>7, <1>8, <2>1, <2>2
<1>10. ASSUME NEW k \in 1 .. m - 1 - 1, Vec(h, path[k])
       PROVE  \E i \in 1 .. n - 1 : pos[i] = k
  <2>1. PICK i \in 1 .. n : pos[i] = k
    BY <1>0, <1>10 DEF Waiting, n
  <2>2. i # n
    BY <1>0, <1>4, <1>6, <2>1
  <2>3. i \in 1 .. n - 1
    BY <1>1, <2>2
  <2> QED  BY <2>1, <2>3
<1>11. Waiting(h, a, m - 1, path, pos)
  BY <1>1, <1>3, <1>7, <1>8, <1>9, <1>10 DEF Waiting, Frame
<1> QED  BY <1>2, <1>4, <1>5, <1>6, <1>11 DEF a, n

-----------------------------------------------------------------------------
\* A step that changes the cells from C to V takes no mark away.
Grows(h, C, V) ==
  /\ DOMAIN C = DOMAIN h.cell /\ DOMAIN V = DOMAIN h.cell
  /\ \A x \in DOMAIN h.cell : C[x].mark => V[x].mark
LEMMA MarkedStays ==
  ASSUME NEW h, NEW C, NEW V, Grows(h, C, V), NEW S \in SUBSET DOMAIN h.cell, AllMarked(C, S)
  PROVE  AllMarked(V, S)
BY DEF Grows, AllMarked
\* A place of the path that the step leaves alone.
Place(h, C, path, k) ==
  IF Vec(h, path[k]) THEN Partly(h, C, path, k) ELSE Inverted(h, C, path, k)
LEMMA PlaceStays ==
  ASSUME NEW h, WellFormed(h), NEW C, NEW V, Grows(h, C, V), NEW path, NEW l, NEW k,
         path[k] \in DOMAIN h.cell, path[k + 1] \in Kids(h.cell, path[k]),
         V[path[k]] = C[path[k]], l[k] = path[k], l[k + 1] = path[k + 1],
         Prev(h, l, k) = Prev(h, path, k), Place(h, C, path, k)
  PROVE  Place(h, V, l, k)
<1>1. CASE Vec(h, path[k])
  <2>1. Partly(h, C, path, k)
    BY <1>1 DEF Place
  <2>2. Kids(h.cell, path[k]) \subseteq DOMAIN h.cell
    BY KidsAreCells
  <2>3. Partly(h, V, l, k)
    BY <2>1, <2>2 DEF Partly, Grows
  <2> QED  BY <1>1, <2>3 DEF Place
<1>2. CASE ~Vec(h, path[k])
  <2>1. Inverted(h, C, path, k)
    BY <1>2 DEF Place
  <2>2. ~h.cell[path[k]].atom
    BY <1>2, AtomFacts
  <2>3. Marked(C, h.cell[path[k]].car) => Marked(V, h.cell[path[k]].car)
    BY <2>2, PairFacts DEF Marked, Grows
  <2>4. Inverted(h, V, l, k)
    BY <2>1, <2>3 DEF Inverted
  <2> QED  BY <1>2, <2>4 DEF Place
<1> QED  BY <1>1, <1>2

\* A step to another label at the same cell: only Here is said of it.
LEMMA LabelStays ==
  ASSUME NEW h, NEW C, NEW given, NEW calls, NEW t, NEW p, NEW i, NEW at, NEW to,
         OnTheWay(h, C, given, calls, t, p, i, at), to \in Labels, Here(h, C, p, i, to)
  PROVE  OnTheWay(h, C, given, calls, t, p, i, to)
BY DEF OnTheWay, OnPath
LEMMA VisitStays ==
  ASSUME NEW h, WellFormed(h), NEW C, NEW given, NEW calls, NEW t, NEW p, NEW i,
         OnTheWay(h, C, given, calls, t, p, i, "E2")
  PROVE  OnTheWay(h, Visited(C, p), given, calls, t, p, 0,
                  IF C[p].type = "vector" THEN "vector" ELSE "E4")
<1>1. PICK m \in Nat \ {0}, path \in [Nat -> DOMAIN h.cell], pos \in [Nat -> Nat] :
        OnPath(h, C, given, calls, t, p, i, "E2", m, path, pos)
  BY DEF OnTheWay
<1> DEFINE V == Visited(C, p)
           at == IF C[p].type = "vector" THEN "vector" ELSE "E4"
<1>2. /\ IsPath(h, m, path) /\ path[m] = p /\ t = Prev(h, path, m)
      /\ given \in 1 .. Len(h.roots) /\ path[1] = h.roots[given]
      /\ Waiting(h, calls, m, path, pos)
      /\ Cells(h, C, m, path) /\ Black(h, C, m, path) /\ Sound(h, C)
      /\ \A k \in 1 .. m : path[k] \in Reach(h)
      /\ Asked(h, C, given, path)
  BY <1>1 DEF OnPath, About
<1>3. /\ p \in DOMAIN h.cell /\ m \in 1 .. m /\ 1 .. m - 1 \subseteq 1 .. m
      /\ \A k \in 1 .. m - 1 : k # m
  <2>1. p \in DOMAIN h.cell
    BY <1>2
  <2> QED  BY <2>1
<1>4. \A k \in 1 .. m - 1 : path[k] # p
  BY <1>2, <1>3 DEF IsPath
<1>5. DOMAIN C = DOMAIN h.cell /\ Undisturbed(h, C, p)
  BY <1>2, <1>3, <1>4 DEF Cells
<1>6. /\ DOMAIN V = DOMAIN h.cell
      /\ \A x \in DOMAIN h.cell : x # p => V[x] = C[x]
      /\ IsCell(V[p]) /\ V[p].type = C[p].type /\ V[p].atom = C[p].atom
      /\ V[p].mark = TRUE /\ V[p].car = C[p].car /\ V[p].cdr = C[p].cdr
  <2>1. p \in DOMAIN C /\ IsCell(C[p])
    BY <1>3, <1>5 DEF Undisturbed
  <2> QED  BY <1>5, <2>1, VisitedIs
<1> HIDE DEF V
<1>7. V[p].mark /\ Grows(h, C, V)
  BY <1>5, <1>6 DEF Grows
<1>8. Undisturbed(h, V, p)
  BY <1>5, <1>6 DEF Undisturbed
<1>9. Cells(h, V, m, path)
  <2>1. ASSUME NEW x \in DOMAIN h.cell, \A k \in 1 .. m - 1 : path[k] # x \/ Vec(h, x)
        PROVE  Undisturbed(h, V, x)
    <3>1. Undisturbed(h, C, x)
      BY <1>2, <2>1 DEF Cells
    <3> QED  BY <1>6, <1>8, <3>1 DEF Undisturbed
  <2>2. ASSUME NEW k \in 1 .. m - 1
        PROVE  Place(h, V, path, k)
    <3>1. Place(h, C, path, k)
      BY <1>2 DEF Cells, Place
    <3>2. path[k] \in DOMAIN h.cell /\ path[k + 1] \in Kids(h.cell, path[k])
      <4>1. k \in Nat
        OBVIOUS
      <4> QED  BY <1>2, <4>1 DEF IsPath
    <3>3. V[path[k]] = C[path[k]]
      BY <1>4, <1>6, <3>2
    <3> QED  BY <1>7, <3>1, <3>2, <3>3, PlaceStays
  <2> QED  BY <1>6, <2>1, <2>2 DEF Cells, Place
<1>10. Black(h, V, m, path)
  <2> SUFFICES ASSUME NEW x \in DOMAIN h.cell, V[x].mark, \A k \in 1 .. m : path[k] # x
               PROVE  AllMarked(V, Kids(h.cell, x))
    BY DEF Black
  <2>1. x # p /\ C[x].mark
    BY <1>2, <1>3, <1>6
  <2>2. AllMarked(C, Kids(h.cell, x))
    BY <1>2, <2>1 DEF Black
  <2> QED  BY <1>7, <2>2, KidsAreCells, MarkedStays
<1>11. Sound(h, V)
  BY <1>2, <1>3, <1>6 DEF Sound
<1>12. Asked(h, V, given, path)
  <2> SUFFICES ASSUME NEW k \in 1 .. given, h.roots[k] > 0
               PROVE  V[h.roots[k]].mark \/ h.roots[k] = path[1]
    BY DEF Asked
  <2>1. k \in 1 .. Len(h.roots)
    <3>1. given \in 1 .. Len(h.roots)
      BY <1>2
    <3> QED  BY <3>1, Within
  <2>2. h.roots[k] \in DOMAIN h.cell
    BY <2>1, RootFacts
  <2> QED  BY <1>2, <1>7, <2>2 DEF Asked, Grows
<1>13. C[p].type = h.cell[p].type
  BY <1>5 DEF Undisturbed
<1>14. at \in Labels /\ Here(h, V, p, 0, at)
  <2>1. CASE Vec(h, p)
    <3>1. \A e \in Kids(h.cell, p) : ~(e <= p + 0)
      <4>1. p \in Nat
        BY <1>3, CellsOf
      <4>2. /\ Halves(h.cell[p].car) \in Nat
            /\ Kids(h.cell, p) = (p + 1) .. (p + Halves(h.cell[p].car))
        BY <1>3, <2>1, VectorFacts
      <4> HIDE DEF at
      <4> QED  BY <4>1, <4>2
    <3> QED  BY <1>7, <1>13, <2>1, <3>1 DEF Here, Labels, Vec
  <2>2. CASE ~Vec(h, p)
    BY <1>7, <1>13, <2>2 DEF Here, Labels, Vec
  <2> QED  BY <2>1, <2>2
<1>15. OnPath(h, V, given, calls, t, p, 0, at, m, path, pos)
  BY <1>2, <1>9, <1>10, <1>11, <1>12, <1>14 DEF OnPath, About
<1> QED  BY <1>15 DEF OnTheWay, V

\* What is so at every cell of the path.
LEMMA PathFacts ==
  ASSUME NEW h, WellFormed(h), NEW C, NEW m, NEW path,
         IsPath(h, m, path), Cells(h, C, m, path)
  PROVE  /\ m \in Nat \ {0} /\ m \in 1 .. m /\ DOMAIN C = DOMAIN h.cell
         /\ \A k \in 1 .. m : path[k] \in DOMAIN h.cell
         /\ \A k \in 1 .. m - 1 :
              /\ k \in 1 .. m /\ k + 1 \in 1 .. m /\ path[k] # path[m]
              /\ path[k + 1] \in Kids(h.cell, path[k])
              /\ Place(h, C, path, k) /\ C[path[k]].mark
         /\ Undisturbed(h, C, path[m])
<1>1. m \in Nat \ {0} /\ m \in 1 .. m /\ path \in [Nat -> DOMAIN h.cell]
  BY DEF IsPath
<1>2. \A k \in 1 .. m : path[k] \in DOMAIN h.cell
  BY <1>1
<1>3. \A k \in 1 .. m - 1 : k \in 1 .. m /\ k + 1 \in 1 .. m /\ k # m
  BY <1>1
<1>4. \A k \in 1 .. m - 1 : path[k] # path[m]
  BY <1>1, <1>3 DEF IsPath
<1>5. \A k \in 1 .. m - 1 : Place(h, C, path, k)
  BY DEF Cells, Place
<1>6. \A k \in 1 .. m - 1 : C[path[k]].mark
  BY <1>5 DEF Place, Partly, Inverted
<1>7. Undisturbed(h, C, path[m])
  BY <1>1, <1>2, <1>4 DEF Cells
<1> QED  BY <1>1, <1>2, <1>3, <1>4, <1>5, <1>6, <1>7 DEF IsPath, Cells

LEMMA AtHere ==
  ASSUME NEW h, WellFormed(h), NEW C, NEW given, NEW calls, NEW t, NEW p, NEW i, NEW at,
         OnTheWay(h, C, given, calls, t, p, i, at)
  PROVE  Here(h, C, p, i, at) /\ p \in DOMAIN h.cell /\ Undisturbed(h, C, p)
<1>1. PICK m \in Nat \ {0}, path \in [Nat -> DOMAIN h.cell], pos \in [Nat -> Nat] :
        OnPath(h, C, given, calls, t, p, i, at, m, path, pos)
  BY DEF OnTheWay
<1>2. /\ Here(h, C, p, i, at) /\ path[m] = p
      /\ IsPath(h, m, path) /\ Cells(h, C, m, path)
  BY <1>1 DEF OnPath, About
<1>3. path[m] \in DOMAIN h.cell /\ Undisturbed(h, C, path[m])
  BY <1>2, PathFacts
<1> QED  BY <1>2, <1>3

\* What is said of all the cells stays true when the path gets a cell more, if
\* the step leaves all cells alone but the one that was the last.
LEMMA DownStays ==
  ASSUME NEW h, WellFormed(h), NEW C, NEW V, NEW given, NEW m, NEW path, NEW q,
         About(h, C, given, m, path),
         q \in DOMAIN h.cell, q \in Kids(h.cell, path[m]), \A k \in 1 .. m : path[k] # q,
         DOMAIN V = DOMAIN h.cell,
         \A x \in DOMAIN h.cell : V[x].mark <=> C[x].mark,
         \A x \in DOMAIN h.cell : x # path[m] => V[x] = C[x],
         Place(h, V, Longer(path, m, q), m),
         Vec(h, path[m]) => Undisturbed(h, V, path[m])
  PROVE  About(h, V, given, m + 1, Longer(path, m, q))
<1> DEFINE l == Longer(path, m, q)
<1>1. /\ IsPath(h, m, path) /\ Cells(h, C, m, path) /\ Black(h, C, m, path) /\ Sound(h, C)
      /\ \A k \in 1 .. m : path[k] \in Reach(h)
      /\ given \in 1 .. Len(h.roots) /\ path[1] = h.roots[given] /\ Asked(h, C, given, path)
  BY DEF About
<1>2. /\ IsPath(h, m + 1, l) /\ l[m + 1] = q
      /\ \A k \in 1 .. m : l[k] = path[k]
      /\ \A k \in 1 .. m : Prev(h, l, k) = Prev(h, path, k)
  <2>1. IsPath(h, m, path)
    BY <1>1
  <2>2. /\ IsPath(h, m + 1, Longer(path, m, q)) /\ Longer(path, m, q)[m + 1] = q
        /\ Agrees(h, m, path, Longer(path, m, q))
    BY <2>1, LongerPath
  <2> QED  BY <2>2 DEF Agrees
<1> HIDE DEF l
<1>3. /\ m \in Nat \ {0} /\ m \in 1 .. m /\ DOMAIN C = DOMAIN h.cell
      /\ \A k \in 1 .. m : path[k] \in DOMAIN h.cell
      /\ \A k \in 1 .. m - 1 :
              /\ k \in 1 .. m /\ k + 1 \in 1 .. m /\ path[k] # path[m]
              /\ path[k + 1] \in Kids(h.cell, path[k])
              /\ Place(h, C, path, k)
  BY <1>1, PathFacts
<1>n. /\ (m + 1) - 1 = m /\ 1 \in 1 .. m
      /\ \A k \in 1 .. m : k # m => k \in 1 .. m - 1
      /\ \A k \in 1 .. m + 1 : k # m + 1 => k \in 1 .. m
      /\ \A k \in 1 .. m : k \in 1 .. m + 1
  BY <1>3
<1>g. Grows(h, C, V)
  BY <1>3 DEF Grows
<1>4. Cells(h, V, m + 1, l)
  <2>1. ASSUME NEW x \in DOMAIN h.cell, \A k \in 1 .. m : l[k] # x \/ Vec(h, x)
        PROVE  Undisturbed(h, V, x)
    <3>1. CASE x = path[m]
      BY <1>2, <1>3, <2>1, <3>1
    <3>2. CASE x # path[m]
      <4>1. Undisturbed(h, C, x)
        BY <1>1, <1>2, <1>3, <2>1 DEF Cells
      <4> QED  BY <3>2, <4>1 DEF Undisturbed
    <3> QED  BY <3>1, <3>2
  <2>2. ASSUME NEW k \in 1 .. m
        PROVE  Place(h, V, l, k)
    <3>1. CASE k # m
      <4>1. k \in 1 .. m - 1
        BY <1>n, <3>1
      <4>2. V[path[k]] = C[path[k]]
        BY <1>3, <4>1
      <4> QED  BY <1>g, <1>2, <1>3, <4>1, <4>2, PlaceStays
    <3> QED  BY <3>1 DEF l
  <2> QED  BY <1>n, <2>1, <2>2 DEF Cells, Place
<1>5. Black(h, V, m + 1, l)
  <2> SUFFICES ASSUME NEW x \in DOMAIN h.cell, V[x].mark, \A k \in 1 .. m + 1 : l[k] # x
               PROVE  AllMarked(V, Kids(h.cell, x))
    BY DEF Black
  <2>1. \A k \in 1 .. m : path[k] # x
    BY <1>2, <1>n
  <2>2. AllMarked(C, Kids(h.cell, x))
    BY <1>1, <2>1 DEF Black
  <2> QED  BY <1>g, <2>2, KidsAreCells, MarkedStays
<1>6. Sound(h, V)
  BY <1>1 DEF Sound
<1>7. \A k \in 1 .. m + 1 : l[k] \in Reach(h)
  <2>1. q \in Reach(h)
    BY <1>1, <1>3, ReachHolds DEF Holds, ClosedUnder
  <2> QED  BY <1>1, <1>2, <1>n, <2>1
<1>8. l[1] = path[1] /\ Asked(h, V, given, l)
  <2>1. l[1] = path[1]
    BY <1>2, <1>n
  <2>2. ASSUME NEW k \in 1 .. given, h.roots[k] > 0
        PROVE  V[h.roots[k]].mark \/ h.roots[k] = path[1]
    <3>1. k \in 1 .. Len(h.roots)
      <4>1. given \in 1 .. Len(h.roots)
        BY <1>1
      <4> QED  BY <4>1, Within
    <3>2. h.roots[k] \in DOMAIN h.cell
      BY <2>2, <3>1, RootFacts
    <3> QED  BY <1>1, <2>2, <3>2 DEF Asked
  <2> QED  BY <2>1, <2>2 DEF Asked
<1> QED  BY <1>1, <1>2, <1>4, <1>5, <1>6, <1>7, <1>8 DEF About, l
LEMMA UpStays ==
  ASSUME NEW h, WellFormed(h), NEW C, NEW V, NEW given, NEW m, NEW path,
         About(h, C, given, m, path), m # 1,
         AllMarked(C, Kids(h.cell, path[m])),
         DOMAIN V = DOMAIN h.cell,
         \A x \in DOMAIN h.cell : V[x].mark <=> C[x].mark,
         \A x \in DOMAIN h.cell : x # path[m - 1] => V[x] = C[x],
         Undisturbed(h, V, path[m - 1])
  PROVE  About(h, V, given, m - 1, path)
<1>1. /\ IsPath(h, m, path) /\ Cells(h, C, m, path) /\ Black(h, C, m, path) /\ Sound(h, C)
      /\ \A k \in 1 .. m : path[k] \in Reach(h)
      /\ given \in 1 .. Len(h.roots) /\ path[1] = h.roots[given] /\ Asked(h, C, given, path)
  BY DEF About
<1>2. IsPath(h, m - 1, path)
  BY <1>1, ShorterPath
<1>3. /\ m \in Nat \ {0} /\ DOMAIN C = DOMAIN h.cell
      /\ \A k \in 1 .. m : path[k] \in DOMAIN h.cell
      /\ \A k \in 1 .. m - 1 :
              /\ k \in 1 .. m /\ k + 1 \in 1 .. m /\ path[k] # path[m]
              /\ path[k + 1] \in Kids(h.cell, path[k])
              /\ Place(h, C, path, k)
  BY <1>1, PathFacts
<1>n. /\ m - 1 \in 1 .. m - 1
      /\ \A k \in 1 .. m - 1 - 1 : k \in 1 .. m - 1 /\ k \in 1 .. m /\ k # m - 1
      /\ \A k \in 1 .. m - 1 : k # m - 1 => k \in 1 .. m - 1 - 1
      /\ \A k \in 1 .. m : k # m => k \in 1 .. m - 1
  BY <1>3
<1>g. Grows(h, C, V)
  BY <1>3 DEF Grows
<1>4. Cells(h, V, m - 1, path)
  <2>1. ASSUME NEW x \in DOMAIN h.cell, \A k \in 1 .. m - 1 - 1 : path[k] # x \/ Vec(h, x)
        PROVE  Undisturbed(h, V, x)
    <3>1. CASE x # path[m - 1]
      <4>1. \A k \in 1 .. m - 1 : path[k] # x \/ Vec(h, x)
        BY <1>n, <2>1, <3>1
      <4>2. Undisturbed(h, C, x)
        BY <1>1, <4>1 DEF Cells
      <4> QED  BY <3>1, <4>2 DEF Undisturbed
    <3> QED  BY <3>1
  <2>2. ASSUME NEW k \in 1 .. m - 1 - 1
        PROVE  Place(h, V, path, k)
    <3>1. path[k] # path[m - 1]
      BY <1>3, <1>n, <1>1 DEF IsPath
    <3>2. V[path[k]] = C[path[k]]
      BY <1>3, <1>n, <3>1
    <3> QED  BY <1>g, <1>3, <1>n, <3>2, PlaceStays
  <2> QED  BY <2>1, <2>2 DEF Cells, Place
<1>5. Black(h, V, m - 1, path)
  <2> SUFFICES ASSUME NEW x \in DOMAIN h.cell, V[x].mark, \A k \in 1 .. m - 1 : path[k] # x
               PROVE  AllMarked(V, Kids(h.cell, x))
    BY DEF Black
  <2>1. CASE x = path[m]
    BY <1>g, <2>1, KidsAreCells, MarkedStays
  <2>2. CASE x # path[m]
    <3>1. \A k \in 1 .. m : path[k] # x
      BY <1>n, <2>2
    <3>2. AllMarked(C, Kids(h.cell, x))
      BY <1>1, <3>1 DEF Black
    <3> QED  BY <1>g, <3>2, KidsAreCells, MarkedStays
  <2> QED  BY <2>1, <2>2
<1>6. Sound(h, V)
  BY <1>1 DEF Sound
<1>7. \A k \in 1 .. m - 1 : path[k] \in Reach(h)
  BY <1>1, <1>3
<1>8. Asked(h, V, given, path)
  <2>2. ASSUME NEW k \in 1 .. given, h.roots[k] > 0
        PROVE  V[h.roots[k]].mark \/ h.roots[k] = path[1]
    <3>1. k \in 1 .. Len(h.roots)
      <4>1. given \in 1 .. Len(h.roots)
        BY <1>1
      <4> QED  BY <4>1, Within
    <3>2. h.roots[k] \in DOMAIN h.cell
      BY <2>2, <3>1, RootFacts
    <3> QED  BY <1>1, <2>2, <3>2 DEF Asked
  <2> QED  BY <2>2 DEF Asked
<1> QED  BY <1>1, <1>2, <1>4, <1>5, <1>6, <1>7, <1>8 DEF About

\* mark's way down: to an element of a vector, to the car, to the cdr.
LEMMA ElementStays ==
  ASSUME NEW h, WellFormed(h), NEW C, NEW given, NEW calls, NEW t, NEW p, NEW i,
         OnTheWay(h, C, given, calls, t, p, i, "vector"), ~(i >= Halves(C[p].car))
  PROVE  OnTheWay(h, C, given, Append(calls, [t |-> t, p |-> p, i |-> i + 1]),
                  Null, p + 1 + i, i, "E2")
<1>1. PICK m \in Nat \ {0}, path \in [Nat -> DOMAIN h.cell], pos \in [Nat -> Nat] :
        OnPath(h, C, given, calls, t, p, i, "vector", m, path, pos)
  BY DEF OnTheWay
<1> DEFINE q == p + 1 + i
           l == Longer(path, m, q)
           c == [t |-> Prev(h, path, m), p |-> path[m], i |-> q - path[m]]
           u == [pos EXCEPT ![Len(calls) + 1] = m]
<1>2. /\ About(h, C, given, m, path) /\ path[m] = p /\ t = Prev(h, path, m)
      /\ Waiting(h, calls, m, path, pos) /\ Here(h, C, p, i, "vector")
  BY <1>1 DEF OnPath
<1>3. /\ IsPath(h, m, path) /\ Cells(h, C, m, path)
      /\ given \in 1 .. Len(h.roots) /\ path[1] = h.roots[given]
  BY <1>2 DEF About
<1>4. /\ m \in 1 .. m /\ 1 \in 1 .. m /\ DOMAIN C = DOMAIN h.cell
      /\ p \in DOMAIN h.cell /\ Undisturbed(h, C, p)
  <2>1. /\ m \in 1 .. m /\ DOMAIN C = DOMAIN h.cell /\ Undisturbed(h, C, path[m])
        /\ path[m] \in DOMAIN h.cell
    BY <1>3, PathFacts
  <2> QED  BY <1>2, <2>1
<1>5. /\ Vec(h, p) /\ i \in Nat /\ C[p].mark
      /\ \A e \in Kids(h.cell, p) : e <= p + i => C[e].mark
  BY <1>2 DEF Here
<1>6. /\ p \in Nat /\ q \in Nat /\ i < Halves(h.cell[p].car)
      /\ q \in Kids(h.cell, p) /\ q - p = i + 1
  <2>1. p \in Nat
    BY <1>4, CellsOf
  <2>2. C[p].car = h.cell[p].car
    BY <1>4 DEF Undisturbed
  <2>3. /\ Halves(h.cell[p].car) \in Nat
        /\ Kids(h.cell, p) = (p + 1) .. (p + Halves(h.cell[p].car))
    BY <1>4, <1>5, VectorFacts
  <2>4. i < Halves(h.cell[p].car)
    BY <1>5, <2>2, <2>3
  <2> QED  BY <1>5, <2>1, <2>3, <2>4
<1>7. /\ q \in DOMAIN h.cell
      /\ \A y \in DOMAIN h.cell : q \in Kids(h.cell, y) => y = p
      /\ \A k \in 1 .. Len(h.roots) : h.roots[k] # q
  <2> HIDE DEF q
  <2>1. \A e \in Kids(h.cell, p) :
          /\ e \in DOMAIN h.cell
          /\ \A y \in DOMAIN h.cell : e \in Kids(h.cell, y) => y = p
          /\ \A k \in 1 .. Len(h.roots) : h.roots[k] # e
    BY <1>4, <1>5, VectorFacts
  <2> QED  BY <1>6, <2>1
<1> HIDE DEF q
<1>8. \A k \in 1 .. m : path[k] # q
  <2> SUFFICES ASSUME NEW k \in 1 .. m, path[k] = q
               PROVE  FALSE
    OBVIOUS
  <2>1. k # 1
    BY <1>3, <1>7
  <2>2. k - 1 \in 1 .. m - 1 /\ (k - 1) + 1 = k
    BY <2>1
  <2>3. path[k - 1] \in DOMAIN h.cell /\ path[k] \in Kids(h.cell, path[k - 1])
        /\ path[k - 1] # path[m]
    <3>0. IsPath(h, m, path) /\ Cells(h, C, m, path)
      BY <1>3
    <3>1. \A j \in 1 .. m - 1 :
            /\ j \in 1 .. m /\ path[j + 1] \in Kids(h.cell, path[j])
            /\ path[j] # path[m]
      BY <3>0, PathFacts
    <3>2. \A j \in 1 .. m : path[j] \in DOMAIN h.cell
      BY <3>0, PathFacts
    <3> DEFINE j == k - 1
    <3> HIDE DEF j
    <3>3. j \in 1 .. m - 1 /\ j + 1 = k
      BY <2>2 DEF j
    <3>4. path[j] \in DOMAIN h.cell /\ path[k] \in Kids(h.cell, path[j])
          /\ path[j] # path[m]
      BY <3>1, <3>2, <3>3
    <3> QED  BY <3>4 DEF j
  <2> QED  BY <1>2, <1>7, <2>3
<1>9. /\ IsPath(h, m + 1, l) /\ l[m + 1] = q /\ Agrees(h, m, path, l)
      /\ Prev(h, l, m + 1) = Null
  <2>1. /\ IsPath(h, m, path) /\ q \in DOMAIN h.cell /\ q \in Kids(h.cell, path[m])
        /\ Vec(h, path[m])
    BY <1>2, <1>3, <1>5, <1>6, <1>7
  <2> QED  BY <1>8, <2>1, LongerPath
<1>10. Place(h, C, l, m)
  <2>1. l[m] = p /\ Vec(h, l[m])
    BY <1>2, <1>4, <1>5, <1>9 DEF Agrees
  <2>2. \A e \in Kids(h.cell, p) : e \in Int /\ (e < q => e <= p + i)
    <3>1. Kids(h.cell, p) = (p + 1) .. (p + Halves(h.cell[p].car))
      BY <1>4, <1>5, VectorFacts
    <3> QED  BY <1>5, <1>6, <3>1 DEF q
  <2>3. Partly(h, C, l, m)
    BY <1>5, <1>9, <2>1, <2>2 DEF Partly
  <2> QED  BY <2>1, <2>3 DEF Place
<1>11. About(h, C, given, m + 1, l)
  BY <1>2, <1>4, <1>6, <1>7, <1>8, <1>10, DownStays
<1>12. Waiting(h, Append(calls, c), m + 1, l, u) /\ u \in [Nat -> Nat]
  BY <1>2, <1>3, <1>5, <1>6, <1>7, <1>8, CallMore
<1>13. c = [t |-> t, p |-> p, i |-> i + 1]
  BY <1>2, <1>6
<1> HIDE DEF c, u, l
<1>14. OnPath(h, C, given, Append(calls, c), Null, q, i, "E2", m + 1, l, u)
  BY <1>9, <1>11, <1>12 DEF OnPath, Here, Labels
<1>15. m + 1 \in Nat \ {0} /\ l \in [Nat -> DOMAIN h.cell]
  BY <1>9 DEF IsPath
<1>16. OnTheWay(h, C, given, Append(calls, c), Null, q, i, "E2")
  BY <1>12, <1>14, <1>15 DEF OnTheWay
<1> QED  BY <1>13, <1>16 DEF q
\* A step down from a cell that is no vector, to a cell that is not marked.
LEMMA PairDown ==
  ASSUME NEW h, WellFormed(h), NEW C, NEW V, NEW given, NEW calls, NEW p, NEW i, NEW q,
         NEW m \in Nat \ {0}, NEW path \in [Nat -> DOMAIN h.cell], NEW pos \in [Nat -> Nat],
         About(h, C, given, m, path), path[m] = p, Waiting(h, calls, m, path, pos),
         C[p].mark, ~h.cell[p].atom,
         q \in DOMAIN h.cell, q \in Kids(h.cell, p), ~C[q].mark,
         DOMAIN V = DOMAIN h.cell, V[p].mark, IsCell(V[p]), V[p].type = h.cell[p].type,
         \A x \in DOMAIN h.cell : x # p => V[x] = C[x],
         \/ /\ V[p].atom
            /\ V[p].car = Prev(h, path, m) /\ V[p].cdr = h.cell[p].cdr
            /\ h.cell[p].car = q
         \/ /\ ~V[p].atom
            /\ V[p].car = h.cell[p].car /\ V[p].cdr = Prev(h, path, m)
            /\ h.cell[p].cdr = q
            /\ Marked(C, h.cell[p].car)
  PROVE  OnTheWay(h, V, given, calls, p, q, i, "E2")
<1> DEFINE l == Longer(path, m, q)
<1>1. /\ IsPath(h, m, path) /\ Cells(h, C, m, path)
  BY DEF About
<1>2. /\ m \in 1 .. m /\ DOMAIN C = DOMAIN h.cell
      /\ p \in DOMAIN h.cell
      /\ \A k \in 1 .. m - 1 : C[path[k]].mark
  BY <1>1, PathFacts
<1>3. ~Vec(h, p)
  BY <1>2, PairFacts
<1>4. \A k \in 1 .. m : path[k] # q
  <2>1. \A k \in 1 .. m : k # m => k \in 1 .. m - 1
    OBVIOUS
  <2> QED  BY <1>2, <2>1
<1>5. /\ IsPath(h, m + 1, l) /\ l[m + 1] = q /\ Agrees(h, m, path, l)
      /\ Prev(h, l, m + 1) = p
  BY <1>1, <1>3, <1>4, LongerPath
<1> HIDE DEF l
<1>6. \A x \in DOMAIN h.cell : V[x].mark <=> C[x].mark
  OBVIOUS
<1>7. Grows(h, C, V)
  BY <1>2, <1>6 DEF Grows
<1>8. Place(h, V, l, m)
  <2>1. l[m] = p /\ Prev(h, l, m) = Prev(h, path, m)
    BY <1>2, <1>5 DEF Agrees
  <2>2. Marked(C, h.cell[p].car) => Marked(V, h.cell[p].car)
    BY <1>2, <1>6, PairFacts DEF Marked
  <2>3. Inverted(h, V, l, m)
    BY <1>5, <2>1, <2>2 DEF Inverted
  <2> QED  BY <1>3, <2>1, <2>3 DEF Place
<1>9. About(h, V, given, m + 1, l)
  BY <1>3, <1>4, <1>6, <1>8, DownStays DEF l
<1>10. Waiting(h, calls, m + 1, l, pos)
  BY <1>1, <1>3, <1>4, CallsLonger DEF l
<1>11. OnPath(h, V, given, calls, p, q, i, "E2", m + 1, l, pos)
  BY <1>5, <1>9, <1>10 DEF OnPath, Here, Labels
<1>12. m + 1 \in Nat \ {0} /\ l \in [Nat -> DOMAIN h.cell]
  BY <1>5 DEF IsPath
<1> QED  BY <1>11, <1>12 DEF OnTheWay
LEMMA DownCarStays ==
  ASSUME NEW h, WellFormed(h), NEW C, NEW given, NEW calls, NEW t, NEW p, NEW i,
         OnTheWay(h, C, given, calls, t, p, i, "E4"), ~C[p].atom, ~Marked(C, C[p].car)
  PROVE  OnTheWay(h, CarTurned(C, p, t), given, calls, p, C[p].car, i, "E2")
<1>1. PICK m \in Nat \ {0}, path \in [Nat -> DOMAIN h.cell], pos \in [Nat -> Nat] :
        OnPath(h, C, given, calls, t, p, i, "E4", m, path, pos)
  BY DEF OnTheWay
<1> DEFINE V == CarTurned(C, p, t)
           q == C[p].car
<1>2. /\ About(h, C, given, m, path) /\ path[m] = p /\ t = Prev(h, path, m)
      /\ Waiting(h, calls, m, path, pos) /\ Here(h, C, p, i, "E4")
  BY <1>1 DEF OnPath
<1>3. IsPath(h, m, path) /\ Cells(h, C, m, path)
  BY <1>2 DEF About
<1>4. /\ DOMAIN C = DOMAIN h.cell /\ Undisturbed(h, C, path[m])
      /\ path[m] \in DOMAIN h.cell
  BY <1>3, PathFacts
<1>5. /\ p \in DOMAIN C /\ p \in DOMAIN h.cell /\ IsCell(C[p]) /\ ~h.cell[p].atom
      /\ C[p].type = h.cell[p].type /\ q = h.cell[p].car /\ C[p].cdr = h.cell[p].cdr
      /\ C[p].mark
  BY <1>2, <1>4 DEF Undisturbed, Here
<1>6. /\ DOMAIN V = DOMAIN h.cell
      /\ \A x \in DOMAIN h.cell : x # p => V[x] = C[x]
      /\ IsCell(V[p]) /\ V[p].type = C[p].type /\ V[p].atom
      /\ V[p].mark = C[p].mark /\ V[p].car = t /\ V[p].cdr = C[p].cdr
  <2>1. p \in DOMAIN C /\ IsCell(C[p])
    BY <1>5
  <2>2. DOMAIN C = DOMAIN h.cell
    BY <1>4
  <2>3. V = CarTurned(C, p, t)
    OBVIOUS
  <2> HIDE DEF V
  <2> QED  BY <2>1, <2>2, <2>3, CarTurnedIs
<1>7. q \in DOMAIN h.cell /\ q \in Kids(h.cell, p) /\ ~C[q].mark
  <2> HIDE DEF q
  <2>1. /\ h.cell[p].car > 0 => h.cell[p].car \in DOMAIN h.cell
        /\ h.cell[p].cdr > 0 => h.cell[p].cdr \in DOMAIN h.cell
        /\ h.cell[p].car \in Int /\ h.cell[p].cdr \in Int
        /\ Kids(h.cell, p) = {x \in {h.cell[p].car, h.cell[p].cdr} : x > 0}
    BY <1>5, PairFacts
  <2>2. ~(q <= 0) /\ ~C[q].mark
    BY DEF Marked, q
  <2>3. q > 0
    BY <1>5, <2>1, <2>2
  <2> QED  BY <1>5, <2>1, <2>2, <2>3
<1> HIDE DEF V, q
<1>8. /\ V[p].mark /\ V[p].type = h.cell[p].type /\ V[p].atom
      /\ V[p].car = Prev(h, path, m) /\ V[p].cdr = h.cell[p].cdr /\ h.cell[p].car = q
  BY <1>2, <1>5, <1>6
<1>9. OnTheWay(h, V, given, calls, p, q, i, "E2")
  BY <1>2, <1>5, <1>6, <1>7, <1>8, PairDown
<1> QED  BY <1>9 DEF V, q
LEMMA DownCdrStays ==
  ASSUME NEW h, WellFormed(h), NEW C, NEW given, NEW calls, NEW t, NEW p, NEW i,
         OnTheWay(h, C, given, calls, t, p, i, "E5"), ~Marked(C, C[p].cdr)
  PROVE  OnTheWay(h, CdrTurned(C, p, t), given, calls, p, C[p].cdr, i, "E2")
<1>1. PICK m \in Nat \ {0}, path \in [Nat -> DOMAIN h.cell], pos \in [Nat -> Nat] :
        OnPath(h, C, given, calls, t, p, i, "E5", m, path, pos)
  BY DEF OnTheWay
<1> DEFINE V == CdrTurned(C, p, t)
           q == C[p].cdr
<1>2. /\ About(h, C, given, m, path) /\ path[m] = p /\ t = Prev(h, path, m)
      /\ Waiting(h, calls, m, path, pos) /\ Here(h, C, p, i, "E5")
  BY <1>1 DEF OnPath
<1>3. IsPath(h, m, path) /\ Cells(h, C, m, path)
  BY <1>2 DEF About
<1>4. /\ DOMAIN C = DOMAIN h.cell /\ Undisturbed(h, C, path[m])
      /\ path[m] \in DOMAIN h.cell
  BY <1>3, PathFacts
<1>5. /\ p \in DOMAIN C /\ p \in DOMAIN h.cell /\ IsCell(C[p]) /\ ~h.cell[p].atom
      /\ C[p].type = h.cell[p].type /\ C[p].car = h.cell[p].car /\ q = h.cell[p].cdr
      /\ C[p].mark /\ Marked(C, h.cell[p].car) /\ ~C[p].atom
  BY <1>2, <1>4 DEF Undisturbed, Here
<1>6. /\ DOMAIN V = DOMAIN h.cell
      /\ \A x \in DOMAIN h.cell : x # p => V[x] = C[x]
      /\ IsCell(V[p]) /\ V[p].type = C[p].type /\ V[p].atom = C[p].atom
      /\ V[p].mark = C[p].mark /\ V[p].car = C[p].car /\ V[p].cdr = t
  <2>1. p \in DOMAIN C /\ IsCell(C[p])
    BY <1>5
  <2>2. DOMAIN C = DOMAIN h.cell
    BY <1>4
  <2> QED  BY <2>1, <2>2, CdrTurnedIs
<1>7. q \in DOMAIN h.cell /\ q \in Kids(h.cell, p) /\ ~C[q].mark
  <2> HIDE DEF q
  <2>1. /\ h.cell[p].car > 0 => h.cell[p].car \in DOMAIN h.cell
        /\ h.cell[p].cdr > 0 => h.cell[p].cdr \in DOMAIN h.cell
        /\ h.cell[p].car \in Int /\ h.cell[p].cdr \in Int
        /\ Kids(h.cell, p) = {x \in {h.cell[p].car, h.cell[p].cdr} : x > 0}
    BY <1>5, PairFacts
  <2>2. ~(q <= 0) /\ ~C[q].mark
    BY DEF Marked, q
  <2>3. q > 0
    BY <1>5, <2>1, <2>2
  <2> QED  BY <1>5, <2>1, <2>2, <2>3
<1> HIDE DEF V, q
<1>8. /\ V[p].mark /\ V[p].type = h.cell[p].type /\ ~V[p].atom
      /\ V[p].car = h.cell[p].car /\ V[p].cdr = Prev(h, path, m) /\ h.cell[p].cdr = q
  BY <1>2, <1>5, <1>6
<1>9. OnTheWay(h, V, given, calls, p, q, i, "E2")
  BY <1>2, <1>5, <1>6, <1>7, <1>8, PairDown
<1> QED  BY <1>9 DEF V, q

\* mark's way up: a pair gets its pointers back.
LEMMA PlaceBefore ==
  ASSUME NEW h, WellFormed(h), NEW C, NEW m, NEW path,
         IsPath(h, m, path), Cells(h, C, m, path)
  PROVE  /\ Prev(h, path, m) = Null <=> m = 1 \/ Vec(h, path[m - 1])
         /\ m # 1 => m - 1 \in 1 .. m - 1 /\ (m - 1) + 1 = m
         /\ m # 1 /\ ~Vec(h, path[m - 1]) =>
              Prev(h, path, m) = path[m - 1] /\ ~h.cell[path[m - 1]].atom
<1>1. m \in Nat \ {0}
  BY PathFacts
<1>2. m # 1 => m - 1 \in 1 .. m - 1 /\ (m - 1) + 1 = m
  BY <1>1
<1>3. ASSUME m # 1
      PROVE  /\ path[m - 1] \in DOMAIN h.cell
             /\ path[m] \in Kids(h.cell, path[m - 1])
             /\ path[m - 1] \in Nat
  <2>1. path[m - 1] \in DOMAIN h.cell /\ path[m] \in Kids(h.cell, path[m - 1])
    BY <1>2, <1>3, PathFacts
  <2> QED  BY <2>1, CellsOf
<1>4. Prev(h, path, m) = Null <=> m = 1 \/ Vec(h, path[m - 1])
  BY <1>3 DEF Prev, Null
<1>5. ASSUME m # 1, ~Vec(h, path[m - 1])
      PROVE  ~h.cell[path[m - 1]].atom
  BY <1>3, <1>5, AtomFacts
<1> QED  BY <1>2, <1>4, <1>5 DEF Prev
LEMMA UpCarStays ==
  ASSUME NEW h, WellFormed(h), NEW C, NEW given, NEW calls, NEW t, NEW p, NEW i,
         OnTheWay(h, C, given, calls, t, p, i, "E6"), t # Null, C[t].atom
  PROVE  OnTheWay(h, CarBack(C, t, p), given, calls, C[t].car, t, i, "E5")
<1>1. PICK m \in Nat \ {0}, path \in [Nat -> DOMAIN h.cell], pos \in [Nat -> Nat] :
        OnPath(h, C, given, calls, t, p, i, "E6", m, path, pos)
  BY DEF OnTheWay
<1> DEFINE V == CarBack(C, t, p)
<1>2. /\ About(h, C, given, m, path) /\ path[m] = p /\ t = Prev(h, path, m)
      /\ Waiting(h, calls, m, path, pos)
      /\ C[p].mark /\ AllMarked(C, Kids(h.cell, p))
  BY <1>1 DEF OnPath, Here
<1>3. IsPath(h, m, path) /\ Cells(h, C, m, path)
  BY <1>2 DEF About
<1>4. /\ m # 1 /\ t = path[m - 1] /\ ~Vec(h, t) /\ ~h.cell[t].atom
      /\ m - 1 \in 1 .. m - 1 /\ (m - 1) + 1 = m
  BY <1>2, <1>3, PlaceBefore
<1>5. /\ DOMAIN C = DOMAIN h.cell /\ t \in DOMAIN h.cell /\ t # p
      /\ Place(h, C, path, m - 1) /\ p \in DOMAIN h.cell
  BY <1>2, <1>3, <1>4, PathFacts
<1>6. /\ IsCell(C[t]) /\ C[t].type = h.cell[t].type /\ C[t].mark
      /\ C[t].car = Prev(h, path, m - 1) /\ C[t].cdr = h.cell[t].cdr /\ h.cell[t].car = p
  BY <1>2, <1>4, <1>5 DEF Place, Inverted
<1>7. /\ DOMAIN V = DOMAIN h.cell
      /\ \A x \in DOMAIN h.cell : x # t => V[x] = C[x]
      /\ IsCell(V[t]) /\ V[t].type = C[t].type /\ ~V[t].atom /\ V[t].atom \in BOOLEAN
      /\ V[t].mark = C[t].mark /\ V[t].car = p /\ V[t].cdr = C[t].cdr
  <2>1. t \in DOMAIN C /\ IsCell(C[t])
    BY <1>5, <1>6
  <2>2. DOMAIN C = DOMAIN h.cell
    BY <1>5
  <2>3. V = CarBack(C, t, p)
    OBVIOUS
  <2> HIDE DEF V
  <2> QED  BY <2>1, <2>2, <2>3, CarBackIs
<1> HIDE DEF V
<1>8. Undisturbed(h, V, t)
  <2>1. h.cell[t].atom = FALSE
    BY <1>4, <1>5, CellsOf
  <2> QED  BY <1>6, <1>7, <2>1 DEF Undisturbed
<1>9. About(h, V, given, m - 1, path)
  BY <1>2, <1>4, <1>5, <1>7, <1>8, UpStays
<1>10. Waiting(h, calls, m - 1, path, pos)
  BY <1>2, <1>3, <1>4, CallsShorter
<1>11. V[t].mark /\ V[p].mark
  BY <1>2, <1>5, <1>6, <1>7
<1>12. Here(h, V, t, i, "E5")
  BY <1>4, <1>6, <1>11 DEF Here, Marked
<1>13. OnPath(h, V, given, calls, C[t].car, t, i, "E5", m - 1, path, pos)
  BY <1>4, <1>6, <1>9, <1>10, <1>12 DEF OnPath, Labels
<1>14. m - 1 \in Nat \ {0}
  BY <1>4
<1> QED  BY <1>13, <1>14 DEF OnTheWay, V
LEMMA UpCdrStays ==
  ASSUME NEW h, WellFormed(h), NEW C, NEW given, NEW calls, NEW t, NEW p, NEW i,
         OnTheWay(h, C, given, calls, t, p, i, "E6"), t # Null, ~C[t].atom
  PROVE  OnTheWay(h, CdrTurned(C, t, p), given, calls, C[t].cdr, t, i, "E6")
<1>1. PICK m \in Nat \ {0}, path \in [Nat -> DOMAIN h.cell], pos \in [Nat -> Nat] :
        OnPath(h, C, given, calls, t, p, i, "E6", m, path, pos)
  BY DEF OnTheWay
<1> DEFINE V == CdrTurned(C, t, p)
<1>2. /\ About(h, C, given, m, path) /\ path[m] = p /\ t = Prev(h, path, m)
      /\ Waiting(h, calls, m, path, pos)
      /\ C[p].mark /\ AllMarked(C, Kids(h.cell, p))
  BY <1>1 DEF OnPath, Here
<1>3. IsPath(h, m, path) /\ Cells(h, C, m, path)
  BY <1>2 DEF About
<1>4. /\ m # 1 /\ t = path[m - 1] /\ ~Vec(h, t) /\ ~h.cell[t].atom
      /\ m - 1 \in 1 .. m - 1 /\ (m - 1) + 1 = m
  BY <1>2, <1>3, PlaceBefore
<1>5. /\ DOMAIN C = DOMAIN h.cell /\ t \in DOMAIN h.cell /\ t # p
      /\ Place(h, C, path, m - 1) /\ p \in DOMAIN h.cell
  BY <1>2, <1>3, <1>4, PathFacts
<1>6. /\ IsCell(C[t]) /\ C[t].type = h.cell[t].type /\ C[t].mark
      /\ C[t].cdr = Prev(h, path, m - 1) /\ C[t].car = h.cell[t].car /\ h.cell[t].cdr = p
      /\ Marked(C, h.cell[t].car)
  BY <1>2, <1>4, <1>5 DEF Place, Inverted
<1>7. /\ DOMAIN V = DOMAIN h.cell
      /\ \A x \in DOMAIN h.cell : x # t => V[x] = C[x]
      /\ IsCell(V[t]) /\ V[t].type = C[t].type /\ V[t].atom = C[t].atom
      /\ V[t].mark = C[t].mark /\ V[t].car = C[t].car /\ V[t].cdr = p
  <2>1. t \in DOMAIN C /\ IsCell(C[t])
    BY <1>5, <1>6
  <2>2. DOMAIN C = DOMAIN h.cell
    BY <1>5
  <2> QED  BY <2>1, <2>2, CdrTurnedIs
<1> HIDE DEF V
<1>8. Undisturbed(h, V, t)
  <2>1. h.cell[t].atom = FALSE
    BY <1>4, <1>5, CellsOf
  <2>2. V[t].atom = FALSE
    BY <1>7
  <2> QED  BY <1>6, <1>7, <2>1, <2>2 DEF Undisturbed
<1>9. About(h, V, given, m - 1, path)
  BY <1>2, <1>4, <1>5, <1>7, <1>8, UpStays
<1>10. Waiting(h, calls, m - 1, path, pos)
  BY <1>2, <1>3, <1>4, CallsShorter
<1>11. /\ V[t].mark /\ V[p].mark
       /\ \A x \in DOMAIN h.cell : C[x].mark => V[x].mark
  BY <1>2, <1>5, <1>6, <1>7
<1>12. Here(h, V, t, i, "E6")
  <2>1. /\ Kids(h.cell, t) = {x \in {h.cell[t].car, h.cell[t].cdr} : x > 0}
        /\ h.cell[t].car \in Int
        /\ h.cell[t].car > 0 => h.cell[t].car \in DOMAIN h.cell
    BY <1>4, <1>5, PairFacts
  <2>2. h.cell[t].car > 0 => V[h.cell[t].car].mark
    BY <1>6, <1>11, <2>1 DEF Marked
  <2>3. AllMarked(V, Kids(h.cell, t))
    BY <1>6, <1>11, <2>1, <2>2 DEF AllMarked
  <2> QED  BY <1>11, <2>3 DEF Here
<1>13. OnPath(h, V, given, calls, C[t].cdr, t, i, "E6", m - 1, path, pos)
  BY <1>4, <1>6, <1>9, <1>10, <1>12 DEF OnPath, Labels
<1>14. m - 1 \in Nat \ {0}
  BY <1>4
<1> QED  BY <1>13, <1>14 DEF OnTheWay, V

\* mark returns: to gc when no call waits, or to the call for the vector before
\* it on the path.
LEMMA ReturnsToGc ==
  ASSUME NEW h, WellFormed(h), NEW C, NEW given, NEW calls, NEW t, NEW p, NEW i,
         OnTheWay(h, C, given, calls, t, p, i, "E6"), t = Null, Len(calls) = 0
  PROVE  Resting(h, C, given, calls, t, "gc")
<1>1. PICK m \in Nat \ {0}, path \in [Nat -> DOMAIN h.cell], pos \in [Nat -> Nat] :
        OnPath(h, C, given, calls, t, p, i, "E6", m, path, pos)
  BY DEF OnTheWay
<1>2. /\ About(h, C, given, m, path) /\ path[m] = p /\ t = Prev(h, path, m)
      /\ Waiting(h, calls, m, path, pos)
      /\ C[p].mark /\ AllMarked(C, Kids(h.cell, p))
  BY <1>1 DEF OnPath, Here
<1>3. /\ IsPath(h, m, path) /\ Cells(h, C, m, path) /\ Black(h, C, m, path) /\ Sound(h, C)
      /\ given \in 1 .. Len(h.roots) /\ path[1] = h.roots[given] /\ Asked(h, C, given, path)
  BY <1>2 DEF About
<1>4. m = 1
  <2> SUFFICES ASSUME m # 1 PROVE FALSE
    OBVIOUS
  <2>1. Vec(h, path[m - 1])
    BY <1>2, <1>3, PlaceBefore
  <2> QED  BY <1>2, <1>3, <2>1, CallReturns
<1>5. calls = <<>>
  <2>1. calls \in Seq([t : Int, p : Int, i : Int])
    BY <1>2 DEF Waiting
  <2> QED  BY <2>1, EmptySeq
<1>6. DOMAIN C = DOMAIN h.cell /\ \A x \in DOMAIN h.cell : Undisturbed(h, C, x)
  <2>1. 1 .. m - 1 = {}
    BY <1>4
  <2> QED  BY <1>3, <2>1 DEF Cells
<1>7. ASSUME NEW x \in DOMAIN h.cell, C[x].mark
      PROVE  AllMarked(C, Kids(h.cell, x))
  <2>1. CASE x = p
    BY <1>2, <2>1
  <2>2. CASE x # p
    <3>1. \A k \in 1 .. m : path[k] # x
      BY <1>2, <1>4, <2>2
    <3> QED  BY <1>3, <1>7, <3>1 DEF Black
  <2> QED  BY <2>1, <2>2
<1>8. \A k \in 1 .. given : h.roots[k] > 0 => C[h.roots[k]].mark
  BY <1>2, <1>3, <1>4 DEF Asked
<1>9. given \in 0 .. Len(h.roots)
  BY <1>3
<1>10. \A x \in DOMAIN h.cell : C[x].mark => AllMarked(C, Kids(h.cell, x))
  BY <1>7
<1> QED  BY <1>3, <1>5, <1>6, <1>8, <1>9, <1>10, Zenon DEF Resting
LEMMA ReturnsToCall ==
  ASSUME NEW h, WellFormed(h), NEW C, NEW given, NEW calls, NEW t, NEW p, NEW i,
         OnTheWay(h, C, given, calls, t, p, i, "E6"), t = Null, Len(calls) # 0
  PROVE  LET n == Len(calls)
         IN  OnTheWay(h, C, given, SubSeq(calls, 1, n - 1),
                      calls[n].t, calls[n].p, calls[n].i, "vector")
<1>1. PICK m \in Nat \ {0}, path \in [Nat -> DOMAIN h.cell], pos \in [Nat -> Nat] :
        OnPath(h, C, given, calls, t, p, i, "E6", m, path, pos)
  BY DEF OnTheWay
<1> DEFINE n == Len(calls)
           s == SubSeq(calls, 1, n - 1)
           v == path[m - 1]
<1>2. /\ About(h, C, given, m, path) /\ path[m] = p /\ t = Prev(h, path, m)
      /\ Waiting(h, calls, m, path, pos)
      /\ C[p].mark /\ AllMarked(C, Kids(h.cell, p))
  BY <1>1 DEF OnPath, Here
<1>3. IsPath(h, m, path) /\ Cells(h, C, m, path)
  BY <1>2 DEF About
<1>4. m # 1
  <2> SUFFICES ASSUME m = 1 PROVE FALSE
    OBVIOUS
  <2>1. calls \in Seq([t : Int, p : Int, i : Int]) /\ 1 .. m - 1 = {}
    BY <1>2 DEF Waiting
  <2>2. n \in Nat
    BY <2>1, LenProperties
  <2>3. 1 \in 1 .. n
    BY <2>2
  <2> QED  BY <1>2, <2>1, <2>3 DEF Waiting
<1>5. Vec(h, v) /\ m - 1 \in 1 .. m - 1 /\ (m - 1) + 1 = m
  BY <1>2, <1>3, <1>4, PlaceBefore
<1>6. /\ calls[n] = Call(h, path, m - 1)
      /\ Waiting(h, s, m - 1, path, pos)
  BY <1>2, <1>3, <1>4, <1>5, CallReturns
<1> HIDE DEF s, n
<1>7. /\ DOMAIN C = DOMAIN h.cell /\ v \in DOMAIN h.cell /\ p \in DOMAIN h.cell
      /\ p \in Kids(h.cell, v) /\ Place(h, C, path, m - 1)
  BY <1>2, <1>3, <1>5, PathFacts
<1>8. Undisturbed(h, C, v)
  BY <1>3, <1>5, <1>7 DEF Cells
<1>9. About(h, C, given, m - 1, path)
  <2> HIDE DEF v
  <2>1. /\ \A x \in DOMAIN h.cell : C[x].mark <=> C[x].mark
        /\ \A x \in DOMAIN h.cell : x # path[m - 1] => C[x] = C[x]
        /\ Undisturbed(h, C, path[m - 1])
    BY <1>8 DEF v
  <2> QED  BY <1>2, <1>4, <1>7, <2>1, UpStays
<1>10. Partly(h, C, path, m - 1)
  BY <1>5, <1>7 DEF Place
<1>11. calls[n].t = Prev(h, path, m - 1) /\ calls[n].p = v /\ calls[n].i = p - v
  BY <1>2, <1>5, <1>6 DEF Call
<1>12. Here(h, C, v, p - v, "vector")
  <2>1. C[v].mark /\ \A e \in Kids(h.cell, v) : e < p => C[e].mark
    BY <1>2, <1>5, <1>10 DEF Partly
  <2>2. v \in Nat /\ p \in Nat
    BY <1>7, CellsOf
  <2>3. /\ Halves(h.cell[v].car) \in Nat
        /\ Kids(h.cell, v) = (v + 1) .. (v + Halves(h.cell[v].car))
    BY <1>5, <1>7, VectorFacts
  <2> HIDE DEF v
  <2>4. p - v \in Nat /\ \A e \in Kids(h.cell, v) : e <= v + (p - v) => e = p \/ e < p
    <3> DEFINE len == Halves(h.cell[v].car)
    <3>1. p \in Kids(h.cell, v)
      BY <1>7 DEF v
    <3>2. len \in Nat /\ Kids(h.cell, v) = (v + 1) .. (v + len)
      BY <2>3
    <3> HIDE DEF len
    <3>3. p \in (v + 1) .. (v + len)
      BY <3>1, <3>2
    <3>4. p - v \in Nat
      BY <2>2, <3>2, <3>3
    <3>5. ASSUME NEW e \in (v + 1) .. (v + len), e <= v + (p - v)
          PROVE  e = p \/ e < p
      BY <2>2, <3>2, <3>5
    <3> QED  BY <3>2, <3>4, <3>5
  <2>5. \A e \in Kids(h.cell, v) : e <= v + (p - v) => C[e].mark
    BY <1>2, <2>1, <2>4
  <2>6. Vec(h, v)
    BY <1>5 DEF v
  <2> QED  BY <2>1, <2>4, <2>5, <2>6 DEF Here
<1>13. OnPath(h, C, given, s, calls[n].t, calls[n].p, calls[n].i, "vector", m - 1, path, pos)
  BY <1>6, <1>9, <1>11, <1>12 DEF OnPath, Labels
<1>14. m - 1 \in Nat \ {0}
  BY <1>5
<1>15. OnTheWay(h, C, given, s, calls[n].t, calls[n].p, calls[n].i, "vector")
  BY <1>13, <1>14 DEF OnTheWay
<1> QED  BY <1>15 DEF s, n

\* gc gives mark the next pointer.
LEMMA RootStays ==
  ASSUME NEW h, WellFormed(h), NEW C, NEW given, NEW calls, NEW t, NEW i,
         Resting(h, C, given, calls, t, "gc"), given # Len(h.roots)
  PROVE  LET a == h.roots[given + 1]
         IN  /\ a <= 0 => Resting(h, C, given + 1, calls, t, "gc")
             /\ ~(a <= 0) => OnTheWay(h, C, given + 1, calls, t, a, i, "E2")
<1> DEFINE a == h.roots[given + 1]
<1>1. /\ calls = <<>> /\ t = Null /\ DOMAIN C = DOMAIN h.cell
      /\ \A x \in DOMAIN h.cell : Undisturbed(h, C, x)
      /\ \A x \in DOMAIN h.cell : C[x].mark => AllMarked(C, Kids(h.cell, x))
      /\ Sound(h, C) /\ given \in 0 .. Len(h.roots)
      /\ \A k \in 1 .. given : h.roots[k] > 0 => C[h.roots[k]].mark
  BY DEF Resting
<1>0. Len(h.roots) \in Nat
  <2>1. h.roots \in Seq(Int)
    BY DEF WellFormed
  <2> QED  BY <2>1, LenProperties
<1>2. /\ given + 1 \in 1 .. Len(h.roots)
      /\ \A k \in 1 .. given + 1 : k # given + 1 => k \in 1 .. given
  BY <1>0, <1>1
<1>3. a \in Int /\ (a > 0 => a \in DOMAIN h.cell)
  BY <1>2, RootFacts
<1>4. ASSUME a <= 0
      PROVE  Resting(h, C, given + 1, calls, t, "gc")
  <2>1. \A k \in 1 .. given + 1 : h.roots[k] > 0 => C[h.roots[k]].mark
    BY <1>1, <1>2, <1>3, <1>4
  <2>2. given + 1 \in 0 .. Len(h.roots)
    BY <1>2
  <2> QED  BY <1>1, <2>1, <2>2 DEF Resting
<1>5. ASSUME ~(a <= 0)
      PROVE  OnTheWay(h, C, given + 1, calls, t, a, i, "E2")
  <2> DEFINE path == [k \in Nat |-> a]
             pos == [k \in Nat |-> 0]
  <2>1. a > 0 /\ a \in DOMAIN h.cell
    BY <1>3, <1>5
  <2>2. /\ path \in [Nat -> DOMAIN h.cell] /\ pos \in [Nat -> Nat]
        /\ path[1] = a
    BY <2>1
  <2> HIDE DEF path, pos
  <2>3. 1 \in Nat \ {0} /\ 1 .. 1 - 1 = {} /\ 1 .. 1 = {1}
    OBVIOUS
  <2>4. IsPath(h, 1, path)
    BY <2>2, <2>3 DEF IsPath
  <2>5. Cells(h, C, 1, path)
    BY <1>1, <2>3 DEF Cells
  <2>6. Black(h, C, 1, path)
    BY <1>1 DEF Black
  <2>7. a \in Reach(h)
    BY <1>2, <2>1, ReachHolds DEF Holds
  <2>8. Asked(h, C, given + 1, path)
    BY <1>1, <1>2, <2>2 DEF Asked
  <2>9. About(h, C, given + 1, 1, path)
    BY <1>1, <1>2, <2>2, <2>3, <2>4, <2>5, <2>6, <2>7, <2>8 DEF About
  <2>10. Waiting(h, calls, 1, path, pos)
    <3>1. calls \in Seq([t : Int, p : Int, i : Int]) /\ 1 .. Len(calls) = {}
      <4>1. Len(calls) = 0
        BY <1>1
      <4> QED  BY <1>1, <4>1, EmptySeq
    <3> QED  BY <2>2, <2>3, <3>1 DEF Waiting
  <2>11. t = Prev(h, path, 1)
    BY <1>1 DEF Prev
  <2>12. OnPath(h, C, given + 1, calls, t, a, i, "E2", 1, path, pos)
    BY <2>2, <2>9, <2>10, <2>11 DEF OnPath, Here, Labels
  <2> QED  BY <2>2, <2>3, <2>12 DEF OnTheWay
<1> QED  BY <1>4, <1>5

\* When gc has given mark all its pointers, the marked cells are those that can
\* be reached, and the sweep gives back the others.
LEMMA SweptIsExact ==
  ASSUME NEW h, WellFormed(h), NEW C, NEW given, NEW calls, NEW t,
         Resting(h, C, given, calls, t, "end")
  PROVE  Exact(h, Swept(C)) /\ Unmarked(C) = DOMAIN h.cell \ Reach(h)
<1> DEFINE D == DOMAIN h.cell
           S == {x \in D : C[x].mark}
           dead == D \ Reach(h)
<1>1. /\ DOMAIN C = DOMAIN h.cell
      /\ \A x \in DOMAIN h.cell : Undisturbed(h, C, x)
      /\ \A x \in DOMAIN h.cell : C[x].mark => AllMarked(C, Kids(h.cell, x))
      /\ Sound(h, C)
      /\ \A k \in 1 .. Len(h.roots) : h.roots[k] > 0 => C[h.roots[k]].mark
  BY DEF Resting
<1>2. ClosedUnder(h.cell, S)
  BY <1>1, KidsAreCells DEF ClosedUnder, AllMarked
<1>3. Holds(h, S)
  BY <1>1, <1>2, RootFacts DEF Holds
<1>4. S = Reach(h)
  <2>1. Reach(h) \subseteq S
    BY <1>3, ReachLeast
  <2>2. S \subseteq Reach(h)
    BY <1>1 DEF Sound
  <2> QED  BY <2>1, <2>2
<1>5. Unmarked(C) = dead
  BY <1>1, <1>4 DEF Unmarked
<1>6. Reach(h) \subseteq D
  BY ReachHolds
<1> HIDE DEF S
<1>7. ASSUME NEW x \in Reach(h)
      PROVE  Swept(C)[x] = h.cell[x]
  <2>1. x \in DOMAIN C /\ ~(x \in dead) /\ x \in D
    BY <1>1, <1>6
  <2>2. Swept(C)[x] = [C[x] EXCEPT !.mark = FALSE]
    BY <1>5, <2>1 DEF Swept
  <2> DEFINE c == C[x]
             d == h.cell[x]
             v == FALSE
             ty == d.type
             atom == d.atom
             a == d.car
             b == d.cdr
             m == c.mark
  <2>3. c = Fields(ty, atom, m, a, b)
    BY <1>1, <2>1 DEF Undisturbed, IsCell
  <2>4. d = Fields(ty, atom, v, a, b)
    BY <2>1, CellsOf DEF IsCell
  <2> HIDE DEF c, d, v, ty, atom, a, b, m
  <2>5. [c EXCEPT !.mark = v] = Fields(ty, atom, v, a, b)
    BY <2>3, SMT DEF Fields
  <2>6. [c EXCEPT !.mark = v] = d
    BY <2>4, <2>5
  <2> QED  BY <2>2, <2>6, Zenon DEF c, d, v
<1>8. ASSUME NEW x \in dead
      PROVE  Swept(C)[x] = FreeCell(First({y \in dead : y > x}))
  <2> HIDE DEF dead
  <2>1. x \in DOMAIN C
    BY <1>1 DEF dead
  <2> QED  BY <1>5, <2>1 DEF Swept
<1>9. DOMAIN Swept(C) = D
  BY <1>1 DEF Swept
<1> QED  BY <1>5, <1>7, <1>8, <1>9 DEF Exact

\* A step of the walk at each of the labels.
LEMMA MarksOf ==
  ASSUME NEW h, NEW w, NEW C, NEW g, NEW s, NEW t, NEW p, NEW i, NEW at,
         w = Walk(C, h.roots, g, s, t, p, i, at),
         Resting(h, C, g, s, t, at) \/ OnTheWay(h, C, g, s, t, p, i, at)
  PROVE  Marks(h, w)
<1>1. /\ w.cell = C /\ w.roots = h.roots /\ w.given = g /\ w.calls = s
      /\ w.t = t /\ w.p = p /\ w.i = i /\ w.at = at
  BY WalkFields
<1> QED  BY <1>1 DEF Marks, IsWalk
LEMMA MarksAt ==
  ASSUME NEW h, NEW w, Marks(h, w)
  PROVE  /\ w = Walk(w.cell, h.roots, w.given, w.calls, w.t, w.p, w.i, w.at)
         /\ w.at \in {"gc", "end"} =>
              Resting(h, w.cell, w.given, w.calls, w.t, w.at)
         /\ w.at \in Labels =>
              OnTheWay(h, w.cell, w.given, w.calls, w.t, w.p, w.i, w.at)
         /\ w.at # "swept"
<1>1. Resting(h, w.cell, w.given, w.calls, w.t, w.at) => w.at \in {"gc", "end"}
  BY DEF Resting
<1>2. OnTheWay(h, w.cell, w.given, w.calls, w.t, w.p, w.i, w.at) => w.at \in Labels
  BY DEF OnTheWay, OnPath
<1>3. \A l \in Labels : l \notin {"gc", "end", "swept"}
  BY DEF Labels
<1> QED  BY <1>1, <1>2, <1>3 DEF Marks, IsWalk
LEMMA NextRootMarks ==
  ASSUME NEW h, WellFormed(h), NEW w, Marks(h, w), w.at = "gc"
  PROVE  Marks(h, NextRoot(w))
<1> DEFINE C == w.cell
           g == w.given
           s == w.calls
           t == w.t
           p == w.p
           i == w.i
           r == h.roots
<1>1. w = Walk(C, r, g, s, t, p, i, "gc") /\ Resting(h, C, g, s, t, "gc")
  BY MarksAt
<1> HIDE DEF C, g, s, t, p, i
<1>2. CASE g = Len(r)
  <2>1. NextRoot(w) = Walk(C, r, g, s, t, p, i, "end")
    BY <1>1, <1>2, NextRootIs
  <2>2. Resting(h, C, g, s, t, "end")
    BY <1>1, <1>2 DEF Resting
  <2> QED  BY <2>1, <2>2, MarksOf
<1>3. CASE g # Len(r) /\ r[g + 1] <= 0
  <2>1. NextRoot(w) = Walk(C, r, g + 1, s, t, p, i, "gc")
    BY <1>1, <1>3, NextRootIs
  <2>2. Resting(h, C, g + 1, s, t, "gc")
    BY <1>1, <1>3, RootStays
  <2> QED  BY <2>1, <2>2, MarksOf
<1>4. CASE g # Len(r) /\ ~(r[g + 1] <= 0)
  <2>1. NextRoot(w) = Walk(C, r, g + 1, s, t, r[g + 1], i, "E2")
    BY <1>1, <1>4, NextRootIs
  <2>2. OnTheWay(h, C, g + 1, s, t, r[g + 1], i, "E2")
    BY <1>1, <1>4, RootStays
  <2> QED  BY <2>1, <2>2, MarksOf
<1> QED  BY <1>2, <1>3, <1>4
LEMMA VisitMarks ==
  ASSUME NEW h, WellFormed(h), NEW w, Marks(h, w), w.at = "E2"
  PROVE  Marks(h, Visit(w))
<1> DEFINE C == w.cell
           g == w.given
           s == w.calls
           t == w.t
           p == w.p
           i == w.i
           r == h.roots
           to == IF C[p].type = "vector" THEN "vector" ELSE "E4"
<1>1. w = Walk(C, r, g, s, t, p, i, "E2") /\ OnTheWay(h, C, g, s, t, p, i, "E2")
  BY MarksAt DEF Labels
<1> HIDE DEF C, g, s, t, p, i
<1>2. Visit(w) = Walk(Visited(C, p), r, g, s, t, p, 0, to)
  BY <1>1, VisitIs
<1>3. OnTheWay(h, Visited(C, p), g, s, t, p, 0, to)
  BY <1>1, VisitStays
<1> HIDE DEF to
<1> QED  BY <1>2, <1>3, MarksOf
LEMMA MarkElementMarks ==
  ASSUME NEW h, WellFormed(h), NEW w, Marks(h, w), w.at = "vector"
  PROVE  Marks(h, MarkElement(w))
<1> DEFINE C == w.cell
           g == w.given
           s == w.calls
           t == w.t
           p == w.p
           i == w.i
           r == h.roots
<1>1. w = Walk(C, r, g, s, t, p, i, "vector") /\ OnTheWay(h, C, g, s, t, p, i, "vector")
  BY MarksAt DEF Labels
<1> HIDE DEF C, g, s, t, p, i
<1>2. ASSUME i >= Halves(C[p].car)
      PROVE  Marks(h, MarkElement(w))
  <2>1. MarkElement(w) = Walk(C, r, g, s, t, p, i, "E4")
    BY <1>1, <1>2, MarkElementEnds
  <2>2. Here(h, C, p, i, "vector") /\ p \in DOMAIN h.cell /\ Undisturbed(h, C, p)
    BY <1>1, AtHere
  <2>3. /\ Vec(h, p) /\ C[p].mark /\ i \in Nat
        /\ \A e \in Kids(h.cell, p) : e <= p + i => C[e].mark
    BY <2>2 DEF Here
  <2>4. /\ Halves(h.cell[p].car) \in Nat
        /\ Kids(h.cell, p) = (p + 1) .. (p + Halves(h.cell[p].car))
    BY <2>2, <2>3, VectorFacts
  <2>5. p \in Nat /\ i >= Halves(h.cell[p].car)
    BY <1>2, <2>2, CellsOf DEF Undisturbed
  <2>6. \A e \in Kids(h.cell, p) : e <= p + i
    BY <2>3, <2>4, <2>5
  <2>7. Here(h, C, p, i, "E4")
    BY <2>3, <2>6 DEF Here, AllMarked
  <2>8. OnTheWay(h, C, g, s, t, p, i, "E4")
    BY <1>1, <2>7, LabelStays DEF Labels
  <2> QED  BY <2>1, <2>8, MarksOf
<1>3. CASE ~(i >= Halves(C[p].car))
  <2> DEFINE d == Append(s, [t |-> t, p |-> p, i |-> i + 1])
             q == p + 1 + i
  <2>1. MarkElement(w) = Walk(C, r, g, d, Null, q, i, "E2")
    BY <1>1, <1>3, MarkElementIs
  <2>2. OnTheWay(h, C, g, d, Null, q, i, "E2")
    BY <1>1, <1>3, ElementStays
  <2> HIDE DEF d, q
  <2> QED  BY <2>1, <2>2, MarksOf
<1> QED  BY <1>2, <1>3
LEMMA DownCarMarks ==
  ASSUME NEW h, WellFormed(h), NEW w, Marks(h, w), w.at = "E4"
  PROVE  Marks(h, DownCar(w))
<1> DEFINE C == w.cell
           g == w.given
           s == w.calls
           t == w.t
           p == w.p
           i == w.i
           r == h.roots
<1>1. w = Walk(C, r, g, s, t, p, i, "E4") /\ OnTheWay(h, C, g, s, t, p, i, "E4")
  BY MarksAt DEF Labels
<1> HIDE DEF C, g, s, t, p, i
<1>2. Here(h, C, p, i, "E4") /\ p \in DOMAIN h.cell /\ Undisturbed(h, C, p)
  BY <1>1, AtHere
<1>3. /\ C[p].mark /\ (Vec(h, p) => AllMarked(C, Kids(h.cell, p)))
      /\ C[p].atom = h.cell[p].atom /\ C[p].car = h.cell[p].car
  BY <1>2 DEF Here, Undisturbed
<1>4. CASE C[p].atom
  <2>1. DownCar(w) = Walk(C, r, g, s, t, p, i, "E6")
    BY <1>1, <1>4, DownCarIs
  <2>2. AllMarked(C, Kids(h.cell, p))
    <3>1. ~Vec(h, p) => Kids(h.cell, p) = {}
      BY <1>2, <1>3, <1>4, AtomFacts
    <3> QED  BY <1>3, <3>1 DEF AllMarked
  <2>3. Here(h, C, p, i, "E6")
    BY <1>3, <2>2 DEF Here
  <2>4. OnTheWay(h, C, g, s, t, p, i, "E6")
    BY <1>1, <2>3, LabelStays DEF Labels
  <2> QED  BY <2>1, <2>4, MarksOf
<1>5. CASE ~C[p].atom /\ Marked(C, C[p].car)
  <2>1. DownCar(w) = Walk(C, r, g, s, t, p, i, "E5")
    BY <1>1, <1>5, DownCarIs
  <2>2. Here(h, C, p, i, "E5")
    BY <1>3, <1>5 DEF Here
  <2>3. OnTheWay(h, C, g, s, t, p, i, "E5")
    BY <1>1, <2>2, LabelStays DEF Labels
  <2> QED  BY <2>1, <2>3, MarksOf
<1>6. CASE ~C[p].atom /\ ~Marked(C, C[p].car)
  <2>1. DownCar(w) = Walk(CarTurned(C, p, t), r, g, s, p, C[p].car, i, "E2")
    BY <1>1, <1>6, DownCarIs
  <2>2. OnTheWay(h, CarTurned(C, p, t), g, s, p, C[p].car, i, "E2")
    BY <1>1, <1>6, DownCarStays
  <2> QED  BY <2>1, <2>2, MarksOf
<1> QED  BY <1>4, <1>5, <1>6
LEMMA DownCdrMarks ==
  ASSUME NEW h, WellFormed(h), NEW w, Marks(h, w), w.at = "E5"
  PROVE  Marks(h, DownCdr(w))
<1> DEFINE C == w.cell
           g == w.given
           s == w.calls
           t == w.t
           p == w.p
           i == w.i
           r == h.roots
<1>1. w = Walk(C, r, g, s, t, p, i, "E5") /\ OnTheWay(h, C, g, s, t, p, i, "E5")
  BY MarksAt DEF Labels
<1> HIDE DEF C, g, s, t, p, i
<1>2. Here(h, C, p, i, "E5") /\ p \in DOMAIN h.cell /\ Undisturbed(h, C, p)
  BY <1>1, AtHere
<1>3. /\ C[p].mark /\ ~h.cell[p].atom /\ Marked(C, h.cell[p].car)
      /\ C[p].cdr = h.cell[p].cdr
  BY <1>2 DEF Here, Undisturbed
<1>4. CASE Marked(C, C[p].cdr)
  <2>1. DownCdr(w) = Walk(C, r, g, s, t, p, i, "E6")
    BY <1>1, <1>4, DownCdrIs
  <2>2. AllMarked(C, Kids(h.cell, p))
    <3>1. /\ Kids(h.cell, p) = {x \in {h.cell[p].car, h.cell[p].cdr} : x > 0}
          /\ h.cell[p].car \in Int /\ h.cell[p].cdr \in Int
      BY <1>2, <1>3, PairFacts
    <3> QED  BY <1>3, <1>4, <3>1 DEF AllMarked, Marked
  <2>3. Here(h, C, p, i, "E6")
    BY <1>3, <2>2 DEF Here
  <2>4. OnTheWay(h, C, g, s, t, p, i, "E6")
    BY <1>1, <2>3, LabelStays DEF Labels
  <2> QED  BY <2>1, <2>4, MarksOf
<1>5. CASE ~Marked(C, C[p].cdr)
  <2>1. DownCdr(w) = Walk(CdrTurned(C, p, t), r, g, s, p, C[p].cdr, i, "E2")
    BY <1>1, <1>5, DownCdrIs
  <2>2. OnTheWay(h, CdrTurned(C, p, t), g, s, p, C[p].cdr, i, "E2")
    BY <1>1, <1>5, DownCdrStays
  <2> QED  BY <2>1, <2>2, MarksOf
<1> QED  BY <1>4, <1>5
LEMMA UpMarks ==
  ASSUME NEW h, WellFormed(h), NEW w, Marks(h, w), w.at = "E6"
  PROVE  Marks(h, Up(w))
<1> DEFINE C == w.cell
           g == w.given
           s == w.calls
           t == w.t
           p == w.p
           i == w.i
           r == h.roots
<1>1. w = Walk(C, r, g, s, t, p, i, "E6") /\ OnTheWay(h, C, g, s, t, p, i, "E6")
  BY MarksAt DEF Labels
<1> HIDE DEF C, g, s, t, p, i
<1>2. CASE t = Null /\ Len(s) = 0
  <2>1. Up(w) = Walk(C, r, g, s, t, p, i, "gc")
    BY <1>1, <1>2, UpIs
  <2>2. Resting(h, C, g, s, t, "gc")
    BY <1>1, <1>2, ReturnsToGc
  <2> QED  BY <2>1, <2>2, MarksOf
<1>3. CASE t = Null /\ Len(s) # 0
  <2> DEFINE n == Len(s)
             d == SubSeq(s, 1, n - 1)
  <2>1. Up(w) = Walk(C, r, g, d, s[n].t, s[n].p, s[n].i, "vector")
    BY <1>1, <1>3, UpIs
  <2>2. OnTheWay(h, C, g, d, s[n].t, s[n].p, s[n].i, "vector")
    BY <1>1, <1>3, ReturnsToCall
  <2> HIDE DEF n, d
  <2> QED  BY <2>1, <2>2, MarksOf
<1>4. CASE t # Null /\ C[t].atom
  <2>1. Up(w) = Walk(CarBack(C, t, p), r, g, s, C[t].car, t, i, "E5")
    BY <1>1, <1>4, UpIs
  <2>2. OnTheWay(h, CarBack(C, t, p), g, s, C[t].car, t, i, "E5")
    BY <1>1, <1>4, UpCarStays
  <2> QED  BY <2>1, <2>2, MarksOf
<1>5. CASE t # Null /\ ~C[t].atom
  <2>1. Up(w) = Walk(CdrTurned(C, t, p), r, g, s, C[t].cdr, t, i, "E6")
    BY <1>1, <1>5, UpIs
  <2>2. OnTheWay(h, CdrTurned(C, t, p), g, s, C[t].cdr, t, i, "E6")
    BY <1>1, <1>5, UpCdrStays
  <2> QED  BY <2>1, <2>2, MarksOf
<1> QED  BY <1>2, <1>3, <1>4, <1>5

\* When gc begins, no cell is marked.
LEMMA BeginMarks ==
  ASSUME NEW h, WellFormed(h)
  PROVE  Marks(h, Begin(h.cell, h.roots))
<1> DEFINE w == Begin(h.cell, h.roots)
<1>1. w = Walk(h.cell, h.roots, 0, <<>>, Null, Null, 0, "gc")
  BY DEF Begin, Walk
<1>2. \A x \in DOMAIN h.cell : IsCell(h.cell[x]) /\ ~h.cell[x].mark
  BY CellsOf
<1>3. \A x \in DOMAIN h.cell : Undisturbed(h, h.cell, x)
  BY <1>2 DEF Undisturbed
<1>4. 0 \in 0 .. Len(h.roots) /\ 1 .. 0 = {}
  <2>1. h.roots \in Seq(Int)
    BY DEF WellFormed
  <2>2. Len(h.roots) \in Nat
    BY <2>1, LenProperties
  <2> QED  BY <2>2
<1>5. Resting(h, h.cell, 0, <<>>, Null, "gc")
  BY <1>2, <1>3, <1>4 DEF Resting, Sound
<1> HIDE DEF w
<1>6. Marks(h, w)
  BY <1>1, <1>5, MarksOf
<1> QED  BY <1>6 DEF w

-----------------------------------------------------------------------------
\* The memory as a whole.  What is used; and the pointers that may be followed:
\* to used cells but not into vectors.
Used(C) == DOMAIN C \ Free(C)
Safe(C, q) == q \in Int /\ (q > 0 => q \in Used(C) /\ q \notin Elements(C))

\* A cell in use, with two pointers or without; the cells of a vector are its own;
\* and the free list in the order of addresses.
Plain(C, c) ==
  /\ IsCell(c) /\ c.mark = FALSE /\ c.atom \in BOOLEAN /\ c.type # "free"
  /\ ~c.atom => Safe(C, c.car) /\ Safe(C, c.cdr)
Owns(C, v) ==
  /\ C[v].atom /\ C[v].car \in Nat
  /\ ElementCells(C, v) \subseteq Used(C)
  /\ \A e \in ElementCells(C, v) :
       /\ C[e].type # "vector"
       /\ \A u \in DOMAIN C : C[u].type = "vector" /\ e \in ElementCells(C, u) => u = v
Listed(C) == \A x \in Free(C) : C[x] = FreeCell(First({y \in Free(C) : y > x}))
SoundCells(C) ==
  /\ DOMAIN C \subseteq Nat \ {0}
  /\ \A x \in Used(C) : Plain(C, C[x])
  /\ \A v \in Used(C) : C[v].type = "vector" => Owns(C, v)
  /\ Listed(C)

\* struct scheme by its fields; no segment reaches the place of the next.
Mem(C, f, n, s, size, full, new) ==
  [cell |-> C, free_cell |-> f, fcells |-> n, last_cell_seg |-> s,
   segsize |-> size, no_memory |-> full, new |-> new]
IsMem(m) ==
  m = Mem(m.cell, m.free_cell, m.fcells, m.last_cell_seg, SegSize, m.no_memory, m.new)
Bounded(C, s) == s \in Int /\ s + 1 \in Nat /\ \A x \in DOMAIN C : x < (s + 1) * (SegSize + 1)
SoundMem(m) ==
  /\ IsMem(m) /\ SoundCells(m.cell) /\ Bounded(m.cell, m.last_cell_seg)
  /\ m.free_cell = First(Free(m.cell))
  /\ m.fcells = Cardinality(Free(m.cell))

\* While a call waits for the collector: what it is to make, and that it and the
\* registers are among the pointers from which gc marks.
Root(q) == \E k \in 1 .. Len(heap.roots) : heap.roots[k] = q
Wanted ==
  \/ asked.call = "get_cell" /\ Plain(mem.cell, asked.cell) /\ asked.cell.type # "vector"
     /\ (~asked.cell.atom => Root(asked.cell.car) /\ Root(asked.cell.cdr))
  \/ asked.call = "mk_vector" /\ asked.len \in Nat
  \/ asked.call = "gc"
Collecting ==
  \/ /\ heap.cell = mem.cell /\ WellFormed(heap) /\ Marks(heap, walk)
  \/ /\ walk.at = "swept" /\ Exact(heap, mem.cell)
StorageInv ==
  /\ SoundMem(mem)
  /\ regs \in [1 .. Registers -> Int]
  /\ \A i \in 1 .. Registers : Safe(mem.cell, regs[i])
  /\ \/ asked.call = "none" /\ walk.at = "idle" /\ Safe(mem.cell, mem.new)
     \/ /\ Wanted /\ Collecting
        /\ heap.roots \in Seq(Int)
        /\ \A k \in 1 .. Len(heap.roots) : Safe(mem.cell, heap.roots[k])
        /\ \A i \in 1 .. Registers : Root(regs[i])

-----------------------------------------------------------------------------
\* The first of a set of addresses.
LEMMA Least ==
  ASSUME NEW S, S \subseteq Nat, S # {}
  PROVE  \E x \in S : \A y \in S : x <= y
<1>1. PICK x \in S : \A y \in S : ~ (<<y, x>> \in OpToRel(<, Nat))
  BY NatLessThanWellFounded, WFMin
<1>2. ASSUME NEW y \in S
      PROVE  x <= y
  <2>1. x \in Nat /\ y \in Nat
    OBVIOUS
  <2>2. ~ (y < x)
    <3>1. ~ (<<y, x>> \in OpToRel(<, Nat))
      BY <1>1
    <3> QED  BY <2>1, <3>1 DEF OpToRel
  <2> QED  BY <2>1, <2>2
<1> QED  BY <1>2
LEMMA FirstOf ==
  ASSUME NEW S, S \subseteq Nat \ {0}, S # {}
  PROVE  First(S) \in S /\ (\A y \in S : First(S) <= y) /\ First(S) # NIL
<1>1. \E x \in S : \A y \in S : x <= y
  BY Least
<1>2. First(S) = CHOOSE x \in S : \A y \in S : x <= y
  BY DEF First
<1>3. First(S) \in S /\ \A y \in S : First(S) <= y
  BY <1>1, <1>2
<1> QED  BY <1>3 DEF NIL
LEMMA FirstIs ==
  ASSUME NEW S, S \subseteq Nat \ {0}, NEW x \in S, \A y \in S : x <= y
  PROVE  First(S) = x
<1>1. First(S) \in S /\ First(S) <= x
  BY FirstOf
<1>2. x <= First(S) /\ x \in Nat /\ First(S) \in Nat
  BY <1>1
<1> QED  BY <1>1, <1>2
LEMMA FirstNone ==
  ASSUME NEW S, S \subseteq Nat \ {0}
  PROVE  First(S) = NIL <=> S = {}
BY FirstOf DEF First

-----------------------------------------------------------------------------
\* What a sound memory is like.
LEMMA FreeCellIs ==
  ASSUME NEW q
  PROVE  LET c == FreeCell(q)
         IN  /\ IsCell(c) /\ c.mark = FALSE /\ c.atom = FALSE
             /\ c.type = "free" /\ c.cdr = q /\ c.car = NIL
BY DEF FreeCell, Cell, IsCell, Fields
LEMMA Frees ==
  ASSUME NEW C, SoundCells(C)
  PROVE  /\ Free(C) \subseteq Nat \ {0} /\ Free(C) \subseteq DOMAIN C
         /\ Used(C) \subseteq Nat \ {0} /\ Used(C) \subseteq DOMAIN C
         /\ \A x \in DOMAIN C : x \in Free(C) \/ x \in Used(C)
         /\ \A x \in Free(C) : ~(x \in Used(C))
         /\ \A x \in Used(C) : C[x].type # "free"
         /\ \A x \in Free(C) :
              /\ C[x].type = "free" /\ ~C[x].atom /\ C[x].car = NIL
              /\ C[x].cdr = First({y \in Free(C) : y > x})
<1>1. ASSUME NEW x \in Free(C)
      PROVE  /\ C[x].type = "free" /\ ~C[x].atom /\ C[x].car = NIL
             /\ C[x].cdr = First({y \in Free(C) : y > x})
  <2> DEFINE q == First({y \in Free(C) : y > x})
  <2>1. C[x] = FreeCell(q)
    BY DEF SoundCells, Listed
  <2> HIDE DEF q
  <2>2. C[x].type = "free" /\ ~C[x].atom /\ C[x].car = NIL /\ C[x].cdr = q
    BY <2>1, FreeCellIs
  <2> QED  BY <2>2 DEF q
<1> QED  BY <1>1 DEF SoundCells, Free, Used
LEMMA Vectors ==
  ASSUME NEW C, SoundCells(C), NEW v \in DOMAIN C, C[v].type = "vector"
  PROVE  v \in Used(C) /\ Owns(C, v)
BY DEF SoundCells, Used, Free
LEMMA ElementsUsed ==
  ASSUME NEW C, SoundCells(C)
  PROVE  Elements(C) \subseteq Used(C)
BY Vectors DEF Elements, Owns
LEMMA Finite ==
  ASSUME NEW C, NEW s, SoundCells(C), Bounded(C, s)
  PROVE  IsFiniteSet(DOMAIN C) /\ IsFiniteSet(Free(C)) /\ Cardinality(Free(C)) \in Nat
<1> DEFINE b == (s + 1) * (SegSize + 1)
           D == DOMAIN C
<1>1. b \in Nat
  BY SizeAssumption DEF Bounded
<1>2. D \subseteq Nat /\ \A x \in D : x < b
  BY DEF SoundCells, Bounded
<1> HIDE DEF b, D
<1>3. \A x \in D : x <= b
  BY <1>1, <1>2
<1>4. IsFiniteSet(D)
  BY <1>1, <1>2, <1>3, FS_BoundedSetOfNaturals
<1>5. Free(C) \in SUBSET D
  BY DEF Free, D
<1>6. IsFiniteSet(Free(C))
  BY <1>4, <1>5, FS_Subset
<1> QED  BY <1>4, <1>6, FS_CardinalityType DEF D

\* A memory whose cells are sound is one from which gc may mark.
LEMMA SoundIsWellFormed ==
  ASSUME NEW h, SoundCells(h.cell), h.roots \in Seq(Int),
         \A k \in 1 .. Len(h.roots) : Safe(h.cell, h.roots[k])
  PROVE  WellFormed(h) /\ Reach(h) \subseteq Used(h.cell)
<1> DEFINE C == h.cell
<1>1. ASSUME NEW x \in DOMAIN C
      PROVE  /\ IsCell(C[x]) /\ C[x].mark = FALSE /\ C[x].atom \in BOOLEAN
             /\ ~C[x].atom => /\ Pointer(C, C[x].car) /\ Pointer(C, C[x].cdr)
                              /\ ~(C[x].car \in Elements(C)) /\ ~(C[x].cdr \in Elements(C))
                              /\ x \in Used(C) => C[x].car \in Used(C) \/ C[x].car <= 0
                              /\ x \in Used(C) => C[x].cdr \in Used(C) \/ C[x].cdr <= 0
  <2>1. CASE x \in Used(C)
    <3>1. Plain(C, C[x])
      BY <2>1 DEF SoundCells
    <3>2. ASSUME NEW q, Safe(C, q)
          PROVE  Pointer(C, q) /\ ~(q \in Elements(C)) /\ (q \in Used(C) \/ q <= 0)
      <4>1. CASE q > 0
        BY <3>2, <4>1, Frees DEF Safe, Pointer
      <4>2. CASE ~(q > 0)
        <5>1. q \in Int /\ q <= 0
          BY <3>2, <4>2 DEF Safe
        <5>2. ~(q \in Elements(C))
          BY <5>1, ElementsUsed, Frees
        <5> QED  BY <5>1, <5>2 DEF Pointer
      <4> QED  BY <4>1, <4>2
    <3> QED  BY <3>1, <3>2 DEF Plain
  <2>2. CASE x \in Free(C)
    <3> DEFINE q == First({y \in Free(C) : y > x})
    <3>1. C[x] = FreeCell(q)
      BY <2>2 DEF SoundCells, Listed
    <3>2. /\ IsCell(C[x]) /\ C[x].mark = FALSE /\ C[x].atom = FALSE
          /\ C[x].car = NIL /\ C[x].cdr = q
      BY <3>1, FreeCellIs
    <3>3. {y \in Free(C) : y > x} \subseteq Nat \ {0}
      BY Frees
    <3>4. q = NIL \/ q \in Free(C)
      BY <3>3, FirstOf, FirstNone
    <3>5. Pointer(C, NIL) /\ Pointer(C, q)
      BY <3>4, Frees DEF Pointer, NIL
    <3>6. ~(NIL \in Elements(C)) /\ ~(q \in Elements(C))
      BY <3>4, ElementsUsed, Frees DEF NIL
    <3>7. ~(x \in Used(C))
      BY <2>2, Frees
    <3> QED  BY <3>2, <3>5, <3>6, <3>7
  <2> QED  BY <2>1, <2>2, Frees
<1>2. ASSUME NEW x \in DOMAIN C
      PROVE  C[x] = Cell(C[x].type, C[x].atom, C[x].car, C[x].cdr)
  <2>1. IsCell(C[x]) /\ C[x].mark = FALSE
    BY <1>1
  <2> QED  BY <2>1 DEF IsCell, Fields, Cell
<1>3. ASSUME NEW x \in DOMAIN C, NEW e, e \in Kids(C, x)
      PROVE  \/ C[x].type = "vector" /\ e \in ElementCells(C, x)
             \/ /\ ~(e \in Elements(C)) /\ (x \in Used(C) => e \in Used(C))
  <2>1. CASE C[x].type = "vector"
    BY <1>3, <2>1 DEF Kids
  <2>2. CASE C[x].type # "vector" /\ ~C[x].atom
    <3>1. e \in {C[x].car, C[x].cdr} /\ e > 0
      BY <1>3, <2>2 DEF Kids
    <3>2. Pointer(C, e)
      BY <1>1, <2>2, <3>1
    <3>3. ~(e <= 0)
      BY <3>1, <3>2 DEF Pointer, SoundCells
    <3> QED  BY <1>1, <2>2, <3>1, <3>3
  <2>3. CASE C[x].type # "vector" /\ C[x].atom
    BY <1>3, <2>3 DEF Kids
  <2> QED  BY <2>1, <2>2, <2>3, <1>1
<1>4. ASSUME NEW k \in 1 .. Len(h.roots)
      PROVE  /\ Pointer(C, h.roots[k]) /\ ~(h.roots[k] \in Elements(C))
             /\ h.roots[k] > 0 => h.roots[k] \in Used(C)
  <2>1. Safe(C, h.roots[k])
    OBVIOUS
  <2>2. h.roots[k] \in Int
    BY <2>1 DEF Safe
  <2>3. ~(h.roots[k] > 0) => ~(h.roots[k] \in Elements(C))
    BY <2>2, ElementsUsed, Frees
  <2> QED  BY <2>1, <2>2, <2>3, Frees DEF Safe, Pointer
<1>5. ASSUME NEW x \in DOMAIN C, C[x].type = "vector"
      PROVE  IsVector(h, x)
  <2>1. x \in Used(C) /\ Owns(C, x)
    BY <1>5, Vectors
  <2>2. \A e \in ElementCells(C, x) : e \in Elements(C)
    BY <1>5, <2>1, Frees DEF Elements, Owns
  <2>3. ASSUME NEW e \in ElementCells(C, x), NEW y \in DOMAIN C, e \in Kids(C, y)
        PROVE  y = x
    BY <1>3, <2>1, <2>2, <2>3 DEF Owns
  <2> QED  BY <1>4, <2>1, <2>2, <2>3, Frees DEF IsVector, Owns
<1>6. WellFormed(h)
  BY <1>1, <1>2, <1>4, <1>5 DEF WellFormed, SoundCells
<1>7. ClosedUnder(C, Used(C))
  <2>1. ASSUME NEW x \in Used(C), NEW e \in Kids(C, x)
        PROVE  e \in Used(C)
    <3>1. x \in DOMAIN C
      BY Frees
    <3>2. C[x].type = "vector" => ElementCells(C, x) \subseteq Used(C)
      BY <3>1, Vectors DEF Owns
    <3> QED  BY <1>3, <3>1, <3>2
  <2> QED  BY <2>1 DEF ClosedUnder
<1>8. Holds(h, Used(C))
  BY <1>4, <1>7 DEF Holds
<1>9. Used(C) \in SUBSET DOMAIN C
  BY Frees
<1> QED  BY <1>6, <1>8, <1>9, ReachLeast

-----------------------------------------------------------------------------
\* Cells that are taken into use, whatever becomes of the free ones.
Taking(C, D) == Used(D) \ Used(C)
Keeps(C, D) ==
  /\ \A x \in Used(C) : x \in Used(D) /\ D[x] = C[x]
  /\ \A x \in Used(C) : x \in Elements(D) => x \in Elements(C)
LEMMA KeepsSafe ==
  ASSUME NEW C, NEW D, Keeps(C, D), NEW q, Safe(C, q)
  PROVE  Safe(D, q)
BY DEF Keeps, Safe
LEMMA KeepsPlain ==
  ASSUME NEW C, NEW D, Keeps(C, D), NEW c, Plain(C, c)
  PROVE  Plain(D, c)
BY KeepsSafe DEF Plain

\* A new vector has new cells.
NewVectors(C, D) ==
  \A v \in Taking(C, D) :
    D[v].type = "vector" =>
      /\ D[v].atom /\ D[v].car \in Nat
      /\ ElementCells(D, v) \subseteq Taking(C, D)
      /\ \A e \in ElementCells(D, v) :
           /\ D[e].type # "vector"
           /\ \A u \in Taking(C, D) : D[u].type = "vector" => u = v
LEMMA SoundGrows ==
  ASSUME NEW C, NEW D, SoundCells(C),
         DOMAIN D \subseteq Nat \ {0}, Listed(D),
         \A x \in Used(C) : x \in Used(D) /\ D[x] = C[x],
         NewVectors(C, D),
         Keeps(C, D) => \A x \in Taking(C, D) : Plain(D, D[x])
  PROVE  SoundCells(D) /\ Keeps(C, D)
<1>1. ASSUME NEW v \in Used(D), D[v].type = "vector", ~(v \in Taking(C, D))
      PROVE  /\ v \in Used(C) /\ C[v].type = "vector"
             /\ ElementCells(D, v) = ElementCells(C, v)
             /\ ElementCells(C, v) \subseteq Used(C)
             /\ Owns(C, v)
  <2>1. v \in Used(C) /\ D[v] = C[v]
    BY <1>1 DEF Taking
  <2>2. Owns(C, v)
    BY <1>1, <2>1 DEF SoundCells
  <2> QED  BY <1>1, <2>1, <2>2 DEF ElementCells, Owns
<1>2. \A v \in DOMAIN D : D[v].type = "vector" => v \in Used(D)
  BY DEF Used, Free
<1>3. ASSUME NEW x \in Used(C), x \in Elements(D)
      PROVE  x \in Elements(C)
  <2>1. PICK v \in DOMAIN D : D[v].type = "vector" /\ x \in ElementCells(D, v)
    BY <1>3 DEF Elements
  <2>2. ~(v \in Taking(C, D))
    <3>1. ~(x \in Taking(C, D))
      BY DEF Taking
    <3> QED  BY <2>1, <3>1 DEF NewVectors
  <2>3. v \in Used(C) /\ C[v].type = "vector" /\ x \in ElementCells(C, v)
    BY <1>1, <1>2, <2>1, <2>2
  <2> QED  BY <2>3, Frees DEF Elements
<1>4. Keeps(C, D)
  BY <1>3 DEF Keeps
<1>5. ASSUME NEW x \in Used(D)
      PROVE  Plain(D, D[x])
  <2>1. CASE x \in Taking(C, D)
    BY <1>4, <2>1
  <2>2. CASE x \in Used(C)
    <3>1. Plain(C, C[x]) /\ D[x] = C[x]
      BY <2>2 DEF SoundCells
    <3> QED  BY <1>4, <3>1, KeepsPlain
  <2> QED  BY <2>1, <2>2 DEF Taking
<1>6. ASSUME NEW v \in Used(D), D[v].type = "vector"
      PROVE  Owns(D, v)
  <2>1. CASE v \in Taking(C, D)
    <3>1. /\ D[v].atom /\ D[v].car \in Nat
          /\ ElementCells(D, v) \subseteq Taking(C, D)
          /\ \A e \in ElementCells(D, v) :
               /\ D[e].type # "vector"
               /\ \A u \in Taking(C, D) : D[u].type = "vector" => u = v
      BY <1>6, <2>1 DEF NewVectors
    <3>2. ASSUME NEW e \in ElementCells(D, v), NEW u \in DOMAIN D,
                 D[u].type = "vector", e \in ElementCells(D, u)
          PROVE  u = v
      <4>1. CASE u \in Taking(C, D)
        BY <3>1, <3>2, <4>1
      <4>2. CASE ~(u \in Taking(C, D))
        <5>1. e \in Used(C)
          BY <1>1, <1>2, <3>2, <4>2
        <5> QED  BY <3>1, <5>1 DEF Taking
      <4> QED  BY <4>1, <4>2
    <3> QED  BY <3>1, <3>2 DEF Owns, Taking
  <2>2. CASE ~(v \in Taking(C, D))
    <3>1. /\ v \in Used(C) /\ C[v].type = "vector"
          /\ ElementCells(D, v) = ElementCells(C, v)
          /\ ElementCells(C, v) \subseteq Used(C)
          /\ Owns(C, v) /\ D[v] = C[v]
      BY <1>1, <1>6, <2>2
    <3>2. ASSUME NEW e \in ElementCells(D, v), NEW u \in DOMAIN D,
                 D[u].type = "vector", e \in ElementCells(D, u)
          PROVE  u = v
      <4>1. e \in ElementCells(C, v) /\ e \in Used(C)
        BY <3>1
      <4>2. ~(u \in Taking(C, D))
        <5>1. ~(e \in Taking(C, D))
          BY <4>1 DEF Taking
        <5> QED  BY <3>2, <5>1 DEF NewVectors
      <4>3. u \in Used(C) /\ C[u].type = "vector" /\ e \in ElementCells(C, u)
        BY <1>1, <1>2, <3>2, <4>2
      <4> QED  BY <3>1, <4>1, <4>3, Frees DEF Owns
    <3>3. \A e \in ElementCells(D, v) : e \in Used(D) /\ D[e].type # "vector"
      BY <3>1 DEF Owns
    <3> QED  BY <3>1, <3>2, <3>3 DEF Owns
  <2> QED  BY <2>1, <2>2
<1> QED  BY <1>4, <1>5, <1>6 DEF SoundCells

\* The first free cell is taken.
LEMMA FirstTaken ==
  ASSUME NEW C, SoundCells(C), NEW f, f = First(Free(C)), f # NIL,
         NEW c, Plain(C, c), c.type # "vector"
  PROVE  LET D == [C EXCEPT ![f] = c]
         IN  /\ SoundCells(D) /\ Keeps(C, D) /\ DOMAIN D = DOMAIN C
             /\ f \in Free(C) /\ Free(D) = Free(C) \ {f}
             /\ C[f].cdr = First(Free(D)) /\ Safe(D, f)
<1> DEFINE D == [C EXCEPT ![f] = c]
<1>1. f \in Free(C) /\ f \in Nat \ {0} /\ (\A y \in Free(C) : f <= y) /\ ~(f \in Used(C))
  <2>1. Free(C) \subseteq Nat \ {0}
    BY Frees
  <2>2. Free(C) # {}
    BY <2>1, FirstNone
  <2> QED  BY <2>1, <2>2, FirstOf, Frees
<1>2. DOMAIN D = DOMAIN C /\ D[f] = c /\ \A x \in DOMAIN C : x # f => D[x] = C[x]
  BY <1>1 DEF Free
<1> HIDE DEF D
<1>3. Free(D) = Free(C) \ {f} /\ f \in Used(D) /\ Used(D) = Used(C) \cup {f}
  BY <1>1, <1>2 DEF Free, Used, Plain
<1>4. ASSUME NEW x \in Free(D)
      PROVE  {y \in Free(D) : y > x} = {y \in Free(C) : y > x}
  <2>1. f <= x /\ x \in Nat /\ f \in Nat
    BY <1>1, <1>3, Frees
  <2> QED  BY <1>3, <2>1
<1>5. Listed(D)
  <2>1. ASSUME NEW x \in Free(D)
        PROVE  D[x] = FreeCell(First({y \in Free(D) : y > x}))
    <3>1. x \in Free(C) /\ D[x] = C[x]
      BY <1>2, <1>3, Frees
    <3>2. C[x] = FreeCell(First({y \in Free(C) : y > x}))
      BY <3>1 DEF SoundCells, Listed
    <3> QED  BY <1>4, <3>1, <3>2
  <2> QED  BY <2>1 DEF Listed
<1>6. C[f].cdr = First(Free(D))
  <2>1. {y \in Free(C) : y > f} = Free(D)
    BY <1>1, <1>3, Frees
  <2> QED  BY <1>1, <2>1, Frees
<1>7. \A x \in Used(C) : x \in Used(D) /\ D[x] = C[x]
  BY <1>1, <1>2, <1>3, Frees
<1>8. Taking(C, D) = {f}
  BY <1>1, <1>3 DEF Taking
<1>9. NewVectors(C, D)
  BY <1>2, <1>8 DEF NewVectors
<1>10. Keeps(C, D) => \A x \in Taking(C, D) : Plain(D, D[x])
  BY <1>2, <1>8, KeepsPlain
<1>11. SoundCells(D) /\ Keeps(C, D)
  BY <1>2, <1>5, <1>7, <1>9, <1>10, SoundGrows DEF SoundCells
<1>12. Safe(D, f)
  <2>1. ~(f \in Elements(D))
    <3>1. SUFFICES ASSUME NEW v \in DOMAIN D, D[v].type = "vector", f \in ElementCells(D, v)
                   PROVE  FALSE
      BY DEF Elements
    <3>2. v # f /\ v \in DOMAIN C /\ D[v] = C[v]
      BY <1>2, <3>1
    <3>3. C[v].type = "vector" /\ f \in ElementCells(C, v)
      BY <3>1, <3>2 DEF ElementCells
    <3>4. f \in Used(C)
      BY <3>2, <3>3, Vectors DEF Owns
    <3> QED  BY <1>1, <3>4
  <2> QED  BY <1>1, <1>3, <2>1 DEF Safe
<1> QED  BY <1>1, <1>2, <1>3, <1>6, <1>11, <1>12 DEF D

\* What is written into a cell in use.
LEMMA WriteSound ==
  ASSUME NEW C, SoundCells(C), NEW x \in Used(C), C[x].type # "vector",
         NEW c, Plain(C, c), c.type # "vector"
  PROVE  LET D == [C EXCEPT ![x] = c]
         IN  /\ SoundCells(D) /\ DOMAIN D = DOMAIN C /\ Free(D) = Free(C)
             /\ \A q : Safe(C, q) => Safe(D, q)
<1> DEFINE D == [C EXCEPT ![x] = c]
<1>1. DOMAIN D = DOMAIN C /\ D[x] = c /\ \A y \in DOMAIN C : y # x => D[y] = C[y]
  BY Frees
<1> HIDE DEF D
<1>2. x \in DOMAIN C /\ C[x].type # "free" /\ c.type # "free"
  BY Frees DEF Plain
<1>3. Free(D) = Free(C)
  BY <1>1, <1>2 DEF Free
<1>4. Used(D) = Used(C)
  BY <1>1, <1>3 DEF Used
<1>5. ASSUME NEW v \in DOMAIN D
      PROVE  /\ D[v].type = "vector" <=> C[v].type = "vector"
             /\ D[v].type = "vector" => D[v] = C[v] /\ ElementCells(D, v) = ElementCells(C, v)
  BY <1>1 DEF ElementCells
<1>6. Elements(D) = Elements(C)
  BY <1>1, <1>5 DEF Elements
<1>7. \A q : Safe(C, q) <=> Safe(D, q)
  BY <1>4, <1>6 DEF Safe
<1>8. \A d : Plain(C, d) <=> Plain(D, d)
  BY <1>7 DEF Plain
<1>9. \A y \in Used(D) : Plain(D, D[y])
  BY <1>1, <1>4, <1>8, Frees DEF SoundCells
<1>10. ASSUME NEW v \in Used(D), D[v].type = "vector"
       PROVE  Owns(D, v)
  <2>1. v \in DOMAIN D /\ v \in DOMAIN C
    BY <1>1, <1>4, Frees
  <2>2. Owns(C, v) /\ D[v] = C[v] /\ ElementCells(D, v) = ElementCells(C, v)
    BY <1>5, <1>10, <2>1, Vectors
  <2>3. ASSUME NEW e \in ElementCells(D, v)
        PROVE  e \in Used(D) /\ D[e].type # "vector"
    <3>1. e \in Used(C) /\ C[e].type # "vector"
      BY <2>2 DEF Owns
    <3> QED  BY <1>1, <1>4, <1>5, <3>1, Frees
  <2>4. ASSUME NEW e \in ElementCells(D, v), NEW u \in DOMAIN D,
               D[u].type = "vector", e \in ElementCells(D, u)
        PROVE  u = v
    <3>1. u \in DOMAIN C /\ C[u].type = "vector" /\ e \in ElementCells(C, u)
      BY <1>1, <1>5, <2>4
    <3> QED  BY <2>2, <3>1 DEF Owns
  <2> QED  BY <2>2, <2>3, <2>4 DEF Owns
<1>11. Listed(D)
  <2>1. \A y \in Free(C) : y \in DOMAIN C /\ D[y] = C[y]
    BY <1>1, Frees
  <2> QED  BY <1>3, <2>1 DEF Listed, SoundCells
<1>12. SoundCells(D)
  BY <1>1, <1>9, <1>10, <1>11 DEF SoundCells
<1> QED  BY <1>1, <1>3, <1>7, <1>12 DEF D

-----------------------------------------------------------------------------
\* n free cells in a row from x on are taken for a vector: D is what becomes of
\* the cells, with the one before them linked to the one behind.
Row(x, n) == x .. (x + n - 1)
Behind(C, x, n) == C[x + n - 1].cdr
CutOut(C, D, x, n, len) ==
  /\ DOMAIN D = DOMAIN C
  /\ \A y \in DOMAIN C : ~(y \in Row(x, n)) =>
       /\ y \in Free(C) /\ C[y].cdr = x => D[y] = FreeCell(Behind(C, x, n))
       /\ ~(y \in Free(C) /\ C[y].cdr = x) => D[y] = C[y]
  /\ D[x] = Cell("vector", TRUE, len, NIL)
  /\ \A y \in Row(x, n) : y # x => D[y] = Cell("pair", FALSE, NIL, NIL)
LEMMA RowTaken ==
  ASSUME NEW C, SoundCells(C), NEW len \in Nat, NEW n, n = Halves(len) + 1,
         NEW x \in Free(C), Row(x, n) \subseteq Free(C),
         NEW D, CutOut(C, D, x, n, len)
  PROVE  /\ SoundCells(D) /\ Keeps(C, D)
         /\ Free(D) = Free(C) \ Row(x, n) /\ Safe(D, x)
         /\ First(Free(D)) = IF First(Free(C)) = x THEN Behind(C, x, n) ELSE First(Free(C))
<1> DEFINE R == Row(x, n)
           b == Behind(C, x, n)
           l == x + n - 1
<1>0. /\ DOMAIN D = DOMAIN C
      /\ D[x] = Cell("vector", TRUE, len, NIL)
      /\ \A y \in R : y # x => D[y] = Cell("pair", FALSE, NIL, NIL)
      /\ \A y \in DOMAIN C : ~(y \in R) =>
           /\ y \in Free(C) /\ C[y].cdr = x => D[y] = FreeCell(b)
           /\ ~(y \in Free(C) /\ C[y].cdr = x) => D[y] = C[y]
  BY DEF CutOut
<1>1. n \in Nat \ {0} /\ x \in Nat \ {0} /\ Halves(len) \in Nat
  <2>1. Halves(len) \in Nat
    BY HalvesNat
  <2> QED  BY <2>1, Frees
<1>2. l \in Nat /\ x <= l /\ l \in R /\ x \in R /\ R = x .. l /\ l = x + Halves(len)
  BY <1>1 DEF Row
<1>3. l \in Free(C) /\ R \subseteq Free(C) /\ R \subseteq DOMAIN C
  BY <1>2, Frees
<1>4. b = First({y \in Free(C) : y > l})
  BY <1>2, <1>3, Frees DEF Behind
<1>5. ASSUME NEW y \in R
      PROVE  D[y].type # "free" /\ Plain(D, D[y]) /\ (D[y].type = "vector" => y = x)
  <2>1. CASE y = x
    <3>1. D[y] = Cell("vector", TRUE, len, NIL)
      BY <1>0, <2>1
    <3>2. IsCell(D[y]) /\ D[y].mark = FALSE /\ D[y].atom = TRUE /\ D[y].type = "vector"
      BY <3>1 DEF Cell, IsCell, Fields
    <3> QED  BY <2>1, <3>2 DEF Plain
  <2>2. CASE y # x
    <3>1. D[y] = Cell("pair", FALSE, NIL, NIL)
      BY <1>0, <2>2
    <3>2. /\ IsCell(D[y]) /\ D[y].mark = FALSE /\ D[y].atom = FALSE /\ D[y].type = "pair"
          /\ D[y].car = NIL /\ D[y].cdr = NIL
      BY <3>1 DEF Cell, IsCell, Fields
    <3>3. Safe(D, NIL)
      BY DEF Safe, NIL
    <3> QED  BY <3>2, <3>3 DEF Plain
  <2> QED  BY <2>1, <2>2
<1>6. ASSUME NEW y \in DOMAIN C, ~(y \in R)
      PROVE  /\ y \in Free(C) /\ C[y].cdr = x => D[y] = FreeCell(b)
             /\ ~(y \in Free(C) /\ C[y].cdr = x) => D[y] = C[y]
  BY <1>0, <1>6
<1>7. D[x].type = "vector" /\ D[x].atom /\ D[x].car = len
  BY <1>0 DEF Cell
<1> HIDE DEF R, b, l
<1>8. Free(D) = Free(C) \ R
  <2>1. ASSUME NEW y \in DOMAIN C, ~(y \in R)
        PROVE  D[y].type = "free" <=> C[y].type = "free"
    <3>1. FreeCell(b).type = "free"
      BY FreeCellIs
    <3> QED  BY <1>6, <2>1, <3>1 DEF Free
  <2> QED  BY <1>0, <1>3, <1>5, <2>1 DEF Free
<1>9. Used(D) = Used(C) \cup R /\ (\A y \in Used(C) : ~(y \in R)) /\ Taking(C, D) = R
  BY <1>0, <1>3, <1>8, Frees DEF Used, Taking
<1>10. \A y \in Used(C) : y \in Used(D) /\ D[y] = C[y]
  BY <1>6, <1>9, Frees
<1>11. ElementCells(D, x) = (x + 1) .. l
  BY <1>2, <1>7 DEF ElementCells
<1>12. ElementCells(D, x) \subseteq R /\ ~(x \in ElementCells(D, x))
  BY <1>1, <1>2, <1>11
<1>13. NewVectors(C, D)
  <2>1. ASSUME NEW v \in R, D[v].type = "vector"
        PROVE  v = x
    BY <1>5, <2>1
  <2>2. \A e \in ElementCells(D, x) : D[e].type # "vector"
    BY <1>12, <2>1
  <2> QED  BY <1>7, <1>9, <1>12, <2>1, <2>2 DEF NewVectors
\* Behind the row, and before it.
<1>14. ASSUME NEW y \in Free(D)
       PROVE  /\ y \in Nat /\ y \in Free(C) /\ ~(y \in R) /\ (y < x \/ y > l)
  BY <1>1, <1>2, <1>8, Frees
<1>15. ASSUME NEW y \in Free(D), y > l
       PROVE  D[y] = FreeCell(First({z \in Free(D) : z > y}))
  <2>1. y \in Free(C) /\ y \in Nat /\ ~(y \in R)
    BY <1>14
  <2>2. {z \in Free(D) : z > y} = {z \in Free(C) : z > y}
    BY <1>2, <1>8, <1>15, <2>1, Frees
  <2>3. C[y].cdr # x
    <3> DEFINE S == {z \in Free(C) : z > y}
    <3>1. S \subseteq Nat \ {0} /\ C[y].cdr = First(S)
      BY <2>1, Frees
    <3>2. ~(x \in S) /\ x # NIL
      BY <1>1, <1>2, <1>15, <2>1 DEF NIL
    <3> HIDE DEF S
    <3> QED  BY <3>1, <3>2, FirstOf, FirstNone
  <2>4. D[y] = C[y]
    BY <1>6, <2>1, <2>3, Frees
  <2>5. C[y] = FreeCell(First({z \in Free(C) : z > y}))
    BY <2>1 DEF SoundCells, Listed
  <2> QED  BY <2>2, <2>4, <2>5
<1>16. ASSUME NEW S, NEW y \in Nat, y < x, S = {z \in Free(C) : z > y}, First(S) = x
       PROVE  First({z \in Free(D) : z > y}) = b
  <2>1. S \subseteq Nat \ {0} /\ x \in S
    BY <1>16, Frees
  <2>2. \A z \in S : x <= z
    BY <1>16, <2>1, FirstOf
  <2>3. {z \in Free(D) : z > y} = {z \in Free(C) : z > l}
    <3>1. ASSUME NEW z \in Free(D), z > y
          PROVE  z > l
      BY <1>14, <1>16, <2>2, <3>1, <1>1
    <3>2. ASSUME NEW z \in Free(C), z > l
          PROVE  z \in Free(D) /\ z > y
      BY <1>1, <1>2, <1>8, <1>16, <3>2, Frees
    <3> QED  BY <1>14, <3>1, <3>2
  <2> QED  BY <1>4, <2>3
<1>17. ASSUME NEW S, NEW y \in Nat, y < x, S = {z \in Free(C) : z > y}, First(S) # x
       PROVE  First({z \in Free(D) : z > y}) = First(S)
  <2> DEFINE f == First(S)
             V == {z \in Free(D) : z > y}
  <2>1. S \subseteq Nat \ {0} /\ x \in S
    BY <1>1, <1>17, Frees
  <2>2. f \in S /\ (\A z \in S : f <= z)
    BY <2>1, FirstOf
  <2>3. f \in Nat /\ f < x /\ f \in Free(C) /\ f > y
    <3>1. f \in Nat /\ f <= x /\ f # x
      BY <1>17, <2>1, <2>2
    <3>2. f \in Free(C) /\ f > y
      BY <1>17, <2>2
    <3> HIDE DEF f
    <3> QED  BY <1>1, <3>1, <3>2
  <2>4. f \in V
    BY <1>1, <1>2, <1>8, <2>3
  <2>5. V \subseteq S
    BY <1>8, <1>17
  <2> HIDE DEF f, V
  <2>6. V \subseteq Nat \ {0} /\ \A z \in V : f <= z
    BY <2>1, <2>2, <2>5
  <2>7. First(V) = f
    BY <2>4, <2>6, FirstIs
  <2> QED  BY <2>7 DEF f, V
<1>18. ASSUME NEW y \in Free(D), y < x
       PROVE  D[y] = FreeCell(First({z \in Free(D) : z > y}))
  <2> DEFINE S == {z \in Free(C) : z > y}
  <2>1. y \in Free(C) /\ y \in Nat /\ ~(y \in R) /\ y \in DOMAIN C
    BY <1>14, Frees
  <2>2. C[y].cdr = First(S) /\ C[y] = FreeCell(First(S))
    <3>1. C[y] = FreeCell(First(S))
      BY <2>1 DEF SoundCells, Listed
    <3> QED  BY <2>1, <3>1, Frees
  <2>3. CASE First(S) = x
    <3>1. First({z \in Free(D) : z > y}) = b
      BY <1>16, <1>18, <2>1, <2>3
    <3>2. D[y] = FreeCell(b)
      BY <1>6, <2>1, <2>2, <2>3
    <3> QED  BY <3>1, <3>2
  <2>4. CASE First(S) # x
    <3>1. First({z \in Free(D) : z > y}) = First(S)
      BY <1>17, <1>18, <2>1, <2>4
    <3>2. D[y] = FreeCell(First(S))
      BY <1>6, <2>1, <2>2, <2>4
    <3> QED  BY <3>1, <3>2
  <2> QED  BY <2>3, <2>4
<1>19. Listed(D)
  BY <1>14, <1>15, <1>18 DEF Listed
<1>20. Keeps(C, D) => \A y \in Taking(C, D) : Plain(D, D[y])
  BY <1>5, <1>9
<1>21. SoundCells(D) /\ Keeps(C, D)
  <2>1. DOMAIN D \subseteq Nat \ {0}
    BY <1>0 DEF SoundCells
  <2> QED  BY <1>10, <1>13, <1>19, <1>20, <2>1, SoundGrows
<1>22. Safe(D, x)
  <2>1. ~(x \in Elements(D))
    <3>1. SUFFICES ASSUME NEW v \in DOMAIN D, D[v].type = "vector", x \in ElementCells(D, v)
                   PROVE  FALSE
      BY DEF Elements
    <3>2. Owns(D, v)
      BY <1>21, <3>1, Vectors
    <3> QED  BY <1>7, <3>1, <3>2 DEF Owns
  <2> QED  BY <1>1, <1>2, <1>9, <2>1 DEF Safe
<1>23. First(Free(D)) = IF First(Free(C)) = x THEN b ELSE First(Free(C))
  <2> DEFINE S == {z \in Free(C) : z > 0}
  <2>1. S = Free(C) /\ {z \in Free(D) : z > 0} = Free(D)
    BY <1>8, Frees
  <2>2. 0 \in Nat /\ 0 < x
    BY <1>1
  <2>3. CASE First(S) = x
    <3>1. First({z \in Free(D) : z > 0}) = b
      BY <1>16, <2>2, <2>3
    <3> QED  BY <2>1, <2>3, <3>1
  <2>4. CASE First(S) # x
    <3>1. First({z \in Free(D) : z > 0}) = First(S)
      BY <1>17, <2>2, <2>4
    <3> QED  BY <2>1, <2>4, <3>1
  <2> QED  BY <2>3, <2>4
<1> QED  BY <1>8, <1>21, <1>22, <1>23 DEF R, b

-----------------------------------------------------------------------------
\* A segment behind all the others, and its cells behind the last free one.
Linked(C, D, a, b) ==
  /\ DOMAIN D = DOMAIN C \cup (a .. b)
  /\ \A x \in a .. b : D[x] = FreeCell(IF x + 1 \in a .. b THEN x + 1 ELSE NIL)
  /\ \A x \in DOMAIN C :
       /\ x \in Free(C) /\ C[x].cdr = NIL => D[x] = FreeCell(a)
       /\ ~(x \in Free(C) /\ C[x].cdr = NIL) => D[x] = C[x]
LEMMA SegmentLinked ==
  ASSUME NEW C, SoundCells(C), NEW a \in Nat \ {0}, NEW b \in Nat, a <= b,
         \A x \in DOMAIN C : x < a,
         NEW D, Linked(C, D, a, b)
  PROVE  /\ SoundCells(D) /\ Keeps(C, D) /\ Free(D) = Free(C) \cup (a .. b)
         /\ Used(D) = Used(C)
         /\ First(Free(D)) = IF First(Free(C)) = NIL THEN a ELSE First(Free(C))
<1> DEFINE N == a .. b
<1>0. /\ DOMAIN D = DOMAIN C \cup N
      /\ \A x \in N : D[x] = FreeCell(IF x + 1 \in N THEN x + 1 ELSE NIL)
      /\ \A x \in DOMAIN C :
           /\ x \in Free(C) /\ C[x].cdr = NIL => D[x] = FreeCell(a)
           /\ ~(x \in Free(C) /\ C[x].cdr = NIL) => D[x] = C[x]
  BY DEF Linked
<1>1. N \subseteq Nat \ {0} /\ a \in N /\ ~(\E x \in N : x \in DOMAIN C)
  OBVIOUS
<1>2. DOMAIN D \subseteq Nat \ {0}
  BY <1>0, <1>1 DEF SoundCells
<1>3. ASSUME NEW x \in DOMAIN C
      PROVE  /\ x \in Free(C) /\ C[x].cdr = NIL => D[x] = FreeCell(a)
             /\ ~(x \in Free(C) /\ C[x].cdr = NIL) => D[x] = C[x]
  BY <1>0
<1>4. Free(D) = Free(C) \cup N
  <2>1. \A x \in N : D[x].type = "free"
    <3>1. \A q : FreeCell(q).type = "free"
      BY FreeCellIs
    <3> QED  BY <1>0, <3>1
  <2>2. ASSUME NEW x \in DOMAIN C
        PROVE  D[x].type = "free" <=> x \in Free(C)
    BY <1>3, FreeCellIs DEF Free
  <2> QED  BY <1>0, <2>1, <2>2 DEF Free
<1>5. Used(D) = Used(C)
  BY <1>0, <1>1, <1>4 DEF Used
<1>6. \A x \in Used(C) : x \in Used(D) /\ D[x] = C[x]
  BY <1>3, <1>5, Frees
<1>7. Free(C) \subseteq Nat \ {0} /\ Free(C) \subseteq DOMAIN C
  BY Frees
<1> HIDE DEF N
<1>8. ASSUME NEW y \in Nat, y < a,
             NEW S, S = {z \in Free(C) : z > y}
      PROVE  First({z \in Free(D) : z > y}) = IF First(S) = NIL THEN a ELSE First(S)
  <2> DEFINE V == {z \in Free(D) : z > y}
  <2>1. V = S \cup N
    <3>1. \A z \in N : z > y
      BY <1>8 DEF N
    <3> QED  BY <1>4, <1>8, <3>1
  <2>2. S \subseteq Nat \ {0}
    BY <1>7, <1>8
  <2>3. V \subseteq Nat \ {0}
    BY <1>1, <2>1, <2>2
  <2>4. \A z \in N : a <= z
    BY DEF N
  <2>5. CASE S = {}
    <3>1. First(S) = NIL
      BY <2>2, <2>5, FirstNone
    <3>2. a \in V /\ \A z \in V : a <= z
      BY <1>1, <2>1, <2>4, <2>5
    <3> HIDE DEF V
    <3>3. First(V) = a
      BY <2>3, <3>2, FirstIs
    <3> QED  BY <3>1, <3>3 DEF V
  <2>6. CASE S # {}
    <3> DEFINE f == First(S)
    <3>1. f \in S /\ (\A z \in S : f <= z) /\ f # NIL
      BY <2>2, <2>6, FirstOf
    <3>2. f < a
      BY <1>7, <1>8, <3>1
    <3>3. f \in Nat
      BY <2>2, <3>1
    <3> HIDE DEF f
    <3>4. \A z \in N : f <= z
      BY <3>2, <3>3, <1>1 DEF N
    <3>5. f \in V /\ \A z \in V : f <= z
      BY <2>1, <3>1, <3>4
    <3> HIDE DEF V
    <3>6. First(V) = f
      BY <2>3, <3>5, FirstIs
    <3> QED  BY <3>1, <3>6 DEF V, f
  <2> QED  BY <2>5, <2>6
<1>9. ASSUME NEW x \in N
      PROVE  D[x] = FreeCell(First({z \in Free(D) : z > x}))
  <2> DEFINE V == {z \in Free(D) : z > x}
  <2>1. V = {z \in N : z > x}
    <3>1. \A z \in Free(C) : ~(z > x)
      BY <1>7, <1>9 DEF N
    <3> QED  BY <1>4, <3>1
  <2>2. V \subseteq Nat \ {0}
    BY <1>1, <2>1
  <2>3. CASE x + 1 \in N
    <3>1. x + 1 \in V /\ \A z \in V : x + 1 <= z
      <4>1. x \in Nat /\ x + 1 > x /\ N \subseteq Nat
        BY <1>1
      <4>2. x + 1 \in V
        BY <2>1, <2>3, <4>1
      <4>3. \A z \in V : z \in Nat /\ z > x
        BY <2>1, <4>1
      <4> HIDE DEF V
      <4> QED  BY <4>1, <4>2, <4>3
    <3> HIDE DEF V
    <3>2. First(V) = x + 1
      BY <2>2, <3>1, FirstIs
    <3> QED  BY <1>0, <1>9, <2>3, <3>2 DEF V
  <2>4. CASE ~(x + 1 \in N)
    <3>1. V = {}
      BY <2>1, <2>4, <1>1 DEF N
    <3> HIDE DEF V
    <3>2. First(V) = NIL
      BY <2>2, <3>1, FirstNone
    <3> QED  BY <1>0, <1>9, <2>4, <3>2 DEF V
  <2> QED  BY <2>3, <2>4
<1>10. ASSUME NEW x \in Free(C)
       PROVE  D[x] = FreeCell(First({z \in Free(D) : z > x}))
  <2> DEFINE S == {z \in Free(C) : z > x}
  <2>1. x \in Nat /\ x < a /\ x \in DOMAIN C
    BY <1>7
  <2>2. First({z \in Free(D) : z > x}) = IF First(S) = NIL THEN a ELSE First(S)
    BY <1>8, <2>1
  <2>3. C[x] = FreeCell(First(S)) /\ C[x].cdr = First(S)
    <3>1. C[x] = FreeCell(First(S))
      BY DEF SoundCells, Listed
    <3> QED  BY <3>1, Frees
  <2> HIDE DEF S
  <2>4. CASE First(S) = NIL
    BY <1>3, <2>1, <2>2, <2>3, <2>4
  <2>5. CASE First(S) # NIL
    BY <1>3, <2>1, <2>2, <2>3, <2>5
  <2> QED  BY <2>4, <2>5
<1>11. Listed(D)
  BY <1>4, <1>9, <1>10 DEF Listed
<1>12. Taking(C, D) = {}
  BY <1>5 DEF Taking
<1>13. NewVectors(C, D)
  BY <1>12 DEF NewVectors
<1>14. SoundCells(D) /\ Keeps(C, D)
  BY <1>2, <1>6, <1>11, <1>12, <1>13, SoundGrows
<1>15. First(Free(D)) = IF First(Free(C)) = NIL THEN a ELSE First(Free(C))
  <2> DEFINE S == {z \in Free(C) : z > 0}
  <2>1. S = Free(C) /\ {z \in Free(D) : z > 0} = Free(D)
    <3>1. Free(D) \subseteq Nat \ {0}
      BY <1>1, <1>4, <1>7
    <3> QED  BY <1>7, <3>1
  <2>2. 0 \in Nat /\ 0 < a
    OBVIOUS
  <2>3. First({z \in Free(D) : z > 0}) = IF First(S) = NIL THEN a ELSE First(S)
    BY <1>8, <2>2
  <2> QED  BY <2>1, <2>3
<1> QED  BY <1>4, <1>5, <1>14, <1>15 DEF N

-----------------------------------------------------------------------------
\* The fields of struct scheme, and one of them changed.
LEMMA MemFields ==
  ASSUME NEW C, NEW f, NEW n, NEW s, NEW z, NEW u, NEW q
  PROVE  LET m == Mem(C, f, n, s, z, u, q)
         IN  /\ m.cell = C /\ m.free_cell = f /\ m.fcells = n /\ m.last_cell_seg = s
             /\ m.segsize = z /\ m.no_memory = u /\ m.new = q
BY DEF Mem
LEMMA Mem_cell ==
  ASSUME NEW C, NEW f, NEW n, NEW s, NEW z, NEW u, NEW q, NEW v,
         NEW m, m = Mem(C, f, n, s, z, u, q)
  PROVE  [m EXCEPT !.cell = v] = Mem(v, f, n, s, z, u, q)
BY SMT DEF Mem
LEMMA Mem_free_cell ==
  ASSUME NEW C, NEW f, NEW n, NEW s, NEW z, NEW u, NEW q, NEW v,
         NEW m, m = Mem(C, f, n, s, z, u, q)
  PROVE  [m EXCEPT !.free_cell = v] = Mem(C, v, n, s, z, u, q)
BY SMT DEF Mem
LEMMA Mem_fcells ==
  ASSUME NEW C, NEW f, NEW n, NEW s, NEW z, NEW u, NEW q, NEW v,
         NEW m, m = Mem(C, f, n, s, z, u, q)
  PROVE  [m EXCEPT !.fcells = v] = Mem(C, f, v, s, z, u, q)
BY SMT DEF Mem
LEMMA Mem_last_cell_seg ==
  ASSUME NEW C, NEW f, NEW n, NEW s, NEW z, NEW u, NEW q, NEW v,
         NEW m, m = Mem(C, f, n, s, z, u, q)
  PROVE  [m EXCEPT !.last_cell_seg = v] = Mem(C, f, n, v, z, u, q)
BY SMT DEF Mem
LEMMA Mem_no_memory ==
  ASSUME NEW C, NEW f, NEW n, NEW s, NEW z, NEW u, NEW q, NEW v,
         NEW m, m = Mem(C, f, n, s, z, u, q)
  PROVE  [m EXCEPT !.no_memory = v] = Mem(C, f, n, s, z, v, q)
BY SMT DEF Mem
LEMMA Mem_new ==
  ASSUME NEW C, NEW f, NEW n, NEW s, NEW z, NEW u, NEW q, NEW v,
         NEW m, m = Mem(C, f, n, s, z, u, q)
  PROVE  [m EXCEPT !.new = v] = Mem(C, f, n, s, z, u, v)
BY SMT DEF Mem
LEMMA SoundMemIs ==
  ASSUME NEW m, NEW C, NEW f, NEW n, NEW s, NEW u, NEW q,
         m = Mem(C, f, n, s, SegSize, u, q)
  PROVE  /\ m.cell = C /\ m.new = q /\ m.last_cell_seg = s
         /\ SoundMem(m) <=> /\ SoundCells(C) /\ Bounded(C, s)
                            /\ f = First(Free(C)) /\ n = Cardinality(Free(C))
<1>1. /\ m.cell = C /\ m.free_cell = f /\ m.fcells = n /\ m.last_cell_seg = s
      /\ m.segsize = SegSize /\ m.no_memory = u /\ m.new = q
  BY MemFields
<1> QED  BY <1>1 DEF SoundMem, IsMem

\* The cell made last is another, or there is none.
LEMMA NewSound ==
  ASSUME NEW m, SoundMem(m), NEW v
  PROVE  LET k == [m EXCEPT !.new = v]
         IN  SoundMem(k) /\ k.cell = m.cell /\ k.new = v /\ k.last_cell_seg = m.last_cell_seg
<1> DEFINE C == m.cell
           f == m.free_cell
           n == m.fcells
           s == m.last_cell_seg
           u == m.no_memory
           q == m.new
           k == [m EXCEPT !.new = v]
<1>1. m = Mem(C, f, n, s, SegSize, u, q)
  BY DEF SoundMem, IsMem
<1> HIDE DEF C, f, n, s, u, q
<1>2. k = Mem(C, f, n, s, SegSize, u, v)
  BY <1>1, Mem_new
<1> HIDE DEF k
<1>3. SoundMem(k) /\ k.cell = C /\ k.new = v /\ k.last_cell_seg = s
  BY <1>1, <1>2, SoundMemIs
<1> QED  BY <1>3 DEF k, C, s
LEMMA NoMemorySound ==
  ASSUME NEW m, SoundMem(m)
  PROVE  /\ SoundMem(NoMemory(m)) /\ NoMemory(m).cell = m.cell /\ NoMemory(m).new = Sink
         /\ NoMemory(m).last_cell_seg = m.last_cell_seg
<1> DEFINE C == m.cell
           f == m.free_cell
           n == m.fcells
           s == m.last_cell_seg
           u == m.no_memory
           q == m.new
           full == TRUE
           sink == Sink
           k1 == [m EXCEPT !.no_memory = full]
           k2 == [k1 EXCEPT !.new = sink]
<1>1. m = Mem(C, f, n, s, SegSize, u, q)
  BY DEF SoundMem, IsMem
<1> HIDE DEF C, f, n, s, u, q, full, sink
<1>2. k1 = Mem(C, f, n, s, SegSize, full, q)
  BY <1>1, Mem_no_memory
<1> HIDE DEF k1
<1>3. k2 = Mem(C, f, n, s, SegSize, full, sink)
  BY <1>2, Mem_new
<1> HIDE DEF k2
<1>4. SoundMem(k2) /\ k2.cell = C /\ k2.new = sink /\ k2.last_cell_seg = s
  BY <1>1, <1>3, SoundMemIs
<1>5. NoMemory(m) = k2
  BY Zenon DEF NoMemory, k1, k2, full, sink
<1> QED  BY <1>4, <1>5 DEF C, s, sink

\* A cell in use is written.
LEMMA MemWritten ==
  ASSUME NEW m, SoundMem(m), NEW x \in Used(m.cell), m.cell[x].type # "vector",
         NEW c, Plain(m.cell, c), c.type # "vector"
  PROVE  LET k == [m EXCEPT !.cell = [m.cell EXCEPT ![x] = c]]
         IN  /\ SoundMem(k) /\ k.new = m.new /\ k.last_cell_seg = m.last_cell_seg
             /\ \A q : Safe(m.cell, q) => Safe(k.cell, q)
<1> DEFINE C == m.cell
           f == m.free_cell
           n == m.fcells
           s == m.last_cell_seg
           u == m.no_memory
           q == m.new
           D == [C EXCEPT ![x] = c]
           k == [m EXCEPT !.cell = D]
<1>1. m = Mem(C, f, n, s, SegSize, u, q)
  BY DEF SoundMem, IsMem
<1>2. /\ SoundCells(C) /\ Bounded(C, s) /\ f = First(Free(C)) /\ n = Cardinality(Free(C))
      /\ x \in Used(C) /\ C[x].type # "vector" /\ Plain(C, c)
  BY DEF SoundMem
<1> HIDE DEF C, f, n, s, u, q
<1>3. /\ SoundCells(D) /\ DOMAIN D = DOMAIN C /\ Free(D) = Free(C)
      /\ \A p : Safe(C, p) => Safe(D, p)
  BY <1>2, WriteSound
<1> HIDE DEF D
<1>4. k = Mem(D, f, n, s, SegSize, u, q)
  BY <1>1, Mem_cell
<1> HIDE DEF k
<1>5. SoundMem(k) /\ k.cell = D /\ k.new = q /\ k.last_cell_seg = s
  BY <1>2, <1>3, <1>4, SoundMemIs DEF Bounded
<1> QED  BY <1>3, <1>5 DEF k, D, C, q, s

\* A new cell.
LEMMA CellMade ==
  ASSUME NEW m, SoundMem(m), m.free_cell # NIL, NEW c, Plain(m.cell, c), c.type # "vector"
  PROVE  LET k == Filled(Taken(m), c)
         IN  /\ SoundMem(k) /\ Keeps(m.cell, k.cell) /\ Safe(k.cell, k.new)
             /\ ~(k.new \in Used(m.cell))
<1> DEFINE C == m.cell
           f == m.free_cell
           n == m.fcells
           s == m.last_cell_seg
           u == m.no_memory
           q == m.new
           b == C[f].cdr
           D == [C EXCEPT ![f] = c]
           k1 == [m EXCEPT !.new = f]
           k2 == [k1 EXCEPT !.free_cell = b]
           k3 == [k2 EXCEPT !.fcells = n - 1]
           k4 == [k3 EXCEPT !.cell = D]
<1>1. m = Mem(C, f, n, s, SegSize, u, q)
  BY DEF SoundMem, IsMem
<1>2. /\ SoundCells(C) /\ Bounded(C, s) /\ f = First(Free(C)) /\ n = Cardinality(Free(C))
      /\ f # NIL /\ Plain(C, c)
  BY DEF SoundMem
<1> HIDE DEF C, f, n, s, u, q
<1>3. /\ SoundCells(D) /\ Keeps(C, D) /\ DOMAIN D = DOMAIN C
      /\ f \in Free(C) /\ Free(D) = Free(C) \ {f} /\ b = First(Free(D)) /\ Safe(D, f)
  BY <1>2, FirstTaken, ZenonT(40)
<1> HIDE DEF D, b
<1>4. n - 1 = Cardinality(Free(D))
  BY <1>2, <1>3, Finite, FS_RemoveElement
<1>5. k1 = Mem(C, f, n, s, SegSize, u, f)
  BY <1>1, Mem_new
<1> HIDE DEF k1
<1>6. k2 = Mem(C, b, n, s, SegSize, u, f)
  BY <1>5, Mem_free_cell
<1> HIDE DEF k2
<1>7. k3 = Mem(C, b, n - 1, s, SegSize, u, f)
  BY <1>6, Mem_fcells
<1> HIDE DEF k3
<1>8. k4 = Mem(D, b, n - 1, s, SegSize, u, f)
  BY <1>7, Mem_cell
<1> HIDE DEF k4
<1>b. Bounded(D, s)
  BY <1>2, <1>3 DEF Bounded
<1>9. SoundMem(k4) /\ k4.cell = D /\ k4.new = f
  BY <1>b, <1>3, <1>4, <1>8, SoundMemIs
<1>10. k3.cell = C /\ k3.new = f
  BY <1>7, MemFields
<1>11. k1.cell = C /\ k1.free_cell = f /\ k1.fcells = n /\ k2.fcells = n
  BY <1>5, <1>6, MemFields
<1>12. Taken(m) = k3
  BY <1>11, Zenon DEF Taken, k1, k2, k3, b, C, f, n
<1>13. f > 0
  BY <1>2, <1>3, Frees
<1>14. Filled(k3, c) = k4
  BY <1>10, <1>13, Zenon DEF Filled, k4, D
<1> QED  BY <1>2, <1>3, <1>9, <1>12, <1>14, Frees DEF C

\* A segment: the sizes add up, and nothing in use is touched.
LEMMA SegmentIs ==
  ASSUME NEW C, NEW f, NEW n, NEW s, NEW u, NEW q, NEW m, m = Mem(C, f, n, s, SegSize, u, q),
         ~(s >= NSegment - 1), NEW a, a = (s + 1) * (SegSize + 1) + 1,
         NEW b, b = a + SegSize - 1
  PROVE  LET old == {x \in Free(C) : C[x].cdr = NIL}
             D == [x \in DOMAIN C \cup (a .. b) |->
                     IF x \notin a .. b THEN IF x \in old THEN [C[x] EXCEPT !.cdr = a] ELSE C[x]
                     ELSE FreeCell(IF x + 1 \in a .. b THEN x + 1 ELSE NIL)]
         IN  alloc_cellseg(m) =
               Mem(D, IF f = NIL THEN a ELSE f, n + SegSize, s + 1, SegSize, u, q)
<1> DEFINE old == {x \in Free(C) : C[x].cdr = NIL}
           D == [x \in DOMAIN C \cup (a .. b) |->
                   IF x \notin a .. b THEN IF x \in old THEN [C[x] EXCEPT !.cdr = a] ELSE C[x]
                   ELSE FreeCell(IF x + 1 \in a .. b THEN x + 1 ELSE NIL)]
           v1 == s + 1
           v2 == n + SegSize
           v3 == IF f = NIL THEN a ELSE f
           k1 == [m EXCEPT !.last_cell_seg = v1]
           k2 == [k1 EXCEPT !.fcells = v2]
           k3 == [k2 EXCEPT !.free_cell = v3]
           k4 == [k3 EXCEPT !.cell = D]
<1> HIDE DEF D, v1, v2, v3
<1>1. /\ m.cell = C /\ m.free_cell = f /\ m.fcells = n /\ m.last_cell_seg = s
      /\ m.segsize = SegSize
  BY MemFields
<1>2. k1 = Mem(C, f, n, v1, SegSize, u, q)
  BY Mem_last_cell_seg
<1> HIDE DEF k1
<1>3. k2 = Mem(C, f, v2, v1, SegSize, u, q)
  BY <1>2, Mem_fcells
<1> HIDE DEF k2
<1>4. k3 = Mem(C, v3, v2, v1, SegSize, u, q)
  BY <1>3, Mem_free_cell
<1> HIDE DEF k3
<1>5. k4 = Mem(D, v3, v2, v1, SegSize, u, q)
  BY <1>4, Mem_cell
<1> HIDE DEF k4
<1>6. k1.fcells = n /\ k2.free_cell = f
  BY <1>2, <1>3, MemFields
<1>7. alloc_cellseg(m) = k4
  BY <1>1, <1>6, ZenonT(40) DEF alloc_cellseg, k1, k2, k3, k4, v1, v2, v3, D
<1> QED  BY <1>5, <1>7 DEF v1, v2, v3, D

LEMMA LinkedTo ==
  ASSUME NEW q, NEW v
  PROVE  [FreeCell(q) EXCEPT !.cdr = v] = FreeCell(v)
<1> DEFINE c == FreeCell(q)
           ty == "free"
           no == FALSE
           a == NIL
<1>1. c = Fields(ty, no, no, a, q) /\ FreeCell(v) = Fields(ty, no, no, a, v)
  BY DEF FreeCell, Cell, Fields
<1> HIDE DEF c, ty, no, a
<1>2. [c EXCEPT !.cdr = v] = Fields(ty, no, no, a, v)
  BY <1>1, SMT DEF Fields
<1> QED  BY <1>1, <1>2 DEF c

LEMMA SegmentSound ==
  ASSUME NEW m, SoundMem(m)
  PROVE  LET k == alloc_cellseg(m)
         IN  /\ SoundMem(k) /\ Keeps(m.cell, k.cell) /\ k.new = m.new
             /\ Used(k.cell) = Used(m.cell) /\ k.last_cell_seg >= m.last_cell_seg
<1>1. m.last_cell_seg \in Int
  BY DEF SoundMem, Bounded
<1>2. CASE m.last_cell_seg >= NSegment - 1
  <2>1. alloc_cellseg(m) = m
    BY <1>2 DEF alloc_cellseg
  <2> QED  BY <1>1, <2>1 DEF Keeps
<1>3. CASE ~(m.last_cell_seg >= NSegment - 1)
  <2> DEFINE C == m.cell
             f == m.free_cell
             n == m.fcells
             s == m.last_cell_seg
             u == m.no_memory
             q == m.new
             a == (s + 1) * (SegSize + 1) + 1
             b == a + SegSize - 1
             old == {x \in Free(C) : C[x].cdr = NIL}
             D == [x \in DOMAIN C \cup (a .. b) |->
                     IF x \notin a .. b THEN IF x \in old THEN [C[x] EXCEPT !.cdr = a] ELSE C[x]
                     ELSE FreeCell(IF x + 1 \in a .. b THEN x + 1 ELSE NIL)]
             g == IF f = NIL THEN a ELSE f
             k == alloc_cellseg(m)
  <2>1. m = Mem(C, f, n, s, SegSize, u, q) /\ ~(s >= NSegment - 1)
    BY <1>3 DEF SoundMem, IsMem
  <2>2. /\ SoundCells(C) /\ Bounded(C, s) /\ f = First(Free(C)) /\ n = Cardinality(Free(C))
    BY DEF SoundMem
  <2> HIDE DEF C, f, n, s, u, q
  <2>3. k = Mem(D, g, n + SegSize, s + 1, SegSize, u, q)
    BY <2>1, SegmentIs
  <2>4. /\ s \in Int /\ s + 1 \in Nat /\ SegSize \in Nat \ {0}
        /\ (s + 1) * (SegSize + 1) \in Nat
        /\ \A x \in DOMAIN C : x < (s + 1) * (SegSize + 1)
    BY <2>2, SizeAssumption DEF Bounded
  <2>5. a \in Nat \ {0} /\ b \in Nat /\ a <= b /\ b - a + 1 = SegSize /\ b < (s + 2) * (SegSize + 1)
    <3> DEFINE o == s + 1
               z == SegSize
               p == o * (z + 1)
    <3>1. (o + 1) * (z + 1) = p + (z + 1)
      BY <2>4
    <3>2. p \in Nat /\ z \in Nat \ {0} /\ s + 2 = o + 1
      BY <2>4
    <3>3. a = p + 1 /\ b = a + z - 1 /\ (s + 2) * (SegSize + 1) = p + (z + 1)
      BY <3>1, <3>2
    <3> HIDE DEF o, z, p, a, b
    <3>4. /\ a \in Nat \ {0} /\ b \in Nat /\ a <= b /\ b - a + 1 = z
          /\ b < (s + 2) * (SegSize + 1)
      BY <3>2, <3>3
    <3> QED  BY <3>4 DEF z
  <2>6. \A x \in DOMAIN C : x \in Nat /\ x < a
    BY <2>2, <2>4 DEF SoundCells
  <2> HIDE DEF a, b
  <2>7. /\ DOMAIN D = DOMAIN C \cup (a .. b)
        /\ \A x \in a .. b : D[x] = FreeCell(IF x + 1 \in a .. b THEN x + 1 ELSE NIL)
    OBVIOUS
  <2>8. ASSUME NEW x \in DOMAIN C
        PROVE  /\ x \in Free(C) /\ C[x].cdr = NIL => D[x] = FreeCell(a)
               /\ ~(x \in Free(C) /\ C[x].cdr = NIL) => D[x] = C[x]
    <3>1. ~(x \in a .. b)
      BY <2>5, <2>6
    <3>2. CASE x \in old
      <4> DEFINE p == First({y \in Free(C) : y > x})
      <4>1. C[x] = FreeCell(p)
        BY <2>2, <3>2 DEF SoundCells, Listed
      <4> HIDE DEF p
      <4>2. [C[x] EXCEPT !.cdr = a] = FreeCell(a)
        BY <4>1, LinkedTo
      <4> QED  BY <3>1, <3>2, <4>2
    <3>3. CASE ~(x \in old)
      BY <3>1, <3>3
    <3> QED  BY <3>2, <3>3
  <2> HIDE DEF D
  <2>9. /\ SoundCells(D) /\ Keeps(C, D) /\ Free(D) = Free(C) \cup (a .. b)
        /\ Used(D) = Used(C)
        /\ First(Free(D)) = IF First(Free(C)) = NIL THEN a ELSE First(Free(C))
    <3>1. Linked(C, D, a, b)
      BY <2>7, <2>8 DEF Linked
    <3> QED  BY <2>2, <2>5, <2>6, <3>1, SegmentLinked
  <2>10. n + SegSize = Cardinality(Free(D))
    <3>1. Free(C) \cap (a .. b) = {}
      BY <2>5, <2>6, <2>2, Frees
    <3>2. IsFiniteSet(Free(C)) /\ n \in Nat
      BY <2>2, Finite
    <3>3. IsFiniteSet(a .. b) /\ Cardinality(a .. b) = SegSize
      <4>1. a \in Int /\ b \in Int /\ ~(a > b)
        BY <2>5
      <4> QED  BY <2>5, <4>1, FS_Interval
    <3>4. Cardinality(Free(D)) =
            Cardinality(Free(C)) + Cardinality(a .. b) - Cardinality(Free(C) \cap (a .. b))
      BY <2>9, <3>2, <3>3, FS_Union
    <3>5. Cardinality(Free(C) \cap (a .. b)) = 0
      BY <3>1, FS_EmptySet
    <3> QED  BY <2>2, <2>4, <3>2, <3>3, <3>4, <3>5
  <2>11. Bounded(D, s + 1)
    <3>1. ASSUME NEW x \in DOMAIN D
          PROVE  x < (s + 2) * (SegSize + 1)
      <4>1. x \in Nat /\ x <= b
        <5>1. CASE x \in DOMAIN C
          BY <2>5, <2>6, <5>1
        <5>2. CASE x \in a .. b
          BY <2>5, <5>2
        <5> QED  BY <2>7, <5>1, <5>2
      <4>2. b < (s + 2) * (SegSize + 1) /\ b \in Nat /\ (s + 2) * (SegSize + 1) \in Int
        BY <2>4, <2>5
      <4> DEFINE p == (s + 2) * (SegSize + 1)
      <4> HIDE DEF p
      <4>3. b < p /\ b \in Nat /\ p \in Int
        BY <4>2 DEF p
      <4>4. x < p
        BY <4>1, <4>3
      <4> QED  BY <4>4 DEF p
    <3>2. s + 1 \in Int /\ (s + 1) + 1 \in Nat /\ (s + 1) + 1 = s + 2
      BY <2>4
    <3> QED  BY <3>1, <3>2 DEF Bounded
  <2>12. g = First(Free(D))
    BY <2>2, <2>9
  <2> HIDE DEF g, k
  <2>13. SoundMem(k) /\ k.cell = D /\ k.new = q /\ k.last_cell_seg = s + 1
    BY <2>3, <2>9, <2>10, <2>11, <2>12, SoundMemIs
  <2>14. s + 1 >= s
    BY <2>4
  <2> QED  BY <2>9, <2>13, <2>14 DEF k, C, q, s
<1> QED  BY <1>2, <1>3

\* A vector, if there are cells in a row.
Rows(m, n) == {x \in Free(m.cell) : \A i \in 0 .. n - 1 : x + i \in Free(m.cell)}
LEMMA NoneFound ==
  ASSUME NEW m, SoundMem(m), NEW n, Rows(m, n) = {}
  PROVE  LET g == find_consecutive_cells(m, n)
         IN  SoundMem(g) /\ g.cell = m.cell /\ g.new = NIL
<1> DEFINE v == NIL
           g == [m EXCEPT !.new = v]
<1> HIDE DEF v
<1>1. SoundMem(g) /\ g.cell = m.cell /\ g.new = v
  BY NewSound
<1>2. find_consecutive_cells(m, n) = g
  BY Zenon DEF find_consecutive_cells, Rows, v
<1> HIDE DEF g
<1> QED  BY <1>1, <1>2 DEF v
LEMMA FoundIn ==
  ASSUME NEW m, SoundMem(m), NEW n \in Nat \ {0}, Rows(m, n) # {}
  PROVE  LET x == First(Rows(m, n))
         IN  x \in Free(m.cell) /\ Row(x, n) \subseteq Free(m.cell) /\ x \in Nat \ {0}
<1> DEFINE x == First(Rows(m, n))
           L == Free(m.cell)
<1>1. L \subseteq Nat \ {0}
  BY Frees DEF SoundMem
<1> HIDE DEF L
<1>2. Rows(m, n) \subseteq Nat \ {0}
  BY <1>1 DEF Rows, L
<1>3. x \in Rows(m, n)
  BY <1>2, FirstOf
<1>4. x \in L /\ \A i \in 0 .. n - 1 : x + i \in L
  BY <1>3 DEF Rows, L
<1> HIDE DEF x
<1>5. ASSUME NEW y \in Row(x, n)
      PROVE  y \in L
  <2>1. y - x \in 0 .. n - 1 /\ y = x + (y - x)
    BY <1>1, <1>4 DEF Row
  <2>2. x + (y - x) \in L
    BY <1>4, <2>1
  <2> QED  BY <2>1, <2>2
<1>6. x \in L /\ Row(x, n) \subseteq L /\ x \in Nat \ {0}
  BY <1>1, <1>4, <1>5
<1> QED  BY <1>6 DEF x, L

\* What find_consecutive_cells makes of the cells, and mk_vector of those it gets.
CutCells(C, x, b) ==
  [y \in DOMAIN C |-> IF y \in {z \in Free(C) : C[z].cdr = x} THEN [C[y] EXCEPT !.cdr = b]
                      ELSE C[y]]
VectorCells(C, x, len) ==
  LET D == [C EXCEPT ![x] = Cell("vector", TRUE, len, NIL)]
  IN  [y \in DOMAIN D |-> IF y \in ElementCells(D, x) THEN Cell("pair", FALSE, NIL, NIL)
                          ELSE D[y]]
LEMMA FindIs ==
  ASSUME NEW C, NEW f, NEW c, NEW s, NEW u, NEW q, NEW m, m = Mem(C, f, c, s, SegSize, u, q),
         NEW n, Rows(m, n) # {}, NEW x, x = First(Rows(m, n)),
         NEW b, b = Behind(C, x, n)
  PROVE  find_consecutive_cells(m, n) =
           Mem(CutCells(C, x, b), IF f = x THEN b ELSE f, c - n, s, SegSize, u, x)
<1> DEFINE v1 == c - n
           v2 == IF f = x THEN b ELSE f
           D == CutCells(C, x, b)
           k1 == [m EXCEPT !.new = x]
           k2 == [k1 EXCEPT !.fcells = v1]
           k3 == [k2 EXCEPT !.free_cell = v2]
           k4 == [k3 EXCEPT !.cell = D]
<1> HIDE DEF v1, v2, D
<1>1. m.cell = C /\ m.free_cell = f /\ m.fcells = c
  BY MemFields
<1>2. k1 = Mem(C, f, c, s, SegSize, u, x)
  BY Mem_new
<1> HIDE DEF k1
<1>3. k2 = Mem(C, f, v1, s, SegSize, u, x)
  BY <1>2, Mem_fcells
<1> HIDE DEF k2
<1>4. k3 = Mem(C, v2, v1, s, SegSize, u, x)
  BY <1>3, Mem_free_cell
<1> HIDE DEF k3
<1>5. k4 = Mem(D, v2, v1, s, SegSize, u, x)
  BY <1>4, Mem_cell
<1> HIDE DEF k4
<1>6. k1.fcells = c /\ k2.free_cell = f /\ k3.cell = C
  BY <1>2, <1>3, <1>4, MemFields
<1>7. find_consecutive_cells(m, n) = k4
  BY <1>1, <1>6, Zenon DEF find_consecutive_cells, Rows, k1, k2, k3, k4, v1, v2, D, CutCells, Behind
<1> QED  BY <1>5, <1>7 DEF v1, v2, D
LEMMA VectorIs ==
  ASSUME NEW C, NEW f, NEW c, NEW s, NEW u, NEW x \in Nat \ {0},
         NEW m, m = Mem(C, f, c, s, SegSize, u, x), NEW len
  PROVE  Vector(m, len) = Mem(VectorCells(C, x, len), f, c, s, SegSize, u, x)
<1> DEFINE e == Cell("vector", TRUE, len, NIL)
           v1 == [C EXCEPT ![x] = e]
           v2 == VectorCells(C, x, len)
           k1 == [m EXCEPT !.cell = v1]
           k2 == [k1 EXCEPT !.cell = v2]
<1>1. m.cell = C /\ m.new = x /\ x # Sink /\ x > 0
  BY MemFields DEF Sink
<1> HIDE DEF e, v1, v2
<1>2. k1 = Mem(v1, f, c, s, SegSize, u, x)
  BY Mem_cell
<1> HIDE DEF k1
<1>3. k2 = Mem(v2, f, c, s, SegSize, u, x)
  BY <1>2, Mem_cell
<1> HIDE DEF k2
<1>4. k1.cell = v1
  BY <1>2, MemFields
<1>5. Filled(m, e) = k1
  BY <1>1, Zenon DEF Filled, k1, v1
<1>6. fill_vector(k1, x, NIL) = k2
  BY <1>4, Zenon DEF fill_vector, k2, v2, VectorCells, v1, e
<1>7. Vector(m, len) = k2
  BY <1>1, <1>5, <1>6, Zenon DEF Vector, e
<1> QED  BY <1>3, <1>7 DEF v2

\* The cells of the new vector, on a free list that is sound.
LEMMA CutAndFilled ==
  ASSUME NEW C, SoundCells(C), NEW len \in Nat, NEW n, n = Halves(len) + 1,
         NEW x \in Free(C), Row(x, n) \subseteq Free(C)
  PROVE  CutOut(C, VectorCells(CutCells(C, x, Behind(C, x, n)), x, len), x, n, len)
<1> DEFINE b == Behind(C, x, n)
           B == CutCells(C, x, b)
           e == Cell("vector", TRUE, len, NIL)
           E == [B EXCEPT ![x] = e]
           D == VectorCells(B, x, len)
<1>1. /\ x \in Nat \ {0} /\ Halves(len) \in Nat /\ x \in DOMAIN C /\ Row(x, n) = x .. (x + Halves(len))
      /\ Row(x, n) \subseteq DOMAIN C
  <2>1. Halves(len) \in Nat
    BY HalvesNat
  <2> QED  BY <2>1, Frees DEF Row
<1>2. DOMAIN B = DOMAIN C
  BY DEF CutCells
<1>3. ASSUME NEW y \in DOMAIN C
      PROVE  /\ y \in Free(C) /\ C[y].cdr = x => B[y] = FreeCell(b)
             /\ ~(y \in Free(C) /\ C[y].cdr = x) => B[y] = C[y]
  <2>1. CASE y \in Free(C) /\ C[y].cdr = x
    <3> DEFINE p == First({z \in Free(C) : z > y})
    <3>1. C[y] = FreeCell(p)
      BY <2>1 DEF SoundCells, Listed
    <3> HIDE DEF p, b
    <3>2. [C[y] EXCEPT !.cdr = b] = FreeCell(b)
      BY <3>1, LinkedTo
    <3>3. B[y] = [C[y] EXCEPT !.cdr = b]
      BY <2>1 DEF CutCells
    <3> QED  BY <2>1, <3>2, <3>3
  <2>2. CASE ~(y \in Free(C) /\ C[y].cdr = x)
    BY <2>2 DEF CutCells
  <2> QED  BY <2>1, <2>2
<1> HIDE DEF B, b, e
<1>4. DOMAIN E = DOMAIN C /\ E[x] = e /\ \A y \in DOMAIN C : y # x => E[y] = B[y]
  BY <1>1, <1>2
<1> HIDE DEF E
<1>5. e.car = len
  BY DEF e, Cell
<1>6. ElementCells(E, x) = (x + 1) .. (x + Halves(len))
  BY <1>4, <1>5 DEF ElementCells
<1>7. D = [y \in DOMAIN E |-> IF y \in ElementCells(E, x) THEN Cell("pair", FALSE, NIL, NIL)
                              ELSE E[y]]
  BY DEF VectorCells, E, e
<1>8. DOMAIN D = DOMAIN C
  BY <1>4, <1>7
<1>9. D[x] = e
  <2>1. ~(x \in ElementCells(E, x))
    BY <1>1, <1>6
  <2> QED  BY <1>1, <1>4, <1>7, <2>1
<1>10. ASSUME NEW y \in Row(x, n), y # x
       PROVE  D[y] = Cell("pair", FALSE, NIL, NIL)
  <2>1. y \in ElementCells(E, x) /\ y \in DOMAIN C
    BY <1>1, <1>6, <1>10
  <2> QED  BY <1>4, <1>7, <2>1
<1>11. ASSUME NEW y \in DOMAIN C, ~(y \in Row(x, n))
       PROVE  D[y] = B[y]
  <2>1. ~(y \in ElementCells(E, x)) /\ y # x
    BY <1>1, <1>6, <1>11
  <2> QED  BY <1>4, <1>7, <2>1
<1> HIDE DEF D
<1>12. CutOut(C, D, x, n, len)
  BY <1>3, <1>8, <1>9, <1>10, <1>11 DEF CutOut, e, b
<1> QED  BY <1>12 DEF D, B, b
LEMMA RunCut ==
  ASSUME NEW m, SoundMem(m), NEW len \in Nat, NEW n, n = Halves(len) + 1, Rows(m, n) # {},
         NEW C, NEW f, NEW c, NEW s, NEW u, NEW q, m = Mem(C, f, c, s, SegSize, u, q),
         NEW x, x = First(Rows(m, n)), NEW b, b = Behind(C, x, n),
         NEW v, v = IF f = x THEN b ELSE f,
         NEW B, B = CutCells(C, x, b), NEW D, D = VectorCells(B, x, len)
  PROVE  /\ x \in Nat \ {0} /\ ~(x \in Used(C))
         /\ find_consecutive_cells(m, n) = Mem(B, v, c - n, s, SegSize, u, x)
         /\ CutOut(C, D, x, n, len) /\ SoundCells(D) /\ Keeps(C, D) /\ Safe(D, x)
         /\ Row(x, n) \subseteq Free(C) /\ Free(D) = Free(C) \ Row(x, n)
         /\ v = First(Free(D)) /\ c - n = Cardinality(Free(D)) /\ Bounded(D, s)
<1>1. m.cell = C /\ m.free_cell = f /\ m.fcells = c /\ m.last_cell_seg = s
  BY MemFields
<1>2. /\ SoundCells(C) /\ Bounded(C, s) /\ f = First(Free(C)) /\ c = Cardinality(Free(C))
  BY <1>1 DEF SoundMem
<1>3. n \in Nat \ {0}
  BY HalvesNat
<1>4. x \in Free(C) /\ Row(x, n) \subseteq Free(C) /\ x \in Nat \ {0}
  BY <1>1, <1>3, FoundIn
<1>5. find_consecutive_cells(m, n) = Mem(B, v, c - n, s, SegSize, u, x)
  BY FindIs
<1>6. CutOut(C, D, x, n, len)
  BY <1>2, <1>4, CutAndFilled
<1>8. /\ SoundCells(D) /\ Keeps(C, D) /\ Free(D) = Free(C) \ Row(x, n) /\ Safe(D, x)
      /\ First(Free(D)) = IF First(Free(C)) = x THEN Behind(C, x, n) ELSE First(Free(C))
  BY <1>2, <1>4, <1>6, RowTaken
<1>9. v = First(Free(D))
  BY <1>2, <1>8
<1>10. c - n = Cardinality(Free(D))
  <2>1. IsFiniteSet(Free(C)) /\ c \in Nat
    BY <1>2, Finite
  <2>2. x \in Int /\ x + n - 1 \in Int /\ ~(x > x + n - 1) /\ (x + n - 1) - x + 1 = n
    BY <1>3, <1>4
  <2>3. IsFiniteSet(Row(x, n)) /\ Cardinality(Row(x, n)) = n
    BY <2>2, FS_Interval DEF Row
  <2>4. Free(C) \cap Row(x, n) = Row(x, n)
    BY <1>4
  <2>5. Cardinality(Free(C) \ Row(x, n)) = Cardinality(Free(C)) - Cardinality(Free(C) \cap Row(x, n))
    BY <2>1, FS_Difference
  <2> QED  BY <1>2, <1>8, <2>3, <2>4, <2>5
<1>11. Bounded(D, s)
  BY <1>2, <1>6 DEF Bounded, CutOut
<1>12. ~(x \in Used(C))
  BY <1>2, <1>4, Frees
<1> QED  BY <1>4, <1>5, <1>6, <1>8, <1>9, <1>10, <1>11, <1>12
LEMMA VectorMade ==
  ASSUME NEW m, SoundMem(m), NEW len \in Nat, NEW n, n = Halves(len) + 1, Rows(m, n) # {}
  PROVE  LET g == find_consecutive_cells(m, n)
             k == Vector(g, len)
         IN  /\ g.new \in Nat \ {0}
             /\ SoundMem(k) /\ Keeps(m.cell, k.cell) /\ Safe(k.cell, k.new)
             /\ ~(k.new \in Used(m.cell))
<1> DEFINE C == m.cell
           f == m.free_cell
           c == m.fcells
           s == m.last_cell_seg
           u == m.no_memory
           q == m.new
           x == First(Rows(m, n))
           b == Behind(C, x, n)
           v == IF f = x THEN b ELSE f
           B == CutCells(C, x, b)
           D == VectorCells(B, x, len)
           g == find_consecutive_cells(m, n)
           k == Vector(g, len)
           w == c - n
<1>1. m = Mem(C, f, c, s, SegSize, u, q)
  BY DEF SoundMem, IsMem
<1> HIDE DEF C, f, c, s, u, q, x, b, v, B, D
<1>2. /\ x \in Nat \ {0} /\ ~(x \in Used(C))
      /\ g = Mem(B, v, w, s, SegSize, u, x)
      /\ SoundCells(D) /\ Keeps(C, D) /\ Safe(D, x)
      /\ v = First(Free(D)) /\ w = Cardinality(Free(D)) /\ Bounded(D, s)
  BY <1>1, RunCut DEF x, b, v, B, D
<1> HIDE DEF g, w
<1>3. k = Mem(D, v, w, s, SegSize, u, x)
  BY <1>2, VectorIs DEF D
<1> HIDE DEF k
<1>4. SoundMem(k) /\ k.cell = D /\ k.new = x
  BY <1>2, <1>3, SoundMemIs
<1>5. g.new = x
  BY <1>2, MemFields
<1> QED  BY <1>2, <1>4, <1>5 DEF C, k, g

\* A run of cells that was taken off the free list and forgotten: the rest is as if a
\* vector had been made of it.
LoseCells(D, R) == [y \in DOMAIN D |-> IF y \in R THEN LostCell ELSE D[y]]
LEMMA LostCellIs ==
  /\ IsCell(LostCell) /\ LostCell.mark = FALSE /\ LostCell.atom = TRUE
  /\ LostCell.type = "lost" /\ LostCell.car = NIL
BY DEF LostCell, Cell, IsCell, Fields
LEMMA CellsLost ==
  ASSUME NEW D, SoundCells(D), NEW R, R \subseteq Used(D)
  PROVE  LET E == LoseCells(D, R)
         IN  /\ SoundCells(E) /\ Free(E) = Free(D) /\ Used(E) = Used(D)
             /\ Elements(E) \subseteq Elements(D)
<1> DEFINE E == LoseCells(D, R)
<1>1. /\ DOMAIN E = DOMAIN D
      /\ \A y \in R : y \in DOMAIN D /\ E[y] = LostCell
      /\ \A y \in DOMAIN D : ~(y \in R) => E[y] = D[y]
  BY Frees DEF LoseCells
<1> HIDE DEF E
<1>2. Free(E) = Free(D) /\ Used(E) = Used(D)
  BY <1>1, LostCellIs, Frees DEF Free, Used
<1>3. ASSUME NEW v \in DOMAIN E, E[v].type = "vector"
      PROVE  /\ ~(v \in R) /\ E[v] = D[v] /\ v \in DOMAIN D /\ D[v].type = "vector"
             /\ ElementCells(E, v) = ElementCells(D, v)
  <2>1. ~(v \in R)
    BY <1>1, <1>3, LostCellIs
  <2> QED  BY <1>1, <1>3, <2>1 DEF ElementCells
<1>4. Elements(E) \subseteq Elements(D)
  BY <1>1, <1>3 DEF Elements
<1>5. \A q : Safe(D, q) => Safe(E, q)
  BY <1>2, <1>4 DEF Safe
<1>6. ASSUME NEW y \in Used(E)
      PROVE  Plain(E, E[y])
  <2>1. CASE y \in R
    BY <1>1, <2>1, LostCellIs DEF Plain
  <2>2. CASE ~(y \in R)
    <3>1. E[y] = D[y] /\ Plain(D, D[y])
      BY <1>1, <1>2, <2>2, Frees DEF SoundCells
    <3> QED  BY <1>5, <3>1 DEF Plain
  <2> QED  BY <2>1, <2>2
<1>7. ASSUME NEW v \in Used(E), E[v].type = "vector"
      PROVE  Owns(E, v)
  <2>1. /\ E[v] = D[v] /\ v \in Used(D) /\ D[v].type = "vector"
        /\ ElementCells(E, v) = ElementCells(D, v)
    BY <1>1, <1>2, <1>3, <1>7, Frees
  <2>2. Owns(D, v)
    BY <2>1 DEF SoundCells
  <2>3. E[v].atom /\ E[v].car \in Nat /\ ElementCells(E, v) \subseteq Used(E)
    BY <1>2, <2>1, <2>2 DEF Owns
  <2>4. ASSUME NEW e \in ElementCells(E, v)
        PROVE  E[e].type # "vector"
    <3>1. e \in DOMAIN D /\ D[e].type # "vector"
      BY <2>1, <2>2, <2>4, Frees DEF Owns
    <3> QED  BY <1>1, <1>3, <3>1
  <2>5. ASSUME NEW e \in ElementCells(E, v), NEW u \in DOMAIN E, E[u].type = "vector",
               e \in ElementCells(E, u)
        PROVE  u = v
    BY <1>3, <2>1, <2>2, <2>5 DEF Owns
  <2> QED  BY <2>3, <2>4, <2>5 DEF Owns
<1>8. Listed(E)
  <2>1. \A y \in Free(D) : E[y] = D[y]
    BY <1>1, Frees
  <2> QED  BY <1>2, <2>1 DEF Listed, SoundCells
<1>9. SoundCells(E)
  BY <1>1, <1>6, <1>7, <1>8 DEF SoundCells
<1> QED  BY <1>2, <1>4, <1>9 DEF E

LEMMA RunForgotten ==
  ASSUME NEW m, SoundMem(m), NEW len \in Nat, NEW n, n = Halves(len) + 1, Rows(m, n) # {}
  PROVE  LET k == Forgotten(find_consecutive_cells(m, n), n)
         IN  SoundMem(k) /\ Keeps(m.cell, k.cell)
<1> DEFINE C == m.cell
           f == m.free_cell
           c == m.fcells
           s == m.last_cell_seg
           u == m.no_memory
           q == m.new
           x == First(Rows(m, n))
           b == Behind(C, x, n)
           v == IF f = x THEN b ELSE f
           B == CutCells(C, x, b)
           D == VectorCells(B, x, len)
           R == Row(x, n)
           E == LoseCells(B, R)
           w == c - n
           g == find_consecutive_cells(m, n)
           k == [g EXCEPT !.cell = E]
<1>1. m = Mem(C, f, c, s, SegSize, u, q)
  BY DEF SoundMem, IsMem
<1> HIDE DEF C, f, c, s, u, q, x, b, v, B, D
<1>2. /\ g = Mem(B, v, w, s, SegSize, u, x)
      /\ CutOut(C, D, x, n, len) /\ SoundCells(D) /\ Keeps(C, D)
      /\ R \subseteq Free(C) /\ Free(D) = Free(C) \ R
      /\ v = First(Free(D)) /\ w = Cardinality(Free(D)) /\ Bounded(D, s)
  BY <1>1, RunCut DEF x, b, v, B, D
<1>3. n \in Nat \ {0} /\ SoundCells(C)
  BY HalvesNat DEF SoundMem, C
<1>4. DOMAIN D = DOMAIN C /\ DOMAIN B = DOMAIN C
  BY <1>2 DEF CutOut, B, CutCells
<1>5. R \subseteq Used(D)
  BY <1>2, <1>3, <1>4, Frees DEF Used
\* But for the run, what the vector leaves is what the search has left.
<1>6. E = LoseCells(D, R)
  <2>1. x \in R
    <3>1. x \in Nat \ {0}
      BY <1>1, RunCut DEF x, b, v, B, D
    <3> QED  BY <1>3, <3>1 DEF Row
  <2>2. ASSUME NEW y \in DOMAIN C, ~(y \in R)
        PROVE  D[y] = B[y]
    <3> DEFINE e == Cell("vector", TRUE, len, NIL)
               A == [B EXCEPT ![x] = e]
    <3>1. DOMAIN A = DOMAIN C /\ A[x] = e /\ A[y] = B[y]
      <4>1. x \in DOMAIN C
        BY <1>2, <1>3, <2>1, Frees
      <4> QED  BY <1>4, <2>1, <2>2, <4>1
    <3>2. D = [z \in DOMAIN A |-> IF z \in ElementCells(A, x) THEN Cell("pair", FALSE, NIL, NIL)
                                  ELSE A[z]]
      BY DEF D, VectorCells
    <3>3. e.car = len
      BY DEF Cell
    <3> HIDE DEF A, e
    <3>4. ElementCells(A, x) = (x + 1) .. (x + Halves(len))
      BY <3>1, <3>3 DEF ElementCells
    <3>5. ~(y \in ElementCells(A, x))
      <4>1. x \in Nat \ {0}
        BY <1>1, RunCut DEF x, b, v, B, D
      <4>2. y \in Nat
        BY <1>3, <2>2 DEF SoundCells
      <4>3. Halves(len) \in Nat /\ x + n - 1 = x + Halves(len)
        BY <4>1, HalvesNat
      <4>4. ~(y \in x .. (x + Halves(len)))
        BY <2>2, <4>3 DEF Row
      <4> QED  BY <3>4, <4>1, <4>2, <4>3, <4>4
    <3> QED  BY <3>1, <3>2, <3>5
  <2> QED  BY <1>4, <2>2 DEF LoseCells
<1>7. /\ SoundCells(E) /\ Free(E) = Free(D) /\ Used(E) = Used(D) /\ Elements(E) \subseteq Elements(D)
  BY <1>2, <1>5, <1>6, CellsLost
<1>8. DOMAIN E = DOMAIN D
  BY <1>6 DEF LoseCells
<1>9. Bounded(E, s)
  BY <1>2, <1>8 DEF Bounded
<1>10. Keeps(C, E)
  <2>1. ASSUME NEW y \in Used(C)
        PROVE  y \in Used(E) /\ E[y] = C[y] /\ (y \in Elements(E) => y \in Elements(C))
    <3>1. y \in Used(D) /\ D[y] = C[y] /\ (y \in Elements(D) => y \in Elements(C))
      BY <1>2 DEF Keeps
    <3>2. ~(y \in R)
      BY <1>2, <1>3, Frees
    <3>3. E[y] = D[y]
      BY <1>6, <3>1, <3>2 DEF LoseCells, Used
    <3> QED  BY <1>7, <3>1, <3>3
  <2> QED  BY <2>1 DEF Keeps
<1>11. g.new = x /\ g.cell = B
  BY <1>2, MemFields
<1>12. Forgotten(g, n) = k
  BY <1>11, Zenon DEF Forgotten, E, R, Row, LoseCells
<1> HIDE DEF E, g, w
<1>13. k = Mem(E, v, w, s, SegSize, u, x)
  BY <1>2, Mem_cell
<1> HIDE DEF k
<1>14. SoundMem(k) /\ k.cell = E
  <2>1. v = First(Free(E)) /\ w = Cardinality(Free(E))
    BY <1>2, <1>7
  <2> QED  BY <1>7, <1>9, <1>13, <2>1, SoundMemIs
<1> QED  BY <1>10, <1>12, <1>14 DEF g, C

\* With a segment more where the collection has brought too little.
LEMMA KeepsTwice ==
  ASSUME NEW C, NEW D, NEW E, Keeps(C, D), Keeps(D, E)
  PROVE  Keeps(C, E)
BY DEF Keeps
LEMMA EnlargedSound ==
  ASSUME NEW m, SoundMem(m)
  PROVE  LET k == Enlarged(m)
         IN  /\ SoundMem(k) /\ Keeps(m.cell, k.cell) /\ Used(k.cell) = Used(m.cell)
BY SegmentSound DEF Enlarged, Keeps
LEMMA CellSupplied ==
  ASSUME NEW m, SoundMem(m), NEW c, Plain(m.cell, c), c.type # "vector"
  PROVE  LET k == Filled(Supplied(Enlarged(m)), c)
         IN  /\ SoundMem(k) /\ Keeps(m.cell, k.cell) /\ Safe(k.cell, k.new)
             /\ ~(k.new \in Used(m.cell))
<1> DEFINE g == Enlarged(m)
           k == Filled(Supplied(g), c)
<1>1. SoundMem(g) /\ Keeps(m.cell, g.cell) /\ Used(g.cell) = Used(m.cell)
  BY EnlargedSound
<1> HIDE DEF g
<1>2. Plain(g.cell, c)
  BY <1>1, KeepsPlain
<1>3. CASE g.free_cell # NIL
  <2>1. k = Filled(Taken(g), c)
    BY <1>3 DEF Supplied
  <2> HIDE DEF k
  <2>2. /\ SoundMem(k) /\ Keeps(g.cell, k.cell) /\ Safe(k.cell, k.new)
        /\ ~(k.new \in Used(g.cell))
    BY <1>1, <1>2, <1>3, <2>1, CellMade
  <2> QED  BY <1>1, <2>2, KeepsTwice DEF k, g
<1>4. CASE g.free_cell = NIL
  <2>1. k = NoMemory(g)
    <3>1. Supplied(g) = NoMemory(g)
      BY <1>4 DEF Supplied
    <3>2. ~(NoMemory(g).new > 0)
      BY <1>1, NoMemorySound DEF Sink
    <3> QED  BY <3>1, <3>2 DEF Filled
  <2> HIDE DEF k
  <2>2. SoundMem(k) /\ k.cell = g.cell /\ k.new = Sink
    BY <1>1, <2>1, NoMemorySound
  <2>3. Safe(k.cell, k.new)
    BY <2>2 DEF Safe, Sink
  <2>4. ~(k.new \in Used(m.cell))
    BY <2>2, Frees DEF SoundMem, Sink
  <2> QED  BY <1>1, <2>2, <2>3, <2>4 DEF k, g
<1> QED  BY <1>3, <1>4
LEMMA VectorSupplied ==
  ASSUME NEW m, SoundMem(m), NEW len \in Nat, NEW n, n = Halves(len) + 1
  PROVE  LET k == Vector(consecutive_cells(m, n), len)
         IN  /\ SoundMem(k) /\ Keeps(m.cell, k.cell) /\ Safe(k.cell, k.new)
             /\ ~(k.new \in Used(m.cell))
<1> DEFINE f == find_consecutive_cells(m, n)
           a == IF f.new = NIL THEN alloc_cellseg(m) ELSE Forgotten(f, n)
           g == find_consecutive_cells(a, n)
           k == Vector(consecutive_cells(m, n), len)
\* What is searched the second time, whether the first search has found a run or not.
<1>1. SoundMem(a) /\ Keeps(m.cell, a.cell)
  <2>1. CASE Rows(m, n) # {}
    <3>1. f.new # NIL
      BY <2>1, VectorMade DEF NIL
    <3> QED  BY <2>1, <3>1, RunForgotten
  <2>2. CASE Rows(m, n) = {}
    <3>1. f.new = NIL
      BY <2>2, NoneFound
    <3>2. SoundMem(alloc_cellseg(m)) /\ Keeps(m.cell, alloc_cellseg(m).cell)
      BY SegmentSound
    <3> QED  BY <3>1, <3>2
  <2> QED  BY <2>1, <2>2
<1>2. consecutive_cells(m, n) = IF g.new = NIL THEN NoMemory(g) ELSE g
  BY DEF consecutive_cells
<1>3. ~(k.new \in Used(a.cell)) => ~(k.new \in Used(m.cell))
  BY <1>1 DEF Keeps
<1> HIDE DEF a
<1>4. CASE Rows(a, n) # {}
  <2>1. g.new # NIL
    BY <1>1, <1>4, VectorMade DEF NIL
  <2>2. k = Vector(g, len)
    BY <1>2, <2>1
  <2> HIDE DEF k
  <2>3. /\ SoundMem(k) /\ Keeps(a.cell, k.cell) /\ Safe(k.cell, k.new)
        /\ ~(k.new \in Used(a.cell))
    BY <1>1, <1>4, <2>2, VectorMade
  <2> QED  BY <1>1, <1>3, <2>3, KeepsTwice DEF k
<1>5. CASE Rows(a, n) = {}
  <2>1. SoundMem(g) /\ g.cell = a.cell /\ g.new = NIL
    BY <1>1, <1>5, NoneFound
  <2>2. k = NoMemory(g)
    BY <1>2, <2>1, NoMemorySound DEF Vector
  <2> HIDE DEF k
  <2> HIDE DEF g
  <2>3. SoundMem(k) /\ k.cell = a.cell /\ k.new = Sink
    BY <2>1, <2>2, NoMemorySound
  <2>4. Safe(k.cell, k.new)
    BY <2>3 DEF Safe, Sink
  <2>5. ~(k.new \in Used(a.cell))
    BY <1>1, <2>3, Frees DEF SoundMem, Sink
  <2> QED  BY <1>1, <1>3, <2>3, <2>4, <2>5 DEF k
<1> QED  BY <1>4, <1>5

-----------------------------------------------------------------------------
\* The sweep.  What can be reached is in use, and all of it remains.
LEMMA SweepKeeps ==
  ASSUME NEW h, SoundCells(h.cell), WellFormed(h), Reach(h) \subseteq Used(h.cell),
         NEW D, Exact(h, D)
  PROVE  /\ SoundCells(D) /\ DOMAIN D = DOMAIN h.cell
         /\ Free(D) = DOMAIN h.cell \ Reach(h) /\ Used(D) = Reach(h)
         /\ \A q : Safe(h.cell, q) /\ (q > 0 => q \in Reach(h)) => Safe(D, q)
<1> DEFINE C == h.cell
           dead == DOMAIN C \ Reach(h)
<1>1. /\ DOMAIN D = DOMAIN C
      /\ \A x \in Reach(h) : D[x] = C[x]
      /\ \A x \in dead : D[x] = FreeCell(First({y \in dead : y > x}))
  BY DEF Exact
<1>2. Reach(h) \subseteq DOMAIN C /\ Holds(h, Reach(h))
  BY ReachHolds
<1>3. \A x \in Reach(h) : C[x].type # "free"
  BY Frees
<1>4. \A x \in dead : D[x].type = "free"
  <2>1. \A q : FreeCell(q).type = "free"
    BY FreeCellIs
  <2> HIDE DEF dead
  <2> QED  BY <1>1, <2>1
<1>5. Free(D) = dead
  BY <1>1, <1>2, <1>3, <1>4 DEF Free
<1>6. Used(D) = Reach(h)
  BY <1>1, <1>2, <1>5 DEF Used
<1> HIDE DEF dead
<1>7. ASSUME NEW v \in DOMAIN D, D[v].type = "vector"
      PROVE  /\ v \in Reach(h) /\ v \in Used(C) /\ C[v].type = "vector" /\ D[v] = C[v]
             /\ ElementCells(D, v) = ElementCells(C, v)
             /\ ElementCells(C, v) \subseteq Reach(h)
  <2>1. v \in Reach(h)
    BY <1>5, <1>6, <1>7 DEF Used, Free
  <2>2. D[v] = C[v] /\ C[v].type = "vector"
    BY <1>1, <1>7, <2>1
  <2>3. Kids(C, v) = ElementCells(C, v)
    BY <2>2 DEF Kids
  <2> QED  BY <1>2, <2>1, <2>2, <2>3 DEF Holds, ClosedUnder, ElementCells
<1>8. \A x \in Elements(D) : x \in Elements(C)
  BY <1>1, <1>7 DEF Elements
<1>9. \A q : Safe(C, q) /\ (q > 0 => q \in Reach(h)) => Safe(D, q)
  BY <1>6, <1>8 DEF Safe
<1>10. ASSUME NEW x \in Used(D)
       PROVE  Plain(D, D[x])
  <2>1. x \in Reach(h) /\ D[x] = C[x] /\ x \in DOMAIN C
    BY <1>1, <1>2, <1>6
  <2>2. Plain(C, C[x])
    BY <2>1 DEF SoundCells
  <2>3. CASE C[x].atom
    BY <2>1, <2>2, <2>3 DEF Plain
  <2>4. CASE ~C[x].atom
    <3>1. Safe(C, C[x].car) /\ Safe(C, C[x].cdr)
      BY <2>2, <2>4 DEF Plain
    <3>2. C[x].type # "vector"
      BY <2>1, <2>4, Vectors DEF Owns
    <3>3. \A q \in {C[x].car, C[x].cdr} : q > 0 => q \in Kids(C, x)
      BY <2>4, <3>2 DEF Kids
    <3>4. \A q \in {C[x].car, C[x].cdr} : q > 0 => q \in Reach(h)
      BY <1>2, <2>1, <3>3 DEF Holds, ClosedUnder
    <3>5. Safe(D, C[x].car) /\ Safe(D, C[x].cdr)
      BY <1>9, <3>1, <3>4
    <3> QED  BY <2>1, <2>2, <3>5 DEF Plain
  <2> QED  BY <2>3, <2>4
<1>11. ASSUME NEW v \in Used(D), D[v].type = "vector"
       PROVE  Owns(D, v)
  <2>1. v \in DOMAIN D
    BY <1>1, <1>2, <1>6
  <2>2. /\ v \in DOMAIN C /\ C[v].type = "vector" /\ D[v] = C[v]
        /\ ElementCells(D, v) = ElementCells(C, v)
        /\ ElementCells(C, v) \subseteq Reach(h)
    BY <1>1, <1>7, <1>11, <2>1
  <2>3. Owns(C, v)
    BY <2>2, Vectors
  <2>4. \A e \in ElementCells(D, v) : e \in Used(D) /\ D[e].type # "vector"
    BY <1>1, <1>6, <2>2, <2>3 DEF Owns
  <2>5. ASSUME NEW e \in ElementCells(D, v), NEW u \in DOMAIN D,
               D[u].type = "vector", e \in ElementCells(D, u)
        PROVE  u = v
    <3>1. u \in DOMAIN C /\ C[u].type = "vector" /\ e \in ElementCells(C, u)
      BY <1>1, <1>7, <2>5
    <3> QED  BY <2>2, <2>3, <3>1 DEF Owns
  <2> QED  BY <2>2, <2>3, <2>4, <2>5 DEF Owns
<1>12. Listed(D)
  BY <1>1, <1>5 DEF Listed
<1>13. SoundCells(D)
  BY <1>1, <1>10, <1>11, <1>12 DEF SoundCells
<1> QED  BY <1>1, <1>5, <1>6, <1>9, <1>13 DEF dead
LEMMA SweepIs ==
  ASSUME NEW m, SoundMem(m), NEW h, h.cell = m.cell, WellFormed(h),
         Reach(h) \subseteq Used(h.cell),
         NEW C, Unmarked(C) = DOMAIN h.cell \ Reach(h), Exact(h, Swept(C))
  PROVE  LET k == Sweep(m, C)
         IN  SoundMem(k) /\ Exact(h, k.cell) /\ k.new = m.new
<1> DEFINE f == m.free_cell
           n == m.fcells
           s == m.last_cell_seg
           u == m.no_memory
           q == m.new
           B == m.cell
           D == Swept(C)
           v1 == First(Unmarked(C))
           v2 == Cardinality(Unmarked(C))
           k1 == [m EXCEPT !.cell = D]
           k2 == [k1 EXCEPT !.free_cell = v1]
           k3 == [k2 EXCEPT !.fcells = v2]
<1>1. m = Mem(B, f, n, s, SegSize, u, q)
  BY DEF SoundMem, IsMem
<1>2. SoundCells(h.cell) /\ Bounded(B, s) /\ B = h.cell
  BY DEF SoundMem
<1> HIDE DEF f, n, s, u, q, B, D
<1>3. SoundCells(D) /\ DOMAIN D = DOMAIN h.cell /\ Free(D) = DOMAIN h.cell \ Reach(h)
  BY <1>2, SweepKeeps DEF D
<1>4. v1 = First(Free(D)) /\ v2 = Cardinality(Free(D))
  BY <1>3
<1> HIDE DEF v1, v2
<1>5. k1 = Mem(D, f, n, s, SegSize, u, q)
  BY <1>1, Mem_cell
<1> HIDE DEF k1
<1>6. k2 = Mem(D, v1, n, s, SegSize, u, q)
  BY <1>5, Mem_free_cell
<1> HIDE DEF k2
<1>7. k3 = Mem(D, v1, v2, s, SegSize, u, q)
  BY <1>6, Mem_fcells
<1> HIDE DEF k3
<1>8. Sweep(m, C) = k3
  BY Zenon DEF Sweep, k1, k2, k3, v1, v2, D
<1>9. Bounded(D, s)
  BY <1>2, <1>3 DEF Bounded
<1>10. SoundMem(k3) /\ k3.cell = D /\ k3.new = q
  <2>1. SoundCells(D)
    BY <1>3
  <2> QED  BY <1>4, <1>7, <1>9, <2>1, SoundMemIs
<1> QED  BY <1>8, <1>10 DEF D, q

-----------------------------------------------------------------------------
\* What the program may use it may follow, and what it has made is sound.
LEMMA RootedSound ==
  ASSUME StorageInv
  PROVE  /\ WellFormed(Rooted) /\ Rooted.cell = mem.cell
         /\ Reach(Rooted) \subseteq Used(mem.cell)
         /\ asked.call # "none" => Rooted = [cell |-> mem.cell, roots |-> heap.roots]
<1> DEFINE r == IF asked.call = "none" THEN Append(regs, mem.new) ELSE heap.roots
           h == [cell |-> mem.cell, roots |-> r]
<1>1. h = Rooted /\ h.cell = mem.cell /\ h.roots = r
  BY DEF Rooted
<1>2. SoundCells(mem.cell)
  BY DEF StorageInv, SoundMem
<1>3. r \in Seq(Int) /\ \A k \in 1 .. Len(r) : Safe(mem.cell, r[k])
  <2>1. CASE asked.call = "none"
    <3>1. /\ regs \in Seq(Int) /\ Len(regs) = Registers /\ Registers \in Nat
          /\ mem.new \in Int /\ Safe(mem.cell, mem.new)
      BY <2>1, SizeAssumption DEF StorageInv, Wanted, Safe
    <3> DEFINE a == Append(regs, mem.new)
    <3>2. /\ a \in Seq(Int) /\ Len(a) = Registers + 1
          /\ \A k \in 1 .. Registers : a[k] = regs[k]
          /\ a[Registers + 1] = mem.new
      BY <3>1
    <3> HIDE DEF a
    <3>3. \A k \in 1 .. Len(a) : Safe(mem.cell, a[k])
      <4> SUFFICES ASSUME NEW k \in 1 .. Registers + 1
                   PROVE  Safe(mem.cell, a[k])
        BY <3>2
      <4>1. CASE k = Registers + 1
        BY <3>1, <3>2, <4>1
      <4>2. CASE k # Registers + 1
        <5>1. k \in 1 .. Registers
          BY <3>1, <4>2
        <5> QED  BY <3>2, <5>1 DEF StorageInv
      <4> QED  BY <4>1, <4>2
    <3> QED  BY <2>1, <3>2, <3>3 DEF a
  <2>2. CASE asked.call # "none"
    BY <2>2 DEF StorageInv
  <2> QED  BY <2>1, <2>2
<1> HIDE DEF r, h
<1>4. WellFormed(h) /\ Reach(h) \subseteq Used(h.cell)
  BY <1>1, <1>2, <1>3, SoundIsWellFormed
<1> QED  BY <1>1, <1>4 DEF h, r
LEMMA HeldSafe ==
  ASSUME StorageInv, NEW q \in Held
  PROVE  /\ Safe(mem.cell, q)
         /\ q > 0 => q \in Used(mem.cell) /\ Plain(mem.cell, mem.cell[q])
<1>1. /\ SoundCells(mem.cell) /\ Reach(Rooted) \subseteq Used(mem.cell)
  BY RootedSound DEF StorageInv, SoundMem
<1>2. CASE q \in Immediates
  BY <1>2, ContentAssumption DEF Safe
<1>3. CASE q \in Reach(Rooted) /\ ~(q \in Elements(mem.cell))
  BY <1>1, <1>3, Frees DEF Safe, SoundCells
<1> QED  BY <1>2, <1>3 DEF Held
LEMMA ContentPlain ==
  ASSUME StorageInv, NEW c \in Contents
  PROVE  /\ Plain(mem.cell, c) /\ c.type # "vector" /\ c.atom \in BOOLEAN
         /\ ~c.atom => Safe(mem.cell, c.car) /\ Safe(mem.cell, c.cdr)
<1>1. CASE c \in Atoms
  <2>1. c = Cell(c.type, TRUE, c.car, NIL) /\ c.type # "free" /\ c.type # "vector"
    BY <1>1, ContentAssumption
  <2>2. IsCell(c) /\ c.mark = FALSE /\ c.atom = TRUE
    BY <2>1 DEF Cell, IsCell, Fields
  <2> QED  BY <2>1, <2>2 DEF Plain
<1>2. CASE ~(c \in Atoms)
  <2>1. PICK kind \in Kinds, a \in Held, b \in Held : c = Cell(kind, FALSE, a, b)
    BY <1>2 DEF Contents, Cell
  <2>2. /\ IsCell(c) /\ c.mark = FALSE /\ c.atom = FALSE
        /\ c.type = kind /\ c.car = a /\ c.cdr = b
    BY <2>1 DEF Cell, IsCell, Fields
  <2>3. kind # "free" /\ kind # "vector"
    BY ContentAssumption
  <2>4. Safe(mem.cell, a) /\ Safe(mem.cell, b)
    BY HeldSafe
  <2> QED  BY <2>2, <2>3, <2>4 DEF Plain
<1> QED  BY <1>1, <1>2

\* Cells with one field changed.
LEMMA FieldsWith ==
  ASSUME NEW c, IsCell(c), NEW v
  PROVE  /\ [c EXCEPT !.car = v] = Fields(c.type, c.atom, c.mark, v, c.cdr)
         /\ [c EXCEPT !.cdr = v] = Fields(c.type, c.atom, c.mark, c.car, v)
         /\ [c EXCEPT !.type = v] = Fields(v, c.atom, c.mark, c.car, c.cdr)
<1> DEFINE ty == c.type
           atom == c.atom
           mark == c.mark
           a == c.car
           b == c.cdr
<1>1. c = Fields(ty, atom, mark, a, b)
  BY DEF IsCell
<1> HIDE DEF ty, atom, mark, a, b
<1>2. [c EXCEPT !.car = v] = Fields(ty, atom, mark, v, b)
  BY <1>1, SMT DEF Fields
<1>3. [c EXCEPT !.cdr = v] = Fields(ty, atom, mark, a, v)
  BY <1>1, SMT DEF Fields
<1>4. [c EXCEPT !.type = v] = Fields(v, atom, mark, a, b)
  BY <1>1, SMT DEF Fields
<1> QED  BY <1>2, <1>3, <1>4 DEF ty, atom, mark, a, b
LEMMA PlainWith_car ==
  ASSUME NEW C, NEW c, Plain(C, c), NEW v, Safe(C, v), NEW d, d = [c EXCEPT !.car = v]
  PROVE  Plain(C, d) /\ d.type = c.type
<1>1. IsCell(c) /\ c.mark = FALSE
  BY DEF Plain
<1>2. d = Fields(c.type, c.atom, c.mark, v, c.cdr)
  BY <1>1, FieldsWith
<1>3. IsCell(d) /\ d.mark = c.mark /\ d.atom = c.atom /\ d.type = c.type /\ d.car = v /\ d.cdr = c.cdr
  BY <1>2 DEF IsCell, Fields
<1> QED  BY <1>1, <1>3 DEF Plain
LEMMA PlainWith_cdr ==
  ASSUME NEW C, NEW c, Plain(C, c), NEW v, Safe(C, v), NEW d, d = [c EXCEPT !.cdr = v]
  PROVE  Plain(C, d) /\ d.type = c.type
<1>1. IsCell(c) /\ c.mark = FALSE
  BY DEF Plain
<1>2. d = Fields(c.type, c.atom, c.mark, c.car, v)
  BY <1>1, FieldsWith
<1>3. IsCell(d) /\ d.mark = c.mark /\ d.atom = c.atom /\ d.type = c.type /\ d.car = c.car /\ d.cdr = v
  BY <1>2 DEF IsCell, Fields
<1> QED  BY <1>1, <1>3 DEF Plain
LEMMA PlainWith_type ==
  ASSUME NEW C, NEW c, Plain(C, c), NEW v, v # "free", NEW d, d = [c EXCEPT !.type = v]
  PROVE  Plain(C, d) /\ d.type = v
<1>1. IsCell(c) /\ c.mark = FALSE
  BY DEF Plain
<1>2. d = Fields(v, c.atom, c.mark, c.car, c.cdr)
  BY <1>1, FieldsWith
<1>3. IsCell(d) /\ d.mark = c.mark /\ d.atom = c.atom /\ d.type = v /\ d.car = c.car /\ d.cdr = c.cdr
  BY <1>2 DEF IsCell, Fields
<1> QED  BY <1>1, <1>3 DEF Plain

\* While nothing waits for the collector, a sound memory is all it takes.
LEMMA AtRest ==
  ASSUME StorageInv, SoundMem(mem'), Safe(mem'.cell, mem'.new),
         regs' = regs, \A i \in 1 .. Registers : Safe(mem'.cell, regs[i]),
         asked'.call = "none", walk'.at = "idle"
  PROVE  StorageInv'
BY DEF StorageInv

\* What the program writes.
LEMMA WritesSound ==
  ASSUME StorageInv, asked.call = "none", WritesCell
  PROVE  /\ SoundMem(mem') /\ Safe(mem'.cell, mem'.new) /\ regs' = regs
         /\ \A i \in 1 .. Registers : Safe(mem'.cell, regs[i])
<1>1. SoundMem(mem) /\ SoundCells(mem.cell) /\ Safe(mem.cell, mem.new)
  BY DEF StorageInv, SoundMem, Wanted
<1>2. ASSUME NEW x \in Used(mem.cell), mem.cell[x].type # "vector",
             NEW c, Plain(mem.cell, c), c.type # "vector",
             mem' = [mem EXCEPT !.cell = [mem.cell EXCEPT ![x] = c]]
      PROVE  /\ SoundMem(mem') /\ Safe(mem'.cell, mem'.new)
             /\ \A i \in 1 .. Registers : Safe(mem'.cell, regs[i])
  <2>1. /\ SoundMem(mem') /\ mem'.new = mem.new
        /\ \A q : Safe(mem.cell, q) => Safe(mem'.cell, q)
    BY <1>1, <1>2, MemWritten
  <2> QED  BY <1>1, <2>1 DEF StorageInv
<1>3. ASSUME NEW x \in Held, x > 0, ~mem.cell[x].atom
      PROVE  x \in Used(mem.cell) /\ mem.cell[x].type # "vector" /\ Plain(mem.cell, mem.cell[x])
  BY <1>1, <1>3, HeldSafe, Vectors, Frees DEF Owns
<1>4. CASE SetTheCar
  <2>1. PICK x \in Held, q \in Held :
          x > 0 /\ ~mem.cell[x].atom /\ Write(x, [mem.cell[x] EXCEPT !.car = q])
    BY <1>4 DEF SetTheCar
  <2> DEFINE c == [mem.cell[x] EXCEPT !.car = q]
  <2>2. Plain(mem.cell, c) /\ c.type # "vector"
    BY <1>3, <2>1, HeldSafe, PlainWith_car
  <2> HIDE DEF c
  <2>3. mem' = [mem EXCEPT !.cell = [mem.cell EXCEPT ![x] = c]] /\ regs' = regs
    BY <2>1 DEF Write, c
  <2> QED  BY <1>2, <1>3, <2>1, <2>2, <2>3
<1>5. CASE SetTheCdr
  <2>1. PICK x \in Held, q \in Held :
          x > 0 /\ ~mem.cell[x].atom /\ Write(x, [mem.cell[x] EXCEPT !.cdr = q])
    BY <1>5 DEF SetTheCdr
  <2> DEFINE c == [mem.cell[x] EXCEPT !.cdr = q]
  <2>2. Plain(mem.cell, c) /\ c.type # "vector"
    BY <1>3, <2>1, HeldSafe, PlainWith_cdr
  <2> HIDE DEF c
  <2>3. mem' = [mem EXCEPT !.cell = [mem.cell EXCEPT ![x] = c]] /\ regs' = regs
    BY <2>1 DEF Write, c
  <2> QED  BY <1>2, <1>3, <2>1, <2>2, <2>3
<1>6. CASE SetKind
  <2>1. PICK x \in Held, kind \in Kinds :
          x > 0 /\ ~mem.cell[x].atom /\ Write(x, [mem.cell[x] EXCEPT !.type = kind])
    BY <1>6 DEF SetKind
  <2> DEFINE c == [mem.cell[x] EXCEPT !.type = kind]
  <2>2. kind # "free" /\ kind # "vector"
    BY ContentAssumption
  <2>3. Plain(mem.cell, c) /\ c.type # "vector"
    <3>1. Plain(mem.cell, mem.cell[x])
      BY <1>3, <2>1
    <3>2. Plain(mem.cell, c) /\ c.type = kind
      BY <2>2, <3>1, PlainWith_type
    <3> QED  BY <2>2, <3>2
  <2> HIDE DEF c
  <2>4. mem' = [mem EXCEPT !.cell = [mem.cell EXCEPT ![x] = c]] /\ regs' = regs
    BY <2>1 DEF Write, c
  <2> QED  BY <1>2, <1>3, <2>1, <2>3, <2>4
<1>7. CASE CopyCell
  <2>1. PICK x \in Held, y \in Held :
          /\ x > 0 /\ y > 0 /\ mem.cell[x].type # "vector" /\ mem.cell[y].type # "vector"
          /\ Write(x, mem.cell[y])
    BY <1>7 DEF CopyCell
  <2> DEFINE c == mem.cell[y]
  <2>2. Plain(mem.cell, c) /\ c.type # "vector" /\ x \in Used(mem.cell)
    BY <2>1, HeldSafe
  <2> HIDE DEF c
  <2>3. mem' = [mem EXCEPT !.cell = [mem.cell EXCEPT ![x] = c]] /\ regs' = regs
    BY <2>1 DEF Write, c
  <2> QED  BY <1>2, <2>1, <2>2, <2>3
<1>8. CASE SetElement
  <2>1. PICK v \in Held, q \in Held :
          /\ v > 0 /\ mem.cell[v].type = "vector"
          /\ \E i \in 0 .. mem.cell[v].car - 1 :
               LET x == ElementCell(v, i)
               IN  mem' = IF i % 2 = 0 THEN [mem EXCEPT !.cell[x].car = q]
                          ELSE [mem EXCEPT !.cell[x].cdr = q]
          /\ UNCHANGED regs
    BY <1>8 DEF SetElement
  <2>2. PICK i \in 0 .. mem.cell[v].car - 1 :
          LET x == ElementCell(v, i)
          IN  mem' = IF i % 2 = 0 THEN [mem EXCEPT !.cell[x].car = q]
                     ELSE [mem EXCEPT !.cell[x].cdr = q]
    BY <2>1
  <2> DEFINE x == ElementCell(v, i)
             n == mem.cell[v].car
  <2>3. v \in Used(mem.cell) /\ Owns(mem.cell, v) /\ v \in Nat
    BY <1>1, <2>1, HeldSafe, Vectors, Frees
  <2>4. x \in ElementCells(mem.cell, v)
    <3>1. n \in Nat /\ i \in 0 .. n - 1 /\ v \in Nat
      BY <2>3 DEF Owns
    <3> HIDE DEF n
    <3>2. v + 1 + (i \div 2) \in (v + 1) .. (v + ((n \div 2) + (n % 2)))
      BY <3>1
    <3> QED  BY <3>2 DEF ElementCells, ElementCell, Halves, n
  <2>5. x \in Used(mem.cell) /\ mem.cell[x].type # "vector"
    BY <2>3, <2>4 DEF Owns
  <2>6. Plain(mem.cell, mem.cell[x]) /\ Safe(mem.cell, q)
    BY <1>1, <2>5, HeldSafe DEF SoundCells
  <2> HIDE DEF x
  <2> DEFINE c == [mem.cell[x] EXCEPT !.car = q]
             d == [mem.cell[x] EXCEPT !.cdr = q]
  <2>7. Plain(mem.cell, c) /\ c.type # "vector" /\ Plain(mem.cell, d) /\ d.type # "vector"
    BY <2>5, <2>6, PlainWith_car, PlainWith_cdr
  <2> HIDE DEF c, d
  <2>8. \/ mem' = [mem EXCEPT !.cell = [mem.cell EXCEPT ![x] = c]]
        \/ mem' = [mem EXCEPT !.cell = [mem.cell EXCEPT ![x] = d]]
    BY <2>2 DEF x, c, d
  <2> QED  BY <1>2, <2>1, <2>5, <2>7, <2>8
<1> QED  BY <1>4, <1>5, <1>6, <1>7, <1>8 DEF WritesCell

\* What is made without a collection.
Made(C, m) == /\ SoundMem(m) /\ Keeps(C, m.cell) /\ Safe(m.cell, m.new)
              /\ m.new = mem.new \/ ~(m.new \in Used(C))
LEMMA MadeSound ==
  ASSUME StorageInv, Made(mem.cell, mem'), regs' = regs,
         asked'.call = "none", walk'.at = "idle"
  PROVE  StorageInv'
<1>1. \A i \in 1 .. Registers : Safe(mem'.cell, regs[i])
  BY KeepsSafe DEF StorageInv, Made
<1> QED  BY <1>1, AtRest DEF Made
LEMMA SinkMade ==
  ASSUME SoundMem(mem), mem' = [mem EXCEPT !.new = Sink]
  PROVE  Made(mem.cell, mem')
<1> DEFINE v == Sink
           k == [mem EXCEPT !.new = v]
<1> HIDE DEF v
<1>1. SoundMem(k) /\ k.cell = mem.cell /\ k.new = v
  BY NewSound
<1>2. SoundMem(mem') /\ mem'.cell = mem.cell /\ mem'.new = v
  BY <1>1 DEF v
<1>3. Safe(mem'.cell, v)
  BY DEF Safe, Sink, v
<1>4. ~(v \in Used(mem.cell))
  BY Frees DEF SoundMem, Sink, v
<1> QED  BY <1>2, <1>3, <1>4 DEF Made, Keeps
LEMMA TakeCellMade ==
  ASSUME StorageInv, asked.call = "none", NEW c \in Contents, TakeCell(c)
  PROVE  Made(mem.cell, mem') /\ regs' = regs
<1>1. SoundMem(mem)
  BY DEF StorageInv
<1>2. Plain(mem.cell, c) /\ c.type # "vector"
  BY ContentPlain
<1>3. CASE mem.free_cell # NIL
  <2>1. mem' = Filled(Taken(mem), c)
    BY <1>3 DEF TakeCell
  <2> QED  BY <1>1, <1>2, <1>3, <2>1, CellMade DEF Made, TakeCell
<1>4. CASE mem.free_cell = NIL
  BY <1>1, <1>4, SinkMade DEF TakeCell
<1> QED  BY <1>3, <1>4
LEMMA TakeVectorMade ==
  ASSUME StorageInv, asked.call = "none", NEW len \in Lengths, TakeVector(len)
  PROVE  Made(mem.cell, mem') /\ regs' = regs
<1> DEFINE n == Halves(len) + 1
           found == find_consecutive_cells(mem, n)
<1>1. SoundMem(mem) /\ len \in Nat
  BY SizeAssumption DEF StorageInv
<1>2. CASE mem.no_memory
  BY <1>1, <1>2, SinkMade DEF TakeVector
<1>3. CASE ~mem.no_memory
  <2>1. found.new # NIL /\ mem' = Vector(found, len)
    BY <1>3 DEF TakeVector
  <2>2. Rows(mem, n) # {}
    BY <1>1, <2>1, NoneFound
  <2> HIDE DEF n
  <2>3. /\ SoundMem(mem') /\ Keeps(mem.cell, mem'.cell) /\ Safe(mem'.cell, mem'.new)
        /\ ~(mem'.new \in Used(mem.cell))
    BY <1>1, <2>1, <2>2, VectorMade DEF n
  <2> QED  BY <2>3 DEF Made, TakeVector
<1> QED  BY <1>2, <1>3
LEMMA NewSegmentMade ==
  ASSUME StorageInv, NewSegment
  PROVE  Made(mem.cell, mem') /\ regs' = regs /\ asked' = asked /\ walk' = walk
<1>1. SoundMem(mem) /\ Safe(mem.cell, mem.new)
  BY DEF StorageInv, NewSegment, AtWork, Wanted
<1>2. SoundMem(mem') /\ Keeps(mem.cell, mem'.cell) /\ mem'.new = mem.new
  BY <1>1, SegmentSound DEF NewSegment
<1> QED  BY <1>1, <1>2, KeepsSafe DEF Made, NewSegment

-----------------------------------------------------------------------------
\* gc begins, and marks.
LEMMA CallFields ==
  ASSUME NEW c, NEW n
  PROVE  /\ ForCell(c).call = "get_cell" /\ ForCell(c).cell = c
         /\ ForVector(n).call = "mk_vector" /\ ForVector(n).len = n
         /\ ForGc.call = "gc" /\ NoCall.call = "none"
BY DEF ForCell, ForVector, ForGc, NoCall
LEMMA AsksSound ==
  ASSUME StorageInv, asked.call = "none", NEW call, NEW a, NEW b, Asks(call, a, b),
         Safe(mem.cell, a), Safe(mem.cell, b),
         \/ call.call \in {"mk_vector", "gc"}
         \/ call.call = "get_cell" /\ Plain(mem.cell, call.cell) /\ call.cell.type # "vector"
            /\ (~call.cell.atom => call.cell.car = a /\ call.cell.cdr = b),
         call.call = "mk_vector" => call.len \in Nat
  PROVE  StorageInv'
<1> DEFINE r == regs \o <<a, b>>
           h == [cell |-> mem.cell, roots |-> r]
<1>1. /\ asked' = call /\ heap' = h /\ walk' = Begin(h.cell, h.roots)
      /\ mem' = mem /\ regs' = regs
  BY DEF Asks
<1>2. h.cell = mem.cell /\ h.roots = r
  OBVIOUS
<1>3. /\ SoundMem(mem) /\ SoundCells(mem.cell)
      /\ regs \in Seq(Int) /\ Len(regs) = Registers /\ Registers \in Nat
      /\ \A i \in 1 .. Registers : Safe(mem.cell, regs[i])
      /\ a \in Int /\ b \in Int
  BY SizeAssumption DEF StorageInv, SoundMem, Safe
<1>4. /\ r \in Seq(Int) /\ Len(r) = Registers + 2
      /\ \A i \in 1 .. Registers : r[i] = regs[i]
      /\ r[Registers + 1] = a /\ r[Registers + 2] = b
  <2>1. <<a, b>> \in Seq(Int) /\ Len(<<a, b>>) = 2
    BY <1>3
  <2>2. r \in Seq(Int) /\ Len(r) = Registers + 2
    BY <1>3, <2>1, ConcatProperties
  <2>3. \A k \in 1 .. Registers + 2 :
          r[k] = IF k <= Registers THEN regs[k] ELSE <<a, b>>[k - Registers]
    BY <1>3, <2>1, ConcatProperties
  <2>4. Registers + 1 \in 1 .. Registers + 2 /\ Registers + 2 \in 1 .. Registers + 2
        /\ (\A i \in 1 .. Registers : i \in 1 .. Registers + 2 /\ i <= Registers)
        /\ ~(Registers + 1 <= Registers) /\ ~(Registers + 2 <= Registers)
        /\ (Registers + 1) - Registers = 1 /\ (Registers + 2) - Registers = 2
    BY <1>3
  <2> HIDE DEF r
  <2> QED  BY <2>2, <2>3, <2>4
<1> HIDE DEF r, h
<1>5. \A k \in 1 .. Len(r) : Safe(mem.cell, r[k])
  <2>1. ASSUME NEW k \in 1 .. Registers + 2
        PROVE  k \in 1 .. Registers \/ k = Registers + 1 \/ k = Registers + 2
    BY <1>3
  <2> QED  BY <1>3, <1>4, <2>1
<1>6. WellFormed(h)
  BY <1>2, <1>3, <1>4, <1>5, SoundIsWellFormed
<1>7. Marks(h, Begin(h.cell, h.roots))
  BY <1>6, BeginMarks
<1>8. Collecting'
  BY <1>1, <1>2, <1>6, <1>7 DEF Collecting
<1>9. \A q : q = a \/ q = b \/ (\E i \in 1 .. Registers : q = regs[i]) =>
        \E k \in 1 .. Len(r) : r[k] = q
  <2>1. /\ Registers + 1 \in 1 .. Registers + 2 /\ Registers + 2 \in 1 .. Registers + 2
        /\ \A i \in 1 .. Registers : i \in 1 .. Registers + 2
    BY <1>3
  <2> QED  BY <1>4, <2>1
<1>10. Wanted'
  BY <1>1, <1>2, <1>9 DEF Wanted, Root
<1>11. \A i \in 1 .. Registers : Root(regs[i])'
  BY <1>1, <1>2, <1>9 DEF Root
<1> QED  BY <1>1, <1>2, <1>3, <1>4, <1>5, <1>8, <1>10, <1>11 DEF StorageInv
LEMMA AskCellSound ==
  ASSUME StorageInv, AskCell
  PROVE  StorageInv'
<1>1. PICK c \in Contents :
        IF c.atom THEN Asks(ForCell(c), NIL, NIL) ELSE Asks(ForCell(c), c.car, c.cdr)
  BY DEF AskCell
<1>2. asked.call = "none"
  BY DEF AskCell, Works, AtWork
<1>3. /\ Plain(mem.cell, c) /\ c.type # "vector" /\ c.atom \in BOOLEAN
      /\ ~c.atom => Safe(mem.cell, c.car) /\ Safe(mem.cell, c.cdr)
  BY ContentPlain
<1>4. Safe(mem.cell, NIL)
  BY DEF Safe, NIL
<1> DEFINE call == ForCell(c)
<1>5. call.call = "get_cell" /\ call.cell = c
  BY CallFields
<1> HIDE DEF call
<1>6. CASE c.atom
  <2>1. Asks(call, NIL, NIL)
    BY <1>1, <1>6 DEF call
  <2> QED  BY <1>2, <1>3, <1>4, <1>5, <1>6, <2>1, AsksSound
<1>7. CASE ~c.atom
  <2>1. Asks(call, c.car, c.cdr)
    BY <1>1, <1>7 DEF call
  <2> QED  BY <1>2, <1>3, <1>5, <1>7, <2>1, AsksSound
<1> QED  BY <1>6, <1>7
LEMMA AskVectorSound ==
  ASSUME StorageInv, AskVector
  PROVE  StorageInv'
<1>1. PICK n \in Lengths : Asks(ForVector(n), NIL, NIL)
  BY DEF AskVector
<1>2. asked.call = "none" /\ n \in Nat /\ Safe(mem.cell, NIL)
  BY SizeAssumption DEF AskVector, Works, AtWork, Safe, NIL
<1> DEFINE call == ForVector(n)
<1>3. call.call = "mk_vector" /\ call.len = n
  BY CallFields
<1> HIDE DEF call
<1>4. Asks(call, NIL, NIL)
  BY <1>1 DEF call
<1> QED  BY <1>2, <1>3, <1>4, AsksSound
LEMMA AskGcSound ==
  ASSUME StorageInv, AskGc
  PROVE  StorageInv'
<1>1. asked.call = "none" /\ Safe(mem.cell, NIL)
  BY DEF AskGc, Works, AtWork, Safe, NIL
<1> DEFINE call == ForGc
<1>2. call.call = "gc"
  BY CallFields
<1> HIDE DEF call
<1>3. Asks(call, NIL, NIL)
  BY DEF AskGc, call
<1> QED  BY <1>1, <1>2, <1>3, AsksSound

\* A step of mark or of gc.
LEMMA CollectSound ==
  ASSUME StorageInv, Collect
  PROVE  StorageInv' /\ mem' = mem
<1>1. /\ walk.at \in {"gc", "E2", "vector", "E4", "E5", "E6"}
      /\ UNCHANGED <<mem, regs, asked, heap, work>>
  BY DEF Collect, Go
<1>2. /\ heap.cell = mem.cell /\ WellFormed(heap) /\ Marks(heap, walk)
      /\ Wanted
  BY <1>1 DEF StorageInv, Collecting
<1>3. Marks(heap, walk')
  <2>1. CASE Go("gc", NextRoot(walk))
    BY <1>2, <2>1, NextRootMarks DEF Go
  <2>2. CASE Go("E2", Visit(walk))
    BY <1>2, <2>2, VisitMarks DEF Go
  <2>3. CASE Go("vector", MarkElement(walk))
    BY <1>2, <2>3, MarkElementMarks DEF Go
  <2>4. CASE Go("E4", DownCar(walk))
    BY <1>2, <2>4, DownCarMarks DEF Go
  <2>5. CASE Go("E5", DownCdr(walk))
    BY <1>2, <2>5, DownCdrMarks DEF Go
  <2>6. CASE Go("E6", Up(walk))
    BY <1>2, <2>6, UpMarks DEF Go
  <2> QED  BY <2>1, <2>2, <2>3, <2>4, <2>5, <2>6 DEF Collect
<1>4. Collecting'
  BY <1>1, <1>2, <1>3 DEF Collecting
<1>5. Wanted'
  BY <1>1, <1>2 DEF Wanted, Root
<1> QED  BY <1>1, <1>2, <1>4, <1>5 DEF StorageInv, Wanted, Root

\* The sweep.
LEMMA SweepUpSound ==
  ASSUME StorageInv, SweepUp
  PROVE  /\ StorageInv' /\ Exact(heap, mem'.cell) /\ mem'.new = mem.new
         /\ heap.cell = mem.cell /\ asked.call # "none"
<1>1. /\ walk.at = "end" /\ walk' = [walk EXCEPT !.at = "swept"]
      /\ mem' = Sweep(mem, walk.cell) /\ regs' = regs /\ asked' = asked /\ heap' = heap
  BY DEF SweepUp
<1>2. /\ heap.cell = mem.cell /\ WellFormed(heap) /\ Marks(heap, walk) /\ Wanted
      /\ heap.roots \in Seq(Int)
      /\ \A k \in 1 .. Len(heap.roots) : Safe(mem.cell, heap.roots[k])
      /\ \A i \in 1 .. Registers : Root(regs[i])
  BY <1>1 DEF StorageInv, Collecting
<1>3. SoundMem(mem) /\ SoundCells(heap.cell)
  BY <1>2 DEF StorageInv, SoundMem
<1>4. Reach(heap) \subseteq Used(heap.cell)
  BY <1>2, <1>3, SoundIsWellFormed
<1> DEFINE C == walk.cell
           w == walk
<1>5. /\ w = Walk(C, heap.roots, w.given, w.calls, w.t, w.p, w.i, w.at)
      /\ Resting(heap, C, w.given, w.calls, w.t, "end")
  BY <1>1, <1>2, MarksAt
<1>6. Exact(heap, Swept(C)) /\ Unmarked(C) = DOMAIN heap.cell \ Reach(heap)
  BY <1>2, <1>5, SweptIsExact
<1>7. walk'.at = "swept"
  <2> DEFINE v == "swept"
             w1 == [w EXCEPT !.at = v]
  <2>1. walk' = w1
    BY <1>1
  <2> HIDE DEF w, C, v
  <2>2. w1 = Walk(C, heap.roots, w.given, w.calls, w.t, w.p, w.i, v)
    BY <1>5, With_at
  <2> HIDE DEF w1
  <2>3. w1.at = v
    BY <2>2, WalkFields
  <2> QED  BY <2>1, <2>3 DEF v
<1> HIDE DEF C, w
<1>8. SoundMem(mem') /\ Exact(heap, mem'.cell) /\ mem'.new = mem.new
  BY <1>1, <1>2, <1>3, <1>4, <1>6, SweepIs DEF C
<1>9. \A q : Safe(heap.cell, q) /\ (q > 0 => q \in Reach(heap)) => Safe(mem'.cell, q)
  BY <1>2, <1>3, <1>4, <1>8, SweepKeeps
<1>10. \A k \in 1 .. Len(heap.roots) : Safe(mem'.cell, heap.roots[k])
  <2>1. \A k \in 1 .. Len(heap.roots) : heap.roots[k] > 0 => heap.roots[k] \in Reach(heap)
    BY <1>2, ReachHolds DEF Holds
  <2> QED  BY <1>2, <1>9, <2>1
<1>11. \A q : Root(q) => Safe(mem'.cell, q)
  BY <1>10 DEF Root
<1>12. \A q : Root(q)' <=> Root(q)
  BY <1>1 DEF Root
<1>13. Wanted'
  <2>1. CASE asked.call = "get_cell"
    <3>1. /\ Plain(mem.cell, asked.cell) /\ asked.cell.type # "vector"
          /\ ~asked.cell.atom => Root(asked.cell.car) /\ Root(asked.cell.cdr)
      BY <1>2, <2>1 DEF Wanted
    <3>2. Plain(mem'.cell, asked.cell)
      BY <1>11, <3>1 DEF Plain
    <3>3. ~asked.cell.atom => Root(asked.cell.car)' /\ Root(asked.cell.cdr)'
      BY <1>1, <3>1 DEF Root
    <3> QED  BY <1>1, <2>1, <3>1, <3>2, <3>3 DEF Wanted
  <2>2. CASE asked.call # "get_cell"
    BY <1>1, <1>2, <2>2 DEF Wanted
  <2> QED  BY <2>1, <2>2
<1>14. Collecting'
  BY <1>1, <1>7, <1>8 DEF Collecting
<1>15. asked.call # "none"
  BY <1>2 DEF Wanted
<1>16. /\ regs' \in [1 .. Registers -> Int]
       /\ \A i \in 1 .. Registers : Safe(mem'.cell, regs'[i]) /\ Root(regs[i])'
  BY <1>1, <1>2, <1>11 DEF StorageInv, Root
<1> QED  BY <1>1, <1>2, <1>8, <1>10, <1>13, <1>14, <1>15, <1>16 DEF StorageInv

LEMMA IdleAt == Idle.at = "idle"
<1> DEFINE C == [x \in {} |-> FreeCell(NIL)]
           w == Begin(C, <<>>)
           v == "idle"
           k == [w EXCEPT !.at = v]
<1>1. w = Walk(C, <<>>, 0, <<>>, Null, Null, 0, "gc")
  BY DEF Begin, Walk
<1> HIDE DEF w, C, v
<1>2. k = Walk(C, <<>>, 0, <<>>, Null, Null, 0, v)
  BY <1>1, With_at
<1> HIDE DEF k
<1>3. k.at = v
  BY <1>2, WalkFields
<1>4. Idle = k
  BY Zenon DEF Idle, k, w, C, v
<1> QED  BY <1>3, <1>4 DEF v
\* The call goes on.
LEMMA AnswerMade ==
  ASSUME StorageInv, Answer
  PROVE  Made(mem.cell, mem') /\ regs' = regs /\ asked'.call = "none" /\ walk'.at = "idle"
<1>1. /\ walk.at = "swept" /\ asked' = NoCall /\ walk' = Idle /\ regs' = regs
      /\ asked.call = "get_cell" => mem' = Filled(Supplied(Enlarged(mem)), asked.cell)
      /\ asked.call = "mk_vector" =>
           mem' = Vector(consecutive_cells(mem, Halves(asked.len) + 1), asked.len)
      /\ asked.call = "gc" => mem' = [mem EXCEPT !.new = T]
  BY DEF Answer
<1>2. Wanted /\ SoundMem(mem)
  BY <1>1 DEF StorageInv
<1>4. asked'.call = "none" /\ walk'.at = "idle"
  BY <1>1, IdleAt, CallFields
<1>5. Made(mem.cell, mem')
  <2>1. CASE asked.call = "get_cell"
    <3>1. Plain(mem.cell, asked.cell) /\ asked.cell.type # "vector"
      BY <1>2, <2>1 DEF Wanted
    <3> DEFINE c == asked.cell
    <3> HIDE DEF c
    <3>2. mem' = Filled(Supplied(Enlarged(mem)), c) /\ Plain(mem.cell, c) /\ c.type # "vector"
      BY <1>1, <2>1, <3>1 DEF c
    <3> QED  BY <1>2, <3>2, CellSupplied DEF Made
  <2>2. CASE asked.call = "mk_vector"
    <3> DEFINE len == asked.len
               n == Halves(len) + 1
    <3>1. len \in Nat /\ mem' = Vector(consecutive_cells(mem, n), len)
      BY <1>1, <1>2, <2>2 DEF Wanted
    <3> HIDE DEF len, n
    <3>2. n = Halves(len) + 1
      BY DEF n
    <3> QED  BY <1>2, <3>1, <3>2, VectorSupplied DEF Made
  <2>3. CASE asked.call = "gc"
    <3> DEFINE v == T
               k == [mem EXCEPT !.new = v]
    <3> HIDE DEF v
    <3>1. SoundMem(k) /\ k.cell = mem.cell /\ k.new = v
      BY <1>2, NewSound
    <3>2. mem' = k
      BY <1>1, <2>3 DEF v
    <3>3. Safe(mem.cell, v) /\ ~(v \in Used(mem.cell))
      BY <1>2, Frees DEF SoundMem, Safe, T, v
    <3> HIDE DEF k
    <3> QED  BY <3>1, <3>2, <3>3 DEF Made, Keeps
  <2> QED  BY <1>2, <2>1, <2>2, <2>3 DEF Wanted
<1> QED  BY <1>1, <1>4, <1>5

-----------------------------------------------------------------------------
\* StorageInv is inductive: one lemma above for each action.
LEMMA StorageInvInit == StorageInit => StorageInv
<1> SUFFICES ASSUME StorageInit
             PROVE  StorageInv
  OBVIOUS
<1> DEFINE C == [x \in {} |-> FreeCell(NIL)]
           s == 0 - 1
           no == FALSE
           f == NIL
<1>1. /\ mem = NoCells /\ regs = [i \in 1 .. Registers |-> NIL]
      /\ asked = NoCall /\ walk = Idle
  BY DEF StorageInit, Fresh
<1>2. DOMAIN C = {} /\ Free(C) = {} /\ Used(C) = {}
  BY DEF Free, Used
<1>3. First(Free(C)) = NIL /\ Cardinality(Free(C)) = 0
  BY <1>2, FS_EmptySet DEF First
<1>4. SoundCells(C)
  BY <1>2 DEF SoundCells, Listed
<1>5. mem = Mem(C, f, 0, s, SegSize, no, f)
  BY <1>1 DEF NoCells, Mem
<1> HIDE DEF C, no, f
<1>6. Bounded(C, s)
  BY <1>2 DEF Bounded
<1> HIDE DEF s
<1>7. SoundMem(mem) /\ mem.cell = C /\ mem.new = f
  BY <1>3, <1>4, <1>5, <1>6, SoundMemIs DEF f
<1>8. Safe(C, NIL) /\ NIL \in Int
  BY DEF Safe, NIL
<1>9. asked.call = "none"
  BY <1>1, CallFields
<1>10. walk.at = "idle"
  BY <1>1, IdleAt
<1>11. regs \in [1 .. Registers -> Int] /\ \A i \in 1 .. Registers : regs[i] = NIL
  BY <1>1, <1>8
<1> QED  BY <1>7, <1>8, <1>9, <1>10, <1>11 DEF StorageInv, f

LEMMA StorageInvStep == StorageInv /\ [StorageNext]_storagevars => StorageInv'
<1> SUFFICES ASSUME StorageInv, [StorageNext]_storagevars
             PROVE  StorageInv'
  OBVIOUS
<1>1. CASE NewSegment
  <2>1. asked.call = "none"
    BY <1>1 DEF NewSegment, AtWork
  <2>2. walk.at = "idle"
    BY <2>1 DEF StorageInv, Wanted
  <2> QED  BY <1>1, <2>1, <2>2, NewSegmentMade, MadeSound
<1>2. CASE Program
  <2>1. asked.call = "none" /\ asked' = asked /\ walk' = walk
    BY <1>2 DEF Program, Works, AtWork
  <2>2. walk.at = "idle" /\ Safe(mem.cell, mem.new) /\ SoundMem(mem)
    BY <2>1 DEF StorageInv, Wanted
  <2>3. CASE Load
    <3>1. PICK i \in 1 .. Registers, q \in Held : regs' = [regs EXCEPT ![i] = q] /\ mem' = mem
      BY <2>3 DEF Load
    <3>2. Safe(mem.cell, q) /\ q \in Int
      BY HeldSafe DEF Safe
    <3>3. regs' \in [1 .. Registers -> Int] /\ \A j \in 1 .. Registers : Safe(mem.cell, regs'[j])
      BY <3>1, <3>2 DEF StorageInv
    <3> QED  BY <2>1, <2>2, <3>1, <3>3 DEF StorageInv
  <2>4. CASE WritesCell
    BY <2>1, <2>2, <2>4, WritesSound, AtRest
  <2>5. ASSUME NEW c \in Contents, TakeCell(c)
        PROVE  StorageInv'
    BY <2>1, <2>2, <2>5, TakeCellMade, MadeSound
  <2>6. ASSUME NEW n \in Lengths, TakeVector(n)
        PROVE  StorageInv'
    BY <2>1, <2>2, <2>6, TakeVectorMade, MadeSound
  <2> QED  BY <1>2, <2>3, <2>4, <2>5, <2>6 DEF Program
<1>3. CASE AskCell
  BY <1>3, AskCellSound
<1>4. CASE AskVector
  BY <1>4, AskVectorSound
<1>5. CASE AskGc
  BY <1>5, AskGcSound
<1>6. CASE Collect
  BY <1>6, CollectSound
<1>7. CASE SweepUp
  BY <1>7, SweepUpSound
<1>8. CASE Answer
  BY <1>8, AnswerMade, MadeSound
<1>9. CASE UNCHANGED storagevars
  BY <1>9 DEF storagevars, StorageInv, Wanted, Collecting, Root
<1> QED  BY <1>1, <1>2, <1>3, <1>4, <1>5, <1>6, <1>7, <1>8, <1>9 DEF StorageNext

\* struct scheme stays sound, and every call that waits for gc finds again what it
\* is to make, whatever the program does between and in the calls (get_cell, gc).
THEOREM StorageIsSound == Storage => []StorageInv
BY StorageInvInit, StorageInvStep, PTL DEF Storage

\* Nothing that the program can reach is on the free list, which is in the order of
\* addresses, whatever the program does, and fcells counts what is on it, also when a
\* run was forgotten (_get_cell, find_consecutive_cells, get_consecutive_cells, gc).
THEOREM MemoryStaysSound == Storage => []MemoryIsSound
<1>1. StorageInv => MemoryIsSound
  <2> SUFFICES ASSUME StorageInv
               PROVE  MemoryIsSound
    OBVIOUS
  <2>1. /\ SoundCells(mem.cell) /\ mem.free_cell = First(Free(mem.cell))
        /\ mem.fcells = Cardinality(Free(mem.cell))
    BY DEF StorageInv, SoundMem
  <2>2. WellFormed(Rooted) /\ Reach(Rooted) \cap Free(mem.cell) = {}
    BY <2>1, RootedSound, Frees
  <2>3. \A x \in Free(mem.cell) : mem.cell[x].cdr = First({y \in Free(mem.cell) : y > x})
    BY <2>1, Frees
  <2> QED  BY <2>1, <2>2, <2>3 DEF MemoryIsSound
<1> QED  BY <1>1, StorageIsSound, PTL

\* mark and the sweep leave every cell that can be reached as it was and take all the
\* others, in every memory that a program can make (mark, gc).
THEOREM CollectionCorrect == Storage => []CollectionIsExact
<1>1. StorageInv => CollectionIsExact
  <2>1. ASSUME StorageInv, walk.at = "swept"
        PROVE  Exact(heap, mem.cell)
    BY <2>1, MarksAt DEF StorageInv, Collecting
  <2> QED  BY <2>1 DEF CollectionIsExact, Exact
<1> QED  BY <1>1, StorageIsSound, PTL

\* A collection or an allocation changes no cell that the program can reach
\* (gc, alloc_cellseg, _get_cell, get_consecutive_cells).
LEMMA MadeOfOthers ==
  ASSUME StorageInv, Made(mem.cell, mem')
  PROVE  \A x \in InUse : /\ x \in DOMAIN mem'.cell /\ mem'.cell[x] = mem.cell[x]
                           /\ mem'.new = x => mem.new = x
<1>1. InUse \subseteq Used(mem.cell) /\ SoundCells(mem'.cell)
  BY RootedSound DEF InUse, Made, SoundMem
<1>2. \A x \in Used(mem.cell) : x \in Used(mem'.cell) /\ mem'.cell[x] = mem.cell[x]
  BY DEF Made, Keeps
<1>3. \A x \in Used(mem.cell) : mem'.new = x => mem.new = x
  BY DEF Made
<1> QED  BY <1>1, <1>2, <1>3, Frees

\* Nor does the sweep, which takes what the roots do not lead to.
LEMMA SweptOthers ==
  ASSUME StorageInv, SweepUp
  PROVE  \A x \in InUse : /\ x \in DOMAIN mem'.cell /\ mem'.cell[x] = mem.cell[x]
                           /\ mem'.new = x => mem.new = x
<1>1. /\ Exact(heap, mem'.cell) /\ mem'.new = mem.new
      /\ heap.cell = mem.cell /\ asked.call # "none"
  BY SweepUpSound
<1> DEFINE r == [cell |-> mem.cell, roots |-> heap.roots]
<1>2. InUse = Reach(r) /\ r.cell = heap.cell /\ r.roots = heap.roots
  BY <1>1, RootedSound DEF InUse
<1> HIDE DEF r
<1>3. Reach(r) = Reach(heap)
  BY <1>2 DEF Reach, Holds
<1>4. Reach(heap) \subseteq DOMAIN heap.cell
  BY DEF Reach
<1> QED  BY <1>1, <1>2, <1>3, <1>4 DEF Exact

\* No cell that the program can reach changes but by its own writing, and none
\* that it has is given out to it again (get_cell, get_consecutive_cells, gc).
THEOREM OthersDoNotWrite == Storage => OnlyTheProgramWrites
<1> DEFINE Keeping == \A x \in InUse : /\ x \in DOMAIN mem'.cell /\ mem'.cell[x] = mem.cell[x]
                                        /\ mem'.new = x => mem.new = x
<1>1. StorageInv /\ [StorageNext]_storagevars =>
        [mem' # mem => Keeping \/ WritesCell]_storagevars
  <2> SUFFICES ASSUME StorageInv, StorageNext, mem' # mem
               PROVE  Keeping \/ WritesCell
    BY DEF storagevars
  <2>1. CASE NewSegment
    BY <2>1, NewSegmentMade, MadeOfOthers
  <2>2. CASE Program
    <3>1. asked.call = "none"
      BY <2>2 DEF Program, Works, AtWork
    <3>2. CASE Load
      BY <3>2 DEF Load
    <3>3. ASSUME NEW c \in Contents, TakeCell(c)
          PROVE  Keeping
      BY <3>1, <3>3, TakeCellMade, MadeOfOthers
    <3>4. ASSUME NEW n \in Lengths, TakeVector(n)
          PROVE  Keeping
      BY <3>1, <3>4, TakeVectorMade, MadeOfOthers
    <3> HIDE DEF Keeping
    <3> QED  BY <2>2, <3>2, <3>3, <3>4 DEF Program
  <2>3. CASE AskCell \/ AskVector \/ AskGc
    BY <2>3 DEF AskCell, AskVector, AskGc, Asks
  <2>4. CASE Collect
    BY <2>4, CollectSound
  <2>5. CASE SweepUp
    BY <2>5, SweptOthers
  <2>6. CASE Answer
    BY <2>6, AnswerMade, MadeOfOthers
  <2> HIDE DEF Keeping
  <2> QED  BY <2>1, <2>2, <2>3, <2>4, <2>5, <2>6 DEF StorageNext
<1> QED  BY <1>1, StorageIsSound, PTL DEF Storage, OnlyTheProgramWrites
=============================================================================
