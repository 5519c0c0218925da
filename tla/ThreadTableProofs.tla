------------------------- MODULE ThreadTableProofs -------------------------
(***************************************************************************)
(* Proofs about the root task manager, for any numbers of threads, slots   *)
(* and address spaces.  Table ties the two bitmaps, the list and the       *)
(* spaces together and is inductive as a whole: thread_destroy needs       *)
(* NumbersExact to free the right number, and SlotsExact to free the right *)
(* slot.                                                                   *)
(***************************************************************************)
EXTENDS ThreadTable, TLAPS

Table == ThreadsTypeOK /\ NumbersExact /\ SlotsExact /\ SpaceStandsForThreads

\* thread_init establishes it.
LEMMA InitTable == ThreadsInit => Table
<1> SUFFICES ASSUME ThreadsInit PROVE Table
  OBVIOUS
<1>1. 0 .. Occupied \subseteq Number /\ 0 \in Number
  BY NumberAssumption DEF Number
<1>2. ThreadsTypeOK
  BY <1>1 DEF ThreadsInit, ThreadsTypeOK, Slot
<1> QED
  BY <1>2 DEF ThreadsInit, Table, NumbersExact, SlotsExact, SpaceStandsForThreads, Tids, ThreadsOf

\* A number found free is in range, unused, and above the reserved ones.
LEMMA FreeNumber ==
  ASSUME Table, NEW n \in Number, FindFree(tnobitmap, MaxTasks, n), n # 0
  PROVE  n \notin tnobitmap /\ n > Occupied
<1>1. n \notin tnobitmap
  BY DEF FindFree
<1> QED
  BY <1>1, NumberAssumption DEF Table, NumbersExact, Number

\* The tail of thread_new and task_new keeps the numbers exact.
LEMMA AddKeepsNumbers ==
  ASSUME Table, NEW s \in AddrSpaces, NEW n \in Number, FindFree(tnobitmap, MaxTasks, n), n # 0,
         NEW i \in Slot, NEW c \in Instant, AddThread(s, n, i, c)
  PROVE  /\ NumbersExact'
         /\ threads' \subseteq ThreadRecord /\ tnobitmap' \subseteq Number
         /\ clock' \in Nat /\ serial' \in Nat
         /\ \E t : /\ t \notin threads /\ threads' = threads \cup {t}
                   /\ t.tid = n /\ t.space = s /\ t.index = i
                   /\ t.creation = clock' /\ t.born = serial
<1> DEFINE t == [tid |-> n, space |-> s, index |-> i, creation |-> c, born |-> serial]
<1>1. n \notin tnobitmap /\ n > Occupied
  BY FreeNumber
<1>2. threads' = threads \cup {t} /\ tnobitmap' = tnobitmap \cup {n} /\ clock' = c
      /\ serial' = serial + 1
  BY DEF AddThread
<1>3. t \in ThreadRecord
  BY BoundAssumption DEF ThreadRecord, Instant, Table, ThreadsTypeOK
<1>4. t \notin threads
  BY <1>1 DEF Table, NumbersExact, Tids
<1>5. \A u \in threads : u.tid # n
  BY <1>1 DEF Table, NumbersExact, Tids
<1>6. NumbersExact'
  <2>1. Tids' = Tids \cup {n}
    <3>1. t.tid = n
      OBVIOUS
    <3> HIDE DEF t
    <3> QED
      BY <1>2, <3>1 DEF Tids
  <2>2. tnobitmap' = (0 .. Occupied) \cup Tids'
    BY <1>2, <2>1 DEF Table, NumbersExact
  <2>3. \A u \in threads' : u.tid > Occupied
    BY <1>1, <1>2 DEF Table, NumbersExact
  <2>4. \A u, v \in threads' : u.tid = v.tid => u = v
    BY <1>2, <1>5 DEF Table, NumbersExact
  <2> QED
    BY <2>2, <2>3, <2>4 DEF NumbersExact
<1> QED
  BY <1>2, <1>3, <1>4, <1>6, BoundAssumption DEF Table, ThreadsTypeOK, Instant

\* task_new keeps the table.
LEMMA TaskNewKeeps ==
  ASSUME Table, NEW s \in AddrSpaces, TaskNew(s), launched' \in Nat, caps' \subseteq Capability
  PROVE  Table'
<1>1. PICK n \in Number, c \in Instant, set \in SUBSET Number :
        /\ FindFree(tnobitmap, MaxTasks, n) /\ n # 0
        /\ AddThread(s, n, 0, c)
        /\ addrspaces' = addrspaces \cup {s}
        /\ head' = [head EXCEPT ![s] = n]
        /\ slots' = [slots EXCEPT ![s] = {0}]
        /\ running' = running \cup set
  BY DEF TaskNew
<1>2. 0 \in Slot
  BY NumberAssumption DEF Slot
<1>3. /\ NumbersExact'
      /\ threads' \subseteq ThreadRecord /\ tnobitmap' \subseteq Number
      /\ clock' \in Nat /\ serial' \in Nat
  BY <1>1, <1>2, AddKeepsNumbers
<1>4. PICK t : /\ threads' = threads \cup {t} /\ t.tid = n /\ t.space = s /\ t.index = 0
  BY <1>1, <1>2, AddKeepsNumbers
<1>5. s \notin addrspaces /\ \A u \in threads : u.space # s
  BY DEF TaskNew, Table, SpaceStandsForThreads
<1>6. ThreadsTypeOK'
  BY <1>1, <1>2, <1>3 DEF Table, ThreadsTypeOK
<1>7. SlotsExact'
  <2>1. \A z \in addrspaces' : slots'[z] = {u.index : u \in {v \in threads' : v.space = z}}
    <3> SUFFICES ASSUME NEW z \in addrspaces'
                 PROVE  slots'[z] = {u.index : u \in {v \in threads' : v.space = z}}
      OBVIOUS
    <3>1. CASE z = s
      BY <1>1, <1>4, <1>5, <3>1 DEF Table, ThreadsTypeOK
    <3>2. CASE z # s
      <4>1. {v \in threads' : v.space = z} = {v \in threads : v.space = z}
        BY <1>4, <3>2
      <4>2. slots'[z] = slots[z] /\ z \in addrspaces
        BY <1>1, <3>2 DEF Table, ThreadsTypeOK
      <4> QED
        BY <4>1, <4>2 DEF Table, SlotsExact, ThreadsOf
    <3> QED
      BY <3>1, <3>2
  <2>2. \A u, v \in threads' : u.space = v.space /\ u.index = v.index => u = v
    BY <1>4, <1>5 DEF Table, SlotsExact
  <2> QED
    BY <2>1, <2>2 DEF SlotsExact, ThreadsOf
<1>8. SpaceStandsForThreads'
  <2>1. \A u \in threads' : u.space \in addrspaces'
    BY <1>1, <1>4 DEF Table, SpaceStandsForThreads
  <2>2. \A z \in addrspaces' : \E u \in threads' : u.space = z /\ u.tid = head'[z]
    BY <1>1, <1>4, <1>5 DEF Table, ThreadsTypeOK, SpaceStandsForThreads, ThreadsOf
  <2> QED
    BY <2>1, <2>2 DEF SpaceStandsForThreads, ThreadsOf
<1> QED
  BY <1>3, <1>6, <1>7, <1>8 DEF Table

\* thread_new keeps the table, in a space that exists.
LEMMA ThreadNewKeeps ==
  ASSUME Table, NEW s \in addrspaces, ThreadNew(s), launched' \in Nat, caps' \subseteq Capability
  PROVE  Table'
<1>0. s \in AddrSpaces
  BY DEF Table, ThreadsTypeOK
<1>1. PICK n \in Number, i \in Slot, c \in Instant :
        /\ FindFree(tnobitmap, MaxTasks, n) /\ n # 0
        /\ FindFree(slots[s], MaxThreads, i) /\ i # 0
        /\ AddThread(s, n, i, c)
        /\ slots' = [slots EXCEPT ![s] = @ \cup {i}]
        /\ running' = running \cup {n}
        /\ UNCHANGED <<addrspaces, head>>
  BY DEF ThreadNew
<1>2. i \notin slots[s]
  BY <1>1 DEF FindFree
<1>3. /\ NumbersExact'
      /\ threads' \subseteq ThreadRecord /\ tnobitmap' \subseteq Number
      /\ clock' \in Nat /\ serial' \in Nat
  BY <1>0, <1>1, AddKeepsNumbers
<1>4. PICK t : /\ threads' = threads \cup {t} /\ t.tid = n /\ t.space = s /\ t.index = i
  BY <1>0, <1>1, AddKeepsNumbers
<1>5. \A u \in threads : u.space = s => u.index # i
  BY <1>2 DEF Table, SlotsExact, ThreadsOf
<1>6. ThreadsTypeOK'
  BY <1>0, <1>1, <1>3 DEF Table, ThreadsTypeOK
<1>7. SlotsExact'
  <2>1. \A z \in addrspaces' : slots'[z] = {u.index : u \in {v \in threads' : v.space = z}}
    <3> SUFFICES ASSUME NEW z \in addrspaces'
                 PROVE  slots'[z] = {u.index : u \in {v \in threads' : v.space = z}}
      OBVIOUS
    <3>0. slots[z] = {u.index : u \in {v \in threads : v.space = z}} /\ z \in AddrSpaces
      BY <1>1 DEF Table, SlotsExact, ThreadsOf, ThreadsTypeOK
    <3>1. CASE z = s
      <4>1. slots'[z] = slots[z] \cup {i}
        BY <1>0, <1>1, <3>1 DEF Table, ThreadsTypeOK
      <4>2. {v \in threads' : v.space = z} = {v \in threads : v.space = z} \cup {t}
        BY <1>4, <3>1
      <4> QED
        BY <1>4, <3>0, <4>1, <4>2
    <3>2. CASE z # s
      <4>1. {v \in threads' : v.space = z} = {v \in threads : v.space = z}
        BY <1>4, <3>2
      <4>2. slots'[z] = slots[z]
        BY <1>1, <3>0, <3>2 DEF Table, ThreadsTypeOK
      <4> QED
        BY <3>0, <4>1, <4>2
    <3> QED
      BY <3>1, <3>2
  <2>2. \A u, v \in threads' : u.space = v.space /\ u.index = v.index => u = v
    BY <1>4, <1>5 DEF Table, SlotsExact
  <2> QED
    BY <2>1, <2>2 DEF SlotsExact, ThreadsOf
<1>8. SpaceStandsForThreads'
  BY <1>1, <1>4 DEF Table, SpaceStandsForThreads, ThreadsOf
<1> QED
  BY <1>3, <1>6, <1>7, <1>8 DEF Table

\* thread_destroy keeps the table: its number and slot were the thread's alone.
LEMMA ThreadDestroyKeeps ==
  ASSUME Table, NEW t \in threads, ThreadDestroy(t),
         caps' \subseteq Capability, UNCHANGED <<launched, clock, serial>>
  PROVE  Table'
<1> DEFINE s == t.space
<1>1. /\ threads' = threads \ {t}
      /\ tnobitmap' = tnobitmap \ {t.tid}
      /\ running' = running \ {t.tid}
      /\ slots' = [slots EXCEPT ![s] = @ \ {t.index}]
  BY DEF ThreadDestroy
<1>2. t.tid \in Number /\ s \in AddrSpaces /\ s \in addrspaces
  BY DEF Table, ThreadsTypeOK, ThreadRecord, SpaceStandsForThreads
<1>3. \/ t.tid # head[s] /\ UNCHANGED <<addrspaces, head>>
      \/ ThreadsOf(s) \ {t} = {} /\ addrspaces' = addrspaces \ {s} /\ UNCHANGED head
      \/ \E u \in ThreadsOf(s) \ {t} : head' = [head EXCEPT ![s] = u.tid] /\ UNCHANGED addrspaces
  BY DEF ThreadDestroy
<1> HIDE DEF s
<1>4. ThreadsTypeOK'
  <2>1. head' \in [AddrSpaces -> Number]
    BY <1>2, <1>3 DEF Table, ThreadsTypeOK, ThreadsOf, ThreadRecord
  <2>2. addrspaces' \subseteq AddrSpaces
    BY <1>3 DEF Table, ThreadsTypeOK
  <2>3. slots' \in [AddrSpaces -> SUBSET Slot]
    BY <1>1 DEF Table, ThreadsTypeOK
  <2>4. threads' \subseteq ThreadRecord /\ tnobitmap' \subseteq Number /\ running' \subseteq Number
    BY <1>1 DEF Table, ThreadsTypeOK
  <2> QED
    BY <2>1, <2>2, <2>3, <2>4 DEF Table, ThreadsTypeOK
<1>5. NumbersExact'
  <2>1. \A u \in threads : u.tid = t.tid => u = t
    BY DEF Table, NumbersExact
  <2>2. Tids' = Tids \ {t.tid}
    BY <1>1, <2>1 DEF Tids
  <2>3. t.tid \notin 0 .. Occupied
    BY <1>2, NumberAssumption DEF Table, NumbersExact, Number
  <2>4. tnobitmap' = (0 .. Occupied) \cup Tids'
    BY <1>1, <2>2, <2>3 DEF Table, NumbersExact
  <2> QED
    BY <1>1, <2>4 DEF Table, NumbersExact
<1>6. SlotsExact'
  <2>1. ASSUME NEW z \in addrspaces'
        PROVE  slots'[z] = {u.index : u \in {v \in threads' : v.space = z}}
    <3>0. slots[z] = {u.index : u \in {v \in threads : v.space = z}} /\ z \in AddrSpaces
      BY <1>3 DEF Table, SlotsExact, ThreadsOf, ThreadsTypeOK
    <3>1. CASE z = s
      <4>1. slots'[z] = slots[z] \ {t.index}
        BY <1>1, <1>2, <3>1 DEF Table, ThreadsTypeOK
      <4>2. \A u \in threads : u.space = s /\ u.index = t.index => u = t
        BY DEF Table, SlotsExact, s
      <4>3. {v \in threads' : v.space = z} = {v \in threads : v.space = z} \ {t}
        BY <1>1, <3>1
      <4> QED
        BY <3>0, <3>1, <4>1, <4>2, <4>3
    <3>2. CASE z # s
      <4>1. {v \in threads' : v.space = z} = {v \in threads : v.space = z}
        BY <1>1, <3>2 DEF s
      <4>2. slots'[z] = slots[z]
        BY <1>1, <3>0, <3>2 DEF Table, ThreadsTypeOK
      <4> QED
        BY <3>0, <4>1, <4>2
    <3> QED
      BY <3>1, <3>2
  <2>2. \A u, v \in threads' : u.space = v.space /\ u.index = v.index => u = v
    BY <1>1 DEF Table, SlotsExact
  <2> QED
    BY <2>1, <2>2 DEF SlotsExact, ThreadsOf
<1>7. SpaceStandsForThreads'
  <2>0. /\ \A u \in threads : u.space \in addrspaces
        /\ \A z \in addrspaces : \E u \in threads : u.space = z /\ u.tid = head[z]
    BY DEF Table, SpaceStandsForThreads, ThreadsOf
  <2>1. CASE t.tid # head[s] /\ UNCHANGED <<addrspaces, head>>
    <3>1. ASSUME NEW z \in addrspaces PROVE \E u \in threads' : u.space = z /\ u.tid = head[z]
      <4>1. PICK u \in threads : u.space = z /\ u.tid = head[z]
        BY <2>0
      <4>2. u # t
        BY <2>1, <4>1 DEF s
      <4> QED
        BY <1>1, <4>1, <4>2
    <3> QED
      BY <1>1, <2>0, <2>1, <3>1 DEF SpaceStandsForThreads, ThreadsOf
  <2>2. CASE ThreadsOf(s) \ {t} = {} /\ addrspaces' = addrspaces \ {s} /\ UNCHANGED head
    <3>1. \A u \in threads' : u.space # s
      BY <1>1, <2>2 DEF ThreadsOf
    <3>2. \A u \in threads' : u.space \in addrspaces'
      BY <1>1, <2>0, <2>2, <3>1
    <3>3. \A z \in addrspaces' : \E u \in threads' : u.space = z /\ u.tid = head'[z]
      BY <1>1, <2>0, <2>2 DEF s
    <3> QED
      BY <3>2, <3>3 DEF SpaceStandsForThreads, ThreadsOf
  <2>3. CASE \E u \in ThreadsOf(s) \ {t} : head' = [head EXCEPT ![s] = u.tid] /\ UNCHANGED addrspaces
    <3>1. PICK u \in threads : /\ u # t /\ u.space = s
                               /\ head' = [head EXCEPT ![s] = u.tid] /\ UNCHANGED addrspaces
      BY <2>3 DEF ThreadsOf
    <3>2. ASSUME NEW z \in addrspaces PROVE \E v \in threads' : v.space = z /\ v.tid = head'[z]
      <4>1. CASE z = s
        BY <1>1, <1>2, <3>1, <4>1 DEF Table, ThreadsTypeOK
      <4>2. CASE z # s
        <5>1. PICK v \in threads : v.space = z /\ v.tid = head[z]
          BY <2>0
        <5>2. v # t /\ head'[z] = head[z]
          BY <3>1, <4>2, <5>1 DEF Table, ThreadsTypeOK, s
        <5> QED
          BY <1>1, <5>1, <5>2
      <4> QED
        BY <4>1, <4>2
    <3>3. \A v \in threads' : v.space \in addrspaces'
      BY <1>1, <2>0, <3>1
    <3> QED
      BY <3>1, <3>2, <3>3 DEF SpaceStandsForThreads, ThreadsOf
  <2> QED
    BY <1>3, <2>1, <2>2, <2>3
<1> QED
  BY <1>4, <1>5, <1>6, <1>7 DEF Table

\* The capability of a listed thread is well formed.
LEMMA CapabilityTyped ==
  ASSUME threads \subseteq ThreadRecord, NEW t \in threads
  PROVE  CapabilityOf(t) \in Capability
BY DEF CapabilityOf, Capability, ThreadRecord

\* Every request keeps the table.
LEMMA NextTable == Table /\ [ThreadsNext]_threadvars => Table'
<1> SUFFICES ASSUME Table, [ThreadsNext]_threadvars PROVE Table'
  OBVIOUS
<1>0. caps \subseteq Capability /\ launched \in Nat /\ threads \subseteq ThreadRecord
  BY DEF Table, ThreadsTypeOK
<1>1. CASE Launch
  <2>1. PICK s \in AddrSpaces : TaskNew(s)
    BY <1>1 DEF Launch
  <2>2. launched' \in Nat /\ caps' \subseteq Capability
    BY <1>0, <1>1 DEF Launch
  <2> QED
    BY <2>1, <2>2, TaskNewKeeps
<1>2. CASE NewTask
  <2>1. PICK s \in AddrSpaces : TaskNew(s)
    BY <1>2 DEF NewTask
  <2>2. launched' \in Nat /\ caps' \subseteq Capability
    BY <1>0, <1>2 DEF NewTask
  <2> QED
    BY <2>1, <2>2, TaskNewKeeps
<1>3. CASE NewThread
  <2>1. PICK t \in threads : ThreadNew(t.space)
    BY <1>3 DEF NewThread
  <2>2. t.space \in addrspaces
    BY DEF Table, SpaceStandsForThreads
  <2>3. threads' \subseteq ThreadRecord
    <3>1. PICK n \in Number, i \in Slot, c \in Instant :
            /\ FindFree(tnobitmap, MaxTasks, n) /\ n # 0
            /\ AddThread(t.space, n, i, c)
      BY <2>1 DEF ThreadNew
    <3> QED
      BY <1>0, <3>1, AddKeepsNumbers DEF ThreadRecord
  <2>4. \A u \in threads' : CapabilityOf(u) \in Capability
    BY <2>3 DEF CapabilityOf, Capability, ThreadRecord
  <2>5. caps' \subseteq Capability /\ launched' \in Nat
    BY <1>0, <1>3, <2>4 DEF NewThread
  <2> QED
    BY <2>1, <2>2, <2>5, ThreadNewKeeps
<1>4. CASE GetMyCapability
  <2>1. caps' \subseteq Capability
    BY <1>0, <1>4, CapabilityTyped DEF GetMyCapability
  <2>2. UNCHANGED <<tnobitmap, threads, addrspaces, head, slots, running, launched, clock, serial>>
    BY <1>4 DEF GetMyCapability
  <2> QED
    BY <2>1, <2>2 DEF Table, ThreadsTypeOK, NumbersExact, SlotsExact, SpaceStandsForThreads,
                      Tids, ThreadsOf
<1>5. CASE DestroyThread
  <2>1. PICK cap \in caps : \E t \in FromCapability(cap) : ThreadDestroy(t)
    BY <1>5 DEF DestroyThread
  <2>2. PICK t \in threads : ThreadDestroy(t)
    BY <2>1 DEF FromCapability
  <2>3. caps' \subseteq Capability /\ UNCHANGED <<launched, clock, serial>>
    BY <1>0, <1>5 DEF DestroyThread
  <2> QED
    BY <2>2, <2>3, ThreadDestroyKeeps
<1>6. CASE UNCHANGED threadvars
  BY <1>6 DEF threadvars, Table, ThreadsTypeOK, NumbersExact, SlotsExact, SpaceStandsForThreads,
              Tids, ThreadsOf
<1> QED
  BY <1>1, <1>2, <1>3, <1>4, <1>5, <1>6 DEF ThreadsNext

LEMMA TableHolds == ThreadsSpec => []Table
<1> QED
  BY InitTable, NextTable, PTL DEF ThreadsSpec

\* The root task manager's state is well formed.
THEOREM TypeCorrect == ThreadsSpec => []ThreadsTypeOK
<1>1. Table => ThreadsTypeOK
  BY DEF Table
<1> QED
  BY <1>1, TableHolds, PTL

\* No thread number is lost or given out twice, whatever clients request.
THEOREM NumbersAreExact == ThreadsSpec => []NumbersExact
<1>1. Table => NumbersExact
  BY DEF Table
<1> QED
  BY <1>1, TableHolds, PTL

\* No thread slot is lost or given to two threads of a space.
THEOREM SlotsAreExact == ThreadsSpec => []SlotsExact
<1>1. Table => SlotsExact
  BY DEF Table
<1> QED
  BY <1>1, TableHolds, PTL

\* A space lives exactly as long as its threads, one of which stands for it.
THEOREM SpaceStands == ThreadsSpec => []SpaceStandsForThreads
<1>1. Table => SpaceStandsForThreads
  BY DEF Table
<1> QED
  BY <1>1, TableHolds, PTL

-----------------------------------------------------------------------------
\* The list knows every thread that the kernel may run.
THEOREM RunningAreListed == ThreadsSpec => []RunningIsListed
<1>1. ThreadsInit => RunningIsListed
  BY DEF ThreadsInit, RunningIsListed
<1>2. Table /\ RunningIsListed /\ [ThreadsNext]_threadvars => RunningIsListed'
  <2> SUFFICES ASSUME Table, RunningIsListed, [ThreadsNext]_threadvars PROVE RunningIsListed'
    OBVIOUS
  <2>1. ASSUME NEW s \in AddrSpaces, TaskNew(s) PROVE RunningIsListed'
    <3>1. PICK n \in Number, c \in Instant :
            /\ FindFree(tnobitmap, MaxTasks, n) /\ n # 0
            /\ AddThread(s, n, 0, c)
            /\ \E set \in {{}, {n}} : running' = running \cup set
      BY <2>1 DEF TaskNew
    <3>2. 0 \in Slot
      BY NumberAssumption DEF Slot
    <3>3. PICK t : threads' = threads \cup {t} /\ t.tid = n
      BY <3>1, <3>2, AddKeepsNumbers
    <3> QED
      BY <3>1, <3>3 DEF RunningIsListed, Tids
  <2>2. ASSUME NEW s \in AddrSpaces, ThreadNew(s) PROVE RunningIsListed'
    <3>1. PICK n \in Number, i \in Slot, c \in Instant :
            /\ FindFree(tnobitmap, MaxTasks, n) /\ n # 0
            /\ AddThread(s, n, i, c) /\ running' = running \cup {n}
      BY <2>2 DEF ThreadNew
    <3>2. PICK t : threads' = threads \cup {t} /\ t.tid = n
      BY <3>1, AddKeepsNumbers
    <3> QED
      BY <3>1, <3>2 DEF RunningIsListed, Tids
  <2>3. ASSUME NEW t \in threads, ThreadDestroy(t) PROVE RunningIsListed'
    BY <2>3 DEF ThreadDestroy, RunningIsListed, Tids
  <2>4. CASE GetMyCapability \/ UNCHANGED threadvars
    BY <2>4 DEF GetMyCapability, threadvars, RunningIsListed, Tids
  <2>5. \A t \in threads : t.space \in AddrSpaces
    BY DEF Table, ThreadsTypeOK, ThreadRecord
  <2> QED
    BY <2>1, <2>2, <2>3, <2>4, <2>5
       DEF ThreadsNext, Launch, NewTask, NewThread, DestroyThread, FromCapability
<1> QED
  BY <1>1, <1>2, InitTable, NextTable, PTL DEF ThreadsSpec

-----------------------------------------------------------------------------
\* When the clock has gone on, a capability names no thread that is created, although
\* the number of a thread that is gone is given out again (thread_from_capability).
THEOREM CapabilitiesGoStale == ThreadsSpec => StaleCapabilitiesNameNoNewThread
<1> DEFINE Stale == \A cap \in caps :
             cap.secret < clock' => FromCapability(cap)' \subseteq FromCapability(cap)
<1>1. Table /\ [ThreadsNext]_threadvars => [Stale]_threadvars
  <2> SUFFICES ASSUME Table, ThreadsNext
               PROVE  Stale
    OBVIOUS
  <2>1. clock' \in Nat /\ \A cap \in caps : cap.secret \in Nat
    BY NextTable DEF Table, ThreadsTypeOK, Capability
  <2>2. ASSUME NEW t, threads' = threads \cup {t}, t.creation = clock'
        PROVE  Stale
    BY <2>1, <2>2 DEF FromCapability
  <2>3. ASSUME threads' \subseteq threads
        PROVE  Stale
    BY <2>3 DEF FromCapability
  <2> HIDE DEF Stale
  <2>4. ASSUME NEW s \in AddrSpaces, TaskNew(s)
        PROVE  Stale
    <3>1. PICK n \in Number, c \in Instant :
            FindFree(tnobitmap, MaxTasks, n) /\ n # 0 /\ AddThread(s, n, 0, c)
      BY <2>4 DEF TaskNew
    <3> DEFINE t == [tid |-> n, space |-> s, index |-> 0, creation |-> c, born |-> serial]
    <3>2. threads' = threads \cup {t} /\ t.creation = clock'
      BY <3>1 DEF AddThread
    <3> HIDE DEF t
    <3> QED
      BY <2>2, <3>2
  <2>5. ASSUME NEW s \in AddrSpaces, ThreadNew(s)
        PROVE  Stale
    <3>1. PICK n \in Number, i \in Slot, c \in Instant :
            FindFree(tnobitmap, MaxTasks, n) /\ n # 0 /\ AddThread(s, n, i, c)
      BY <2>5 DEF ThreadNew
    <3> DEFINE t == [tid |-> n, space |-> s, index |-> i, creation |-> c, born |-> serial]
    <3>2. threads' = threads \cup {t} /\ t.creation = clock'
      BY <3>1 DEF AddThread
    <3> HIDE DEF t
    <3> QED
      BY <2>2, <3>2
  <2>6. CASE Launch \/ NewTask
    BY <2>4, <2>6 DEF Launch, NewTask
  <2>7. CASE NewThread
    BY <2>5, <2>7 DEF NewThread, Table, ThreadsTypeOK, ThreadRecord
  <2>8. CASE GetMyCapability \/ DestroyThread
    <3>1. threads' \subseteq threads
      BY <2>8 DEF GetMyCapability, DestroyThread, ThreadDestroy
    <3> QED
      BY <2>3, <3>1
  <2> QED
    BY <2>6, <2>7, <2>8 DEF ThreadsNext
<1> QED
  BY <1>1, InitTable, NextTable, PTL DEF ThreadsSpec, StaleCapabilitiesNameNoNewThread
=============================================================================
