-------------------------- MODULE IdeServerProofs --------------------------
(***************************************************************************)
(* Proofs about the disk server and the driver it calls, for any sizes,    *)
(* disk, cable and requests, and for any behaviour of the devices.         *)
(***************************************************************************)
EXTENDS IdeServer, Sequences, TLAPS

Places ==
  {"probe", "reset0", "reset1", "classify", "ask", "answer", "gone", "idle",
   "select1", "select2", "command", "wait", "data", "last", "done", "failed"}
Starting == {"probe", "reset0", "reset1", "classify", "ask", "answer"}
\* A call of Read is being served and has not failed.
Asked == {"select1", "select2", "command", "wait", "data", "last", "done"}

Longs == 0 - ClockMax - 1 .. ClockMax
Words == Int \cup {Zero}
DeviceStates ==
  [kind : Kinds, bsy : BOOLEAN, drq : BOOLEAN, err : BOOLEAN, sig : BOOLEAN,
   op : {"none", "reset", "identify", "read"}, lba : Nat, left : Nat]
Replies ==
  [kind : {"none", "refused"}, value : {<<>>}] \cup [kind : {"size"}, value : Nat]
    \cup [kind : {"data"}, value : Seq(Words)]

TypeOK ==
  /\ device \in [Units -> DeviceStates] /\ selected \in Units
  /\ pc \in Places
  /\ config \in [Units -> Kinds \cup {"unknown"}]
  /\ ec \in Nat
  /\ clock \in Longs /\ start \in Longs /\ waited \in 0 .. TimeOut
  /\ unit \in 0 .. 2 /\ known \subseteq Units
  /\ pc = "answer" => unit \in Units
  /\ sector \in Nat /\ numSect \in Int /\ slot \in Nat
  /\ cache \in [0 .. CacheWords - 1 -> Words]
  /\ dev_size \in Nat
  /\ request \in Requests \cup {NoCall}
  /\ reply \in Replies

\* The sectors read and those to come are those of the call.
Counted ==
  /\ pc \in Asked =>
       /\ request \in Requests /\ request.size < MaxOutput
       /\ slot + numSect = NSects(request)
  /\ pc \in {"select1", "select2", "command"} => slot = 0 /\ sector = FirstSect(request)
  /\ pc \in {"last", "done"} => numSect < 1

\* The first words of the buffer, up to those of n sectors, are those asked for.
Holds(r, n) ==
  \A k \in 0 .. CacheWords - 1 :
    k < SectorWords * n /\ k < SectorWords * NSects(r) =>
      cache[k] = SectorWords * FirstSect(r) + k

\* A disk that is busy, or has data, is at the sector that comes next.
Transferring ==
  Recognised =>
    /\ pc = "command" => Ready(0)
    /\ pc = "data" => ~device[0].bsy
    /\ pc \in {"wait", "data"} /\ (device[0].bsy \/ (device[0].drq /\ ~device[0].err)) =>
         device[0].op = "read" /\ device[0].lba = FirstSect(request) + slot
    /\ pc \in {"wait", "data", "last", "done"} => Holds(request, slot)

NoneYet == pc \in Starting => reply.kind # "data"
ErrorIsRemembered == ec # 0 => pc \notin {"data", "last", "done"}
Timed == pc # "idle" => waited = TimeOut \/ clock = LongOf(start + waited)

IInv ==
  /\ TypeOK
  /\ Counted
  /\ Transferring
  /\ NoneYet
  /\ ErrorIsRemembered
  /\ Timed
  /\ AnswersAreOfTheDisk

-----------------------------------------------------------------------------
\* Quotient and remainder, and what they are known by.
LEMMA DivMod ==
  ASSUME NEW a \in Nat, NEW b \in Nat \ {0}
  PROVE  /\ a \div b \in Nat
         /\ a % b \in 0 .. b - 1
         /\ a = b * (a \div b) + (a % b)
OBVIOUS

\* The sizes, and the words of a block.
LEMMA Sizes ==
  /\ SectorWords \in Nat \ {0} /\ CountValues \in Nat \ {0} /\ Capacity \in Nat
  /\ MaxOutput \in Nat /\ OffsetMod \in Nat \ {0}
  /\ CacheWords = MaxOutput + SectorWords /\ CacheWords \in Nat \ {0}
  /\ ClockMax \in Nat /\ TimeOut \in Nat \ {0} /\ TimeOut <= ClockMax
  /\ Requests \subseteq [offset : 0 .. OffsetMod - 1, size : Nat]
  /\ Cables \subseteq [Units -> Kinds]
BY DeviceAssumption, ClockAssumption, ServerAssumption

\* Sectors lie one behind the other.
LEMMA SectorsApart ==
  ASSUME NEW x \in Int, NEW y \in Int, x <= y
  PROVE  /\ SectorWords * x <= SectorWords * y
         /\ x < y => SectorWords * x + SectorWords <= SectorWords * y
<1>1. PICK d \in Nat : y = x + d /\ (x < y => d >= 1)
  <2>1. y - x \in Nat /\ y = x + (y - x)
    OBVIOUS
  <2> QED
    BY <2>1
<1>2. SectorWords * y = SectorWords * x + SectorWords * d
  BY <1>1, Sizes
<1>3. SectorWords * d >= 0 /\ (d >= 1 => SectorWords * d >= SectorWords)
  <2>1. CASE d = 0
    BY <2>1, Sizes
  <2>2. CASE d # 0
    <3>1. d - 1 \in Nat /\ SectorWords * d = SectorWords * (d - 1) + SectorWords
      BY <2>2, Sizes
    <3>2. SectorWords * (d - 1) \in Nat
      BY <3>1, Sizes
    <3> QED
      BY <3>1, <3>2, Sizes
  <2> QED
    BY <2>1, <2>2
<1>4. SectorWords * x \in Int /\ SectorWords * d \in Int
  BY Sizes
<1> QED
  BY <1>1, <1>2, <1>3, <1>4, Sizes

\* The clock stays a long.
LEMMA LongIsLong ==
  ASSUME NEW x \in Int
  PROVE  LongOf(x) \in Longs
<1> DEFINE m == 2 * ClockMax + 2
<1>1. m \in Nat \ {0} /\ x + ClockMax + 1 \in Int
  BY Sizes
<1>2. (x + ClockMax + 1) % m \in 0 .. m - 1
  BY <1>1
<1> QED
  BY <1>1, <1>2, Sizes DEF LongOf, Longs

\* The sectors of a request that is served: its first one is a number, and
\* those it asks for begin in the request, so the buffer has room for them.
LEMMA Sectors ==
  ASSUME NEW r \in Requests
  PROVE  /\ FirstSect(r) \in Nat /\ LastSect(r) \in Nat /\ NSects(r) \in Int
         /\ r.offset \in Nat /\ r.size \in Nat
         /\ r.offset % SectorWords \in 0 .. SectorWords - 1
         /\ r.offset = SectorWords * FirstSect(r) + (r.offset % SectorWords)
         /\ SectorWords * LastSect(r) <= r.offset + r.size
         /\ SectorWords * LastSect(r) = SectorWords * FirstSect(r) + SectorWords * NSects(r)
<1> DEFINE e == (r.offset + r.size) % OffsetMod
<1>1. r.offset \in Nat /\ r.size \in Nat
  BY Sizes
<1>2. e \in Nat /\ e <= r.offset + r.size
  <2> DEFINE sum == r.offset + r.size
  <2>1. sum \in Nat /\ OffsetMod \in Nat \ {0}
    BY <1>1, Sizes
  <2>2. /\ sum \div OffsetMod \in Nat /\ e \in 0 .. OffsetMod - 1
        /\ sum = OffsetMod * (sum \div OffsetMod) + e
    BY <2>1, DivMod
  <2> HIDE DEF sum, e
  <2>3. OffsetMod * (sum \div OffsetMod) \in Nat
    BY <2>1, <2>2
  <2>4. e <= sum
    BY <2>1, <2>2, <2>3
  <2> QED
    BY <2>2, <2>4 DEF sum
<1>3. /\ e \div SectorWords \in Nat /\ e % SectorWords \in 0 .. SectorWords - 1
      /\ e = SectorWords * (e \div SectorWords) + (e % SectorWords)
  BY <1>2, Sizes, DivMod
<1>4. /\ FirstSect(r) \in Nat /\ r.offset % SectorWords \in 0 .. SectorWords - 1
      /\ r.offset = SectorWords * FirstSect(r) + (r.offset % SectorWords)
  BY <1>1, Sizes, DivMod DEF FirstSect
<1>5. LastSect(r) = e \div SectorWords
  BY DEF LastSect
<1>6. SectorWords * LastSect(r) <= r.offset + r.size
  <2>1. SectorWords * LastSect(r) \in Int
    BY <1>3, <1>5, Sizes
  <2> QED
    BY <1>1, <1>2, <1>3, <1>5, <2>1, Sizes
<1>7. NSects(r) = LastSect(r) - FirstSect(r)
  BY DEF NSects
<1> HIDE DEF e
<1>8. \A x, y \in Nat : SectorWords * x = SectorWords * y + SectorWords * (x - y)
  BY Sizes
<1> QED
  BY <1>1, <1>3, <1>4, <1>5, <1>6, <1>7, <1>8

-----------------------------------------------------------------------------
\* A device remains one, whatever it does and is told.
LEMMA DevicesStay ==
  ASSUME NEW dv \in DeviceStates
  PROVE  /\ ResetOf(dv) \in DeviceStates
         /\ Emptied(dv) \in DeviceStates
         /\ \A op \in {"identify", "read"}, lba, count \in Nat :
              CommandTo(dv, op, lba, count) \in DeviceStates
         /\ ResetSteps(dv) \subseteq DeviceStates
         /\ CommandSteps(dv) \subseteq DeviceStates
<1>1. ResetOf(dv) \in DeviceStates
  BY DEF ResetOf, DeviceStates
<1>2. Emptied(dv) \in DeviceStates
  <2>1. dv.lba + 1 \in Nat /\ (dv.left > 1 => dv.left - 1 \in Nat)
    BY DEF DeviceStates
  <2> QED
    BY <2>1 DEF Emptied, DeviceStates
<1>3. ASSUME NEW op \in {"identify", "read"}, NEW lba \in Nat, NEW count \in Nat
      PROVE  CommandTo(dv, op, lba, count) \in DeviceStates
  BY Sizes DEF CommandTo, DeviceStates
<1>4. ResetSteps(dv) \subseteq DeviceStates
  BY DEF ResetSteps, DeviceStates
<1>5. DataReady(dv) \in DeviceStates
  BY DEF DataReady, DeviceStates
<1>6. Failed(dv) \subseteq DeviceStates
  <2> SUFFICES ASSUME NEW drq \in BOOLEAN
               PROVE  [dv EXCEPT !.bsy = FALSE, !.err = TRUE, !.drq = drq, !.left = 1,
                                 !.op = IF drq THEN dv.op ELSE "none",
                                 !.lba = IF drq THEN dv.lba ELSE 0] \in DeviceStates
    BY Zenon DEF Failed
  <2> QED
    BY DEF DeviceStates
<1>7. CommandSteps(dv) \subseteq DeviceStates
  BY <1>5, <1>6 DEF CommandSteps
<1> QED
  BY <1>1, <1>2, <1>3, <1>4, <1>7

\* A block of the disk in the buffer keeps it one of words.
LEMMA BlockInStays ==
  ASSUME TypeOK
  PROVE  BlockIn \in [0 .. CacheWords - 1 -> Words]
<1>1. \A i \in Int : WordOf(0, i) \in Int
  <2>1. device[0].lba * SectorWords \in Int
    BY Sizes DEF TypeOK, DeviceStates, Units
  <2> QED
    BY <2>1 DEF WordOf, Foreign
<1>2. slot * SectorWords \in Int
  BY Sizes DEF TypeOK
<1>3. DOMAIN cache = 0 .. CacheWords - 1 /\ \A i \in DOMAIN cache : cache[i] \in Words
  BY DEF TypeOK
<1>4. ASSUME NEW i \in DOMAIN cache PROVE BlockIn[i] \in Words
  <2>1. BlockIn[i] \in {WordOf(0, i - slot * SectorWords), Zero, cache[i]}
    BY <1>4, Zenon DEF BlockIn, pio_rep_inword
  <2>2. i - slot * SectorWords \in Int
    BY <1>2, <1>3, Sizes
  <2> QED
    BY <1>1, <1>3, <2>1, <2>2 DEF Words
<1>5. BlockIn = [i \in 0 .. CacheWords - 1 |-> BlockIn[i]]
  BY <1>3, Zenon DEF BlockIn, pio_rep_inword
<1> QED
  BY <1>3, <1>4, <1>5

\* What is answered lies in the buffer.
LEMMA AnswerInBuffer ==
  ASSUME TypeOK, NEW r \in Requests, r.size < MaxOutput
  PROVE  /\ \A i \in 1 .. r.size : (r.offset % SectorWords) + i - 1 \in 0 .. CacheWords - 1
         /\ Answered(r) \in Seq(Words)
<1>1. \A i \in 1 .. r.size : (r.offset % SectorWords) + i - 1 \in 0 .. CacheWords - 1
  BY Sectors, Sizes
<1>2. Answered(r) \in [1 .. r.size -> Words]
  BY <1>1 DEF Answered, TypeOK
<1>3. r.size \in Nat
  BY Sectors
<1> QED
  BY <1>1, <1>2, <1>3

\* Every variable has its type in the initial states.
LEMMA InitType == Init => TypeOK
<1> SUFFICES ASSUME Init PROVE TypeOK
  OBVIOUS
<1>1. device \in [Units -> DeviceStates]
  BY Sizes DEF Init, AtRest, DeviceStates, Units, Kinds
<1>2. cache \in [0 .. CacheWords - 1 -> Words]
  BY DEF Init, Words
<1> QED
  BY <1>1, <1>2, Sizes
     DEF Init, TypeOK, Units, Places, Kinds, Longs, Replies, None

\* Every step keeps the types.
LEMMA NextType == TypeOK /\ Counted /\ [Next]_vars => TypeOK'
<1> SUFFICES ASSUME TypeOK, Counted, [Next]_vars PROVE TypeOK'
  OBVIOUS
<1> USE DEF TypeOK, Server, bus, driver, timer, transfer, Goto, Fail, Places
<1>1. CASE Probe /\ Server
  <2>1. device' \in [Units -> DeviceStates]
    BY <1>1, DevicesStay DEF Probe
  <2>2. config' \in [Units -> Kinds \cup {"unknown"}]
    BY <1>1 DEF Probe, Kinds
  <2> QED
    BY <1>1, <2>1, <2>2, Sizes DEF Probe, tmr_set_timeout, Units
<1>2. CASE ResetFirst /\ Server
  BY <1>2 DEF ResetFirst
<1>3. CASE ResetSecond /\ Server
  BY <1>3 DEF ResetSecond
<1>4. CASE Classify /\ Server
  <2>1. config' \in [Units -> Kinds \cup {"unknown"}]
    BY <1>4 DEF Classify, DeviceStates
  <2> QED
    BY <1>4, <2>1 DEF Classify, Units
<1>5. CASE Ask /\ Server
  <2>1. unit \in Units
    BY <1>5 DEF Ask, NumDev, Units
  <2>2. device' \in [Units -> DeviceStates]
    BY <1>5, <2>1, DevicesStay DEF Ask
  <2> QED
    BY <1>5, <2>1, <2>2, Sizes DEF Ask, tmr_set_timeout
<1>6. CASE Answer /\ Server
  <2>1. unit \in Units
    BY <1>6 DEF Answer
  <2>2. device' \in [Units -> DeviceStates]
    BY <1>6, <2>1, DevicesStay DEF Answer
  <2>3. unit' \in 0 .. 2
    BY <1>6, <2>1 DEF Answer, Units
  <2>4. known' \subseteq Units
    BY <1>6, <2>1 DEF Answer
  <2> QED
    BY <1>6, <2>2, <2>3, <2>4 DEF Answer
<1>7. CASE SelectFirst /\ Server
  BY <1>7 DEF SelectFirst, Units
<1>8. CASE SelectSecond /\ Server
  BY <1>8 DEF SelectSecond
<1>9. CASE Command /\ Server
  <2>1. numSect % CountValues \in Nat
    BY Sizes
  <2>2. device' \in [Units -> DeviceStates]
    BY <1>9, <2>1, DevicesStay DEF Command, Units
  <2> QED
    BY <1>9, <2>2 DEF Command
<1>10. CASE WaitPoll /\ Server
  BY <1>10 DEF WaitPoll
<1>11. CASE Data /\ Server
  <2>1. device' \in [Units -> DeviceStates]
    BY <1>11, DevicesStay DEF Data, Units
  <2>2. cache' \in [0 .. CacheWords - 1 -> Words]
    BY <1>11, BlockInStays DEF Data
  <2>3. numSect' \in Int /\ slot' \in Nat
    BY <1>11 DEF Data
  <2> QED
    BY <1>11, <2>1, <2>2, <2>3 DEF Data
<1>12. CASE LastStatus /\ Server
  BY <1>12 DEF LastStatus
<1>13. CASE Skip
  <2>1. unit' \in 0 .. 2
    BY <1>13 DEF Skip, NumDev
  <2> QED
    BY <1>13, <2>1 DEF Skip
<1>14. CASE Serve
  BY <1>14, Sizes DEF Serve, Return, Longs
<1>15. CASE GiveUp
  BY <1>15 DEF GiveUp
<1>16. CASE Reply
  <2>1. pc = "done" => request \in Requests /\ request.size < MaxOutput
    BY DEF Counted, Asked
  <2>2. reply' \in Replies
    BY <1>16, <2>1, AnswerInBuffer DEF Reply, Replies, Bytes, Refusal
  <2> QED
    BY <1>16, <2>2, Sizes DEF Reply, Return, Longs
<1>17. ASSUME NEW r \in Requests, NEW allowed \in BOOLEAN, Read(r, allowed) PROVE TypeOK'
  <2>1. CASE ~allowed \/ r.size >= MaxOutput
    BY <1>17, <2>1 DEF Read, Replies, Refusal
  <2>2. CASE ~(~allowed \/ r.size >= MaxOutput)
    <3>1. FirstSect(r) \in Nat /\ NSects(r) \in Int
      BY Sectors
    <3>2. /\ sector' = FirstSect(r) /\ numSect' = NSects(r) /\ slot' = 0
          /\ start' = clock /\ waited' = 0 /\ pc' \in {"select1", "command"}
          /\ selected' \in {selected, 0} /\ request' = r /\ reply' = None
          /\ UNCHANGED <<device, config, ec, clock, unit, known, cache, dev_size>>
      BY <1>17, <2>2 DEF Read, ReadSectors, tmr_set_timeout
    <3>3. reply' \in Replies
      BY <3>2 DEF Replies, None
    <3> QED
      BY <3>1, <3>2, <3>3, Sizes DEF Units
  <2> QED
    BY <2>1, <2>2
<1>18. ASSUME NEW allowed \in BOOLEAN, Size(allowed) PROVE TypeOK'
  BY <1>18 DEF Size, Replies, Told
<1>19. CASE Write
  BY <1>19 DEF Write, Replies, Refusal
<1>20. CASE Device
  <2>1. PICK d \in Units : DeviceStep(d)
    BY <1>20 DEF Device
  <2>2. device' \in [Units -> DeviceStates] /\ selected' = selected
    BY <2>1, DevicesStay DEF DeviceStep
  <2> QED
    BY <1>20, <2>2 DEF Device
<1>21. CASE Tick /\ Server
  <2>1. clock' \in Longs
    BY <1>21, LongIsLong DEF Tick, Longs
  <2> QED
    BY <1>21, <2>1, Sizes DEF Tick
<1>22. CASE UNCHANGED vars
  BY <1>22 DEF vars
<1> QED
  BY <1>1, <1>2, <1>3, <1>4, <1>5, <1>6, <1>7, <1>8, <1>9, <1>10, <1>11, <1>12, <1>13,
     <1>14, <1>15, <1>16, <1>17, <1>18, <1>19, <1>20, <1>21, <1>22
     DEF Next, Working, DriverSteps, Call

-----------------------------------------------------------------------------
StartSteps == Probe \/ ResetFirst \/ ResetSecond \/ Classify \/ Ask \/ Answer

\* What the steps of the start leave alone, and where they lead.
LEMMA StartupLeads ==
  ASSUME (StartSteps /\ Server) \/ Skip \/ Serve \/ GiveUp
  PROVE  /\ pc \in Starting /\ pc' \in Starting \cup {"idle", "gone"}
         /\ UNCHANGED <<request, reply, cache>>
<1> USE DEF Starting, Server, transfer, Goto
<1>1. CASE Probe /\ Server
  BY <1>1 DEF Probe
<1>2. CASE (ResetFirst \/ ResetSecond) /\ Server
  BY <1>2 DEF ResetFirst, ResetSecond
<1>3. CASE Classify /\ Server
  BY <1>3 DEF Classify
<1>4. CASE (Ask \/ Answer) /\ Server
  BY <1>4 DEF Ask, Answer
<1>5. CASE Skip \/ Serve \/ GiveUp
  BY <1>5 DEF Skip, Serve, GiveUp, Return
<1> QED
  BY <1>1, <1>2, <1>3, <1>4, <1>5 DEF StartSteps

\* The sectors are counted, an error is remembered, and there is no answer
\* before the first call.
Rest == Counted /\ NoneYet /\ ErrorIsRemembered

LEMMA NextRest == TypeOK /\ Rest /\ [Next]_vars => Rest'
<1> SUFFICES ASSUME TypeOK, Rest, [Next]_vars PROVE Rest'
  OBVIOUS
<1> USE DEF Rest, Counted, NoneYet, ErrorIsRemembered, Asked, Starting, Server, bus, driver,
            timer, transfer, Goto, Fail
<1>1. CASE (StartSteps /\ Server) \/ Skip \/ Serve \/ GiveUp
  BY <1>1, StartupLeads
<1>2. CASE SelectFirst /\ Server
  BY <1>2 DEF SelectFirst
<1>3. CASE SelectSecond /\ Server
  BY <1>3 DEF SelectSecond
<1>4. CASE Command /\ Server
  BY <1>4 DEF Command
<1>5. CASE WaitPoll /\ Server
  BY <1>5 DEF WaitPoll
<1>6. CASE Data /\ Server
  <2>1. request' = request /\ pc' \in {"failed", "last", "wait"}
    BY <1>6 DEF Data
  <2>2. pc' # "failed" => /\ numSect' = numSect - 1 /\ slot' = slot + 1 /\ ec' = ec
                          /\ pc' = "last" => numSect - 1 < 1
    BY <1>6 DEF Data
  <2>3. slot + numSect = NSects(request) /\ request \in Requests /\ request.size < MaxOutput
        /\ ec = 0
    BY <1>6 DEF Data
  <2>4. slot \in Nat /\ numSect \in Int
    BY DEF TypeOK
  <2>5. pc' \in Asked => slot' + numSect' = NSects(request')
    BY <2>1, <2>2, <2>3, <2>4 DEF NSects, FirstSect, LastSect
  <2> QED
    BY <2>1, <2>2, <2>3, <2>4, <2>5
<1>7. CASE LastStatus /\ Server
  BY <1>7 DEF LastStatus
<1>8. CASE Reply
  BY <1>8 DEF Reply, Return
<1>9. ASSUME NEW r \in Requests, NEW allowed \in BOOLEAN, Read(r, allowed) PROVE Rest'
  <2>1. CASE ~allowed \/ r.size >= MaxOutput
    BY <1>9, <2>1 DEF Read
  <2>2. CASE ~(~allowed \/ r.size >= MaxOutput)
    <3>1. /\ sector' = FirstSect(r) /\ numSect' = NSects(r) /\ slot' = 0
          /\ pc' \in {"select1", "command"} /\ request' = r /\ reply' = None /\ ec' = ec
      BY <1>9, <2>2 DEF Read, ReadSectors
    <3>2. r.size < MaxOutput
      BY <2>2, Sectors, Sizes
    <3>3. slot' + numSect' = NSects(request')
      BY <3>1, Sectors
    <3> QED
      BY <3>1, <3>2, <3>3 DEF None
  <2> QED
    BY <2>1, <2>2
<1>10. ASSUME NEW allowed \in BOOLEAN, Size(allowed) \/ Write PROVE Rest'
  BY <1>10 DEF Size, Write
<1>11. CASE Device
  BY <1>11 DEF Device
<1>12. CASE Tick /\ Server
  BY <1>12 DEF Tick
<1>13. CASE UNCHANGED vars
  BY <1>13 DEF vars
<1> QED
  BY <1>1, <1>2, <1>3, <1>4, <1>5, <1>6, <1>7, <1>8, <1>9, <1>10, <1>11, <1>12, <1>13
     DEF Next, Working, DriverSteps, Call, StartSteps

-----------------------------------------------------------------------------
\* Where the clock goes round.
LEMMA LongOfWraps ==
  ASSUME NEW x \in 0 - ClockMax - 1 .. 3 * ClockMax + 2
  PROVE  LongOf(x) = IF x <= ClockMax THEN x ELSE x - (2 * ClockMax + 2)
<1> DEFINE m == 2 * ClockMax + 2
           y == x + ClockMax + 1
<1>1. m \in Nat \ {0} /\ y \in 0 .. 2 * m - 1
  BY Sizes
<1>2. \A b \in Nat \ {0}, z \in Nat : z < b => z % b = z
  OBVIOUS
<1>3. \A b \in Nat \ {0}, z \in Nat : z >= b /\ z < 2 * b => z % b = z - b
  OBVIOUS
<1>4. LongOf(x) = (y % m) - ClockMax - 1
  BY DEF LongOf
<1>5. y % m = IF y < m THEN y ELSE y - m
  BY <1>1, <1>2, <1>3
<1> QED
  BY <1>4, <1>5, Sizes

\* Until TimeOut ticks are over, waited tells how far the clock is from start.
LEMMA NextTimed == TypeOK /\ Timed /\ [Next]_vars => Timed'
<1> SUFFICES ASSUME TypeOK, Timed, [Next]_vars PROVE Timed'
  OBVIOUS
<1>1. CASE pc # "idle" /\ pc' # "idle" /\ UNCHANGED <<clock, start, waited>>
  BY <1>1 DEF Timed
<1>2. CASE pc' = "idle"
  BY <1>2 DEF Timed
<1>3. CASE start' = clock /\ waited' = 0 /\ clock' = clock
  <2>1. clock \in Longs /\ clock + 0 = clock
    BY Sizes DEF TypeOK, Longs
  <2>2. LongOf(clock) = clock
    BY <2>1, LongOfWraps, Sizes DEF Longs
  <2> QED
    BY <1>3, <2>1, <2>2 DEF Timed
<1>4. CASE Tick /\ pc # "idle" /\ waited < TimeOut
  <2> DEFINE x == start + waited
  <2>1. /\ start \in Longs /\ waited \in Nat /\ waited' = waited + 1 /\ start' = start
        /\ clock' = LongOf(clock + 1)
    BY <1>4 DEF Tick, TypeOK
  <2>2. clock = LongOf(x)
    BY <1>4, <2>1, Sizes DEF Timed
  <2>3. x \in 0 - ClockMax - 1 .. 2 * ClockMax
    BY <1>4, <2>1, Sizes DEF Longs
  <2>4. LongOf(x) = IF x <= ClockMax THEN x ELSE x - (2 * ClockMax + 2)
    BY <2>3, LongOfWraps, Sizes
  <2>5. LongOf(x + 1) = IF x + 1 <= ClockMax THEN x + 1 ELSE x + 1 - (2 * ClockMax + 2)
    BY <2>3, LongOfWraps, Sizes
  <2> DEFINE y == clock + 1
  <2>6. y \in 0 - ClockMax - 1 .. 3 * ClockMax + 2
    BY <2>2, <2>3, <2>4, Sizes
  <2> HIDE DEF y
  <2>7. LongOf(y) = IF y <= ClockMax THEN y ELSE y - (2 * ClockMax + 2)
    BY <2>6, LongOfWraps
  <2>8. LongOf(clock + 1) = LongOf(x + 1)
    BY <2>2, <2>3, <2>4, <2>5, <2>7, Sizes DEF y
  <2>9. start' + waited' = x + 1
    BY <2>1, Sizes DEF Longs
  <2> QED
    BY <2>1, <2>8, <2>9 DEF Timed
<1>5. CASE Tick /\ (pc = "idle" \/ waited = TimeOut)
  BY <1>5, Sizes DEF Tick, Timed
<1>6. CASE (DriverSteps /\ Server) \/ Skip \/ Serve \/ GiveUp \/ Reply
  <2> USE <1>1, <1>2, <1>3 DEF timer, driver, Goto
  <2>1. CASE Probe \/ Ask
    BY <2>1 DEF Probe, Ask, tmr_set_timeout
  <2>2. CASE ResetFirst \/ ResetSecond \/ Classify \/ Answer
    BY <2>2 DEF ResetFirst, ResetSecond, Classify, Answer
  <2>3. CASE SelectFirst \/ SelectSecond \/ Command \/ WaitPoll \/ LastStatus
    BY <2>3 DEF SelectFirst, SelectSecond, Command, WaitPoll, LastStatus
  <2>4. CASE Data
    BY <2>4 DEF Data
  <2>5. CASE Skip \/ Serve \/ GiveUp \/ Reply
    BY <2>5 DEF Skip, Serve, GiveUp, Reply, Return
  <2> QED
    BY <1>6, <2>1, <2>2, <2>3, <2>4, <2>5 DEF DriverSteps
<1>7. CASE Call
  BY <1>2, <1>3, <1>7 DEF Call, Read, ReadSectors, tmr_set_timeout, Size, Write, driver
<1>8. CASE Device
  BY <1>1, <1>2, <1>8 DEF Device, driver, timer, Timed
<1>9. CASE UNCHANGED vars
  BY <1>9 DEF vars, driver, timer, Timed
<1>10. waited < TimeOut \/ waited = TimeOut
  BY Sizes DEF TypeOK
<1> QED
  BY <1>4, <1>5, <1>6, <1>7, <1>8, <1>9, <1>10 DEF Next, Working

-----------------------------------------------------------------------------
\* A word of the block that was read stands where it is asked for, and what
\* stood before the block stays.
LEMMA BlockStands ==
  ASSUME TypeOK, request \in Requests, NEW k \in 0 .. CacheWords - 1,
         device[0].op = "read", ~device[0].err,
         device[0].lba = FirstSect(request) + slot
  PROVE  /\ k < SectorWords * slot => BlockIn[k] = cache[k]
         /\ SectorWords * slot <= k /\ k < SectorWords * slot + SectorWords =>
              BlockIn[k] = SectorWords * FirstSect(request) + k
<1> DEFINE at == slot * SectorWords
<1>1. at = SectorWords * slot /\ at \in Nat
  BY Sizes DEF TypeOK
<1>2. k \in DOMAIN cache /\ k \in Nat
  BY Sizes DEF TypeOK
<1>3. BlockIn[k] = IF k \in at .. at + SectorWords - 1 THEN WordOf(0, k - at)
                   ELSE IF k = at + SectorWords THEN Zero ELSE cache[k]
  BY <1>2, Zenon DEF BlockIn, pio_rep_inword
<1>4. WordOf(0, k - at) = SectorWords * FirstSect(request) + k
  <2>1. WordOf(0, k - at) = (FirstSect(request) + slot) * SectorWords + (k - at)
    BY DEF WordOf
  <2>2. \A x, y \in Nat : (x + y) * SectorWords = SectorWords * x + SectorWords * y
    BY Sizes
  <2>3. FirstSect(request) \in Nat /\ slot \in Nat
    BY Sectors DEF TypeOK
  <2>4. (FirstSect(request) + slot) * SectorWords = SectorWords * FirstSect(request) + at
    BY <1>1, <2>2, <2>3
  <2>5. SectorWords * FirstSect(request) \in Int
    BY <2>3, Sizes
  <2> HIDE DEF at
  <2> QED
    BY <1>1, <1>2, <2>1, <2>4, <2>5
<1> HIDE DEF at
<1> QED
  BY <1>1, <1>2, <1>3, <1>4, Sizes

\* With a block without error, one more sector of those asked for is there.
LEMMA DataHolds ==
  ASSUME TypeOK, Counted, Transferring, Recognised, Data, request' = request,
         device[0].drq, ~device[0].err
  PROVE  Holds(request, slot)'
<1>1. /\ pc = "data" /\ slot' = slot + 1 /\ slot \in Nat /\ numSect \in Int
      /\ slot + numSect = NSects(request) /\ request \in Requests
  BY DEF Data, TypeOK, Counted, Asked
<1>2. /\ device[0].op = "read" /\ device[0].lba = FirstSect(request) + slot
      /\ Holds(request, slot)
  BY <1>1 DEF Transferring
<1>3. SUFFICES ASSUME NEW k \in 0 .. CacheWords - 1,
                      k < SectorWords * (slot + 1), k < SectorWords * NSects(request)
               PROVE  cache'[k] = SectorWords * FirstSect(request) + k
  BY <1>1 DEF Holds, NSects, FirstSect, LastSect
<1>4. SectorWords * (slot + 1) = SectorWords * slot + SectorWords /\ SectorWords * slot \in Int
  BY <1>1, Sizes
<1>5. CASE numSect >= 1
  <2>1. cache' = BlockIn
    BY <1>5 DEF Data
  <2>2. k < SectorWords * slot => cache[k] = SectorWords * FirstSect(request) + k
    BY <1>2, <1>3 DEF Holds
  <2>3. k \in Int
    BY Sizes
  <2> QED
    BY <1>1, <1>2, <1>3, <1>4, <2>1, <2>2, <2>3, BlockStands
<1>6. CASE ~(numSect >= 1)
  <2>1. cache' = cache
    BY <1>6 DEF Data
  <2>2. SectorWords * NSects(request) <= SectorWords * slot
    <3>1. NSects(request) \in Int /\ NSects(request) <= slot
      BY <1>1, <1>6, Sectors
    <3> QED
      BY <1>1, <3>1, SectorsApart
  <2>3. SectorWords * NSects(request) \in Int /\ k \in Int
    BY <1>1, Sectors, Sizes
  <2> QED
    BY <1>2, <1>3, <1>4, <2>1, <2>2, <2>3 DEF Holds
<1> QED
  BY <1>5, <1>6

\* A device that steps was busy; one that was reading stays at its sector
\* unless it fails.
LEMMA DeviceReads ==
  ASSUME TypeOK, NEW d \in Units, DeviceStep(d)
  PROVE  /\ device[d].bsy
         /\ \A u \in Units : u # d => device'[u] = device[u]
         /\ device[d].op = "read" /\ (device'[d].bsy \/ (device'[d].drq /\ ~device'[d].err)) =>
              device'[d].op = "read" /\ device'[d].lba = device[d].lba
<1>1. PICK dv \in (IF device[d].op = "reset" THEN ResetSteps(device[d])
                   ELSE CommandSteps(device[d])) :
        device' = [device EXCEPT ![d] = dv]
  BY DEF DeviceStep
<1>2. device'[d] = dv /\ \A u \in Units : u # d => device'[u] = device[u]
  BY <1>1 DEF TypeOK
<1>3. device[d] \in DeviceStates
  BY DEF TypeOK
<1>4. ASSUME device[d].op = "read", dv.bsy \/ (dv.drq /\ ~dv.err)
      PROVE  dv.op = "read" /\ dv.lba = device[d].lba
  <2>1. dv \in {DataReady(device[d])} \cup Failed(device[d])
    BY <1>1, <1>4, Zenon DEF CommandSteps
  <2>2. ASSUME dv \in Failed(device[d]) PROVE FALSE
    <3>1. PICK drq \in BOOLEAN :
            dv = [device[d] EXCEPT !.bsy = FALSE, !.err = TRUE, !.drq = drq, !.left = 1,
                                   !.op = IF drq THEN device[d].op ELSE "none",
                                   !.lba = IF drq THEN device[d].lba ELSE 0]
      BY <2>2, Zenon DEF Failed
    <3>2. dv.bsy = FALSE /\ dv.err = TRUE
      BY <1>3, <3>1 DEF DeviceStates
    <3> QED
      BY <1>4, <3>2
  <2> QED
    BY <1>3, <1>4, <2>1, <2>2 DEF DataReady, DeviceStates
<1> QED
  BY <1>2, <1>4 DEF DeviceStep

\* A read command that a ready disk takes puts it at the first sector.
LEMMA CommandReads ==
  ASSUME TypeOK, Counted, Transferring, Recognised, Command
  PROVE  device'[0].bsy \/ (device'[0].drq /\ ~device'[0].err) =>
           device'[0].op = "read" /\ device'[0].lba = FirstSect(request) + slot
<1>1. Ready(0) /\ slot = 0 /\ sector = FirstSect(request) /\ request \in Requests
  BY DEF Command, Transferring, Counted, Asked
<1>2. device[0] \in DeviceStates
  BY DEF TypeOK, Units
<1>3. device'[0] = CommandTo(device[0], "read", sector, numSect % CountValues)
  BY DEF Command, TypeOK, Units
<1>4. FirstSect(request) + slot = sector
  BY <1>1, Sectors
<1>5. CASE device[0].kind = "none"
  BY <1>1, <1>3, <1>5 DEF CommandTo, Ready
<1>6. CASE device[0].kind # "none"
  <2>1. ~device[0].bsy
    BY <1>1 DEF Ready
  <2>2. device'[0].op = "read" /\ device'[0].lba = sector
    BY <1>2, <1>3, <1>6, <2>1 DEF CommandTo, DeviceStates
  <2> QED
    BY <1>4, <2>2
<1> QED
  BY <1>5, <1>6

\* With a block without error, the disk goes on to the next sector or is done.
LEMMA DataReads ==
  ASSUME TypeOK, Counted, Transferring, Recognised, Data, device[0].drq, ~device[0].err,
         numSect >= 1
  PROVE  device'[0].bsy \/ device'[0].drq =>
           device'[0].op = "read" /\ device'[0].lba = FirstSect(request) + slot + 1
<1>1. /\ device[0].op = "read" /\ device[0].lba = FirstSect(request) + slot
      /\ ~device[0].bsy
  BY DEF Data, Transferring
<1>2. device[0] \in DeviceStates /\ device'[0] = Emptied(device[0])
  BY DEF Data, TypeOK, Units
<1>3. CASE device[0].left > 1
  <2>1. device'[0].op = "read" /\ device'[0].lba = device[0].lba + 1
    BY <1>1, <1>2, <1>3 DEF Emptied, DeviceStates
  <2> QED
    BY <1>1, <2>1
<1>4. CASE ~(device[0].left > 1)
  BY <1>1, <1>2, <1>4 DEF Emptied, DeviceStates
<1> QED
  BY <1>3, <1>4

\* Every step leaves a transfer with the sectors of its call (exec_pio_data_in_cmd).
LEMMA NextTransferring ==
  TypeOK /\ Counted /\ Transferring /\ [Next]_vars => Transferring'
<1> SUFFICES ASSUME TypeOK, Counted, Transferring, [Next]_vars, Recognised' PROVE Transferring'
  BY DEF Transferring
<1> USE DEF Server, bus, driver, timer, transfer, Goto, Fail
<1>1. CASE pc' \notin {"command", "wait", "data", "last", "done"}
  BY <1>1 DEF Transferring
<1>2. CASE (StartSteps /\ Server) \/ Skip \/ Serve \/ GiveUp
  BY <1>1, <1>2, StartupLeads DEF Starting
<1>3. CASE SelectFirst /\ Server
  BY <1>1, <1>3 DEF SelectFirst
<1>4. CASE SelectSecond /\ Server
  <2>1. pc' \in {"command", "failed"} /\ device' = device /\ (pc' = "command" => Ready(0))
    BY <1>4 DEF SelectSecond
  <2> QED
    BY <1>1, <2>1 DEF Transferring, Ready
<1>5. CASE Command /\ Server
  <2>1. pc' = "wait" /\ Recognised /\ UNCHANGED <<slot, cache, request>>
    BY <1>5 DEF Command, Recognised
  <2>2. slot = 0
    BY <1>5 DEF Command, Counted
  <2>3. Holds(request, slot)'
    BY <2>1, <2>2, Sizes DEF Holds
  <2> QED
    BY <1>5, <2>1, <2>3, CommandReads DEF Transferring, FirstSect
<1>6. CASE WaitPoll /\ Server
  <2>1. Recognised /\ pc = "wait" /\ pc' \in {"data", "failed"} /\ (pc' = "data" => ~device[0].bsy)
    BY <1>6 DEF WaitPoll, Recognised
  <2>2. UNCHANGED <<device, slot, cache, request>>
    BY <1>6 DEF WaitPoll
  <2>3. Holds(request, slot)' <=> Holds(request, slot)
    BY <2>2 DEF Holds, NSects, FirstSect, LastSect
  <2> QED
    BY <1>1, <2>1, <2>2, <2>3 DEF Transferring, FirstSect
<1>7. CASE Data /\ Server
  <2>1. Recognised /\ request' = request
    BY <1>7 DEF Data, Recognised
  <2>2. CASE ~device[0].drq \/ device[0].err
    BY <1>1, <1>7, <2>2 DEF Data
  <2>3. CASE device[0].drq /\ ~device[0].err
    <3>1. Holds(request, slot)'
      BY <1>7, <2>1, <2>3, DataHolds
    <3>2. slot' = slot + 1 /\ pc' = IF numSect - 1 < 1 THEN "last" ELSE "wait"
      BY <1>7, <2>3 DEF Data
    <3>3. CASE pc' = "wait"
      <4>1. numSect >= 1
        BY <3>2, <3>3 DEF TypeOK
      <4>2. FirstSect(request) + slot + 1 = FirstSect(request') + slot'
        BY <1>7, <2>1, <3>2, Sectors DEF Data, Counted, Asked, TypeOK, FirstSect
      <4> QED
        BY <1>7, <2>1, <2>3, <3>1, <3>3, <4>1, <4>2, DataReads DEF Transferring, FirstSect
    <3>4. CASE pc' = "last"
      BY <3>1, <3>4 DEF Transferring
    <3> QED
      BY <3>2, <3>3, <3>4
  <2> QED
    BY <2>2, <2>3
<1>8. CASE LastStatus /\ Server
  <2>1. Recognised /\ pc = "last" /\ pc' \in {"done", "failed"}
    BY <1>8 DEF LastStatus, Recognised
  <2>2. UNCHANGED <<slot, cache, request>>
    BY <1>8 DEF LastStatus
  <2>3. Holds(request, slot)' <=> Holds(request, slot)
    BY <2>2 DEF Holds, NSects, FirstSect, LastSect
  <2> QED
    BY <2>1, <2>3 DEF Transferring
<1>9. CASE Reply
  BY <1>1, <1>9 DEF Reply, Return
<1>10. CASE Call
  <2>1. pc' \in {"idle", "select1", "command"}
    BY <1>10 DEF Call, Read, ReadSectors, Size, Write
  <2>2. pc' # "command"
    BY <1>10 DEF Call, Read, ReadSectors, Size, Write, Recognised
  <2> QED
    BY <1>1, <2>1, <2>2
<1>11. CASE Device
  <2>1. PICK d \in Units : DeviceStep(d)
    BY <1>11 DEF Device
  <2>2. Recognised /\ UNCHANGED <<pc, slot, cache, request>>
    BY <1>11 DEF Device, Recognised
  <2>3. Holds(request, slot)' <=> Holds(request, slot)
    BY <2>2 DEF Holds, NSects, FirstSect, LastSect
  <2>4. CASE d # 0
    <3>1. device'[0] = device[0]
      BY <2>1, <2>4, DeviceReads DEF Units
    <3> QED
      BY <2>2, <2>3, <3>1 DEF Transferring, Ready, FirstSect
  <2>5. CASE d = 0
    <3>1. pc \notin {"command", "data"} /\ device[0].bsy
      BY <2>1, <2>2, <2>5, DeviceReads DEF Transferring, Ready
    <3>2. pc = "wait" => device[0].op = "read" /\ device[0].lba = FirstSect(request) + slot
      BY <2>2, <3>1 DEF Transferring
    <3>3. pc = "wait" /\ (device'[0].bsy \/ (device'[0].drq /\ ~device'[0].err)) =>
            device'[0].op = "read" /\ device'[0].lba = FirstSect(request) + slot
      BY <2>1, <2>5, <3>2, DeviceReads
    <3> QED
      BY <2>2, <2>3, <3>1, <3>3 DEF Transferring, FirstSect
  <2> QED
    BY <2>4, <2>5
<1>12. CASE (Tick /\ Server) \/ UNCHANGED vars
  <2>1. UNCHANGED <<device, config, pc, slot, cache, request>>
    BY <1>12 DEF Tick, vars
  <2>2. Holds(request, slot)' <=> Holds(request, slot)
    BY <2>1 DEF Holds, NSects, FirstSect, LastSect
  <2> QED
    BY <2>1, <2>2 DEF Transferring, Recognised, Ready, FirstSect
<1> QED
  BY <1>2, <1>3, <1>4, <1>5, <1>6, <1>7, <1>8, <1>9, <1>10, <1>11, <1>12
     DEF Next, Working, DriverSteps, StartSteps

-----------------------------------------------------------------------------
\* What an answer has of whole sectors is what the buffer holds at the end.
LEMMA ReplyIsOfTheDisk ==
  ASSUME TypeOK, Counted, Transferring, Recognised, pc = "done",
         NEW i \in 1 .. request.size, Covered(request, i)
  PROVE  Answered(request)[i] = request.offset + i - 1
<1> DEFINE r == request
           a == r.offset % SectorWords
           k == a + i - 1
<1>1. r \in Requests /\ r.size < MaxOutput
  BY DEF Counted, Asked
<1>2. /\ r.offset \in Nat /\ r.size \in Nat /\ a \in 0 .. SectorWords - 1
      /\ FirstSect(r) \in Nat /\ LastSect(r) \in Nat /\ NSects(r) \in Int
      /\ r.offset = SectorWords * FirstSect(r) + a
      /\ SectorWords * LastSect(r) = SectorWords * FirstSect(r) + SectorWords * NSects(r)
  BY <1>1, Sectors
<1>3. r.offset + i - 1 < SectorWords * LastSect(r)
  <2> DEFINE p == r.offset + i - 1
  <2>1. p \in Nat
    BY <1>2
  <2>2. /\ p \div SectorWords \in Nat /\ p % SectorWords \in 0 .. SectorWords - 1
        /\ p = SectorWords * (p \div SectorWords) + (p % SectorWords)
    BY <2>1, Sizes, DivMod
  <2>3. p \div SectorWords < LastSect(r)
    <3> DEFINE q == p \div SectorWords
               e == r.offset + r.size
    <3>1. e < OffsetMod /\ (q + 1) * SectorWords <= e /\ e \in Nat
      BY <1>2 DEF Covered
    <3>2. e % OffsetMod = e /\ LastSect(r) = e \div SectorWords
      BY <3>1, Sizes DEF LastSect
    <3>3. /\ e % SectorWords \in 0 .. SectorWords - 1
          /\ e = SectorWords * LastSect(r) + (e % SectorWords)
      <4>1. /\ e % SectorWords \in 0 .. SectorWords - 1
            /\ e = SectorWords * (e \div SectorWords) + (e % SectorWords)
        <5> HIDE DEF e
        <5> QED
          BY <3>1, Sizes, DivMod
      <4> QED
        BY <3>2, <4>1
    <3> HIDE DEF q, e
    <3>4. q \in Nat /\ e % SectorWords \in Nat
      BY <2>2, <3>3, Sizes DEF q
    <3>5. SUFFICES ASSUME LastSect(r) < q + 1 PROVE FALSE
      BY <1>2, <3>4 DEF q
    <3>6. SectorWords * LastSect(r) + SectorWords <= SectorWords * (q + 1)
      BY <1>2, <3>4, <3>5, SectorsApart
    <3>7. /\ (q + 1) * SectorWords = SectorWords * (q + 1)
          /\ SectorWords * (q + 1) \in Nat /\ SectorWords * LastSect(r) \in Nat
      BY <1>2, <3>4, Sizes
    <3> QED
      BY <3>1, <3>3, <3>4, <3>6, <3>7, Sizes
  <2> HIDE DEF p
  <2>4. SectorWords * (p \div SectorWords) + SectorWords <= SectorWords * LastSect(r)
    BY <1>2, <2>2, <2>3, SectorsApart
  <2> QED
    BY <1>2, <2>1, <2>2, <2>4, Sizes DEF p
<1>4. slot \in Nat /\ slot >= NSects(r)
  BY <1>2 DEF Counted, Asked, TypeOK
<1>5. SectorWords * NSects(r) <= SectorWords * slot
  BY <1>2, <1>4, SectorsApart
<1>6. k \in 0 .. CacheWords - 1
  BY <1>1, AnswerInBuffer
<1>7. Holds(r, slot)
  BY DEF Transferring
<1>8. /\ SectorWords * NSects(r) \in Int /\ SectorWords * slot \in Int
      /\ SectorWords * FirstSect(r) \in Int
  BY <1>2, <1>4, Sizes
<1>9. Answered(r)[i] = cache[k]
  BY <1>2 DEF Answered
<1> HIDE DEF r, a
<1>10. k < SectorWords * NSects(r) /\ k < SectorWords * slot
  BY <1>2, <1>3, <1>5, <1>8
<1>11. cache[k] = SectorWords * FirstSect(r) + k
  BY <1>6, <1>7, <1>10 DEF Holds
<1>12. SectorWords * FirstSect(r) + k = r.offset + i - 1
  BY <1>2, <1>8
<1> QED
  BY <1>9, <1>11, <1>12 DEF r

\* Every step leaves the answers words of the disk (File_Read_implementation).
LEMMA NextAnswers ==
  TypeOK /\ Counted /\ Transferring /\ NoneYet /\ AnswersAreOfTheDisk /\ [Next]_vars
    => AnswersAreOfTheDisk'
<1> SUFFICES ASSUME TypeOK, Counted, Transferring, NoneYet, AnswersAreOfTheDisk, [Next]_vars,
                    reply'.kind = "data", Recognised'
             PROVE  AnswersAreOfTheDisk'
  BY DEF AnswersAreOfTheDisk
<1> USE DEF Server, bus, driver
<1>1. CASE UNCHANGED <<reply, request, config>>
  BY <1>1 DEF AnswersAreOfTheDisk, Covered, LastSect, Recognised
<1>2. CASE (StartSteps /\ Server) \/ Skip \/ Serve \/ GiveUp
  BY <1>2, StartupLeads DEF NoneYet
<1>3. CASE Reply
  <2>1. pc = "done" /\ reply' = Bytes(Answered(request)) /\ UNCHANGED <<request, config>>
    BY <1>3 DEF Reply, Refusal, Return
  <2>2. \A i \in 1 .. request.size :
          Covered(request, i) => Answered(request)[i] = request.offset + i - 1
    BY <2>1, ReplyIsOfTheDisk DEF Recognised
  <2> QED
    BY <2>1, <2>2 DEF AnswersAreOfTheDisk, Bytes, Covered, LastSect
<1>4. CASE Call
  BY <1>4 DEF Call, Read, Size, Write, Refusal, None, Told
<1>5. CASE (DriverSteps /\ Server) /\ ~StartSteps
  BY <1>1, <1>5
     DEF DriverSteps, StartSteps, SelectFirst, SelectSecond, Command, WaitPoll, Data, LastStatus
<1>6. CASE Device \/ (Tick /\ Server) \/ UNCHANGED vars
  BY <1>1, <1>6 DEF Device, Tick, vars
<1> QED
  BY <1>2, <1>3, <1>4, <1>5, <1>6 DEF Next, Working

\* The inductive invariant holds at the start and is kept by every step.
LEMMA InitIInv == Init => IInv
<1> SUFFICES ASSUME Init PROVE IInv
  OBVIOUS
<1>1. TypeOK
  BY InitType
<1>2. Counted /\ Transferring /\ NoneYet /\ ErrorIsRemembered /\ AnswersAreOfTheDisk
  BY DEF Init, Counted, Transferring, NoneYet, ErrorIsRemembered, AnswersAreOfTheDisk, Asked, None
<1>3. Timed
  <2>1. LongOf(0) = 0
    BY LongOfWraps, Sizes
  <2> QED
    BY <2>1 DEF Init, Timed
<1> QED
  BY <1>1, <1>2, <1>3 DEF IInv

LEMMA NextIInv == IInv /\ [Next]_vars => IInv'
BY NextType, NextRest, NextTransferring, NextTimed, NextAnswers DEF IInv, Rest

LEMMA Invariance == Spec => []IInv
BY InitIInv, NextIInv, PTL DEF Spec

-----------------------------------------------------------------------------
\* Every field of driver, server and devices keeps its type; what is answered
\* lies in the buffer of service.c.
THEOREM TypeCorrect == Spec => []TypeOK
<1>1. IInv => TypeOK
  BY DEF IInv
<1> QED
  BY <1>1, Invariance, PTL

\* Whatever the devices do, an accepted read gives the words of the disk at the
\* place that the caller named, but for the sector in which the request ends
\* (File_Read of idedrv/service.c).
THEOREM AnswersCorrect == Spec => []AnswersAreOfTheDisk
<1>1. IInv => AnswersAreOfTheDisk
  BY DEF IInv
<1> QED
  BY <1>1, Invariance, PTL

\* The driver never writes behind the buffer, not even the word that it clears
\* behind a block (pio_rep_inword of mindrvr.c, cache of service.c).
THEOREM NeverOverrun == Spec => []BufferIsLargeEnough
<1>1. IInv => BufferIsLargeEnough
  <2> SUFFICES ASSUME TypeOK, Counted, pc = "data", numSect >= 1
               PROVE  (slot + 1) * SectorWords < CacheWords
    BY DEF IInv, BufferIsLargeEnough
  <2> DEFINE r == request
             a == r.offset % SectorWords
  <2>1. r \in Requests /\ r.size < MaxOutput /\ slot + numSect = NSects(r)
    BY DEF Counted, Asked
  <2>2. slot \in Nat /\ numSect \in Int
    BY DEF TypeOK
  <2>3. /\ r.offset \in Nat /\ r.size \in Nat /\ a \in 0 .. SectorWords - 1
        /\ NSects(r) \in Int /\ FirstSect(r) \in Nat /\ LastSect(r) \in Nat
        /\ r.offset = SectorWords * FirstSect(r) + a
        /\ SectorWords * LastSect(r) <= r.offset + r.size
        /\ SectorWords * LastSect(r) = SectorWords * FirstSect(r) + SectorWords * NSects(r)
    BY <2>1, Sectors
  <2>4. /\ SectorWords * FirstSect(r) \in Int /\ SectorWords * NSects(r) \in Int
        /\ SectorWords * (slot + 1) \in Int /\ (slot + 1) * SectorWords = SectorWords * (slot + 1)
    BY <2>2, <2>3, Sizes
  <2>5. SectorWords * (slot + 1) <= SectorWords * NSects(r)
    BY <2>1, <2>2, <2>3, SectorsApart
  <2> HIDE DEF r, a
  <2> QED
    BY <2>1, <2>3, <2>4, <2>5, Sizes
<1> QED
  BY <1>1, Invariance, PTL

\* After an error no request is answered with data any more, whatever becomes
\* of the disk (reg_cmd_info.ec of mindrvr.c, which is never cleared).
THEOREM SilenceAfterError == Spec => SilentAfterError
<1>1. IInv /\ [Next]_vars => [ec # 0 /\ reply'.kind = "data" => reply' = reply]_vars
  <2> SUFFICES ASSUME IInv, Next, ec # 0, reply'.kind = "data" PROVE reply' = reply
    OBVIOUS
  <2>1. pc # "done"
    BY DEF IInv, ErrorIsRemembered
  <2>2. CASE Reply
    BY <2>1, <2>2 DEF Reply, Refusal
  <2>3. CASE Call
    BY <2>3 DEF Call, Read, Size, Write, Refusal, None, Told
  <2>4. CASE (DriverSteps /\ Server) \/ (Tick /\ Server) \/ Device
    BY <2>4 DEF Server, Device
  <2>5. CASE Skip \/ Serve \/ GiveUp
    BY <2>5 DEF Skip, Serve, GiveUp
  <2> QED
    BY <2>2, <2>3, <2>4, <2>5 DEF Next, Working
<1> QED
  BY <1>1, Invariance, PTL DEF Spec, SilentAfterError

\* The clock has come to the deadline only when TimeOut ticks are over, if the
\* deadline is a long (tmr_chk_timeout of mindrvr.c).
LEMMA TimeIsUp ==
  ASSUME TypeOK, Timed, pc # "idle", tmr_chk_timeout
  PROVE  waited = TimeOut \/ start + TimeOut > ClockMax
<1> SUFFICES ASSUME waited # TimeOut, ~(start + TimeOut > ClockMax) PROVE FALSE
  OBVIOUS
<1>1. start \in Longs /\ waited \in 0 .. TimeOut
  BY DEF TypeOK
<1>2. start + waited \in 0 - ClockMax - 1 .. ClockMax /\ start + waited < start + TimeOut
  BY <1>1, Sizes DEF Longs
<1>3. start + TimeOut \in 0 - ClockMax - 1 .. ClockMax
  BY <1>1, Sizes DEF Longs
<1> DEFINE x == start + waited
           y == start + TimeOut
<1>4. x \in 0 - ClockMax - 1 .. 3 * ClockMax + 2 /\ y \in 0 - ClockMax - 1 .. 3 * ClockMax + 2
  BY <1>2, <1>3, Sizes
<1>5. clock = LongOf(x) /\ clock >= LongOf(y)
  BY DEF Timed, tmr_chk_timeout
<1>6. x <= ClockMax /\ y <= ClockMax /\ x < y /\ x \in Int /\ y \in Int
  BY <1>2, <1>3, Sizes
<1> HIDE DEF x, y
<1>7. LongOf(x) = x
  BY <1>4, <1>6, LongOfWraps
<1>8. LongOf(y) = y
  BY <1>4, <1>6, LongOfWraps
<1> QED
  BY <1>5, <1>6, <1>7, <1>8

\* A device is given up for time only when its time is over, or when the
\* deadline is not a long any more (the waits of mindrvr.c).
THEOREM GivenUpNoSooner == Spec => GivenUpLate
<1>1. IInv /\ [Next]_vars =>
        [ec' # ec /\ ec' \in {1, 2, 11, 12, 35} =>
           waited = TimeOut \/ start + TimeOut > ClockMax]_vars
  <2> SUFFICES ASSUME IInv, Next, ec' # ec, ec' \in {1, 2, 11, 12, 35}
               PROVE  waited = TimeOut \/ start + TimeOut > ClockMax
    OBVIOUS
  <2>1. pc # "idle" /\ tmr_chk_timeout
    <3> USE DEF bus, driver, Fail, Goto
    <3>1. CASE DriverSteps /\ Server
      <4>1. CASE Probe \/ ResetFirst \/ ResetSecond \/ Classify \/ Ask \/ Answer
        BY <4>1 DEF Probe, ResetFirst, ResetSecond, Classify, Ask, Answer
      <4>2. CASE SelectFirst \/ SelectSecond \/ Command \/ WaitPoll
        BY <4>2 DEF SelectFirst, SelectSecond, Command, WaitPoll
      <4>3. CASE Data
        BY <4>3 DEF Data
      <4>4. CASE LastStatus
        BY <4>4 DEF LastStatus
      <4> QED
        BY <3>1, <4>1, <4>2, <4>3, <4>4 DEF DriverSteps
    <3>2. CASE Skip \/ Serve \/ GiveUp \/ Reply
      BY <3>2 DEF Skip, Serve, GiveUp, Reply, Return
    <3>3. CASE Call
      BY <3>3 DEF Call, Read, ReadSectors, Size, Write
    <3>4. CASE Device \/ (Tick /\ Server)
      BY <3>4 DEF Device, Tick
    <3> QED
      BY <3>1, <3>2, <3>3, <3>4 DEF Next, Working
  <2> QED
    BY <2>1, TimeIsUp DEF IInv
<1> QED
  BY <1>1, Invariance, PTL DEF Spec, GivenUpLate
=============================================================================
