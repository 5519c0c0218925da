----------------------------- MODULE IdeServer -----------------------------
(***************************************************************************)
(* idedrv: main.c looks for the disks and registers /drivers/hd0,          *)
(* service.c serves it.  The server is one thread that answers one call    *)
(* before it takes the next, so a disk that does not answer holds up       *)
(* everyone.  Offsets and sizes are counted in words of the disk.          *)
(***************************************************************************)
EXTENDS MinDrvr

CONSTANTS
  MaxOutput,   \* MAX_OUTPUT_LEN
  OffsetMod,   \* the values of an unsigned long
  Requests,    \* what callers ask for: [offset, size]
  Cables       \* the devices there may be: functions Units -> Kinds

ASSUME ServerAssumption ==
  /\ MaxOutput \in Nat /\ CacheWords = MaxOutput + SectorWords
  /\ OffsetMod \in Nat \ {0}
  /\ Requests \subseteq [offset : 0 .. OffsetMod - 1, size : Nat]
  /\ Cables \subseteq [Units -> Kinds]

VARIABLES
  dev_size,
  request,     \* the call of Read: [offset, size]
  reply        \* its answer: [kind, value]

vars == <<bus, driver, dev_size, request, reply>>

NoCall == [offset |-> 0, size |-> 0]
None == [kind |-> "none", value |-> <<>>]
Refusal == [kind |-> "refused", value |-> <<>>]
Told(n) == [kind |-> "size", value |-> n]
Bytes(ws) == [kind |-> "data", value |-> ws]

AtRest(kind) == [kind |-> kind, bsy |-> FALSE, drq |-> FALSE, err |-> FALSE,
                 sig |-> FALSE, op |-> "none", lba |-> 0, left |-> 0]

Init ==
  /\ \E c \in Cables : device = [d \in Units |-> AtRest(c[d])]
  /\ selected = 0
  /\ pc = "probe"
  /\ config = [d \in Units |-> "none"]
  /\ ec = 0
  /\ clock = 0 /\ start = 0 /\ waited = 0
  /\ unit = 0 /\ known = {}
  /\ sector = 0 /\ numSect = 0 /\ slot = 0
  /\ cache = [i \in 0 .. CacheWords - 1 |-> Zero]
  /\ dev_size = 0
  /\ request = NoCall /\ reply = None

-----------------------------------------------------------------------------
\* main.c: each device up to their number is asked, and skipped if its place
\* is empty; without a device 0 the program ends.
Skip ==
  /\ pc = "ask" /\ unit < NumDev /\ config[unit] = "none"
  /\ unit' = unit + 1
  /\ UNCHANGED <<bus, pc, config, ec, timer, known, transfer, dev_size, request, reply>>

Serve ==
  /\ pc = "ask" /\ unit >= NumDev
  /\ config[0] # "none"
  /\ dev_size' = IF 0 \in known THEN Capacity * SectorWords ELSE 0
  /\ Return
  /\ UNCHANGED <<request, reply>>

GiveUp ==
  /\ pc = "ask" /\ unit >= NumDev
  /\ config[0] = "none"
  /\ Goto("gone")
  /\ UNCHANGED <<bus, config, ec, timer, unit, known, transfer, dev_size, request, reply>>

-----------------------------------------------------------------------------
FirstSect(r) == r.offset \div SectorWords
LastSect(r) == ((r.offset + r.size) % OffsetMod) \div SectorWords

\* last_sect - first_sect, an unsigned number that the driver takes as signed.
\* Mutant: a part of a sector at the end counts as well.
MutRoundUp(r) == (LastSect(r) - FirstSect(r)) + 1
NSects(r) == LastSect(r) - FirstSect(r)

\* File_Read: a large request, or a caller without the right, is refused.
Read(r, allowed) ==
  /\ pc = "idle"
  /\ IF ~allowed \/ r.size >= MaxOutput
     THEN /\ request' = NoCall /\ reply' = Refusal
          /\ UNCHANGED <<bus, driver>>
     ELSE /\ request' = r /\ reply' = None
          /\ ReadSectors(FirstSect(r), NSects(r))
          /\ UNCHANGED <<device, config, ec, clock, unit, known, cache>>
  /\ UNCHANGED dev_size

\* The answer: size words of the buffer from the place in the sector.
Answered(r) ==
  [i \in 1 .. r.size |-> cache[(r.offset % SectorWords) + i - 1]]

Reply ==
  /\ pc \in {"done", "failed"}
  /\ reply' = IF pc = "done" THEN Bytes(Answered(request)) ELSE Refusal
  /\ Return
  /\ UNCHANGED <<dev_size, request>>

\* File_Size and File_Write.
Size(allowed) ==
  /\ pc = "idle"
  /\ request' = NoCall /\ reply' = Told(IF allowed THEN dev_size ELSE 0)
  /\ UNCHANGED <<bus, driver, dev_size>>

Write ==
  /\ pc = "idle"
  /\ request' = NoCall /\ reply' = Refusal
  /\ UNCHANGED <<bus, driver, dev_size>>

-----------------------------------------------------------------------------
Server == UNCHANGED <<dev_size, request, reply>>

Working == (DriverSteps /\ Server) \/ Skip \/ Serve \/ GiveUp \/ Reply

Call ==
  \/ \E r \in Requests, allowed \in BOOLEAN : Read(r, allowed)
  \/ \E allowed \in BOOLEAN : Size(allowed)
  \/ Write

Device == (\E d \in Units : DeviceStep(d)) /\ UNCHANGED <<driver, dev_size, request, reply>>

Next == Working \/ Call \/ Device \/ (Tick /\ Server)

Spec == Init /\ [][Next]_vars

\* The driver runs, the clock runs, and a poll falls into the time after the
\* deadline sooner or later.  Nothing is assumed of the devices.
FairSpec == Spec /\ SF_vars(Working) /\ WF_vars(Tick /\ Server)

-----------------------------------------------------------------------------

\* The words of an answer whose sector ends within the request, where the end
\* of the request is a number that offsets have.
Covered(r, i) ==
  LET sect == (r.offset + i - 1) \div SectorWords
  IN  /\ r.offset + r.size < OffsetMod
      /\ (sect + 1) * SectorWords <= r.offset + r.size

\* Whatever the disk does in between, late answers, errors halfway and time-
\* outs at the start included, an accepted read gives back the words of the
\* disk at the place the caller named, but for the sector in which the request
\* ends, which service.c:55-56 leaves out.
AnswersAreOfTheDisk ==
  reply.kind = "data" /\ Recognised =>
    \A i \in 1 .. request.size :
      Covered(request, i) => reply.value[i] = request.offset + i - 1

\* The buffer is never written behind its end, even by the word that is
\* cleared behind a block (mindrvr.c pio_rep_inword, service.c:40).
BufferIsLargeEnough ==
  pc = "data" /\ device[0].drq /\ numSect >= 1 => (slot + 1) * SectorWords < CacheWords

\* reg_cmd_info.ec is never cleared: once there was an error, no request is
\* answered with data any more.
SilentAfterError ==
  [][ec # 0 /\ reply'.kind = "data" => reply' = reply]_vars

\* "information about the last reset or command that was executed"
\* (mindrvr-guide.txt:156): a command is told to have failed because of an
\* error that it met, not because of one before it.
ErrorIsOfTheCommand ==
  [][pc # "failed" /\ pc' = "failed" => ec' # ec]_vars

\* A command is given up for time only when TimeOut ticks are over, or when
\* the deadline is not a long any more and the comparison is with a number
\* far in the past (mindrvr.c:2926).
GivenUpLate ==
  [][ec' # ec /\ ec' \in {1, 2, 11, 12, 35} =>
       waited = TimeOut \/ start + TimeOut > ClockMax]_vars

\* Nobody waits for the disk for ever, and the start comes to an end, with
\* devices that stop answering at any point.
AlwaysAnswers == pc \notin {"idle", "gone"} ~> pc \in {"idle", "gone"}
=============================================================================
