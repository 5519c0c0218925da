------------------------------ MODULE MinDrvr ------------------------------
(***************************************************************************)
(* mindrvr.c as idedrv uses it: reg_config with its software reset,        *)
(* reg_info, and reg_pio_data_in_lba48, which reads sectors through the    *)
(* data register.  Interrupts are off (int_use_intr_flag is 0) and there   *)
(* is no bus master (pio_bmide_base_addr is 0), so every wait is a loop    *)
(* that polls a status register and the clock.  A round of such a loop     *)
(* that finds the device as before changes nothing and is no step here;    *)
(* the round that leaves the loop is one.                                  *)
(*                                                                         *)
(* SYSTEM_READ_TIMER is the system clock in milliseconds, cut to a signed  *)
(* word; clock goes round in the same way, over -ClockMax-1 .. ClockMax.   *)
(***************************************************************************)
EXTENDS AtaDevice

CONSTANTS
  ClockMax,     \* the largest long (2^31 - 1)
  TimeOut,      \* TMR_TIME_OUT in ticks of the clock (2000)
  CacheWords,   \* the words of the buffer that sectors are read into
  Zero          \* a word that was cleared

ASSUME ClockAssumption ==
  ClockMax \in Nat /\ TimeOut \in Nat \ {0} /\ TimeOut <= ClockMax

VARIABLES
  pc,              \* where the driver is, or the server that calls it
  config,          \* reg_config_info
  ec,              \* reg_cmd_info.ec
  clock, start,    \* the clock and tmr_cmd_start_time
  unit,            \* reg_info: the device that is asked
  known,           \* reg_info: the devices that told their size
  sector,          \* lbaLow
  numSect, slot,   \* the sectors to come, a signed word, and the place of the next
  cache,           \* the buffer
  waited           \* ticks since start, TimeOut for that many or more (history)

bus == <<device, selected>>
timer == <<clock, start, waited>>
transfer == <<sector, numSect, slot, cache>>
driver == <<pc, config, ec, timer, unit, known, transfer>>

LongOf(x) == ((x + ClockMax + 1) % (2 * ClockMax + 2)) - ClockMax - 1

tmr_set_timeout == start' = clock /\ waited' = 0
\* Mutant: TMR_TIME_OUT is forgotten.
MutNoTimeOut == clock >= start
tmr_chk_timeout == clock >= LongOf(start + TimeOut)

\* Time passes, as much as it likes between two steps of the driver.
Tick ==
  /\ clock' = LongOf(clock + 1)
  /\ waited' = IF waited < TimeOut THEN waited + 1 ELSE waited
  /\ UNCHANGED <<bus, pc, config, ec, start, unit, known, transfer>>

Goto(l) == pc' = l
Fail(code) == ec' = code

-----------------------------------------------------------------------------
\* reg_config: who answers on the cable?  Then reset both.
Probe ==
  /\ pc = "probe"
  /\ config' = [d \in Units |-> IF Present(d) THEN "unknown" ELSE "none"]
  /\ device' = [d \in Units |-> ResetOf(device[d])]
  /\ selected' = 0
  /\ tmr_set_timeout
  /\ Goto("reset0")
  /\ UNCHANGED <<ec, clock, unit, known, transfer>>

\* reg_reset waits for device 0 to be no longer busy ...
ResetFirst ==
  /\ pc = "reset0"
  /\ \/ /\ config[0] # "none" => ~device[0].bsy
        /\ UNCHANGED ec
     \/ /\ config[0] # "none" /\ device[0].bsy /\ tmr_chk_timeout
        /\ Fail(1)
  /\ Goto("reset1")
  /\ UNCHANGED <<bus, config, timer, unit, known, transfer>>

\* ... and for device 1 to show its signature; then it must not be busy.
ResetSecond ==
  /\ pc = "reset1"
  /\ \/ /\ config[1] = "none" \/ (device[1].sig /\ (ec # 0 \/ ~device[1].bsy))
        /\ UNCHANGED ec
     \/ /\ config[1] # "none" /\ device[1].sig /\ ec = 0 /\ device[1].bsy
        /\ Fail(3)
     \/ /\ config[1] # "none" /\ ~device[1].sig /\ tmr_chk_timeout
        /\ Fail(2)
  /\ Goto("classify")
  /\ UNCHANGED <<bus, config, timer, unit, known, transfer>>

\* The signature tells the type; a device without one stays unknown.
Classify ==
  /\ pc = "classify"
  /\ config' = [d \in Units |-> IF device[d].sig THEN device[d].kind ELSE config[d]]
  /\ selected' = IF config[0] # "none" THEN 0 ELSE 1
  /\ unit' = 0
  /\ Goto("ask")
  /\ UNCHANGED <<device, ec, timer, known, transfer>>

NumDev == (IF config[0] # "none" THEN 1 ELSE 0) + (IF config[1] # "none" THEN 1 ELSE 0)

-----------------------------------------------------------------------------
\* reg_info: IDENTIFY DEVICE, whether the device is busy or not.
Ask ==
  /\ pc = "ask" /\ unit < NumDev /\ config[unit] # "none"
  /\ selected' = unit
  /\ device' = [device EXCEPT ![unit] = CommandTo(@, "identify", 0, 1)]
  /\ tmr_set_timeout
  /\ Goto("answer")
  /\ UNCHANGED <<config, ec, clock, unit, known, transfer>>

\* Only BSY=0, DRQ=1 and no error is an answer (0x58); its words are read.
Answer ==
  /\ pc = "answer"
  /\ \/ /\ ~device[unit].bsy /\ device[unit].drq /\ ~device[unit].err
        /\ device' = [device EXCEPT ![unit] = Emptied(@)]
        /\ known' = known \cup {unit}
     \/ /\ device[unit].bsy \/ ~device[unit].drq \/ device[unit].err
        /\ tmr_chk_timeout
        /\ UNCHANGED <<device, known>>
  /\ unit' = unit + 1
  /\ Goto("ask")
  /\ UNCHANGED <<selected, config, ec, timer, transfer>>

-----------------------------------------------------------------------------
Recognised == config[0] \in {"ata", "atapi"}

\* reg_pio_data_in_lba48 and the start of exec_pio_data_in_cmd, for n sectors
\* from first; sub_select waits for nothing with a device it does not know.
ReadSectors(first, n) ==
  /\ sector' = first /\ numSect' = n /\ slot' = 0
  /\ tmr_set_timeout
  /\ Goto(IF Recognised THEN "select1" ELSE "command")
  /\ selected' = IF Recognised THEN selected ELSE 0

\* sub_select: whoever is selected must be ready, then device 0.
SelectFirst ==
  /\ pc = "select1"
  /\ \/ /\ Ready(selected)
        /\ selected' = 0
        /\ Goto("select2")
        /\ UNCHANGED ec
     \/ /\ ~Ready(selected) /\ tmr_chk_timeout
        /\ Fail(11)
        /\ Goto("failed")
        /\ UNCHANGED selected
  /\ UNCHANGED <<device, config, timer, unit, known, transfer>>

\* Mutant: the device is not waited for once it is selected.
MutSelectAnyhow ==
  /\ pc = "select2"
  /\ Goto(IF ec # 0 THEN "failed" ELSE "command")
  /\ UNCHANGED <<bus, config, ec, timer, unit, known, transfer>>
SelectSecond ==
  /\ pc = "select2"
  /\ \/ /\ Ready(0)
        /\ Goto(IF ec # 0 THEN "failed" ELSE "command")
        /\ UNCHANGED ec
     \/ /\ ~Ready(0) /\ tmr_chk_timeout
        /\ Fail(12)
        /\ Goto("failed")
  /\ UNCHANGED <<bus, config, timer, unit, known, transfer>>

\* sub_setup_command and the command: a command of 28 bits whose registers are
\* written as for 48; of the count eight bits are taken, of the sector 24, which
\* an offset in bytes of 32 bits never fills.
Command ==
  /\ pc = "command"
  /\ device' = [device EXCEPT ![0] = CommandTo(@, "read", sector, numSect % CountValues)]
  /\ sector' = 0
  /\ Goto("wait")
  /\ UNCHANGED <<selected, config, ec, timer, unit, known, numSect, slot, cache>>

\* sub_wait_poll; an error, this one or an old one, ends the command.
\* Mutant: the clock is not looked at.
MutWaitsOn ==
  /\ pc = "wait" /\ ~device[0].bsy
  /\ Goto(IF ec # 0 THEN "failed" ELSE "data")
  /\ UNCHANGED <<bus, config, ec, timer, unit, known, transfer>>
WaitPoll ==
  /\ pc = "wait"
  /\ \/ /\ ~device[0].bsy
        /\ UNCHANGED ec
        /\ Goto(IF ec # 0 THEN "failed" ELSE "data")
     \/ /\ device[0].bsy /\ tmr_chk_timeout
        /\ Fail(35)
        /\ Goto("failed")
  /\ UNCHANGED <<bus, config, timer, unit, known, transfer>>

\* Word by word, each stored as an unsigned int, which clears the word behind.
pio_rep_inword(at) ==
  [i \in DOMAIN cache |->
     IF i \in at .. at + SectorWords - 1 THEN WordOf(0, i - at)
     ELSE IF i = at + SectorWords THEN Zero ELSE cache[i]]

\* pio_drq_block_in: a block is one sector.
BlockIn == pio_rep_inword(slot * SectorWords)

\* With DRQ the block is read, even if there is an error; if more is asked
\* for than none.
Data ==
  /\ pc = "data"
  /\ IF device[0].drq
     THEN /\ numSect' = numSect - 1 /\ slot' = slot + 1
          /\ IF numSect >= 1
             THEN cache' = BlockIn /\ device' = [device EXCEPT ![0] = Emptied(@)]
             ELSE UNCHANGED <<cache, device>>
     ELSE UNCHANGED <<numSect, slot, cache, device>>
  /\ \/ /\ device[0].err
        /\ Fail(31) /\ Goto("failed")
     \/ /\ ~device[0].err /\ ~device[0].drq
        /\ Fail(32) /\ Goto("failed")
     \/ /\ ~device[0].err /\ device[0].drq
        /\ UNCHANGED ec
        /\ Goto(IF numSect - 1 < 1 THEN "last" ELSE "wait")
  /\ UNCHANGED <<selected, config, timer, unit, known, sector>>

\* After the last sector the device must have nothing more to give.
LastStatus ==
  /\ pc = "last"
  /\ LET left == ~Ready(0) \/ device[0].err
     IN  IF left THEN Fail(33) /\ Goto("failed")
         ELSE UNCHANGED ec /\ Goto("done")
  /\ UNCHANGED <<bus, config, timer, unit, known, transfer>>

\* Back to the caller: the locals are gone, and what the next command sets
\* before it reads it is put back as well.
Return ==
  /\ Goto("idle")
  /\ sector' = 0 /\ numSect' = 0 /\ slot' = 0
  /\ start' = 0 /\ waited' = 0 /\ unit' = 0 /\ known' = {}
  /\ UNCHANGED <<bus, config, ec, clock, cache>>

DriverSteps ==
  \/ Probe \/ ResetFirst \/ ResetSecond \/ Classify \/ Ask \/ Answer
  \/ SelectFirst \/ SelectSecond \/ Command \/ WaitPoll \/ Data \/ LastStatus
=============================================================================
