----------------------------- MODULE AtaDevice -----------------------------
(***************************************************************************)
(* The two ATA devices of one cable, as mindrvr.c sees them through their  *)
(* registers: the status bits BSY, DRQ and ERR, the signature that is left *)
(* in the registers by a reset, and the data register.  A device takes a   *)
(* command only while it is not busy.  When it answers, and whether it     *)
(* ever does, is its own affair; it may report an error at any sector.     *)
(***************************************************************************)
EXTENDS Integers

CONSTANTS
  SectorWords,   \* the 16-bit words of a sector (256)
  Capacity,      \* the sectors of a disk
  CountValues    \* the values of the Sector Count register (256); 0 asks for all

ASSUME DeviceAssumption ==
  /\ SectorWords \in Nat \ {0} /\ CountValues \in Nat \ {0} /\ Capacity \in Nat

VARIABLES
  device,    \* device[d]: what unit d of the cable is and does
  selected   \* the unit that the DEV bit of the Drive/Head register names

Units == {0, 1}
Kinds == {"none", "ata", "atapi", "odd"}    \* odd: it leaves no known signature
Present(d) == device[d].kind # "none"

\* Words of data: those of the disk are named by their place; Foreign is any
\* word of the answer to IDENTIFY DEVICE and of a sector that is not readable.
Foreign == 0 - 2
WordOf(d, i) ==
  IF device[d].op = "read" /\ ~device[d].err
  THEN device[d].lba * SectorWords + i ELSE Foreign

Ready(d) == ~device[d].bsy /\ ~device[d].drq

\* Software reset: a device that is there is busy and gives up its command.
ResetOf(dv) ==
  IF dv.kind = "none" THEN dv
  ELSE [dv EXCEPT !.bsy = TRUE, !.drq = FALSE, !.err = FALSE, !.sig = FALSE,
                  !.op = "reset", !.lba = 0, !.left = 0]

\* A write to the Command register; count is what Sector Count holds.
CommandTo(dv, op, lba, count) ==
  IF dv.kind = "none" \/ dv.bsy THEN dv
  ELSE [dv EXCEPT !.bsy = TRUE, !.drq = FALSE, !.err = FALSE, !.op = op,
                  !.lba = lba, !.left = IF count = 0 THEN CountValues ELSE count]

\* The last word of a block was read: the next sector, or the command ends.
Emptied(dv) ==
  IF dv.left > 1
  THEN [dv EXCEPT !.bsy = TRUE, !.drq = FALSE, !.lba = @ + 1, !.left = @ - 1]
  ELSE [dv EXCEPT !.drq = FALSE, !.op = "none", !.lba = 0, !.left = 0]

\* What a busy device may do next, by the command it works on.
ResetSteps(dv) ==
  LET signed == [dv EXCEPT !.sig = dv.kind # "odd"]
  IN  {signed, [signed EXCEPT !.bsy = FALSE, !.op = "none"]}

DataReady(dv) == [dv EXCEPT !.bsy = FALSE, !.drq = TRUE]
Failed(dv) ==
  {[dv EXCEPT !.bsy = FALSE, !.err = TRUE, !.drq = drq, !.left = 1,
              !.op = IF drq THEN dv.op ELSE "none",
              !.lba = IF drq THEN dv.lba ELSE 0] : drq \in BOOLEAN}

CommandSteps(dv) ==
  IF dv.kind # "atapi" /\ (dv.op = "identify" \/ dv.lba < Capacity)
  THEN {DataReady(dv)} \cup Failed(dv) ELSE Failed(dv)

DeviceStep(d) ==
  /\ device[d].bsy
  /\ \E dv \in (IF device[d].op = "reset" THEN ResetSteps(device[d])
                ELSE CommandSteps(device[d])) :
       dv # device[d] /\ device' = [device EXCEPT ![d] = dv]
  /\ UNCHANGED selected
=============================================================================
