----------------------------- MODULE MCUserland -----------------------------
(***************************************************************************)
(* What every program stands on, side by side: the lock of the C library,  *)
(* its streams (MCStdio), and the way up to the servers.  A behaviour is   *)
(* about one of them, the subject; the others rest in a state in which     *)
(* nothing is left to be done.                                             *)
(***************************************************************************)
EXTENDS Mutex, MCStdio, Startup

VARIABLE subject

StreamRests == Init /\ usage = CHOOSE u \in MCUsages : TRUE

\* All programs serve, or print and read.
BootRests ==
  /\ order = CHOOSE o \in SetToSeqs(Programs) : o[1] = Hermes
  /\ launched = Len(order)
  /\ asking = FALSE /\ catchall = TRUE
  /\ local = [p \in Programs |-> p # Hermes]
  /\ step = [p \in Programs |-> IF p \in Users THEN 1 ELSE Len(Script(p))]
  /\ registered = {Console, Ide, Ext2}
  /\ console = [p \in Programs |-> IF p \in {Ide, Ext2} THEN Console ELSE Nobody]
  /\ reader = Nobody

UserlandInit ==
  \/ subject = "lock" /\ LockInit /\ StreamRests /\ BootRests
  \/ subject = "stream" /\ LockInit /\ Init /\ BootRests
  \/ subject = "boot" /\ LockInit /\ StreamRests /\ BootInit

UserlandNext ==
  /\ UNCHANGED subject
  /\ \/ subject = "lock" /\ LockNext /\ UNCHANGED <<vars, bootvars>>
     \/ subject = "stream" /\ Next /\ UNCHANGED <<lockvars, bootvars>>
     \/ subject = "boot" /\ BootNext /\ UNCHANGED <<lockvars, vars>>

\* The fairness of FairLockSpec, FairSpec and FairBootSpec.  At rest no lock or
\* stream has a step to take; the programs at rest have.
UserlandSpec ==
  /\ UserlandInit /\ [][UserlandNext]_<<subject, lockvars, vars, bootvars>>
  /\ \A t \in Threads : WF_lockvars(Step(t))
  /\ \A t \in Callers : WF_vars(GoesOn(t))
  /\ WF_bootvars(subject = "boot" /\ Launch)
  /\ WF_bootvars(subject = "boot" /\ GetRootCapability)
  /\ WF_bootvars(subject = "boot" /\ Key)
  /\ \A p \in Programs : SF_bootvars(subject = "boot" /\ RunsOn(p))
=============================================================================
