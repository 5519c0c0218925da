------------------------------ MODULE Startup ------------------------------
(***************************************************************************)
(* How the system comes up.  The first task (olymp.c) launches the boot    *)
(* modules one after another; the first is hermes, and it waits for        *)
(* hermes' root capability before it launches the others, whose local      *)
(* names then lead there.  The drivers and the file server register a      *)
(* path and serve; programs find the console by its path when they first   *)
(* print or read, and keep what they found (libc's sys_stdio.c).           *)
(*                                                                         *)
(* A call to a server is one step, taken when the server waits for calls.  *)
(* Sleeping (hello.c, filesys.c) takes any time.  Page faults, and servers *)
(* that fail or refuse to register a path, are left out.                   *)
(***************************************************************************)
EXTENDS Naturals, FiniteSets, SequencesExt

CONSTANTS Hermes, Console, Ide, Ext2,   \* the servers
          Users                         \* interactive programs (basic, scheme)

Servers == {Hermes, Console, Ide, Ext2}
Programs == Servers \cup Users

Nobody == "nobody"

ASSUME BootAssumption ==
  /\ Hermes \notin {Console, Ide, Ext2} /\ Console \notin {Ide, Ext2} /\ Ide # Ext2
  /\ Users \cap Servers = {} /\ IsFiniteSet(Users)
  /\ Nobody \notin Programs

VARIABLES
  order,       \* the boot modules
  launched,    \* how many of them have been launched
  asking,      \* olymp waits for hermes' root capability
  catchall,    \* olymp hands out the name "" that leads to hermes
  local,       \* local[p]: p's local directory has that name
  step,        \* step[p]: where p is in its script, 0 before its launch
  registered,  \* the servers whose paths hermes knows
  console,     \* console[p]: the capability that p's stdio keeps
  reader       \* the program whose read the console serves, or Nobody

bootvars == <<order, launched, asking, catchall, local, step, registered, console, reader>>

\* What the programs do, call by call.
Script(p) ==
  CASE p = Hermes  -> <<"serve">>
    [] p = Console -> <<"register", "serve">>
    [] p = Ide     -> <<"print", "register", "serve">>
    [] p = Ext2    -> <<"open", "mount", "print", "register", "print", "serve">>
    [] p \in Users -> <<"print", "read">>

Does(p, op) == step[p] \in DOMAIN Script(p) /\ Script(p)[step[p]] = op
Serves(s) == Does(s, "serve") /\ (s = Console => reader = Nobody)
Stopped(p) == step[p] > Len(Script(p))

\* Interactive programs start over, the others go on.
Advance(p) ==
  step' = [step EXCEPT ![p] = IF p \in Users THEN (@ % Len(Script(p))) + 1 ELSE @ + 1]

BootInit ==
  /\ order \in {o \in SetToSeqs(Programs) : o[1] = Hermes}
  /\ launched = 0
  /\ asking = FALSE /\ catchall = FALSE
  /\ local = [p \in Programs |-> FALSE]
  /\ step = [p \in Programs |-> 0]
  /\ registered = {}
  /\ console = [p \in Programs |-> Nobody]
  /\ reader = Nobody

-----------------------------------------------------------------------------
\* The loop of olymp's main.  Mutant: hermes' answer is not waited for.
MutLaunchAtOnce ==
  /\ launched < Len(order)
  /\ launched' = launched + 1
  /\ step' = [step EXCEPT ![order[launched + 1]] = 1]
  /\ local' = [local EXCEPT ![order[launched + 1]] = catchall]
  /\ asking' = (asking \/ launched = 0)
  /\ UNCHANGED <<order, catchall, registered, console, reader>>

Launch ==
  /\ launched < Len(order)
  /\ ~asking
  /\ launched' = launched + 1
  /\ step' = [step EXCEPT ![order[launched + 1]] = 1]
  /\ local' = [local EXCEPT ![order[launched + 1]] = catchall]
  /\ asking' = (launched = 0)
  /\ UNCHANGED <<order, catchall, registered, console, reader>>

\* hermes_capability.  Mutant: the new name is not counted.
MutNotCounted ==
  /\ asking /\ Serves(Hermes)
  /\ asking' = FALSE
  /\ UNCHANGED <<order, launched, catchall, local, step, registered, console, reader>>

GetRootCapability ==
  /\ asking /\ Serves(Hermes)
  /\ asking' = FALSE /\ catchall' = TRUE
  /\ UNCHANGED <<order, launched, local, step, registered, console, reader>>

-----------------------------------------------------------------------------
\* The main of a server: register the path with hermes.  A program without a
\* way to hermes gives up.
Register(p) ==
  /\ Does(p, "register")
  /\ \/ ~local[p] /\ step' = [step EXCEPT ![p] = Len(Script(p)) + 1] /\ UNCHANGED registered
     \/ local[p] /\ Serves(Hermes) /\ registered' = registered \cup {p} /\ Advance(p)
  /\ UNCHANGED <<order, launched, asking, catchall, local, console, reader>>

\* The file server tries until the disk's path is there, then mounts it.
Open(p) ==
  /\ Does(p, "open")
  /\ local[p] /\ Serves(Hermes)
  /\ Ide \in registered
  /\ Advance(p)
  /\ UNCHANGED <<order, launched, asking, catchall, local, registered, console, reader>>

\* Mounting reads the disk; a disk that is not ext2 ends the file server.
Mount(p) ==
  /\ Does(p, "mount")
  /\ Serves(Ide)
  /\ Advance(p) \/ step' = [step EXCEPT ![p] = Len(Script(p)) + 1]
  /\ UNCHANGED <<order, launched, asking, catchall, local, registered, console, reader>>

-----------------------------------------------------------------------------
\* stdio's way to the console: the capability found before, or hermes' answer
\* to the path.  Where hermes does not know the path, hpf_resolve fails, and
\* leaves the capability of its first step, which is hermes' own.
Found(p) ==
  IF console[p] # Nobody THEN console[p]
  ELSE IF ~local[p] THEN Nobody
  ELSE IF Console \in registered THEN Console ELSE Hermes

\* A call to what was found.  Methods go by their number: hermes takes a write
\* for UnregisterPath, which does nothing, and a read for RegisterPath.  What
\* path that makes of a message without one is up to the generated stubs, which
\* are not in the repository; here it is none that begins with a slash, which
\* hermes refuses (hermes/service.c:38), or one that no program asks for.
Reaches(p) == Found(p) \in Programs => Serves(Found(p))

\* printf.
Printf(p) ==
  /\ Does(p, "print")
  /\ Reaches(p)
  /\ console' = [console EXCEPT ![p] = Found(p)]
  /\ Advance(p)
  /\ UNCHANGED <<order, launched, asking, catchall, local, registered, reader>>

\* fgets: the console serves nobody else until a key is pressed.
Fgets(p) ==
  /\ Does(p, "read")
  /\ Reaches(p)
  /\ reader # p
  /\ console' = [console EXCEPT ![p] = Found(p)]
  /\ IF Found(p) = Console THEN reader' = p /\ UNCHANGED step
     ELSE Advance(p) /\ UNCHANGED reader
  /\ UNCHANGED <<order, launched, asking, catchall, local, registered>>

Key ==
  /\ reader # Nobody
  /\ Advance(reader)
  /\ reader' = Nobody
  /\ UNCHANGED <<order, launched, asking, catchall, local, registered, console>>

RunsOn(p) == Register(p) \/ Open(p) \/ Mount(p) \/ Printf(p) \/ Fgets(p)

BootNext == Launch \/ GetRootCapability \/ Key \/ \E p \in Programs : RunsOn(p)

BootSpec == BootInit /\ [][BootNext]_bootvars

\* L4 runs every thread, and threads that call the same server are answered
\* in the order they came; somebody sits at the keyboard.
FairBootSpec ==
  /\ BootSpec
  /\ WF_bootvars(Launch) /\ WF_bootvars(GetRootCapability) /\ WF_bootvars(Key)
  /\ \A p \in Programs : SF_bootvars(RunsOn(p))

-----------------------------------------------------------------------------
\* The state is well formed, and whom the console serves waits for it.
BootTypeOK ==
  /\ launched \in 0 .. Len(order)
  /\ asking \in BOOLEAN /\ catchall \in BOOLEAN
  /\ local \in [Programs -> BOOLEAN]
  /\ \A p \in Programs : step[p] \in 0 .. Len(Script(p)) + 1
  /\ registered \subseteq Programs
  /\ console \in [Programs -> {Nobody, Hermes, Console}]
  /\ reader # Nobody =>
       reader \in Programs /\ Does(reader, "read") /\ console[reader] = Console

\* Every program but hermes gets a local directory that leads to hermes, and
\* so none ever gives up for want of a directory service.
EveryoneHasNames ==
  \A p \in Programs \ {Hermes} : step[p] > 0 => local[p]

\* Whatever the order of the boot modules, all are launched, and each server
\* comes to serve calls (the file server, if the disk is one of its kind).
ComesUp ==
  <>(/\ launched = Len(order)
     /\ {Console, Ide} \subseteq registered
     /\ Ext2 \in registered \/ Stopped(Ext2))
=============================================================================
