---------------------------- MODULE NameService ----------------------------
(***************************************************************************)
(* The naming system: the root name server (hermes/service.c), which keeps *)
(* a directory of all registered paths, and the programs that resolve      *)
(* paths with hpf_resolve (libhpf/dir.c): first in a local directory, then *)
(* by asking one server after another until nothing of the path is left.   *)
(* Registrations of other programs come between a program's questions.     *)
(*                                                                         *)
(* A capability is [server, object]; its rights and signature are left     *)
(* out, programs use only what they were given.  Hermes' capabilities name *)
(* an entry by its number (in the code, its address), 0 being the root.    *)
(* Hermes never removes an entry: UnregisterPath is a stub.                *)
(***************************************************************************)
EXTENDS Directory, FiniteSets

CONSTANTS
  Hermes, FileServer, \* directory servers: the root, and a file system
  Others,        \* servers that are no directory: console, task manager, nil
  Clients,       \* programs that resolve paths
  Characters,    \* Slash and the letters
  Names,         \* paths that programs register
  Targets,       \* paths that programs resolve
  MaxEntries     \* bound: how many paths get registered

Cap(s, o) == [server |-> s, object |-> o]
RootCap == Cap(Hermes, 0)
FileRoot == Cap(FileServer, 0)
AFile == Cap(FileServer, 1)
Capability == [server : {Hermes, FileServer} \cup Others, object : Nat]
Path == Seq(Characters)

\* What a program gets at its start: the task manager is left out, the empty
\* name is the catch-all that leads to hermes (olymp's main, hpf_main).
LocalDirectory == <<[name |-> <<>>, cap |-> RootCap]>>

ASSUME ServerAssumption ==
  Hermes \notin Others /\ FileServer \notin Others /\ Hermes # FileServer
ASSUME CharacterAssumption == Slash \in Characters /\ Names \cup Targets \subseteq Path
ASSUME AbsoluteAssumption == \A n \in Names : n # <<>> /\ n[1] = Slash
ASSUME BoundAssumption == MaxEntries \in Nat

VARIABLES
  dir,       \* hermes' directory: a sequence of [name, cap, id]
  granted,   \* capabilities of hermes that programs have
  call       \* call[c]: [state, cap, rest], the hpf_resolve of program c

namingvars == <<dir, granted, call>>

\* The full name of hermes' entry number id.
NameOf(id) ==
  IF id = 0 THEN <<>> ELSE (CHOOSE e \in {dir[i] : i \in 1 .. Len(dir)} : e.id = id).name

Drop(path, n) == SubSeq(path, n + 1, Len(path))

NamingInit ==
  /\ dir = <<>>
  /\ granted = {RootCap}
  /\ call = [c \in Clients |-> [state |-> "idle", cap |-> RootCap, rest |-> <<>>]]

-----------------------------------------------------------------------------
\* What may be registered: a server's object, a path of hermes (an alias), or
\* the nil capability ("just create a path component").
Objects == {FileRoot} \cup {Cap(s, 0) : s \in Others} \cup granted

\* Mutant: the entry goes to the head of the list, whatever its length.
MutAtHead(parent, path, object, k) ==
  LET id   == Len(dir) + 1
      name == NameOf(parent.object) \o path
  IN  /\ k = 1
      /\ dir' = Added(dir, [name |-> name, cap |-> object, id |-> id], k)
      /\ granted' = granted \cup {Cap(Hermes, id)}

\* Mutant: an entry goes before those of the same length.
MutBeforeEquals(parent, path, object, k) ==
  LET id   == Len(dir) + 1
      name == NameOf(parent.object) \o path
  IN  /\ k \in 1 .. Len(dir) + 1
      /\ \A j \in 1 .. Len(dir) : j < k => Len(name) < Len(dir[j].name)
      /\ k <= Len(dir) => Len(name) >= Len(dir[k].name)
      /\ dir' = Added(dir, [name |-> name, cap |-> object, id |-> id], k)
      /\ granted' = granted \cup {Cap(Hermes, id)}

\* DirectoryService_RegisterPath under the entry that parent names.  The
\* program gets a capability of the new entry.
RegisterPath(parent, path, object, k) ==
  LET id   == Len(dir) + 1
      name == NameOf(parent.object) \o path
  IN  /\ Place(dir, name, k)
      /\ dir' = Added(dir, [name |-> name, cap |-> object, id |-> id], k)
      /\ granted' = granted \cup {Cap(Hermes, id)}

Register ==
  /\ Len(dir) < MaxEntries
  /\ \E parent \in granted, path \in Names, object \in Objects, k \in 1 .. Len(dir) + 1 :
       RegisterPath(parent, path, object, k)
  /\ UNCHANGED call

-----------------------------------------------------------------------------
Answer(c, cap, rest) == call' = [call EXCEPT ![c] = [state |-> "resolving", cap |-> cap, rest |-> rest]]
End(c, state) == call' = [call EXCEPT ![c].state = state]

\* hpf_resolve: the local directory.  A program resolves one path after another,
\* and one whose pointer left the path may get through all the same.
Begin(c, path) ==
  /\ call[c].state # "resolving"
  /\ \E i \in 1 .. Len(LocalDirectory) :
       /\ First(LocalDirectory, path, i)
       /\ Answer(c, LocalDirectory[i].cap, Drop(path, Len(LocalDirectory[i].name)))
  /\ UNCHANGED <<dir, granted>>

Asks(c, server) ==
  /\ call[c].state = "resolving"
  /\ call[c].rest # <<>>
  /\ call[c].cap.server = server

\* DirectoryService_ResolvePath of hermes: the first entry that covers the full
\* path; the characters of the parent's name are not counted.
HermesResolves(c) ==
  LET base == NameOf(call[c].cap.object)
      path == base \o call[c].rest
  IN  /\ Asks(c, Hermes)
      /\ call[c].rest[1] = Slash
      /\ \E i \in 1 .. Len(dir) :
           /\ First(dir, path, i)
           /\ IF Len(dir[i].name) < Len(base) THEN End(c, "astray")
              ELSE Answer(c, dir[i].cap, Drop(path, Len(dir[i].name)))
      /\ UNCHANGED <<dir, granted>>

HermesRefuses(c) ==
  /\ Asks(c, Hermes)
  /\ \/ call[c].rest[1] # Slash
     \/ NoneCovers(dir, NameOf(call[c].cap.object) \o call[c].rest)
  /\ End(c, "failed")
  /\ UNCHANGED <<dir, granted>>

\* ResolvePath of the file server, which looks the whole path up whatever
\* object the capability names.  It leaves resolved_chars unset, so the number
\* that reaches the program is anything; beyond the path the program is lost.
FileServerResolves(c) ==
  /\ Asks(c, FileServer)
  /\ LET rest == call[c].rest
     IN  \/ \E n \in 0 .. Len(rest) : Answer(c, AFile, Drop(rest, n))
         \/ End(c, "lost")
  /\ UNCHANGED <<dir, granted>>

FileServerRefuses(c) ==
  /\ Asks(c, FileServer)
  /\ End(c, "failed")
  /\ UNCHANGED <<dir, granted>>

\* Any other server takes the request for one of its own methods (DestroyTask,
\* Size), which answers 0; nobody answers for the nil thread.
OthersRefuse(c) ==
  /\ \E s \in Others : Asks(c, s)
  /\ End(c, "failed")
  /\ UNCHANGED <<dir, granted>>

Finish(c) ==
  /\ call[c].state = "resolving"
  /\ call[c].rest = <<>>
  /\ End(c, "found")
  /\ UNCHANGED <<dir, granted>>

Step(c) ==
  \/ HermesResolves(c) \/ HermesRefuses(c)
  \/ FileServerResolves(c) \/ FileServerRefuses(c)
  \/ OthersRefuse(c) \/ Finish(c)

NamingNext == Register \/ \E c \in Clients : Step(c) \/ \E p \in Targets : Begin(c, p)

NamingSpec == NamingInit /\ [][NamingNext]_namingvars

\* Servers answer and a program that is asking goes on: hermes, the file server
\* and the client are threads that the kernel's round-robin scheduler runs.
FairNamingSpec == NamingSpec /\ \A c \in Clients : WF_namingvars(Step(c))

-----------------------------------------------------------------------------
NamingTypeOK ==
  /\ dir \in Seq([name : Path, cap : Capability, id : 1 .. MaxEntries])
  /\ granted \subseteq [server : {Hermes}, object : 0 .. Len(dir)]
  /\ call \in [Clients -> [state : {"idle", "resolving", "found", "failed", "astray", "lost"},
                           cap : Capability, rest : Path]]

\* The first entry of the list that covers a path is the one with the longest
\* name, and the oldest of those with the same name: stopping at the first
\* match is enough (hpf_directory_add, hpf_directory_resolve).
LongestOldestWins ==
  \A p \in Targets : \A i, j \in 1 .. Len(dir) :
    First(dir, p, i) /\ Covers(dir[j], p) =>
      \/ Len(dir[j].name) < Len(dir[i].name)
      \/ dir[j].name = dir[i].name /\ dir[i].id <= dir[j].id

\* No answer of hermes makes hpf_resolve's pointer leave the path: hermes never
\* finds an entry with a shorter name than the parent's, for which subtracting
\* internal_chars would make resolved_chars negative.
NeverAstray == \A c \in Clients : call[c].state # "astray"

\* Whatever is registered meanwhile, aliases of one path under another
\* included, hermes does not lead a program round in circles: each hpf_resolve
\* that asks hermes comes to its end or to another directory.
AsksHermes(c) == call[c].state = "resolving" /\ call[c].cap.server = Hermes
HermesLetsGo == \A c \in Clients : AsksHermes(c) ~> ~AsksHermes(c)

\* A step of hermes makes progress: the path gets shorter, or hermes leads to
\* another server, or to an entry registered before (hpf_resolve's loop).
HermesLeadsOn ==
  [][\A c \in Clients : HermesResolves(c) =>
       \/ Len(call'[c].rest) < Len(call[c].rest)
       \/ call'[c].cap.server # Hermes
       \/ call'[c].cap.object < call[c].cap.object]_namingvars

\* Hermes implements a namespace in which a name, once bound, stays bound to
\* the same object: a program that resolved it yesterday and one that resolves
\* it today talk to the same server.
Bound == {dir[i].name : i \in 1 .. Len(dir)}
Binding(n) == dir[CHOOSE i \in 1 .. Len(dir) : First(dir, n, i)].cap
Abstract == INSTANCE Namespace WITH binding <- [n \in Bound |-> Binding(n)]
ImplementsNamespace == Abstract!Spec
=============================================================================
