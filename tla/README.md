# Hasenpfeffer: a verification project

Hasenpfeffer is a small multi-server operating system on the L4 (Pistachio)
microkernel: a root task that manages memory and threads, a root name server,
a console, an IDE driver, an ext2 file server, and a C library that hides calls
of the servers behind stdio. On top run a few programs, of which the interpreters of
Scheme and BASIC are the largest. This directory models that system in TLA+. TLC
checks the models on small instances; TLAPS proves the properties of ten
parts of it for all values of their constants.

Paths of code are relative to the repository's `src/` directory:
`olymp/src/memory.c` stands for `src/olymp/src/memory.c`. `doc/` is the
repository's own.

1. [The system](#1-the-system)
2. [Plan](#2-plan)
3. [Modules and code](#3-modules-and-code)
4. [Runs](#4-runs)
5. [Fairness, deadlock, bounds](#5-fairness-deadlock-bounds)
6. [Proofs](#6-proofs)
7. [Where the code departs from what is said of it](#7-where-the-code-departs-from-what-is-said-of-it)
8. [What is not modelled](#8-what-is-not-modelled)

To repeat everything: `tlc -config X.cfg M` for each row of section 4, and
`tlapm M.tla` for the eight modules `*Proofs.tla`. `PROJECT.json` lists the
same runs, the lines of source each definition stands for, the mutants (one
plausible bug of the code per property, which the property must catch), the
hazards and the theorems.

## 1. The system

### Who runs, and who talks to whom

    sigma0 ---- frames ----> olymp (root task)
                              |  thread "main":  launches the boot modules, then
                              |                  serves TaskManager
                              |  thread "pager": answers page faults
                              v
    hermes (names) <--- RegisterPath --- console, idedrv, ext2fs
       ^                                    ^        ^       |
       | ResolvePath                        |        +-Read--+
       +--- every program (libhpf, libc) ---+--- Read / Write of files

Everything between programs is a synchronous L4 call through stubs generated
from `interfaces/*.idl`. A server is one thread that takes one request at a
time, so a handler of a server is atomic with respect to that server's state
and not with respect to anything else. Memory is shared only between threads
of one task: the two of olymp, and those of a program that starts threads.

### Components

| Component | State | Operations | What is hard | What makes it correct |
|---|---|---|---|---|
| **mutex** (`libk`, `libc`: `mutex.c`, `try_lock.S`) | `holder`, `count` | `mutex_lock`, `mutex_unlock`, `mutex_count_lock`, `mutex_count_unlock` | `try_lock` discards the outcome of its `cmpxchg` and reads the holder again; the count is changed without atomic instructions; no queue | at most one thread inside; the count is the depth of the holder; somebody gets in |
| **memory manager** (`olymp`: `memory.c`, `bitmap.c`, `memory_manager.c`) | frame bitmap, lists of mempages per space, slab pools; the kernel's mappings | `kmalloc`, `kfree`, `address_space_new`, `_destroy`, `_request_page`, page faults | alignment of blocks and fpages; steps of one request that fail after others succeeded; reuse of frames | the bitmap is exact; blocks are disjoint; a program sees only memory it owns, and always the same one |
| **its two threads** | the same, plus `memlock`, `thrlock` | the same, from `main` while programs are launched and from `pager` | kmalloc has a lock, slabs and lists have none | a frame is granted once; the two never wait for each other; no frame for two programs |
| **slabs and lists** (`slab.c`, `list.c`) | free lists, linked lists | `slab_alloc`, `slab_free`, `list_push`, `list_pop`, `list_find`, `list_remove` | records addressed by their payload; refilled from kmalloc | each slab is used once |
| **task manager** (`thread.c`, `task_manager.c`) | thread numbers, thread list, slots of each space, the thread that stands for a space | `task_new`, `thread_new`, `thread_destroy`, capabilities of threads | numbers are used again; the space outlives the thread that stands for it; the kernel may refuse | numbers and slots are neither lost nor shared; capabilities name their thread alone (as far as the clock goes, section 7) |
| **hermes** (`hermes/service.c`) | a directory sorted by length of name | `RegisterPath`, `ResolvePath`, `GetRootCapability` | aliases; registrations between the questions of one resolve; offsets that are subtracted | longest and oldest name wins; resolving makes progress; a bound name keeps its object |
| **libhpf** (`dir.c`) | the local directory of a program | `hpf_directory_add`, `_resolve`, `hpf_resolve` | a loop over several servers without a bound | the pointer never leaves the path; the loop ends at hermes |
| **libc streams** (`fgetc.c`, `ungetc.c`, `fread.c`, `fseek.c`) | position, stack of pushed-back and fetched bytes, eof | as the files are named | the lock is given back in the middle of `fgetc`; `ungetc` has none; one stack for two purposes | every byte once and in order; calls end |
| **file server** (`filesys/service.c`) | one cached inode, one cached run of blocks | `Read`, `ResolvePath` | a cache between requests of different files; failures halfway | answers are the bytes asked for; refusals have a cause; a path gives the file it names |
| **ext2fs** (`ext2fs.c`) | none (an inode in, blocks out) | `ext2_mount`, `ext2_lookup_inode`, `ext2_read_file_block`, `ext2_lookup_path` | indirect blocks and 32-bit arithmetic; names that are compared by a length of eight bits; directories of several blocks | each block is the one the format names; a name is found if and only if it is there |
| **startup** (`olymp.c` and the servers' mains) | boot order, capability of hermes, what is registered, who waits at the console | launching, registering, mounting, printing, reading | the console serves nobody while it waits for a key | every program gets names; all servers come up, in any order |
| **console** (`console`) | cursor | `Read`, `Write` | hardware | see startup |
| **idedrv** (`idedrv/main.c`, `service.c`) | the disk's size, a buffer | the search for disks, `Read`, `Size`, `Write` | requests for a part of a sector, none, or across the end of an offset | an answer has the words of the place asked for; the buffer holds what is read |
| **mindrvr** (`idedrv/mindrvr.c`) | what is on the cable, the last error, the deadline of the command | `reg_config`, `reg_reset`, `reg_info`, `reg_pio_data_in_lba48` | devices that answer late, in error, or never; a clock that wraps | every wait ends; a command's error is its own (it is not, section 7); nothing is given up early |
| **scheme** (`scheme/scheme.c`) | cells in segments, the free list, registers, a stack made of cells | reading, evaluating and printing; the collector | the collector may run at any allocation; it walks the cells with no stack by turning their links; memory gives out in the middle of an operation | what is written is what the text means; what is in use is kept, the rest is freed |
| **libc heap** (`malloc.c`) | `heap_start` | `malloc` (moves a pointer), `free` (nothing) | no lock | not modelled, section 8 |
| **basic** (`basic/basic.c`) | the place in the text, labels, variables, a stack of loops and one of subroutines | its statements | NEXT and RETURN find their partners by the order of execution; the parser reads one token too far and puts it back; tables at their limit | a program prints what its blocks mean, a faulty one its fault |
| **libc/libk, the rest; hello; IDL** | – | `fgets`, `strtol` | sequential or third-party code; `fgets` takes keys back | the numbers BASIC reads are those that were typed; else section 8 |

### What is hard to test here

`PROJECT.json` lists forty hazards with their lines. They fall in six groups:
interleavings of two threads in one task (mutex, pager and main, streams);
requests that fail after half of their steps (page faults, threads the kernel
does not delete, reads of several blocks); things that are used again (frames,
thread numbers, cached blocks, names, Scheme's cells); arithmetic at a boundary
(blocks at a multiple of their size, indirect blocks, counts of sectors, the
driver's deadline); loops and waits with no bound of their own (spin lock,
`hpf_resolve`, `fgetc`, polling the disk, the console); and a device that
answers when nobody asks it any more.

## 2. Plan

The order is by what would hurt most: the root task first, since nothing is
safe if frames or threads are mixed up; then names, through which programs
find everything; then the streams and files that programs work with.

| Step | Modules | State |
|---|---|---|
| 1 | `RecursiveLock` ⊑ `Mutex`, `LibcProofs` | checked, proved |
| 2 | `FrameOwnership` ⊑ `Memory`, `MemoryProofs` | checked, proved |
| 3 | `PagerRace`: two threads on `Memory`'s pool and lists, `PagerRaceProofs` | checked, proved |
| 4 | `ThreadTable`, `ThreadTableProofs` | checked, proved |
| 5 | `Directory`, `Namespace` ⊑ `NameService`, `NameServiceProofs` | checked, proved |
| 6 | `ByteStream` ⊑ `Stdio`, `LibcProofs` | checked, its safety proved |
| 7 | `Ext2Map` and `Ext2Dir` in `FileServer`, `FileServerProofs` | checked, proved |
| 8 | `Startup`, `ProgramsProofs` | checked, its safety proved |
| 9 | `AtaDevice`, `MinDrvr`, `IdeServer`, `IdeServerProofs` | checked, its safety proved |
| 10 | `SchemeTable`, `Cells`, `SchemeCells`, `SchemeEval`, `SchemeProcs`, `SchemeText`, `Scheme`, against `SchemeMeaning`; `Storage`, `ProgramsProofs` | checked, the memory and its collector proved |
| 11 | `BasicText`, `Basic`, against `BasicMeaning`; `MCInterpreters` | checked |
| 12 | main destroying a space while the pager answers its fault (`thread.c:141`) in `PagerRace` | open |

`A ⊑ B` above: A is what B promises, and B is shown to implement it. `Directory`,
`Ext2Map` and `Ext2Dir` are modules of operators that `NameService` and `FileServer` extend;
`AtaDevice` is the hardware below `MinDrvr`, which `IdeServer` calls. The modules of
the Scheme interpreter extend each other in the order above, `Storage` extends `Cells` alone; `SchemeMeaning`
shares only the tables of names with them, and `BasicMeaning` only the tokens with `Basic`.
Parts that do not interact are checked side by side: `MCUserland` has `Mutex`, `Stdio` and `Startup`, `MCOlymp` has `Memory`,
`PagerRace` and `ThreadTable`, `MCServices` has `NameService` and `FileServer`, `MCInterpreters` the interpreters and `Storage`.
A behaviour of such a module is about one of its parts, the `subject`; the others rest.
Modules named `MC...` give constants that a `.cfg` file cannot write down.

## 3. Modules and code

### Mutex

State: `holder`, `count` as in `mutex.h`; `pc` and `depth` are where a thread is and
how often it has entered. One action per access of shared memory:
`CompareExchange` and `CompareHolder` are the two reads of `try_lock.S`,
`Increment`, `Decrement`, `IfZero` and `Release` the statements of
`mutex_count_lock`, `mutex_count_unlock` and `mutex_unlock`. A thread calls
unlock only if it is inside, as every caller in the repository does. `needed`
is never set by any code and is left out. libk and libc hold identical copies.

### Memory

State: `bitmap` is the set of frames whose bit is 1; `blocks` are the outstanding
results of kmalloc with the space and the virtual base of their mempage (those of
olymp itself belong to `Root`); `pool` counts free slabs; `mapped` is what the kernel has
mapped in answer to faults. Addresses count pages. Actions: `RootKmalloc`,
`AddressSpaceNew`, `AddressSpaceDestroy`, `LoadSegment` (what `elf.c` and
`thread_prepare_stack` ask for), `ThreadStart`, and the three outcomes of
`Pager_pagefault`: `FaultOnDevice`, `FaultOnKnown`, `FaultOnNew`. An action is the whole
operation with its failures: no slab, no memory for more slabs, no frame.
`FindPages` is `bitmap_find_pages` with its quirks: steps of the size of the
request, an end one block early, 0 for "none". `FpageAddress` is the masking of
L4 flexpages: if the code ever allocated a block off its alignment, what is
mapped would differ from what is marked, and `MappedIsOwned` would fail.

`FrameOwnership` says what that is good for: every frame belongs to somebody, is
taken only while free, and changes hands only by becoming free.

### PagerRace

The same request for one page, cut into the accesses that two threads can
interleave: searching the list of the space; testing, reading, advancing the
head of the pool (`slab.c:75`; the system is compiled with -O0, so each access in
the source is one in the machine); kmalloc's lock, search and mark; filling in the
record; pushing it on the list. `main` runs it for the segments and the stack of
the program being launched, the stack under `thrlock`; `pager` for pages that running
programs touch. Slabs are linked by `snext` and `lnext`, so lists may run into each
other or into a circle (`Spin`: such a list is searched for ever). Reading through
a null head gives any record. Left out: several pages, refilling, destruction.

### ThreadTable

State: `tnobitmap` (the `bitmap` of `thread.c`), `threads` (the list, a set of records), `addrspaces`,
`head[s]` (`as->tid`), `slots[s]` (`as->threads`), `running` (what the kernel may run), `caps`
(capabilities handed out), a `clock`. Actions: `Launch` (boot), `NewTask`,
`NewThread`, `GetMyCapability`, `DestroyThread`, the requests of
`task_manager.c`, each with what it calls in `thread.c`. Everything runs in
`main` under `thrlock`. A refusal changes nothing and is a stuttering step, except where
the code goes on after it (`TaskNew`: the second `ThreadControl` is not looked
at). `born` is a history variable: it tells threads apart which have the same number.
The clock goes by ticks (`Now`): the next thread is created in the same tick or in the next one.
`DestroyTask` is a stub, and `task_destroy`, which would be behind it, has no caller.

### Directory, NameService

`Directory` has `hpf_directory_add` (`Place`, `Added`) and the search of
`hpf_directory_resolve` (`Covers`, `First`), used for both local directories and hermes.
`NameService` has hermes' directory `dir`, the capabilities of hermes that are
in use, and `call[c]`, the `hpf_resolve` of program c: the capability it asks next and what is
left of the path. `Begin` looks in the local directory; `HermesResolves` is
`ResolvePath` with its `resolved_chars - internal_chars`; `FileServerResolves` takes
any number of characters, since the file server does not set it; `Register` is
`RegisterPath` by any program, directly, under a directory, or as an alias of
another object. Registrations come between the questions of one resolve. A
pointer that moves back or past the end makes the state `astray` (by
hermes) or `lost` (by the file server).

`Namespace` is the promise: a mapping from names to objects that only grows.

### Stdio

One stream on a file of a server. `Pop`, `Fill`, `FindEnd` are the three cases of `fgetc`;
after `Fill` the lock is free until the recursive call (`again`). `UngetPick` and
`UngetStore` are `ungetc`, without a lock. `Seek` is `fseek` to a place of the file, `Read` is
`fread` with its chunks, of which one that comes short is dropped. `call[t]` is where a
thread is in these functions. `usage` says which threads of the program (`Callers`) call what. `ByteStream` is the promise; `Coming` (the stack from
its top, then the rest of the file) is the mapping. The servers refuse a chunk of `MaxOutput` bytes, and `fread`'s chunks
are just as long: the freads for which that is so are `TooLong`, and of them `ByteStream` promises only that they do no harm (`Refuse`).

### Ext2Map, Ext2Dir, FileServer

`Ext2Map` names a block by the way that leads to it: `Home(n)` is the way the format
gives to block n, `Way(n)` the one that `ext2_read_file_block` takes, with its 32-bit
subtraction. `FileServer` is `File_Read`: the cached inode, cached blocks and the
test whether they serve (`Hit`), the read into the cache (`ReadMiss`), the failure
after some blocks (`ReadFails`), the refusals. A byte in the cache is its file, way and
place, so a reply shows where its bytes came from. `service.c` counts in blocks of 1024 bytes
(`ServiceBlock`), `ext2fs.c` in those of the file system (`BlockCells`); `SameBlocks` assumes that they are the same (section 7). `work` is which files are read,
which paths are asked for, and whether the disk fails; `failed` is a history variable.

`Ext2Dir` is `ext2_lookup_path`: `Lookup` takes the path name by name, `Search` the entries
of a directory one by one, `Matches` compares a name with an entry as the code does, by
a length kept in eight bits. Only a directory's first block is
read, and the offset in it is not reduced to the block: an entry further on is
read from what lies behind the buffer, which may be anything (`Anything`). `ResolvePath`
is the server's handler. `Leads` says what a path should lead to, by the tree
alone; `NamesWhatIsThere` compares, for paths of which no name has to be looked for in a second
block (`BehindBlock`; an entry of that name in the first block that is removed does not count).

### Startup

`order` is the order of the boot modules; `step[p]` where program p is in its script: register and
serve for the servers, open and mount for the file server, print and read for
users. `Launch` and `GetRootCapability` are olymp's loop; `Printf` and `Fgets` contain
stdio's search for the console, including the capability that remains when the search fails;
`Key` lets the console go on. With that remaining capability a program calls hermes, where a write is method 1, `UnregisterPath`, which
does nothing, and a read method 0, `RegisterPath`. What path the latter gets is up to stubs that IDL4 generates and that are not in
the repository; the model takes it for one without a slash in front, which hermes refuses, or one that nobody asks for (`Reaches`).

### AtaDevice, MinDrvr, IdeServer

`AtaDevice` is what the driver sees of a device (external code): the bits of its status register,
its signature after a reset, the command it works on. A device takes as
long as it likes, fails with or without data ready, or does nothing for ever; it takes no
command while it is busy, and 0 in the count for the largest number.

`MinDrvr` has one action for each place where the code waits or goes on: `Probe`,
`ResetFirst`, `ResetSecond`, `Classify` (`reg_config`), `Ask`, `Answer` (`reg_info`),
`ReadSectors`, `SelectFirst`, `SelectSecond`, `Command`, `WaitPoll`, `Data`
(`reg_pio_data_in_lba48` with `sub_select`, `sub_setup_command`, `sub_wait_poll`). A loop that polls
is an action whose guard is the loop's exit: the device has answered, or the clock has passed the
deadline. The clock is a signed word that wraps (`LongOf`), and so does the
deadline. `ec` is `reg_cmd_info.ec` with the code's numbers. `waited` is a
history variable. `pio_rep_inword` stores each 16-bit word as 32 bits, as the code does.

`IdeServer` is the server: the search for disks (`Skip`, `Serve`, `GiveUp`), then one request after the
other. `Read` computes the sectors as `service.c` does: the last one counts only
as far as it is whole, and the difference may be none or below zero. Words of the disk are
named by their place, so an answer shows where it came from.

### Scheme

The interpreter as it runs a text from the console, one action per opcode of
`Eval_Cycle`. `Cells` holds what works on the cells alone: `mark`, the walk that turns the links of the structure, with one operator per label of
the code (`Visit`, `MarkElement`, `DownCar`, `DownCdr`, `Up`), its call by `gc` for one pointer after the other
(`NextRoot`) and for the cells of a vector (a stack of waiting calls); the sweep (`Swept`); segments
(`alloc_cellseg`), and how cells come off the free list, one (`Taken`) or several in a row
(`find_consecutive_cells`). `SchemeCells` adds the interpreter's registers, `gc` from them, `get_cell` and everything
that allocates, in the order in which the code does it. `SchemeEval` is the evaluation of syntax and calls,
with the stack as a list of cells; `SchemeProcs` the procedures and the check of their arguments
(`SchemeTable` is `opdefines.h`); `SchemeText` reader, printer, top level and errors.
`sc` is `struct scheme`; a value that the code holds in a C variable is a bound variable in an
action, and is not among the collector's roots unless the code passes it to
`get_cell`. So an action shows which allocations are safe.

For the interpreter a collection is one step, since nothing runs beside it. `Storage` is the same memory, with the same
operators of `Cells`, at work for any program, and the collector goes label by label. The program is not known; it keeps to the contract
that `get_cell` and `gc` imply: what it uses it reaches from its registers (`regs`), or it is the cell made last
(`mem.new`), or it is given to `get_cell` as what the new cell will hold (`scheme.c:610`, "parameter a, b is
marked by gc"); cells of a vector it knows by the vector only. Within that it does anything: it loads registers, writes
pointers (`set-car!`, `set-cdr!`), types (`macro`), elements of vectors (`vector-set!`) and whole cells (what `force` does), asks for cells,
vectors, segments and collections. `asked` is the call that waits while the collector runs, `heap` the memory and the roots with
which it began. Where the code breaks this contract (section 7: `list*`, `write` with a port, `force` of a vector)
it is outside of `Storage`, and the texts of `Scheme` leave it out.

`SchemeMeaning` says what a text should write: a reader, an evaluator by recursion and a printer,
over objects that are never given back. It knows no cells, registers, stack or
collector. `MCInterpreters` pairs each text with its meaning.

### Basic

The interpreter once `load_program` has the text, one action per statement named after the
function that executes it; `scan_labels` is the first step. The text is a sequence of tokens and `prog` a place in it;
`level` is `level2` to `level6` for their number, and a result has the place of the token that was read
last, to which `putback` returns. `fstack` and `gstack` are the code's, their lengths `ftos` and `gtos`.
`serror` prints and ends the run, as `longjmp` does. `last_delim` of `print` is not initialized, so
a PRINT of nothing takes one of two ways.

INPUT reads what is typed with `fgets` and `atoi`, which are in `BasicText`: keys go into a buffer, of which a backspace
takes one back, and the number is what follows blanks and a sign. The buffer is on the stack and
not initialized, so that what it held before is one of two characters.

`BasicMeaning` has programs as blocks in blocks, their meaning by recursion over the blocks, and their
text with as few parentheses as the precedences allow. `MCBasic` adds texts
that come from no blocks, with what they should print written down. In `MCInterpreters` one of Scheme, BASIC and
the memory of `Storage` runs while the others wait.

## 4. Runs

| Run | Module, config | Distinct states | What it shows |
|---|---|---|---|
| userland | MCUserland, `Userland.cfg` | 16,661 | the lock: three threads, nested three deep: exclusion, count = depth, somebody always enters, implements `RecursiveLock`. Streams: one thread that reads, pushes back and seeks; two that share characters; two that share blocks: implements `ByteStream`, calls end. The start: every order of boot modules after hermes: everybody has names, all servers come to serve |
| stdio_chunk | MCStdio, `Stdio_chunk.cfg` | violation | `ShortOnlyAtTheEnd`: a chunk of `fread` is refused and the end of the file reported |
| olymp | MCOlymp, `Olymp.cfg` | 425,898 | memory: two spaces on nine frames: bitmap exact, blocks disjoint, mapped memory is owned and stays the same, implements `FrameOwnership`. Main and the pager: a frame that one found free is still free when it takes it; no deadlock. Threads: boot, then creation and destruction until numbers and slots run out: numbers, slots, spaces exact; nothing runs unlisted; once the clock has gone on, no new thread answers to an old capability |
| pager_foreign | PagerRace, `PagerRace_foreign.cfg` | violation | `NoForeignPage`: one slab for two pages, one frame for two programs |
| threads_tick | ThreadTable, `ThreadTable_tick.cfg` | violation | `CapabilityNamesOneThread`: two threads of one tick and one number, and the capability of the first acts on the second |
| services | MCServices, `Services.cfg` | 118,754 | hermes: any three registrations between the steps of a resolve: best match, progress, an end at hermes, implements `Namespace`. Files: all reads in any order of files with direct, indirect, double and triple indirect blocks, alone, together, and from a failing disk: place, length and refusals are right, one file alone is read exactly; paths through directories with removed, similar and far entries lead to what they name |
| files_stale | MCFileServer, `FileServer_stale.cfg` | violation | `ReadIsExact`: a second file is answered with the blocks of the first |
| disk | MCIdeServer, `IdeServer.cfg` | 1,407,806 | devices of four kinds that answer late, in error or never: answers are words of the place asked for, the buffer holds what is read, nothing is given up before its time (or the clock wrapped), every request ends |
| disk_error | MCIdeServer, `IdeServer_error.cfg` | violation | `ErrorIsOfTheCommand`: a read that meets no error fails with that of the reset |
| interpreters | MCInterpreters, `Interpreters.cfg` | 690,189 | Scheme: sixteen texts that use every modelled opcode, each in memories of 25 sizes: what is written is what the text means, and the collector, wherever it is called, frees what cannot be reached and nothing else. Any program at work in the memory: what it can reach changes by its own writing only, and each collection is exact; so it is in all memories of three cells and with vectors in vectors. BASIC: 2,340 programs print what their blocks mean, or their fault, and leave no loop or subroutine open |
| scheme_vectors | MCInterpreters, `Vectors.cfg` | violation | `FailsWhenAllFail`: a collection brings cells enough for a vector, and the call reports no memory |
| basic_for | MCInterpreters, `EmptyLoops.cfg` | violation | `OnlyLoopsThatCount`: a loop that cannot count is pushed and its body executed |

The seven runs that end in a violation are disagreements of the code with a
sentence of its documents or comments (section 7). The types of `Mutex`, `Memory`, `PagerRace`,
`ThreadTable`, `NameService`, `Stdio`, `FileServer` and `Startup` are proved (section 6) and in no run.

## 5. Fairness, deadlock, bounds

**Fairness.** Where a liveness property is checked, it is under the fairness that L4 gives:

- `Mutex`: weak fairness for each thread inside a call of the lock; the kernel's
  round-robin scheduler runs every runnable thread. Nothing makes a thread call.
- `NameService`: weak fairness for each client that is resolving: servers are threads
  that wait for a request, answer it and wait again.
- `Stdio`: weak fairness for a thread inside a call. `CallsEnd` is claimed for a stream that one
  thread reads by characters; two may starve each other (section 7).
- `Startup`: strong fairness for programs, because a call waits until its server is
  free and L4 queues callers of one thread in their order: a caller whose
  turn comes again and again is served. Weak fairness for `Key`: somebody sits
  at the keyboard. Without it nothing that prints gets on, which is
  the system's design.
- `IdeServer`: strong fairness for a step of the driver, because a thread that polls runs again and
  again and one of its polls falls after the deadline, even if
  the clock wraps and the deadline is passed only from time to time; weak
  fairness for the clock. Nothing is assumed of the devices: they may be busy for ever.

**Deadlock** is checked in all passing runs but `interpreters`, where a program ends at the end
of its text, with an error, at `(quit)` or without memory. In `olymp` the thread table may rest: after the bounded number of
creations and with no capability left it really stops (as a system in which all
threads have been destroyed does). That main and the pager never both wait (`thread.c:107`) is shown by this check
alone, no property states it.

**Bounds.**

- `Mutex`: three threads give a holder, a contender between the two reads, and
  a third that interferes. The proofs hold for any number and any depth.
- `Memory`: nine frames of which one in the middle is missing, requests of
  one and two pages (so alignment matters, and a hole does not fit), one slab per pool at the
  start (so the second request already needs more), refills of one page, which may
  not be there. Proved without bounds.
- `PagerRace`: two programs (the races need one running and one being launched),
  three slabs and six frames: the free list can be emptied by one thread between two accesses
  of the other, and frames outlast slabs and do not outlast double use.
- `ThreadTable`: five numbers of which two are taken, three slots, five creations:
  numbers are used again at least twice; two spaces, so that the end of one meets the threads of another. `MaxCreations` bounds the counter `serial` and with it the clock.
  Proved for all values, `MaxCreations` included.
- `NameService`: names `/a` and `/aa` (a prefix in characters, not in components), three
  entries: an alias, an alias of the alias, and a third that shadows. `MaxEntries` bounds
  the directory. Proved for all paths and any number.
- `Stdio`: a stack of two slots on a file of seven bytes, a limit of the servers of four and chunks of `fread` as long as the limit, as both are 4096 in
  the code: a fetch that fills the stack, one that half fills it, freads below the limit, at it, over it and behind the end.
- `FileServer`: one direct block, two addresses per block, two bytes per block, so
  a file of eight blocks reaches the triple indirect one; `WordRange = 256` stands for 2^32, and
  the model only uses that it is larger than any file. Offsets go one byte
  behind the end and counts up to the limit that is refused: beyond these the code's
  branches do not change. The tree has a directory in the root with a removed entry (no inode), names of which one
  begins another, and an entry in the second block; paths name each
  of them, with slashes in front, doubled and at the end. `NameRange = 3` stands for the 256 of
  an eight-bit length. Reading is proved for all files, sizes and limits.
- `IdeServer`: a disk of three sectors of two words; requests for two whole sectors, for the largest from the middle
  of one, for half of one and half of the next (of which only the first is read), for a half that makes no sector, behind the end, across the end of what an offset can name, and for
  more than the limit; a clock of four values, so that the
  deadline wraps for half of its starts; a cable with one disk, a disk and a
  CD drive, a device of no known kind, and no device 0.
- `Scheme`: segments of 16 to 40 cells, of which there may be three. The smallest cannot even hold
  the first frame, the largest never call the collector for most texts; between them the
  first collection falls on every allocation of a text in turn. A collection that
  brings less than eight cells per segment asks for another segment, as in the code.
- `Storage`: a program with one register in three segments of two cells, with vectors of one element (two cells in a row), and
  `MaxWork` 6 things that it does: enough to fill all segments, to collect, to find two cells in a row or not, and to use cells a second time. And
  collections in all memories of three cells, each a number or a pair of any two pointers, marked from two of them (`OfPairs`: cycles,
  shared cells, garbage that leads to what lives), and of two vectors, of three elements and of one, that hold each other, themselves
  and a pair in any way (`OfVectors`: calls of mark within calls; the last half pair of elements). Proved without bounds.
- `Basic`: all expressions of two operations on three operands and signs (1,900 of them); every pair of eight statements in
  a loop, a repetition and a subroutine called in a loop, so that loops stand in subroutines in loops, jumps go
  back to the middle of loops and both stacks are at their limits: `FOR_NEST` 2 for 25, `SUB_NEST` 3
  for 25, `NUM_LAB` 6 for 100. The numbers for INPUT
  are typed with blanks, signs and wrong keys that are taken back; a line has `LINE` 6 places for 79, and one that
  is longer goes on in the next INPUT. Every message is printed once, but "too many nested FOR loops", which comes only after a
  write behind the stack (section 7).
- `Startup`: four servers and one interactive program; more programs print and
  read the same way. `EveryoneHasNames` is proved for any number.

## 6. Proofs

TLAPS proves the 42 theorems that `PROJECT.json` lists (11,401 obligations). None
rests on anything but the `ASSUME`s of the modules and the facts of the library.

**Mutex** (`LibcProofs`; `ThreadAssumption`, `DepthAssumption`). `LockIInv` of `Mutex` adds to
the types: who is inside is the holder, the count is the holder's depth, and what the branches
have established at each place of the code. The second, unlocked read of the holder is
harmless because only a thread's own `cmpxchg` writes its name there and only
its own release removes it; that is the conjunct `Inside(t) => holder = t`. From it:
`LockTypeCorrect`, `Exclusion`, `CountCorrect`, and `LockRefinement` (the count is
nonzero exactly from `Increment` to the last `Decrement`, which are the steps
`Enter` and `Leave`).

**Memory** (`MemoryProofs`; the six named assumptions: sizes are sensible, the
video page is below 1 MB, segments of one program do not overlap and cover no device
page). `Allocation` (types, exact bitmap, disjoint aligned blocks) is inductive: a
free block that `FindPages` returns has no bit set, lies in memory and on a
multiple of its size (`FindPagesFinds`), frame 0 is always reserved so that 0 can
mean "none" (`ZeroReserved`), and marking a found block or clearing a destroyed space keeps it
exact (`AddBlock`, `FreeBlocks`). That gives `TypeCorrect`, `BitmapIsExact`,
`BlocksAreDisjoint`. `MInv` adds `Mapping` (each mapping comes from an outstanding
block of the space, at the matching offset, or is a device page) and `Apart`
(virtual ranges of one space do not overlap, which holds since a program faults only
after its segments are loaded). That gives `MappedIsOwnedAlways`,
`ServedFromOneFrameAlways`. `Refinement` maps a frame to the space of the block it is in:
requests are `Take`, destruction is `Give`.

**ThreadTable** (`ThreadTableProofs`). `Table` = types, `NumbersExact`, `SlotsExact` and
`SpaceStandsForThreads` together are inductive; none is alone: that a new number
is free needs the numbers, that the successor of a destroyed thread exists needs spaces and
slots. `RunningAreListed` needs `Table`, since a
number that is freed must not be that of another record.
`CapabilitiesGoStale` is that of the clock: a thread that is created gets a reading that no older
reading exceeds, so a capability with a reading that has passed names no thread created since. Of a
reading that has not passed nothing of the kind is true (section 7).

**NameService** (`NameServiceProofs`). `IInv` = `DirInv` (the list is sorted by falling
length, then by age; numbers are one to the length; an entry that points back to
hermes points to an older entry) and `CallInv` (a resolve in progress that asks hermes
names an entry that exists), with `NeverAstray`. The argument for progress: the
name of the entry that a question starts from covers the whole path asked for,
because what is left of the path begins with a slash; so the longest match is at least as long
as that name (`FirstIsBefore`), and what is subtracted never exceeds what was matched. If
the match adds no character, it is that entry or an older one of the same name, which
points to a still older one or leaves hermes. From it: `FirstMatchIsBest`,
`NeverRunsAstray`, `HermesAlwaysLeadsOn`, `ImplementsTheNamespace`, `TypeCorrect`.

**PagerRace** (`PagerRaceProofs`; there is a first program, numbers of frames and slabs). `IInv` adds
to the types (whose last conjunct is that memlock is held exactly by the thread between
its lock and unlock) that what threads carry are slabs, and that a thread about to mark a frame
has found one. A step outside kmalloc leaves lock, bitmap and found frames alone
(`Outside`); inside, there is one thread (`Exclusion`). So kmalloc keeps its promise
(`FramesGrantedOnce`) although pool and lists may already be wrong, which is what the run
pager_foreign shows: the fault is in the slabs and not in the frames.

**FileServer** (`FileServerProofs`; `SameBlocks`: the blocks of the file system are the 1024 bytes that `service.c` counts in; they fit the server's limit
a whole number of times, files are no longer than their inodes can address, numbers of blocks
do not wrap). `IInv` = `Basic` (types; the inode that is cached is the one of the
number), `CacheInv` (until a read of blocks fails, the cache holds the run of blocks it is said
to hold, of some file of the workload) and `Answered` (the four properties). The
lemmas: the blocks of a request cover it and fit in the cache (`Span`, `Fits`); `Way`
and `Home` name the same block wherever `ext2fs.c` returns one (`WayIsHome`); byte k of an
answer comes from its place (`PlaceInBlocks`, `CutFromBlocks`); the code fails only from a
first missing block on (`FailsFar`). From them: `TypeCorrect`, `LengthCorrect`, `PlaceCorrect`,
`AloneCorrect` (with one file, "some file" is that file: `OnlyOne`), `RefusalsHaveACause`.

`NamesCorrect` (the same module; `EntryAssumption`, `NameAssumption`, `PathAssumption`: names are told
apart by their characters, and no directory lists one twice) is about the lookup, a recursion over the names of the path.
Induction is done without a principle that takes a predicate: the numbers up to n for which
the claim holds are a set, and the least number outside it would follow on one inside
(`StepByStep`); what a recursive definition stands for exists by the same argument
(`Recursion`). `NamesAre` gives the names of a path, `MatchesIs` that an entry of ordinary length matches exactly its name,
`SearchIs` that a search ends at what the directory lists, and `EnterIsRight` one step of the
induction: after k names, the lookup is where they lead, or nowhere if they lead
to nothing (`Right`). `Resolved` joins that to the answer. The first attempt showed that the property
excepted too little: a removed entry of the name in the first block hides the second block as little as none.

**Stdio** (`LibcProofs`; sizes are sensible; the file is bytes; servers answer to one byte and to a fetch, which is smaller than their limit;
programs use a stream as `usage` has it). `IInv` = the types (`StreamTypes`), the slots of the stack in use hold bytes (`StackHoldsBytes`), a stream
that is read by blocks has nothing on its stack, and `Midway`: a
thread between `UngetPick` and `UngetStore` has picked the place above the top, which is
true because no other thread is then at work on the stream (`PushesAlone`). From it
`StreamTypeCorrect`, which is that neither `ungetc` nor a fetch writes outside the stack,
and `StreamRefinement`: each action is a step of `ByteStream` or none under the mapping `Coming`.
`AheadIs`, `ArrivingIs` and `ElemsIs` say what is to come, byte by byte.
Of chunks nothing is assumed: an fread whose first chunk is refused (`TooLong`, `RefusedIs`), as every chunk of 4096 bytes is, is a step `Refuse` of
the promise, which brings and moves nothing and tells of the end (section 7); of all others `ElemsIs` and `WholeIs` hold.

**IdeServer** (`IdeServerProofs`; `DeviceAssumption`, `ClockAssumption`, `ServerAssumption`: sizes are
sensible, `TimeOut` is a value of the clock, the buffer has room for an answer and a sector). The inductive invariant relates driver, device and
request at each place of the driver: sectors that are read and those to come
are those of the call (`Sectors`, `SectorsApart`); a disk that is busy or has data for the driver is at the
sector that comes next, since `SelectSecond` waits until it is ready and only a busy disk moves; the buffer begins with the
sectors read so far (`BlockStands`, `DataReads`); `waited` is the clock less the start of the
command until the driver gives up, and the deadline is the start and `TimeOut`, wrapped (`LongOfWraps`). `ErrorIsRemembered`: with an error noted, the driver is at no place that takes data, which makes old errors those of all later
requests (`SilenceAfterError`; a consequence of what section 7 says of the error code, and nothing to wish for). From these
`AnswersCorrect`, `NeverOverrun` (a request is smaller than the limit and begins within a sector, so the word
cleared behind the last block still falls in the buffer), `SilenceAfterError` and `GivenUpNoSooner`.

**Startup** (`ProgramsProofs`; the servers are different programs, users are finitely many). `IInv` adds
that the boot order has no program twice, that only launched programs run, and that after the first
launch olymp either waits for hermes or has its capability (`Launched`). `NamesForEveryone`
follows since a module other than the first is launched only when olymp does not wait.

**Storage** (`ProgramsProofs`; `SizeAssumption`, `ContentAssumption`: sizes are numbers, constants take no cell, and a cell that is
filled in is no free cell and no vector). `StorageIsSound` is the inductive invariant `StorageInv`, for any number of segments, cells and
registers and any program within the contract of section 3:

- of the memory (`SoundMem`): cells lie in the segments that there are (`Bounded`), pointers lead to cells or constants, nothing
  that is not free leads to a free cell, the cells of a vector are its own and it alone leads to them
  (`SoundCells`), the free list begins with the first free cell and leads from each to the next, and `fcells` counts them; a run that
  `get_consecutive_cells` has forgotten (`LostCell`) is on no list, is led to by nothing, and comes back with the next sweep. That every cell
  outside of the free list leads to no free one, used or not, is what makes it inductive: what can be reached alone
  does not bound what `alloc_cellseg` and `find_consecutive_cells` touch;
- of the program: its registers and the cell made last are no free cells and no cells of a vector (`Safe`);
- while a call waits (`Collecting`): the cells are those with which the collection began, the registers and what the
  new cell is to hold are among the roots, and either the walk is as `Marks` says, or it has been swept
  (`Exact`).

A step of the program keeps it since whatever it may hold is `Safe` (`HeldSafe`, `WritesSound`). The first free cell taken leaves the second
as the first (`FirstTaken`); a run that is cut out leaves the list linked in order although it goes round the run
(`RowTaken`, over `CutOut`); a segment has only higher addresses than the cells that there are, so it is linked
up behind the last free one (`SegmentLinked`). The sweep makes the cells that cannot be reached free and so
cannot leave a pointer to a free cell in any other (`SweepKeeps`). From it follow `CollectionCorrect`, `MemoryStaysSound` (`MemoryIsSound`, in no run), and
`OthersDoNotWrite`: a cell that the program can reach is neither free nor outside of memory, and allocation and sweep write only such.

`Marks` is that `mark` needs no stack, and its lemmas are about every memory with `WellFormed`, be it of the interpreter or not: there is a path from the
pointer that gc gave to the cell at which mark is, such that (`OnPath`)

- the cells are those of before but for their marks and, along the path, for one link in each pair, which leads back instead of on, and
  T_ATOM, which tells which one (`Cells`, `Inverted`); a vector on the path is unchanged, and its call of mark waits
  (`Waiting`) with the place in it, the cells up to there marked (`Partly`);
- a marked cell off the path leads to marked cells only (`Black`); only what can be reached is marked (`Sound`); the pointers given before
  are marked (`Asked`).

No cell is twice on the path, since mark goes down to unmarked cells and marks them, and the cells of a vector, to which it goes down
unasked, are led to by their vector alone; this is where `WellFormed` is needed, which follows from `StorageInv` (`SoundIsWellFormed`). So going up finds in the inverted link what it put there
(`LongerPath`, `ShorterPath`, `CallMore`, `CallReturns`), and mark comes back to gc with all links as they were
(`ReturnsToGc`). At the end the marked cells hold the roots and are closed, thus contain `Reach`, and `Sound` gives the
converse (`SweptIsExact`).

**Only model-checked.** Liveness (`SomeoneEnters`, `HermesLetsGo`, `CallsEnd`, `ComesUp`, `AlwaysAnswers`): the
prover has no rules for fairness and ENABLED. `HermesLetsGo` is
nevertheless half proved: `HermesAlwaysLeadsOn` is the descent of a
well-founded order. That a collection comes to an end is checked in every collection that the texts bring about, and not proved.
And the interpreters: `OutputIsMeant`, `NothingInUseIsFree` and `CollectorIsExact` are claims about the texts that are run and are not true of all texts,
because of the departures of section 7 in which the code holds a cell where the collector does not look; what is true of
every program within the contract is proved of `Storage`. `BasicPrintsWhatIsMeant` compares with the meaning of a program.
Their modules have recursive operators (lists, expressions, the meaning of a text), which the
prover's arithmetic does not survive, and the meaning of every text is an induction over data. The modules with proofs
have recursive functions at most (`NamesIn`, `Lookup`).

## 7. Where the code departs from what is said of it

Seven disagreements with a document or a comment have a run:

| Code | What it does | What is said | Run |
|---|---|---|---|
| `olymp/src/slab.c:75` | the pool has no lock, `main` and `pager` take one slab | `doc/overview.txt:127`: a fault is answered with a page assigned to that task | pager_foreign |
| `filesys/service.c:137` | compares the cached file after overwriting it, so blocks of another file are served | `doc/overview.txt:55`: the server need not remember what was opened before | files_stale |
| `olymp/src/thread.c:193` | capabilities are told apart by a clock that goes by ticks: if a thread is destroyed and its number given out again within one tick, the old capability acts on the new thread | `doc/overview.txt:62`: a capability proves the right to access the object | threads_tick |
| `libc/src/fread.c:103` | asks for 4096 bytes at a time, which both servers refuse (`>=` at `filesys/service.c:123`, `idedrv/service.c:52`): the end of the file is reported | the comment of the line: "max buffer size for File interface" | stdio_chunk |
| `idedrv/mindrvr.c:2424` | the error code is cleared by nothing: after one error, be it at the reset, every read is refused | `idedrv/mindrvr-guide.txt:156`: "information about the last reset or command"; `265`: "Returns 0 if no error" | disk_error |
| `scheme/scheme.c:655` | after a collection cells are searched twice; the run that the first search took is lost until the next collection, and without a second one no memory is reported | `scheme/scheme.c:651`, `657`: "If there still aren't, try getting more heap", "If all fail, report failure" | scheme_vectors |
| `basic/basic.c:422` | compares the variable with the value it was just given, so every loop runs once | `basic/basic.c:421`, `426`: "if loop can execute at least once, push info on stack", "otherwise, skip loop code altogether" | basic_for |

Others showed up in the models and have no run of their own: a property already says how far the code is
right, or the model leaves the case out.

- `olymp/src/memory.c:155`: the records (mempages) of a destroyed space are never given back to their
  pool, though `doc/overview.txt:127` has everything become free again. `AddressSpaceDestroy` frees
  the blocks and leaves `pool` as it is.
- `filesys/service.c:125`, `126`, `143` count in blocks of 1024 bytes, `ext2fs.c` reads blocks of `EXT2_BLOCK_SIZE`. On a file system with
  blocks of 2048 bytes the wrong blocks would be read, and twice as many bytes as the cache has room for; with blocks
  of 4096 the disk server refuses each of them. `SameBlocks` leaves such file systems out, in the run and in the proofs.
- `olymp/src/bitmap.c:76`: the scan ends before the last aligned block, so
  that block of memory is never given out. `FindPages` has it so.
- `olymp/src/thread.c:168`: slot 0 is taken for "no slot": once the first
  thread of a space is gone, no thread can be added to that space (the guard
  `i # 0` of `ThreadNew`).
- `olymp/src/thread.c:245`: a task whose pager could not be set is listed,
  never runs, and keeps its number.
- `olymp/src/slab.c:75`, further: two pages that share a record can close a list to a
  circle, which is then searched for ever (`Spin`), by `main` or by the
  pager.
- `filesys/service.c:56`: `ResolvePath` of the file server does not assign
  `resolved_chars`; the caller moves by whatever the reply holds (`lost`).
- `libhpf/src/dir.c:95`: a path registered again is put behind the first;
  a server that was restarted stays hidden behind its dead predecessor. As the promise of
  `Namespace` this is "a name keeps its object".
- `filesys/service.c:138`: a read that fails after some blocks leaves them in the cache under
  the old description; the next read there gets wrong bytes of right
  number (`LengthIsExact` holds, `RightPlace` only until a read fails). No bad disk is
  needed: a request that runs into a block that `ext2fs.c` cannot find is enough.
- `filesys/ext2fs.c:57`: double indirect blocks are never found, so files end after 12 + 256
  blocks of 1024 bytes; the wrong block is not delivered only because the number wraps
  below zero.
- `filesys/ext2fs.c:144`: entries of a directory behind its first block are looked for behind
  the buffer: such a name is not found, or something else is found for it. An entry of
  length 0 there would be looked at for ever; the model leaves that one outcome out.
- `filesys/ext2fs.c:127`: the length of a name is kept in eight bits, so a name of 257 characters
  matches an entry of one; `NamesWhatIsThere` speaks of shorter names.
- `filesys/ext2fs.c:125`: a slash behind the name of a file is passed over: `file/` is the file.
- `filesys/service.c:126`: a request that ends exactly where the reachable blocks end may be
  refused for a block of which it wants no byte (`RefusedForCause`).
- `libc/src/sys-hasenpfeffer/sys_stdio.c:21`: a program that prints before the console
  has registered keeps hermes' capability as the console's and is mute from then on.
- `libc/src/ungetc.c:92`: `ungetc` has no lock. Two threads of which
  one pushes back violate `ByteStream`, and so does mixing `fgetc` with `fread`, which
  does not look at fetched bytes. The run leaves both out; no
  document allows them.
- `libc/src/fgetc.c:128`: of two threads that share `fgetc`, one can take
  each time what the other has fetched, and the other never returns.
- `libc/src/malloc.c:240`: `heap_start` is read and moved without a lock.
- `idedrv/service.c:55`: of the last sector of a request only whole ones are read; the tail of an answer is what
  the buffer held before (`Covered` says which words `AnswersAreOfTheDisk` is about).
- `idedrv/mindrvr.c:2371`: with a device of unknown kind `sub_select` waits for nothing; a busy one loses the
  command, and words of another are given out. `AnswersAreOfTheDisk` excepts such devices.
- `idedrv/mindrvr.c:2926`: the deadline is a sum that may wrap; then a command is given up at its
  first poll (`GivenUpLate` says so).
- `scheme/scheme.c:3350`: `append` of three lists or more goes on with the wrong
  end (`scheme.c:1772` says what it should do); texts append two. `(append l)` gives
  `(l)` (`scheme.c:3346`).
- `scheme/scheme.c:1759`: `list*` holds its first copied cell in a C variable while it
  allocates the others, and changes the list that `apply` was given.
- `scheme/scheme.c:2279`: `reverse_in_place` turns arguments that a continuation may have saved; one that is
  entered twice goes on with the list the wrong way round.
- `scheme/scheme.c:3284`, `3300`, `3498`, `3508`: with a port as argument `write`,
  `newline` and `read` keep a new list in a C variable while `s_save` allocates.
- `scheme/scheme.c:3276`: a promise takes a copy of the cell of its value: of `()`, `#t` and `#f` the copy is
  not the constant, of a string it shares the characters, which are freed twice, of a
  vector it is the head without the elements.
- `scheme/scheme.c:897`: a vector for which there is no memory is filled behind the sink.
- `basic/basic.c:447`: a FOR inside `FOR_NEST` others is written behind the stack before the next one is refused;
  of the stack of subroutines (`511`) one place is never used.
- `basic/basic.c:217`: `last_delim` is not initialized; a PRINT of nothing begins a new line or not.
- `basic/basic.c:271`: after an empty first line the search for labels passes over the second line
  (a program of the run shows that its label is undefined).
- `basic/basic.c:179`: the last character of the file is cut off, which is harmless if it ends a line.
- `basic/basic.c:586`: the test for `\r` is disabled and no other takes it: the interpreter stays for ever at a character that begins no
  token, such as the one before the end of a line in a file of DOS.
- `basic/basic.c:650`: `putback` steps back by what is in `token`; of a string behind an expression that is two
  characters less than was read.
- `libc/src/fgets.c:96`: a backspace on an empty line goes to the second place and not to the first, which keeps what the
  buffer held: a 7 there turns the 5 that is typed next into 75.
- `libc/src/fgets.c:105`: the end of a string is written two places behind its last character if the line is not
  ended within `n` - 1 of them, so place `n` - 1 keeps what it held and place `n` is written, which the callers' `n` would
  not allow (BASIC's buffer has that place). Programs of the run show both.
- `let*` makes one frame for all its variables; `get-closure-code` looks at the register of the value and
  not at its argument.

## 8. What is not modelled

- **Stubs.** `UnregisterPath`, `LessenCapability`, `DestroyTask`, the notifications of TaskManager,
  `RequestPage`, `ReleasePage`, `TransferPage`, and the file server's `Write`,
  `Size`, `RegisterPath`, `UnregisterPath` answer and change nothing. Code without callers
  (`task_destroy`, `hpf_directory_remove`, `address_space_release_page`,
  `thread_lesser_capability`) is left out.
- **The kernel, sigma0, the boot loader** are not in the repository; they appear as
  what the code gets from them: a mapping, success or failure, fair service.
- **mindrvr**: idedrv calls four of its functions. LBA28, non-data, data-out, packet and DMA commands and
  interrupts have no caller; messages and the counters for debugging change nothing else.
- **scheme**: reals, characters, procedures on strings and ports, property lists, tracing, loading
  of further files, quasiquoted vectors. The interpreter's symbols and procedures are
  constants that take no cells, and the first frame is a list, not a hash
  table; that changes at which allocation a collection falls, and the run has it fall on all of them.
- **basic**: characters, the sizes of the buffers for tokens and text, numbers that do not fit a word, division
  by zero, what `putback` makes of strings.
- **MD5 and the layout of capabilities** (`capability.c`): programs use only
  capabilities they were given.
- **libc and libk beyond locks, streams, `fgets` and `strtol`**: strings, formatting, sorting, time; vendored
  and sequential.
- **Bytes and formats**: ELF headers, screen and keyboard, layouts of records in slabs.
- **The heap**: `malloc` moves a pointer and `free` does nothing.
- **What share of the code this is.** The C library is in the repository twice, and most of the rest is
  headers, third-party code (the ATA driver, two interpreters, MD5) and the
  parts of the library for four machines that the system does not run on. Of the
  project's own servers and of the root task, every request and every
  function behind it that changes state is modelled, except those named in this section.
