----------------------------- MODULE FileServer -----------------------------
(***************************************************************************)
(* The file server's Read and ResolvePath (filesys/service.c), with the    *)
(* cache that it keeps between the calls of its clients: the inode of the  *)
(* last file and the blocks of the last read.                              *)
(*                                                                         *)
(* A byte is known by the file it is of, the way to its block (Ext2Map)    *)
(* and its place there, so that a reply tells where its bytes come from.   *)
(* Files have no holes.  Clients hold capabilities that this server        *)
(* signed.  service.c takes blocks to have 1024 bytes, whatever the        *)
(* superblock says, and the module is of file systems where they have.     *)
(***************************************************************************)
EXTENDS Ext2Map, Ext2Dir

CONSTANTS
  Inodes,       \* the files clients have capabilities of
  Size,         \* Size[i]: i_size
  BlockCells,   \* EXT2_BLOCK_SIZE: bytes of a block on the disk
  ServiceBlock, \* 1024: bytes of a block as service.c has it
  MaxOutput,    \* MAX_OUTPUT_LEN
  Paths,        \* what clients may ask for
  Workloads     \* records of the files that are read, the paths that are
                \* resolved and whether the disk fails

None == "none"
ASSUME SizeAssumption ==
  /\ Size \in [Inodes -> Nat]
  /\ BlockCells \in Nat \ {0} /\ ServiceBlock \in Nat \ {0}
  /\ MaxOutput \in Nat
Blocks(i) == (Size[i] + BlockCells - 1) \div BlockCells

\* "this one knows the block size is 1024 bytes" (service.c:119).  (Of blocks of
\* 2048 bytes it would count and cut wrong ones, and overrun the cache with
\* them; one of 4096 bytes is more than fread gets from a server.)
ASSUME SameBlocks == BlockCells = ServiceBlock

\* MAX_OUTPUT_LEN is a whole number of blocks, and a file is as long as the
\* format allows.
ASSUME BlockAssumption ==
  /\ MaxOutput % ServiceBlock = 0
  /\ None \notin Inodes /\ IsFiniteSet(Inodes)
  /\ \A i \in Inodes : Blocks(i) <= Direct + P1 + P2 + P3
ASSUME PathAssumption == Paths \subseteq Seq(DOMAIN Letters \cup {"/"})
ASSUME WorkloadAssumption ==
  Workloads \subseteq [files : SUBSET Inodes, paths : SUBSET Paths, fails : BOOLEAN]

VARIABLES
  cache,          \* 2 * MaxOutput bytes
  cached_inum,    \* the file that cached_inode is of, or None
  cached_inode,   \* of the inode, the file whose size and blocks it has
  cached_blk, cached_len,   \* first block and number of blocks in the cache
  reply,          \* the last call and its answer
  work,           \* the workload, which does not change
  failed          \* history: whether a read of blocks has failed

vars == <<cache, cached_inum, cached_inode, cached_blk, cached_len, reply, work, failed>>

Byte(i, way, at) == [file |-> i, way |-> way, at |-> at]
Blank == Byte(None, <<>>, 0)
CacheSize == 2 * MaxOutput

Init ==
  /\ cache = [k \in 0 .. CacheSize - 1 |-> Blank]
  /\ cached_inum = None /\ cached_inode = None
  /\ cached_blk = 0 /\ cached_len = 0
  /\ work \in Workloads /\ failed = FALSE
  /\ reply = [call |-> "none", file |-> None, ok |-> FALSE]

Answers(i, offset, count, ok, bytes) ==
  reply' = [call |-> "read", file |-> i, offset |-> offset, count |-> count,
            ok |-> ok, bytes |-> bytes]

Refuses(i, offset, count) ==
  Answers(i, offset, count, FALSE, <<>>) /\ UNCHANGED <<cache, cached_blk, cached_len>>

\* The blocks that a request touches, counted before it is cut at the end of
\* the file.
FirstBlk(offset) == offset \div ServiceBlock
NBlk(offset, count) == (offset + count) \div ServiceBlock - FirstBlk(offset) + 1

\* The cache after n blocks of a file, from block blk on, arrived in it; none
\* arrives behind one that cannot.
Loaded(i, blk, n) ==
  [k \in DOMAIN cache |->
     IF k < n * BlockCells
     THEN Byte(i, Way(blk + k \div BlockCells).way, k % BlockCells)
     ELSE cache[k]]

-----------------------------------------------------------------------------
\* The file's inode: kept from the last call, or read.
KeepInode(i) == cached_inum = i /\ UNCHANGED <<cached_inum, cached_inode>>
LookupInode(i) == cached_inum # i /\ cached_inum' = i /\ cached_inode' = i

LookupFails(i) ==
  work.fails /\ cached_inum # i /\ UNCHANGED <<cached_inum, cached_inode>>

\* Whether a place is no place of the file, whose end is one.
\* Mutant: the end is none, either.
MutBehindEnd(i, offset) == offset >= Size[i]
Behind(i, offset) == offset > Size[i]

\* The bytes in the file that a request is answered with.
\* Mutant: it is not cut at the end of the file.
MutNotCut(i, offset, count) == count
Cut(i, offset, count) ==
  IF offset + count >= Size[i] THEN Size[i] - offset ELSE count

\* The blocks are in the cache.  By now cached_inum is the call's file, be it
\* that of the last read or not.
\* Mutants: only the first block, or only their number, is compared.
MutSameStart(i, offset, count) == cached_inum' = i /\ cached_blk = FirstBlk(offset)
MutSameNumber(i, offset, count) == cached_inum' = i /\ cached_len = NBlk(offset, count)
Hit(i, offset, count) ==
  /\ cached_inum' = i
  /\ cached_blk = FirstBlk(offset)
  /\ cached_len = NBlk(offset, count)

Delivers(i, offset, count) ==
  LET start == offset % ServiceBlock IN
  /\ Answers(i, offset, count, TRUE,
       [k \in 1 .. Cut(cached_inode', offset, count) |-> cache'[start + k - 1]])
  /\ cached_blk' = FirstBlk(offset)
  /\ cached_len' = NBlk(offset, count)

\* The answers to File::Read.
ReadRefused(i, offset, count) ==
  \/ /\ count >= MaxOutput
     /\ UNCHANGED <<cached_inum, cached_inode>>
     /\ Refuses(i, offset, count)
  \/ /\ count < MaxOutput
     /\ LookupFails(i)
     /\ Refuses(i, offset, count)
  \/ /\ count < MaxOutput
     /\ KeepInode(i) \/ LookupInode(i)
     /\ Behind(cached_inode', offset)
     /\ Refuses(i, offset, count)

Admitted(i, offset, count) ==
  /\ count < MaxOutput
  /\ KeepInode(i) \/ LookupInode(i)
  /\ ~Behind(cached_inode', offset)

ReadHit(i, offset, count) ==
  /\ Admitted(i, offset, count)
  /\ Hit(i, offset, count)
  /\ UNCHANGED cache
  /\ Delivers(i, offset, count)

ReadMiss(i, offset, count) ==
  LET blk == FirstBlk(offset)
      n   == NBlk(offset, count)
  IN  /\ Admitted(i, offset, count)
      /\ ~Hit(i, offset, count)
      /\ \A k \in 0 .. n - 1 : MayArrive(blk + k)
      /\ cache' = Loaded(cached_inode', blk, n)
      /\ Delivers(i, offset, count)

\* A block cannot be read: those before it are in the cache, and cached_blk
\* and cached_len still tell of the read before.
ReadFails(i, offset, count) ==
  LET blk == FirstBlk(offset) IN
  /\ Admitted(i, offset, count)
  /\ ~Hit(i, offset, count)
  /\ \E n \in 0 .. NBlk(offset, count) - 1 :
       /\ \A k \in 0 .. n - 1 : MayArrive(blk + k)
       /\ work.fails \/ MayFail(blk + n, Blocks(cached_inode'))
       /\ cache' = Loaded(cached_inode', blk, n)
  /\ Answers(i, offset, count, FALSE, <<>>)
  /\ UNCHANGED <<cached_blk, cached_len>>

\* File::Read: one byte behind the end is the farthest that matters, and
\* MaxOutput bytes are the fewest that are too many.
Read(i, offset, count) ==
  \/ /\ \/ ReadRefused(i, offset, count)
        \/ ReadHit(i, offset, count)
        \/ ReadMiss(i, offset, count)
     /\ UNCHANGED <<work, failed>>
  \/ ReadFails(i, offset, count) /\ failed' = TRUE /\ UNCHANGED work

\* DirectoryService::ResolvePath: it looks at no capability, uses nothing of
\* the cache and leaves it alone.
ResolvePath(path) ==
  /\ \E end \in Lookup(path) \cup (IF work.fails /\ NamesIn(path) # <<>> THEN {Nowhere} ELSE {}) :
       reply' = [call |-> "resolve", path |-> path, file |-> end, ok |-> end # Nowhere]
  /\ UNCHANGED <<cache, cached_inum, cached_inode, cached_blk, cached_len, work, failed>>

Next ==
  \/ \E path \in work.paths : ResolvePath(path)
  \/ \E i \in work.files : \E offset \in 0 .. Size[i] + 1, count \in 0 .. MaxOutput :
       Read(i, offset, count)

Spec == Init /\ [][Next]_vars

-----------------------------------------------------------------------------
\* The last call was a read and was answered with bytes.
Got == reply.call = "read" /\ reply.ok

\* The blocks of any answered request fit in the cache, "max output + one
\* block" (service.c:103), and its inode is that of cached_inum.
TypeOK ==
  /\ DOMAIN cache = 0 .. CacheSize - 1
  /\ \A k \in DOMAIN cache :
       cache[k].file \in Inodes \cup {None} /\ cache[k].at \in 0 .. BlockCells - 1
  /\ cached_inum \in Inodes \cup {None}
  /\ cached_inode = cached_inum
  /\ cached_blk \in Nat
  /\ cached_len \in 0 .. CacheSize \div ServiceBlock
  /\ Got => Len(reply.bytes) <= reply.count

\* The place of byte k of an answer, and whether it is in the blocks that
\* ext2fs.c finds as the format has them: all but the triple indirect ones.
PlaceOf(k) == reply.offset + k - 1
Findable(place) == place \div BlockCells \notin TindBlocks

\* The byte of a file in the place that the format gives it.
Wanted(i, place) == Byte(i, Home(place \div BlockCells), place % BlockCells)

\* As long as no read of blocks has failed, each byte of an answer stood at the
\* place that was asked for, of whatever file: never behind its end, in
\* another block or at another offset.
RightPlace ==
  Got /\ ~failed => \A k \in DOMAIN reply.bytes :
    /\ PlaceOf(k) < Size[reply.file]
    /\ Findable(PlaceOf(k)) =>
         reply.bytes[k] = Wanted(reply.bytes[k].file, PlaceOf(k))

\* An answer is the part of the file that was asked for, whole, and of that
\* file.
Exact ==
  /\ Len(reply.bytes) = Min({reply.count, Size[reply.file] - reply.offset})
  /\ \A k \in DOMAIN reply.bytes :
       Findable(PlaceOf(k)) => reply.bytes[k] = Wanted(reply.file, PlaceOf(k))

\* That is so, whatever is in the cache, while one file is read and no read of
\* blocks has failed.
ExactAlone == Got /\ Cardinality(work.files) = 1 /\ ~failed => Exact

\* "the server does not have to remember [...] the processes that opened the
\* file and where to find them" (overview.txt:55): it is so whatever other
\* calls the server had before.
ReadIsExact == Got => Exact

\* While the disk works, a request is refused only if it is too large, starts
\* behind the end of the file, or ends in or right before blocks that
\* ext2fs.c does not find: the double indirect ones, or the first indirect
\* one of a file that has none.
Reachable(i) == Direct + (IF Blocks(i) > Direct THEN P1 ELSE 0)
RefusedForCause ==
  reply.call = "read" /\ ~reply.ok /\ ~work.fails =>
    \/ reply.count >= MaxOutput
    \/ reply.offset > Size[reply.file]
    \/ (reply.offset + reply.count) \div BlockCells >= Reachable(reply.file)

\* Even if the disk fails at times, an answer has as many bytes as there are:
\* it is never cut at the end of another file, and a program that takes a
\* short answer for the end of the file (fgetc, fread) is right to.
LengthIsExact ==
  Got =>
    Len(reply.bytes) = Min({reply.count, Size[reply.file] - reply.offset})

\* ResolvePath gives the capability of the file that the path names, and fails
\* only if there is none or the disk fails, among entries of equal beginnings
\* and entries of removed files.  Not so for names of NameRange characters and
\* more and for what a directory lists in its second block (ext2fs.c:144).
NamesWhatIsThere ==
  LET names == NamesIn(reply.path)
      ordinary == /\ \A k \in DOMAIN names : Len(Letters[names[k]]) < NameRange
                  /\ ~BehindBlock(names)
  IN  reply.call = "resolve" /\ ordinary =>
        /\ reply.ok => Leads(names, reply.file)
        /\ ~reply.ok /\ ~work.fails => \A j \in Nodes : ~Leads(names, j)
=============================================================================
