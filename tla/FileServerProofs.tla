-------------------------- MODULE FileServerProofs --------------------------
(***************************************************************************)
(* Proofs about the file server's Read and ResolvePath, for any files,     *)
(* directories, limit and sequence of requests, on a file system of the    *)
(* one block size that service.c knows.                                    *)
(***************************************************************************)
EXTENDS FileServer, FiniteSetTheorems, SequenceTheorems, WellFoundedInduction, TLAPS

USE SameBlocks

\* Quotient and remainder, and what they are known by.
LEMMA DivMod ==
  ASSUME NEW a \in Nat, NEW b \in Nat \ {0}
  PROVE  /\ a \div b \in Nat
         /\ a % b \in 0 .. b - 1
         /\ a = b * (a \div b) + (a % b)
OBVIOUS

\* Multiples of b lie at least b apart.
LEMMA Mono ==
  ASSUME NEW b \in Nat \ {0}, NEW x \in Int, NEW y \in Int, x < y
  PROVE  b * x + b <= b * y
<1>1. PICK d \in Nat : y = x + 1 + d
  <2>1. y - x - 1 \in Nat
    OBVIOUS
  <2> QED
    BY <2>1
<1>2. b * d >= 0
  OBVIOUS
<1> QED
  BY <1>1, <1>2

\* A quotient and a remainder below b are the ones.
LEMMA DivUnique ==
  ASSUME NEW b \in Nat \ {0}, NEW q \in Nat, NEW r \in 0 .. b - 1
  PROVE  (b * q + r) \div b = q /\ (b * q + r) % b = r
<1> DEFINE a == b * q + r
           p == a \div b
           s == a % b
<1>1. a \in Nat
  OBVIOUS
<1>2. p \in Nat /\ s \in 0 .. b - 1 /\ a = b * p + s
  BY <1>1, DivMod
<1>3. ~(p < q)
  BY <1>2, Mono
<1>4. ~(q < p)
  BY <1>2, Mono
<1> QED
  BY <1>2, <1>3, <1>4

\* A number that has wrapped once below zero, as the difference in
\* ext2_read_file_block does.
LEMMA ModBelow ==
  ASSUME NEW w \in Nat \ {0}, NEW x \in Int, 0 - w <= x, x < 0
  PROVE  x % w = x + w
OBVIOUS

\* What the assumptions say of the sizes.
LEMMA Parameters ==
  /\ Direct \in Nat \ {0} /\ PerBlock \in Nat \ {0} /\ WordRange \in Nat \ {0}
  /\ P1 \in Nat /\ P2 \in Nat /\ P3 \in Nat
  /\ WordRange > Direct + P1 + P2 + 2 * P3
  /\ BlockCells \in Nat \ {0} /\ MaxOutput \in Nat
  /\ \A i \in Inodes : Size[i] \in Nat
<1>1. P1 \in Nat /\ P2 \in Nat
  BY MapAssumption DEF P1, P2
<1>2. P3 \in Nat
  BY <1>1, MapAssumption DEF P3
<1> QED
  BY <1>1, <1>2, MapAssumption, WordAssumption, SizeAssumption

-----------------------------------------------------------------------------
\* ext2_read_file_block finds no double indirect block, and the others before
\* the triple indirect ones where the format has them.
LEMMA WayIsHome ==
  ASSUME NEW n \in Nat, MayArrive(n), n \notin TindBlocks, n < Direct + P1 + P2 + P3
  PROVE  Way(n).way = Home(n)
<1>1. CASE n < Direct
  <2>1. n \in DirectBlocks /\ n \notin IndBlocks /\ n \notin DindBlocks
    BY <1>1, Parameters DEF DirectBlocks, IndBlocks, DindBlocks
  <2>2. Way(n) = [found |-> TRUE, way |-> <<n>>]
    BY <1>1, <2>1 DEF Way
  <2>3. Home(n) = <<n>>
    BY <2>1 DEF Home
  <2> QED
    BY <2>2, <2>3
<1>2. CASE n \in IndBlocks
  <2>1. ~(n < Direct) /\ n \notin DirectBlocks /\ n \notin DindBlocks
    BY <1>2, Parameters DEF IndBlocks, DirectBlocks, DindBlocks
  <2>2. Way(n) = Indirect(n)
    BY <1>2, <2>1 DEF Way
  <2>3. Home(n) = <<IndBlock, n - Direct>>
    BY <1>2, <2>1 DEF Home
  <2> QED
    BY <2>2, <2>3 DEF Indirect
<1>3. CASE n \in DindBlocks
  <2> DEFINE x == n - Direct - P1 - P2
  <2>1. ~(n < Direct) /\ n \notin IndBlocks
    BY <1>3, Parameters DEF DindBlocks, IndBlocks
  <2>2. Way(n) = DoubleIndirect(n)
    BY <1>3, <2>1 DEF Way
  <2>3. x \in Int /\ 0 - WordRange <= x /\ x < 0
    BY <1>3, Parameters DEF DindBlocks
  <2>4. x % WordRange = x + WordRange
    BY <2>3, Parameters, ModBelow
  <2>5. x + WordRange > P3
    BY <1>3, Parameters DEF DindBlocks
  <2>6. x % WordRange <= P3
    <3>1. DoubleIndirect(n).found
      BY <2>2 DEF MayArrive
    <3> QED
      BY <3>1 DEF DoubleIndirect
  <2> HIDE DEF x
  <2>7. x + WordRange <= P3
    BY <2>4, <2>6
  <2>8. x + WordRange \in Int
    BY <2>3, Parameters
  <2> QED
    BY <2>5, <2>7, <2>8, Parameters
<1> QED
  BY <1>1, <1>2, <1>3, Parameters DEF IndBlocks, DindBlocks, TindBlocks

\* The blocks that a request touches cover it.
LEMMA Span ==
  ASSUME NEW offset \in Nat, NEW count \in Nat
  PROVE  /\ FirstBlk(offset) \in Nat
         /\ NBlk(offset, count) \in Nat \ {0}
         /\ (offset % BlockCells) + count < NBlk(offset, count) * BlockCells
<1> DEFINE B == BlockCells
           f == offset \div B
           s == offset % B
           l == (offset + count) \div B
           t == (offset + count) % B
<1>1. B \in Nat \ {0} /\ offset + count \in Nat
  BY Parameters
<1>2. f \in Nat /\ s \in 0 .. B - 1 /\ offset = B * f + s
  BY <1>1, DivMod
<1>3. l \in Nat /\ t \in 0 .. B - 1 /\ offset + count = B * l + t
  BY <1>1, DivMod
<1> HIDE DEF f, s, l, t, B
<1>4. ~(l < f)
  <2>1. SUFFICES ASSUME l < f PROVE FALSE
    OBVIOUS
  <2>2. B * l + B <= B * f
    BY <1>1, <1>2, <1>3, <2>1, Mono
  <2>3. B * l \in Nat /\ B * f \in Nat
    BY <1>1, <1>2, <1>3
  <2> QED
    BY <1>1, <1>2, <1>3, <2>2, <2>3
<1>5. (l - f + 1) * B = B * l - B * f + B
  BY <1>1, <1>2, <1>3
<1>6. s + count < (l - f + 1) * B
  <2>1. B * l \in Nat /\ B * f \in Nat
    BY <1>1, <1>2, <1>3
  <2> QED
    BY <1>1, <1>2, <1>3, <1>5, <2>1
<1> QED
  BY <1>2, <1>3, <1>4, <1>6 DEF f, s, l, B, FirstBlk, NBlk

\* They fit in the cache if the request is not refused as too large.
LEMMA Fits ==
  ASSUME NEW offset \in Nat, NEW count \in Nat, count < MaxOutput
  PROVE  /\ NBlk(offset, count) * BlockCells <= CacheSize
         /\ NBlk(offset, count) \in 0 .. CacheSize \div BlockCells
<1> DEFINE B == BlockCells
           f == offset \div B
           s == offset % B
           l == (offset + count) \div B
           t == (offset + count) % B
           m == MaxOutput \div B
<1>1. B \in Nat \ {0} /\ offset + count \in Nat
  BY Parameters
<1>2. f \in Nat /\ s \in 0 .. B - 1 /\ offset = B * f + s
  BY <1>1, DivMod
<1>3. l \in Nat /\ t \in 0 .. B - 1 /\ offset + count = B * l + t
  BY <1>1, DivMod
<1>4. m \in Nat /\ MaxOutput = B * m
  <2>1. m \in Nat /\ MaxOutput = B * m + (MaxOutput % B)
    BY <1>1, Parameters, DivMod
  <2> QED
    BY <2>1, <1>1, BlockAssumption
<1>5. NBlk(offset, count) = l - f + 1
  BY DEF NBlk, FirstBlk
<1> HIDE DEF f, s, l, t, m, B
<1>6. l - f < m + 1
  <2>1. SUFFICES ASSUME m < l - f PROVE FALSE
    BY <1>2, <1>3, <1>4
  <2>2. B * m + B <= B * (l - f)
    BY <1>1, <1>2, <1>3, <1>4, <2>1, Mono
  <2>3. B * (l - f) = B * l - B * f
    BY <1>1, <1>2, <1>3
  <2>4. B * l \in Nat /\ B * f \in Nat /\ B * m \in Nat
    BY <1>1, <1>2, <1>3, <1>4
  <2> QED
    BY <1>1, <1>2, <1>3, <1>4, <2>2, <2>3, <2>4
<1>7. m >= 1
  <2>1. SUFFICES ASSUME m = 0 PROVE FALSE
    BY <1>4
  <2>2. MaxOutput = 0
    BY <1>1, <1>4, <2>1
  <2> QED
    BY <2>2
<1>8. l - f + 1 <= 2 * m
  BY <1>2, <1>3, <1>4, <1>6, <1>7
<1>9. CacheSize = B * (2 * m)
  BY <1>1, <1>4 DEF CacheSize
<1>10. CacheSize \div B = 2 * m
  <2>1. 2 * m \in Nat /\ 0 \in 0 .. B - 1
    BY <1>1, <1>4
  <2>2. (B * (2 * m) + 0) \div B = 2 * m
    BY <1>1, <2>1, DivUnique
  <2>3. B * (2 * m) + 0 = B * (2 * m)
    BY <1>1, <1>4
  <2> QED
    BY <1>9, <2>2, <2>3
<1>11. (l - f + 1) * B <= B * (2 * m)
  <2>1. CASE l - f + 1 = 2 * m
    BY <2>1, <1>1, <1>4
  <2>2. CASE l - f + 1 < 2 * m
    BY <2>2, <1>1, <1>2, <1>3, <1>4, Mono
  <2> QED
    BY <1>2, <1>3, <1>4, <1>8, <2>1, <2>2
<1>12. NBlk(offset, count) \in Nat \ {0}
  BY Span
<1> QED
  BY <1>5, <1>8, <1>9, <1>10, <1>11, <1>12, <1>4 DEF B

\* Byte k of an answer is in its place in the blocks read.
LEMMA PlaceInBlocks ==
  ASSUME NEW offset \in Nat, NEW k \in Nat
  PROVE  /\ (offset + k) \div BlockCells
               = FirstBlk(offset) + ((offset % BlockCells) + k) \div BlockCells
         /\ (offset + k) % BlockCells = ((offset % BlockCells) + k) % BlockCells
<1> DEFINE B == BlockCells
           f == offset \div B
           s == offset % B
           q == (s + k) \div B
           r == (s + k) % B
<1>1. B \in Nat \ {0}
  BY Parameters
<1>2. f \in Nat /\ s \in 0 .. B - 1 /\ offset = B * f + s
  BY <1>1, DivMod
<1>3. q \in Nat /\ r \in 0 .. B - 1 /\ s + k = B * q + r
  <2>1. s + k \in Nat
    BY <1>2
  <2> QED
    BY <1>1, <2>1, DivMod
<1> HIDE DEF f, s, q, r, B
<1>4. offset + k = B * (f + q) + r
  <2>1. B * (f + q) = B * f + B * q
    BY <1>1, <1>2, <1>3
  <2>2. B * f \in Nat /\ B * q \in Nat
    BY <1>1, <1>2, <1>3
  <2> QED
    BY <1>2, <1>3, <2>1, <2>2
<1>5. f + q \in Nat
  BY <1>2, <1>3
<1>6. (offset + k) \div B = f + q /\ (offset + k) % B = r
  BY <1>1, <1>3, <1>4, <1>5, DivUnique
<1> QED
  BY <1>6 DEF f, s, q, r, B, FirstBlk

\* The cache holds n blocks of file f from block blk on, as they were found.
Filled(f, blk, n, c) ==
  \A k \in 0 .. n * BlockCells - 1 :
    c[k] = Byte(f, Way(blk + k \div BlockCells).way, k % BlockCells)

\* An answer cut from such blocks has bytes of the file in their places.
LEMMA CutFromBlocks ==
  ASSUME NEW i \in Inodes, NEW offset \in Nat, NEW count \in Nat, offset <= Size[i],
         NEW f, NEW c, Filled(f, FirstBlk(offset), NBlk(offset, count), c),
         \A n \in 0 .. NBlk(offset, count) - 1 : MayArrive(FirstBlk(offset) + n),
         NEW k \in 1 .. Cut(i, offset, count)
  PROVE  /\ offset + k - 1 < Size[i]
         /\ Findable(offset + k - 1) =>
              c[(offset % BlockCells) + k - 1] = Wanted(f, offset + k - 1)
<1> DEFINE B == BlockCells
           h == k - 1
           s == offset % B
           j == s + h
           q == j \div B
           n == FirstBlk(offset) + q
<1>1. B \in Nat \ {0} /\ Size[i] \in Nat
  BY Parameters
<1>2. h \in Nat /\ h < count /\ offset + h < Size[i]
  BY <1>1 DEF Cut
<1>3. s \in 0 .. B - 1
  BY <1>1, DivMod
<1>4. /\ FirstBlk(offset) \in Nat /\ NBlk(offset, count) \in Nat \ {0}
      /\ s + count < NBlk(offset, count) * B
  BY Span
<1>5. NBlk(offset, count) * B \in Nat
  BY <1>1, <1>4
<1>6. j \in 0 .. NBlk(offset, count) * B - 1
  BY <1>1, <1>2, <1>3, <1>4, <1>5
<1>7. c[j] = Byte(f, Way(n).way, j % B)
  BY <1>6 DEF Filled
<1>8. q \in Nat /\ j % B \in 0 .. B - 1 /\ j = B * q + (j % B)
  <2>1. j \in Nat
    BY <1>5, <1>6
  <2> QED
    BY <1>1, <2>1, DivMod
<1>9. MayArrive(n)
  <2>1. q < NBlk(offset, count)
    <3> HIDE DEF q
    <3>1. SUFFICES ASSUME NBlk(offset, count) <= q PROVE FALSE
      BY <1>4, <1>8
    <3>2. NBlk(offset, count) * B <= B * q
      BY <1>1, <1>4, <1>8, <3>1, Mono
    <3>3. B * q \in Nat
      BY <1>1, <1>8
    <3> QED
      BY <1>1, <1>5, <1>6, <1>8, <3>2, <3>3
  <2> QED
    BY <2>1, <1>4, <1>8
<1>10. (offset + h) \div B = n /\ (offset + h) % B = j % B
  BY <1>2, PlaceInBlocks
<1>11. n < Direct + P1 + P2 + P3
  <2> DEFINE b == Blocks(i)
  <2>1. /\ b \in Nat /\ (Size[i] + B - 1) % B \in 0 .. B - 1
        /\ Size[i] + B - 1 = B * b + ((Size[i] + B - 1) % B)
    <3>1. Size[i] + B - 1 \in Nat
      BY <1>1
    <3> QED
      BY <1>1, <3>1, DivMod DEF Blocks
  <2>2. offset + h = B * n + (j % B) /\ n \in Nat
    <3>1. offset + h \in Nat
      BY <1>2
    <3> HIDE DEF n, h, j
    <3> QED
      BY <1>1, <3>1, <1>10, DivMod
  <2> HIDE DEF b, n
  <2>3. n < b
    <3>1. SUFFICES ASSUME b <= n PROVE FALSE
      BY <2>1, <2>2
    <3>2. B * b <= B * n
      <4>1. CASE b = n
        BY <4>1, <1>1, <2>2
      <4>2. CASE b < n
        BY <4>2, <1>1, <2>1, <2>2, Mono
      <4> QED
        BY <3>1, <4>1, <4>2, <2>1, <2>2
    <3>3. B * b \in Nat /\ B * n \in Nat
      BY <1>1, <2>1, <2>2
    <3> QED
      BY <1>1, <1>2, <1>8, <2>1, <2>2, <3>2, <3>3
  <2>4. b <= Direct + P1 + P2 + P3
    BY BlockAssumption DEF b
  <2> QED
    BY <2>1, <2>2, <2>3, <2>4, Parameters
<1>12. n \in Nat
  BY <1>4, <1>8
<1>13. ASSUME Findable(offset + h) PROVE c[j] = Wanted(f, offset + h)
  <2>1. n \notin TindBlocks
    BY <1>13, <1>10 DEF Findable
  <2>2. Way(n).way = Home(n)
    BY <2>1, <1>9, <1>11, <1>12, WayIsHome
  <2> QED
    BY <2>2, <1>7, <1>10 DEF Wanted
<1>14. offset + k - 1 = offset + h /\ (offset % BlockCells) + k - 1 = j
  BY <1>3, <1>1
<1> QED
  BY <1>2, <1>13, <1>14

\* What a path of two steps begins with.
LEMMA FirstOfTwo ==
  ASSUME NEW a, NEW b
  PROVE  Len(<<a, b>>) = 2 /\ SubSeq(<<a, b>>, 1, 1) = <<a>>
<1>1. <<a, b>> \in Seq({a, b}) /\ Len(<<a, b>>) = 2 /\ <<a, b>>[1] = a
  OBVIOUS
<1>2. SubSeq(<<a, b>>, 1, 1) = [k \in 1 .. 1 |-> <<a, b>>[k]]
  BY <1>1
<1>3. [k \in 1 .. 1 |-> <<a, b>>[k]] = <<a>>
  BY <1>1
<1> QED
  BY <1>1, <1>2, <1>3

\* While the disk works, ext2fs.c fails only for blocks from the first on that
\* it does not find.
LEMMA FailsFar ==
  ASSUME NEW i \in Inodes, NEW n \in Nat, MayFail(n, Blocks(i))
  PROVE  n >= Reachable(i)
<1> SUFFICES ASSUME n < Reachable(i) PROVE FALSE
  BY Parameters DEF Reachable
<1>1. CASE n < Direct
  <2>1. Way(n) = [found |-> TRUE, way |-> <<n>>]
    <3>1. n \notin IndBlocks /\ n \notin DindBlocks
      BY <1>1, Parameters DEF IndBlocks, DindBlocks
    <3> QED
      BY <1>1, <3>1 DEF Way
  <2>2. Len(<<n>>) = 1 /\ SubSeq(<<n>>, 1, 0) = <<>>
    OBVIOUS
  <2>3. <<>> \in AddressBlocks(Blocks(i))
    BY DEF AddressBlocks
  <2>4. Way(n).found /\ Way(n).way = <<n>> /\ Len(Way(n).way) - 1 = 0
    BY <2>1, <2>2
  <2> QED
    BY <2>2, <2>3, <2>4 DEF MayFail
<1>2. CASE n >= Direct
  <2>1. Blocks(i) > Direct /\ n < Direct + P1
    BY <1>2, Parameters DEF Reachable
  <2>2. n \in IndBlocks /\ ~(n < Direct) /\ n \notin DindBlocks
    BY <1>2, <2>1, Parameters DEF IndBlocks, DindBlocks
  <2>3. Way(n) = [found |-> TRUE, way |-> <<IndBlock, n - Direct>>]
    BY <2>2 DEF Way, Indirect
  <2>4. /\ Way(n).found /\ Way(n).way = <<IndBlock, n - Direct>>
        /\ Len(Way(n).way) - 1 = 1 /\ SubSeq(Way(n).way, 1, 1) = <<IndBlock>>
    BY <2>3, FirstOfTwo
  <2>5. Home(Direct) = <<IndBlock, 0>>
    <3>1. Direct \in IndBlocks /\ Direct \notin DirectBlocks /\ Direct \notin DindBlocks
         /\ Direct \notin TindBlocks
      BY <1>2, <2>1, Parameters DEF IndBlocks, DirectBlocks, DindBlocks, TindBlocks
    <3>2. Home(Direct) = <<IndBlock, Direct - Direct>>
      BY <3>1 DEF Home
    <3> QED
      BY <3>2, Parameters
  <2>6. SubSeq(<<IndBlock, 0>>, 1, 1) = <<IndBlock>> /\ Len(<<IndBlock, 0>>) = 2
    BY FirstOfTwo
  <2>7. Direct \in 0 .. Blocks(i) - 1
    <3>1. Blocks(i) \in Nat
      <4>1. Size[i] + BlockCells - 1 \in Nat
        BY Parameters
      <4> QED
        BY <4>1, Parameters, DivMod DEF Blocks
    <3> QED
      BY <3>1, <2>1, Parameters
  <2>8. <<IndBlock>> \in AddressBlocks(Blocks(i))
    BY <2>5, <2>6, <2>7, SMTT(30) DEF AddressBlocks
  <2> QED
    BY <2>4, <2>8 DEF MayFail
<1> QED
  BY <1>1, <1>2, Parameters

-----------------------------------------------------------------------------
\* The cache has room for CacheSize bytes and is described by the inode whose
\* number is kept (service.c:103-106).
Basic ==
  /\ DOMAIN cache = 0 .. CacheSize - 1
  /\ \A k \in DOMAIN cache :
       cache[k].file \in Inodes \cup {None} /\ cache[k].at \in 0 .. BlockCells - 1
  /\ cached_inum \in Inodes \cup {None}
  /\ cached_inode = cached_inum
  /\ cached_blk \in Nat
  /\ cached_len \in 0 .. CacheSize \div BlockCells
  /\ work \in Workloads

\* Until a read of blocks fails, the cache holds what it is said to hold, but
\* of some file.
CacheInv ==
  ~failed => \/ cached_len = 0
             \/ /\ \E f \in work.files : Filled(f, cached_blk, cached_len, cache)
                /\ \A n \in 0 .. cached_len - 1 : MayArrive(cached_blk + n)

\* What is claimed of answers.
Answered ==
  /\ Got => Len(reply.bytes) <= reply.count
  /\ LengthIsExact
  /\ RightPlace
  /\ ExactAlone
  /\ RefusedForCause

\* The inductive invariant: the properties of answers follow from what is in
\* the cache, which they say nothing about.
IInv == Basic /\ CacheInv /\ Answered

\* The cache is empty at the start.
LEMMA Initially == Init => IInv
<1> SUFFICES ASSUME Init PROVE IInv
  OBVIOUS
<1>1. Basic
  <2>1. 0 \in 0 .. CacheSize \div BlockCells
    <3>1. CacheSize \in Nat
      BY Parameters DEF CacheSize
    <3>2. CacheSize \div BlockCells \in Nat
      BY <3>1, Parameters, DivMod
    <3> QED
      BY <3>2
  <2>2. 0 \in 0 .. BlockCells - 1
    BY Parameters
  <2> QED
    BY <2>1, <2>2 DEF Init, Basic, Blank, Byte
<1>2. CacheInv
  BY DEF Init, CacheInv
<1>3. Answered
  BY DEF Init, Answered, Got, LengthIsExact, RightPlace, ExactAlone, RefusedForCause
<1> QED
  BY <1>1, <1>2, <1>3 DEF IInv

\* A workload of one file has no other.
LEMMA OnlyOne ==
  ASSUME Basic, NEW f \in work.files, NEW i \in work.files, Cardinality(work.files) = 1
  PROVE  f = i
<1>1. work.files \subseteq Inodes
  BY WorkloadAssumption DEF Basic
<1>2. IsFiniteSet(work.files)
  BY <1>1, BlockAssumption, FS_Subset
<1>3. PICK x : work.files = {x}
  BY <1>2, FS_Singleton
<1> QED
  BY <1>3

\* What is known of a request that is looked at.
LEMMA Requested ==
  ASSUME Basic, NEW i \in work.files, NEW offset \in 0 .. Size[i] + 1,
         NEW count \in 0 .. MaxOutput
  PROVE  /\ i \in Inodes /\ offset \in Nat /\ count \in Nat
         /\ Admitted(i, offset, count) =>
              /\ cached_inum' = i /\ cached_inode' = i
              /\ offset <= Size[i] /\ count < MaxOutput
<1>1. i \in Inodes
  BY WorkloadAssumption DEF Basic
<1>2. offset \in Nat /\ count \in Nat
  BY <1>1, Parameters
<1>3. ASSUME Admitted(i, offset, count)
      PROVE  cached_inum' = i /\ cached_inode' = i /\ offset <= Size[i] /\ count < MaxOutput
  <2>1. cached_inum' = i /\ cached_inode' = i
    BY <1>3 DEF Admitted, KeepInode, LookupInode, Basic
  <2> QED
    BY <1>3, <2>1, <1>1, <1>2, Parameters DEF Admitted, Behind
<1> QED
  BY <1>1, <1>2, <1>3

\* Blocks that arrive in the cache are in it, and nothing else changes there.
LEMMA LoadedIs ==
  ASSUME Basic, NEW i \in Inodes, NEW blk \in Nat, NEW n \in Nat,
         n * BlockCells <= CacheSize
  PROVE  LET c == Loaded(i, blk, n) IN
         /\ DOMAIN c = 0 .. CacheSize - 1
         /\ \A k \in DOMAIN c :
              c[k].file \in Inodes \cup {None} /\ c[k].at \in 0 .. BlockCells - 1
         /\ Filled(i, blk, n, c)
<1> DEFINE c == Loaded(i, blk, n)
<1>1. DOMAIN c = 0 .. CacheSize - 1
  BY DEF Loaded, Basic
<1>2. n * BlockCells \in Nat /\ CacheSize \in Nat
  BY Parameters DEF CacheSize
<1>3. ASSUME NEW k \in 0 .. CacheSize - 1
      PROVE  c[k].file \in Inodes \cup {None} /\ c[k].at \in 0 .. BlockCells - 1
  <2>1. CASE k < n * BlockCells
    <3>1. c[k] = Byte(i, Way(blk + k \div BlockCells).way, k % BlockCells)
      BY <2>1 DEF Loaded, Basic
    <3>2. k % BlockCells \in 0 .. BlockCells - 1
      BY <1>2, Parameters, DivMod
    <3> QED
      BY <3>1, <3>2 DEF Byte
  <2>2. CASE ~(k < n * BlockCells)
    BY <2>2 DEF Loaded, Basic
  <2> QED
    BY <2>1, <2>2
<1>4. ASSUME NEW k \in 0 .. n * BlockCells - 1
      PROVE  c[k] = Byte(i, Way(blk + k \div BlockCells).way, k % BlockCells)
  <2>1. k \in 0 .. CacheSize - 1 /\ k < n * BlockCells
    BY <1>2
  <2> QED
    BY <2>1 DEF Loaded, Basic
<1> HIDE DEF c
<1>5. Filled(i, blk, n, c)
  BY <1>4 DEF Filled
<1> QED
  BY <1>1, <1>3, <1>5 DEF c

\* The smaller of two numbers.
LEMMA MinOfTwo ==
  ASSUME NEW a \in Int, NEW b \in Int
  PROVE  Min({a, b}) = IF a <= b THEN a ELSE b
<1> DEFINE m == IF a <= b THEN a ELSE b
<1>1. m \in {a, b} /\ \A y \in {a, b} : m <= y
  OBVIOUS
<1>2. \A x \in {a, b} : (\A y \in {a, b} : x <= y) => x = m
  OBVIOUS
<1> QED
  BY <1>1, <1>2 DEF Min

\* Every answer is as long as the file allows, wherever its bytes come from.
LEMMA AnyDelivery ==
  ASSUME Basic, NEW i \in work.files, NEW offset \in 0 .. Size[i] + 1,
         NEW count \in 0 .. MaxOutput, Admitted(i, offset, count),
         Delivers(i, offset, count)
  PROVE  /\ reply' = [call |-> "read", file |-> i, offset |-> offset, count |-> count,
                      ok |-> TRUE,
                      bytes |-> [k \in 1 .. Cut(i, offset, count) |->
                                   cache'[(offset % BlockCells) + k - 1]]]
         /\ Cut(i, offset, count) \in Nat
         /\ Cut(i, offset, count) = Min({count, Size[i] - offset})
         /\ (Got => Len(reply.bytes) <= reply.count)'
         /\ LengthIsExact' /\ RefusedForCause'
<1>1. /\ i \in Inodes /\ offset \in Nat /\ count \in Nat
      /\ cached_inode' = i /\ offset <= Size[i] /\ count < MaxOutput
  BY Requested
<1> DEFINE n == Cut(i, offset, count)
           bs == [k \in 1 .. n |-> cache'[(offset % BlockCells) + k - 1]]
<1>2. reply' = [call |-> "read", file |-> i, offset |-> offset, count |-> count,
                ok |-> TRUE, bytes |-> bs]
  BY <1>1 DEF Delivers, Answers
<1>3. n \in Nat /\ n <= count /\ n = Min({count, Size[i] - offset})
  <2>1. Size[i] \in Nat /\ Size[i] - offset \in Int
    BY <1>1, Parameters
  <2>2. Min({count, Size[i] - offset})
          = IF count <= Size[i] - offset THEN count ELSE Size[i] - offset
    BY <1>1, <2>1, MinOfTwo
  <2> QED
    BY <1>1, <2>1, <2>2 DEF Cut
<1> HIDE DEF n
<1>4. Len(bs) = n
  BY <1>3
<1> HIDE DEF bs
<1>5. /\ reply'.call = "read" /\ reply'.ok /\ reply'.file = i /\ reply'.bytes = bs
      /\ reply'.offset = offset /\ reply'.count = count
  BY <1>2
<1>6. (Got => Len(reply.bytes) <= reply.count)' /\ LengthIsExact'
  BY <1>3, <1>4, <1>5 DEF LengthIsExact, Got
<1>7. RefusedForCause'
  BY <1>5 DEF RefusedForCause
<1> QED
  BY <1>2, <1>3, <1>6, <1>7 DEF n, bs

\* An answer from blocks of file f has the bytes of that file.
LEMMA Delivery ==
  ASSUME Basic, NEW i \in work.files, NEW offset \in 0 .. Size[i] + 1,
         NEW count \in 0 .. MaxOutput, Admitted(i, offset, count),
         Delivers(i, offset, count), NEW f \in work.files,
         Filled(f, FirstBlk(offset), NBlk(offset, count), cache'),
         \A n \in 0 .. NBlk(offset, count) - 1 : MayArrive(FirstBlk(offset) + n),
         UNCHANGED work
  PROVE  Answered'
<1>1. i \in Inodes /\ offset \in Nat /\ count \in Nat /\ offset <= Size[i]
  BY Requested
<1> DEFINE n == Cut(i, offset, count)
           bs == [k \in 1 .. n |-> cache'[(offset % BlockCells) + k - 1]]
<1>2. /\ n \in Nat /\ n = Min({count, Size[i] - offset})
      /\ reply'.call = "read" /\ reply'.ok /\ reply'.file = i /\ reply'.bytes = bs
      /\ reply'.offset = offset /\ reply'.count = count
  <2>1. reply' = [call |-> "read", file |-> i, offset |-> offset, count |-> count,
                  ok |-> TRUE, bytes |-> bs]
    BY AnyDelivery
  <2> HIDE DEF bs
  <2> QED
    BY <2>1, AnyDelivery
<1>3. Len(bs) = n /\ DOMAIN bs = 1 .. n
  BY <1>2
<1>4. ASSUME NEW k \in 1 .. n
      PROVE  /\ offset + k - 1 < Size[i]
             /\ Findable(offset + k - 1) => bs[k] = Wanted(f, offset + k - 1)
  BY <1>1, CutFromBlocks
<1> HIDE DEF n, bs
<1>5. \A k \in 1 .. n :
        Findable(offset + k - 1) => bs[k] = Wanted(bs[k].file, offset + k - 1)
  <2>1. ASSUME NEW k \in 1 .. n, Findable(offset + k - 1)
        PROVE  bs[k] = Wanted(bs[k].file, offset + k - 1)
    <3>1. bs[k] = Wanted(f, offset + k - 1)
      BY <1>4, <2>1
    <3>2. bs[k].file = f
      BY <3>1 DEF Wanted, Byte
    <3> QED
      BY <3>1, <3>2
  <2> QED
    BY <2>1
<1>6. RightPlace'
  BY <1>2, <1>3, <1>4, <1>5 DEF RightPlace, PlaceOf
<1>7. ExactAlone'
  <2>1. Cardinality(work.files) = 1 => f = i
    BY OnlyOne
  <2> QED
    BY <1>2, <1>3, <1>4, <2>1 DEF ExactAlone, Exact, PlaceOf
<1> QED
  BY <1>6, <1>7, AnyDelivery DEF Answered

\* The answers in turn.
LEMMA Refused ==
  ASSUME IInv, NEW i \in work.files, NEW offset \in 0 .. Size[i] + 1,
         NEW count \in 0 .. MaxOutput, ReadRefused(i, offset, count),
         UNCHANGED <<work, failed>>
  PROVE  IInv'
<1>1. i \in Inodes /\ offset \in Nat /\ count \in Nat
  BY Requested DEF IInv
<1>2. UNCHANGED <<cache, cached_blk, cached_len>>
  BY DEF ReadRefused, Refuses
<1>3. reply' = [call |-> "read", file |-> i, offset |-> offset, count |-> count,
                ok |-> FALSE, bytes |-> <<>>]
  BY DEF ReadRefused, Refuses, Answers
<1>4. cached_inum' \in Inodes \cup {None} /\ cached_inode' = cached_inum'
  BY <1>1 DEF ReadRefused, IInv, Basic, LookupFails, KeepInode, LookupInode
<1>5. Basic'
  BY <1>2, <1>4 DEF IInv, Basic
<1>6. CacheInv'
  BY <1>2 DEF IInv, CacheInv
<1>7. work.fails \/ count >= MaxOutput \/ offset > Size[i]
  <2>1. CASE count >= MaxOutput
    BY <2>1
  <2>2. CASE LookupFails(i)
    BY <2>2 DEF LookupFails
  <2>3. CASE (KeepInode(i) \/ LookupInode(i)) /\ Behind(cached_inode', offset)
    <3>1. cached_inode' = i
      BY <2>3 DEF IInv, Basic, KeepInode, LookupInode
    <3> QED
      BY <2>3, <3>1 DEF Behind
  <2> QED
    BY <2>1, <2>2, <2>3 DEF ReadRefused
<1>8. Answered'
  BY <1>3, <1>7 DEF Answered, Got, LengthIsExact, RightPlace, ExactAlone, RefusedForCause
<1> QED
  BY <1>5, <1>6, <1>8 DEF IInv

\* The description of the cache after an answer is that of the request.
LEMMA AfterDelivery ==
  ASSUME Basic, NEW i \in work.files, NEW offset \in 0 .. Size[i] + 1,
         NEW count \in 0 .. MaxOutput, Admitted(i, offset, count),
         Delivers(i, offset, count)
  PROVE  /\ cached_inum' \in Inodes \cup {None} /\ cached_inode' = cached_inum'
         /\ cached_blk' = FirstBlk(offset) /\ cached_blk' \in Nat
         /\ cached_len' = NBlk(offset, count) /\ cached_len' \in 0 .. CacheSize \div BlockCells
<1>1. /\ i \in Inodes /\ offset \in Nat /\ count \in Nat /\ count < MaxOutput
      /\ cached_inum' = i /\ cached_inode' = i
  BY Requested
<1>2. cached_blk' = FirstBlk(offset) /\ cached_len' = NBlk(offset, count)
  BY DEF Delivers
<1> QED
  BY <1>1, <1>2, Span, Fits

\* An answer from the cache: the blocks are those described there.
LEMMA Hits ==
  ASSUME IInv, NEW i \in work.files, NEW offset \in 0 .. Size[i] + 1,
         NEW count \in 0 .. MaxOutput, ReadHit(i, offset, count),
         UNCHANGED <<work, failed>>
  PROVE  IInv'
<1>1. /\ Admitted(i, offset, count) /\ Delivers(i, offset, count) /\ UNCHANGED cache
      /\ cached_blk = FirstBlk(offset) /\ cached_len = NBlk(offset, count)
  BY DEF ReadHit, Hit
<1>2. /\ cached_inum' \in Inodes \cup {None} /\ cached_inode' = cached_inum'
      /\ UNCHANGED <<cached_blk, cached_len>>
  BY <1>1, AfterDelivery DEF IInv
<1>3. Basic'
  BY <1>1, <1>2 DEF IInv, Basic
<1>4. CacheInv'
  BY <1>1, <1>2 DEF IInv, CacheInv
<1>5. /\ i \in Inodes /\ offset \in Nat /\ count \in Nat /\ cached_inode' = i
      /\ offset <= Size[i] /\ count < MaxOutput
  BY <1>1, Requested DEF IInv
<1>6. cached_len # 0
  BY <1>1, <1>5, Span
<1>7. CASE failed
  <2>1. RightPlace' /\ ExactAlone'
    BY <1>7 DEF RightPlace, ExactAlone
  <2>2. Answered'
    BY <1>1, <2>1, AnyDelivery DEF IInv, Answered
  <2> QED
    BY <1>3, <1>4, <2>2 DEF IInv
<1>8. CASE ~failed
  <2>1. PICK f \in work.files : Filled(f, cached_blk, cached_len, cache)
    BY <1>6, <1>8 DEF IInv, CacheInv
  <2>2. \A n \in 0 .. cached_len - 1 : MayArrive(cached_blk + n)
    BY <1>6, <1>8 DEF IInv, CacheInv
  <2>3. Filled(f, FirstBlk(offset), NBlk(offset, count), cache')
    BY <1>1, <2>1
  <2>4. \A n \in 0 .. NBlk(offset, count) - 1 : MayArrive(FirstBlk(offset) + n)
    BY <1>1, <2>2
  <2>5. Answered'
    BY <1>1, <2>3, <2>4, Delivery DEF IInv
  <2> QED
    BY <1>3, <1>4, <2>5 DEF IInv
<1> QED
  BY <1>7, <1>8

\* An answer from the disk: the blocks are those of the file asked for.
LEMMA Misses ==
  ASSUME IInv, NEW i \in work.files, NEW offset \in 0 .. Size[i] + 1,
         NEW count \in 0 .. MaxOutput, ReadMiss(i, offset, count),
         UNCHANGED <<work, failed>>
  PROVE  IInv'
<1> DEFINE blk == FirstBlk(offset)
           n == NBlk(offset, count)
<1>1. /\ Admitted(i, offset, count) /\ Delivers(i, offset, count)
      /\ cache' = Loaded(cached_inode', blk, n)
      /\ \A k \in 0 .. n - 1 : MayArrive(blk + k)
  BY DEF ReadMiss
<1>2. /\ i \in Inodes /\ offset \in Nat /\ count \in Nat /\ cached_inode' = i
      /\ count < MaxOutput
  BY <1>1, Requested DEF IInv
<1>3. blk \in Nat /\ n \in Nat \ {0} /\ n * BlockCells <= CacheSize
  BY <1>2, Span, Fits
<1> HIDE DEF blk, n
<1>4. /\ DOMAIN cache' = 0 .. CacheSize - 1
      /\ \A k \in DOMAIN cache' :
           cache'[k].file \in Inodes \cup {None} /\ cache'[k].at \in 0 .. BlockCells - 1
      /\ Filled(i, blk, n, cache')
  BY <1>1, <1>2, <1>3, LoadedIs DEF IInv
<1>5. Basic'
  BY <1>1, <1>4, AfterDelivery DEF IInv, Basic
<1>6. CacheInv'
  <2>1. cached_blk' = blk /\ cached_len' = n
    BY <1>1 DEF Delivers, blk, n
  <2> QED
    BY <1>1, <1>4, <2>1 DEF CacheInv
<1>7. Answered'
  BY <1>1, <1>4, Delivery DEF IInv, blk, n
<1> QED
  BY <1>5, <1>6, <1>7 DEF IInv

\* A read of blocks that fails changes the cache and not its description.
LEMMA Fails ==
  ASSUME IInv, NEW i \in work.files, NEW offset \in 0 .. Size[i] + 1,
         NEW count \in 0 .. MaxOutput, ReadFails(i, offset, count),
         failed' = TRUE, UNCHANGED work
  PROVE  IInv'
<1>1. /\ Admitted(i, offset, count) /\ UNCHANGED <<cached_blk, cached_len>>
      /\ reply' = [call |-> "read", file |-> i, offset |-> offset, count |-> count,
                   ok |-> FALSE, bytes |-> <<>>]
  BY DEF ReadFails, Answers
<1>2. PICK n \in 0 .. NBlk(offset, count) - 1 :
        /\ work.fails \/ MayFail(FirstBlk(offset) + n, Blocks(cached_inode'))
        /\ cache' = Loaded(cached_inode', FirstBlk(offset), n)
  BY DEF ReadFails
<1>3. /\ i \in Inodes /\ offset \in Nat /\ count \in Nat /\ cached_inum' = i
      /\ cached_inode' = i /\ count < MaxOutput
  BY <1>1, Requested DEF IInv
<1>4. /\ FirstBlk(offset) \in Nat /\ NBlk(offset, count) \in Nat \ {0}
      /\ NBlk(offset, count) * BlockCells <= CacheSize
  BY <1>3, Span, Fits
<1>5. n \in Nat /\ n * BlockCells <= CacheSize
  <2>1. BlockCells * n + BlockCells <= BlockCells * NBlk(offset, count)
    BY <1>2, <1>4, Parameters, Mono
  <2>2. BlockCells * n \in Nat /\ BlockCells * NBlk(offset, count) \in Nat
    BY <1>2, <1>4, Parameters
  <2>3. /\ BlockCells * n = n * BlockCells
        /\ BlockCells * NBlk(offset, count) = NBlk(offset, count) * BlockCells
    BY <1>2, <1>4, Parameters
  <2> QED
    BY <1>2, <1>4, <2>1, <2>2, <2>3, Parameters DEF CacheSize
<1>6. Basic'
  BY <1>1, <1>2, <1>3, <1>4, <1>5, LoadedIs DEF IInv, Basic
<1>7. CacheInv'
  BY DEF CacheInv
<1>8. work.fails \/ (offset + count) \div BlockCells >= Reachable(i)
  <2>1. SUFFICES ASSUME ~work.fails
                 PROVE  (offset + count) \div BlockCells >= Reachable(i)
    OBVIOUS
  <2>2. FirstBlk(offset) + n >= Reachable(i)
    BY <1>2, <1>3, <1>4, <1>5, <2>1, FailsFar
  <2>3. (offset + count) \div BlockCells \in Nat
    <3>1. offset + count \in Nat
      BY <1>3
    <3> QED
      BY <3>1, Parameters, DivMod
  <2>4. FirstBlk(offset) + n <= (offset + count) \div BlockCells
    BY <1>2, <1>4, <2>3 DEF NBlk
  <2>5. Reachable(i) \in Nat
    BY Parameters DEF Reachable
  <2> QED
    BY <1>4, <1>5, <2>2, <2>3, <2>4, <2>5
<1>9. Answered'
  BY <1>1, <1>8 DEF Answered, Got, LengthIsExact, RightPlace, ExactAlone, RefusedForCause
<1> QED
  BY <1>6, <1>7, <1>9 DEF IInv

\* ResolvePath leaves the cache alone.
LEMMA Resolves ==
  ASSUME IInv, NEW path, ResolvePath(path)
  PROVE  IInv'
<1>1. UNCHANGED <<cache, cached_inum, cached_inode, cached_blk, cached_len, work, failed>>
  BY DEF ResolvePath
<1>2. reply'.call = "resolve"
  BY DEF ResolvePath
<1>3. Basic' /\ CacheInv'
  BY <1>1 DEF IInv, Basic, CacheInv
<1>4. Answered'
  BY <1>2 DEF Answered, Got, LengthIsExact, RightPlace, ExactAlone, RefusedForCause
<1> QED
  BY <1>3, <1>4 DEF IInv

\* A stuttering step.
LEMMA Stays ==
  IInv /\ UNCHANGED vars => IInv'
BY DEF IInv, vars, Basic, CacheInv, Answered, Got, LengthIsExact, RightPlace, ExactAlone,
       RefusedForCause, PlaceOf, Exact

\* Every state of the file server satisfies the invariant.
LEMMA Invariant == Spec => []IInv
<1>1. IInv /\ [Next]_vars => IInv'
  <2> SUFFICES ASSUME IInv, [Next]_vars PROVE IInv'
    OBVIOUS
  <2>1. CASE \E path \in work.paths : ResolvePath(path)
    BY <2>1, Resolves
  <2>2. ASSUME NEW i \in work.files, NEW offset \in 0 .. Size[i] + 1,
               NEW count \in 0 .. MaxOutput, Read(i, offset, count)
        PROVE  IInv'
    BY <2>2, Refused, Hits, Misses, Fails DEF Read
  <2>3. CASE UNCHANGED vars
    BY <2>3, Stays
  <2> QED
    BY <2>1, <2>2, <2>3 DEF Next
<1> QED
  BY <1>1, Initially, PTL DEF Spec

-----------------------------------------------------------------------------
\* The cache is never overrun and goes with the inode it is said to be of
\* (service.c:103-106, 119-139), where the blocks are of 1024 bytes (SameBlocks).
THEOREM TypeCorrect == Spec => []TypeOK
<1>1. IInv => TypeOK
  BY DEF IInv, Basic, Answered, TypeOK
<1> QED
  BY <1>1, Invariant, PTL

\* An answer is as long as the file allows, even from a disk that fails.
THEOREM LengthCorrect == Spec => []LengthIsExact
<1>1. IInv => LengthIsExact
  BY DEF IInv, Answered
<1> QED
  BY <1>1, Invariant, PTL

\* Until a read of blocks fails, an answer has bytes of the place asked for, where the
\* blocks are of 1024 bytes (SameBlocks; service.c:125-148, ext2_read_file_block).
THEOREM PlaceCorrect == Spec => []RightPlace
<1>1. IInv => RightPlace
  BY DEF IInv, Answered
<1> QED
  BY <1>1, Invariant, PTL

\* A file that is read alone is read exactly.
THEOREM AloneCorrect == Spec => []ExactAlone
<1>1. IInv => ExactAlone
  BY DEF IInv, Answered
<1> QED
  BY <1>1, Invariant, PTL

\* A refusal has one of the causes that ext2fs.c and the limit give.
THEOREM RefusalsHaveACause == Spec => []RefusedForCause
<1>1. IInv => RefusedForCause
  BY DEF IInv, Answered
<1> QED
  BY <1>1, Invariant, PTL

-----------------------------------------------------------------------------
\* The smallest of a set of numbers is one of them.
LEMMA MinOfSet ==
  ASSUME NEW S \in SUBSET Nat, S # {}
  PROVE  Min(S) \in S /\ \A x \in S : Min(S) <= x
<1>1. PICK m \in S : \A x \in S : ~ (<<x, m>> \in OpToRel(<, Nat))
  BY NatLessThanWellFounded, WFMin
<1>2. ASSUME NEW x \in S PROVE m <= x
  <2>1. m \in Nat /\ x \in Nat
    OBVIOUS
  <2>2. ~ (x < m)
    <3>1. <<x, m>> \in Nat \X Nat /\ <<x, m>>[1] = x /\ <<x, m>>[2] = m
      BY <2>1
    <3> QED
      BY <1>1, <3>1 DEF OpToRel
  <2> QED
    BY <2>1, <2>2
<1> QED
  BY <1>2 DEF Min

\* Induction over 0 .. n, of which T holds the numbers that are dealt with: the
\* least that T lacked would come after one of T.
LEMMA StepByStep ==
  ASSUME NEW n \in Nat, NEW T, 0 \in T, \A k \in 1 .. n : k - 1 \in T => k \in T
  PROVE  \A k \in 0 .. n : k \in T
<1> DEFINE Missing == (0 .. n) \ T
           m == Min(Missing)
<1>1. SUFFICES ASSUME Missing # {} PROVE FALSE
  OBVIOUS
<1>2. m \in Missing /\ \A x \in Missing : m <= x
  <2>1. Missing \in SUBSET Nat
    OBVIOUS
  <2> HIDE DEF Missing
  <2> QED
    BY <1>1, <2>1, MinOfSet
<1> HIDE DEF m
<1>3. m \in 1 .. n /\ m - 1 \in 0 .. n /\ m - 1 < m
  BY <1>2
<1>4. m - 1 \in T
  BY <1>2, <1>3
<1> QED
  BY <1>2, <1>3, <1>4

\* g starts with a base and goes on by a step F.
Runs(g, base, n, F) == g[0] = base /\ \A k \in 1 .. n : g[k] = F[<<k, g[k - 1]>>]

\* What a recursive function on 0 .. n stands for is there: a function whose
\* value at each number is what a step F makes of the value before it.
LEMMA Recursion ==
  ASSUME NEW X, NEW base \in X, NEW n \in Nat, NEW F \in [(1 .. n) \X X -> X]
  PROVE  \E g \in [0 .. n -> X] : Runs(g, base, n, F)
<1> DEFINE Reached(m) == \E g \in [0 .. m -> X] : Runs(g, base, m, F)
           T == {m \in 0 .. n : Reached(m)}
<1>1. 0 \in T
  <2>1. [k \in 0 .. 0 |-> base] \in [0 .. 0 -> X] /\ [k \in 0 .. 0 |-> base][0] = base
    OBVIOUS
  <2>2. \A k \in 1 .. 0 : [j \in 0 .. 0 |-> base][k] = F[<<k, [j \in 0 .. 0 |-> base][k - 1]>>]
    OBVIOUS
  <2>3. Reached(0)
    BY <2>1, <2>2 DEF Runs
  <2> QED
    BY <2>3
<1>2. ASSUME NEW m \in 1 .. n, m - 1 \in T PROVE m \in T
  <2>1. m - 1 \in Nat /\ m \in Nat
    OBVIOUS
  <2>2. PICK g \in [0 .. m - 1 -> X] :
          g[0] = base /\ \A k \in 1 .. m - 1 : g[k] = F[<<k, g[k - 1]>>]
    BY <1>2 DEF Runs
  <2> DEFINE h == [k \in 0 .. m |-> IF k = m THEN F[<<m, g[m - 1]>>] ELSE g[k]]
  <2>3. g[m - 1] \in X /\ F[<<m, g[m - 1]>>] \in X
    <3>1. m - 1 \in 0 .. m - 1
      BY <2>1
    <3>2. g[m - 1] \in X
      BY <3>1
    <3>3. <<m, g[m - 1]>> \in (1 .. n) \X X
      BY <3>2
    <3> QED
      BY <3>2, <3>3
  <2>4. h \in [0 .. m -> X]
    <3>1. \A k \in 0 .. m : k # m => k \in 0 .. m - 1
      BY <2>1
    <3> QED
      BY <2>3, <3>1
  <2>5. h[0] = base
    <3>1. 0 \in 0 .. m /\ 0 # m
      BY <2>1
    <3> QED
      BY <2>2, <3>1
  <2>6. ASSUME NEW k \in 1 .. m PROVE h[k] = F[<<k, h[k - 1]>>]
    <3>1. k \in 0 .. m /\ k - 1 \in 0 .. m /\ k - 1 # m
      BY <2>1
    <3>2. h[k - 1] = g[k - 1]
      BY <3>1
    <3>3. CASE k = m
      BY <3>1, <3>2, <3>3
    <3>4. CASE k # m
      <4>1. k \in 1 .. m - 1
        BY <2>1, <3>4
      <4> QED
        BY <2>2, <3>1, <3>2, <3>4, <4>1
    <3> QED
      BY <3>3, <3>4
  <2> HIDE DEF h
  <2>7. Reached(m)
    BY <2>4, <2>5, <2>6 DEF Runs
  <2> QED
    BY <2>7
<1>3. \A m \in 0 .. n : m \in T
  <2> HIDE DEF T
  <2> QED
    BY <1>1, <1>2, StepByStep
<1>4. Reached(n)
  <2>1. n \in 0 .. n
    OBVIOUS
  <2> QED
    BY <1>3, <2>1
<1> QED
  BY <1>4

\* A path without the slashes in front.
LEMMA StrippedIs ==
  ASSUME NEW path \in Paths
  PROVE  Stripped(path) \in Seq(DOMAIN Letters \cup {"/"})
<1> DEFINE S == DOMAIN Letters \cup {"/"}
           names == {k \in DOMAIN path : path[k] # "/"}
<1>1. path \in Seq(S)
  BY PathAssumption
<1>2. DOMAIN path = 1 .. Len(path) /\ Len(path) \in Nat /\ \A k \in 1 .. Len(path) : path[k] \in S
  BY <1>1, LenProperties, ElementOfSeq
<1>3. CASE names = {}
  BY <1>3, EmptySeq DEF Stripped
<1>4. CASE names # {}
  <2>1. Min(names) \in names
    <3>1. names \in SUBSET Nat
      BY <1>2
    <3> HIDE DEF names
    <3> QED
      BY <1>4, <3>1, MinOfSet
  <2> DEFINE f == Min(names)
  <2>2. f \in 1 .. Len(path)
    BY <1>2, <2>1
  <2> HIDE DEF f
  <2>3. f \in Int /\ Len(path) \in Int /\ \A k \in f .. Len(path) : path[k] \in S
    BY <1>2, <2>2
  <2>4. SubSeq(path, f, Len(path)) \in Seq(S)
    <3> HIDE DEF S
    <3> QED
      BY <2>3, SubSeqProperties
  <2> QED
    BY <1>4, <2>4 DEF Stripped, f
<1> QED
  BY <1>3, <1>4

\* The names of a path are a sequence of names.
LEMMA NamesAre ==
  ASSUME NEW path \in Paths
  PROVE  NamesIn(path) \in Seq(DOMAIN Letters)
<1> DEFINE p == Stripped(path)
           X == Seq(DOMAIN Letters)
           n == Len(p)
           Step(k, x) == IF k > 1 /\ p[k - 1] # "/" THEN x
                         ELSE Append(x, IF p[k] = "/" THEN Empty ELSE p[k])
           F == [kx \in (1 .. n) \X X |-> Step(kx[1], kx[2])]
           names[k \in 0 .. Len(p)] ==
             IF k = 0 THEN <<>>
             ELSE IF k > 1 /\ p[k - 1] # "/" THEN names[k - 1]
             ELSE Append(names[k - 1], IF p[k] = "/" THEN Empty ELSE p[k])
<1>1. NamesIn(path) = names[n]
  BY DEF NamesIn
<1>2. p \in Seq(DOMAIN Letters \cup {"/"})
  BY StrippedIs
<1> HIDE DEF p
<1>3. n \in Nat /\ \A k \in 1 .. n : p[k] \in DOMAIN Letters \cup {"/"}
  BY <1>2, LenProperties, ElementOfSeq
<1>4. ASSUME NEW k \in 1 .. n, NEW x \in X PROVE Step(k, x) \in X
  <2> DEFINE name == IF p[k] = "/" THEN Empty ELSE p[k]
  <2>1. name \in DOMAIN Letters
    BY <1>3, NameAssumption
  <2> HIDE DEF name
  <2>2. Append(x, name) \in X
    BY <2>1, AppendProperties
  <2> QED
    BY <2>2 DEF name
<1> HIDE DEF n, X
<1>5. F \in [(1 .. n) \X X -> X]
  BY <1>4
<1>6. <<>> \in X
  BY EmptySeq DEF X
<1>7. PICK g \in [0 .. n -> X] : g[0] = <<>> /\ \A k \in 1 .. n : g[k] = F[<<k, g[k - 1]>>]
  <2> HIDE DEF F
  <2>1. \E g \in [0 .. n -> X] : Runs(g, <<>>, n, F)
    BY <1>3, <1>5, <1>6, Recursion
  <2> QED
    BY <2>1 DEF Runs
<1>8. g = [k \in 0 .. n |-> IF k = 0 THEN <<>>
             ELSE IF k > 1 /\ p[k - 1] # "/" THEN g[k - 1]
             ELSE Append(g[k - 1], IF p[k] = "/" THEN Empty ELSE p[k])]
  <2>1. ASSUME NEW k \in 1 .. n PROVE g[k] = Step(k, g[k - 1])
    <3>1. k - 1 \in 0 .. n
      BY <1>3
    <3>2. <<k, g[k - 1]>> \in (1 .. n) \X X
      BY <3>1
    <3> QED
      BY <1>7, <3>2
  <2>2. \A k \in 0 .. n : k # 0 => k \in 1 .. n
    BY <1>3
  <2> QED
    BY <1>7, <2>1, <2>2, ZenonT(40)
<1>9. names = [k \in 0 .. n |-> IF k = 0 THEN <<>>
             ELSE IF k > 1 /\ p[k - 1] # "/" THEN names[k - 1]
             ELSE Append(names[k - 1], IF p[k] = "/" THEN Empty ELSE p[k])]
  BY <1>8 DEF n
<1>10. \A k \in 0 .. n : names[k] \in X
  <2> DEFINE T == {k \in 0 .. n : names[k] \in X}
  <2>1. 0 \in T
    <3> HIDE DEF names
    <3>1. 0 \in 0 .. n
      BY <1>3
    <3>2. names[0] = <<>>
      BY <1>9, <3>1
    <3> QED
      BY <1>6, <3>1, <3>2
  <2>2. ASSUME NEW k \in 1 .. n, k - 1 \in T PROVE k \in T
    <3>1. k \in 0 .. n /\ k # 0 /\ names[k - 1] \in X
      BY <1>3, <2>2
    <3>2. names[k] = Step(k, names[k - 1])
      BY <1>9, <3>1
    <3> HIDE DEF Step, names
    <3> QED
      BY <1>4, <3>1, <3>2
  <2>3. \A k \in 0 .. n : k \in T
    <3> HIDE DEF T
    <3> QED
      BY <1>3, <2>1, <2>2, StepByStep
  <2> QED
    BY <2>3
<1>11. n \in 0 .. n
  BY <1>3
<1>12. names[n] \in X
  <2> HIDE DEF names
  <2> QED
    BY <1>10, <1>11
<1> QED
  BY <1>1, <1>12 DEF X

\* A number below the divisor is its own remainder.
LEMMA SmallMod ==
  ASSUME NEW a \in Nat, NEW b \in Nat, a < b
  PROVE  a % b = a
OBVIOUS

\* A whole sequence is the part from its beginning to its end.
LEMMA WholeSeq ==
  ASSUME NEW S, NEW s \in Seq(S)
  PROVE  SubSeq(s, 1, Len(s)) = s
<1> DEFINE n == Len(s)
<1>1. n \in Nat /\ \A i \in 1 .. n : s[i] \in S
  BY LenProperties, ElementOfSeq
<1> HIDE DEF n
<1>2. /\ SubSeq(s, 1, n) \in Seq(S)
      /\ Len(SubSeq(s, 1, n)) = IF 1 <= n THEN n - 1 + 1 ELSE 0
      /\ \A i \in 1 .. n - 1 + 1 : SubSeq(s, 1, n)[i] = s[1 + i - 1]
  BY <1>1, SubSeqProperties
<1>3. Len(SubSeq(s, 1, n)) = n /\ \A i \in 1 .. n : SubSeq(s, 1, n)[i] = s[i]
  BY <1>1, <1>2
<1>4. Len(s) = n
  BY DEF n
<1>5. SubSeq(s, 1, n) = s
  BY <1>2, <1>3, <1>4, SeqEqual
<1> QED
  BY <1>5 DEF n

\* An entry matches a name of ordinary length when it is in use and of that name
\* (ext2fs.c:147-153).
LEMMA MatchesIs ==
  ASSUME NEW d \in Nodes, NEW k \in DOMAIN Entries[d], NEW name \in DOMAIN Letters,
         Len(Letters[name]) < NameRange
  PROVE  Matches(Entries[d][k], name)
           <=> Entries[d][k].inode # Unused /\ Entries[d][k].name = name
<1> DEFINE e == Entries[d][k]
           s == Letters[e.name]
           t == Letters[name]
<1>1. e.name \in DOMAIN Letters /\ Len(s) \in 1 .. NameRange - 1
  BY EntryAssumption
<1>2. s \in Seq(Range(s)) /\ t \in Seq(Range(t))
  BY <1>1, NameAssumption
<1> HIDE DEF s, t
<1>3. Len(t) \in Nat /\ Len(s) \in Nat /\ SubSeq(s, 1, Len(s)) = s /\ SubSeq(t, 1, Len(t)) = t
  BY <1>2, WholeSeq, LenProperties
<1>4. Len(t) % NameRange = Len(t)
  <2>1. NameRange \in Nat /\ Len(t) < NameRange /\ Len(t) \in Nat
    BY <1>3, NameAssumption DEF t
  <2> QED
    BY <2>1, SmallMod
<1>5. (Len(s) = Len(t) /\ IsPrefix(s, t)) <=> s = t
  <2>1. ASSUME s = t PROVE Len(s) = Len(t) /\ IsPrefix(s, t)
    BY <1>3, <2>1 DEF IsPrefix
  <2>2. ASSUME Len(s) = Len(t), IsPrefix(s, t) PROVE s = t
    <3>1. SubSeq(s, 1, Len(s)) = SubSeq(t, 1, Len(t))
      BY <2>2 DEF IsPrefix
    <3> QED
      BY <1>3, <3>1
  <2> QED
    BY <2>1, <2>2
<1>6. s = t <=> e.name = name
  BY <1>1, NameAssumption DEF s, t
<1>7. Matches(e, name) <=> e.inode # Unused /\ Len(s) = Len(t) % NameRange /\ IsPrefix(s, t)
  BY DEF Matches, s, t
<1> QED
  BY <1>4, <1>5, <1>6, <1>7

\* The search of a directory whose second block matters not gives what the
\* directory lists (ext2fs.c:129-158).
LEMMA SearchIs ==
  ASSUME NEW d \in Nodes, NEW name \in DOMAIN Letters, Len(Letters[name]) < NameRange,
         \/ \A k \in DOMAIN Entries[d] : ~ (Entries[d][k].block > 0)
         \/ \E k \in DOMAIN Entries[d] :
              /\ Entries[d][k].block = 0 /\ Entries[d][k].name = name
              /\ Entries[d][k].inode # Unused,
         NEW end \in Search(d, name)
  PROVE  \/ /\ end \in Nodes /\ Lists(d, name, end)
            /\ \A j \in Nodes : Lists(d, name, j) => j = end
         \/ end = Nowhere /\ \A j \in Nodes : ~Lists(d, name, j)
<1> DEFINE first == {k \in DOMAIN Entries[d] : Entries[d][k].block = 0}
           hits == {k \in first : Matches(Entries[d][k], name)}
<1>1. \A k \in DOMAIN Entries[d] :
        /\ Matches(Entries[d][k], name)
             <=> Entries[d][k].inode # Unused /\ Entries[d][k].name = name
        /\ Entries[d][k].inode \in Nodes \cup {Unused} /\ Entries[d][k].block \in Nat
  BY MatchesIs, EntryAssumption
<1>2. Search(d, name) = IF hits # {} THEN {Entries[d][Min(hits)].inode}
                        ELSE IF first = DOMAIN Entries[d] THEN {Nowhere} ELSE Anything
  BY DEF Search
<1>3. CASE hits # {}
  <2> DEFINE m == Min(hits)
  <2>1. m \in hits
    <3>1. hits \in SUBSET Nat
      <4>1. Entries[d] \in Seq(Range(Entries[d]))
        BY EntryAssumption
      <4>2. DOMAIN Entries[d] = 1 .. Len(Entries[d]) /\ Len(Entries[d]) \in Nat
        BY <4>1, LenProperties
      <4> QED
        BY <4>2
    <3> HIDE DEF hits
    <3> QED
      BY <1>3, <3>1, MinOfSet
  <2>2. end = Entries[d][m].inode
    BY <1>2, <1>3
  <2> HIDE DEF m
  <2>3. m \in DOMAIN Entries[d] /\ Entries[d][m].inode # Unused /\ Entries[d][m].name = name
    BY <1>1, <2>1
  <2>4. end \in Nodes /\ Lists(d, name, end)
    BY <1>1, <2>2, <2>3 DEF Lists
  <2>5. ASSUME NEW j \in Nodes, Lists(d, name, j) PROVE j = end
    <3>1. PICK k \in DOMAIN Entries[d] : Entries[d][k].name = name /\ Entries[d][k].inode = j
      BY <2>5 DEF Lists
    <3>2. j # Unused
      BY EntryAssumption
    <3>3. k = m
      BY <2>3, <3>1, <3>2, NameAssumption
    <3> QED
      BY <2>2, <3>1, <3>3
  <2> QED
    BY <2>4, <2>5
<1>4. CASE hits = {}
  <2>1. \A k \in DOMAIN Entries[d] : ~ (Entries[d][k].block > 0)
    BY <1>1, <1>4
  <2>2. first = DOMAIN Entries[d]
    BY <1>1, <2>1
  <2>3. end = Nowhere
    BY <1>2, <1>4, <2>2
  <2>4. ASSUME NEW j \in Nodes, Lists(d, name, j) PROVE FALSE
    <3>1. PICK k \in DOMAIN Entries[d] : Entries[d][k].name = name /\ Entries[d][k].inode = j
      BY <2>4 DEF Lists
    <3>2. j # Unused
      BY EntryAssumption
    <3>3. k \in hits
      BY <1>1, <2>2, <3>1, <3>2
    <3> QED
      BY <1>4, <3>3
  <2> QED
    BY <2>3, <2>4
<1> QED
  BY <1>3, <1>4

\* A search ends at an inode, at a stray number or nowhere.
LEMMA EnterTypes ==
  ASSUME NEW at \in Anything, NEW name \in DOMAIN Letters
  PROVE  Enter(at, name) \in SUBSET Anything
<1>1. CASE at = Stray
  BY <1>1 DEF Enter
<1>2. CASE at # Stray /\ (at = Nowhere \/ Entries[at] = <<>>)
  BY <1>2 DEF Enter, Anything
<1>3. CASE at \in Nodes /\ at # Stray /\ at # Nowhere /\ Entries[at] # <<>>
  <2> DEFINE first == {k \in DOMAIN Entries[at] : Entries[at][k].block = 0}
             hits == {k \in first : Matches(Entries[at][k], name)}
  <2>1. Enter(at, name) = IF hits # {} THEN {Entries[at][Min(hits)].inode}
                          ELSE IF first = DOMAIN Entries[at] THEN {Nowhere} ELSE Anything
    BY <1>3 DEF Enter, Search
  <2>2. ASSUME hits # {} PROVE Entries[at][Min(hits)].inode \in Nodes
    <3>1. hits \in SUBSET Nat
      <4>1. Entries[at] \in Seq(Range(Entries[at]))
        BY <1>3, EntryAssumption
      <4>2. DOMAIN Entries[at] = 1 .. Len(Entries[at]) /\ Len(Entries[at]) \in Nat
        BY <4>1, LenProperties
      <4> QED
        BY <4>2
    <3>2. Min(hits) \in hits
      <4> HIDE DEF hits
      <4> QED
        BY <2>2, <3>1, MinOfSet
    <3> DEFINE m == Min(hits)
    <3>3. m \in hits
      BY <3>2
    <3> HIDE DEF m
    <3>4. m \in DOMAIN Entries[at] /\ Entries[at][m].inode # Unused
      BY <3>3 DEF Matches
    <3>5. Entries[at][m].inode \in Nodes
      BY <1>3, <3>4, EntryAssumption
    <3> QED
      BY <3>5 DEF m
  <2> HIDE DEF hits, first
  <2> QED
    BY <2>1, <2>2 DEF Anything
<1> QED
  BY <1>1, <1>2, <1>3 DEF Anything

\* The first k of the names lead from the root to j.
Reaches(names, k, j) ==
  \E walk \in [0 .. k -> Nodes] :
    /\ walk[0] = Root /\ walk[k] = j
    /\ \A i \in 1 .. k : Lists(walk[i - 1], names[i], walk[i])

\* That is what Leads says of the part of the path with those names.
LEMMA ReachesIsLeads ==
  ASSUME NEW names \in Seq(DOMAIN Letters), NEW k \in 0 .. Len(names), NEW j
  PROVE  Reaches(names, k, j) <=> Leads(SubSeq(names, 1, k), j)
<1> DEFINE part == SubSeq(names, 1, k)
<1>1. Len(names) \in Nat /\ \A i \in 1 .. Len(names) : names[i] \in DOMAIN Letters
  BY LenProperties, ElementOfSeq
<1>2. /\ part \in Seq(DOMAIN Letters)
      /\ Len(part) = IF 1 <= k THEN k - 1 + 1 ELSE 0
      /\ \A i \in 1 .. k - 1 + 1 : part[i] = names[1 + i - 1]
  BY <1>1, SubSeqProperties
<1> HIDE DEF part
<1>3. Len(part) = k /\ DOMAIN part = 1 .. k /\ \A i \in 1 .. k : part[i] = names[i]
  BY <1>1, <1>2, LenProperties
<1>4. Reaches(names, k, j) <=> Leads(part, j)
  BY <1>3 DEF Reaches, Leads
<1> QED
  BY <1>4 DEF part

\* No name leads anywhere but to the root.
LEMMA ReachesRoot ==
  ASSUME NEW names, NEW j
  PROVE  Reaches(names, 0, j) <=> j = Root
<1>1. Root \in Nodes
  BY EntryAssumption
<1>2. ASSUME j = Root PROVE Reaches(names, 0, j)
  <2> DEFINE walk == [i \in 0 .. 0 |-> Root]
  <2>1. walk \in [0 .. 0 -> Nodes] /\ walk[0] = Root /\ \A i \in 1 .. 0 : Lists(walk[i - 1], names[i], walk[i])
    BY <1>1
  <2> HIDE DEF walk
  <2> QED
    BY <1>2, <2>1 DEF Reaches
<1>3. ASSUME Reaches(names, 0, j) PROVE j = Root
  BY <1>3 DEF Reaches
<1> QED
  BY <1>2, <1>3

\* One name more leads to what the directory reached lists under it.
LEMMA ReachesNext ==
  ASSUME NEW names, NEW k \in Nat \ {0}, NEW j \in Nodes
  PROVE  Reaches(names, k, j)
           <=> \E d \in Nodes : Reaches(names, k - 1, d) /\ Lists(d, names[k], j)
<1>1. ASSUME Reaches(names, k, j)
      PROVE  \E d \in Nodes : Reaches(names, k - 1, d) /\ Lists(d, names[k], j)
  <2>1. PICK walk \in [0 .. k -> Nodes] :
          /\ walk[0] = Root /\ walk[k] = j
          /\ \A i \in 1 .. k : Lists(walk[i - 1], names[i], walk[i])
    BY <1>1 DEF Reaches
  <2> DEFINE w == [i \in 0 .. k - 1 |-> walk[i]]
  <2>2. w \in [0 .. k - 1 -> Nodes] /\ w[0] = Root /\ w[k - 1] = walk[k - 1]
    BY <2>1
  <2>3. \A i \in 1 .. k - 1 : Lists(w[i - 1], names[i], w[i])
    <3>1. \A i \in 1 .. k - 1 : i \in 1 .. k /\ w[i - 1] = walk[i - 1] /\ w[i] = walk[i]
      OBVIOUS
    <3> HIDE DEF w
    <3> QED
      BY <2>1, <3>1
  <2> HIDE DEF w
  <2>4. Reaches(names, k - 1, walk[k - 1])
    BY <2>2, <2>3 DEF Reaches
  <2>5. walk[k - 1] \in Nodes /\ Lists(walk[k - 1], names[k], j)
    <3>1. k - 1 \in 0 .. k /\ k \in 1 .. k
      OBVIOUS
    <3> QED
      BY <2>1, <3>1
  <2> QED
    BY <2>4, <2>5
<1>2. ASSUME NEW d \in Nodes, Reaches(names, k - 1, d), Lists(d, names[k], j)
      PROVE  Reaches(names, k, j)
  <2>1. PICK walk \in [0 .. k - 1 -> Nodes] :
          /\ walk[0] = Root /\ walk[k - 1] = d
          /\ \A i \in 1 .. k - 1 : Lists(walk[i - 1], names[i], walk[i])
    BY <1>2 DEF Reaches
  <2> DEFINE w == [i \in 0 .. k |-> IF i = k THEN j ELSE walk[i]]
  <2>2. w \in [0 .. k -> Nodes]
    <3>1. \A i \in 0 .. k : i # k => i \in 0 .. k - 1
      OBVIOUS
    <3> QED
      BY <3>1
  <2>3. w[0] = Root /\ w[k] = j /\ w[k - 1] = d
    BY <2>1
  <2>4. ASSUME NEW i \in 1 .. k PROVE Lists(w[i - 1], names[i], w[i])
    <3>1. CASE i = k
      BY <1>2, <2>3, <3>1
    <3>2. CASE i # k
      <4>1. i \in 1 .. k - 1 /\ w[i - 1] = walk[i - 1] /\ w[i] = walk[i]
        BY <3>2
      <4> HIDE DEF w
      <4> QED
        BY <2>1, <4>1
    <3> QED
      BY <3>1, <3>2
  <2> HIDE DEF w
  <2> QED
    BY <2>2, <2>3, <2>4 DEF Reaches
<1> QED
  BY <1>1, <1>2

\* Where the lookup may be after k names is where they lead: one inode, or
\* nowhere if they lead to none.
Right(names, k, end) ==
  \/ /\ end \in Nodes /\ Reaches(names, k, end)
     /\ \A j \in Nodes : Reaches(names, k, j) => j = end
  \/ end = Nowhere /\ \A j \in Nodes : ~Reaches(names, k, j)

\* A path whose names are of ordinary length and that no search follows into
\* the second block of a directory.
Ordinary(names) ==
  /\ \A k \in DOMAIN names : Len(Letters[names[k]]) < NameRange
  /\ ~BehindBlock(names)

\* One name further (ext2fs.c:115-158).
LEMMA EnterIsRight ==
  ASSUME NEW names \in Seq(DOMAIN Letters), Ordinary(names), NEW k \in 1 .. Len(names),
         NEW at, Right(names, k - 1, at), NEW end \in Enter(at, names[k])
  PROVE  Right(names, k, end)
<1>1. /\ Len(names) \in Nat /\ DOMAIN names = 1 .. Len(names)
      /\ k \in Nat \ {0} /\ k - 1 \in 0 .. Len(names) /\ k \in DOMAIN names
      /\ names[k] \in DOMAIN Letters /\ Len(Letters[names[k]]) < NameRange
  BY LenProperties, ElementOfSeq DEF Ordinary
<1>2. \A j \in Nodes : Reaches(names, k, j)
        <=> \E d \in Nodes : Reaches(names, k - 1, d) /\ Lists(d, names[k], j)
  BY <1>1, ReachesNext
<1>3. Stray \notin Nodes /\ Nowhere \notin Nodes /\ Stray # Nowhere
  BY EntryAssumption DEF Stray, Nowhere
<1>4. CASE at = Nowhere /\ \A j \in Nodes : ~Reaches(names, k - 1, j)
  <2>1. end = Nowhere
    BY <1>3, <1>4 DEF Enter
  <2> QED
    BY <1>2, <1>4, <2>1 DEF Right
<1>5. CASE /\ at \in Nodes /\ Reaches(names, k - 1, at)
           /\ \A j \in Nodes : Reaches(names, k - 1, j) => j = at
  <2>1. \A j \in Nodes : Reaches(names, k, j) <=> Lists(at, names[k], j)
    BY <1>2, <1>5
  <2>2. CASE Entries[at] = <<>>
    <3>1. end = Nowhere
      BY <1>3, <1>5, <2>2 DEF Enter
    <3>2. DOMAIN Entries[at] = {}
      BY <2>2
    <3>3. \A j : ~Lists(at, names[k], j)
      BY <3>2 DEF Lists
    <3> QED
      BY <2>1, <3>1, <3>3 DEF Right
  <2>3. CASE Entries[at] # <<>>
    <3>1. end \in Search(at, names[k])
      BY <1>3, <1>5, <2>3 DEF Enter
    <3>2. Leads(SubSeq(names, 1, k - 1), at)
      BY <1>1, <1>5, ReachesIsLeads
    <3>3. \/ \A e \in DOMAIN Entries[at] : ~ (Entries[at][e].block > 0)
          \/ \E e \in DOMAIN Entries[at] :
               /\ Entries[at][e].block = 0 /\ Entries[at][e].name = names[k]
               /\ Entries[at][e].inode # Unused
      BY <1>1, <1>5, <3>2 DEF Ordinary, BehindBlock
    <3>4. \/ /\ end \in Nodes /\ Lists(at, names[k], end)
             /\ \A j \in Nodes : Lists(at, names[k], j) => j = end
          \/ end = Nowhere /\ \A j \in Nodes : ~Lists(at, names[k], j)
      BY <1>1, <1>5, <3>1, <3>3, SearchIs
    <3> QED
      BY <2>1, <3>4 DEF Right
  <2> QED
    BY <2>2, <2>3
<1> QED
  BY <1>4, <1>5 DEF Right

\* The lookup of an ordinary path ends where the path leads (ext2_lookup_path).
LEMMA LookupIs ==
  ASSUME NEW path \in Paths, Ordinary(NamesIn(path)), NEW end \in Lookup(path)
  PROVE  Right(NamesIn(path), Len(NamesIn(path)), end)
<1> DEFINE names == NamesIn(path)
           n == Len(names)
           X == SUBSET Anything
           Step(k, x) == UNION {Enter(at, names[k]) : at \in x}
           F == [kx \in (1 .. n) \X X |-> Step(kx[1], kx[2])]
           ends[k \in 0 .. Len(names)] ==
             IF k = 0 THEN {Root}
             ELSE UNION {Enter(at, names[k]) : at \in ends[k - 1]}
<1>1. Lookup(path) = ends[n]
  BY DEF Lookup
<1>2. names \in Seq(DOMAIN Letters)
  BY NamesAre
<1>3. Ordinary(names)
  OBVIOUS
<1> HIDE DEF names
<1>4. n \in Nat /\ \A k \in 1 .. n : names[k] \in DOMAIN Letters
  BY <1>2, LenProperties, ElementOfSeq
<1> HIDE DEF n
<1>5. ASSUME NEW k \in 1 .. n, NEW x \in X
      PROVE  Step(k, x) \in X
  <2>1. \A at \in x : Enter(at, names[k]) \in SUBSET Anything
    BY <1>4, EnterTypes
  <2> QED
    BY <2>1
<1> HIDE DEF X
<1>6. F \in [(1 .. n) \X X -> X]
  BY <1>5
<1>7. {Root} \in X
  BY EntryAssumption DEF X, Anything
<1>8. PICK g \in [0 .. n -> X] : g[0] = {Root} /\ \A k \in 1 .. n : g[k] = F[<<k, g[k - 1]>>]
  <2> HIDE DEF F
  <2>1. \E g \in [0 .. n -> X] : Runs(g, {Root}, n, F)
    BY <1>4, <1>6, <1>7, Recursion
  <2> QED
    BY <2>1 DEF Runs
<1>9. g = [k \in 0 .. n |-> IF k = 0 THEN {Root}
             ELSE UNION {Enter(at, names[k]) : at \in g[k - 1]}]
  <2>1. ASSUME NEW k \in 1 .. n PROVE g[k] = Step(k, g[k - 1])
    <3>1. k - 1 \in 0 .. n
      BY <1>4
    <3>2. <<k, g[k - 1]>> \in (1 .. n) \X X
      BY <3>1
    <3>3. F[<<k, g[k - 1]>>] = Step(k, g[k - 1])
      <4> HIDE DEF Step
      <4> QED
        BY <3>2
    <3> HIDE DEF F, Step
    <3> QED
      BY <1>8, <3>3
  <2>2. \A k \in 0 .. n : k # 0 => k \in 1 .. n
    BY <1>4
  <2> QED
    BY <1>8, <2>1, <2>2
<1>10. ends = [k \in 0 .. n |-> IF k = 0 THEN {Root}
             ELSE UNION {Enter(at, names[k]) : at \in ends[k - 1]}]
  BY <1>9 DEF n
<1>11. ends[0] = {Root} /\ \A k \in 1 .. n : ends[k] = Step(k, ends[k - 1])
  <2>1. ends = [k \in 0 .. n |-> IF k = 0 THEN {Root} ELSE Step(k, ends[k - 1])]
    BY <1>10
  <2> HIDE DEF Step, ends
  <2>2. 0 \in 0 .. n /\ \A k \in 1 .. n : k \in 0 .. n /\ k # 0
    BY <1>4
  <2> QED
    BY <2>1, <2>2
<1> HIDE DEF ends
<1> DEFINE T == {k \in 0 .. n : \A at \in ends[k] : Right(names, k, at)}
<1>12. 0 \in T
  <2>1. Right(names, 0, Root)
    BY ReachesRoot, EntryAssumption DEF Right
  <2> QED
    BY <1>4, <1>11, <2>1
<1>13. ASSUME NEW k \in 1 .. n, k - 1 \in T PROVE k \in T
  <2>1. k \in 1 .. Len(names)
    BY DEF n
  <2>2. ASSUME NEW to \in ends[k] PROVE Right(names, k, to)
    <3>1. PICK at \in ends[k - 1] : to \in Enter(at, names[k])
      BY <1>11, <2>2
    <3>2. Right(names, k - 1, at)
      BY <1>13
    <3> QED
      BY <1>2, <1>3, <2>1, <3>1, <3>2, EnterIsRight
  <2> QED
    BY <1>4, <2>2
<1>14. \A k \in 0 .. n : k \in T
  <2> HIDE DEF T
  <2> QED
    BY <1>4, <1>12, <1>13, StepByStep
<1>15. Right(names, n, end)
  <2>1. n \in T
    BY <1>4, <1>14
  <2> QED
    BY <1>1, <2>1
<1> QED
  BY <1>15 DEF names, n

-----------------------------------------------------------------------------
\* What the answer to a ResolvePath has to do with the path: it is where the
\* lookup ended, or nowhere, if the disk failed.
Resolved ==
  /\ work \in Workloads
  /\ reply.call = "resolve" =>
       /\ reply.path \in Paths
       /\ reply.ok = (reply.file # Nowhere)
       /\ reply.file \in Lookup(reply.path) \/ (work.fails /\ reply.file = Nowhere)

\* Every answer to a ResolvePath is one that the lookup allows.
LEMMA ResolvedAlways == Spec => []Resolved
<1>1. Init => Resolved
  BY DEF Init, Resolved
<1>2. Resolved /\ [Next]_vars => Resolved'
  <2> SUFFICES ASSUME Resolved, [Next]_vars PROVE Resolved'
    OBVIOUS
  <2>1. ASSUME NEW path \in work.paths, ResolvePath(path) PROVE Resolved'
    <3>1. path \in Paths /\ UNCHANGED work
      BY <2>1, WorkloadAssumption DEF Resolved, ResolvePath
    <3>2. PICK end : /\ end \in Lookup(path) \/ (work.fails /\ end = Nowhere)
                     /\ reply' = [call |-> "resolve", path |-> path, file |-> end,
                                  ok |-> end # Nowhere]
      BY <2>1 DEF ResolvePath
    <3>3. /\ reply'.path = path /\ reply'.file = end
          /\ reply'.ok = (end # Nowhere)
      BY <3>2
    <3> QED
      BY <3>1, <3>2, <3>3 DEF Resolved
  <2>2. ASSUME NEW i \in work.files, NEW offset \in 0 .. Size[i] + 1,
               NEW count \in 0 .. MaxOutput, Read(i, offset, count)
        PROVE  Resolved'
    <3>1. UNCHANGED work /\ reply'.call = "read"
      BY <2>2 DEF Read, ReadRefused, ReadHit, ReadMiss, ReadFails, Refuses, Delivers, Answers
    <3> QED
      BY <3>1 DEF Resolved
  <2>3. CASE UNCHANGED vars
    BY <2>3 DEF Resolved, vars
  <2> QED
    BY <2>1, <2>2, <2>3 DEF Next
<1> QED
  BY <1>1, <1>2, PTL DEF Spec

\* The directory service gives the file that a path names, and refuses a path
\* only if it names none or the disk fails (ext2fs.c:106-161, service.c:49-66):
\* for any tree of directories and any path whose names are of ordinary length
\* and found in the first block.
THEOREM NamesCorrect == Spec => []NamesWhatIsThere
<1>1. Resolved => NamesWhatIsThere
  <2> DEFINE names == NamesIn(reply.path)
  <2> SUFFICES ASSUME Resolved, reply.call = "resolve", Ordinary(names)
               PROVE  /\ reply.ok => Leads(names, reply.file)
                      /\ ~reply.ok /\ ~work.fails => \A j \in Nodes : ~Leads(names, j)
    BY DEF NamesWhatIsThere, Ordinary
  <2>1. reply.path \in Paths /\ reply.ok = (reply.file # Nowhere)
    BY DEF Resolved
  <2>2. \A j : Reaches(names, Len(names), j) <=> Leads(names, j)
    <3>1. names \in Seq(DOMAIN Letters)
      BY <2>1, NamesAre
    <3> HIDE DEF names
    <3>2. Len(names) \in 0 .. Len(names) /\ SubSeq(names, 1, Len(names)) = names
      BY <3>1, LenProperties, WholeSeq
    <3> QED
      BY <3>1, <3>2, ReachesIsLeads
  <2>3. reply.file \in Lookup(reply.path) => Right(names, Len(names), reply.file)
    BY <2>1, LookupIs
  <2>4. Nowhere \notin Nodes
    BY EntryAssumption
  <2> HIDE DEF names
  <2> QED
    BY <2>1, <2>2, <2>3, <2>4 DEF Resolved, Right
<1> QED
  BY <1>1, ResolvedAlways, PTL
=============================================================================
