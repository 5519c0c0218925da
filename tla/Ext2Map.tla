------------------------------ MODULE Ext2Map ------------------------------
(***************************************************************************)
(* How the file server finds the blocks of a file on the disk (ext2fs.c,   *)
(* ext2_read_file_block): the first ones through the inode, the others     *)
(* through blocks of addresses.                                            *)
(*                                                                         *)
(* A block is known by the way to it from the inode: <<s>> is the block in *)
(* slot s of the inode, Append(b, k) the one whose address is entry k of   *)
(* block b, whatever block b holds.                                        *)
(***************************************************************************)
EXTENDS Integers, Sequences

CONSTANTS
  Direct,     \* EXT2_NDIR_BLOCKS
  PerBlock,   \* EXT2_ADDR_PER_BLOCK
  WordRange   \* 2^32, the range of uint32_t

ASSUME MapAssumption == {Direct, PerBlock, WordRange} \subseteq Nat \ {0}

P1 == PerBlock
P2 == PerBlock * PerBlock
P3 == PerBlock * P2
ASSUME WordAssumption == WordRange > Direct + P1 + P2 + 2 * P3

IndBlock == Direct
DindBlock == Direct + 1
TindBlock == Direct + 2

\* The blocks of a file that are reached through the inode, an indirect, a
\* double and a triple indirect block.
DirectBlocks == 0 .. Direct - 1
IndBlocks == Direct .. Direct + P1 - 1
DindBlocks == Direct + P1 .. Direct + P1 + P2 - 1
TindBlocks == Direct + P1 + P2 .. Direct + P1 + P2 + P3 - 1
FileBlocks == 0 .. Direct + P1 + P2 + P3 - 1

\* The definition of the format: where block n of a file is.
Home(n) ==
  LET i == n - Direct
      d == i - P1
      t == d - P2
  IN  CASE n \in DirectBlocks -> <<n>>
        [] n \in IndBlocks  -> <<IndBlock, i>>
        [] n \in DindBlocks -> <<DindBlock, d \div P1, d % P1>>
        [] n \in TindBlocks -> <<TindBlock, t \div P2, (t \div P1) % P1, t % P1>>

\* The blocks of addresses, and the inode, of a file of so many blocks.
AddressBlocks(blocks) ==
  {<<>>} \cup UNION {{SubSeq(Home(n), 1, k) : k \in 1 .. Len(Home(n)) - 1} :
                       n \in 0 .. blocks - 1}

\* The way that ext2_read_file_block goes to block n: found, or given up.
\* Mutant: the number is not reduced by the direct blocks.
MutIndirect(n) == [found |-> TRUE, way |-> <<IndBlock, n % P1>>]
Indirect(n) == [found |-> TRUE, way |-> <<IndBlock, n - Direct>>]

\* After the double indirect block was read the code goes on: the number is
\* reduced again, below zero, and so far out of range.
\* Mutant: it returns.
MutReturns(n) ==
  LET d == n - Direct - P1
  IN  [found |-> TRUE, way |-> <<IndBlock, d \div P1, d % P1>>]

DoubleIndirect(n) ==
  LET d == n - Direct - P1
  IN  [found |-> (d - P2) % WordRange <= P3,
       way   |-> <<IndBlock, d \div P1, d % P1>>]

TripleIndirect(n) ==
  LET t == n - Direct - P1 - P2
  IN  [found |-> t <= P3,
       way   |-> <<IndBlock, t \div P2, (t \div P1) % P1, t % P1>>]

Way(n) ==
  CASE n < Direct -> [found |-> TRUE, way |-> <<n>>]
    [] n \in IndBlocks -> Indirect(n)
    [] n \in DindBlocks -> DoubleIndirect(n)
    [] OTHER -> TripleIndirect(n)

\* Whether block n of such a file may arrive, and whether the read of it may
\* fail though the disk works.  The way may lead through a block that holds no
\* addresses of the file: the entry found there is then some number.
MayArrive(n) == Way(n).found
MayFail(n, blocks) ==
  \/ ~Way(n).found
  \/ SubSeq(Way(n).way, 1, Len(Way(n).way) - 1) \notin AddressBlocks(blocks)
=============================================================================
