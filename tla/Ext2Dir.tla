------------------------------ MODULE Ext2Dir ------------------------------
(***************************************************************************)
(* How the file server finds the file of a path (ext2fs.c,                 *)
(* ext2_lookup_path): directory by directory, entry by entry.  A path is   *)
(* the sequence of its names and slashes.                                  *)
(***************************************************************************)
EXTENDS Integers, FiniteSetsExt, SequencesExt

CONSTANTS
  Root,        \* EXT2_ROOT_INO
  Entries,     \* Entries[d]: what directory d lists, <<>> for other files
  Letters,     \* Letters[n]: the characters of the name n
  NameRange    \* 2^8, the range of dlen and of name_len

Nodes == DOMAIN Entries
Empty == "empty"         \* the name that two slashes in a row have between them
Unused == "unused"       \* the inode number 0
Stray == "stray"         \* a number that is no inode's
Nowhere == "nowhere"     \* the lookup fails

\* An entry is in a block of the directory; name_len has eight bits.
ASSUME EntryAssumption ==
  /\ Root \in Nodes
  /\ {Unused, Stray, Nowhere} \cap Nodes = {}
  /\ \A d \in Nodes : Entries[d] \in Seq(Range(Entries[d]))
  /\ \A d \in Nodes : \A k \in DOMAIN Entries[d] :
       /\ Entries[d][k].inode \in Nodes \cup {Unused}
       /\ Entries[d][k].block \in Nat
       /\ Entries[d][k].name \in DOMAIN Letters
       /\ Len(Letters[Entries[d][k].name]) \in 1 .. NameRange - 1

\* A name is known by its characters, and a directory lists none twice.
ASSUME NameAssumption ==
  /\ NameRange \in Nat
  /\ Empty \in DOMAIN Letters
  /\ \A n \in DOMAIN Letters : Letters[n] \in Seq(Range(Letters[n]))
  /\ \A m, n \in DOMAIN Letters : Letters[m] = Letters[n] => m = n
  /\ \A d \in Nodes : \A k, l \in DOMAIN Entries[d] :
       /\ Entries[d][k].name = Entries[d][l].name
       /\ Unused \notin {Entries[d][k].inode, Entries[d][l].inode}
       => k = l

\* The names of a path: slashes in front of it are skipped, each name takes the
\* slash behind it along.
Stripped(path) ==
  LET names == {k \in DOMAIN path : path[k] # "/"}
  IN  IF names = {} THEN <<>> ELSE SubSeq(path, Min(names), Len(path))
NamesIn(path) ==
  LET p == Stripped(path)
      names[k \in 0 .. Len(p)] ==
        IF k = 0 THEN <<>>
        ELSE IF k > 1 /\ p[k - 1] # "/" THEN names[k - 1]
        ELSE Append(names[k - 1], IF p[k] = "/" THEN Empty ELSE p[k])
  IN  names[Len(p)]

\* Whether an entry is the one looked for; of the length eight bits are
\* compared.  Mutant: only the characters are compared.
MutBegins(e, name) == e.inode # Unused /\ IsPrefix(Letters[name], Letters[e.name])
Matches(e, name) ==
  /\ e.inode # Unused
  /\ Len(Letters[e.name]) = Len(Letters[name]) % NameRange
  /\ IsPrefix(Letters[e.name], Letters[name])

\* What an entry that is looked for behind the buffer may be.
Anything == Nodes \cup {Stray, Nowhere}

\* Where the search for a name in a directory may end.  From the second block
\* on, the entries are looked for behind the block that was read.  (A search
\* that finds entries of length 0 there never ends.)
Search(d, name) ==
  LET first == {k \in DOMAIN Entries[d] : Entries[d][k].block = 0}
      hits  == {k \in first : Matches(Entries[d][k], name)}
  IN  IF hits # {} THEN {Entries[d][Min(hits)].inode}
      ELSE IF first = DOMAIN Entries[d] THEN {Nowhere}
      ELSE Anything

\* One name further; a file that is no directory, or empty, is the end.
Enter(at, name) ==
  IF at = Stray THEN Anything
  ELSE IF at = Nowhere \/ Entries[at] = <<>> THEN {Nowhere}
  ELSE Search(at, name)

\* Where the lookup of a path may end while the disk works.
Lookup(path) ==
  LET names == NamesIn(path)
      ends[k \in 0 .. Len(names)] ==
        IF k = 0 THEN {Root}
        ELSE UNION {Enter(at, names[k]) : at \in ends[k - 1]}
  IN  ends[Len(names)]

-----------------------------------------------------------------------------
\* What a path means: there is a chain of entries with its names that leads
\* from the root to j.
Lists(d, name, j) ==
  \E k \in DOMAIN Entries[d] : Entries[d][k].name = name /\ Entries[d][k].inode = j
Leads(names, j) ==
  \E walk \in [0 .. Len(names) -> Nodes] :
    /\ walk[0] = Root /\ walk[Len(names)] = j
    /\ \A k \in DOMAIN names : Lists(walk[k - 1], names[k], walk[k])

\* The search for one of the names goes on to the second block of a directory.
BehindBlock(names) ==
  \E k \in DOMAIN names, d \in Nodes :
    /\ Leads(SubSeq(names, 1, k - 1), d)
    /\ \E e \in DOMAIN Entries[d] : Entries[d][e].block > 0
    /\ ~\E e \in DOMAIN Entries[d] :
          /\ Entries[d][e].block = 0 /\ Entries[d][e].name = names[k]
          /\ Entries[d][e].inode # Unused
=============================================================================
