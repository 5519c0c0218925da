----------------------------- MODULE Directory -----------------------------
(***************************************************************************)
(* The directory of libhpf (dir.c): a list of named entries, longest name  *)
(* first, searched for the first entry whose name is a prefix of a path.   *)
(* Hermes keeps one for the whole system, every program one for itself.    *)
(*                                                                         *)
(* A name or path is a sequence of characters of which only Slash matters. *)
(* An entry is a record with at least the field name.                      *)
(***************************************************************************)
EXTENDS Naturals, SequencesExt

CONSTANT Slash

\* hpf_directory_add: an entry goes before the first one with a shorter name,
\* so after those of the same length.  k is its place.
Place(d, name, k) ==
  /\ k \in 1 .. Len(d) + 1
  /\ \A j \in 1 .. Len(d) : j < k => Len(name) <= Len(d[j].name)
  /\ k <= Len(d) => Len(name) > Len(d[k].name)

Added(d, e, k) == InsertAt(d, k, e)

\* hpf_directory_resolve's test of an entry: its name is the path, or the path
\* up to a slash.
Covers(e, path) ==
  /\ IsPrefix(e.name, path)
  /\ Len(path) > Len(e.name) => path[Len(e.name) + 1] = Slash

\* hpf_directory_resolve finds the entry at i.
First(d, path, i) ==
  /\ i \in 1 .. Len(d)
  /\ Covers(d[i], path)
  /\ \A j \in 1 .. Len(d) : j < i => ~ Covers(d[j], path)

\* hpf_directory_resolve finds nothing.
NoneCovers(d, path) == \A i \in 1 .. Len(d) : ~ Covers(d[i], path)

=============================================================================
