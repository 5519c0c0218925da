----------------------------- MODULE Namespace -----------------------------
(***************************************************************************)
(* What the root name server promises: a mapping from names to objects     *)
(* that only grows.  A name is bound to the first object registered under  *)
(* it and keeps it.  NameService implements this.                          *)
(***************************************************************************)
EXTENDS Functions

VARIABLE binding    \* a function from the bound names to their objects

Init == DOMAIN binding = {}

Bind ==
  /\ \E n \in DOMAIN binding' : DOMAIN binding' = DOMAIN binding \cup {n}
  /\ IsRestriction(binding, binding')

Spec == Init /\ [][Bind]_binding
=============================================================================
