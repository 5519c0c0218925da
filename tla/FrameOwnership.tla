--------------------------- MODULE FrameOwnership ---------------------------
(***************************************************************************)
(* What the root memory manager promises about page frames, whatever its   *)
(* bitmap and lists look like: a frame belongs to nobody, to the machine,  *)
(* to the root task or to one address space; only free frames are taken;   *)
(* reserved frames stay reserved and the root task keeps what it took; a   *)
(* frame passes from one address space to another only by becoming free.   *)
(* Memory implements this.                                                 *)
(***************************************************************************)
CONSTANTS Frames, Owners, Root, Free, Reserved

VARIABLE owner    \* owner[f]: whom frame f belongs to

Assignments == [Frames -> Owners \cup {Free, Reserved}]

Init == owner \in [Frames -> {Free, Reserved}]

\* Free frames are handed to o; the root task may take some for its records.
Take(o) ==
  /\ owner' \in Assignments
  /\ \A f \in Frames : owner'[f] # owner[f] =>
       owner[f] = Free /\ owner'[f] \in {o, Root}

\* Frames of the address space o become free; the root task gives none back.
Give(o) ==
  /\ o # Root
  /\ owner' \in Assignments
  /\ \A f \in Frames : owner'[f] # owner[f] =>
       owner[f] = o /\ owner'[f] = Free

Next == \E o \in Owners : Take(o) \/ Give(o)

Spec == Init /\ [][Next]_owner
=============================================================================
