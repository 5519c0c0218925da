------------------------------ MODULE MCStdio ------------------------------
(***************************************************************************)
(* A file of which every byte is different, longer than the stack's two    *)
(* slots and than fread's chunks, which are as long as what the servers    *)
(* refuse, and the kinds of programs: one thread that reads, pushes back   *)
(* and seeks (scheme), two that read characters and seek, two that read    *)
(* blocks and seek.                                                        *)
(***************************************************************************)
EXTENDS Stdio

Usage(getters, pushers, seekers, readers) ==
  [op \in {"fgetc", "ungetc", "fseek", "fread"} |->
     CASE op = "fgetc" -> getters [] op = "ungetc" -> pushers
       [] op = "fseek" -> seekers [] op = "fread" -> readers]

MCContent == <<11, 12, 13, 14, 15, 16, 17>>
MCCallers == {"t1", "t2"}
MCUsages ==
  {Usage({"t1"}, {"t1"}, {"t1"}, {}),
   Usage(MCCallers, {}, MCCallers, {}),
   Usage({}, {}, MCCallers, MCCallers)}
=============================================================================
