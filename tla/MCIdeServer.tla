---------------------------- MODULE MCIdeServer ----------------------------
(***************************************************************************)
(* A disk of three sectors of two words.  Callers ask for two whole ones,  *)
(* for all of the buffer from the middle of one, for a half and the half   *)
(* of the next, for a half alone, which makes no sector, for one behind    *)
(* the end of the disk, over the end of what an offset can name, and for   *)
(* more than the server gives.                                             *)
(***************************************************************************)
EXTENDS IdeServer

Cable(a, b) == [d \in Units |-> IF d = 0 THEN a ELSE b]
MCCables == {Cable("ata", "none"), Cable("ata", "atapi"), Cable("odd", "none"),
             Cable("none", "ata")}
MCRequests ==
  {[offset |-> o, size |-> n] :
     <<o, n>> \in {<<0, 4>>, <<1, 5>>, <<3, 2>>, <<2, 1>>, <<4, 4>>, <<8, 4>>, <<0, 6>>}}
MCZero == 0 - 1
=============================================================================
