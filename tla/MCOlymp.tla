------------------------------ MODULE MCOlymp ------------------------------
(***************************************************************************)
(* The root task, side by side: its memory one operation at a time, its    *)
(* two threads in address_space_request_page, and its thread table.  A     *)
(* behaviour is about one of them, the subject; the others stay as they    *)
(* were initialized.                                                       *)
(*                                                                         *)
(* Memory: a machine of nine frames, the lowest two below "1 MB".          *)
(* Requests of one and two pages make alignment matter, pools of two slabs *)
(* run dry and are refilled, and memory runs out.                          *)
(*                                                                         *)
(* The two threads: the second of two programs is launched while the first *)
(* one runs; a running program touches a page of its image and two that    *)
(* are new, and the pool runs dry.                                         *)
(***************************************************************************)
EXTENDS Memory, PagerRace, ThreadTable

\* Sigma0 hands over all frames but one in the middle.
MCRam == {Frame \ {4}}
MCSegments == {[base |-> 4, size |-> 2], [base |-> 3, size |-> 1]}

VARIABLE subject

Subjects == {"memory", "race", "threads"}

OlympInit == subject \in Subjects /\ Init /\ RaceInit /\ ThreadsInit

\* Threads may all end, or all numbers be in use, and then the table rests.
OlympNext ==
  /\ UNCHANGED subject
  /\ \/ subject = "memory" /\ Next /\ UNCHANGED <<racevars, threadvars>>
     \/ subject = "race" /\ RaceNext /\ UNCHANGED <<vars, threadvars>>
     \/ subject = "threads" /\ ThreadsNext /\ UNCHANGED <<vars, racevars>>
     \/ subject = "threads" /\ UNCHANGED <<vars, racevars, threadvars>>

OlympSpec == OlympInit /\ [][OlympNext]_<<subject, vars, racevars, threadvars>>
=============================================================================
