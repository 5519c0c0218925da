----------------------------- MODULE MCServices -----------------------------
(***************************************************************************)
(* The naming system and the file server (MCFileServer), side by side.  A  *)
(* behaviour is about one of them, the subject; the other one rests.       *)
(*                                                                         *)
(* Paths over a slash and one letter: "/a", "/aa" (no part of "/a") and    *)
(* what comes below them.                                                  *)
(***************************************************************************)
EXTENDS NameService, MCFileServer

MCNames == {<<"/", "a">>, <<"/", "a", "a">>}
MCTargets == {<<>>, <<"/", "a">>, <<"/", "a", "a", "/", "a">>, <<"/", "a", "/", "a">>}

VARIABLE subject

ServicesInit ==
  \/ subject = "names" /\ NamingInit /\ Init /\ work = CHOOSE w \in MCWorkloads : TRUE
  \/ subject = "files" /\ NamingInit /\ Init

ServicesNext ==
  /\ UNCHANGED subject
  /\ \/ subject = "names" /\ NamingNext /\ UNCHANGED vars
     \/ subject = "files" /\ Next /\ UNCHANGED namingvars

\* The fairness of FairNamingSpec; a program at rest has no question to ask.
ServicesSpec ==
  /\ ServicesInit /\ [][ServicesNext]_<<subject, namingvars, vars>>
  /\ \A c \in Clients : WF_namingvars(Step(c))
=============================================================================
