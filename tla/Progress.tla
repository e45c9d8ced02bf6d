------------------------------ MODULE Progress ------------------------------
(***************************************************************************)
(* The two parts of the system that must get on by themselves although     *)
(* nobody promises them an answer, checked in one run: an acknowledged     *)
(* link (RlcAmLink) and the random access of a UE (RandomAccess).          *)
(*                                                                         *)
(* The two share no state: random access ends before a bearer carries      *)
(* anything, and the bearer's PDUs are granted by the scheduler.  None of  *)
(* them waits for the other, so each behaviour here is one of one part with*)
(* the other at rest, where its fairness asks for nothing.                 *)
(***************************************************************************)
EXTENDS RlcAmLink, RandomAccess

VARIABLE part

progressVars == <<part, linkVars, raVars>>

ProgressInit ==
    /\ part \in {"link", "access"}
    /\ Init
    /\ RaInit

ProgressNext ==
    /\ UNCHANGED part
    /\ \/ part = "link" /\ Next /\ UNCHANGED raVars
       \/ part = "access" /\ RaNext /\ UNCHANGED linkVars

ProgressSpec == ProgressInit /\ [][ProgressNext]_progressVars /\ Fairness /\ RaFairness
=============================================================================
