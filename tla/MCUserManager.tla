---------------------------- MODULE MCUserManager ----------------------------
(***************************************************************************)
(* Two threads that call everything and a third that sends to all users,   *)
(* so that two readers can keep a writer out in turn, and two sessions.    *)
(* The threads' fairness is part of the specification, so no symmetry is   *)
(* declared.                                                               *)
(***************************************************************************)
EXTENDS UserManager
==============================================================================
