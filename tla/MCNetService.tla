----------------------------- MODULE MCNetService -----------------------------
(***************************************************************************)
(* A service with two worker threads: two clients of one without updates,  *)
(* one of one with updates.                                                *)
(***************************************************************************)
EXTENDS NetService, TLC

MCMaxClients == 0 :> 2 @@ 1 :> 1
===============================================================================
