----------------------------- MODULE MCSession -----------------------------
(* Session for TLC: every bound comes from the cfg. *)
EXTENDS Session
=============================================================================
