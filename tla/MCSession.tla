------------------------------ MODULE MCSession ------------------------------
(* A whole session; the bounds are in MCSession*.cfg.                       *)
EXTENDS Session
=============================================================================
