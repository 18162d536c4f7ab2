------------------------------ MODULE MCService ------------------------------
(* The service alone, fed with arbitrary messages; see MCService.cfg.       *)
EXTENDS RealtimeService
=============================================================================
