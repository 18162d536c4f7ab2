-------------------------------- MODULE MCVAD --------------------------------
(* SileroVADHandler on at most MaxItems chunks and commits; see MCVAD.cfg. *)
EXTENDS VAD
=============================================================================
