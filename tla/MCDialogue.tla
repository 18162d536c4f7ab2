----------------------------- MODULE MCDialogue -----------------------------
(* Two prompts and three calls for either handler, with a history so short   *)
(* that calls are truncated away.                                          *)
EXTENDS Dialogue

MCBackends == {"openai", "transformers"}
=============================================================================
