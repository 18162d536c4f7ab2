------------------------------ MODULE MCServer ------------------------------
(* One session with locked, unlocked and keyless backends, proxy requests  *)
(* and self-tests on one event loop.                                       *)
EXTENDS Server

MCSetups == {
    [stt |-> "zipformer"],
    [llm |-> "transformers"],
    [llm |-> "nokey", tts |-> "mms"]}
=============================================================================
