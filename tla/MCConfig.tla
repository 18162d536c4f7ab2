------------------------------ MODULE MCConfig ------------------------------
(* Two requests, a session and a crash of a server started with or without *)
(* a file; the bodies are those that can disturb each other.               *)
EXTENDS ConfigStore, FiniteSets, TLC

MCBodies == {
    [key |-> "set", backend |-> "remote"],   \* a provider with its key
    [key |-> "set"],
    [key |-> "blank", tts |-> "new"],             \* spaces instead of a key
    [backend |-> "remote", stt |-> "new"],        \* refused unless there is a key
    [backend |-> "unknown"],
    [tts |-> "new", stt |-> "bad"],               \* refused after a part is assigned
    [key |-> "bad"]}

\* No flags at all, which lack a key, and those of a local model.
MCFlags == {Default, [Default EXCEPT !["backend"] = "local"]}

\* What an earlier run may have saved.
MCFiles == {[Default EXCEPT !["key"] = "set"]}

Symmetry == Permutations(Posts)
=============================================================================
