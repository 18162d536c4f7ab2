---------------------------- MODULE TurnSegmenter ----------------------------
(***************************************************************************)
(* What the voice-activity detector promises to the rest of the pipeline:  *)
(* user turns numbered 1, 2, 3, ..., each opened by cancelling whatever    *)
(* response is running and announcing speech_started, and closed either by *)
(* speech_stopped together with one FINAL audio segment, or, when the      *)
(* utterance was too short, by nothing at all.  VAD.tla implements this    *)
(* module frame by frame; Pipeline.tla uses its actions as the source of   *)
(* user turns.                                                             *)
(***************************************************************************)
EXTENDS Naturals, Sequences

VARIABLES
    turn_id,        \* id of the last user turn opened by the VAD
    speech_started, \* the user is speaking
    generation,     \* CancelScope._generation, shared by every handler
    spoken_prompt,  \* queue VAD -> STT of VADAudio
    text_out        \* queue of events for the transport

tsVars == <<turn_id, speech_started, generation, spoken_prompt, text_out>>

Event(type, t) == [type |-> type, turn |-> t]
VADAudio(mode, t) == [mode |-> mode, turn |-> t]

TSInit ==
    /\ turn_id = 0
    /\ speech_started = FALSE
    /\ generation = 0
    /\ spoken_prompt = <<>>
    /\ text_out = <<>>

\* First speech frame of a turn: barge-in cancel, then SpeechStartedEvent.
StartTurn ==
    /\ ~speech_started
    /\ speech_started' = TRUE
    /\ turn_id' = turn_id + 1
    /\ generation' = generation + 1
    /\ text_out' = Append(text_out, Event("speech_started", turn_id'))
    /\ UNCHANGED spoken_prompt

\* A snapshot of the unfinished utterance for live transcription.
ProgressTurn ==
    /\ speech_started
    /\ spoken_prompt' = Append(spoken_prompt, VADAudio("progressive", turn_id))
    /\ UNCHANGED <<turn_id, speech_started, generation, text_out>>

\* The utterance is complete: SpeechStoppedEvent and the FINAL segment.
EndTurn ==
    /\ speech_started
    /\ speech_started' = FALSE
    /\ text_out' = Append(text_out, Event("speech_stopped", turn_id))
    /\ spoken_prompt' = Append(spoken_prompt, VADAudio("final", turn_id))
    /\ UNCHANGED <<turn_id, generation>>

\* The utterance was shorter than min_speech_ms: forgotten without an event.
DropTurn ==
    /\ speech_started
    /\ speech_started' = FALSE
    /\ UNCHANGED <<turn_id, generation, spoken_prompt, text_out>>

\* min_silence_ms = 0 closes the turn in the frame that opens it.
BlipTurn ==
    /\ ~speech_started
    /\ turn_id' = turn_id + 1
    /\ generation' = generation + 1
    /\ UNCHANGED speech_started
    /\ \/ /\ text_out' = Append(text_out, Event("speech_started", turn_id'))
          /\ UNCHANGED spoken_prompt
       \/ /\ text_out' = text_out \o <<Event("speech_started", turn_id'),
                                       Event("speech_stopped", turn_id')>>
          /\ spoken_prompt' = Append(spoken_prompt, VADAudio("final", turn_id'))

\* min_silence_ms = 0 again: the frame that is due a snapshot also ends the turn.
ProgressAndEnd ==
    /\ speech_started
    /\ speech_started' = FALSE
    /\ UNCHANGED <<turn_id, generation>>
    /\ \/ /\ spoken_prompt' = Append(spoken_prompt, VADAudio("progressive", turn_id))
          /\ UNCHANGED text_out
       \/ /\ spoken_prompt' = spoken_prompt \o <<VADAudio("progressive", turn_id),
                                                 VADAudio("final", turn_id)>>
          /\ text_out' = Append(text_out, Event("speech_stopped", turn_id))

TSNext ==
    \/ StartTurn
    \/ ProgressTurn
    \/ EndTurn
    \/ DropTurn
    \/ BlipTurn
    \/ ProgressAndEnd

TSSpec == TSInit /\ [][TSNext]_tsVars
=============================================================================
