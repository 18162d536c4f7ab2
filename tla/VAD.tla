-------------------------------- MODULE VAD ---------------------------------
(***************************************************************************)
(* SileroVADHandler: the thread that cuts the microphone stream into       *)
(* frames, classifies each frame as speech or not and assembles user       *)
(* turns.  Audio is counted, not stored: a chunk is its length, the buffer *)
(* the number of units it holds, and the accumulated speech the sequence   *)
(* of the numbers of its frames.  The classification of a frame (the       *)
(* Silero model) is a nondeterministic choice.                             *)
(*                                                                         *)
(* audio_in is a FIFO with one producer and this thread as its consumer,   *)
(* so the items are taken straight from the set of possible items.         *)
(***************************************************************************)
EXTENDS Naturals, Sequences

CONSTANTS
    FrameLen,       \* units in one frame (512 samples)
    FrameMs,        \* duration of a frame (32 ms)
    MinSpeechMs,    \* min_speech_ms
    SilenceChoices, \* values min_silence_ms takes (pipeline.update changes it)
    ProgressEvery,  \* sample_rate // _frame_samples
    MaxItems        \* bound: items the thread takes from audio_in

ASSUME VADAssumption ==
    /\ FrameLen \in Nat \ {0}
    /\ FrameMs \in Nat \ {0}
    /\ MinSpeechMs \in Nat
    /\ SilenceChoices \subseteq Nat
    /\ ProgressEvery \in Nat \ {0, 1}
    /\ MaxItems \in Nat

VARIABLES
    items,          \* items taken so far, for the bound MaxItems
    warm,           \* "none", "session" (_session without _state) or "ready"
    warmer,         \* the service's warm-up thread: "idle", "loading", "done"
    min_silence_ms,
    buffer,         \* units waiting for a complete frame
    speech_acc,     \* frame numbers of the utterance being accumulated
    speech_started,
    silence_ms,
    turn_id,
    frame_count,
    generation,     \* CancelScope
    spoken_prompt,  \* queue to the STT
    text_out,       \* queue of events
    frames          \* frames cut from the buffer so far: the number of the last one

turnVars == <<speech_acc, speech_started, silence_ms, turn_id, frame_count,
              generation, spoken_prompt, text_out>>
vars == <<items, warm, warmer, min_silence_ms, buffer, turnVars, frames>>

\* Mutant: input_audio_buffer.append forwards its audio in larger pieces.
ChunksTwoFrames == 1..(2 * FrameLen)

\* What one audio_in item can hold: append splits at one frame.
Chunks == 1..FrameLen

Event(type, t) == [type |-> type, turn |-> t]
VADAudio(mode, acc, t) == [mode |-> mode, audio |-> acc, turn |-> t]

Init ==
    /\ items = 0
    /\ warm = "none"
    /\ warmer = "idle"
    /\ min_silence_ms \in SilenceChoices
    /\ buffer = 0
    /\ speech_acc = <<>>
    /\ speech_started = FALSE
    /\ silence_ms = 0
    /\ turn_id = 0
    /\ frame_count = 0
    /\ generation = 0
    /\ spoken_prompt = <<>>
    /\ text_out = <<>>
    /\ frames = 0

-----------------------------------------------------------------------------
\* Mutant: the accumulator is not cleared when an utterance is queued.
EmitUtteranceKeepsAudio(acc, t, events, prompt) ==
    /\ speech_acc' = acc
    /\ speech_started' = FALSE
    /\ silence_ms' = 0
    /\ text_out' = Append(events, Event("speech_stopped", t))
    /\ spoken_prompt' = Append(prompt, VADAudio("final", acc, t))

\* Mutant: speech_stopped is emitted before the length filter.
EmitUtteranceStopsFirst(acc, t, events, prompt) ==
    /\ speech_acc' = <<>>
    /\ speech_started' = FALSE
    /\ silence_ms' = 0
    /\ text_out' = Append(events, Event("speech_stopped", t))
    /\ spoken_prompt' = IF Len(acc) * FrameMs < MinSpeechMs THEN prompt
                        ELSE Append(prompt, VADAudio("final", acc, t))

\* _emit_utterance on the accumulated frames acc, after the events and the
\* segments this call has already put.
EmitUtterance(acc, t, events, prompt) ==
    IF acc = <<>>
    THEN /\ speech_acc' = acc
         /\ text_out' = events
         /\ spoken_prompt' = prompt
         /\ UNCHANGED <<speech_started, silence_ms>>
    ELSE /\ speech_acc' = <<>>
         /\ speech_started' = FALSE
         /\ silence_ms' = 0
         /\ IF Len(acc) * FrameMs < MinSpeechMs
            THEN /\ text_out' = events
                 /\ spoken_prompt' = prompt
            ELSE /\ text_out' = Append(events, Event("speech_stopped", t))
                 /\ spoken_prompt' = Append(prompt, VADAudio("final", acc, t))

TakeItem == items < MaxItems /\ items' = items + 1

\* Mutant: the new chunk replaces the residue instead of extending it.
TakeFrameForgetsResidue(n) ==
    /\ TakeItem
    /\ buffer + n >= FrameLen
    /\ buffer' = n - FrameLen
    /\ frames' = frames + 1
    /\ UNCHANGED <<warmer, min_silence_ms>>

\* The chunk completes a frame, which leaves the buffer to be classified.
TakeFrame(n) ==
    /\ TakeItem
    /\ buffer + n >= FrameLen
    /\ buffer' = buffer + n - FrameLen
    /\ frames' = frames + 1
    /\ UNCHANGED <<warmer, min_silence_ms>>

\* process(PIPELINE_END): the residue is discarded, a running turn is flushed.
Commit ==
    /\ TakeItem
    /\ buffer' = 0
    /\ IF speech_started
       THEN EmitUtterance(speech_acc, turn_id, text_out, spoken_prompt)
       ELSE UNCHANGED <<speech_acc, speech_started, silence_ms, text_out, spoken_prompt>>
    /\ UNCHANGED <<warm, warmer, min_silence_ms, turn_id, frame_count, generation, frames>>

\* process(chunk) while _session is None: warmup() raises, the chunk is lost.
LazyWarmupFails ==
    /\ TakeItem
    /\ warm = "none"
    /\ UNCHANGED <<warm, warmer, min_silence_ms, buffer, turnVars, frames>>

\* After this handler's own warmup(), or the background one, _session is set.
WarmAfterCall == IF warm = "none" THEN "ready" ELSE warm

\* process(chunk) that does not complete a frame.
Gather(n) ==
    /\ TakeItem
    /\ buffer + n < FrameLen
    /\ buffer' = buffer + n
    /\ warm' = WarmAfterCall
    /\ UNCHANGED <<warmer, min_silence_ms, turnVars, frames>>

\* _session is already set and _state still None: the inference raises after
\* the frame has left the buffer.
FrameRaises(n) ==
    /\ TakeFrame(n)
    /\ warm = "session"
    /\ UNCHANGED <<warm, turnVars>>

\* Mutant: the counter of turns is not advanced.
SameTurn == turn_id

\* self.turn_id += 1, at the first speech frame of a turn.
NewTurn == turn_id + 1

\* Mutant: no barge-in.
NoCancel == generation

\* cancel_scope.cancel(), at the same place.
Cancelled == generation + 1

\* Mutant: silent frames inside an utterance are left out.
WithoutPause == speech_acc

\* A silent frame belongs to the utterance while the turn is open.
WithPause == IF speech_started THEN Append(speech_acc, frames + 1) ELSE speech_acc

\* _vad_frame(frame) is true.
SpeechFrame(n) ==
    LET starting == ~speech_started
        t        == IF starting THEN NewTurn ELSE turn_id
        acc      == Append(speech_acc, frames + 1)
        count    == IF starting THEN 1 ELSE frame_count + 1
        events   == IF starting THEN Append(text_out, Event("speech_started", t))
                                ELSE text_out
        prompt   == IF count % ProgressEvery = 0
                    THEN Append(spoken_prompt, VADAudio("progressive", acc, t))
                    ELSE spoken_prompt
    IN /\ TakeFrame(n)
       /\ warm # "session"
       /\ warm' = "ready"
       /\ turn_id' = t
       /\ generation' = IF starting THEN Cancelled ELSE generation
       /\ frame_count' = count
       /\ IF min_silence_ms = 0
          THEN EmitUtterance(acc, t, events, prompt)
          ELSE /\ speech_started' = TRUE
               /\ silence_ms' = 0
               /\ speech_acc' = acc
               /\ text_out' = events
               /\ spoken_prompt' = prompt

\* _vad_frame(frame) is false.
SilenceFrame(n) ==
    LET silent == silence_ms + FrameMs
    IN /\ TakeFrame(n)
       /\ warm # "session"
       /\ warm' = "ready"
       /\ IF speech_started /\ silent >= min_silence_ms
          THEN EmitUtterance(WithPause, turn_id, text_out, spoken_prompt)
          ELSE /\ speech_acc' = WithPause
               /\ silence_ms' = silent
               /\ UNCHANGED <<speech_started, text_out, spoken_prompt>>
       /\ UNCHANGED <<turn_id, frame_count, generation>>

-----------------------------------------------------------------------------
\* warmup() as the service's background thread runs it: _session, then _state.
WarmerSetsSession ==
    /\ warmer = "idle"
    /\ warmer' = "loading"
    /\ warm' = IF warm = "none" THEN "session" ELSE warm
    /\ UNCHANGED <<items, min_silence_ms, buffer, turnVars, frames>>

WarmerSetsState ==
    /\ warmer = "loading"
    /\ warmer' = "done"
    /\ warm' = "ready"
    /\ UNCHANGED <<items, min_silence_ms, buffer, turnVars, frames>>

\* pipeline.update from the client, on the event-loop thread.
PipelineUpdate ==
    /\ \E ms \in SilenceChoices : ms # min_silence_ms /\ min_silence_ms' = ms
    /\ UNCHANGED <<items, warm, warmer, buffer, turnVars, frames>>

Next ==
    \/ Commit
    \/ LazyWarmupFails
    \/ \E n \in Chunks : Gather(n) \/ FrameRaises(n) \/ SpeechFrame(n) \/ SilenceFrame(n)
    \/ WarmerSetsSession
    \/ WarmerSetsState
    \/ PipelineUpdate

Spec == Init /\ [][Next]_vars

-----------------------------------------------------------------------------
Segment == [mode : {"progressive", "final"}, audio : Seq(Nat), turn : Nat]
TurnEvent == [type : {"speech_started", "speech_stopped"}, turn : Nat]

\* Every variable keeps its type.
TypeOK ==
    /\ items \in Nat
    /\ warm \in {"none", "session", "ready"}
    /\ warmer \in {"idle", "loading", "done"}
    /\ min_silence_ms \in SilenceChoices
    /\ buffer \in Nat
    /\ speech_acc \in Seq(Nat)
    /\ speech_started \in BOOLEAN
    /\ silence_ms \in Nat
    /\ turn_id \in Nat
    /\ frame_count \in Nat
    /\ generation \in Nat
    /\ spoken_prompt \in Seq(Segment)
    /\ text_out \in Seq(TurnEvent)
    /\ frames \in Nat

\* process takes at most one frame per item out of the buffer and still keeps
\* up: no complete frame is ever left waiting, so a commit, which deletes the
\* buffer, never throws away a frame's worth of audio.
BufferBelowFrame == buffer < FrameLen

\* s is a run of frame numbers without a gap.
Consecutive(s) == s # <<>> /\ \A i \in 1..Len(s) : s[i] + 1 = s[1] + i

\* No frame of a turn is lost: what is handed to the STT, and what is being
\* accumulated up to the last frame read, is gapless audio, although frames are
\* dropped while the model is half loaded and silence lies inside an utterance.
UtteranceIntact ==
    /\ \A i \in 1..Len(spoken_prompt) : Consecutive(spoken_prompt[i].audio)
    /\ speech_started <=> speech_acc # <<>>
    /\ speech_started => Consecutive(speech_acc) /\ speech_acc[Len(speech_acc)] = frames

First(s) == s[1]
Final(s) == s[Len(s)]

\* Segments reach the STT in the order of their turns, a live snapshot of a turn
\* is a shorter piece from the same beginning, and no frame belongs to two turns.
NoSharedAudio ==
    \A i, j \in 1..Len(spoken_prompt) : i < j =>
        LET a == spoken_prompt[i]
            b == spoken_prompt[j]
        IN /\ a.turn <= b.turn
           /\ a.turn = b.turn => /\ a.mode = "progressive"
                                 /\ First(a.audio) = First(b.audio)
                                 /\ Len(a.audio) <= Len(b.audio)
           /\ a.turn < b.turn => Final(a.audio) < First(b.audio)

\* The client sees each turn started once, with a new id, and stopped only
\* directly after it started; while the user speaks the last event is the start.
EventProtocol ==
    /\ \A i \in 1..Len(text_out) :
          text_out[i].type = "speech_stopped" =>
             i > 1 /\ text_out[i-1] = Event("speech_started", text_out[i].turn)
    /\ \A i, j \in 1..Len(text_out) :
          i < j /\ text_out[j].type = "speech_started" => text_out[i].turn < text_out[j].turn
    /\ speech_started => /\ text_out # <<>>
                         /\ text_out[Len(text_out)] = Event("speech_started", turn_id)

StoppedTurns == {e.turn : e \in {text_out[i] : i \in
                    {k \in 1..Len(text_out) : text_out[k].type = "speech_stopped"}}}
FinalTurns == {m.turn : m \in {spoken_prompt[i] : i \in
                    {k \in 1..Len(spoken_prompt) : spoken_prompt[k].mode = "final"}}}

\* The turns the client is told are committed are exactly those the STT gets to
\* transcribe, each of at least min_speech_ms.
CommittedIsTranscribed ==
    /\ StoppedTurns = FinalTurns
    /\ \A i \in 1..Len(spoken_prompt) :
          spoken_prompt[i].mode = "final" => Len(spoken_prompt[i].audio) * FrameMs >= MinSpeechMs

\* Seen without its audio, the handler implements TurnSegmenter step by step: in
\* particular every new turn cancels the running response exactly once.
Turns == INSTANCE TurnSegmenter WITH
    spoken_prompt <- [i \in 1..Len(spoken_prompt) |->
                        [mode |-> spoken_prompt[i].mode, turn |-> spoken_prompt[i].turn]]
ImplementsTurnSegmenter == Turns!TSSpec
=============================================================================
