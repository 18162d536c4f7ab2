------------------------------ MODULE Pipeline ------------------------------
(***************************************************************************)
(* S2SPipeline: the handler threads STT, notifier, LLM, processor and TTS  *)
(* behind the VAD, joined by FIFO queues, with the CancelScope they share. *)
(* User turns come from TurnSegmenter, which VAD.tla implements.           *)
(*                                                                         *)
(* Audio and text are reduced to how many pieces there are and whether     *)
(* there is anything left of them; what the models answer, how long they   *)
(* take and whether they raise is nondeterministic.  A handler that works  *)
(* on an item for a while has a record of its local variables whose pc is  *)
(* not "idle"; BaseHandler.run takes the next item only when it is.        *)
(*                                                                         *)
(* Ghost fields, which no code reads: src tells the VAD's turns from the   *)
(* prompts of the client, whose ids the service counts separately, gen0 is *)
(* the generation when the LLM started on the request, and barged says     *)
(* that a cancel came between that moment and the hand-over to the TTS.    *)
(***************************************************************************)
EXTENDS TurnSegmenter, Integers, SequencesExt

CONSTANTS
    MaxTurns,       \* bound: user turns
    MaxSnapshots,   \* bound: live snapshots, over all turns
    MaxPrompts,     \* bound: prompts from the client
    MaxCancels,     \* bound: cancels that do not come from the VAD
    MaxStimuli,     \* bound: user turns, prompts and such cancels together
    MaxToolCalls,   \* bound: function calls the LLM makes
    MaxChunks,      \* bound: text pieces in one LLM answer
    MaxAudio,       \* bound: audio pieces for one TTSInput
    LiveTranscription, \* enable_live_transcription
    SttDiscards,    \* the STT returns "" after a cancel (Zipformer)
    Failures        \* the models may raise or return nothing

ASSUME PipelineAssumption ==
    /\ {MaxTurns, MaxSnapshots, MaxPrompts, MaxCancels, MaxStimuli, MaxToolCalls,
        MaxChunks, MaxAudio} \subseteq Nat
    /\ {LiveTranscription, SttDiscards, Failures} \subseteq BOOLEAN

VARIABLES
    snapshots, toolCalls, cancels, \* counters for the bounds
    prompts,      \* the service's _seq: ids given to client prompts
    stt,          \* STT thread
    stt_output,   \* queue STT -> notifier
    text_prompt,  \* queue notifier and service -> LLM
    llm,          \* LLM thread
    lm_response,  \* queue LLM -> processor
    buffers,      \* processor: pieces of text accumulated per turn id
    gens,         \* processor: generation at the first piece of a turn id
    lm_processed, \* queue processor -> TTS
    tts,          \* TTS thread
    audio_out     \* queue TTS -> service

bounds == <<snapshots, toolCalls, cancels>>
sttVars == <<stt, stt_output>>
llmVars == <<llm, lm_response>>
procVars == <<buffers, gens, lm_processed>>
ttsVars == <<tts, audio_out>>
userVars == <<turn_id, speech_started, spoken_prompt>>
pipelineVars == <<tsVars, bounds, prompts, sttVars, text_prompt, llmVars, procVars, ttsVars>>

Ids == 1..(MaxTurns + MaxPrompts)
Sources == {"vad", "client"}
NoGen == -1

Say(type, t, src) == [type |-> type, turn |-> t, src |-> src]
Request(t, src) == [turn |-> t, src |-> src]
Idle == [pc |-> "idle"]

PipelineInit ==
    /\ TSInit
    /\ snapshots = 0 /\ toolCalls = 0 /\ cancels = 0 /\ prompts = 0
    /\ stt = Idle /\ llm = Idle /\ tts = Idle
    /\ stt_output = <<>> /\ text_prompt = <<>> /\ lm_response = <<>>
    /\ lm_processed = <<>> /\ audio_out = <<>>
    /\ buffers = [t \in Ids |-> 0]
    /\ gens = [t \in Ids |-> NoGen]

-----------------------------------------------------------------------------
\* One more thing from outside is within the bound.
Stimulus == turn_id + prompts + cancels < MaxStimuli

\* The user, as the VAD thread reports him.
Speak ==
    /\ \/ /\ turn_id < MaxTurns /\ Stimulus
          /\ StartTurn /\ UNCHANGED snapshots
       \/ /\ snapshots < MaxSnapshots /\ ProgressTurn
          /\ snapshots' = snapshots + 1
       \/ EndTurn /\ UNCHANGED snapshots
       \/ Failures /\ DropTurn /\ UNCHANGED snapshots
    /\ UNCHANGED <<toolCalls, cancels, prompts, sttVars, text_prompt, llmVars, procVars, ttsVars>>

-----------------------------------------------------------------------------
\* STT.process up to the call of the model.
STTTake ==
    /\ stt.pc = "idle"
    /\ spoken_prompt # <<>>
    /\ spoken_prompt' = Tail(spoken_prompt)
    /\ LET m == Head(spoken_prompt) IN
       stt' = IF m.mode = "progressive" /\ ~LiveTranscription
              THEN Idle
              ELSE [pc |-> "decoding", mode |-> m.mode, turn |-> m.turn, gen |-> generation]
    /\ UNCHANGED <<turn_id, speech_started, generation, text_out, bounds, prompts, stt_output,
                   text_prompt, llmVars, procVars, ttsVars>>

\* Mutant: a snapshot is handed on like a finished utterance.
STTHandsOn(mode) == TRUE

\* Only a FINAL segment becomes a Transcription.
IsFinal(mode) == mode = "final"

\* The model has returned: text or nothing (a cancel in the middle empties the
\* result in one backend and shortens it in the other; raising gives nothing).
STTResult ==
    /\ stt.pc = "decoding"
    /\ stt' = Idle
    /\ \E text \in BOOLEAN :
        /\ SttDiscards /\ generation # stt.gen => ~text
        /\ ~text => Failures \/ generation # stt.gen
        /\ text_out' = IF text /\ ~IsFinal(stt.mode)
                       THEN Append(text_out, Say("partial", stt.turn, "vad")) ELSE text_out
        /\ stt_output' = IF text /\ IsFinal(stt.mode)
                         THEN Append(stt_output, stt.turn) ELSE stt_output
    /\ UNCHANGED <<userVars, generation, bounds, prompts, text_prompt, llmVars, procVars, ttsVars>>

\* MockTranscriptionNotifier.process
Notify ==
    /\ stt_output # <<>>
    /\ stt_output' = Tail(stt_output)
    /\ text_out' = Append(text_out, Say("transcript", Head(stt_output), "vad"))
    /\ text_prompt' = Append(text_prompt, Request(Head(stt_output), "vad"))
    /\ UNCHANGED <<userVars, generation, bounds, prompts, stt, llmVars, procVars, ttsVars>>

-----------------------------------------------------------------------------
\* Mutant: the newest request is answered first.
LLMTakeNewest ==
    /\ llm.pc = "idle"
    /\ text_prompt # <<>>
    /\ text_prompt' = Front(text_prompt)
    /\ llm' = [pc |-> "streaming", turn |-> Last(text_prompt).turn,
               src |-> Last(text_prompt).src, gen |-> generation, chunks |-> 0, tool |-> FALSE]
    /\ UNCHANGED <<tsVars, bounds, prompts, sttVars, lm_response, procVars, ttsVars>>

\* LLM.process: the request is taken, gen_start noted, the stream opened.
LLMTake ==
    /\ llm.pc = "idle"
    /\ text_prompt # <<>>
    /\ text_prompt' = Tail(text_prompt)
    /\ llm' = [pc |-> "streaming", turn |-> Head(text_prompt).turn,
               src |-> Head(text_prompt).src, gen |-> generation, chunks |-> 0, tool |-> FALSE]
    /\ UNCHANGED <<tsVars, bounds, prompts, sttVars, lm_response, procVars, ttsVars>>

\* A piece of text arrives; it is dropped and the stream closed after a cancel.
LLMText ==
    /\ llm.pc = "streaming"
    /\ llm.chunks < MaxChunks
    /\ generation = llm.gen
    /\ llm' = [llm EXCEPT !.chunks = @ + 1]
    /\ UNCHANGED <<tsVars, bounds, prompts, sttVars, text_prompt, lm_response, procVars, ttsVars>>

\* A function call arrives.
LLMToolCall ==
    /\ llm.pc = "streaming"
    /\ ~llm.tool
    /\ toolCalls < MaxToolCalls
    /\ toolCalls' = toolCalls + 1
    /\ llm' = [llm EXCEPT !.tool = TRUE]
    /\ UNCHANGED <<tsVars, snapshots, cancels, prompts, sttVars, text_prompt, lm_response,
                   procVars, ttsVars>>

\* Mutant: after a cancel the handler waits for the end of a stream it no longer reads.
LLMWaitsForever == generation = llm.gen

\* The stream ends by itself, or the loop leaves it after a cancel.
StreamEnds ==
    \/ generation # llm.gen
    \/ Failures
    \/ llm.chunks > 0
    \/ llm.tool

\* Only now are the events put and the pieces handed on, all at once.
LLMFinish ==
    /\ llm.pc = "streaming"
    /\ StreamEnds
    /\ llm' = Idle
    /\ text_out' = text_out
         \o (IF llm.tool THEN <<Say("call", llm.turn, llm.src)>> ELSE <<>>)
         \o <<Say("usage", llm.turn, llm.src)>>
    /\ LET Out(kind) == [kind |-> kind, turn |-> llm.turn, src |-> llm.src, gen0 |-> llm.gen]
       IN lm_response' = lm_response \o [i \in 1..llm.chunks |-> Out("chunk")] \o <<Out("end")>>
    /\ UNCHANGED <<userVars, generation, bounds, prompts, sttVars, text_prompt, procVars, ttsVars>>

\* The request raises: BaseHandler prints it and goes on.  But in the Transformers
\* handler generate runs in a thread of its own: when it raises there, nothing
\* ends the streamer, and the handler waits for its next piece for ever.
LLMRaises ==
    /\ Failures
    /\ llm.pc = "streaming"
    /\ llm' = Idle \/ llm' = [llm EXCEPT !.pc = "hung"]
    /\ UNCHANGED <<tsVars, bounds, prompts, sttVars, text_prompt, lm_response, procVars, ttsVars>>

-----------------------------------------------------------------------------
\* LMOutputProcessor.process(LLMResponseChunk)
ProcessChunk ==
    /\ lm_response # <<>>
    /\ LET m == Head(lm_response) IN
       /\ m.kind = "chunk"
       /\ gens' = [gens EXCEPT ![m.turn] = IF @ = NoGen THEN generation ELSE @]
       /\ buffers' = [buffers EXCEPT ![m.turn] = @ + 1]
       /\ text_out' = Append(text_out, Say("text", m.turn, m.src))
    /\ lm_response' = Tail(lm_response)
    /\ UNCHANGED <<userVars, generation, bounds, prompts, sttVars, text_prompt, llm, lm_processed,
                   ttsVars>>

\* Mutants: one of the two maps is read without being popped.
KeepText(t) == buffers
KeepGen(t) == gens

\* The two pops of process(EndOfResponse).
ForgetText(t) == [buffers EXCEPT ![t] = 0]
ForgetGen(t) == [gens EXCEPT ![t] = NoGen]

\* process(EndOfResponse): what is left of the text after cleaning goes to the
\* TTS unless a cancel came since the first piece was processed.
ProcessEnd ==
    /\ lm_response # <<>>
    /\ LET m == Head(lm_response) IN
       /\ m.kind = "end"
       /\ gens' = ForgetGen(m.turn)
       /\ buffers' = ForgetText(m.turn)
       /\ \/ /\ gens[m.turn] \in {NoGen, generation}
             /\ buffers[m.turn] > 0
             /\ lm_processed' = Append(lm_processed, [turn |-> m.turn, src |-> m.src,
                                                      barged |-> generation # m.gen0])
          \/ /\ \/ gens[m.turn] \notin {NoGen, generation}
                \/ buffers[m.turn] = 0
                \/ Failures \* only markdown, emoji or thoughts
             /\ UNCHANGED lm_processed
    /\ lm_response' = Tail(lm_response)
    /\ UNCHANGED <<tsVars, bounds, prompts, sttVars, text_prompt, llm, ttsVars>>

-----------------------------------------------------------------------------
\* TTS.process: the text is taken and the generation noted.
TTSTake ==
    /\ tts.pc = "idle"
    /\ lm_processed # <<>>
    /\ lm_processed' = Tail(lm_processed)
    /\ tts' = [pc |-> "synthesising", turn |-> Head(lm_processed).turn,
               src |-> Head(lm_processed).src, gen |-> generation, pieces |-> 0, late |-> 0]
    /\ UNCHANGED <<tsVars, bounds, prompts, sttVars, text_prompt, llmVars, buffers, gens, audio_out>>

\* Mutant: the generation is not compared before a piece is sent.
NeverCancelled == TRUE

\* not self._cancelled(gen)
NotCancelled == generation = tts.gen

\* A piece is ready and the cancel check before it passed.
TTSPiece ==
    /\ tts.pc = "synthesising"
    /\ tts.pieces < MaxAudio
    /\ NotCancelled
    /\ tts' = [tts EXCEPT !.pc = "sending"]
    /\ UNCHANGED <<tsVars, bounds, prompts, sttVars, text_prompt, llmVars, procVars, audio_out>>

\* The piece is put in the queue.
TTSSend ==
    /\ tts.pc = "sending"
    /\ audio_out' = Append(audio_out, [kind |-> "audio", turn |-> tts.turn, src |-> tts.src])
    /\ tts' = [tts EXCEPT !.pc = "synthesising", !.pieces = @ + 1,
                          !.late = @ + (IF generation = tts.gen THEN 0 ELSE 1)]
    /\ UNCHANGED <<tsVars, bounds, prompts, sttVars, text_prompt, llmVars, procVars>>

\* There is no more audio, or a check failed, or there was none at all, which counts
\* as a failure of the model: ResponseDone in all cases.
TTSFinish ==
    /\ tts.pc = "synthesising"
    /\ tts.pieces > 0 \/ generation # tts.gen \/ Failures
    /\ audio_out' = Append(audio_out, [kind |-> "done", turn |-> tts.turn, src |-> tts.src])
    /\ tts' = Idle
    /\ UNCHANGED <<tsVars, bounds, prompts, sttVars, text_prompt, llmVars, procVars>>

\* The synthesis raises: no ResponseDone.
TTSRaises ==
    /\ Failures
    /\ tts.pc = "synthesising"
    /\ tts' = Idle
    /\ UNCHANGED <<tsVars, bounds, prompts, sttVars, text_prompt, llmVars, procVars, audio_out>>

Handlers ==
    \/ STTTake \/ STTResult
    \/ Notify
    \/ LLMTake \/ LLMText \/ LLMToolCall \/ LLMFinish \/ LLMRaises
    \/ ProcessChunk \/ ProcessEnd
    \/ TTSTake \/ TTSPiece \/ TTSSend \/ TTSFinish \/ TTSRaises

-----------------------------------------------------------------------------
(* The service, as far as the pipeline can tell: it cancels, it puts the    *)
(* client's prompts, and it answers a function call with another request    *)
(* for the same turn.  It does not read text_out and audio_out here, so     *)
(* they hold everything that was ever put.                                  *)
ServiceCancels ==
    /\ cancels < MaxCancels /\ Stimulus
    /\ cancels' = cancels + 1
    /\ generation' = generation + 1
    /\ UNCHANGED <<turn_id, speech_started, spoken_prompt, text_out, snapshots, toolCalls, prompts,
                   sttVars, text_prompt, llmVars, procVars, ttsVars>>

ServicePrompts ==
    /\ prompts < MaxPrompts /\ Stimulus
    /\ prompts' = prompts + 1
    /\ text_prompt' = Append(text_prompt, Request(prompts', "client"))
    /\ UNCHANGED <<tsVars, bounds, sttVars, llmVars, procVars, ttsVars>>

\* An answer counts against the bound on prompts.
ServiceAnswersCall ==
    /\ prompts < MaxPrompts /\ Stimulus
    /\ prompts' = prompts + 1
    /\ \E i \in 1..Len(text_out) :
        /\ text_out[i].type = "call"
        /\ text_prompt' = Append(text_prompt, Request(text_out[i].turn, text_out[i].src))
    /\ UNCHANGED <<tsVars, bounds, sttVars, llmVars, procVars, ttsVars>>

PipelineNext ==
    \/ Speak
    \/ Handlers
    \/ ServiceCancels \/ ServicePrompts \/ ServiceAnswersCall

PipelineSpec == PipelineInit /\ [][PipelineNext]_pipelineVars

\* BaseHandler.run never stops taking items, and a call into a model returns if it
\* does not raise; that one raises is never relied upon.
PipelineFairness ==
    /\ WF_pipelineVars(STTTake \/ STTResult)
    /\ WF_pipelineVars(Notify)
    /\ WF_pipelineVars(LLMTake \/ LLMText \/ LLMToolCall \/ LLMFinish)
    /\ WF_pipelineVars(ProcessChunk \/ ProcessEnd)
    /\ WF_pipelineVars(TTSTake \/ TTSPiece \/ TTSSend \/ TTSFinish)

PipelineLiveSpec == PipelineSpec /\ PipelineFairness

-----------------------------------------------------------------------------
Ghost == [turn : Ids, src : Sources]
Turn == 0..MaxTurns
Gen == 0..(MaxTurns + MaxCancels)

\* Every variable keeps its type.
PipelineTypeOK ==
    /\ turn_id \in Turn /\ generation \in Gen /\ speech_started \in BOOLEAN
    /\ snapshots \in 0..MaxSnapshots /\ toolCalls \in 0..MaxToolCalls
    /\ cancels \in 0..MaxCancels /\ prompts \in 0..MaxPrompts
    /\ spoken_prompt \in Seq([mode : {"progressive", "final"}, turn : Turn])
    /\ stt_output \in Seq(Turn)
    /\ text_prompt \in Seq(Ghost)
    /\ lm_response \in Seq([kind : {"chunk", "end"}, turn : Ids, src : Sources, gen0 : Gen])
    /\ lm_processed \in Seq([turn : Ids, src : Sources, barged : BOOLEAN])
    /\ audio_out \in Seq([kind : {"audio", "done"}, turn : Ids, src : Sources])
    /\ buffers \in [Ids -> 0..MaxChunks]
    /\ gens \in [Ids -> Gen \cup {NoGen}]
    /\ stt = Idle \/ stt \in [pc : {"decoding"}, mode : {"progressive", "final"},
                             turn : Turn, gen : Gen]
    /\ llm = Idle \/ llm \in [pc : {"streaming", "hung"}, turn : Ids, src : Sources, gen : Gen,
                             chunks : 0..MaxChunks, tool : BOOLEAN]
    /\ tts = Idle \/ tts \in [pc : {"synthesising", "sending"}, turn : Ids, src : Sources,
                             gen : Gen, pieces : 0..MaxAudio, late : Nat]

\* Some event of this type for this turn was put in text_out before position i.
Before(i, type, t) == \E k \in 1..(i - 1) : text_out[k].type = type /\ text_out[k].turn = t

\* Four threads put into text_out, and still the client learns of a turn in the
\* order it happened: stopped, then its transcript, once and in the order of the
\* turns, then what the assistant makes of it; live snapshots come before the
\* transcript.
CausalOrder ==
    \A i \in 1..Len(text_out) :
        LET e == text_out[i] IN
        /\ e.type = "transcript" =>
              /\ Before(i, "speech_stopped", e.turn)
              /\ \A t \in e.turn..MaxTurns : ~Before(i, "transcript", t)
        /\ e.type = "partial" =>
              /\ Before(i, "speech_started", e.turn)
              /\ ~Before(i, "transcript", e.turn)
        /\ e.type \in {"text", "call", "usage"} /\ e.src = "vad" =>
              Before(i, "transcript", e.turn)

\* A cancel that finds the TTS speaking lets at most the piece through whose
\* check had already passed.
CancelStopsSpeech == tts.pc # "idle" => tts.late <= 1

\* The processor's maps, keyed by turn ids that the VAD and the service both
\* hand out, hold nothing between two answers: no text and no generation of an
\* earlier answer under the same id can leak into the next.
ProcessorClean ==
    \A t \in Ids : (buffers[t] > 0 \/ gens[t] # NoGen) =>
        /\ lm_response # <<>>
        /\ Head(lm_response).turn = t
        /\ \E i \in 1..Len(lm_response) : lm_response[i].kind = "end" /\ lm_response[i].turn = t

\* "If the turn was cancelled (barge-in), do not give it to the TTS": no text
\* waits for the TTS whose answer was cancelled while the LLM was producing it.
CancelledNotSpoken == \A i \in 1..Len(lm_processed) : ~lm_processed[i].barged

\* Nothing is being worked on and nothing waits, except for a language model that
\* hangs because generate raised, behind which the requests pile up.
Quiet ==
    /\ stt = Idle /\ tts = Idle
    /\ llm.pc = "hung" \/ (llm = Idle /\ text_prompt = <<>>)
    /\ spoken_prompt = <<>> /\ stt_output = <<>>
    /\ lm_response = <<>> /\ lm_processed = <<>>

\* Whatever the user and the service cancel, and whichever model raises or returns
\* nothing, the pipeline works off what it was given and comes to rest: no thread
\* waits for another for ever.  Only the language model itself may wait for ever,
\* when the generate of Transformers raises; what it had finished before is still
\* processed and spoken.
EventuallyQuiet == <>[]Quiet

Answered(t) ==
    \/ \E i \in 1..Len(audio_out) : audio_out[i].kind = "done" /\ audio_out[i].turn = t
    \/ \E i \in 1..Len(text_out) : text_out[i].type = "call" /\ text_out[i].turn = t

\* If the models neither fail nor return nothing, the last thing the user says
\* is answered, although its start cancelled the answer before.  The client's and
\* the service's own cancels are left out: the second cancel of the service for
\* the same turn would take the answer away if it came late.
LastTurnAnswered ==
    turn_id = MaxTurns /\ ~speech_started ~> Answered(MaxTurns)
=============================================================================
