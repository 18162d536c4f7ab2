------------------------------- MODULE Session ------------------------------
(***************************************************************************)
(* One voice session: the handler threads of Pipeline.tla and the drain    *)
(* and event-loop threads of RealtimeService.tla on the same queues, the   *)
(* same CancelScope and the same counter of client turn ids.               *)
(***************************************************************************)
EXTENDS Pipeline

CONSTANTS
    Interrupt  \* turn_detection.interrupt_response

VARIABLES
    response_id, responses, current_response_turn, current_vad_turn, drain, loop, sent

Svc == INSTANCE RealtimeService WITH
           Turns <- Ids,
           TextTypes <- {"speech_started", "speech_stopped", "transcript", "partial", "text",
                         "call", "usage"},
           MaxSent <- 0 \* bounds only what RealtimeService makes up for itself

serviceState == <<response_id, responses, current_response_turn, current_vad_turn, drain, loop, sent>>
handlerState == <<userVars, snapshots, toolCalls, sttVars, llmVars, procVars, tts>>
sessionVars == <<pipelineVars, serviceState>>

SessionInit == PipelineInit /\ Svc!ServiceInit

\* The VAD's events are about the user's turns.
Message(m) ==
    IF m.type \in {"speech_started", "speech_stopped"}
    THEN [type |-> m.type, turn |-> m.turn, src |-> "vad"]
    ELSE m

\* text_out.get: the oldest event is handled.
DrainText ==
    /\ text_out # <<>>
    /\ Svc!TakeText(Message(Head(text_out)))
    /\ text_out' = Tail(text_out)
    /\ UNCHANGED <<handlerState, audio_out>>

\* audio_out.get: the oldest piece of audio or ResponseDone is handled.
DrainAudio ==
    /\ audio_out # <<>>
    /\ Svc!TakeAudio(Head(audio_out)) \/ Svc!TakeDone(Head(audio_out))
    /\ audio_out' = Tail(audio_out)
    /\ UNCHANGED <<handlerState, text_out>>

\* Mutant: text_out.get has no timeout.
DrainWaitsForText ==
    /\ audio_out = <<>> /\ Svc!TimeoutAudio
    /\ UNCHANGED <<handlerState, text_out, audio_out>>

\* Nothing came within 50 ms.
DrainTimeout ==
    /\ \/ text_out = <<>> /\ Svc!TimeoutText
       \/ audio_out = <<>> /\ Svc!TimeoutAudio
    /\ UNCHANGED <<handlerState, text_out, audio_out>>

Drain ==
    \/ DrainText \/ DrainAudio \/ DrainTimeout
    \/ Svc!DrainStep /\ UNCHANGED <<handlerState, text_out, audio_out>>

Client ==
    /\ \/ Stimulus /\ (Svc!ClientCancels \/ Svc!ClientItem)
       \/ Svc!ClientCancelDone \/ Svc!ClientCancelClear
    /\ UNCHANGED <<handlerState, text_out, audio_out>>

SessionNext ==
    \/ (Speak \/ Handlers) /\ UNCHANGED serviceState
    \/ Drain
    \/ Client

SessionSpec == SessionInit /\ [][SessionNext]_sessionVars

\* No thread stops, and calls into the models return; that one raises is not
\* relied upon.
SessionFairness ==
    /\ WF_sessionVars((STTTake \/ STTResult) /\ UNCHANGED serviceState)
    /\ WF_sessionVars(Notify /\ UNCHANGED serviceState)
    /\ WF_sessionVars((LLMTake \/ LLMText \/ LLMToolCall \/ LLMFinish)
                      /\ UNCHANGED serviceState)
    /\ WF_sessionVars((ProcessChunk \/ ProcessEnd) /\ UNCHANGED serviceState)
    /\ WF_sessionVars((TTSTake \/ TTSPiece \/ TTSSend \/ TTSFinish)
                      /\ UNCHANGED serviceState)
    /\ WF_sessionVars(Drain)

SessionLiveSpec == SessionSpec /\ SessionFairness

-----------------------------------------------------------------------------
\* What the client hears is in the order in which it was asked for: after audio
\* that answers one turn of the user there is none that answers an earlier one,
\* unless a function call had to be answered first.
SpokenInOrder ==
    \A i, j \in 1..Len(sent) :
        /\ i < j
        /\ sent[i].type = "audio" /\ sent[i].src = "vad"
        /\ sent[j].type = "audio" /\ sent[j].src = "vad"
        /\ \A k \in 1..j : sent[k].type = "call" => sent[k].turn # sent[j].turn
        => sent[i].turn <= sent[j].turn

\* "The old response is cancelled, no old audio follows": once the client was
\* told that its speech interrupted a response, it gets no more audio that
\* answers an earlier turn.
NoOldAudioAfterBargeIn ==
    \A i, j \in 1..Len(sent) :
        /\ i < j
        /\ sent[i].type = "cancelled" /\ sent[i].src = "vad"
        /\ sent[j].type = "audio" /\ sent[j].src = "vad"
        => sent[j].turn >= sent[i].turn

\* "Carries turn_id so that the service does not finish another turn": the
\* ResponseDone that completes a response is of the turn it was created for.
FinishesItsOwnTurn ==
    \A i, j \in 1..Len(sent) :
        i < j /\ sent[i].type = "created" /\ sent[j].type = "done" /\ sent[i].rid = sent[j].rid
            => sent[i].turn = sent[j].turn /\ sent[i].src = sent[j].src

\* "so that ResponseDone matches - otherwise the response is never done": every
\* response that the client was told of is closed, if no model fails.
ResponsesGetDone ==
    \A r \in 1..2 :
        responses >= r ~> \E i \in 1..Len(sent) : sent[i].type \in {"done", "cancelled"}
                                                  /\ sent[i].rid = r

\* As long as no model fails, the session comes to rest: every queue is emptied
\* and neither the drain nor a handler is stuck.
EverythingDelivered == <>[](Quiet /\ text_out = <<>> /\ audio_out = <<>>)
=============================================================================
