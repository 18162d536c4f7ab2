-------------------------- MODULE RealtimeService ---------------------------
(***************************************************************************)
(* RealtimeService: one session's response state, written by two threads.  *)
(* The drain thread takes one item of text_out, then one of audio_out, and *)
(* turns them into server events; the event-loop thread handles the        *)
(* client's events.  There is no lock: each step below is what one thread  *)
(* does between two points at which the other can change response_id.      *)
(*                                                                         *)
(* What the pipeline puts in the two queues is arbitrary here; Session.tla *)
(* connects the real one.  sent is everything given to on_event that is    *)
(* about a response or a turn: "done" and "cancelled" are response.done    *)
(* with that status, and the ghost fields turn and src of an event name    *)
(* the pipeline message that caused it.                                    *)
(***************************************************************************)
EXTENDS Naturals, Sequences, FiniteSets

CONSTANTS
    Turns,       \* turn ids a message can carry
    TextTypes,   \* bound: the types of message in text_out
    MaxSent,     \* bound: server events sent
    MaxCancels,  \* bound: response.cancel events of the client
    MaxPrompts,  \* bound: conversation.item.create events of the client
    Interrupt    \* turn_detection.interrupt_response

ASSUME ServiceAssumption ==
    /\ Turns \subseteq Nat \ {0}
    /\ MaxSent \in Nat /\ MaxCancels \in Nat /\ MaxPrompts \in Nat
    /\ Interrupt \in BOOLEAN
    /\ TextTypes \subseteq {"speech_started", "speech_stopped", "transcript", "partial", "text",
                           "call", "usage"}

VARIABLES
    generation,            \* the pipeline's CancelScope
    text_prompt,           \* the pipeline's queue to the LLM
    prompts,               \* _seq: ids given to the client's items
    cancels,               \* response.cancel events so far
    response_id,           \* 0 for None
    responses,             \* responses started so far: the last id given
    current_response_turn, \* 0 for None
    current_vad_turn,
    drain,                 \* the drain thread: [pc, msg]
    loop,                  \* the event-loop thread inside _cancel_current_response
    sent

pipeVars == <<generation, text_prompt>>
respVars == <<response_id, responses, current_response_turn>>
serviceVars == <<respVars, prompts, cancels, current_vad_turn, drain, loop, sent>>

None == 0
At(pc) == [pc |-> pc]
With(pc, m) == [pc |-> pc, msg |-> m]
ServerEvent(type, rid, m) == [type |-> type, rid |-> rid, turn |-> m.turn, src |-> m.src]
Emit(e) == sent' = Append(sent, e)
NoMessage == [turn |-> 0, src |-> "none"]

ServiceInit ==
    /\ prompts = 0 /\ cancels = 0
    /\ response_id = None /\ responses = 0
    /\ current_response_turn = None /\ current_vad_turn = 0
    /\ drain = At("text") /\ loop = "idle"
    /\ sent = <<>>

-----------------------------------------------------------------------------
\* Mutant: a response is started for every piece.
AlwaysStart(m) == drain' = With("start", m)

\* Mutant: the drain looks at the turn of the last response, which a cancel keeps.
StartAfterFinish(m) ==
    drain' = With(IF current_response_turn = None THEN "start" ELSE "deliver", m)

\* "if self.response_id is None: self._start_response(...)", then deliver.
StartOrDeliver(m) == drain' = With(IF response_id = None THEN "start" ELSE "deliver", m)

\* The drain thread takes m from text_out: _handle_pipeline_event up to the
\* first point at which response_id matters.
TakeSpeechStarted(m) ==
    /\ drain.pc = "text" /\ m.type = "speech_started"
    /\ current_vad_turn' = m.turn
    /\ Emit(ServerEvent("speech_started", None, m))
    /\ drain' = With("bargein", m)
    /\ UNCHANGED <<pipeVars, respVars, prompts, cancels, loop>>

TakeSpeechStopped(m) ==
    /\ drain.pc = "text" /\ m.type = "speech_stopped"
    /\ Emit(ServerEvent("speech_stopped", None, m))
    /\ drain' = At("audio")
    /\ UNCHANGED <<pipeVars, respVars, prompts, cancels, current_vad_turn, loop>>

\* Transcripts, partial or complete, of a turn that is over are dropped.
TakeTranscript(m) ==
    /\ drain.pc = "text" /\ m.type \in {"transcript", "partial"}
    /\ IF m.turn < current_vad_turn THEN UNCHANGED sent
       ELSE Emit(ServerEvent(m.type, None, m))
    /\ drain' = At("audio")
    /\ UNCHANGED <<pipeVars, respVars, prompts, cancels, current_vad_turn, loop>>

TakeAssistantText(m) ==
    /\ drain.pc = "text" /\ m.type = "text"
    /\ StartOrDeliver(m)
    /\ UNCHANGED <<pipeVars, respVars, prompts, cancels, current_vad_turn, loop, sent>>

\* search_knowledge is answered by the service itself, under the same turn id.
TakeFunctionCall(m) ==
    /\ drain.pc = "text" /\ m.type = "call"
    /\ \/ text_prompt' = Append(text_prompt, [turn |-> m.turn, src |-> m.src])
       \/ UNCHANGED text_prompt
    /\ StartOrDeliver(m)
    /\ UNCHANGED <<generation, respVars, prompts, cancels, current_vad_turn, loop, sent>>

TakeUsage(m) ==
    /\ drain.pc = "text" /\ m.type = "usage"
    /\ drain' = At("audio")
    /\ UNCHANGED <<pipeVars, respVars, prompts, cancels, current_vad_turn, loop, sent>>

TakeText(m) ==
    \/ TakeSpeechStarted(m)
    \/ TakeSpeechStopped(m)
    \/ TakeTranscript(m)
    \/ TakeAssistantText(m)
    \/ TakeFunctionCall(m)
    \/ TakeUsage(m)

\* Mutant: audio is delivered under whatever response is open.
AnyAudio(m) == TRUE

\* Audio of another turn than the last response's is dropped.
AudioFits(m) == current_response_turn \in {None, m.turn}

\* _handle_audio up to the first use of response_id.
TakeAudio(m) ==
    /\ drain.pc = "audio" /\ m.kind = "audio"
    /\ IF AudioFits(m) THEN StartOrDeliver(m) ELSE drain' = At("text")
    /\ UNCHANGED <<pipeVars, respVars, prompts, cancels, current_vad_turn, loop, sent>>

TakeDone(m) ==
    /\ drain.pc = "audio" /\ m.kind = "done"
    /\ drain' = IF current_response_turn = m.turn THEN With("finish", m) ELSE At("text")
    /\ UNCHANGED <<pipeVars, respVars, prompts, cancels, current_vad_turn, loop, sent>>

\* The 50 ms timeout on an empty queue: on to the other one.
TimeoutText ==
    /\ drain.pc = "text"
    /\ drain' = At("audio")
    /\ UNCHANGED <<pipeVars, respVars, prompts, cancels, current_vad_turn, loop, sent>>

TimeoutAudio ==
    /\ drain.pc = "audio"
    /\ drain' = At("text")
    /\ UNCHANGED <<pipeVars, respVars, prompts, cancels, current_vad_turn, loop, sent>>

-----------------------------------------------------------------------------
\* After SpeechStarted: interrupt the response that is open, if any.
BargeIn ==
    /\ drain.pc = "bargein"
    /\ drain' = IF response_id # None /\ Interrupt THEN With("cancel", drain.msg) ELSE At("audio")
    /\ UNCHANGED <<pipeVars, respVars, prompts, cancels, current_vad_turn, loop, sent>>

\* _cancel_current_response on the drain thread: cancel, response.done, None.
DrainCancels ==
    /\ drain.pc = "cancel"
    /\ generation' = generation + 1
    /\ drain' = With("cancelDone", drain.msg)
    /\ UNCHANGED <<text_prompt, respVars, prompts, cancels, current_vad_turn, loop, sent>>

DrainCancelDone ==
    /\ drain.pc = "cancelDone"
    /\ Emit(ServerEvent("cancelled", response_id, drain.msg))
    /\ drain' = With("cancelClear", drain.msg)
    /\ UNCHANGED <<pipeVars, respVars, prompts, cancels, current_vad_turn, loop>>

DrainCancelClear ==
    /\ drain.pc = "cancelClear"
    /\ response_id' = None
    /\ drain' = At("audio")
    /\ UNCHANGED <<pipeVars, responses, current_response_turn, prompts, cancels,
                   current_vad_turn, loop, sent>>

\* Mutant: _start_response is called without the turn, whose default is None.
NoTurn(m) == None

\* The turn a response is started for.
ResponseTurn(m) == m.turn

\* _start_response: the new id and its turn, then response.created with its items.
StartResponse ==
    /\ drain.pc = "start"
    /\ responses' = responses + 1
    /\ response_id' = responses'
    /\ current_response_turn' = ResponseTurn(drain.msg)
    /\ drain' = With("announce", drain.msg)
    /\ UNCHANGED <<pipeVars, prompts, cancels, current_vad_turn, loop, sent>>

AnnounceResponse ==
    /\ drain.pc = "announce"
    /\ Emit(ServerEvent("created", response_id, drain.msg))
    /\ drain' = With("deliver", drain.msg)
    /\ UNCHANGED <<pipeVars, respVars, prompts, cancels, current_vad_turn, loop>>

\* The delta event, or the events of a function call.
Deliver ==
    /\ drain.pc = "deliver"
    /\ LET audio == "kind" \in DOMAIN drain.msg IN
       /\ Emit(ServerEvent(IF audio THEN "audio" ELSE drain.msg.type, response_id, drain.msg))
       /\ drain' = At(IF audio THEN "text" ELSE "audio")
    /\ UNCHANGED <<pipeVars, respVars, prompts, cancels, current_vad_turn, loop>>

\* _finish_response: nothing to do without a response; otherwise the closing
\* events of its items and response.done, and then the state is cleared.
Finish ==
    /\ drain.pc = "finish"
    /\ drain' = IF response_id = None THEN At("text") ELSE With("finishDone", drain.msg)
    /\ UNCHANGED <<pipeVars, respVars, prompts, cancels, current_vad_turn, loop, sent>>

FinishDone ==
    /\ drain.pc = "finishDone"
    /\ Emit(ServerEvent("done", response_id, drain.msg))
    /\ drain' = With("finishClear", drain.msg)
    /\ UNCHANGED <<pipeVars, respVars, prompts, cancels, current_vad_turn, loop>>

FinishClear ==
    /\ drain.pc = "finishClear"
    /\ response_id' = None
    /\ current_response_turn' = None
    /\ drain' = At("text")
    /\ UNCHANGED <<pipeVars, responses, prompts, cancels, current_vad_turn, loop, sent>>

DrainStep ==
    \/ BargeIn \/ DrainCancels \/ DrainCancelDone \/ DrainCancelClear
    \/ StartResponse \/ AnnounceResponse \/ Deliver
    \/ Finish \/ FinishDone \/ FinishClear

-----------------------------------------------------------------------------
\* response.cancel: _cancel_current_response on the event-loop thread.
ClientCancels ==
    /\ loop = "idle" /\ cancels < MaxCancels
    /\ cancels' = cancels + 1
    /\ generation' = generation + 1
    /\ loop' = "cancelDone"
    /\ UNCHANGED <<text_prompt, respVars, prompts, current_vad_turn, drain, sent>>

ClientCancelDone ==
    /\ loop = "cancelDone"
    /\ Emit(ServerEvent("cancelled", response_id, NoMessage))
    /\ loop' = "cancelClear"
    /\ UNCHANGED <<pipeVars, respVars, prompts, cancels, current_vad_turn, drain>>

ClientCancelClear ==
    /\ loop = "cancelClear"
    /\ response_id' = None
    /\ loop' = "idle"
    /\ UNCHANGED <<pipeVars, responses, current_response_turn, prompts, cancels,
                   current_vad_turn, drain, sent>>

\* conversation.item.create, a message or a function_call_output: _next_turn_id.
ClientItem ==
    /\ loop = "idle" /\ prompts < MaxPrompts
    /\ prompts' = prompts + 1
    /\ text_prompt' = Append(text_prompt, [turn |-> prompts', src |-> "client"])
    /\ UNCHANGED <<generation, respVars, cancels, current_vad_turn, drain, loop, sent>>

LoopStep == ClientCancels \/ ClientCancelDone \/ ClientCancelClear \/ ClientItem

-----------------------------------------------------------------------------
\* The two queues can hold anything.
TextMessages == [type : TextTypes, turn : Turns, src : {"vad"}]
AudioMessages == [kind : {"audio", "done"}, turn : Turns, src : {"vad"}]

ServiceNext ==
    \/ Len(sent) < MaxSent /\ \E m \in TextMessages : TakeText(m)
    \/ Len(sent) < MaxSent /\ \E m \in AudioMessages : TakeAudio(m) \/ TakeDone(m)
    \/ TimeoutText \/ TimeoutAudio
    \/ DrainStep
    \/ LoopStep

ServiceAloneInit == ServiceInit /\ generation = 0 /\ text_prompt = <<>>
ServiceSpec == ServiceAloneInit /\ [][ServiceNext]_<<serviceVars, pipeVars>>

-----------------------------------------------------------------------------
Messages == [turn : Turns, src : {"vad", "client"}]
ResponseEvents == {"created", "text", "audio", "call", "done", "cancelled"}
TurnEvents == {"speech_started", "speech_stopped", "transcript", "partial"}

\* Every variable keeps its type, and a response that is open has a turn.
ServiceTypeOK ==
    /\ generation \in Nat /\ prompts \in 0..MaxPrompts /\ cancels \in 0..MaxCancels
    /\ text_prompt \in Seq([turn : Nat, src : {"vad", "client"}])
    /\ responses \in Nat /\ response_id \in 0..responses
    /\ current_response_turn \in Turns \cup {None}
    /\ response_id # None => current_response_turn # None
    /\ current_vad_turn \in Turns \cup {0}
    /\ drain.pc \in {"text", "audio", "bargein", "cancel", "cancelDone", "cancelClear", "start",
                    "announce", "deliver", "finish", "finishDone", "finishClear"}
    /\ drain.pc \notin {"text", "audio"} => drain.msg.turn \in Turns
    /\ loop \in {"idle", "cancelDone", "cancelClear"}
    /\ \A i \in 1..Len(sent) : /\ sent[i].type \in ResponseEvents \cup TurnEvents
                               /\ sent[i].rid \in 0..responses

Protocol == INSTANCE ResponseProtocol WITH log <- sent

\* As long as the client has not cancelled from the other thread, whatever the
\* pipeline puts into the two queues and in whatever order, the client sees one
\* response at a time, opened once and closed once, and nothing outside of it.
ImplementsResponseProtocol ==
    Protocol!RPInit /\ [][cancels' = 0 => Protocol!RPStep]_serviceVars

\* Audio is only ever delivered in the response that was opened last, and that
\* one was opened for its turn, also when the client cancels at the worst moment:
\* between the test of response_id and the delivery.  The delta then has no
\* response_id any more (null), but the client has been told of no other response.
AudioOfItsTurn ==
    \A i \in 1..Len(sent) : sent[i].type = "audio" =>
        \E k \in 1..(i - 1) : /\ sent[k].type = "created"
                              /\ sent[k].turn = sent[i].turn
                              /\ sent[i].rid \in {sent[k].rid, None}
                              /\ \A j \in (k + 1)..(i - 1) : sent[j].type # "created"

\* The places in the log s of deltas and function calls sent with response_id null.
Orphans(s) == {i \in 1..Len(s) : s[i].type \in {"text", "audio", "call"} /\ s[i].rid = None}

\* There is no lock between the two threads, but each response.cancel of the
\* client lets at most one delta or function call through without a response: the
\* one the drain thread had in its hands.  What comes after it is delivered in a
\* response that is open, or opens one first.
OneDeltaPerCancel == Cardinality(Orphans(sent)) <= cancels
=============================================================================
