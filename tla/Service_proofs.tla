--------------------------- MODULE Service_proofs ---------------------------
(***************************************************************************)
(* Proofs about RealtimeService.tla: the response state that the drain     *)
(* thread and the event-loop thread write without a lock, for any messages *)
(* in the two queues, any turn ids and any number of events.               *)
(***************************************************************************)
EXTENDS RealtimeService, FiniteSetTheorems, TLAPS

vars == <<serviceVars, pipeVars>>

\* What the drain thread may be working on, and where.
ResponseTexts == [type : {"text", "call"}, turn : Turns, src : {"vad"}]
Starts == [type : {"speech_started"}, turn : Turns, src : {"vad"}]
Audio == [kind : {"audio"}, turn : Turns, src : {"vad"}]
Dones == [kind : {"done"}, turn : Turns, src : {"vad"}]
SentEvents == [type : ResponseEvents \cup TurnEvents, rid : Nat, turn : Nat, src : {"vad", "none"}]

Requests == [turn : Nat, src : {"vad", "client"}]

Waiting == [pc : {"text", "audio"}]
Cancelling == [pc : {"bargein", "cancel", "cancelDone", "cancelClear"}, msg : Starts]
Responding == [pc : {"start", "announce", "deliver"}, msg : ResponseTexts \cup Audio]
Finishing == [pc : {"finish", "finishDone", "finishClear"}, msg : Dones]

\* What the variables are.
Shape ==
    /\ generation \in Nat /\ prompts \in 0..MaxPrompts /\ cancels \in 0..MaxCancels
    /\ text_prompt \in Seq(Requests)
    /\ responses \in Nat /\ response_id \in 0..responses
    /\ current_response_turn \in Turns \cup {None}
    /\ response_id # None => current_response_turn # None
    /\ current_vad_turn \in Turns \cup {0}
    /\ drain \in Waiting \cup Cancelling \cup Responding \cup Finishing
    /\ loop \in {"idle", "cancelDone", "cancelClear"}
    /\ sent \in Seq(SentEvents)
    /\ \A i \in 1..Len(sent) : sent[i].rid \in 0..responses

\* The response opened last in the log s is for turn t, and is r if r is one at all.
LastOpened(s, r, t) ==
    \E k \in 1..Len(s) : /\ s[k].type = "created" /\ s[k].turn = t
                         /\ r \in {s[k].rid, None}
                         /\ \A j \in (k + 1)..Len(s) : s[j].type # "created"

\* As long as the service remembers a turn, the response opened last is for it,
\* whether it is still open or was cancelled, and a piece of audio that is about
\* to be delivered is of that turn.
OpenForTurn ==
    /\ current_response_turn # None /\ drain.pc # "announce"
          => LastOpened(sent, response_id, current_response_turn)
    /\ drain.pc = "announce" \/ (drain.pc = "deliver" /\ drain.msg \in Audio)
          => current_response_turn = drain.msg.turn

AudioIInv == OpenForTurn /\ AudioOfItsTurn

\* As long as the client has not cancelled, only the drain thread writes
\* response_id, which tells exactly which response is open in the log.
OneOpen ==
    /\ loop = "idle"
    /\ \A r \in Nat : Protocol!Created(sent, r) \/ Protocol!Closed(sent, r) => r \in 1..responses
    /\ \A r \in Nat : Protocol!IsOpen(sent, r) => r = response_id
    /\ drain.pc = "start" => response_id = None
    /\ drain.pc = "announce" => /\ response_id = responses /\ response_id # None
                                /\ ~Protocol!Created(sent, response_id)
                                /\ ~Protocol!Closed(sent, response_id)
    /\ drain.pc \in {"deliver", "finishDone", "cancel", "cancelDone"} => response_id # None
    /\ response_id # None /\ drain.pc \notin {"announce", "cancelClear", "finishClear"}
          => Protocol!IsOpen(sent, response_id)
    /\ drain.pc \in {"cancelClear", "finishClear"} => ~Protocol!IsOpen(sent, response_id)

ProtocolIInv == cancels = 0 => OneOpen

-----------------------------------------------------------------------------
\* What an event more makes of the log.
LEMMA LogAppend ==
  ASSUME NEW s \in Seq(SentEvents), NEW e \in SentEvents
  PROVE  /\ Append(s, e) \in Seq(SentEvents)
         /\ Len(Append(s, e)) = Len(s) + 1
         /\ \A i \in 1..Len(s) : Append(s, e)[i] = s[i]
         /\ Append(s, e)[Len(s) + 1] = e
OBVIOUS

LEMMA CreatedAppend ==
  ASSUME NEW s \in Seq(SentEvents), NEW e \in SentEvents, NEW r
  PROVE  Protocol!Created(Append(s, e), r) <=>
            Protocol!Created(s, r) \/ (e.type = "created" /\ e.rid = r)
BY LogAppend DEF Protocol!Created

LEMMA ClosedAppend ==
  ASSUME NEW s \in Seq(SentEvents), NEW e \in SentEvents, NEW r
  PROVE  Protocol!Closed(Append(s, e), r) <=>
            Protocol!Closed(s, r) \/ (e.type \in {"done", "cancelled"} /\ e.rid = r)
BY LogAppend DEF Protocol!Closed

\* Events in the order they are made.
LEMMA EventType ==
  ASSUME NEW type \in ResponseEvents \cup TurnEvents, NEW rid \in Nat,
         NEW m, m.turn \in Nat, m.src \in {"vad", "none"}
  PROVE  /\ ServerEvent(type, rid, m) \in SentEvents
         /\ ServerEvent(type, rid, m).type = type
         /\ ServerEvent(type, rid, m).rid = rid
         /\ ServerEvent(type, rid, m).turn = m.turn
BY DEF ServerEvent, SentEvents

\* The messages of the model are those of the sets above.
LEMMA MessageType ==
  /\ \A m \in TextMessages : /\ m.turn \in Turns /\ m.src = "vad"
                             /\ m.type = "speech_started" => m \in Starts
                             /\ m.type \in {"text", "call"} => m \in ResponseTexts
  /\ \A m \in AudioMessages : /\ m.turn \in Turns /\ m.src = "vad"
                              /\ m.kind = "audio" => m \in Audio
                              /\ m.kind = "done" => m \in Dones
BY DEF TextMessages, AudioMessages, Starts, ResponseTexts, Audio, Dones

\* Audio and text can be told apart.
LEMMA AudioOrText ==
  /\ \A m \in Audio : "kind" \in DOMAIN m /\ m.turn \in Turns /\ m.src = "vad"
  /\ \A m \in ResponseTexts : /\ "kind" \notin DOMAIN m /\ m \notin Audio
                              /\ m.type \in {"text", "call"}
                              /\ m.turn \in Turns /\ m.src = "vad"
BY DEF Audio, ResponseTexts

-----------------------------------------------------------------------------
\* The drain thread's program counter says what it works on.
LEMMA DrainMessage ==
  ASSUME Shape
  PROVE  /\ drain.pc \in {"bargein", "cancel", "cancelDone", "cancelClear"} =>
              drain = With(drain.pc, drain.msg) /\ drain.msg \in Starts
         /\ drain.pc \in {"start", "announce", "deliver"} =>
              drain = With(drain.pc, drain.msg) /\ drain.msg \in ResponseTexts \cup Audio
         /\ drain.pc \in {"finish", "finishDone", "finishClear"} =>
              drain = With(drain.pc, drain.msg) /\ drain.msg \in Dones
BY DEF Shape, With, Waiting, Cancelling, Responding, Finishing

LEMMA MessageTurn ==
  ASSUME NEW m \in Starts \cup ResponseTexts \cup Audio \cup Dones
  PROVE  m.turn \in Turns /\ m.turn \in Nat \ {0} /\ m.src = "vad"
BY ServiceAssumption DEF Starts, ResponseTexts, Audio, Dones

\* Where the drain thread goes.
LEMMA DrainType ==
  /\ \A pc \in {"text", "audio"} : At(pc) \in Waiting
  /\ \A pc \in {"bargein", "cancel", "cancelDone", "cancelClear"}, m \in Starts :
        With(pc, m) \in Cancelling
  /\ \A pc \in {"start", "announce", "deliver"}, m \in ResponseTexts \cup Audio :
        With(pc, m) \in Responding
  /\ \A pc \in {"finish", "finishDone", "finishClear"}, m \in Dones :
        With(pc, m) \in Finishing
BY DEF At, With, Waiting, Cancelling, Responding, Finishing

\* An emission keeps the type of the log.
LEMMA EmitShape ==
  ASSUME Shape, NEW type \in ResponseEvents \cup TurnEvents, NEW rid \in 0..responses,
         NEW m, m.turn \in Nat, m.src \in {"vad", "none"},
         Emit(ServerEvent(type, rid, m))
  PROVE  /\ sent' \in Seq(SentEvents)
         /\ \A i \in 1..Len(sent') : sent'[i].rid \in 0..responses
<1> DEFINE e == ServerEvent(type, rid, m)
<1>1. e \in SentEvents /\ e.rid = rid
  BY EventType DEF Shape
<1>2. sent' = Append(sent, e) /\ sent \in Seq(SentEvents)
      /\ \A i \in 1..Len(sent) : sent[i].rid \in 0..responses
  BY DEF Emit, Shape
<1> HIDE DEF e
<1>3. QED
  BY <1>1, <1>2, LogAppend

\* What a step on the other variables has to keep.
LEMMA QuietShape ==
  ASSUME Shape, UNCHANGED <<pipeVars, respVars, prompts, cancels, current_vad_turn, loop, sent>>,
         drain' \in Waiting \cup Cancelling \cup Responding \cup Finishing
  PROVE  Shape'
BY DEF Shape, pipeVars, respVars

LEMMA EmitQuietShape ==
  ASSUME Shape, NEW type \in ResponseEvents \cup TurnEvents, NEW rid \in 0..responses,
         NEW m, m.turn \in Nat, m.src \in {"vad", "none"},
         Emit(ServerEvent(type, rid, m)),
         UNCHANGED <<pipeVars, respVars, prompts, cancels, current_vad_turn, loop>>,
         drain' \in Waiting \cup Cancelling \cup Responding \cup Finishing
  PROVE  Shape'
BY EmitShape DEF Shape, pipeVars, respVars

\* The types are kept when the drain thread takes a message of text_out.
LEMMA TakeTextShape ==
  ASSUME Shape, NEW m \in TextMessages, TakeText(m)
  PROVE  Shape'
<1>1. m.turn \in Nat \ {0} /\ m.turn \in Turns /\ m.src = "vad"
  BY MessageType, ServiceAssumption
<1>2. 0 \in 0..responses /\ None = 0
  BY DEF Shape, None
<1>3. CASE TakeSpeechStarted(m)
  <2>1. m \in Starts
    BY <1>3, MessageType DEF TakeSpeechStarted
  <2>2. drain' \in Cancelling
    BY <1>3, <2>1, DrainType DEF TakeSpeechStarted
  <2>3. Emit(ServerEvent("speech_started", None, m))
    BY <1>3 DEF TakeSpeechStarted
  <2>4. /\ sent' \in Seq(SentEvents)
        /\ \A i \in 1..Len(sent') : sent'[i].rid \in 0..responses
    BY <1>1, <1>2, <2>3, EmitShape DEF TurnEvents
  <2>5. /\ UNCHANGED <<pipeVars, respVars, prompts, cancels, loop>>
        /\ current_vad_turn' \in Turns
    BY <1>1, <1>3 DEF TakeSpeechStarted
  <2>6. QED
    BY <2>2, <2>4, <2>5 DEF Shape, pipeVars, respVars
<1>4. CASE TakeSpeechStopped(m)
  <2>1. drain' \in Waiting
    BY <1>4, DrainType DEF TakeSpeechStopped
  <2>2. QED
    BY <1>1, <1>2, <1>4, <2>1, EmitQuietShape DEF TakeSpeechStopped, TurnEvents
<1>5. CASE TakeTranscript(m)
  <2>1. drain' \in Waiting
    BY <1>5, DrainType DEF TakeTranscript
  <2>2. CASE m.turn < current_vad_turn
    BY <1>5, <2>1, <2>2, QuietShape DEF TakeTranscript
  <2>3. CASE ~(m.turn < current_vad_turn)
    <3>1. m.type \in ResponseEvents \cup TurnEvents
      BY <1>5 DEF TakeTranscript, TurnEvents
    <3>2. QED
      BY <1>1, <1>2, <1>5, <2>1, <2>3, <3>1, EmitQuietShape DEF TakeTranscript
  <2>4. QED
    BY <2>2, <2>3
<1>6. CASE TakeAssistantText(m)
  <2>1. m \in ResponseTexts
    BY <1>6, MessageType DEF TakeAssistantText
  <2>2. drain' \in Responding
    BY <1>6, <2>1, DrainType DEF TakeAssistantText, StartOrDeliver
  <2>3. QED
    BY <1>6, <2>2, QuietShape DEF TakeAssistantText
<1>7. CASE TakeFunctionCall(m)
  <2>1. m \in ResponseTexts
    BY <1>7, MessageType DEF TakeFunctionCall
  <2>2. drain' \in Responding
    BY <1>7, <2>1, DrainType DEF TakeFunctionCall, StartOrDeliver
  <2>3. text_prompt' \in Seq(Requests)
    <3> DEFINE request == [turn |-> m.turn, src |-> m.src]
    <3>1. request \in Requests
      BY <1>1 DEF Requests
    <3>2. text_prompt' = Append(text_prompt, request) \/ text_prompt' = text_prompt
      BY <1>7 DEF TakeFunctionCall
    <3>3. text_prompt \in Seq(Requests)
      BY DEF Shape
    <3> HIDE DEF request
    <3>4. QED
      BY <3>1, <3>2, <3>3
  <2>4. QED
    BY <1>7, <2>2, <2>3 DEF TakeFunctionCall, Shape, respVars
<1>8. CASE TakeUsage(m)
  <2>1. drain' \in Waiting
    BY <1>8, DrainType DEF TakeUsage
  <2>2. QED
    BY <1>8, <2>1, QuietShape DEF TakeUsage
<1>9. QED
  BY <1>3, <1>4, <1>5, <1>6, <1>7, <1>8 DEF TakeText

\* And when it takes one of audio_out, or none at all.
LEMMA TakeAudioShape ==
  ASSUME Shape, NEW m \in AudioMessages, TakeAudio(m) \/ TakeDone(m)
  PROVE  Shape'
<1>1. CASE TakeAudio(m)
  <2>1. m \in Audio
    BY <1>1, MessageType DEF TakeAudio
  <2>2. drain' \in Waiting \cup Responding
    BY <1>1, <2>1, DrainType DEF TakeAudio, StartOrDeliver
  <2>3. QED
    BY <1>1, <2>2, QuietShape DEF TakeAudio
<1>2. CASE TakeDone(m)
  <2>1. m \in Dones
    BY <1>2, MessageType DEF TakeDone
  <2>2. drain' \in Waiting \cup Finishing
    BY <1>2, <2>1, DrainType DEF TakeDone
  <2>3. QED
    BY <1>2, <2>2, QuietShape DEF TakeDone
<1>3. QED
  BY <1>1, <1>2

LEMMA TimeoutShape ==
  ASSUME Shape, TimeoutText \/ TimeoutAudio
  PROVE  Shape'
<1>1. drain' \in Waiting
  BY DrainType DEF TimeoutText, TimeoutAudio
<1>2. QED
  BY <1>1, QuietShape DEF TimeoutText, TimeoutAudio

\* The types are kept by the drain thread's work on a message.
LEMMA DrainStepShape ==
  ASSUME Shape, DrainStep
  PROVE  Shape'
<1>1. response_id \in 0..responses
  BY DEF Shape
<1>2. CASE BargeIn
  <2>1. drain.msg \in Starts
    BY <1>2, DrainMessage DEF BargeIn
  <2>2. drain' \in Waiting \cup Cancelling
    BY <1>2, <2>1, DrainType DEF BargeIn
  <2>3. QED
    BY <1>2, <2>2, QuietShape DEF BargeIn
<1>3. CASE DrainCancels
  <2>1. drain' \in Cancelling
    BY <1>3, DrainMessage, DrainType DEF DrainCancels
  <2>2. QED
    BY <1>3, <2>1 DEF DrainCancels, Shape, respVars
<1>4. CASE DrainCancelDone
  <2>1. drain.msg \in Starts
    BY <1>4, DrainMessage DEF DrainCancelDone
  <2>2. drain' \in Cancelling
    BY <1>4, <2>1, DrainType DEF DrainCancelDone
  <2>3. QED
    BY <1>1, <1>4, <2>1, <2>2, MessageTurn, EmitQuietShape DEF DrainCancelDone, ResponseEvents
<1>5. CASE DrainCancelClear
  <2>1. drain' \in Waiting
    BY <1>5, DrainType DEF DrainCancelClear
  <2>2. QED
    BY <1>5, <2>1 DEF DrainCancelClear, Shape, pipeVars, None
<1>6. CASE StartResponse
  <2>1. drain.msg \in ResponseTexts \cup Audio
    BY <1>6, DrainMessage DEF StartResponse
  <2>2. drain' \in Responding
    BY <1>6, <2>1, DrainType DEF StartResponse
  <2>3. current_response_turn' \in Turns /\ current_response_turn' # None
    BY <1>6, <2>1, MessageTurn DEF StartResponse, ResponseTurn, None
  <2>4. responses' = responses + 1 /\ response_id' = responses + 1
        /\ UNCHANGED <<pipeVars, prompts, cancels, current_vad_turn, loop, sent>>
    BY <1>6 DEF StartResponse
  <2>5. /\ responses' \in Nat /\ response_id' \in 0..responses'
        /\ \A i \in 1..Len(sent') : sent'[i].rid \in 0..responses'
    <3>1. responses \in Nat /\ sent' = sent
      BY <2>4 DEF Shape
    <3>2. \A i \in 1..Len(sent) : sent[i].rid \in 0..responses
      BY DEF Shape
    <3>3. QED
      BY <2>4, <3>1, <3>2
  <2>6. QED
    BY <2>2, <2>3, <2>4, <2>5 DEF Shape, pipeVars
<1>7. CASE AnnounceResponse
  <2>1. drain.msg \in ResponseTexts \cup Audio
    BY <1>7, DrainMessage DEF AnnounceResponse
  <2>2. drain' \in Responding
    BY <1>7, <2>1, DrainType DEF AnnounceResponse
  <2>3. QED
    BY <1>1, <1>7, <2>1, <2>2, MessageTurn, EmitQuietShape DEF AnnounceResponse, ResponseEvents
<1>8. CASE Deliver
  <2>1. drain.msg \in ResponseTexts \cup Audio
    BY <1>8, DrainMessage DEF Deliver
  <2> DEFINE type == IF "kind" \in DOMAIN drain.msg THEN "audio" ELSE drain.msg.type
  <2>2. type \in ResponseEvents
    BY <2>1, AudioOrText DEF ResponseEvents
  <2>3. drain' \in Waiting /\ Emit(ServerEvent(type, response_id, drain.msg))
        /\ UNCHANGED <<pipeVars, respVars, prompts, cancels, current_vad_turn, loop>>
    BY <1>8, DrainType DEF Deliver
  <2> HIDE DEF type
  <2>4. QED
    BY <1>1, <2>1, <2>2, <2>3, MessageTurn, EmitQuietShape
<1>9. CASE Finish
  <2>1. drain.msg \in Dones
    BY <1>9, DrainMessage DEF Finish
  <2>2. drain' \in Waiting \cup Finishing
    BY <1>9, <2>1, DrainType DEF Finish
  <2>3. QED
    BY <1>9, <2>2, QuietShape DEF Finish
<1>10. CASE FinishDone
  <2>1. drain.msg \in Dones
    BY <1>10, DrainMessage DEF FinishDone
  <2>2. drain' \in Finishing
    BY <1>10, <2>1, DrainType DEF FinishDone
  <2>3. QED
    BY <1>1, <1>10, <2>1, <2>2, MessageTurn, EmitQuietShape DEF FinishDone, ResponseEvents
<1>11. CASE FinishClear
  <2>1. drain' \in Waiting
    BY <1>11, DrainType DEF FinishClear
  <2>2. QED
    BY <1>11, <2>1 DEF FinishClear, Shape, pipeVars, None
<1>12. QED
  BY <1>2, <1>3, <1>4, <1>5, <1>6, <1>7, <1>8, <1>9, <1>10, <1>11 DEF DrainStep

\* The types are kept by the event loop.
LEMMA LoopStepShape ==
  ASSUME Shape, LoopStep
  PROVE  Shape'
<1>1. CASE ClientCancels
  BY <1>1, ServiceAssumption DEF ClientCancels, Shape, respVars
<1>2. CASE ClientCancelDone
  <2>1. Emit(ServerEvent("cancelled", response_id, NoMessage)) /\ response_id \in 0..responses
    BY <1>2 DEF ClientCancelDone, Shape
  <2>2. NoMessage.turn \in Nat /\ NoMessage.src \in {"vad", "none"}
    BY DEF NoMessage
  <2>3. /\ sent' \in Seq(SentEvents)
        /\ \A i \in 1..Len(sent') : sent'[i].rid \in 0..responses
    BY <2>1, <2>2, EmitShape DEF ResponseEvents
  <2>4. QED
    BY <1>2, <2>3 DEF ClientCancelDone, Shape, pipeVars, respVars
<1>3. CASE ClientCancelClear
  BY <1>3 DEF ClientCancelClear, Shape, pipeVars, None
<1>4. CASE ClientItem
  <2>1. [turn |-> prompts', src |-> "client"] \in Requests /\ prompts' \in 0..MaxPrompts
    BY <1>4, ServiceAssumption DEF ClientItem, Shape, Requests
  <2>2. text_prompt' \in Seq(Requests)
    BY <1>4, <2>1 DEF ClientItem, Shape
  <2>3. QED
    BY <1>4, <2>1, <2>2 DEF ClientItem, Shape, respVars
<1>5. QED
  BY <1>1, <1>2, <1>3, <1>4 DEF LoopStep

LEMMA ShapeStep ==
  ASSUME Shape, [ServiceNext]_vars
  PROVE  Shape'
<1>1. CASE UNCHANGED vars
  BY <1>1 DEF vars, serviceVars, pipeVars, respVars, Shape
<1>2. QED
  BY <1>1, TakeTextShape, TakeAudioShape, TimeoutShape, DrainStepShape, LoopStepShape
  DEF ServiceNext

LEMMA ServiceShape == ServiceSpec => []Shape
<1>1. ServiceAloneInit => Shape
  BY ServiceAssumption, DrainType DEF ServiceAloneInit, ServiceInit, Shape, None
<1>2. QED
  BY <1>1, ShapeStep, PTL DEF ServiceSpec, vars

\* Every variable keeps its type, whatever the pipeline puts into the queues and
\* whenever the client cancels; a response that is open has a turn.
THEOREM ServiceTypes == ServiceSpec => []ServiceTypeOK
<1>1. Shape => ServiceTypeOK
  <2> SUFFICES ASSUME Shape
               PROVE  ServiceTypeOK
    OBVIOUS
  <2>1. /\ drain.pc \in {"text", "audio", "bargein", "cancel", "cancelDone", "cancelClear",
                         "start", "announce", "deliver", "finish", "finishDone", "finishClear"}
        /\ drain.pc \notin {"text", "audio"} => drain.msg.turn \in Turns
    BY DEF Shape, Waiting, Cancelling, Responding, Finishing, Starts, ResponseTexts, Audio, Dones
  <2>2. \A i \in 1..Len(sent) : sent[i].type \in ResponseEvents \cup TurnEvents
    <3>1. \A i \in 1..Len(sent) : sent[i] \in SentEvents
      BY DEF Shape
    <3>2. \A e \in SentEvents : e.type \in ResponseEvents \cup TurnEvents
      BY DEF SentEvents
    <3>3. QED
      BY <3>1, <3>2
  <2>3. text_prompt \in Seq([turn : Nat, src : {"vad", "client"}])
    BY DEF Shape, Requests
  <2>4. QED
    BY <2>1, <2>2, <2>3 DEF Shape, ServiceTypeOK
<1>2. QED
  BY <1>1, ServiceShape, PTL

-----------------------------------------------------------------------------
\* An emission that delivers no audio outside of a response of its turn.
LEMMA EmitAudio ==
  ASSUME Shape, AudioOfItsTurn, NEW type \in ResponseEvents \cup TurnEvents,
         NEW rid \in 0..responses, NEW m, m.turn \in Nat, m.src \in {"vad", "none"},
         Emit(ServerEvent(type, rid, m)),
         type = "audio" => LastOpened(sent, rid, m.turn)
  PROVE  /\ AudioOfItsTurn'
         /\ type # "created" => \A r, t : LastOpened(sent, r, t) => LastOpened(sent', r, t)
         /\ type = "created" => LastOpened(sent', rid, m.turn)
<1> DEFINE e == ServerEvent(type, rid, m)
<1>1. /\ e \in SentEvents /\ e.type = type /\ e.rid = rid /\ e.turn = m.turn
      /\ responses \in Nat
  BY EventType DEF Shape
<1>2. sent \in Seq(SentEvents) /\ sent' = Append(sent, e)
  BY DEF Shape, Emit
<1> HIDE DEF e
<1>3. /\ Len(sent') = Len(sent) + 1 /\ Len(sent) \in Nat
      /\ \A i \in 1..Len(sent) : sent'[i] = sent[i]
      /\ sent'[Len(sent) + 1] = e
  BY <1>1, <1>2, LogAppend
<1>4. ASSUME type # "created", NEW r, NEW t, LastOpened(sent, r, t)
      PROVE  LastOpened(sent', r, t)
  <2>1. PICK k \in 1..Len(sent) : /\ sent[k].type = "created" /\ sent[k].turn = t
                                  /\ r \in {sent[k].rid, None}
                                  /\ \A j \in (k + 1)..Len(sent) : sent[j].type # "created"
    BY <1>4 DEF LastOpened
  <2>2. k \in 1..Len(sent') /\ sent'[k] = sent[k]
    BY <1>3, <2>1
  <2>3. ASSUME NEW j \in (k + 1)..Len(sent')
        PROVE  sent'[j].type # "created"
    <3>1. CASE j \in 1..Len(sent)
      BY <1>3, <2>1, <3>1
    <3>2. CASE j = Len(sent) + 1
      BY <1>1, <1>3, <1>4, <3>2
    <3>3. QED
      BY <1>3, <2>1, <3>1, <3>2
  <2>4. QED
    BY <2>1, <2>2, <2>3 DEF LastOpened
<1>5. ASSUME type = "created"
      PROVE  LastOpened(sent', rid, m.turn)
  <2> DEFINE last == Len(sent) + 1
  <2>1. /\ last \in 1..Len(sent') /\ sent'[last].type = "created" /\ sent'[last].turn = m.turn
        /\ rid \in {sent'[last].rid, None}
        /\ \A j \in (last + 1)..Len(sent') : FALSE
    BY <1>1, <1>3, <1>5
  <2> HIDE DEF last
  <2>2. QED
    BY <2>1 DEF LastOpened
<1>6. ASSUME NEW i \in 1..Len(sent'), sent'[i].type = "audio"
      PROVE  \E k \in 1..(i - 1) : /\ sent'[k].type = "created"
                                   /\ sent'[k].turn = sent'[i].turn
                                   /\ sent'[i].rid \in {sent'[k].rid, None}
                                   /\ \A j \in (k + 1)..(i - 1) : sent'[j].type # "created"
  <2>1. CASE i \in 1..Len(sent)
    <3>1. PICK k \in 1..(i - 1) : /\ sent[k].type = "created"
                                  /\ sent[k].turn = sent[i].turn
                                  /\ sent[i].rid \in {sent[k].rid, None}
                                  /\ \A j \in (k + 1)..(i - 1) : sent[j].type # "created"
      BY <1>3, <1>6, <2>1 DEF AudioOfItsTurn
    <3>2. k \in 1..Len(sent) /\ \A j \in (k + 1)..(i - 1) : j \in 1..Len(sent)
      BY <1>3, <2>1, <3>1
    <3>3. QED
      BY <1>3, <2>1, <3>1, <3>2
  <2>2. CASE i = Len(sent) + 1
    <3>1. LastOpened(sent, rid, m.turn) /\ i - 1 = Len(sent)
      BY <1>1, <1>3, <1>6, <2>2
    <3>2. PICK k \in 1..Len(sent) : /\ sent[k].type = "created" /\ sent[k].turn = m.turn
                                    /\ rid \in {sent[k].rid, None}
                                    /\ \A j \in (k + 1)..Len(sent) : sent[j].type # "created"
      BY <3>1 DEF LastOpened
    <3>3. \A j \in (k + 1)..Len(sent) : j \in 1..Len(sent)
      BY <1>3, <3>2
    <3>4. QED
      BY <1>1, <1>3, <2>2, <3>1, <3>2, <3>3
  <2>3. QED
    BY <1>3, <2>1, <2>2
<1>7. AudioOfItsTurn'
  BY <1>6 DEF AudioOfItsTurn
<1>8. QED
  BY <1>4, <1>5, <1>7

\* What was opened last is known also without the id, which a cancel clears.
LEMMA LastWithoutId ==
  ASSUME NEW s, NEW r, NEW t, LastOpened(s, r, t)
  PROVE  LastOpened(s, None, t)
BY DEF LastOpened

\* Steps that leave the response and the log alone.
LEMMA QuietAudio ==
  ASSUME Shape, AudioIInv, UNCHANGED <<response_id, current_response_turn, sent>>,
         drain.pc # "announce", drain'.pc # "announce",
         drain'.pc = "deliver" /\ drain'.msg \in Audio => current_response_turn = drain'.msg.turn
  PROVE  AudioIInv'
<1>1. AudioOfItsTurn'
  BY DEF AudioIInv, AudioOfItsTurn
<1>2. OpenForTurn'
  BY DEF AudioIInv, OpenForTurn, LastOpened
<1>3. QED
  BY <1>1, <1>2 DEF AudioIInv

\* Steps that send an event of another kind.
LEMMA EmitQuietAudio ==
  ASSUME Shape, AudioIInv, NEW type \in ResponseEvents \cup TurnEvents,
         NEW rid \in 0..responses, NEW m, m.turn \in Nat, m.src \in {"vad", "none"},
         Emit(ServerEvent(type, rid, m)), type \notin {"audio", "created"},
         UNCHANGED <<response_id, current_response_turn>>,
         drain' = drain \/ (drain.pc # "announce" /\ drain'.pc \notin {"announce", "deliver"})
  PROVE  AudioIInv'
<1>1. AudioOfItsTurn' /\ \A r, t : LastOpened(sent, r, t) => LastOpened(sent', r, t)
  BY EmitAudio DEF AudioIInv
<1>2. OpenForTurn'
  <2>1. current_response_turn' # None /\ drain'.pc # "announce"
           => LastOpened(sent', response_id', current_response_turn')
    BY <1>1 DEF AudioIInv, OpenForTurn
  <2>2. drain'.pc = "announce" \/ (drain'.pc = "deliver" /\ drain'.msg \in Audio)
          => current_response_turn' = drain'.msg.turn
    BY DEF AudioIInv, OpenForTurn
  <2>3. QED
    BY <2>1, <2>2 DEF OpenForTurn
<1>3. QED
  BY <1>1, <1>2 DEF AudioIInv

\* What the drain thread does once it is set going on a message.
LEMMA PcOf ==
  /\ \A pc : At(pc).pc = pc
  /\ \A pc, m : With(pc, m).pc = pc /\ With(pc, m).msg = m
BY DEF At, With

LEMMA AudioStep ==
  ASSUME Shape, AudioIInv, [ServiceNext]_vars
  PROVE  AudioIInv'
<1> USE PcOf
<1>1. response_id \in 0..responses /\ 0 \in 0..responses /\ None = 0
  BY DEF Shape, None
<1>2. CASE UNCHANGED vars
  BY <1>2 DEF vars, serviceVars, respVars, AudioIInv, OpenForTurn, AudioOfItsTurn
<1>3. ASSUME NEW m \in TextMessages, TakeText(m)
      PROVE  AudioIInv'
  <2>1. m.turn \in Nat /\ m.src = "vad" /\ (m.type \in {"text", "call"} => m \in ResponseTexts)
    BY MessageType, ServiceAssumption
  <2>2. CASE TakeSpeechStarted(m)
    <3>1. /\ Emit(ServerEvent("speech_started", None, m)) /\ drain.pc = "text"
          /\ drain'.pc = "bargein" /\ UNCHANGED <<response_id, current_response_turn>>
      BY <2>2 DEF TakeSpeechStarted, respVars
    <3>2. QED
      BY <1>1, <2>1, <3>1, EmitQuietAudio DEF TurnEvents
  <2>3. CASE TakeSpeechStopped(m)
    <3>1. /\ Emit(ServerEvent("speech_stopped", None, m)) /\ drain.pc = "text"
          /\ drain'.pc = "audio" /\ UNCHANGED <<response_id, current_response_turn>>
      BY <2>3 DEF TakeSpeechStopped, respVars
    <3>2. QED
      BY <1>1, <2>1, <3>1, EmitQuietAudio DEF TurnEvents
  <2>4. CASE TakeTranscript(m)
    <3>1. /\ Emit(ServerEvent(m.type, None, m)) \/ UNCHANGED sent
          /\ drain.pc = "text" /\ drain'.pc = "audio" /\ m.type \in TurnEvents
          /\ m.type \notin {"audio", "created"}
          /\ UNCHANGED <<response_id, current_response_turn>>
      BY <2>4 DEF TakeTranscript, respVars, TurnEvents
    <3>2. QED
      BY <1>1, <2>1, <3>1, EmitQuietAudio, QuietAudio
  <2>5. CASE TakeAssistantText(m) \/ TakeFunctionCall(m)
    <3>1. /\ drain.pc = "text" /\ drain'.pc \in {"start", "deliver"} /\ drain'.msg = m
          /\ UNCHANGED <<response_id, current_response_turn, sent>>
      BY <2>5 DEF TakeAssistantText, TakeFunctionCall, StartOrDeliver, respVars
    <3>2. m \notin Audio
      BY <2>1, <2>5, AudioOrText DEF TakeAssistantText, TakeFunctionCall
    <3>3. QED
      BY <3>1, <3>2, QuietAudio
  <2>6. CASE TakeUsage(m)
    BY <2>6, QuietAudio DEF TakeUsage, respVars
  <2>7. QED
    BY <1>3, <2>2, <2>3, <2>4, <2>5, <2>6 DEF TakeText
<1>4. ASSUME NEW m \in AudioMessages, TakeAudio(m) \/ TakeDone(m)
      PROVE  AudioIInv'
  <2>1. CASE TakeAudio(m)
    <3>1. /\ drain.pc = "audio" /\ UNCHANGED <<response_id, current_response_turn, sent>>
          /\ \/ drain'.pc = "text"
             \/ AudioFits(m) /\ drain' = With(IF response_id = None THEN "start" ELSE "deliver", m)
      BY <2>1 DEF TakeAudio, StartOrDeliver, respVars
    <3>2. AudioFits(m) /\ response_id # None => current_response_turn = m.turn
      BY DEF AudioFits, Shape
    <3>3. QED
      BY <3>1, <3>2, QuietAudio
  <2>2. CASE TakeDone(m)
    BY <2>2, QuietAudio DEF TakeDone, respVars
  <2>3. QED
    BY <1>4, <2>1, <2>2
<1>5. CASE TimeoutText \/ TimeoutAudio
  BY <1>5, QuietAudio DEF TimeoutText, TimeoutAudio, respVars
<1>6. CASE DrainStep
  <2>1. CASE BargeIn \/ DrainCancels \/ Finish
    BY <2>1, QuietAudio DEF BargeIn, DrainCancels, Finish, respVars
  <2>2. CASE DrainCancelDone \/ FinishDone
    <3>1. drain.msg.turn \in Nat /\ drain.msg.src = "vad"
      BY <2>2, DrainMessage, MessageTurn DEF DrainCancelDone, FinishDone
    <3>2. \E type \in {"cancelled", "done"} :
            /\ Emit(ServerEvent(type, response_id, drain.msg))
            /\ drain.pc # "announce" /\ drain'.pc \in {"cancelClear", "finishClear"}
            /\ UNCHANGED <<response_id, current_response_turn>>
      BY <2>2 DEF DrainCancelDone, FinishDone, respVars
    <3>3. QED
      BY <1>1, <3>1, <3>2, EmitQuietAudio DEF ResponseEvents
  <2>3. CASE DrainCancelClear \/ FinishClear
    <3>1. /\ response_id' = None /\ drain'.pc \in {"text", "audio"} /\ sent' = sent
          /\ current_response_turn' \in {current_response_turn, None} /\ drain.pc # "announce"
      BY <2>3 DEF DrainCancelClear, FinishClear
    <3>2. current_response_turn' # None => LastOpened(sent, None, current_response_turn')
      BY <3>1, LastWithoutId DEF AudioIInv, OpenForTurn
    <3>3. QED
      BY <3>1, <3>2 DEF AudioIInv, OpenForTurn, AudioOfItsTurn
  <2>4. CASE StartResponse
    <3>1. drain'.pc = "announce" /\ current_response_turn' = drain'.msg.turn /\ sent' = sent
      BY <2>4 DEF StartResponse, ResponseTurn
    <3>2. QED
      BY <3>1 DEF AudioIInv, OpenForTurn, AudioOfItsTurn
  <2>5. CASE AnnounceResponse
    <3>1. drain.msg.turn \in Nat /\ drain.msg.src = "vad"
      BY <2>5, DrainMessage, MessageTurn DEF AnnounceResponse
    <3>2. /\ Emit(ServerEvent("created", response_id, drain.msg))
          /\ drain.pc = "announce" /\ drain' = With("deliver", drain.msg)
          /\ UNCHANGED <<response_id, current_response_turn>>
      BY <2>5 DEF AnnounceResponse, respVars
    <3>3. AudioOfItsTurn' /\ LastOpened(sent', response_id, drain.msg.turn)
      BY <1>1, <3>1, <3>2, EmitAudio DEF AudioIInv, ResponseEvents
    <3>4. current_response_turn = drain.msg.turn
      BY <3>2 DEF AudioIInv, OpenForTurn
    <3>5. QED
      BY <3>2, <3>3, <3>4 DEF AudioIInv, OpenForTurn
  <2>6. CASE Deliver
    <3> DEFINE type == IF "kind" \in DOMAIN drain.msg THEN "audio" ELSE drain.msg.type
    <3>1. drain.msg \in ResponseTexts \cup Audio /\ drain.msg.turn \in Nat /\ drain.msg.src = "vad"
      BY <2>6, DrainMessage, MessageTurn DEF Deliver
    <3>2. /\ type \in ResponseEvents /\ type # "created"
          /\ type = "audio" => drain.msg \in Audio
      BY <3>1, AudioOrText DEF ResponseEvents
    <3>3. /\ Emit(ServerEvent(type, response_id, drain.msg)) /\ drain.pc = "deliver"
          /\ drain'.pc \in {"text", "audio"} /\ UNCHANGED <<response_id, current_response_turn>>
      BY <2>6 DEF Deliver, respVars
    <3> HIDE DEF type
    <3>4. type = "audio" => LastOpened(sent, response_id, drain.msg.turn)
      BY <3>1, <3>2, <3>3, MessageTurn DEF AudioIInv, OpenForTurn, None
    <3>5. AudioOfItsTurn' /\ \A r, t : LastOpened(sent, r, t) => LastOpened(sent', r, t)
      BY <1>1, <3>1, <3>2, <3>3, <3>4, EmitAudio DEF AudioIInv
    <3>6. QED
      BY <3>3, <3>5 DEF AudioIInv, OpenForTurn
  <2>7. QED
    BY <1>6, <2>1, <2>2, <2>3, <2>4, <2>5, <2>6 DEF DrainStep
<1>7. CASE LoopStep
  <2>1. CASE ClientCancels \/ ClientItem
    BY <2>1 DEF ClientCancels, ClientItem, respVars, AudioIInv, OpenForTurn, AudioOfItsTurn
  <2>2. CASE ClientCancelDone
    <3>1. NoMessage.turn \in Nat /\ NoMessage.src \in {"vad", "none"}
      BY DEF NoMessage
    <3>2. Emit(ServerEvent("cancelled", response_id, NoMessage)) /\ drain' = drain
          /\ UNCHANGED <<response_id, current_response_turn>>
      BY <2>2 DEF ClientCancelDone, respVars
    <3>3. QED
      BY <1>1, <3>1, <3>2, EmitQuietAudio DEF ResponseEvents
  <2>3. CASE ClientCancelClear
    <3>1. response_id' = None /\ UNCHANGED <<current_response_turn, drain, sent>>
      BY <2>3 DEF ClientCancelClear
    <3>2. current_response_turn # None /\ drain.pc # "announce"
             => LastOpened(sent, None, current_response_turn)
      BY LastWithoutId DEF AudioIInv, OpenForTurn
    <3>3. QED
      BY <3>1, <3>2 DEF AudioIInv, OpenForTurn, AudioOfItsTurn
  <2>4. QED
    BY <1>7, <2>1, <2>2, <2>3 DEF LoopStep
<1>8. QED
  BY <1>2, <1>3, <1>4, <1>5, <1>6, <1>7 DEF ServiceNext

\* Whatever is in the two queues and at whatever moment the client cancels, audio is
\* only delivered in the response opened last, which was opened for its turn; a
\* cancel between the test and the delivery takes its id, never its turn.
THEOREM ServiceAudioOfItsTurn == ServiceSpec => []AudioOfItsTurn
<1>1. ServiceAloneInit => AudioIInv
  BY PcOf DEF ServiceAloneInit, ServiceInit, AudioIInv, OpenForTurn, AudioOfItsTurn
<1>2. AudioIInv => AudioOfItsTurn
  BY DEF AudioIInv
<1>3. QED
  BY <1>1, <1>2, AudioStep, ServiceShape, PTL DEF ServiceSpec, vars

-----------------------------------------------------------------------------
\* Whether the drain thread is about to deliver without a response, and whether
\* the client's last cancel is not over yet.
Holding == IF response_id = None /\ drain.pc \in {"announce", "deliver"} THEN 1 ELSE 0
Cancels == IF loop = "idle" THEN 0 ELSE 1

\* Each cancel of the client pays for one delta without a response: while the
\* event loop is busy with it, then, if it found the drain thread between its test
\* and the delivery, while the drain thread holds the delta, and then in the log.
OrphanIInv == Cardinality(Orphans(sent)) + Holding + Cancels <= cancels

Delta == {"text", "audio", "call"}

LEMMA OrphansAppend ==
  ASSUME NEW s \in Seq(SentEvents), NEW e \in SentEvents
  PROVE  /\ Cardinality(Orphans(s)) \in Nat
         /\ e.type \in Delta /\ e.rid = None =>
              Cardinality(Orphans(Append(s, e))) = Cardinality(Orphans(s)) + 1
         /\ ~(e.type \in Delta /\ e.rid = None) =>
              Cardinality(Orphans(Append(s, e))) = Cardinality(Orphans(s))
<1> DEFINE last == Len(s) + 1
<1>1. /\ Len(s) \in Nat /\ Len(Append(s, e)) = last /\ Append(s, e)[last] = e
      /\ \A i \in 1..Len(s) : Append(s, e)[i] = s[i]
  BY LogAppend
<1>2. Orphans(s) \subseteq 1..Len(s) /\ last \notin Orphans(s)
  BY <1>1 DEF Orphans
<1>3. IsFiniteSet(Orphans(s))
  <2>1. IsFiniteSet(1..Len(s))
    BY <1>1, FS_Interval
  <2>2. QED
    BY <1>2, <2>1, FS_Subset
<1>4. /\ IsFiniteSet(Orphans(s) \cup {last})
      /\ Cardinality(Orphans(s) \cup {last}) = Cardinality(Orphans(s)) + 1
  BY <1>2, <1>3, FS_AddElement
<1>5. e.type \in Delta /\ e.rid = None => Orphans(Append(s, e)) = Orphans(s) \cup {last}
  BY <1>1 DEF Orphans, Delta, None
<1>6. ~(e.type \in Delta /\ e.rid = None) => Orphans(Append(s, e)) = Orphans(s)
  BY <1>1 DEF Orphans, Delta, None
<1>7. Cardinality(Orphans(s)) \in Nat
  BY <1>3, FS_CardinalityType
<1> HIDE DEF last
<1>8. QED
  BY <1>4, <1>5, <1>6, <1>7

LEMMA EmitOrphans ==
  ASSUME Shape, NEW type \in ResponseEvents \cup TurnEvents, NEW rid \in 0..responses,
         NEW m, m.turn \in Nat, m.src \in {"vad", "none"},
         Emit(ServerEvent(type, rid, m))
  PROVE  /\ Cardinality(Orphans(sent)) \in Nat
         /\ type \in Delta /\ rid = None =>
              Cardinality(Orphans(sent')) = Cardinality(Orphans(sent)) + 1
         /\ ~(type \in Delta /\ rid = None) =>
              Cardinality(Orphans(sent')) = Cardinality(Orphans(sent))
<1> DEFINE e == ServerEvent(type, rid, m)
<1>1. e \in SentEvents /\ e.type = type /\ e.rid = rid
  <2>1. rid \in Nat
    BY DEF Shape
  <2>2. QED
    BY <2>1, EventType
<1>2. sent \in Seq(SentEvents) /\ sent' = Append(sent, e)
  BY DEF Shape, Emit
<1> HIDE DEF e
<1>3. QED
  BY <1>1, <1>2, OrphansAppend

\* What the invariant counts is a number.
LEMMA OrphansCount ==
  ASSUME Shape
  PROVE  Cardinality(Orphans(sent)) \in Nat /\ cancels \in Nat
         /\ Holding \in {0, 1} /\ Cancels \in {0, 1}
<1>1. sent \in Seq(SentEvents) /\ cancels \in Nat
  BY ServiceAssumption DEF Shape
<1>2. Len(sent) \in Nat /\ Orphans(sent) \subseteq 1..Len(sent)
  BY <1>1 DEF Orphans
<1>3. IsFiniteSet(1..Len(sent))
  BY <1>2, FS_Interval
<1>4. Cardinality(Orphans(sent)) \in Nat
  BY <1>2, <1>3, FS_Subset, FS_CardinalityType
<1>5. QED
  BY <1>1, <1>4 DEF Holding, Cancels

\* Steps that leave the response and the log alone, and those that send an event
\* of another kind.
LEMMA QuietOrphans ==
  ASSUME Shape, OrphanIInv, UNCHANGED <<response_id, cancels, loop>>,
         Cardinality(Orphans(sent')) = Cardinality(Orphans(sent)),
         \/ drain'.pc \in {"announce", "deliver"} => response_id # None
         \/ drain.pc \in {"announce", "deliver"}
  PROVE  OrphanIInv'
<1>1. Holding' <= Holding /\ Cancels' = Cancels
  BY DEF Holding, Cancels
<1>2. Holding' \in {0, 1}
  BY DEF Holding
<1>3. QED
  BY <1>1, <1>2, OrphansCount DEF OrphanIInv

LEMMA EmitQuietOrphans ==
  ASSUME Shape, OrphanIInv, NEW type \in ResponseEvents \cup TurnEvents,
         NEW rid \in 0..responses, NEW m, m.turn \in Nat, m.src \in {"vad", "none"},
         Emit(ServerEvent(type, rid, m)), type \notin Delta,
         UNCHANGED <<response_id, cancels, loop>>,
         \/ drain'.pc \in {"announce", "deliver"} => response_id # None
         \/ drain.pc \in {"announce", "deliver"}
  PROVE  OrphanIInv'
<1>1. Cardinality(Orphans(sent')) = Cardinality(Orphans(sent))
  BY EmitOrphans
<1>2. QED
  BY <1>1, QuietOrphans

LEMMA OrphanStep ==
  ASSUME Shape, OrphanIInv, [ServiceNext]_vars
  PROVE  OrphanIInv'
<1> USE PcOf
<1>1. response_id \in 0..responses /\ 0 \in 0..responses /\ None = 0
  BY DEF Shape, None
<1>2. CASE UNCHANGED vars
  BY <1>2 DEF vars, serviceVars, respVars, OrphanIInv, Holding, Cancels
<1>3. ASSUME NEW m \in TextMessages, TakeText(m)
      PROVE  OrphanIInv'
  <2>1. m.turn \in Nat /\ m.src = "vad"
    BY MessageType, ServiceAssumption
  <2>2. CASE TakeSpeechStarted(m) \/ TakeSpeechStopped(m)
    <3>1. /\ \E type \in {"speech_started", "speech_stopped"} : Emit(ServerEvent(type, None, m))
          /\ drain'.pc \in {"audio", "bargein"} /\ UNCHANGED <<response_id, cancels, loop>>
      BY <2>2 DEF TakeSpeechStarted, TakeSpeechStopped, respVars
    <3>2. QED
      BY <1>1, <2>1, <3>1, EmitQuietOrphans DEF TurnEvents, Delta
  <2>3. CASE TakeTranscript(m)
    <3>1. /\ Emit(ServerEvent(m.type, None, m)) \/ UNCHANGED sent
          /\ m.type \in TurnEvents /\ m.type \notin Delta
          /\ drain'.pc = "audio" /\ UNCHANGED <<response_id, cancels, loop>>
      BY <2>3 DEF TakeTranscript, respVars, TurnEvents, Delta
    <3>2. QED
      BY <1>1, <2>1, <3>1, EmitQuietOrphans, QuietOrphans
  <2>4. CASE TakeAssistantText(m) \/ TakeFunctionCall(m) \/ TakeUsage(m)
    <3>1. /\ drain'.pc = "deliver" => response_id # None
          /\ drain'.pc # "announce" /\ UNCHANGED <<response_id, cancels, loop, sent>>
      BY <2>4 DEF TakeAssistantText, TakeFunctionCall, TakeUsage, StartOrDeliver, respVars
    <3>2. QED
      BY <3>1, QuietOrphans
  <2>5. QED
    BY <1>3, <2>2, <2>3, <2>4 DEF TakeText
<1>4. ASSUME NEW m \in AudioMessages, TakeAudio(m) \/ TakeDone(m)
      PROVE  OrphanIInv'
  <2>1. /\ drain'.pc = "deliver" => response_id # None
        /\ drain'.pc # "announce" /\ UNCHANGED <<response_id, cancels, loop, sent>>
    BY <1>4 DEF TakeAudio, TakeDone, StartOrDeliver, respVars
  <2>2. QED
    BY <2>1, QuietOrphans
<1>5. CASE TimeoutText \/ TimeoutAudio
  BY <1>5, QuietOrphans DEF TimeoutText, TimeoutAudio, respVars
<1>6. CASE DrainStep
  <2>1. CASE BargeIn \/ DrainCancels \/ Finish
    BY <2>1, QuietOrphans DEF BargeIn, DrainCancels, Finish, respVars
  <2>2. CASE DrainCancelDone \/ FinishDone
    <3>1. drain.msg.turn \in Nat /\ drain.msg.src = "vad"
      BY <2>2, DrainMessage, MessageTurn DEF DrainCancelDone, FinishDone
    <3>2. \E type \in {"cancelled", "done"} :
            /\ Emit(ServerEvent(type, response_id, drain.msg))
            /\ drain'.pc \in {"cancelClear", "finishClear"}
            /\ UNCHANGED <<response_id, cancels, loop>>
      BY <2>2 DEF DrainCancelDone, FinishDone, respVars
    <3>3. QED
      BY <1>1, <3>1, <3>2, EmitQuietOrphans DEF ResponseEvents, Delta
  <2>3. CASE DrainCancelClear \/ FinishClear
    <3>1. drain'.pc \in {"text", "audio"} /\ UNCHANGED <<cancels, loop, sent>>
      BY <2>3 DEF DrainCancelClear, FinishClear
    <3>2. Holding' = 0 /\ Cancels' = Cancels
      BY <3>1 DEF Holding, Cancels
    <3>3. QED
      BY <3>1, <3>2, OrphansCount DEF OrphanIInv
  <2>4. CASE StartResponse
    <3>1. response_id' # None /\ UNCHANGED <<cancels, loop, sent>>
      BY <1>1, <2>4 DEF StartResponse, Shape
    <3>2. Holding' = 0 /\ Cancels' = Cancels
      BY <3>1 DEF Holding, Cancels
    <3>3. QED
      BY <3>1, <3>2, OrphansCount DEF OrphanIInv
  <2>5. CASE AnnounceResponse
    <3>1. drain.msg.turn \in Nat /\ drain.msg.src = "vad"
      BY <2>5, DrainMessage, MessageTurn DEF AnnounceResponse
    <3>2. /\ Emit(ServerEvent("created", response_id, drain.msg)) /\ drain.pc = "announce"
          /\ UNCHANGED <<response_id, cancels, loop>>
      BY <2>5 DEF AnnounceResponse, respVars
    <3>3. QED
      BY <1>1, <3>1, <3>2, EmitQuietOrphans DEF ResponseEvents, Delta
  <2>6. CASE Deliver
    <3> DEFINE type == IF "kind" \in DOMAIN drain.msg THEN "audio" ELSE drain.msg.type
    <3>1. drain.msg \in ResponseTexts \cup Audio /\ drain.msg.turn \in Nat /\ drain.msg.src = "vad"
      BY <2>6, DrainMessage, MessageTurn DEF Deliver
    <3>2. type \in ResponseEvents /\ type \in Delta
      BY <3>1, AudioOrText DEF ResponseEvents, Delta
    <3>3. /\ Emit(ServerEvent(type, response_id, drain.msg)) /\ drain.pc = "deliver"
          /\ drain'.pc \in {"text", "audio"} /\ UNCHANGED <<response_id, cancels, loop>>
      BY <2>6 DEF Deliver, respVars
    <3> HIDE DEF type
    <3>4. /\ response_id = None =>
               Cardinality(Orphans(sent')) = Cardinality(Orphans(sent)) + 1
          /\ response_id # None => Cardinality(Orphans(sent')) = Cardinality(Orphans(sent))
      BY <1>1, <3>1, <3>2, <3>3, EmitOrphans
    <3>5. /\ Holding = IF response_id = None THEN 1 ELSE 0
          /\ Holding' = 0 /\ Cancels' = Cancels
      BY <3>3 DEF Holding, Cancels
    <3>6. QED
      BY <3>3, <3>4, <3>5, OrphansCount DEF OrphanIInv
  <2>7. QED
    BY <1>6, <2>1, <2>2, <2>3, <2>4, <2>5, <2>6 DEF DrainStep
<1>7. CASE LoopStep
  <2>1. CASE ClientCancels
    <3>1. /\ loop = "idle" /\ loop' # "idle" /\ cancels' = cancels + 1
          /\ UNCHANGED <<response_id, drain, sent>>
      BY <2>1 DEF ClientCancels, respVars
    <3>2. Holding' = Holding /\ Cancels = 0 /\ Cancels' = 1
      BY <3>1 DEF Holding, Cancels
    <3>3. QED
      BY <3>1, <3>2, OrphansCount DEF OrphanIInv
  <2>2. CASE ClientCancelDone
    <3>1. NoMessage.turn \in Nat /\ NoMessage.src \in {"vad", "none"}
      BY DEF NoMessage
    <3>2. /\ Emit(ServerEvent("cancelled", response_id, NoMessage))
          /\ loop # "idle" /\ loop' # "idle" /\ UNCHANGED <<response_id, cancels, drain>>
      BY <2>2 DEF ClientCancelDone, respVars
    <3>3. Cardinality(Orphans(sent')) = Cardinality(Orphans(sent))
      BY <1>1, <3>1, <3>2, EmitOrphans DEF ResponseEvents, Delta
    <3>4. Holding' = Holding /\ Cancels' = Cancels
      BY <3>2 DEF Holding, Cancels
    <3>5. QED
      BY <3>2, <3>3, <3>4 DEF OrphanIInv
  <2>3. CASE ClientCancelClear
    <3>1. loop # "idle" /\ loop' = "idle" /\ UNCHANGED <<cancels, drain, sent>>
      BY <2>3 DEF ClientCancelClear
    <3>2. Holding' \in {0, 1} /\ Cancels = 1 /\ Cancels' = 0
      BY <3>1 DEF Holding, Cancels
    <3>3. QED
      BY <3>1, <3>2, OrphansCount DEF OrphanIInv
  <2>4. CASE ClientItem
    BY <2>4, QuietOrphans DEF ClientItem, respVars, OrphanIInv, Holding, Cancels
  <2>5. QED
    BY <1>7, <2>1, <2>2, <2>3, <2>4 DEF LoopStep
<1>8. QED
  BY <1>2, <1>3, <1>4, <1>5, <1>6, <1>7 DEF ServiceNext

\* However often the client cancels, and whatever is in the two queues, at most one
\* delta for each cancel is delivered without a response.
THEOREM ServiceOneDeltaPerCancel == ServiceSpec => []OneDeltaPerCancel
<1>1. ServiceAloneInit => OrphanIInv
  <2> SUFFICES ASSUME ServiceAloneInit
               PROVE  OrphanIInv
    OBVIOUS
  <2>1. Orphans(sent) = {} /\ cancels = 0 /\ Holding = 0 /\ Cancels = 0
    BY PcOf DEF ServiceAloneInit, ServiceInit, Orphans, Holding, Cancels
  <2>2. QED
    BY <2>1, FS_EmptySet DEF OrphanIInv
<1>2. Shape /\ OrphanIInv => OneDeltaPerCancel
  BY OrphansCount DEF OrphanIInv, OneDeltaPerCancel
<1>3. QED
  BY <1>1, <1>2, OrphanStep, ServiceShape, PTL DEF ServiceSpec, vars

-----------------------------------------------------------------------------
\* What an emission means to the protocol.
LEMMA EmitProtocol ==
  ASSUME Shape, NEW type \in ResponseEvents \cup TurnEvents, NEW rid \in 0..responses,
         NEW m, m.turn \in Nat, m.src = "vad", Emit(ServerEvent(type, rid, m))
  PROVE  /\ \A r : Protocol!Created(sent', r) <=>
                      Protocol!Created(sent, r) \/ (type = "created" /\ rid = r)
         /\ \A r : Protocol!Closed(sent', r) <=>
                      Protocol!Closed(sent, r) \/ (type \in {"done", "cancelled"} /\ rid = r)
         /\ \/ type \in TurnEvents
            \/ type = "created" /\ ~Protocol!Created(sent, rid)
                 /\ \A r \in Nat : ~Protocol!IsOpen(sent, r)
            \/ type \in ResponseEvents \ {"created"} /\ Protocol!IsOpen(sent, rid)
            => Protocol!RPStep
<1> DEFINE e == ServerEvent(type, rid, m)
<1>1. e \in SentEvents /\ e.type = type /\ e.rid = rid
  BY EventType DEF Shape
<1>2. sent \in Seq(SentEvents) /\ sent' = Append(sent, e)
  BY DEF Shape, Emit
<1> HIDE DEF e
<1>3. \A i \in 1..Len(sent) : sent[i].rid \in Nat
  <2>1. \A i \in 1..Len(sent) : sent[i] \in SentEvents
    BY <1>2
  <2>2. QED
    BY <2>1 DEF SentEvents
<1>4. ASSUME \/ type \in TurnEvents
             \/ type = "created" /\ ~Protocol!Created(sent, rid)
                  /\ \A r \in Nat : ~Protocol!IsOpen(sent, r)
             \/ type \in ResponseEvents \ {"created"} /\ Protocol!IsOpen(sent, rid)
      PROVE  Protocol!RPStep
  <2>1. type \in TurnEvents => type \notin ResponseEvents /\ type # "created"
    BY DEF TurnEvents, ResponseEvents
  <2>2. Protocol!Legal(sent, e)
    BY <1>1, <1>3, <1>4, <2>1 DEF Protocol!Legal
  <2>3. sent' # <<>> /\ sent'[Len(sent')] = e
    BY <1>1, <1>2
  <2>4. QED
    BY <1>2, <2>2, <2>3 DEF Protocol!RPStep, Protocol!RPNext
<1>5. QED
  BY <1>1, <1>2, <1>4, CreatedAppend, ClosedAppend

\* Only the client's cancel, or the loop while it is busy with it, disturbs the
\* drain thread.
LEMMA NoCancel ==
  ASSUME Shape, ProtocolIInv, [ServiceNext]_vars, cancels' = 0
  PROVE  /\ cancels = 0 /\ OneOpen /\ loop' = "idle"
         /\ ~ClientCancels /\ ~ClientCancelDone /\ ~ClientCancelClear
<1>1. cancels' = cancels \/ cancels' = cancels + 1
  BY DEF ServiceNext, TakeText, TakeSpeechStarted, TakeSpeechStopped, TakeTranscript,
         TakeAssistantText, TakeFunctionCall, TakeUsage, TakeAudio, TakeDone, TimeoutText,
         TimeoutAudio, DrainStep, BargeIn, DrainCancels, DrainCancelDone, DrainCancelClear,
         StartResponse, AnnounceResponse, Deliver, Finish, FinishDone, FinishClear, LoopStep,
         ClientCancels, ClientCancelDone, ClientCancelClear, ClientItem, vars, serviceVars
<1>2. cancels = 0 /\ OneOpen
  BY <1>1 DEF ProtocolIInv, Shape
<1>3. ~ClientCancels /\ ~ClientCancelDone /\ ~ClientCancelClear
  BY <1>2 DEF OneOpen, ClientCancels, ClientCancelDone, ClientCancelClear
<1>4. loop' = loop
  BY <1>3
  DEF ServiceNext, TakeText, TakeSpeechStarted, TakeSpeechStopped, TakeTranscript,
      TakeAssistantText, TakeFunctionCall, TakeUsage, TakeAudio, TakeDone, TimeoutText,
      TimeoutAudio, DrainStep, BargeIn, DrainCancels, DrainCancelDone, DrainCancelClear,
      StartResponse, AnnounceResponse, Deliver, Finish, FinishDone, FinishClear, LoopStep,
      ClientItem, vars, serviceVars
<1>5. QED
  BY <1>2, <1>3, <1>4 DEF OneOpen

\* Steps on neither the response nor the log.
LEMMA QuietProtocol ==
  ASSUME Shape, OneOpen, UNCHANGED <<response_id, responses, sent>>, loop' = "idle",
         drain.pc \notin {"announce", "cancelClear", "finishClear"},
         drain'.pc \notin {"announce", "cancelClear", "finishClear"},
         drain'.pc = "start" => response_id = None,
         drain'.pc \in {"deliver", "finishDone", "cancel", "cancelDone"} => response_id # None
  PROVE  OneOpen' /\ Protocol!RPStep
BY DEF OneOpen, Protocol!RPStep, Protocol!Created, Protocol!Closed, Protocol!IsOpen

\* An event that is about no response, or about the one that is open, and closes it not.
LEMMA EmitQuietProtocol ==
  ASSUME Shape, OneOpen, NEW type \in ResponseEvents \cup TurnEvents, NEW rid \in 0..responses,
         NEW m, m.turn \in Nat, m.src = "vad", Emit(ServerEvent(type, rid, m)),
         type \in TurnEvents \/ (rid = response_id /\ Protocol!IsOpen(sent, rid)),
         type \notin {"created", "done", "cancelled"},
         UNCHANGED <<response_id, responses>>, loop' = "idle",
         drain.pc \notin {"announce", "cancelClear", "finishClear"},
         drain'.pc \in {"text", "audio", "bargein"}
  PROVE  OneOpen' /\ Protocol!RPStep
<1>1. /\ \A r : Protocol!Created(sent', r) <=> Protocol!Created(sent, r)
      /\ \A r : Protocol!Closed(sent', r) <=> Protocol!Closed(sent, r)
      /\ Protocol!RPStep
  BY EmitProtocol
<1>2. \A r : Protocol!IsOpen(sent', r) <=> Protocol!IsOpen(sent, r)
  BY <1>1 DEF Protocol!IsOpen
<1>3. QED
  BY <1>1, <1>2 DEF OneOpen

\* Every step that is not the client's keeps OneOpen and is one of the protocol.
LEMMA ProtocolStep ==
  ASSUME Shape, ProtocolIInv, [ServiceNext]_vars, cancels' = 0
  PROVE  OneOpen' /\ Protocol!RPStep
<1> USE PcOf
<1>1. /\ response_id \in 0..responses /\ 0 \in 0..responses /\ None = 0 /\ responses \in Nat
      /\ OneOpen /\ loop' = "idle"
  BY NoCancel DEF Shape, None
<1>2. CASE UNCHANGED vars
  BY <1>1, <1>2 DEF vars, serviceVars, respVars, OneOpen, Protocol!RPStep, Protocol!Created,
                    Protocol!Closed, Protocol!IsOpen
<1>3. ASSUME NEW m \in TextMessages, TakeText(m)
      PROVE  OneOpen' /\ Protocol!RPStep
  <2>1. m.turn \in Nat /\ m.src = "vad"
    BY MessageType, ServiceAssumption
  <2>2. CASE TakeSpeechStarted(m) \/ TakeSpeechStopped(m)
    <3>1. /\ \E type \in {"speech_started", "speech_stopped"} : Emit(ServerEvent(type, None, m))
          /\ drain.pc = "text" /\ drain'.pc \in {"audio", "bargein"}
          /\ UNCHANGED <<response_id, responses>>
      BY <2>2 DEF TakeSpeechStarted, TakeSpeechStopped, respVars
    <3>2. QED
      BY <1>1, <2>1, <3>1, EmitQuietProtocol DEF TurnEvents
  <2>3. CASE TakeTranscript(m)
    <3>1. /\ Emit(ServerEvent(m.type, None, m)) \/ UNCHANGED sent
          /\ m.type \in {"transcript", "partial"} /\ drain.pc = "text" /\ drain'.pc = "audio"
          /\ UNCHANGED <<response_id, responses>>
      BY <2>3 DEF TakeTranscript, respVars
    <3>2. m.type \in TurnEvents /\ m.type \notin {"created", "done", "cancelled"}
      BY <3>1 DEF TurnEvents
    <3>3. QED
      BY <1>1, <2>1, <3>1, <3>2, EmitQuietProtocol, QuietProtocol
  <2>4. CASE TakeAssistantText(m) \/ TakeFunctionCall(m)
    <3>1. /\ drain.pc = "text" /\ drain' = With(IF response_id = None THEN "start" ELSE "deliver", m)
          /\ UNCHANGED <<response_id, responses, sent>>
      BY <2>4 DEF TakeAssistantText, TakeFunctionCall, StartOrDeliver, respVars
    <3>2. QED
      BY <1>1, <3>1, QuietProtocol
  <2>5. CASE TakeUsage(m)
    BY <1>1, <2>5, QuietProtocol DEF TakeUsage, respVars
  <2>6. QED
    BY <1>3, <2>2, <2>3, <2>4, <2>5 DEF TakeText
<1>4. ASSUME NEW m \in AudioMessages, TakeAudio(m) \/ TakeDone(m)
      PROVE  OneOpen' /\ Protocol!RPStep
  BY <1>1, <1>4, QuietProtocol DEF TakeAudio, TakeDone, StartOrDeliver, respVars
<1>5. CASE TimeoutText \/ TimeoutAudio
  BY <1>1, <1>5, QuietProtocol DEF TimeoutText, TimeoutAudio, respVars
<1>6. CASE DrainStep
  <2>1. CASE BargeIn \/ DrainCancels \/ Finish
    BY <1>1, <2>1, QuietProtocol DEF BargeIn, DrainCancels, Finish, respVars, OneOpen
  <2>2. CASE DrainCancelDone \/ FinishDone
    <3>1. drain.msg.turn \in Nat /\ drain.msg.src = "vad"
      BY <2>2, DrainMessage, MessageTurn DEF DrainCancelDone, FinishDone
    <3>2. PICK type \in {"cancelled", "done"} : Emit(ServerEvent(type, response_id, drain.msg))
      BY <2>2 DEF DrainCancelDone, FinishDone
    <3>3. /\ drain.pc \in {"cancelDone", "finishDone"} /\ drain'.pc \in {"cancelClear", "finishClear"}
          /\ UNCHANGED <<response_id, responses>>
      BY <2>2 DEF DrainCancelDone, FinishDone, respVars
    <3>4. response_id # None /\ Protocol!IsOpen(sent, response_id)
      BY <1>1, <3>3 DEF OneOpen
    <3>5. /\ \A r : Protocol!Created(sent', r) <=> Protocol!Created(sent, r)
          /\ \A r : Protocol!Closed(sent', r) <=> Protocol!Closed(sent, r) \/ response_id = r
          /\ Protocol!RPStep
      BY <1>1, <3>1, <3>2, <3>4, EmitProtocol DEF ResponseEvents
    <3>6. \A r : Protocol!IsOpen(sent', r) <=> Protocol!IsOpen(sent, r) /\ response_id # r
      BY <3>5 DEF Protocol!IsOpen
    <3>7. QED
      BY <1>1, <3>3, <3>4, <3>5, <3>6 DEF OneOpen
  <2>3. CASE DrainCancelClear \/ FinishClear
    <3>1. /\ drain.pc \in {"cancelClear", "finishClear"} /\ drain'.pc \in {"text", "audio"}
          /\ response_id' = None /\ UNCHANGED <<responses, sent>>
      BY <2>3 DEF DrainCancelClear, FinishClear
    <3>2. \A r \in Nat : ~Protocol!IsOpen(sent, r)
      BY <1>1, <3>1 DEF OneOpen
    <3>3. \A r \in Nat : ~Protocol!IsOpen(sent', r)
      BY <3>1, <3>2
    <3>4. \A r \in Nat : Protocol!Created(sent', r) \/ Protocol!Closed(sent', r) => r \in 1..responses'
      BY <1>1, <3>1 DEF OneOpen
    <3>5. QED
      BY <1>1, <3>1, <3>3, <3>4 DEF OneOpen, Protocol!RPStep
  <2>4. CASE StartResponse
    <3>1. /\ drain.pc = "start" /\ drain'.pc = "announce" /\ sent' = sent
          /\ responses' = responses + 1 /\ response_id' = responses + 1
      BY <2>4 DEF StartResponse
    <3>2. \A r \in Nat : Protocol!Created(sent', r) \/ Protocol!Closed(sent', r) => r \in 1..responses
      BY <1>1, <3>1 DEF OneOpen
    <3>3. ~Protocol!IsOpen(sent, 0)
      BY <1>1 DEF OneOpen, Protocol!IsOpen
    <3>4. \A r \in Nat : ~Protocol!IsOpen(sent', r)
      BY <1>1, <3>1, <3>3 DEF OneOpen
    <3>5. QED
      BY <1>1, <3>1, <3>2, <3>4 DEF OneOpen, Protocol!RPStep
  <2>5. CASE AnnounceResponse
    <3>1. drain.msg.turn \in Nat /\ drain.msg.src = "vad"
      BY <2>5, DrainMessage, MessageTurn DEF AnnounceResponse
    <3>2. /\ Emit(ServerEvent("created", response_id, drain.msg))
          /\ drain.pc = "announce" /\ drain'.pc = "deliver" /\ UNCHANGED <<response_id, responses>>
      BY <2>5 DEF AnnounceResponse, respVars
    <3>3. /\ response_id = responses /\ response_id # None /\ response_id \in Nat
          /\ ~Protocol!Created(sent, response_id) /\ ~Protocol!Closed(sent, response_id)
          /\ \A r \in Nat : ~Protocol!IsOpen(sent, r)
      BY <1>1, <3>2 DEF OneOpen, Protocol!IsOpen
    <3>4. /\ \A r : Protocol!Created(sent', r) <=> Protocol!Created(sent, r) \/ response_id = r
          /\ \A r : Protocol!Closed(sent', r) <=> Protocol!Closed(sent, r)
          /\ Protocol!RPStep
      BY <1>1, <3>1, <3>2, <3>3, EmitProtocol DEF ResponseEvents
    <3>5. \A r : Protocol!IsOpen(sent', r) <=>
                    Protocol!IsOpen(sent, r) \/ (response_id = r /\ ~Protocol!Closed(sent, r))
      BY <3>4 DEF Protocol!IsOpen
    <3>6. QED
      BY <1>1, <3>2, <3>3, <3>4, <3>5 DEF OneOpen
  <2>6. CASE Deliver
    <3> DEFINE type == IF "kind" \in DOMAIN drain.msg THEN "audio" ELSE drain.msg.type
    <3>1. drain.msg \in ResponseTexts \cup Audio /\ drain.msg.turn \in Nat /\ drain.msg.src = "vad"
      BY <2>6, DrainMessage, MessageTurn DEF Deliver
    <3>2. type \in ResponseEvents /\ type \notin {"created", "done", "cancelled"}
      BY <3>1, AudioOrText DEF ResponseEvents
    <3>3. /\ Emit(ServerEvent(type, response_id, drain.msg)) /\ drain.pc = "deliver"
          /\ drain'.pc \in {"text", "audio"} /\ UNCHANGED <<response_id, responses>>
      BY <2>6 DEF Deliver, respVars
    <3> HIDE DEF type
    <3>4. Protocol!IsOpen(sent, response_id)
      BY <1>1, <3>3 DEF OneOpen
    <3>5. QED
      BY <1>1, <3>1, <3>2, <3>3, <3>4, EmitQuietProtocol
  <2>7. QED
    BY <1>6, <2>1, <2>2, <2>3, <2>4, <2>5, <2>6 DEF DrainStep
<1>7. CASE LoopStep
  <2>1. ClientItem
    BY <1>7, NoCancel DEF LoopStep
  <2>2. UNCHANGED <<response_id, responses, drain, sent>>
    BY <2>1 DEF ClientItem, respVars
  <2>3. QED
    BY <1>1, <2>2 DEF OneOpen, Protocol!RPStep, Protocol!Created, Protocol!Closed, Protocol!IsOpen
<1>8. QED
  BY <1>2, <1>3, <1>4, <1>5, <1>6, <1>7 DEF ServiceNext

\* Until the client cancels from the other thread, the service implements the
\* response protocol step by step: one response at a time, opened once and closed
\* once, and nothing outside of it, whatever arrives in the two queues.
THEOREM ServiceImplementsProtocol == ServiceSpec => ImplementsResponseProtocol
<1>1. ServiceAloneInit => ProtocolIInv /\ Protocol!RPInit
  BY PcOf DEF ServiceAloneInit, ServiceInit, ProtocolIInv, OneOpen, Protocol!RPInit,
              Protocol!Created, Protocol!Closed, Protocol!IsOpen
<1>2. Shape /\ ProtocolIInv /\ [ServiceNext]_vars => ProtocolIInv'
  BY ProtocolStep DEF ProtocolIInv
<1>3. Shape /\ ProtocolIInv /\ [ServiceNext]_vars
        => [cancels' = 0 => Protocol!RPStep]_serviceVars
  BY ProtocolStep
<1>4. QED
  BY <1>1, <1>2, <1>3, ServiceShape, PTL DEF ServiceSpec, vars, ImplementsResponseProtocol
=============================================================================
