--------------------------- MODULE Pipeline_proofs ---------------------------
(***************************************************************************)
(* Proofs about the handler threads (Pipeline.tla), for every number of    *)
(* turns, prompts, cancels, tool calls and pieces: the types, what a       *)
(* cancel leaves the TTS, what the processor keeps, and the order in which *)
(* the client hears of a turn.                                             *)
(***************************************************************************)
EXTENDS Pipeline, TLAPS

\* The sets the queues and the threads' records range over, with the turns the
\* VAD has opened where PipelineTypeOK says Turn.
Opened == 1..MaxTurns
Heard == [mode : {"progressive", "final"}, turn : Opened]
Said == [type : {"speech_started", "speech_stopped"}, turn : Opened]
          \cup [type : {"partial", "transcript", "text", "call", "usage"},
                turn : Ids, src : Sources]
Answer == [kind : {"chunk", "end"}, turn : Ids, src : Sources, gen0 : Nat]
ForTTS == [turn : Ids, src : Sources, barged : BOOLEAN]
Sound == [kind : {"audio", "done"}, turn : Ids, src : Sources]
Decoding == [pc : {"decoding"}, mode : {"progressive", "final"}, turn : Opened, gen : Nat]
Streaming == [pc : {"streaming", "hung"}, turn : Ids, src : Sources, gen : Nat,
              chunks : 0..MaxChunks, tool : BOOLEAN]
Speaking == [pc : {"synthesising", "sending"}, turn : Ids, src : Sources,
             gen : Nat, pieces : 0..MaxAudio, late : Nat]

\* A user who speaks has a turn.
Scalars ==
    /\ turn_id \in Turn /\ speech_started \in BOOLEAN
    /\ speech_started => turn_id \in Opened
    /\ snapshots \in 0..MaxSnapshots /\ toolCalls \in 0..MaxToolCalls
    /\ cancels \in 0..MaxCancels /\ prompts \in 0..MaxPrompts
    /\ generation \in Nat

Queues ==
    /\ spoken_prompt \in Seq(Heard)
    /\ stt_output \in Seq(Opened)
    /\ text_out \in Seq(Said)
    /\ text_prompt \in Seq(Ghost)
    /\ lm_response \in Seq(Answer)
    /\ lm_processed \in Seq(ForTTS)
    /\ audio_out \in Seq(Sound)

\* A piece on its way to the queue is still within the bound.
Threads ==
    /\ stt = Idle \/ stt \in Decoding
    /\ llm = Idle \/ llm \in Streaming
    /\ tts = Idle \/ tts \in Speaking
    /\ tts.pc = "sending" => tts.pieces < MaxAudio

Maps ==
    /\ buffers \in [Ids -> Nat]
    /\ gens \in [Ids -> Nat \cup {NoGen}]

Types == Scalars /\ Queues /\ Threads /\ Maps

-----------------------------------------------------------------------------
LEMMA Sizes ==
  /\ MaxTurns \in Nat /\ MaxSnapshots \in Nat /\ MaxPrompts \in Nat /\ MaxCancels \in Nat
  /\ MaxStimuli \in Nat /\ MaxToolCalls \in Nat /\ MaxChunks \in Nat /\ MaxAudio \in Nat
  /\ LiveTranscription \in BOOLEAN /\ SttDiscards \in BOOLEAN /\ Failures \in BOOLEAN
BY PipelineAssumption

LEMMA OpenedIds == Opened \subseteq Ids /\ Opened \subseteq Turn /\ (1..MaxPrompts) \subseteq Ids
BY Sizes DEF Opened, Ids, Turn

\* Sequences grow by one and lose their head.
LEMMA Appended ==
  ASSUME NEW S, NEW s \in Seq(S), NEW e \in S
  PROVE  /\ Append(s, e) \in Seq(S)
         /\ Len(Append(s, e)) = Len(s) + 1 /\ Len(s) \in Nat
         /\ \A i \in 1..Len(s) : Append(s, e)[i] = s[i] /\ s[i] \in S
         /\ Append(s, e)[Len(s) + 1] = e
OBVIOUS

LEMMA Shortened ==
  ASSUME NEW S, NEW s \in Seq(S), s # <<>>
  PROVE  /\ Tail(s) \in Seq(S) /\ Head(s) \in S /\ Head(s) = s[1]
         /\ Len(s) \in Nat \ {0} /\ Len(Tail(s)) = Len(s) - 1
         /\ \A i \in 1..Len(Tail(s)) : Tail(s)[i] = s[i + 1]
OBVIOUS

LEMMA Widened ==
  ASSUME NEW S, NEW T, S \subseteq T, NEW s \in Seq(S)
  PROVE  s \in Seq(T)
OBVIOUS

\* The n pieces a of an answer, and an answer with the end b put behind the queue s.
Pieces(n, a) == [i \in 1..n |-> a]
WithAnswer(s, c, b) == s \o c \o <<b>>

LEMMA PiecesAre ==
  ASSUME NEW n \in Nat, NEW S, NEW a \in S
  PROVE  /\ Pieces(n, a) \in Seq(S) /\ Len(Pieces(n, a)) = n
         /\ \A i \in 1..n : Pieces(n, a)[i] = a
BY DEF Pieces

LEMMA JoinedEnds ==
  ASSUME NEW S, NEW s \in Seq(S), NEW c \in Seq(S), NEW b \in S
  PROVE  /\ WithAnswer(s, c, b) \in Seq(S)
         /\ Len(s) \in Nat /\ Len(c) \in Nat
         /\ Len(WithAnswer(s, c, b)) = Len(s) + Len(c) + 1
         /\ \A i \in 1..Len(s) : WithAnswer(s, c, b)[i] = s[i]
         /\ WithAnswer(s, c, b)[Len(s) + Len(c) + 1] = b
<1> DEFINE t == s \o c
<1>1. /\ t \in Seq(S) /\ Len(t) = Len(s) + Len(c) /\ Len(s) \in Nat /\ Len(c) \in Nat
      /\ \A i \in 1..Len(s) : t[i] = s[i]
  OBVIOUS
<1> HIDE DEF t
<1>2. WithAnswer(s, c, b) = Append(t, b)
  <2>1. t \o <<b>> = Append(t, b)
    BY <1>1
  <2>2. QED
    BY <2>1 DEF t, WithAnswer
<1>3. /\ Append(t, b) \in Seq(S) /\ Len(Append(t, b)) = Len(t) + 1
      /\ \A i \in 1..Len(t) : Append(t, b)[i] = t[i]
      /\ Append(t, b)[Len(t) + 1] = b
  BY <1>1, Appended
<1>4. \A i \in 1..Len(s) : i \in 1..Len(t)
  BY <1>1
<1>5. QED
  BY <1>1, <1>2, <1>3, <1>4

LEMMA JoinedMiddle ==
  ASSUME NEW S, NEW s \in Seq(S), NEW c \in Seq(S), NEW b \in S
  PROVE  \A i \in 1..Len(c) : WithAnswer(s, c, b)[Len(s) + i] = c[i]
<1> DEFINE t == s \o c
<1>1. /\ t \in Seq(S) /\ Len(t) = Len(s) + Len(c) /\ Len(s) \in Nat /\ Len(c) \in Nat
      /\ \A i \in 1..Len(c) : t[Len(s) + i] = c[i]
  OBVIOUS
<1> HIDE DEF t
<1>2. WithAnswer(s, c, b) = Append(t, b)
  <2>1. t \o <<b>> = Append(t, b)
    BY <1>1
  <2>2. QED
    BY <2>1 DEF t, WithAnswer
<1>3. \A i \in 1..Len(t) : Append(t, b)[i] = t[i]
  BY <1>1, Appended
<1>4. \A i \in 1..Len(c) : Len(s) + i \in 1..Len(t)
  BY <1>1
<1>5. QED
  BY <1>1, <1>2, <1>3, <1>4

\* What the threads can say.
LEMMA SaidType ==
  /\ \A t \in Opened : /\ Event("speech_started", t) \in Said
                       /\ Event("speech_stopped", t) \in Said
  /\ \A t \in Ids, src \in Sources :
        \A type \in {"partial", "transcript", "text", "call", "usage"} : Say(type, t, src) \in Said
BY DEF Event, Say, Said

\* The two events of a finished answer, put one after the other.
LEMMA SaidTwice ==
  ASSUME NEW s \in Seq(Said), NEW a \in Said, NEW b \in Said, NEW c \in BOOLEAN
  PROVE  s \o (IF c THEN <<a>> ELSE <<>>) \o <<b>> = Append(IF c THEN Append(s, a) ELSE s, b)
<1>1. CASE c
  <2>1. s \o <<a>> = Append(s, a) /\ Append(s, a) \in Seq(Said)
    OBVIOUS
  <2>2. Append(s, a) \o <<b>> = Append(Append(s, a), b)
    BY <2>1
  <2>3. QED
    BY <1>1, <2>1, <2>2
<1>2. CASE ~c
  <2>1. s \o <<>> = s
    OBVIOUS
  <2>2. s \o <<b>> = Append(s, b)
    OBVIOUS
  <2>3. QED
    BY <1>2, <2>1, <2>2
<1>3. QED
  BY <1>1, <1>2

-----------------------------------------------------------------------------
LEMMA TypesInit == PipelineInit => Types
<1> SUFFICES ASSUME PipelineInit
             PROVE  Types
  OBVIOUS
<1>1. Scalars
  <2>1. speech_started = FALSE /\ turn_id = 0 /\ generation = 0
        /\ snapshots = 0 /\ toolCalls = 0 /\ cancels = 0 /\ prompts = 0
    BY DEF PipelineInit, TSInit
  <2>2. speech_started \in BOOLEAN
    BY <2>1
  <2>3. QED
    BY <2>1, <2>2, Sizes DEF Scalars, Turn
<1>2. Queues
  BY DEF PipelineInit, TSInit, Queues
<1>3. Threads
  BY DEF PipelineInit, Threads, Idle
<1>4. Maps
  BY DEF PipelineInit, Maps
<1>5. QED
  BY <1>1, <1>2, <1>3, <1>4 DEF Types

\* The user's turns.
LEMMA TypesSpeak ==
  ASSUME Types, Speak
  PROVE  Types'
<1>1. /\ UNCHANGED <<toolCalls, cancels, prompts>> /\ UNCHANGED sttVars /\ UNCHANGED text_prompt
      /\ UNCHANGED llmVars /\ UNCHANGED procVars /\ UNCHANGED ttsVars
  BY DEF Speak
<1>2. Threads' /\ Maps'
  BY <1>1 DEF Types, Threads, Maps, sttVars, llmVars, procVars, ttsVars
<1>3. Scalars'
  <2>1. /\ turn_id \in Turn /\ speech_started \in BOOLEAN
        /\ speech_started => turn_id \in Opened
        /\ generation \in Nat /\ cancels \in 0..MaxCancels
    BY DEF Types, Scalars
  <2>2. snapshots' \in 0..MaxSnapshots
    BY Sizes DEF Types, Scalars, Speak
  <2>3. \/ turn_id < MaxTurns /\ turn_id' = turn_id + 1 /\ generation' = generation + 1
           /\ speech_started' = TRUE
        \/ /\ UNCHANGED <<turn_id, generation>>
           /\ speech_started' = speech_started \/ speech_started' = FALSE
    <3>1. CASE StartTurn /\ turn_id < MaxTurns
      BY <3>1 DEF StartTurn
    <3>2. CASE ProgressTurn
      BY <3>2 DEF ProgressTurn
    <3>3. CASE EndTurn \/ DropTurn
      BY <3>3 DEF EndTurn, DropTurn
    <3>4. QED
      BY <3>1, <3>2, <3>3 DEF Speak
  <2>4. turn_id' \in Turn /\ generation' \in Nat
    BY <2>1, <2>3, Sizes DEF Turn
  <2>5. speech_started' \in BOOLEAN
    <3>1. speech_started' = TRUE \/ speech_started' = FALSE \/ speech_started' = speech_started
      BY <2>3
    <3>2. speech_started \in BOOLEAN
      BY <2>1
    <3> QED
      BY <3>1, <3>2
  <2>6. speech_started' => turn_id' \in Opened
    <3>1. CASE turn_id < MaxTurns /\ turn_id' = turn_id + 1
      BY <2>1, <3>1, Sizes DEF Turn, Opened
    <3>2. CASE turn_id' = turn_id /\ (speech_started' = speech_started \/ speech_started' = FALSE)
      BY <2>1, <3>2
    <3>3. QED
      BY <2>3, <3>1, <3>2
  <2>7. QED
    BY <1>1, <2>1, <2>2, <2>4, <2>5, <2>6 DEF Types, Scalars
<1>4. text_out' \in Seq(Said)
  <2>1. text_out \in Seq(Said) /\ turn_id' \in Turn
    BY <1>3 DEF Types, Queues, Scalars
  <2>2. \/ text_out' = text_out
        \/ turn_id' \in Opened /\ text_out' = Append(text_out, Event("speech_started", turn_id'))
        \/ turn_id \in Opened /\ text_out' = Append(text_out, Event("speech_stopped", turn_id))
    BY <1>3 DEF Types, Scalars, Speak, StartTurn, ProgressTurn, EndTurn, DropTurn
  <2>3. QED
    BY <2>1, <2>2, SaidType
<1>5. spoken_prompt' \in Seq(Heard)
  <2>1. \/ spoken_prompt' = spoken_prompt
        \/ turn_id \in Opened /\ \E mode \in {"progressive", "final"} :
              spoken_prompt' = Append(spoken_prompt, VADAudio(mode, turn_id))
    BY DEF Types, Scalars, Speak, StartTurn, ProgressTurn, EndTurn, DropTurn
  <2>2. \A mode \in {"progressive", "final"}, u \in Opened : VADAudio(mode, u) \in Heard
    BY DEF VADAudio, Heard
  <2>3. spoken_prompt \in Seq(Heard)
    BY DEF Types, Queues
  <2>4. QED
    BY <2>1, <2>2, <2>3, Appended
<1>6. Queues'
  BY <1>1, <1>4, <1>5 DEF Types, Queues, sttVars, llmVars, procVars, ttsVars
<1>7. QED
  BY <1>2, <1>3, <1>6 DEF Types

LEMMA TypesSTT ==
  ASSUME Types, STTTake \/ STTResult \/ Notify
  PROVE  Types'
<1>1. CASE STTTake
  <2>1. Scalars' /\ Maps'
    BY <1>1 DEF Types, Scalars, Maps, STTTake, bounds, procVars
  <2>2. Head(spoken_prompt) \in Heard /\ spoken_prompt' \in Seq(Heard)
    BY <1>1, Shortened DEF Types, Queues, STTTake
  <2>3. Queues'
    BY <1>1, <2>2 DEF Types, Queues, STTTake, llmVars, procVars, ttsVars
  <2>4. stt' = Idle \/ stt' \in Decoding
    BY <1>1, <2>2 DEF Types, Scalars, STTTake, Heard, Decoding
  <2>5. Threads'
    BY <1>1, <2>4 DEF Types, Threads, STTTake, llmVars, ttsVars
  <2>6. QED
    BY <2>1, <2>3, <2>5 DEF Types
<1>2. CASE STTResult
  <2>1. Scalars' /\ Maps'
    BY <1>2 DEF Types, Scalars, Maps, STTResult, userVars, bounds, procVars
  <2>2. stt \in Decoding /\ stt.turn \in Opened /\ stt.turn \in Ids
    BY <1>2, OpenedIds DEF Types, Threads, STTResult, Idle, Decoding
  <2>3. text_out' = text_out \/ text_out' = Append(text_out, Say("partial", stt.turn, "vad"))
    BY <1>2 DEF STTResult
  <2>4. text_out' \in Seq(Said)
    <3>1. Say("partial", stt.turn, "vad") \in Said
      BY <2>2, SaidType DEF Sources
    <3>2. text_out \in Seq(Said)
      BY DEF Types, Queues
    <3>3. QED
      BY <2>3, <3>1, <3>2
  <2>5. stt_output' \in Seq(Opened)
    BY <1>2, <2>2 DEF Types, Queues, STTResult
  <2>6. Queues'
    BY <1>2, <2>4, <2>5 DEF Types, Queues, STTResult, userVars, llmVars, procVars, ttsVars
  <2>7. Threads'
    BY <1>2 DEF Types, Threads, STTResult, llmVars, ttsVars
  <2>8. QED
    BY <2>1, <2>6, <2>7 DEF Types
<1>3. CASE Notify
  <2>1. Scalars' /\ Maps' /\ Threads'
    BY <1>3 DEF Types, Scalars, Maps, Threads, Notify, userVars, bounds, llmVars, procVars, ttsVars
  <2>2. /\ Head(stt_output) \in Ids /\ stt_output' \in Seq(Opened)
    BY <1>3, Shortened, OpenedIds DEF Types, Queues, Notify
  <2>3. text_out' \in Seq(Said)
    BY <1>3, <2>2, SaidType DEF Types, Queues, Notify, Sources
  <2>4. Request(Head(stt_output), "vad") \in Ghost
    BY <2>2 DEF Request, Ghost, Sources
  <2>5. text_prompt' \in Seq(Ghost)
    BY <1>3, <2>4 DEF Types, Queues, Notify
  <2>6. Queues'
    BY <1>3, <2>2, <2>3, <2>5 DEF Types, Queues, Notify, userVars, llmVars, procVars, ttsVars
  <2>7. QED
    BY <2>1, <2>6 DEF Types
<1>4. QED
  BY <1>1, <1>2, <1>3

LEMMA TypesLLM ==
  ASSUME Types, LLMTake \/ LLMText \/ LLMToolCall \/ LLMFinish \/ LLMRaises
  PROVE  Types'
<1>1. CASE LLMTake
  <2>1. Scalars' /\ Maps'
    BY <1>1 DEF Types, Scalars, Maps, LLMTake, tsVars, bounds, procVars
  <2>2. Head(text_prompt) \in Ghost /\ text_prompt' \in Seq(Ghost)
    BY <1>1, Shortened DEF Types, Queues, LLMTake
  <2>3. Queues'
    BY <1>1, <2>2 DEF Types, Queues, LLMTake, tsVars, sttVars, procVars, ttsVars
  <2>4. llm' \in Streaming
    BY <1>1, <2>2, Sizes DEF Types, Scalars, LLMTake, Ghost, Streaming
  <2>5. Threads'
    BY <1>1, <2>4 DEF Types, Threads, LLMTake, sttVars, ttsVars
  <2>6. QED
    BY <2>1, <2>3, <2>5 DEF Types
<1>2. CASE LLMText
  <2>1. Scalars' /\ Maps' /\ Queues'
    BY <1>2 DEF Types, Scalars, Maps, Queues, LLMText, tsVars, bounds, sttVars, procVars, ttsVars
  <2>2. llm \in Streaming
    BY <1>2 DEF Types, Threads, LLMText, Idle
  <2>3. llm' \in Streaming
    BY <1>2, <2>2, Sizes DEF LLMText, Streaming
  <2>4. Threads'
    BY <1>2, <2>3 DEF Types, Threads, LLMText, sttVars, ttsVars
  <2>5. QED
    BY <2>1, <2>4 DEF Types
<1>3. CASE LLMToolCall
  <2>1. Scalars' /\ Maps' /\ Queues'
    <3>1. UNCHANGED <<snapshots, cancels, prompts>> /\ UNCHANGED tsVars
      BY <1>3 DEF LLMToolCall
    <3>2. toolCalls' \in 0..MaxToolCalls
      BY <1>3, Sizes DEF Types, Scalars, LLMToolCall
    <3>3. Scalars'
      BY <3>1, <3>2 DEF Types, Scalars, tsVars
    <3>4. Maps' /\ Queues'
      BY <1>3 DEF Types, Maps, Queues, LLMToolCall, tsVars, sttVars, procVars, ttsVars
    <3>5. QED
      BY <3>3, <3>4
  <2>2. llm \in Streaming
    BY <1>3 DEF Types, Threads, LLMToolCall, Idle
  <2>3. llm' \in Streaming
    BY <1>3, <2>2 DEF LLMToolCall, Streaming
  <2>4. Threads'
    BY <1>3, <2>3 DEF Types, Threads, LLMToolCall, sttVars, ttsVars
  <2>5. QED
    BY <2>1, <2>4 DEF Types
<1>4. CASE LLMFinish
  <2>1. Scalars' /\ Maps'
    BY <1>4 DEF Types, Scalars, Maps, LLMFinish, userVars, bounds, procVars
  <2>2. /\ llm \in Streaming /\ llm.turn \in Ids /\ llm.src \in Sources /\ llm.gen \in Nat
        /\ llm.chunks \in Nat /\ llm.tool \in BOOLEAN
    BY <1>4, Sizes DEF Types, Threads, LLMFinish, Idle, Streaming
  <2> DEFINE a == Say("call", llm.turn, llm.src)
             b == Say("usage", llm.turn, llm.src)
             Out(kind) == [kind |-> kind, turn |-> llm.turn, src |-> llm.src, gen0 |-> llm.gen]
  <2>3. a \in Said /\ b \in Said
    BY <2>2, SaidType
  <2>4. Out("chunk") \in Answer /\ Out("end") \in Answer
    BY <2>2 DEF Answer
  <2>5. /\ text_out' = text_out \o (IF llm.tool THEN <<a>> ELSE <<>>) \o <<b>>
        /\ lm_response' = WithAnswer(lm_response, Pieces(llm.chunks, Out("chunk")), Out("end"))
    BY <1>4 DEF LLMFinish, WithAnswer, Pieces
  <2> HIDE DEF a, b, Out
  <2>6. text_out' \in Seq(Said)
    BY <2>2, <2>3, <2>5, SaidTwice DEF Types, Queues
  <2>7. lm_response' \in Seq(Answer)
    <3>1. lm_response \in Seq(Answer)
      BY DEF Types, Queues
    <3>2. Pieces(llm.chunks, Out("chunk")) \in Seq(Answer)
      BY <2>2, <2>4, PiecesAre
    <3>3. WithAnswer(lm_response, Pieces(llm.chunks, Out("chunk")), Out("end")) \in Seq(Answer)
      BY <2>4, <3>1, <3>2, JoinedEnds
    <3>4. QED
      BY <2>5, <3>3
  <2>8. Queues'
    BY <1>4, <2>6, <2>7 DEF Types, Queues, LLMFinish, userVars, sttVars, procVars, ttsVars
  <2>9. Threads'
    BY <1>4 DEF Types, Threads, LLMFinish, sttVars, ttsVars
  <2>10. QED
    BY <2>1, <2>8, <2>9 DEF Types
<1>5. CASE LLMRaises
  <2>1. Scalars' /\ Maps' /\ Queues'
    BY <1>5 DEF Types, Scalars, Maps, Queues, LLMRaises, tsVars, bounds, sttVars, procVars, ttsVars
  <2>2. llm \in Streaming
    BY <1>5 DEF Types, Threads, LLMRaises, Idle
  <2>3. llm' = Idle \/ llm' \in Streaming
    BY <1>5, <2>2 DEF LLMRaises, Streaming
  <2>4. Threads'
    BY <1>5, <2>3 DEF Types, Threads, LLMRaises, sttVars, ttsVars
  <2>5. QED
    BY <2>1, <2>4 DEF Types
<1>6. QED
  BY <1>1, <1>2, <1>3, <1>4, <1>5

LEMMA TypesProcessor ==
  ASSUME Types, ProcessChunk \/ ProcessEnd
  PROVE  Types'
<1>1. /\ lm_response # <<>> /\ Head(lm_response) \in Answer /\ lm_response' \in Seq(Answer)
  BY Shortened DEF Types, Queues, ProcessChunk, ProcessEnd
<1>2. /\ Head(lm_response).turn \in Ids /\ Head(lm_response).src \in Sources
  BY <1>1 DEF Answer
<1>3. Scalars' /\ Threads'
  BY DEF Types, Scalars, Threads, ProcessChunk, ProcessEnd, userVars, tsVars, bounds, sttVars, ttsVars
<1>4. Maps'
  <2> DEFINE t == Head(lm_response).turn
  <2>1. buffers \in [Ids -> Nat] /\ gens \in [Ids -> Nat \cup {NoGen}] /\ generation \in Nat
    BY DEF Types, Scalars, Maps
  <2>2. \/ /\ gens' = [gens EXCEPT ![t] = IF @ = NoGen THEN generation ELSE @]
           /\ buffers' = [buffers EXCEPT ![t] = @ + 1]
        \/ /\ gens' = [gens EXCEPT ![t] = NoGen]
           /\ buffers' = [buffers EXCEPT ![t] = 0]
    BY DEF ProcessChunk, ProcessEnd, ForgetText, ForgetGen
  <2> HIDE DEF t
  <2>3. buffers' \in [Ids -> Nat]
    BY <2>1, <2>2
  <2>4. gens' \in [Ids -> Nat \cup {NoGen}]
    <3> HIDE DEF NoGen
    <3>1. QED
      BY <2>1, <2>2
  <2>5. QED
    BY <2>3, <2>4 DEF Maps
<1>5. text_out' \in Seq(Said)
  <2>1. Say("text", Head(lm_response).turn, Head(lm_response).src) \in Said
    BY <1>2, SaidType
  <2>2. text_out \in Seq(Said)
    BY DEF Types, Queues
  <2>3. \/ text_out' = text_out
        \/ text_out' = Append(text_out, Say("text", Head(lm_response).turn, Head(lm_response).src))
    BY DEF ProcessChunk, ProcessEnd, tsVars
  <2>4. QED
    BY <2>1, <2>2, <2>3
<1>6. lm_processed' \in Seq(ForTTS)
  <2>1. [turn |-> Head(lm_response).turn, src |-> Head(lm_response).src,
         barged |-> generation # Head(lm_response).gen0] \in ForTTS
    BY <1>2 DEF ForTTS
  <2>2. lm_processed \in Seq(ForTTS)
    BY DEF Types, Queues
  <2>3. \/ lm_processed' = lm_processed
        \/ lm_processed' = Append(lm_processed,
               [turn |-> Head(lm_response).turn, src |-> Head(lm_response).src,
                barged |-> generation # Head(lm_response).gen0])
    BY DEF ProcessChunk, ProcessEnd
  <2>4. QED
    BY <2>1, <2>2, <2>3, Appended
<1>7. Queues'
  BY <1>1, <1>5, <1>6
  DEF Types, Queues, ProcessChunk, ProcessEnd, userVars, tsVars, sttVars, ttsVars
<1>8. QED
  BY <1>3, <1>4, <1>7 DEF Types

LEMMA TypesTTS ==
  ASSUME Types, TTSTake \/ TTSPiece \/ TTSSend \/ TTSFinish \/ TTSRaises
  PROVE  Types'
<1>1. Scalars' /\ Maps'
  BY DEF Types, Scalars, Maps, TTSTake, TTSPiece, TTSSend, TTSFinish, TTSRaises, tsVars, bounds,
         procVars
<1>2. CASE TTSTake
  <2>1. Head(lm_processed) \in ForTTS /\ lm_processed' \in Seq(ForTTS)
    BY <1>2, Shortened DEF Types, Queues, TTSTake
  <2>2. tts' \in Speaking /\ tts'.pc = "synthesising"
    BY <1>2, <2>1, Sizes DEF Types, Scalars, TTSTake, ForTTS, Speaking
  <2>3. Queues' /\ Threads'
    BY <1>2, <2>1, <2>2 DEF Types, Queues, Threads, TTSTake, tsVars, sttVars, llmVars
  <2>4. QED
    BY <1>1, <2>3 DEF Types
<1>3. CASE TTSPiece \/ TTSRaises
  <2>1. tts \in Speaking
    BY <1>3 DEF Types, Threads, TTSPiece, TTSRaises, Idle
  <2>2. \/ tts' = Idle
        \/ tts' \in Speaking /\ tts'.pieces = tts.pieces /\ tts.pieces < MaxAudio
    BY <1>3, <2>1 DEF TTSPiece, TTSRaises, Speaking
  <2>3. Threads'
    BY <1>3, <2>2 DEF Types, Threads, TTSPiece, TTSRaises, Idle, sttVars, llmVars
  <2>4. Queues'
    BY <1>3 DEF Types, Queues, TTSPiece, TTSRaises, tsVars, sttVars, llmVars, procVars
  <2>5. QED
    BY <1>1, <2>3, <2>4 DEF Types
<1>4. CASE TTSSend \/ TTSFinish
  <2>1. tts \in Speaking /\ tts.turn \in Ids /\ tts.src \in Sources
    BY <1>4 DEF Types, Threads, TTSSend, TTSFinish, Idle, Speaking
  <2>2. \A kind \in {"audio", "done"} : [kind |-> kind, turn |-> tts.turn, src |-> tts.src] \in Sound
    BY <2>1 DEF Sound
  <2>3. audio_out' \in Seq(Sound)
    <3>1. audio_out \in Seq(Sound)
      BY DEF Types, Queues
    <3>2. \E kind \in {"audio", "done"} :
             audio_out' = Append(audio_out, [kind |-> kind, turn |-> tts.turn, src |-> tts.src])
      BY <1>4 DEF TTSSend, TTSFinish
    <3>3. QED
      BY <2>2, <3>1, <3>2, Appended
  <2>4. tts' = Idle \/ (tts' \in Speaking /\ tts'.pc = "synthesising")
    <3>1. CASE TTSFinish
      BY <3>1 DEF TTSFinish
    <3>2. CASE TTSSend
      <4>1. /\ tts.pc = "sending" /\ tts.pieces < MaxAudio /\ tts.pieces \in 0..MaxAudio
            /\ tts.late \in Nat
        BY <2>1, <3>2 DEF Types, Threads, TTSSend, Speaking
      <4>2. tts.pieces + 1 \in 0..MaxAudio /\ tts.late + (IF generation = tts.gen THEN 0 ELSE 1) \in Nat
        BY <4>1, Sizes
      <4>3. QED
        BY <2>1, <3>2, <4>2 DEF TTSSend, Speaking
    <3>3. QED
      BY <1>4, <3>1, <3>2
  <2>5. Threads'
    BY <1>4, <2>4 DEF Types, Threads, TTSSend, TTSFinish, Idle, sttVars, llmVars
  <2>6. Queues'
    BY <1>4, <2>3 DEF Types, Queues, TTSSend, TTSFinish, tsVars, sttVars, llmVars, procVars
  <2>7. QED
    BY <1>1, <2>5, <2>6 DEF Types
<1>5. QED
  BY <1>2, <1>3, <1>4

LEMMA TypesService ==
  ASSUME Types, ServiceCancels \/ ServicePrompts \/ ServiceAnswersCall
  PROVE  Types'
<1>1. Threads' /\ Maps'
  BY DEF Types, Threads, Maps, ServiceCancels, ServicePrompts, ServiceAnswersCall, sttVars, llmVars,
         procVars, ttsVars
<1>2. Scalars'
  <2>1. Scalars
    BY DEF Types
  <2>2. CASE ServiceCancels
    <3>1. cancels' \in 0..MaxCancels /\ generation' \in Nat
      BY <2>1, <2>2, Sizes DEF Scalars, ServiceCancels
    <3>2. QED
      BY <2>1, <2>2, <3>1 DEF Scalars, ServiceCancels
  <2>3. CASE ServicePrompts \/ ServiceAnswersCall
    <3>1. prompts' \in 0..MaxPrompts
      BY <2>1, <2>3, Sizes DEF Scalars, ServicePrompts, ServiceAnswersCall
    <3>2. UNCHANGED tsVars /\ UNCHANGED bounds
      BY <2>3 DEF ServicePrompts, ServiceAnswersCall
    <3>3. QED
      BY <2>1, <3>1, <3>2 DEF Scalars, tsVars, bounds
  <2>4. QED
    BY <2>2, <2>3
<1>3. text_prompt' \in Seq(Ghost)
  <2>1. CASE ServiceCancels
    BY <2>1 DEF Types, Queues, ServiceCancels
  <2>2. CASE ServicePrompts
    <3>1. prompts' \in Ids
      BY <2>2, <1>2, OpenedIds, Sizes DEF Types, Scalars, ServicePrompts
    <3>2. Request(prompts', "client") \in Ghost
      BY <3>1 DEF Request, Ghost, Sources
    <3>3. QED
      BY <2>2, <3>2 DEF Types, Queues, ServicePrompts
  <2>3. CASE ServiceAnswersCall
    <3>1. PICK i \in 1..Len(text_out) :
             /\ text_out[i].type = "call"
             /\ text_prompt' = Append(text_prompt, Request(text_out[i].turn, text_out[i].src))
      BY <2>3 DEF ServiceAnswersCall
    <3>2. text_out[i] \in Said
      BY DEF Types, Queues
    <3>3. Request(text_out[i].turn, text_out[i].src) \in Ghost
      BY <3>1, <3>2 DEF Said, Request, Ghost
    <3>4. QED
      BY <3>1, <3>3 DEF Types, Queues
  <2>4. QED
    BY <2>1, <2>2, <2>3
<1>4. Queues'
  BY <1>3 DEF Types, Queues, ServiceCancels, ServicePrompts, ServiceAnswersCall, tsVars, sttVars,
              llmVars, procVars, ttsVars
<1>5. QED
  BY <1>1, <1>2, <1>4 DEF Types

LEMMA TypesStep == Types /\ [PipelineNext]_pipelineVars => Types'
<1> SUFFICES ASSUME Types, [PipelineNext]_pipelineVars
             PROVE  Types'
  OBVIOUS
<1>1. CASE UNCHANGED pipelineVars
  BY <1>1 DEF Types, Scalars, Queues, Threads, Maps, pipelineVars, tsVars, bounds, sttVars, llmVars,
              procVars, ttsVars
<1>2. CASE PipelineNext
  BY <1>2, TypesSpeak, TypesSTT, TypesLLM, TypesProcessor, TypesTTS, TypesService
  DEF PipelineNext, Handlers
<1>3. QED
  BY <1>1, <1>2

-----------------------------------------------------------------------------
\* What the TTS still sends after a cancel is the one piece already checked: a
\* piece that is being sent is the first that can be late, and once one was,
\* every later check fails because the generation never falls back.
LateIInv ==
    tts.pc # "idle" =>
        /\ tts.gen <= generation
        /\ tts.late = 0 \/ (tts.late = 1 /\ tts.gen < generation)
        /\ tts.pc = "sending" => tts.late = 0

LEMMA GenerationGrows ==
  ASSUME Types, [PipelineNext]_pipelineVars
  PROVE  generation \in Nat /\ generation' \in Nat /\ generation <= generation'
<1>1. generation \in Nat
  BY DEF Types, Scalars
<1>2. generation' = generation \/ generation' = generation + 1
  <2>1. CASE UNCHANGED pipelineVars
    BY <2>1 DEF pipelineVars, tsVars
  <2>2. CASE Speak
    BY <2>2 DEF Speak, StartTurn, ProgressTurn, EndTurn, DropTurn
  <2>3. CASE Handlers
    BY <2>3 DEF Handlers, STTTake, STTResult, Notify, LLMTake, LLMText, LLMToolCall, LLMFinish,
                LLMRaises, ProcessChunk, ProcessEnd, TTSTake, TTSPiece, TTSSend, TTSFinish,
                TTSRaises, tsVars
  <2>4. CASE ServiceCancels \/ ServicePrompts \/ ServiceAnswersCall
    BY <2>4 DEF ServiceCancels, ServicePrompts, ServiceAnswersCall, tsVars
  <2>5. QED
    BY <2>1, <2>2, <2>3, <2>4 DEF PipelineNext
<1>3. QED
  BY <1>1, <1>2

LEMMA LateStep == Types /\ LateIInv /\ [PipelineNext]_pipelineVars => LateIInv'
<1> SUFFICES ASSUME Types, LateIInv, [PipelineNext]_pipelineVars
             PROVE  LateIInv'
  OBVIOUS
<1>1. generation \in Nat /\ generation' \in Nat /\ generation <= generation'
  BY GenerationGrows
<1>2. tts.pc # "idle" => tts \in Speaking /\ tts.gen \in Nat /\ tts.late \in Nat
  BY DEF Types, Threads, Idle, Speaking
<1>3. CASE UNCHANGED tts
  BY <1>1, <1>2, <1>3 DEF LateIInv
<1>4. CASE TTSTake
  BY <1>1, <1>4 DEF TTSTake, tsVars, LateIInv
<1>5. CASE TTSPiece
  <2>1. /\ tts.pc = "synthesising" /\ generation = tts.gen /\ generation' = generation
        /\ tts' = [tts EXCEPT !.pc = "sending"]
    BY <1>5 DEF TTSPiece, NotCancelled, tsVars
  <2>2. tts.late = 0
    BY <1>1, <2>1 DEF LateIInv
  <2>3. tts'.late = 0 /\ tts'.gen = tts.gen
    BY <1>2, <2>1, <2>2 DEF Speaking
  <2>4. QED
    BY <1>1, <2>1, <2>3 DEF LateIInv
<1>6. CASE TTSSend
  <2>1. /\ tts.pc = "sending" /\ generation' = generation
        /\ tts' = [tts EXCEPT !.pc = "synthesising", !.pieces = @ + 1,
                              !.late = @ + (IF generation = tts.gen THEN 0 ELSE 1)]
    BY <1>6 DEF TTSSend, tsVars
  <2>2. tts.late = 0 /\ tts.gen <= generation
    BY <2>1 DEF LateIInv
  <2>3. /\ tts'.pc = "synthesising" /\ tts'.gen = tts.gen
        /\ tts'.late = (IF generation = tts.gen THEN 0 ELSE 1)
    BY <1>2, <2>1, <2>2 DEF Speaking
  <2>4. QED
    BY <1>1, <1>2, <2>1, <2>2, <2>3 DEF LateIInv
<1>7. CASE TTSFinish \/ TTSRaises
  BY <1>7 DEF TTSFinish, TTSRaises, Idle, LateIInv
<1>8. CASE UNCHANGED pipelineVars
  BY <1>3, <1>8 DEF pipelineVars, ttsVars
<1>9. CASE Speak
  BY <1>3, <1>9 DEF Speak, ttsVars
<1>10. CASE STTTake \/ STTResult \/ Notify \/ LLMTake \/ LLMText \/ LLMToolCall \/ LLMFinish
            \/ LLMRaises
  BY <1>3, <1>10 DEF STTTake, STTResult, Notify, LLMTake, LLMText, LLMToolCall, LLMFinish, LLMRaises,
                     ttsVars
<1>11. CASE ProcessChunk \/ ProcessEnd
  BY <1>3, <1>11 DEF ProcessChunk, ProcessEnd, ttsVars
<1>12. CASE ServiceCancels \/ ServicePrompts \/ ServiceAnswersCall
  BY <1>3, <1>12 DEF ServiceCancels, ServicePrompts, ServiceAnswersCall, ttsVars
<1>13. QED
  BY <1>4, <1>5, <1>6, <1>7, <1>8, <1>9, <1>10, <1>11, <1>12 DEF PipelineNext, Handlers

LEMMA LateInit == PipelineInit => LateIInv
BY DEF PipelineInit, Idle, LateIInv

\* A cancel that finds the TTS speaking lets at most the piece through whose
\* check had already passed.
THEOREM PipelineCancelStopsSpeech == PipelineSpec => []CancelStopsSpeech
<1>1. LateIInv => CancelStopsSpeech
  BY DEF LateIInv, CancelStopsSpeech
<1>2. QED
  BY <1>1, TypesInit, TypesStep, LateInit, LateStep, PTL DEF PipelineSpec

-----------------------------------------------------------------------------
\* The generation counts the turns and the cancels, and none that was noted is
\* ahead of it.
NotedIInv ==
    /\ generation = turn_id + cancels
    /\ stt.pc = "decoding" => stt.gen <= generation
    /\ llm.pc # "idle" => llm.gen <= generation
    /\ \A i \in 1..Len(lm_response) : lm_response[i].gen0 <= generation
    /\ \A t \in Ids : gens[t] <= generation

LEMMA NotedInit == PipelineInit => NotedIInv
BY DEF PipelineInit, TSInit, Idle, NotedIInv, NoGen

LEMMA NotedStep == Types /\ NotedIInv /\ [PipelineNext]_pipelineVars => NotedIInv'
<1> SUFFICES ASSUME Types, NotedIInv, [PipelineNext]_pipelineVars
             PROVE  NotedIInv'
  OBVIOUS
<1>1. generation \in Nat /\ generation' \in Nat /\ generation <= generation'
  BY GenerationGrows
<1>2. /\ turn_id \in Nat /\ cancels \in Nat
      /\ stt.pc = "decoding" => stt.gen \in Nat
      /\ llm.pc # "idle" => llm \in Streaming /\ llm.gen \in Nat
      /\ lm_response \in Seq(Answer) /\ gens \in [Ids -> Nat \cup {NoGen}]
  BY DEF Types, Scalars, Turn, Threads, Idle, Decoding, Streaming, Queues, Maps
<1>3. generation' = turn_id' + cancels'
  <2>1. CASE UNCHANGED <<generation, turn_id, cancels>>
    BY <2>1 DEF NotedIInv
  <2>2. CASE UNCHANGED pipelineVars
    BY <2>1, <2>2 DEF pipelineVars, tsVars, bounds
  <2>3. CASE Speak
    BY <1>2, <2>3 DEF NotedIInv, Speak, StartTurn, ProgressTurn, EndTurn, DropTurn
  <2>4. CASE ServiceCancels
    BY <1>2, <2>4 DEF NotedIInv, ServiceCancels
  <2>5. CASE ServicePrompts \/ ServiceAnswersCall
    BY <2>1, <2>5 DEF ServicePrompts, ServiceAnswersCall, tsVars, bounds
  <2>6. CASE Handlers
    BY <2>1, <2>6 DEF Handlers, STTTake, STTResult, Notify, LLMTake, LLMText, LLMToolCall, LLMFinish,
                      LLMRaises, ProcessChunk, ProcessEnd, TTSTake, TTSPiece, TTSSend, TTSFinish,
                      TTSRaises, tsVars, userVars, bounds
  <2>7. QED
    BY <2>2, <2>3, <2>4, <2>5, <2>6 DEF PipelineNext
<1>4. stt'.pc = "decoding" => stt'.gen <= generation'
  <2>1. CASE UNCHANGED stt
    BY <1>1, <1>2, <2>1 DEF NotedIInv
  <2>2. CASE STTTake
    BY <1>1, <2>2 DEF STTTake, Idle
  <2>3. CASE STTResult
    BY <2>3 DEF STTResult, Idle
  <2>4. QED
    BY <2>1, <2>2, <2>3
    DEF PipelineNext, Handlers, pipelineVars, sttVars, Speak, Notify, LLMTake, LLMText, LLMToolCall,
        LLMFinish, LLMRaises, ProcessChunk, ProcessEnd, TTSTake, TTSPiece, TTSSend, TTSFinish,
        TTSRaises, ServiceCancels, ServicePrompts, ServiceAnswersCall
<1>5. llm'.pc # "idle" => llm'.gen <= generation'
  <2>1. CASE UNCHANGED llm
    BY <1>1, <1>2, <2>1 DEF NotedIInv
  <2>2. CASE LLMTake
    BY <1>1, <2>2 DEF LLMTake, tsVars
  <2>3. CASE LLMText \/ LLMToolCall
    <3>1. llm.pc = "streaming" /\ generation' = generation /\ llm'.gen = llm.gen
      BY <1>2, <2>3 DEF LLMText, LLMToolCall, tsVars, Streaming
    <3>2. QED
      BY <3>1 DEF NotedIInv
  <2>4. CASE LLMFinish
    BY <2>4 DEF LLMFinish, Idle
  <2>5. CASE LLMRaises
    <3>1. /\ llm.pc # "idle" /\ generation' = generation
          /\ llm' = Idle \/ llm' = [llm EXCEPT !.pc = "hung"]
      BY <2>5 DEF LLMRaises, tsVars
    <3>2. llm'.pc # "idle" => llm'.gen = llm.gen
      BY <1>2, <3>1 DEF Idle, Streaming
    <3>3. QED
      BY <3>1, <3>2 DEF NotedIInv
  <2>6. QED
    BY <2>1, <2>2, <2>3, <2>4, <2>5
    DEF PipelineNext, Handlers, pipelineVars, llmVars, Speak, Notify, STTTake, STTResult,
        ProcessChunk, ProcessEnd, TTSTake, TTSPiece, TTSSend, TTSFinish,
        TTSRaises, ServiceCancels, ServicePrompts, ServiceAnswersCall
<1>6. \A i \in 1..Len(lm_response') : lm_response'[i].gen0 <= generation'
  <2>1. \A m \in Answer : m.gen0 \in Nat
    BY DEF Answer
  <2>2. \A i \in 1..Len(lm_response) : lm_response[i].gen0 <= generation'
    <3>1. \A i \in 1..Len(lm_response) : lm_response[i] \in Answer
      BY <1>2
    <3>2. QED
      BY <1>1, <2>1, <3>1 DEF NotedIInv
  <2>3. CASE UNCHANGED lm_response
    BY <2>2, <2>3
  <2>4. CASE ProcessChunk \/ ProcessEnd
    <3>1. lm_response # <<>> /\ lm_response' = Tail(lm_response)
      BY <2>4 DEF ProcessChunk, ProcessEnd
    <3>2. \A i \in 1..Len(lm_response') : i + 1 \in 1..Len(lm_response)
                                         /\ lm_response'[i] = lm_response[i + 1]
      BY <1>2, <3>1, Shortened
    <3>3. QED
      BY <2>2, <3>2
  <2>5. CASE LLMFinish
    <3> DEFINE Out(kind) == [kind |-> kind, turn |-> llm.turn, src |-> llm.src, gen0 |-> llm.gen]
               c == Pieces(llm.chunks, Out("chunk"))
               r == WithAnswer(lm_response, c, Out("end"))
    <3>1. /\ llm \in Streaming /\ llm.gen <= generation'
          /\ llm.turn \in Ids /\ llm.src \in Sources /\ llm.gen \in Nat /\ llm.chunks \in Nat
      BY <1>1, <1>2, <2>5, Sizes DEF LLMFinish, NotedIInv, Streaming
    <3>2. Out("chunk") \in Answer /\ Out("end") \in Answer
          /\ Out("chunk").gen0 = llm.gen /\ Out("end").gen0 = llm.gen
      BY <3>1 DEF Answer
    <3>3. lm_response' = r
      BY <2>5 DEF LLMFinish, WithAnswer, Pieces
    <3> HIDE DEF Out
    <3>4. c \in Seq(Answer) /\ Len(c) = llm.chunks /\ \A i \in 1..Len(c) : c[i] = Out("chunk")
      BY <3>1, <3>2, PiecesAre
    <3> HIDE DEF c
    <3>5. /\ Len(lm_response) \in Nat /\ Len(c) \in Nat
          /\ Len(r) = Len(lm_response) + Len(c) + 1
          /\ \A i \in 1..Len(lm_response) : r[i] = lm_response[i]
          /\ r[Len(lm_response) + Len(c) + 1] = Out("end")
      <4> DEFINE b == Out("end")
                 q == lm_response
      <4>1. q \in Seq(Answer) /\ c \in Seq(Answer) /\ b \in Answer
        BY <1>2, <3>2, <3>4
      <4> HIDE DEF b, q
      <4>2. /\ Len(q) \in Nat /\ Len(c) \in Nat
            /\ Len(WithAnswer(q, c, b)) = Len(q) + Len(c) + 1
            /\ \A i \in 1..Len(q) : WithAnswer(q, c, b)[i] = q[i]
            /\ WithAnswer(q, c, b)[Len(q) + Len(c) + 1] = b
        BY <4>1, JoinedEnds
      <4>3. QED
        BY <4>2 DEF b, q
    <3>6. \A i \in 1..Len(c) : r[Len(lm_response) + i] = Out("chunk")
      <4>1. \A i \in 1..Len(c) : r[Len(lm_response) + i] = c[i]
        BY <1>2, <3>2, <3>4, JoinedMiddle
      <4>2. QED
        BY <3>4, <4>1
    <3> HIDE DEF r
    <3>7. ASSUME NEW i \in 1..Len(r)
          PROVE  r[i].gen0 <= generation'
      <4>1. CASE i \in 1..Len(lm_response)
        BY <2>2, <3>5, <4>1
      <4>2. CASE i = Len(lm_response) + Len(c) + 1
        BY <3>1, <3>2, <3>5, <4>2
      <4>3. CASE i - Len(lm_response) \in 1..Len(c)
        <5>1. r[Len(lm_response) + (i - Len(lm_response))] = Out("chunk")
          BY <3>6, <4>3
        <5>2. Len(lm_response) + (i - Len(lm_response)) = i
          BY <3>5
        <5>3. QED
          BY <3>1, <3>2, <5>1, <5>2
      <4>4. QED
        BY <3>5, <4>1, <4>2, <4>3
    <3>8. QED
      BY <3>3, <3>7
  <2>6. QED
    BY <2>3, <2>4, <2>5
    DEF PipelineNext, Handlers, pipelineVars, llmVars, Speak, Notify, STTTake, STTResult, LLMTake,
        LLMText, LLMToolCall, LLMRaises, TTSTake, TTSPiece, TTSSend, TTSFinish,
        TTSRaises, ServiceCancels, ServicePrompts, ServiceAnswersCall
<1>7. \A t \in Ids : gens'[t] <= generation'
  <2>1. \A t \in Ids : gens[t] <= generation'
    BY <1>1, <1>2 DEF NotedIInv, NoGen
  <2>2. CASE UNCHANGED gens
    BY <2>1, <2>2
  <2>3. CASE ProcessChunk
    BY <1>1, <1>2, <2>1, <2>3 DEF ProcessChunk
  <2>4. CASE ProcessEnd
    BY <1>1, <1>2, <2>1, <2>4 DEF ProcessEnd, ForgetGen, NoGen
  <2>5. QED
    BY <2>2, <2>3, <2>4
    DEF PipelineNext, Handlers, pipelineVars, procVars, Speak, Notify, STTTake, STTResult, LLMTake,
        LLMText, LLMToolCall, LLMFinish, LLMRaises, TTSTake, TTSPiece, TTSSend, TTSFinish,
        TTSRaises, ServiceCancels, ServicePrompts, ServiceAnswersCall
<1>8. QED
  BY <1>3, <1>4, <1>5, <1>6, <1>7 DEF NotedIInv

-----------------------------------------------------------------------------
\* The answer of which the item at position i is a part ends at position e.
EndsAt(q, i, e) ==
    /\ e \in i..Len(q) /\ q[e].kind = "end"
    /\ \A k \in i..(e - 1) : q[k].kind = "chunk"
    /\ \A k \in i..e : q[k].turn = q[e].turn
    /\ e - i <= MaxChunks

\* The queue to the processor is made of whole answers, the first of which it may
\* have begun; only under that one's id does it hold anything, and the pieces it
\* holds and those still to come are those of one answer.
ProcessorIInv ==
    /\ \A t \in Ids : (buffers[t] > 0 \/ gens[t] # NoGen) =>
          lm_response # <<>> /\ lm_response[1].turn = t
    /\ \A i \in 1..Len(lm_response) : \E e \in Nat : EndsAt(lm_response, i, e)
    /\ lm_response # <<>> =>
          \E e \in Nat : /\ EndsAt(lm_response, 1, e)
                         /\ buffers[lm_response[1].turn] + e - 1 <= MaxChunks

\* The rest of an answer once the head of the queue is gone.
LEMMA EndsInTail ==
  ASSUME NEW q \in Seq(Answer), q # <<>>, NEW i \in 1..Len(Tail(q)), NEW e \in Nat,
         EndsAt(q, i + 1, e)
  PROVE  e - 1 \in Nat /\ EndsAt(Tail(q), i, e - 1)
<1> DEFINE r == Tail(q)
<1>1. /\ Len(q) \in Nat \ {0} /\ Len(r) = Len(q) - 1
      /\ \A k \in 1..Len(r) : r[k] = q[k + 1]
  BY Shortened
<1> HIDE DEF r
<1>2. i \in 1..Len(r)
  BY DEF r
<1>3. /\ e \in (i + 1)..Len(q) /\ q[e].kind = "end" /\ e - (i + 1) <= MaxChunks
      /\ \A k \in (i + 1)..(e - 1) : q[k].kind = "chunk"
      /\ \A k \in (i + 1)..e : q[k].turn = q[e].turn
  BY DEF EndsAt
<1>4. e - 1 \in i..Len(r) /\ r[e - 1] = q[e]
  BY <1>1, <1>2, <1>3
<1>5. \A k \in i..(e - 1) : k + 1 \in (i + 1)..e /\ r[k] = q[k + 1]
  BY <1>1, <1>2, <1>4
<1>6. \A k \in i..((e - 1) - 1) : k + 1 \in (i + 1)..(e - 1) /\ r[k] = q[k + 1]
  BY <1>2, <1>4, <1>5
<1>7. (e - 1) - i <= MaxChunks
  BY <1>2, <1>3, Sizes
<1>8. EndsAt(r, i, e - 1)
  BY <1>3, <1>4, <1>5, <1>6, <1>7 DEF EndsAt
<1>9. QED
  BY <1>2, <1>4, <1>8 DEF r

\* An answer of n pieces put behind whole answers.
LEMMA EndsInJoined ==
  ASSUME NEW q \in Seq(Answer), NEW c \in Seq(Answer), NEW b \in Answer,
         Len(c) <= MaxChunks, b.kind = "end",
         \A k \in 1..Len(c) : c[k].kind = "chunk" /\ c[k].turn = b.turn
  PROVE  LET r == WithAnswer(q, c, b)
         IN /\ r \in Seq(Answer) /\ Len(r) = Len(q) + Len(c) + 1
            /\ \A i \in 1..Len(q) : r[i] = q[i]
            /\ \A i \in 1..Len(q), e \in Nat : EndsAt(q, i, e) => EndsAt(r, i, e)
            /\ \A i \in (Len(q) + 1)..Len(r) : EndsAt(r, i, Len(r))
<1> DEFINE r == WithAnswer(q, c, b)
<1>1. /\ r \in Seq(Answer)
      /\ Len(q) \in Nat /\ Len(c) \in Nat
      /\ Len(r) = Len(q) + Len(c) + 1
      /\ \A i \in 1..Len(q) : r[i] = q[i]
      /\ r[Len(q) + Len(c) + 1] = b
  BY JoinedEnds
<1>1a. \A k \in 1..Len(c) : r[Len(q) + k] = c[k]
  BY JoinedMiddle
<1> HIDE DEF r
<1>2. ASSUME NEW i \in 1..Len(q), NEW e \in Nat, EndsAt(q, i, e)
      PROVE  EndsAt(r, i, e)
  <2>1. /\ e \in i..Len(q) /\ q[e].kind = "end" /\ e - i <= MaxChunks
        /\ \A k \in i..(e - 1) : q[k].kind = "chunk"
        /\ \A k \in i..e : q[k].turn = q[e].turn
    BY <1>2 DEF EndsAt
  <2>2. e \in i..Len(r) /\ r[e] = q[e]
    BY <1>1, <2>1, Sizes
  <2>3. \A k \in i..e : r[k] = q[k]
    <3>1. \A k \in i..e : k \in 1..Len(q)
      BY <1>1, <2>1
    <3>2. QED
      BY <1>1, <3>1
  <2>4. \A k \in i..(e - 1) : k \in i..e
    BY <2>1
  <2>5. /\ \A k \in i..(e - 1) : r[k].kind = "chunk"
        /\ \A k \in i..e : r[k].turn = r[e].turn
    BY <2>1, <2>2, <2>3, <2>4
  <2>6. QED
    BY <2>1, <2>2, <2>5 DEF EndsAt
<1>3. ASSUME NEW i \in (Len(q) + 1)..Len(r)
      PROVE  EndsAt(r, i, Len(r))
  <2>1. ASSUME NEW k \in i..(Len(r) - 1)
        PROVE  r[k].kind = "chunk" /\ r[k].turn = b.turn
    <3>1. k - Len(q) \in 1..Len(c) /\ Len(q) + (k - Len(q)) = k
      BY <1>1
    <3>2. r[k] = c[k - Len(q)]
      BY <1>1a, <3>1
    <3>3. QED
      BY <3>1, <3>2
  <2>2. r[Len(r)] = b /\ Len(r) \in i..Len(r) /\ Len(r) - i <= MaxChunks
    BY <1>1, Sizes
  <2>3. \A k \in i..Len(r) : r[k].turn = b.turn
    <3>1. i \in Int /\ Len(r) \in Int
      BY <1>1
    <3>2. ASSUME NEW k \in i..Len(r)
          PROVE  k \in i..(Len(r) - 1) \/ k = Len(r)
      BY <3>1
    <3>3. QED
      BY <2>1, <2>2, <3>2
  <2>4. QED
    BY <2>1, <2>2, <2>3 DEF EndsAt
<1>4. QED
  BY <1>1, <1>2, <1>3 DEF r

LEMMA ProcessorChunkStep ==
  ASSUME Types, ProcessorIInv, ProcessChunk
  PROVE  ProcessorIInv'
<1> DEFINE q == lm_response
           r == Tail(q)
           t == q[1].turn
<1>1. /\ q \in Seq(Answer) /\ q # <<>> /\ r \in Seq(Answer) /\ lm_response' = r
      /\ Len(q) \in Nat \ {0} /\ Len(r) = Len(q) - 1
      /\ \A k \in 1..Len(r) : r[k] = q[k + 1]
      /\ q[1] \in Answer /\ q[1].kind = "chunk"
      /\ gens' = [gens EXCEPT ![t] = IF @ = NoGen THEN generation ELSE @]
      /\ buffers' = [buffers EXCEPT ![t] = @ + 1]
  BY Shortened DEF Types, Queues, ProcessChunk
<1>2. t \in Ids
  BY <1>1 DEF Answer
<1>3. /\ buffers \in [Ids -> Nat] /\ DOMAIN gens = Ids
  BY DEF Types, Maps
<1>4. PICK e \in Nat : EndsAt(q, 1, e) /\ buffers[t] + e - 1 <= MaxChunks
  BY <1>1 DEF ProcessorIInv
<1>5. e \in 2..Len(q) /\ q[2].turn = t
  <2>1. e \in 1..Len(q) /\ e # 1
    BY <1>1, <1>4 DEF EndsAt
  <2>2. q[1].turn = q[e].turn /\ q[2].turn = q[e].turn
    BY <1>1, <1>4, <2>1 DEF EndsAt
  <2>3. QED
    BY <2>1, <2>2
<1> HIDE DEF t
<1>6. r # <<>> /\ Len(r) >= 1 /\ r[1].turn = t
  <2> HIDE DEF r, q
  <2>1. Len(r) >= 1 /\ 1 \in 1..Len(r)
    BY <1>1, <1>5
  <2>2. r[1] = q[2]
    BY <1>1, <2>1
  <2>3. QED
    BY <1>1, <1>5, <2>1, <2>2
<1>7. buffers'[t] = buffers[t] + 1 /\ \A u \in Ids \ {t} : buffers'[u] = buffers[u] /\ gens'[u] = gens[u]
  BY <1>1, <1>2, <1>3
<1>8. \A i \in 1..Len(r) : \E f \in Nat : EndsAt(r, i, f)
  <2> SUFFICES ASSUME NEW i \in 1..Len(r)
               PROVE  \E f \in Nat : EndsAt(r, i, f)
    OBVIOUS
  <2>1. PICK f \in Nat : EndsAt(q, i + 1, f)
    <3>1. i + 1 \in 1..Len(q)
      BY <1>1
    <3>2. QED
      BY <3>1 DEF ProcessorIInv
  <2>2. QED
    BY <1>1, <2>1, EndsInTail
<1>9. e - 1 \in Nat /\ EndsAt(r, 1, e - 1)
  <2>1. EndsAt(q, 1 + 1, e)
    <3>1. e - 2 <= MaxChunks
      BY <1>4, <1>5, Sizes DEF EndsAt
    <3>2. QED
      BY <1>4, <1>5, <3>1 DEF EndsAt
  <2>2. 1 \in 1..Len(r)
    BY <1>1, <1>6
  <2>3. QED
    BY <1>1, <2>1, <2>2, EndsInTail
<1>10. buffers'[t] + (e - 1) - 1 <= MaxChunks
  <2>1. buffers[t] \in Nat
    BY <1>2, <1>3
  <2>2. QED
    BY <1>4, <1>5, <1>7, <2>1, Sizes
<1>11. \A u \in Ids : (buffers'[u] > 0 \/ gens'[u] # NoGen) => u = t
  BY <1>7 DEF ProcessorIInv, t
<1> HIDE DEF r, q
<1>12. QED
  BY <1>1, <1>6, <1>8, <1>9, <1>10, <1>11 DEF ProcessorIInv

LEMMA ProcessorEndStep ==
  ASSUME Types, ProcessorIInv, ProcessEnd
  PROVE  ProcessorIInv' /\ \A t \in Ids : buffers'[t] = 0 /\ gens'[t] = NoGen
<1> DEFINE q == lm_response
           r == Tail(q)
           t == q[1].turn
<1>1. /\ q \in Seq(Answer) /\ q # <<>> /\ r \in Seq(Answer) /\ lm_response' = r
      /\ Len(q) \in Nat \ {0} /\ Len(r) = Len(q) - 1
      /\ \A k \in 1..Len(r) : r[k] = q[k + 1] /\ q[k + 1] \in Answer
      /\ gens' = [gens EXCEPT ![t] = NoGen]
      /\ buffers' = [buffers EXCEPT ![t] = 0]
  <2>1. q \in Seq(Answer) /\ q # <<>> /\ lm_response' = r
    BY DEF Types, Queues, ProcessEnd
  <2>2. /\ r \in Seq(Answer) /\ Len(q) \in Nat \ {0} /\ Len(r) = Len(q) - 1 /\ Head(q) = q[1]
        /\ \A k \in 1..Len(r) : r[k] = q[k + 1]
    BY <2>1, Shortened
  <2>3. \A k \in 1..Len(r) : q[k + 1] \in Answer
    BY <2>1, <2>2
  <2>4. gens' = [gens EXCEPT ![t] = NoGen] /\ buffers' = [buffers EXCEPT ![t] = 0]
    BY <2>2 DEF ProcessEnd, ForgetText, ForgetGen
  <2>5. QED
    BY <2>1, <2>2, <2>3, <2>4
<1>2. buffers \in [Ids -> Nat] /\ DOMAIN gens = Ids
  BY DEF Types, Maps
<1>3. \A u \in Ids : buffers'[u] = 0 /\ gens'[u] = NoGen
  <2> SUFFICES ASSUME NEW u \in Ids
               PROVE  buffers'[u] = 0 /\ gens'[u] = NoGen
    OBVIOUS
  <2>1. CASE u = t
    BY <1>1, <1>2, <2>1
  <2>2. CASE u # t
    <3>1. ~(buffers[u] > 0) /\ gens[u] = NoGen /\ buffers[u] \in Nat
      BY <1>2, <2>2 DEF ProcessorIInv
    <3>2. buffers'[u] = buffers[u] /\ gens'[u] = gens[u]
      BY <1>1, <1>2, <2>2
    <3>3. QED
      BY <3>1, <3>2
  <2>3. QED
    BY <2>1, <2>2
<1>4. \A i \in 1..Len(r) : \E f \in Nat : EndsAt(r, i, f)
  <2> SUFFICES ASSUME NEW i \in 1..Len(r)
               PROVE  \E f \in Nat : EndsAt(r, i, f)
    OBVIOUS
  <2>1. PICK f \in Nat : EndsAt(q, i + 1, f)
    <3>1. i + 1 \in 1..Len(q)
      BY <1>1
    <3>2. QED
      BY <3>1 DEF ProcessorIInv
  <2>2. QED
    BY <1>1, <2>1, EndsInTail
<1>5. r # <<>> => \E e \in Nat : EndsAt(r, 1, e) /\ buffers'[r[1].turn] + e - 1 <= MaxChunks
  <2> SUFFICES ASSUME r # <<>>
               PROVE  \E e \in Nat : EndsAt(r, 1, e) /\ buffers'[r[1].turn] + e - 1 <= MaxChunks
    OBVIOUS
  <2>1. 1 \in 1..Len(r)
    BY <1>1
  <2>2. PICK e \in Nat : EndsAt(r, 1, e)
    BY <1>4, <2>1
  <2>3. r[1].turn \in Ids
    BY <1>1, <2>1 DEF Answer
  <2>4. buffers'[r[1].turn] = 0 /\ e - 1 <= MaxChunks
    BY <1>3, <2>2, <2>3 DEF EndsAt
  <2>5. 0 + e - 1 <= MaxChunks
    BY <2>4
  <2>6. QED
    BY <2>2, <2>4, <2>5
<1> HIDE DEF r, q
<1>6. QED
  BY <1>1, <1>3, <1>4, <1>5 DEF ProcessorIInv

LEMMA ProcessorFinishStep ==
  ASSUME Types, ProcessorIInv, LLMFinish
  PROVE  ProcessorIInv'
<1> DEFINE Out(kind) == [kind |-> kind, turn |-> llm.turn, src |-> llm.src, gen0 |-> llm.gen]
           q == lm_response
           c == Pieces(llm.chunks, Out("chunk"))
           r == WithAnswer(q, c, Out("end"))
<1>1. /\ llm.turn \in Ids /\ llm.src \in Sources /\ llm.gen \in Nat /\ llm.chunks \in 0..MaxChunks
  BY DEF Types, Threads, LLMFinish, Idle, Streaming
<1>2. Out("chunk") \in Answer /\ Out("end") \in Answer
      /\ Out("chunk").kind = "chunk" /\ Out("end").kind = "end" /\ Out("chunk").turn = Out("end").turn
      /\ Out("end").turn = llm.turn
  BY <1>1 DEF Answer
<1>3. lm_response' = r /\ UNCHANGED <<buffers, gens>>
  BY DEF LLMFinish, procVars, WithAnswer, Pieces
<1> HIDE DEF Out
<1>4. /\ q \in Seq(Answer) /\ Len(q) \in Nat
      /\ \A i \in 1..Len(q) : \E e \in Nat : EndsAt(q, i, e)
  <2>1. q \in Seq(Answer)
    BY DEF Types, Queues
  <2>2. \A i \in 1..Len(q) : \E e \in Nat : EndsAt(q, i, e)
    BY DEF ProcessorIInv
  <2>3. QED
    BY <2>1, <2>2
<1>4a. /\ c \in Seq(Answer) /\ Len(c) = llm.chunks /\ Len(c) <= MaxChunks
      /\ \A k \in 1..Len(c) : c[k].kind = "chunk" /\ c[k].turn = Out("end").turn
  <2>1. llm.chunks \in Nat /\ llm.chunks <= MaxChunks
    BY <1>1, Sizes
  <2>2. /\ c \in Seq(Answer) /\ Len(c) = llm.chunks
        /\ \A k \in 1..llm.chunks : c[k] = Out("chunk")
    BY <1>2, <2>1, PiecesAre
  <2> HIDE DEF c
  <2>3. QED
    BY <1>2, <2>1, <2>2
<1> HIDE DEF c
<1>5. /\ r \in Seq(Answer) /\ Len(r) = Len(q) + llm.chunks + 1
      /\ \A i \in 1..Len(q) : r[i] = q[i]
      /\ \A i \in 1..Len(q), e \in Nat : EndsAt(q, i, e) => EndsAt(r, i, e)
      /\ \A i \in (Len(q) + 1)..Len(r) : EndsAt(r, i, Len(r))
  <2>1. r \in Seq(Answer) /\ Len(r) = Len(q) + Len(c) + 1 /\ \A i \in 1..Len(q) : r[i] = q[i]
    BY <1>2, <1>4, <1>4a, EndsInJoined
  <2>2. \A i \in 1..Len(q), e \in Nat : EndsAt(q, i, e) => EndsAt(r, i, e)
    BY <1>2, <1>4, <1>4a, EndsInJoined
  <2>3. \A i \in (Len(q) + 1)..Len(r) : EndsAt(r, i, Len(r))
    BY <1>2, <1>4, <1>4a, EndsInJoined
  <2>4. QED
    BY <1>4a, <2>1, <2>2, <2>3
<1> HIDE DEF r
<1>6. Len(r) \in Nat \ {0} /\ llm.chunks \in Nat /\ r # <<>>
  BY <1>1, <1>4, <1>5, Sizes
<1>7. \A i \in 1..Len(r) : \E e \in Nat : EndsAt(r, i, e)
  <2> SUFFICES ASSUME NEW i \in 1..Len(r)
               PROVE  \E e \in Nat : EndsAt(r, i, e)
    OBVIOUS
  <2>1. CASE i \in 1..Len(q)
    BY <1>4, <1>5, <2>1
  <2>2. CASE i \in (Len(q) + 1)..Len(r)
    BY <1>5, <1>6, <2>2
  <2>3. QED
    BY <1>4, <1>6, <2>1, <2>2
<1>8. CASE q = <<>>
  <2>1. \A u \in Ids : buffers[u] = 0 /\ gens[u] = NoGen
    BY <1>8 DEF Types, Maps, ProcessorIInv
  <2>2. EndsAt(r, 1, Len(r)) /\ r[1] \in Answer
    BY <1>4, <1>5, <1>6, <1>8
  <2>3. r[1].turn \in Ids
    BY <2>2 DEF Answer
  <2>4. buffers[r[1].turn] + Len(r) - 1 <= MaxChunks
    <3>1. buffers[r[1].turn] = 0 /\ Len(r) - 1 <= MaxChunks
      BY <2>1, <2>2, <2>3 DEF EndsAt
    <3>2. QED
      BY <1>6, <3>1
  <2>5. QED
    BY <1>3, <1>6, <1>7, <2>1, <2>2, <2>4 DEF ProcessorIInv
<1>9. CASE q # <<>>
  <2>1. 1 \in 1..Len(q) /\ r[1] = q[1]
    BY <1>4, <1>5, <1>9
  <2>2. PICK e \in Nat : EndsAt(q, 1, e) /\ buffers[q[1].turn] + e - 1 <= MaxChunks
    BY <1>9 DEF ProcessorIInv
  <2>3. EndsAt(r, 1, e)
    BY <1>5, <2>1, <2>2
  <2>4. QED
    BY <1>3, <1>6, <1>7, <2>1, <2>2, <2>3 DEF ProcessorIInv
<1>10. QED
  BY <1>8, <1>9

LEMMA ProcessorStep == Types /\ ProcessorIInv /\ [PipelineNext]_pipelineVars => ProcessorIInv'
<1> SUFFICES ASSUME Types, ProcessorIInv, [PipelineNext]_pipelineVars
             PROVE  ProcessorIInv'
  OBVIOUS
<1>1. CASE UNCHANGED <<lm_response, buffers, gens>>
  BY <1>1 DEF ProcessorIInv
<1>2. CASE UNCHANGED pipelineVars
  BY <1>1, <1>2 DEF pipelineVars, llmVars, procVars
<1>3. CASE Speak
  BY <1>1, <1>3 DEF Speak, llmVars, procVars
<1>4. CASE STTTake \/ STTResult \/ Notify \/ LLMTake \/ LLMText \/ LLMToolCall \/ LLMRaises
  BY <1>1, <1>4 DEF STTTake, STTResult, Notify, LLMTake, LLMText, LLMToolCall, LLMRaises, llmVars,
                    procVars
<1>5. CASE TTSTake \/ TTSPiece \/ TTSSend \/ TTSFinish \/ TTSRaises
  BY <1>1, <1>5 DEF TTSTake, TTSPiece, TTSSend, TTSFinish, TTSRaises, llmVars, procVars
<1>6. CASE ServiceCancels \/ ServicePrompts \/ ServiceAnswersCall
  BY <1>1, <1>6 DEF ServiceCancels, ServicePrompts, ServiceAnswersCall, llmVars, procVars
<1>7. QED
  BY <1>2, <1>3, <1>4, <1>5, <1>6, ProcessorChunkStep, ProcessorEndStep, ProcessorFinishStep
  DEF PipelineNext, Handlers

LEMMA ProcessorInit == PipelineInit => ProcessorIInv
BY DEF PipelineInit, ProcessorIInv

LEMMA ProcessorIsClean == Types /\ ProcessorIInv => ProcessorClean
<1> SUFFICES ASSUME Types, ProcessorIInv, NEW t \in Ids, buffers[t] > 0 \/ gens[t] # NoGen
             PROVE  /\ lm_response # <<>>
                    /\ Head(lm_response).turn = t
                    /\ \E i \in 1..Len(lm_response) :
                          lm_response[i].kind = "end" /\ lm_response[i].turn = t
  BY DEF ProcessorClean
<1>1. /\ lm_response \in Seq(Answer) /\ lm_response # <<>> /\ lm_response[1].turn = t
  BY DEF Types, Queues, ProcessorIInv
<1>2. Head(lm_response) = lm_response[1] /\ Len(lm_response) \in Nat \ {0}
  BY <1>1, Shortened
<1>3. PICK e \in Nat : EndsAt(lm_response, 1, e)
  BY <1>1 DEF ProcessorIInv
<1>4. e \in 1..Len(lm_response) /\ lm_response[e].kind = "end" /\ lm_response[e].turn = t
  BY <1>1, <1>3 DEF EndsAt
<1>5. QED
  BY <1>1, <1>2, <1>4

\* The processor's maps, keyed by turn ids that the VAD and the service both
\* hand out, hold nothing between two answers: no text and no generation of an
\* earlier answer under the same id can leak into the next.
THEOREM PipelineProcessorClean == PipelineSpec => []ProcessorClean
BY ProcessorIsClean, TypesInit, TypesStep, ProcessorInit, ProcessorStep, PTL DEF PipelineSpec

\* Every variable keeps its type; that a buffer never holds more pieces than one
\* answer has rests on the order of the processor's queue.
THEOREM PipelineTypes == PipelineSpec => []PipelineTypeOK
<1>1. Types /\ ProcessorIInv /\ LateIInv /\ NotedIInv => PipelineTypeOK
  <2> SUFFICES ASSUME Types, ProcessorIInv, LateIInv, NotedIInv
               PROVE  PipelineTypeOK
    OBVIOUS
  <2>1. Scalars /\ Queues /\ Threads /\ Maps
    BY DEF Types
  <2>2. generation \in Gen /\ \A g \in Nat : g <= generation => g \in Gen
    BY <2>1, Sizes DEF NotedIInv, Scalars, Turn, Gen
  <2>3. /\ spoken_prompt \in Seq([mode : {"progressive", "final"}, turn : Turn])
        /\ stt_output \in Seq(Turn)
    <3>1. Heard \subseteq [mode : {"progressive", "final"}, turn : Turn] /\ Opened \subseteq Turn
      BY OpenedIds DEF Heard
    <3>2. spoken_prompt \in Seq(Heard) /\ stt_output \in Seq(Opened)
      BY <2>1 DEF Queues
    <3>3. QED
      BY <3>1, <3>2, Widened
  <2>4. stt = Idle \/ stt \in [pc : {"decoding"}, mode : {"progressive", "final"},
                               turn : Turn, gen : Gen]
    BY <2>1, <2>2, OpenedIds DEF Threads, Decoding, NotedIInv
  <2>5. buffers \in [Ids -> 0..MaxChunks]
    <3>1. ASSUME NEW t \in Ids
          PROVE  buffers[t] \in 0..MaxChunks
      <4>1. buffers[t] \in Nat
        BY <2>1 DEF Maps
      <4>2. CASE buffers[t] > 0
        <5>1. PICK e \in Nat : EndsAt(lm_response, 1, e) /\ buffers[t] + e - 1 <= MaxChunks
          BY <4>2 DEF ProcessorIInv
        <5>2. e >= 1
          BY <5>1 DEF EndsAt
        <5>3. QED
          BY <4>1, <5>1, <5>2, Sizes
      <4>3. QED
        BY <4>1, <4>2, Sizes
    <3>2. QED
      BY <2>1, <3>1 DEF Maps
  <2>6. /\ text_prompt \in Seq(Ghost)
        /\ lm_processed \in Seq([turn : Ids, src : Sources, barged : BOOLEAN])
        /\ audio_out \in Seq([kind : {"audio", "done"}, turn : Ids, src : Sources])
    BY <2>1 DEF Queues, ForTTS, Sound
  <2>7. lm_response \in Seq([kind : {"chunk", "end"}, turn : Ids, src : Sources, gen0 : Gen])
    <3> DEFINE S == [kind : {"chunk", "end"}, turn : Ids, src : Sources, gen0 : Gen]
    <3>1. lm_response \in Seq(Answer)
      BY <2>1 DEF Queues
    <3>2. \A i \in 1..Len(lm_response) : lm_response[i] \in Answer /\ lm_response[i].gen0 <= generation
      BY <3>1 DEF NotedIInv
    <3>3. \A m \in Answer : m.gen0 <= generation => m \in S
      BY <2>2 DEF Answer
    <3>4. \A i \in 1..Len(lm_response) : lm_response[i] \in S
      BY <3>2, <3>3
    <3> HIDE DEF S
    <3>5. lm_response \in Seq(S)
      BY <3>1, <3>4
    <3>6. QED
      BY <3>5 DEF S
  <2>8. gens \in [Ids -> Gen \cup {NoGen}]
    <3>1. gens \in [Ids -> Nat \cup {NoGen}] /\ \A t \in Ids : gens[t] <= generation
      BY <2>1 DEF Maps, NotedIInv
    <3>2. \A t \in Ids : gens[t] \in Gen \cup {NoGen}
      BY <2>2, <3>1
    <3> HIDE DEF Gen, NoGen
    <3>3. QED
      BY <3>1, <3>2
  <2>9. llm = Idle \/ llm \in [pc : {"streaming", "hung"}, turn : Ids, src : Sources, gen : Gen,
                               chunks : 0..MaxChunks, tool : BOOLEAN]
    BY <2>1, <2>2 DEF Threads, Streaming, NotedIInv
  <2>10. tts = Idle \/ tts \in [pc : {"synthesising", "sending"}, turn : Ids, src : Sources,
                                gen : Gen, pieces : 0..MaxAudio, late : Nat]
    BY <2>1, <2>2 DEF Threads, Speaking, LateIInv
  <2>11. QED
    BY <2>1, <2>2, <2>3, <2>4, <2>5, <2>6, <2>7, <2>8, <2>9, <2>10
    DEF PipelineTypeOK, Scalars
<1>2. QED
  BY <1>1, TypesInit, TypesStep, ProcessorInit, ProcessorStep, LateInit, LateStep, NotedInit,
     NotedStep, PTL DEF PipelineSpec

-----------------------------------------------------------------------------
\* The log s holds an event of this type for this turn; it does so before i.
Holds(s, type, t) == \E k \in 1..Len(s) : s[k].type = type /\ s[k].turn = t
HoldsBefore(s, i, type, t) == \E k \in 1..(i - 1) : s[k].type = type /\ s[k].turn = t

\* CausalOrder, for any log, and what it asks of an event that is added.
Causal(s) ==
    \A i \in 1..Len(s) :
        /\ s[i].type = "transcript" =>
              /\ HoldsBefore(s, i, "speech_stopped", s[i].turn)
              /\ \A t \in s[i].turn..MaxTurns : ~HoldsBefore(s, i, "transcript", t)
        /\ s[i].type = "partial" =>
              /\ HoldsBefore(s, i, "speech_started", s[i].turn)
              /\ ~HoldsBefore(s, i, "transcript", s[i].turn)
        /\ s[i].type \in {"text", "call", "usage"} /\ s[i].src = "vad" =>
              HoldsBefore(s, i, "transcript", s[i].turn)

MayAdd(s, e) ==
    /\ e.type = "transcript" =>
          /\ Holds(s, "speech_stopped", e.turn)
          /\ \A t \in e.turn..MaxTurns : ~Holds(s, "transcript", t)
    /\ e.type = "partial" =>
          /\ Holds(s, "speech_started", e.turn)
          /\ ~Holds(s, "transcript", e.turn)
    /\ e.type \in {"text", "call", "usage"} /\ e.src = "vad" => Holds(s, "transcript", e.turn)

LEMMA HoldsGrows ==
  ASSUME NEW s \in Seq(Said), NEW e \in Said, NEW type, NEW t
  PROVE  Holds(Append(s, e), type, t) <=> Holds(s, type, t) \/ (e.type = type /\ e.turn = t)
<1> DEFINE r == Append(s, e)
<1>1. /\ Len(r) = Len(s) + 1 /\ Len(s) \in Nat /\ r[Len(s) + 1] = e
      /\ \A i \in 1..Len(s) : r[i] = s[i]
  BY Appended
<1> HIDE DEF r
<1>2. Holds(r, type, t) => Holds(s, type, t) \/ (e.type = type /\ e.turn = t)
  <2> SUFFICES ASSUME NEW k \in 1..Len(r), r[k].type = type, r[k].turn = t
               PROVE  Holds(s, type, t) \/ (e.type = type /\ e.turn = t)
    BY DEF Holds
  <2>1. CASE k \in 1..Len(s)
    BY <1>1, <2>1 DEF Holds
  <2>2. CASE k = Len(s) + 1
    BY <1>1, <2>2
  <2>3. QED
    BY <1>1, <2>1, <2>2
<1>3. Holds(s, type, t) => Holds(r, type, t)
  <2> SUFFICES ASSUME NEW k \in 1..Len(s), s[k].type = type, s[k].turn = t
               PROVE  Holds(r, type, t)
    BY DEF Holds
  <2>1. k \in 1..Len(r) /\ r[k] = s[k]
    BY <1>1
  <2>2. QED
    BY <2>1 DEF Holds
<1>4. e.type = type /\ e.turn = t => Holds(r, type, t)
  <2>1. Len(s) + 1 \in 1..Len(r)
    BY <1>1
  <2>2. QED
    BY <1>1, <2>1 DEF Holds
<1>5. QED
  BY <1>2, <1>3, <1>4 DEF r

LEMMA CausalAppend ==
  ASSUME NEW s \in Seq(Said), NEW e \in Said, Causal(s), MayAdd(s, e)
  PROVE  Causal(Append(s, e))
<1> DEFINE r == Append(s, e)
<1>1. /\ Len(r) = Len(s) + 1 /\ Len(s) \in Nat /\ r[Len(s) + 1] = e
      /\ \A i \in 1..Len(s) : r[i] = s[i]
  BY Appended
<1> HIDE DEF r
<1>2. ASSUME NEW i \in 1..Len(s), NEW type, NEW t
      PROVE  HoldsBefore(r, i, type, t) <=> HoldsBefore(s, i, type, t)
  <2>1. \A k \in 1..(i - 1) : r[k] = s[k]
    BY <1>1
  <2>2. QED
    BY <2>1 DEF HoldsBefore
<1>3. ASSUME NEW type, NEW t
      PROVE  HoldsBefore(r, Len(s) + 1, type, t) <=> Holds(s, type, t)
  <2>1. (Len(s) + 1) - 1 = Len(s) /\ \A k \in 1..Len(s) : r[k] = s[k]
    BY <1>1
  <2>2. QED
    BY <2>1 DEF HoldsBefore, Holds
<1>4. ASSUME NEW i \in 1..Len(r)
      PROVE  /\ r[i].type = "transcript" =>
                  /\ HoldsBefore(r, i, "speech_stopped", r[i].turn)
                  /\ \A t \in r[i].turn..MaxTurns : ~HoldsBefore(r, i, "transcript", t)
             /\ r[i].type = "partial" =>
                  /\ HoldsBefore(r, i, "speech_started", r[i].turn)
                  /\ ~HoldsBefore(r, i, "transcript", r[i].turn)
             /\ r[i].type \in {"text", "call", "usage"} /\ r[i].src = "vad" =>
                  HoldsBefore(r, i, "transcript", r[i].turn)
  <2>1. CASE i \in 1..Len(s)
    <3>1. r[i] = s[i]
      BY <1>1, <2>1
    <3>2. QED
      BY <1>2, <2>1, <3>1 DEF Causal
  <2>2. CASE i = Len(s) + 1
    <3>1. r[i] = e
      BY <1>1, <2>2
    <3>2. QED
      BY <1>3, <2>2, <3>1 DEF MayAdd
  <2>3. QED
    BY <1>1, <2>1, <2>2
<1>5. QED
  BY <1>4 DEF Causal, r

\* What every step adds to the log, and that it adds a transcript only in Notify.
LEMMA LogStep ==
  ASSUME Types, [PipelineNext]_pipelineVars
  PROVE  /\ text_out \in Seq(Said)
         /\ \/ text_out' = text_out
            \/ \E e \in Said : text_out' = Append(text_out, e) /\ (e.type = "transcript" => Notify)
            \/ \E a, b \in Said : /\ text_out' = Append(Append(text_out, a), b)
                                  /\ a.type # "transcript" /\ b.type # "transcript"
<1>1. text_out \in Seq(Said)
  BY DEF Types, Queues
<1>2. CASE UNCHANGED text_out
  BY <1>1, <1>2
<1>3. CASE UNCHANGED pipelineVars
  BY <1>2, <1>3 DEF pipelineVars, tsVars
<1>4. CASE STTTake \/ LLMTake \/ LLMText \/ LLMToolCall \/ LLMRaises \/ ProcessEnd \/ TTSTake
           \/ TTSPiece \/ TTSSend \/ TTSFinish \/ TTSRaises
  BY <1>2, <1>4 DEF STTTake, LLMTake, LLMText, LLMToolCall, LLMRaises, ProcessEnd, TTSTake,
                    TTSPiece, TTSSend, TTSFinish, TTSRaises, tsVars
<1>5. CASE ServiceCancels \/ ServicePrompts \/ ServiceAnswersCall
  BY <1>2, <1>5 DEF ServiceCancels, ServicePrompts, ServiceAnswersCall, tsVars
<1>6. CASE Speak
  <2>1. \/ text_out' = text_out
        \/ turn_id' \in Opened /\ text_out' = Append(text_out, Event("speech_started", turn_id'))
        \/ turn_id \in Opened /\ text_out' = Append(text_out, Event("speech_stopped", turn_id))
    <3>1. Types'
      BY <1>6, TypesSpeak
    <3>2. QED
      BY <1>6, <3>1 DEF Types, Scalars, Speak, StartTurn, ProgressTurn, EndTurn, DropTurn
  <2>2. \A t : Event("speech_started", t).type # "transcript"
               /\ Event("speech_stopped", t).type # "transcript"
    BY DEF Event
  <2>3. QED
    BY <1>1, <2>1, <2>2, SaidType
<1>7. CASE STTResult
  <2>1. Say("partial", stt.turn, "vad") \in Said
    <3>1. stt.turn \in Ids
      BY <1>7, OpenedIds DEF Types, Threads, STTResult, Idle, Decoding
    <3>2. QED
      BY <3>1, SaidType DEF Sources
  <2>2. text_out' = text_out \/ text_out' = Append(text_out, Say("partial", stt.turn, "vad"))
    BY <1>7 DEF STTResult
  <2>3. Say("partial", stt.turn, "vad").type # "transcript"
    BY DEF Say
  <2>4. QED
    BY <1>1, <2>1, <2>2, <2>3
<1>8. CASE Notify
  <2>1. Head(stt_output) \in Ids
    BY <1>8, Shortened, OpenedIds DEF Types, Queues, Notify
  <2>2. Say("transcript", Head(stt_output), "vad") \in Said
    BY <2>1, SaidType DEF Sources
  <2>3. text_out' = Append(text_out, Say("transcript", Head(stt_output), "vad"))
    BY <1>8 DEF Notify
  <2>4. QED
    BY <1>1, <1>8, <2>2, <2>3
<1>9. CASE LLMFinish
  <2> DEFINE a == Say("call", llm.turn, llm.src)
             b == Say("usage", llm.turn, llm.src)
  <2>1. a \in Said /\ b \in Said /\ a.type # "transcript" /\ b.type # "transcript"
        /\ llm.tool \in BOOLEAN
    <3>1. llm.turn \in Ids /\ llm.src \in Sources /\ llm.tool \in BOOLEAN
      BY <1>9 DEF Types, Threads, LLMFinish, Idle, Streaming
    <3>2. QED
      BY <3>1, SaidType DEF Say
  <2>2. text_out' = text_out \o (IF llm.tool THEN <<a>> ELSE <<>>) \o <<b>>
    BY <1>9 DEF LLMFinish
  <2> HIDE DEF a, b
  <2>3. text_out' = Append(IF llm.tool THEN Append(text_out, a) ELSE text_out, b)
    BY <1>1, <2>1, <2>2, SaidTwice
  <2>4. QED
    BY <1>1, <2>1, <2>3
<1>10. CASE ProcessChunk
  <2>1. Head(lm_response) \in Answer
    BY <1>10, Shortened DEF Types, Queues, ProcessChunk
  <2>2. Say("text", Head(lm_response).turn, Head(lm_response).src) \in Said
    <3>1. Head(lm_response).turn \in Ids /\ Head(lm_response).src \in Sources
      BY <2>1 DEF Answer
    <3>2. QED
      BY <3>1, SaidType
  <2>3. /\ text_out' = Append(text_out, Say("text", Head(lm_response).turn, Head(lm_response).src))
        /\ Say("text", Head(lm_response).turn, Head(lm_response).src).type # "transcript"
    BY <1>10 DEF ProcessChunk, Say
  <2>4. QED
    BY <1>1, <2>2, <2>3
<1>11. QED
  BY <1>3, <1>4, <1>5, <1>6, <1>7, <1>8, <1>9, <1>10 DEF PipelineNext, Handlers

\* The log never loses an event.
LEMMA LogKeeps ==
  ASSUME Types, [PipelineNext]_pipelineVars, NEW type, NEW t
  PROVE  /\ Holds(text_out, type, t) => Holds(text_out', type, t)
         /\ ~Notify /\ Holds(text_out', "transcript", t) => Holds(text_out, "transcript", t)
<1>1. text_out \in Seq(Said)
  BY LogStep
<1>2. CASE text_out' = text_out
  BY <1>2
<1>3. ASSUME NEW e \in Said, text_out' = Append(text_out, e), e.type = "transcript" => Notify
      PROVE  /\ Holds(text_out, type, t) => Holds(text_out', type, t)
             /\ ~Notify /\ Holds(text_out', "transcript", t) => Holds(text_out, "transcript", t)
  BY <1>1, <1>3, HoldsGrows
<1>4. ASSUME NEW a \in Said, NEW b \in Said, text_out' = Append(Append(text_out, a), b),
             a.type # "transcript", b.type # "transcript"
      PROVE  /\ Holds(text_out, type, t) => Holds(text_out', type, t)
             /\ ~Notify /\ Holds(text_out', "transcript", t) => Holds(text_out, "transcript", t)
  <2>1. Append(text_out, a) \in Seq(Said)
    BY <1>1, <1>4, Appended
  <2>2. QED
    BY <1>1, <1>4, <2>1, HoldsGrows
<1>5. QED
  BY <1>2, <1>3, <1>4, LogStep

-----------------------------------------------------------------------------
\* Turn t, whose final segment is out or not, is not ahead of the user, who is at
\* turn u and speaks or not, of the segments p that wait for the STT, of the one
\* h in the STT, of the texts o behind it.
BehindUser(t, fin, u, speaks) == t <= u /\ (fin /\ speaks => t < u)
BehindSegment(t, fin, m) == t <= m.turn /\ (fin => t < m.turn)
BehindQueue(t, fin, u, speaks, p) ==
    BehindUser(t, fin, u, speaks) /\ \A j \in 1..Len(p) : BehindSegment(t, fin, p[j])
BehindSTT(t, u, speaks, p, h) ==
    BehindQueue(t, TRUE, u, speaks, p) /\ (h.pc = "decoding" => t < h.turn)
BehindTexts(t, u, speaks, p, h, o) ==
    BehindSTT(t, u, speaks, p, h) /\ \A j \in 1..Len(o) : t < o[j]

QueueOrder(u, speaks, p) ==
    /\ \A i \in 1..Len(p) : BehindUser(p[i].turn, p[i].mode = "final", u, speaks)
    /\ \A i, j \in 1..Len(p) : i < j => BehindSegment(p[i].turn, p[i].mode = "final", p[j])
STTOrder(u, speaks, p, h) ==
    h.pc = "decoding" => BehindQueue(h.turn, h.mode = "final", u, speaks, p)
TextOrder(u, speaks, p, h, o) ==
    /\ \A i \in 1..Len(o) : BehindSTT(o[i], u, speaks, p, h)
    /\ \A i, j \in 1..Len(o) : i < j => o[i] < o[j]
LogOrder(s, u, speaks, p, h, o) ==
    \A t \in Ids : Holds(s, "transcript", t) => BehindTexts(t, u, speaks, p, h, o)

\* Everything on the way from the VAD to the transcript keeps the order of turns.
ChainIInv ==
    /\ QueueOrder(turn_id, speech_started, spoken_prompt)
    /\ STTOrder(turn_id, speech_started, spoken_prompt, stt)
    /\ TextOrder(turn_id, speech_started, spoken_prompt, stt, stt_output)
    /\ LogOrder(text_out, turn_id, speech_started, spoken_prompt, stt, stt_output)

\* All that is still on the way to its transcript is of later turns than t.
BehindNow(t) == BehindTexts(t, turn_id, speech_started, spoken_prompt, stt, stt_output)

LEMMA ChainTypes ==
  ASSUME Types
  PROVE  /\ turn_id \in Nat /\ speech_started \in BOOLEAN
         /\ spoken_prompt \in Seq(Heard) /\ stt_output \in Seq(Opened)
         /\ Len(spoken_prompt) \in Nat /\ Len(stt_output) \in Nat
         /\ \A i \in 1..Len(spoken_prompt) : spoken_prompt[i].turn \in Nat
         /\ \A i \in 1..Len(stt_output) : stt_output[i] \in Nat
         /\ \A m \in Heard : m.turn \in Nat
         /\ \A t \in Opened : t \in Nat /\ t \in Ids
         /\ \A t \in Ids : t \in Nat
         /\ stt.pc = "decoding" => stt.turn \in Nat
<1>1. spoken_prompt \in Seq(Heard) /\ stt_output \in Seq(Opened)
  BY DEF Types, Queues
<1>2. turn_id \in Nat /\ speech_started \in BOOLEAN
  BY DEF Types, Scalars, Turn
<1>3. (\A m \in Heard : m.turn \in Nat) /\ (\A t \in Opened : t \in Nat) /\ (\A t \in Ids : t \in Nat)
  BY DEF Heard, Opened, Ids
<1>4. stt.pc = "decoding" => stt.turn \in Nat
  BY <1>3 DEF Types, Threads, Idle, Decoding
<1>5. /\ Len(spoken_prompt) \in Nat /\ Len(stt_output) \in Nat
      /\ \A i \in 1..Len(spoken_prompt) : spoken_prompt[i] \in Heard
      /\ \A i \in 1..Len(stt_output) : stt_output[i] \in Opened
  BY <1>1
<1>6. QED
  BY <1>1, <1>2, <1>3, <1>4, <1>5, OpenedIds

\* A segment of the user's turn put behind the others.
LEMMA QueueOrderAppend ==
  ASSUME NEW u \in Nat, NEW p \in Seq(Heard), NEW m \in Heard, m.turn = u, NEW b \in BOOLEAN,
         m.mode = "final" => ~b, QueueOrder(u, TRUE, p)
  PROVE  /\ QueueOrder(u, b, Append(p, m))
         /\ \A t \in Nat, fin \in BOOLEAN :
               BehindQueue(t, fin, u, TRUE, p) => BehindQueue(t, fin, u, b, Append(p, m))
<1> DEFINE q == Append(p, m)
<1>1. /\ Len(q) = Len(p) + 1 /\ Len(p) \in Nat /\ q[Len(p) + 1] = m
      /\ \A i \in 1..Len(p) : q[i] = p[i] /\ p[i] \in Heard
  BY Appended
<1>2. \A x \in Heard : x.turn \in Nat
  BY DEF Heard, Opened
<1> HIDE DEF q
<1>3. ASSUME NEW t \in Nat, NEW fin, BehindUser(t, fin, u, TRUE)
      PROVE  BehindUser(t, fin, u, b) /\ BehindSegment(t, fin, m)
  BY <1>2, <1>3 DEF BehindUser, BehindSegment
<1>4. ASSUME NEW t \in Nat, NEW fin \in BOOLEAN, BehindQueue(t, fin, u, TRUE, p)
      PROVE  BehindQueue(t, fin, u, b, q)
  <2>1. BehindUser(t, fin, u, b) /\ BehindSegment(t, fin, m)
    BY <1>3, <1>4 DEF BehindQueue
  <2>2. ASSUME NEW j \in 1..Len(q)
        PROVE  BehindSegment(t, fin, q[j])
    <3>1. CASE j \in 1..Len(p)
      BY <1>1, <1>4, <3>1 DEF BehindQueue
    <3>2. CASE j = Len(p) + 1
      BY <1>1, <2>1, <3>2
    <3>3. QED
      BY <1>1, <3>1, <3>2
  <2>3. QED
    BY <2>1, <2>2 DEF BehindQueue
<1>5. ASSUME NEW i \in 1..Len(q)
      PROVE  BehindUser(q[i].turn, q[i].mode = "final", u, b)
  <2>1. CASE i \in 1..Len(p)
    <3>1. /\ q[i] = p[i] /\ p[i].turn \in Nat
          /\ BehindUser(p[i].turn, p[i].mode = "final", u, TRUE)
      BY <1>1, <1>2, <2>1 DEF QueueOrder
    <3>2. QED
      BY <1>3, <3>1
  <2>2. CASE i = Len(p) + 1
    BY <1>1, <2>2 DEF BehindUser
  <2>3. QED
    BY <1>1, <2>1, <2>2
<1>6. ASSUME NEW i \in 1..Len(q), NEW j \in 1..Len(q), i < j
      PROVE  BehindSegment(q[i].turn, q[i].mode = "final", q[j])
  <2>1. /\ i \in 1..Len(p) /\ q[i] = p[i] /\ p[i].turn \in Nat
        /\ BehindUser(p[i].turn, p[i].mode = "final", u, TRUE)
    <3>1. i \in 1..Len(p)
      BY <1>1, <1>6
    <3>2. q[i] = p[i] /\ p[i].turn \in Nat
      BY <1>1, <1>2, <3>1
    <3>3. QED
      BY <3>1, <3>2 DEF QueueOrder
  <2>2. CASE j \in 1..Len(p)
    BY <1>1, <1>6, <2>1, <2>2 DEF QueueOrder
  <2>3. CASE j = Len(p) + 1
    BY <1>1, <1>3, <2>1, <2>3
  <2>4. QED
    BY <1>1, <2>2, <2>3
<1>7. QED
  BY <1>4, <1>5, <1>6 DEF QueueOrder, q

\* The user goes on to the next turn, or stops speaking.
LEMMA UserGoesOn ==
  ASSUME NEW u \in Nat, NEW v \in Nat, NEW a \in BOOLEAN, NEW b \in BOOLEAN, NEW p \in Seq(Heard),
         (v = u + 1) \/ (v = u /\ (b => a)), QueueOrder(u, a, p)
  PROVE  /\ QueueOrder(v, b, p)
         /\ \A t \in Nat, fin \in BOOLEAN :
               BehindQueue(t, fin, u, a, p) => BehindQueue(t, fin, v, b, p)
<1>1. ASSUME NEW t \in Nat, NEW fin, BehindUser(t, fin, u, a)
      PROVE  BehindUser(t, fin, v, b)
  BY <1>1 DEF BehindUser
<1>2. \A i \in 1..Len(p) : p[i].turn \in Nat
  <2>1. \A x \in Heard : x.turn \in Nat
    BY DEF Heard, Opened
  <2>2. \A i \in 1..Len(p) : p[i] \in Heard
    OBVIOUS
  <2>3. QED
    BY <2>1, <2>2
<1>3. QED
  BY <1>1, <1>2 DEF QueueOrder, BehindQueue

LEMMA ChainSpeak ==
  ASSUME Types, ChainIInv, Speak
  PROVE  ChainIInv' /\ \A t \in Ids : BehindNow(t) => BehindNow(t)'
<1> DEFINE p == spoken_prompt
           q == spoken_prompt'
           u == turn_id
           v == turn_id'
           a == speech_started
           b == speech_started'
<1>1. /\ UNCHANGED <<stt, stt_output>>
      /\ \A t : Holds(text_out', "transcript", t) => Holds(text_out, "transcript", t)
  <2>1. UNCHANGED <<stt, stt_output>> /\ ~Notify
    BY DEF Speak, sttVars, Notify
  <2>2. QED
    BY <2>1, LogKeeps DEF PipelineNext
<1>2. u \in Nat /\ v \in Nat /\ a \in BOOLEAN /\ b \in BOOLEAN /\ p \in Seq(Heard)
  <2>1. Types'
    BY TypesSpeak
  <2>2. v \in Nat /\ b \in BOOLEAN
    BY <2>1 DEF Types, Scalars, Turn
  <2>3. QED
    BY <2>2, ChainTypes
<1>3. QueueOrder(v, b, q) /\ \A t \in Nat, fin \in BOOLEAN :
                                BehindQueue(t, fin, u, a, p) => BehindQueue(t, fin, v, b, q)
  <2>1. \/ q = p /\ (v = u + 1 \/ (v = u /\ (b => a)))
        \/ /\ v = u /\ a
           /\ \E m \in Heard : q = Append(p, m) /\ m.turn = u /\ (m.mode = "final" => ~b)
    <3>1. CASE StartTurn
      BY <3>1 DEF StartTurn
    <3>2. CASE ProgressTurn
      <4>1. VADAudio("progressive", u) \in Heard /\ VADAudio("progressive", u).turn = u
            /\ VADAudio("progressive", u).mode # "final"
        BY <3>2 DEF ProgressTurn, VADAudio, Heard, Types, Scalars
      <4>2. QED
        BY <3>2, <4>1 DEF ProgressTurn
    <3>3. CASE EndTurn
      <4>1. VADAudio("final", u) \in Heard /\ VADAudio("final", u).turn = u
        BY <3>3 DEF EndTurn, VADAudio, Heard, Types, Scalars
      <4>2. QED
        BY <3>3, <4>1 DEF EndTurn
    <3>4. CASE DropTurn
      BY <3>4 DEF DropTurn
    <3>5. QED
      BY <3>1, <3>2, <3>3, <3>4 DEF Speak
  <2>2. QueueOrder(u, a, p)
    BY DEF ChainIInv
  <2>3. CASE q = p /\ (v = u + 1 \/ (v = u /\ (b => a)))
    <3> HIDE DEF p, q, u, v, a, b
    <3>1. QED
      BY <1>2, <2>2, <2>3, UserGoesOn
  <2>4. ASSUME v = u, a, NEW m \in Heard, q = Append(p, m), m.turn = u, m.mode = "final" => ~b
        PROVE  QueueOrder(v, b, q) /\ \A t \in Nat, fin \in BOOLEAN :
                                         BehindQueue(t, fin, u, a, p) => BehindQueue(t, fin, v, b, q)
    <3>1. a = TRUE
      BY <1>2, <2>4
    <3> HIDE DEF p, q, u, v, a, b
    <3>2. QED
      BY <1>2, <2>2, <2>4, <3>1, QueueOrderAppend
  <2>5. QED
    BY <2>1, <2>3, <2>4
<1>4. /\ STTOrder(v, b, q, stt) /\ TextOrder(v, b, q, stt, stt_output)
      /\ LogOrder(text_out', v, b, q, stt, stt_output)
      /\ \A t \in Ids : BehindTexts(t, u, a, p, stt, stt_output)
                              => BehindTexts(t, v, b, q, stt, stt_output)
  <2>1. /\ STTOrder(u, a, p, stt) /\ TextOrder(u, a, p, stt, stt_output)
        /\ LogOrder(text_out, u, a, p, stt, stt_output)
    BY DEF ChainIInv
  <2>2. /\ \A i \in 1..Len(stt_output) : stt_output[i] \in Nat
        /\ \A t \in Ids : t \in Nat
        /\ stt.pc = "decoding" => stt.turn \in Nat
    BY ChainTypes
  <2> HIDE DEF p, q, u, v, a, b
  <2>3. STTOrder(v, b, q, stt)
    <3>1. (stt.mode = "final") \in BOOLEAN
      OBVIOUS
    <3>2. QED
      BY <1>3, <2>1, <2>2, <3>1 DEF STTOrder
  <2>4. \A t \in Nat : BehindSTT(t, u, a, p, stt) => BehindSTT(t, v, b, q, stt)
    BY <1>3 DEF BehindSTT
  <2>5. TextOrder(v, b, q, stt, stt_output)
    BY <2>1, <2>2, <2>4 DEF TextOrder
  <2>6. \A t \in Ids : BehindTexts(t, u, a, p, stt, stt_output)
                           => BehindTexts(t, v, b, q, stt, stt_output)
    BY <2>2, <2>4 DEF BehindTexts
  <2>7. LogOrder(text_out', v, b, q, stt, stt_output)
    BY <1>1, <2>1, <2>6 DEF LogOrder
  <2>8. QED
    BY <2>3, <2>5, <2>6, <2>7
<1>5. QED
  BY <1>1, <1>3, <1>4 DEF ChainIInv, BehindNow

\* A segment goes from the queue into the STT, or is put aside.
LEMMA ChainSTTTake ==
  ASSUME Types, ChainIInv, STTTake
  PROVE  ChainIInv' /\ \A t \in Ids : BehindNow(t) => BehindNow(t)'
<1> DEFINE p == spoken_prompt
           q == Tail(p)
           u == turn_id
           a == speech_started
<1>1. /\ p \in Seq(Heard) /\ p # <<>> /\ spoken_prompt' = q /\ stt.pc = "idle"
      /\ stt' = Idle \/ stt' = [pc |-> "decoding", mode |-> p[1].mode, turn |-> p[1].turn,
                                gen |-> generation]
      /\ UNCHANGED <<turn_id, speech_started, text_out, stt_output>>
  BY Shortened DEF STTTake, Types, Queues
<1>2. /\ Len(p) \in Nat \ {0} /\ Len(q) = Len(p) - 1
      /\ \A i \in 1..Len(q) : q[i] = p[i + 1]
  BY <1>1, Shortened
<1> HIDE DEF q
<1>3. \A i \in 1..Len(q) : i + 1 \in 1..Len(p) /\ q[i] = p[i + 1]
  BY <1>2
<1>4. QueueOrder(u, a, p) /\ TextOrder(u, a, p, stt, stt_output)
      /\ LogOrder(text_out, u, a, p, stt, stt_output)
  BY DEF ChainIInv
<1>5. \A t, fin : BehindQueue(t, fin, u, a, p) => BehindQueue(t, fin, u, a, q)
  BY <1>3 DEF BehindQueue
<1>6. \A t : BehindSTT(t, u, a, p, stt) => BehindSTT(t, u, a, q, stt')
  <2> SUFFICES ASSUME NEW t, BehindSTT(t, u, a, p, stt)
               PROVE  BehindSTT(t, u, a, q, stt')
    OBVIOUS
  <2>1. BehindQueue(t, TRUE, u, a, p) /\ BehindQueue(t, TRUE, u, a, q)
    BY <1>5 DEF BehindSTT
  <2>2. BehindSegment(t, TRUE, p[1])
    <3>1. 1 \in 1..Len(p)
      BY <1>2
    <3>2. QED
      BY <2>1, <3>1 DEF BehindQueue
  <2>3. stt'.pc = "decoding" => t < stt'.turn
    BY <1>1, <2>2 DEF BehindSegment, Idle
  <2>4. QED
    BY <2>1, <2>3 DEF BehindSTT
<1>7. QueueOrder(u, a, q)
  <2>1. \A i \in 1..Len(q) : BehindUser(q[i].turn, q[i].mode = "final", u, a)
    BY <1>3, <1>4 DEF QueueOrder
  <2>2. ASSUME NEW i \in 1..Len(q), NEW j \in 1..Len(q), i < j
        PROVE  BehindSegment(q[i].turn, q[i].mode = "final", q[j])
    <3>1. i + 1 \in 1..Len(p) /\ j + 1 \in 1..Len(p) /\ i + 1 < j + 1
      BY <1>3, <2>2
    <3>2. QED
      BY <1>3, <1>4, <3>1 DEF QueueOrder
  <2>3. QED
    BY <2>1, <2>2 DEF QueueOrder
<1>8. STTOrder(u, a, q, stt')
  <2>1. CASE stt' = Idle
    BY <2>1 DEF STTOrder, Idle
  <2>2. CASE stt'.turn = p[1].turn /\ stt'.mode = p[1].mode
    <3>1. BehindUser(p[1].turn, p[1].mode = "final", u, a)
      BY <1>2, <1>4 DEF QueueOrder
    <3>2. ASSUME NEW j \in 1..Len(q)
          PROVE  BehindSegment(p[1].turn, p[1].mode = "final", q[j])
      <4>1. 1 \in 1..Len(p) /\ j + 1 \in 1..Len(p) /\ 1 < j + 1 /\ q[j] = p[j + 1]
        BY <1>2, <1>3
      <4>2. QED
        BY <1>4, <4>1 DEF QueueOrder
    <3>3. BehindQueue(p[1].turn, p[1].mode = "final", u, a, q)
      BY <3>1, <3>2 DEF BehindQueue
    <3>4. QED
      BY <2>2, <3>3 DEF STTOrder
  <2>3. QED
    BY <1>1, <2>1, <2>2
<1>9. TextOrder(u, a, q, stt', stt_output)
  BY <1>4, <1>6 DEF TextOrder
<1>10. \A t : BehindTexts(t, u, a, p, stt, stt_output) => BehindTexts(t, u, a, q, stt', stt_output)
  BY <1>6 DEF BehindTexts
<1>11. LogOrder(text_out, u, a, q, stt', stt_output)
  BY <1>4, <1>10 DEF LogOrder
<1>12. QED
  BY <1>1, <1>7, <1>8, <1>9, <1>10, <1>11 DEF ChainIInv, BehindNow

\* The STT has finished with its segment; a transcript goes behind the others.
LEMMA ChainSTTResult ==
  ASSUME Types, ChainIInv, STTResult
  PROVE  ChainIInv' /\ \A t \in Ids : BehindNow(t) => BehindNow(t)'
<1> DEFINE p == spoken_prompt
           o == stt_output
           u == turn_id
           a == speech_started
<1>1. /\ stt.pc = "decoding" /\ stt' = Idle
      /\ stt_output' = o \/ (stt.mode = "final" /\ stt_output' = Append(o, stt.turn))
      /\ UNCHANGED <<turn_id, speech_started, spoken_prompt>>
  BY DEF STTResult, IsFinal, userVars
<1>2. \A t : Holds(text_out', "transcript", t) => Holds(text_out, "transcript", t)
  <2>1. ~Notify
    BY <1>1 DEF Notify, Idle
  <2>2. QED
    BY <2>1, LogKeeps DEF PipelineNext, Handlers
<1>3. /\ o \in Seq(Opened) /\ stt.turn \in Opened /\ \A t \in Opened : t \in Nat
      /\ \A i \in 1..Len(o) : o[i] \in Nat
  BY <1>1, ChainTypes DEF Types, Threads, Idle, Decoding
<1>4. /\ QueueOrder(u, a, p) /\ STTOrder(u, a, p, stt)
      /\ TextOrder(u, a, p, stt, o) /\ LogOrder(text_out, u, a, p, stt, o)
  BY DEF ChainIInv
<1>5. \A t : BehindSTT(t, u, a, p, stt) => BehindSTT(t, u, a, p, stt') /\ t < stt.turn
  BY <1>1 DEF BehindSTT, Idle
<1>6. STTOrder(u, a, p, stt')
  BY <1>1 DEF STTOrder, Idle
<1>7. CASE stt_output' = o
  <2>1. TextOrder(u, a, p, stt', o)
    BY <1>4, <1>5 DEF TextOrder
  <2>2. \A t : BehindTexts(t, u, a, p, stt, o) => BehindTexts(t, u, a, p, stt', o)
    BY <1>5 DEF BehindTexts
  <2>3. LogOrder(text_out', u, a, p, stt', o)
    BY <1>2, <1>4, <2>2 DEF LogOrder
  <2>4. QED
    BY <1>1, <1>4, <1>6, <1>7, <2>1, <2>2, <2>3 DEF ChainIInv, BehindNow
<1>8. CASE stt.mode = "final" /\ stt_output' = Append(o, stt.turn)
  <2> DEFINE r == Append(o, stt.turn)
  <2>1. /\ Len(r) = Len(o) + 1 /\ Len(o) \in Nat /\ r[Len(o) + 1] = stt.turn
        /\ \A i \in 1..Len(o) : r[i] = o[i]
    BY <1>3, Appended
  <2> HIDE DEF r
  <2>2. BehindSTT(stt.turn, u, a, p, stt')
    BY <1>1, <1>4, <1>8 DEF STTOrder, BehindSTT, Idle
  <2>3. ASSUME NEW i \in 1..Len(r)
        PROVE  BehindSTT(r[i], u, a, p, stt')
    <3>1. CASE i \in 1..Len(o)
      BY <1>4, <1>5, <2>1, <3>1 DEF TextOrder
    <3>2. CASE i = Len(o) + 1
      BY <2>1, <2>2, <3>2
    <3>3. QED
      BY <2>1, <3>1, <3>2
  <2>4. ASSUME NEW i \in 1..Len(r), NEW j \in 1..Len(r), i < j
        PROVE  r[i] < r[j]
    <3>1. i \in 1..Len(o) /\ r[i] = o[i]
      BY <2>1, <2>4
    <3>2. CASE j \in 1..Len(o)
      BY <1>4, <2>1, <2>4, <3>1, <3>2 DEF TextOrder
    <3>3. CASE j = Len(o) + 1
      BY <1>4, <1>5, <2>1, <3>1, <3>3 DEF TextOrder
    <3>4. QED
      BY <2>1, <3>2, <3>3
  <2>5. TextOrder(u, a, p, stt', r)
    BY <2>3, <2>4 DEF TextOrder
  <2>6. ASSUME NEW t \in Ids, BehindTexts(t, u, a, p, stt, o)
        PROVE  BehindTexts(t, u, a, p, stt', r)
    <3>1. BehindSTT(t, u, a, p, stt') /\ t < stt.turn /\ \A j \in 1..Len(o) : t < o[j]
      BY <1>5, <2>6 DEF BehindTexts
    <3>2. \A j \in 1..Len(r) : t < r[j]
      <4> SUFFICES ASSUME NEW j \in 1..Len(r)
                   PROVE  t < r[j]
        OBVIOUS
      <4>1. CASE j \in 1..Len(o)
        BY <2>1, <3>1, <4>1
      <4>2. CASE j = Len(o) + 1
        BY <2>1, <3>1, <4>2
      <4>3. QED
        BY <2>1, <4>1, <4>2
    <3>3. QED
      BY <3>1, <3>2 DEF BehindTexts
  <2>7. LogOrder(text_out', u, a, p, stt', r)
    BY <1>2, <1>4, <2>6 DEF LogOrder
  <2>8. QED
    BY <1>1, <1>4, <1>6, <1>8, <2>5, <2>6, <2>7 DEF ChainIInv, BehindNow, r
<1>9. QED
  BY <1>1, <1>7, <1>8

\* The transcript of the oldest text is announced.
LEMMA ChainNotify ==
  ASSUME Types, ChainIInv, Notify
  PROVE  /\ ChainIInv' /\ Head(stt_output) \in Ids
         /\ \A t \in Ids : BehindNow(t) \/ t = Head(stt_output) => BehindNow(t)'
<1> DEFINE p == spoken_prompt
           o == stt_output
           r == Tail(o)
           u == turn_id
           a == speech_started
<1>1. /\ o \in Seq(Opened) /\ o # <<>> /\ stt_output' = r
      /\ text_out' = Append(text_out, Say("transcript", o[1], "vad"))
      /\ UNCHANGED <<turn_id, speech_started, spoken_prompt, stt>>
      /\ text_out \in Seq(Said)
  BY Shortened DEF Notify, Types, Queues, userVars
<1>2. /\ Len(o) \in Nat \ {0} /\ Len(r) = Len(o) - 1 /\ o[1] \in Opened
      /\ \A i \in 1..Len(r) : r[i] = o[i + 1]
  BY <1>1, Shortened
<1>3. \A i \in 1..Len(r) : i + 1 \in 1..Len(o) /\ r[i] = o[i + 1]
  BY <1>2
<1> HIDE DEF r
<1>4. /\ QueueOrder(u, a, p) /\ STTOrder(u, a, p, stt)
      /\ TextOrder(u, a, p, stt, o) /\ LogOrder(text_out, u, a, p, stt, o)
  BY DEF ChainIInv
<1>5. TextOrder(u, a, p, stt, r)
  <2>1. \A i \in 1..Len(r) : BehindSTT(r[i], u, a, p, stt)
    BY <1>3, <1>4 DEF TextOrder
  <2>2. ASSUME NEW i \in 1..Len(r), NEW j \in 1..Len(r), i < j
        PROVE  r[i] < r[j]
    <3>1. i + 1 \in 1..Len(o) /\ j + 1 \in 1..Len(o) /\ i + 1 < j + 1
      BY <1>3, <2>2
    <3>2. o[i + 1] < o[j + 1]
      BY <1>4, <3>1 DEF TextOrder
    <3>3. QED
      BY <1>3, <3>2
  <2>3. QED
    BY <2>1, <2>2 DEF TextOrder
<1>6. BehindTexts(o[1], u, a, p, stt, r)
  <2>1. BehindSTT(o[1], u, a, p, stt)
    BY <1>2, <1>4 DEF TextOrder
  <2>2. ASSUME NEW j \in 1..Len(r)
        PROVE  o[1] < r[j]
    <3>1. 1 \in 1..Len(o) /\ j + 1 \in 1..Len(o) /\ 1 < j + 1
      BY <1>2, <1>3
    <3>2. o[1] < o[j + 1]
      BY <1>4, <3>1 DEF TextOrder
    <3>3. QED
      BY <1>3, <3>2
  <2>3. QED
    BY <2>1, <2>2 DEF BehindTexts
<1>7. \A t : BehindTexts(t, u, a, p, stt, o) => BehindTexts(t, u, a, p, stt, r)
  BY <1>3 DEF BehindTexts
<1>8. ASSUME NEW t \in Ids, Holds(text_out', "transcript", t)
      PROVE  BehindTexts(t, u, a, p, stt, r)
  <2>1. Say("transcript", o[1], "vad") \in Said /\ Say("transcript", o[1], "vad").turn = o[1]
    BY <1>2, SaidType, OpenedIds DEF Say, Sources
  <2>2. t = o[1] \/ Holds(text_out, "transcript", t)
    BY <1>1, <1>8, <2>1, HoldsGrows
  <2>3. CASE Holds(text_out, "transcript", t)
    BY <1>4, <1>7, <2>3 DEF LogOrder
  <2>4. QED
    BY <1>6, <2>2, <2>3
<1>9. LogOrder(text_out', u, a, p, stt, r)
  BY <1>8 DEF LogOrder
<1>10. Head(o) = o[1] /\ o[1] \in Ids
  BY <1>1, <1>2, Shortened, OpenedIds
<1>11. ChainIInv'
  BY <1>1, <1>4, <1>5, <1>9 DEF ChainIInv
<1>12. \A t \in Ids : BehindNow(t) \/ t = o[1] => BehindNow(t)'
  BY <1>1, <1>6, <1>7 DEF BehindNow
<1>13. QED
  BY <1>10, <1>11, <1>12

LEMMA ChainStep ==
  ASSUME Types, ChainIInv, [PipelineNext]_pipelineVars
  PROVE  ChainIInv' /\ \A t \in Ids : BehindNow(t) => BehindNow(t)'
<1>1. CASE UNCHANGED <<turn_id, speech_started, spoken_prompt, stt, stt_output>>
  <2>1. ~Notify
    <3>1. stt_output \in Seq(Opened)
      BY ChainTypes
    <3>2. QED
      BY <1>1, <3>1, Shortened DEF Notify
  <2>2. \A t : Holds(text_out', "transcript", t) => Holds(text_out, "transcript", t)
    BY <2>1, LogKeeps
  <2>3. LogOrder(text_out', turn_id, speech_started, spoken_prompt, stt, stt_output)
    BY <2>2 DEF ChainIInv, LogOrder
  <2>4. QED
    BY <1>1, <2>3 DEF ChainIInv, BehindNow
<1>2. CASE UNCHANGED pipelineVars
  BY <1>1, <1>2 DEF pipelineVars, tsVars, sttVars
<1>3. CASE LLMTake \/ LLMText \/ LLMToolCall \/ LLMFinish \/ LLMRaises
  BY <1>1, <1>3 DEF LLMTake, LLMText, LLMToolCall, LLMFinish, LLMRaises, tsVars, userVars, sttVars
<1>4. CASE ProcessChunk \/ ProcessEnd
  BY <1>1, <1>4 DEF ProcessChunk, ProcessEnd, tsVars, userVars, sttVars
<1>5. CASE TTSTake \/ TTSPiece \/ TTSSend \/ TTSFinish \/ TTSRaises
  BY <1>1, <1>5 DEF TTSTake, TTSPiece, TTSSend, TTSFinish, TTSRaises, tsVars, sttVars
<1>6. CASE ServiceCancels \/ ServicePrompts \/ ServiceAnswersCall
  BY <1>1, <1>6 DEF ServiceCancels, ServicePrompts, ServiceAnswersCall, tsVars, sttVars
<1>7. QED
  BY <1>2, <1>3, <1>4, <1>5, <1>6, ChainSpeak, ChainSTTTake, ChainSTTResult, ChainNotify
  DEF PipelineNext, Handlers

-----------------------------------------------------------------------------
\* What was announced of the turns on the way to the transcript, and of those on
\* the way from it, up to the processor.
AnnouncedSegment(s, mode, t) ==
    /\ Holds(s, "speech_started", t)
    /\ mode = "final" => Holds(s, "speech_stopped", t)

AnnouncedIInv ==
    /\ speech_started => Holds(text_out, "speech_started", turn_id)
    /\ \A i \in 1..Len(spoken_prompt) :
          AnnouncedSegment(text_out, spoken_prompt[i].mode, spoken_prompt[i].turn)
    /\ stt.pc = "decoding" => AnnouncedSegment(text_out, stt.mode, stt.turn)
    /\ \A i \in 1..Len(stt_output) : Holds(text_out, "speech_stopped", stt_output[i])

TranscribedIInv ==
    /\ \A i \in 1..Len(text_prompt) :
          text_prompt[i].src = "vad" => Holds(text_out, "transcript", text_prompt[i].turn)
    /\ llm.pc = "streaming" /\ llm.src = "vad" => Holds(text_out, "transcript", llm.turn)
    /\ \A i \in 1..Len(lm_response) :
          lm_response[i].src = "vad" => Holds(text_out, "transcript", lm_response[i].turn)

LEMMA AnnouncedSpeak ==
  ASSUME Types, AnnouncedIInv, Speak
  PROVE  AnnouncedIInv'
<1> DEFINE p == spoken_prompt
           s == text_out
<1>1. UNCHANGED <<stt, stt_output>> /\ s \in Seq(Said) /\ p \in Seq(Heard) /\ Types'
  BY TypesSpeak DEF Speak, sttVars, Types, Queues
<1>2. \A type, t : Holds(s, type, t) => Holds(text_out', type, t)
  BY LogKeeps DEF PipelineNext
<1>3. speech_started' => Holds(text_out', "speech_started", turn_id')
  <2>1. CASE StartTurn
    <3>1. turn_id' \in Opened
      BY <1>1, <2>1 DEF Types, Scalars, StartTurn
    <3>2. /\ Event("speech_started", turn_id') \in Said
          /\ Event("speech_started", turn_id').type = "speech_started"
          /\ Event("speech_started", turn_id').turn = turn_id'
      BY <3>1, SaidType DEF Event
    <3>3. QED
      BY <1>1, <2>1, <3>2, HoldsGrows DEF StartTurn
  <2>2. CASE ProgressTurn \/ EndTurn \/ DropTurn
    BY <1>2, <2>2 DEF ProgressTurn, EndTurn, DropTurn, AnnouncedIInv
  <2>3. QED
    BY <2>1, <2>2 DEF Speak
<1>4. ASSUME NEW i \in 1..Len(p)
      PROVE  AnnouncedSegment(text_out', p[i].mode, p[i].turn)
  BY <1>2 DEF AnnouncedIInv, AnnouncedSegment
<1>5. ASSUME NEW i \in 1..Len(spoken_prompt')
      PROVE  AnnouncedSegment(text_out', spoken_prompt'[i].mode, spoken_prompt'[i].turn)
  <2>1. CASE spoken_prompt' = p
    BY <1>4, <2>1
  <2>2. ASSUME NEW m \in Heard, spoken_prompt' = Append(p, m),
               AnnouncedSegment(text_out', m.mode, m.turn)
        PROVE  AnnouncedSegment(text_out', spoken_prompt'[i].mode, spoken_prompt'[i].turn)
    <3>1. /\ Len(Append(p, m)) = Len(p) + 1 /\ Append(p, m)[Len(p) + 1] = m /\ Len(p) \in Nat
          /\ \A k \in 1..Len(p) : Append(p, m)[k] = p[k]
      BY <1>1, <2>2, Appended
    <3>2. CASE i \in 1..Len(p)
      BY <1>4, <2>2, <3>1, <3>2
    <3>3. CASE i = Len(p) + 1
      BY <2>2, <3>1, <3>3
    <3>4. QED
      BY <2>2, <3>1, <3>2, <3>3
  <2>3. CASE StartTurn \/ DropTurn
    BY <2>1, <2>3 DEF StartTurn, DropTurn
  <2>4. CASE ProgressTurn
    <3> DEFINE m == VADAudio("progressive", turn_id)
    <3>1. m \in Heard /\ spoken_prompt' = Append(p, m)
      BY <2>4 DEF ProgressTurn, VADAudio, Heard, Types, Scalars
    <3>2. AnnouncedSegment(text_out', m.mode, m.turn)
      BY <1>2, <2>4 DEF ProgressTurn, VADAudio, AnnouncedSegment, AnnouncedIInv
    <3> HIDE DEF m
    <3>3. QED
      BY <2>2, <3>1, <3>2
  <2>5. CASE EndTurn
    <3> DEFINE m == VADAudio("final", turn_id)
    <3>1. m \in Heard /\ spoken_prompt' = Append(p, m) /\ turn_id \in Opened
      BY <2>5 DEF EndTurn, VADAudio, Heard, Types, Scalars
    <3>2. Holds(text_out', "speech_stopped", turn_id)
      <4>1. /\ Event("speech_stopped", turn_id) \in Said
            /\ Event("speech_stopped", turn_id).type = "speech_stopped"
            /\ Event("speech_stopped", turn_id).turn = turn_id
        BY <3>1, SaidType DEF Event
      <4>2. QED
        BY <1>1, <2>5, <4>1, HoldsGrows DEF EndTurn
    <3>3. Holds(text_out', "speech_started", turn_id)
      BY <1>2, <2>5 DEF EndTurn, AnnouncedIInv
    <3>4. AnnouncedSegment(text_out', m.mode, m.turn)
      BY <3>2, <3>3 DEF VADAudio, AnnouncedSegment
    <3> HIDE DEF m
    <3>5. QED
      BY <2>2, <3>1, <3>4
  <2>6. QED
    BY <2>3, <2>4, <2>5 DEF Speak
<1>6. /\ stt'.pc = "decoding" => AnnouncedSegment(text_out', stt'.mode, stt'.turn)
      /\ \A i \in 1..Len(stt_output') : Holds(text_out', "speech_stopped", stt_output'[i])
  BY <1>1, <1>2 DEF AnnouncedIInv, AnnouncedSegment
<1>7. QED
  BY <1>3, <1>5, <1>6 DEF AnnouncedIInv

LEMMA AnnouncedSTT ==
  ASSUME Types, AnnouncedIInv, STTTake \/ STTResult \/ Notify
  PROVE  AnnouncedIInv'
<1>1. \A type, t : Holds(text_out, type, t) => Holds(text_out', type, t)
  BY LogKeeps DEF PipelineNext, Handlers
<1>2. /\ spoken_prompt \in Seq(Heard) /\ stt_output \in Seq(Opened)
      /\ UNCHANGED <<turn_id, speech_started>>
  BY DEF Types, Queues, STTTake, STTResult, Notify, userVars
<1>3. speech_started' => Holds(text_out', "speech_started", turn_id')
  BY <1>1, <1>2 DEF AnnouncedIInv
<1>4. \A i \in 1..Len(spoken_prompt) :
          AnnouncedSegment(text_out', spoken_prompt[i].mode, spoken_prompt[i].turn)
  BY <1>1 DEF AnnouncedIInv, AnnouncedSegment
<1>5. \A i \in 1..Len(stt_output) : Holds(text_out', "speech_stopped", stt_output[i])
  BY <1>1 DEF AnnouncedIInv
<1>6. CASE STTTake
  <2>1. /\ spoken_prompt # <<>> /\ spoken_prompt' = Tail(spoken_prompt) /\ stt_output' = stt_output
        /\ \/ stt' = Idle
           \/ stt' = [pc |-> "decoding", mode |-> Head(spoken_prompt).mode,
                      turn |-> Head(spoken_prompt).turn, gen |-> generation]
    BY <1>6 DEF STTTake
  <2>2. /\ Head(spoken_prompt) = spoken_prompt[1] /\ 1 \in 1..Len(spoken_prompt)
        /\ \A i \in 1..Len(Tail(spoken_prompt)) :
              i + 1 \in 1..Len(spoken_prompt) /\ Tail(spoken_prompt)[i] = spoken_prompt[i + 1]
    BY <1>2, <2>1, Shortened
  <2>3. \A i \in 1..Len(spoken_prompt') :
            AnnouncedSegment(text_out', spoken_prompt'[i].mode, spoken_prompt'[i].turn)
    BY <1>4, <2>1, <2>2
  <2>4. stt'.pc = "decoding" => AnnouncedSegment(text_out', stt'.mode, stt'.turn)
    BY <1>4, <2>1, <2>2 DEF Idle
  <2>5. QED
    BY <1>3, <1>5, <2>1, <2>3, <2>4 DEF AnnouncedIInv
<1>7. CASE STTResult
  <2>1. /\ spoken_prompt' = spoken_prompt /\ stt.pc = "decoding" /\ stt' = Idle
        /\ \/ stt_output' = stt_output
           \/ stt.mode = "final" /\ stt_output' = Append(stt_output, stt.turn)
    BY <1>7 DEF STTResult, IsFinal, userVars
  <2>2. stt.turn \in Opened /\ AnnouncedSegment(text_out', stt.mode, stt.turn)
    BY <1>1, <2>1 DEF Types, Threads, Idle, Decoding, AnnouncedIInv, AnnouncedSegment
  <2>3. \A i \in 1..Len(stt_output') : Holds(text_out', "speech_stopped", stt_output'[i])
    <3>1. CASE stt_output' = stt_output
      BY <1>5, <3>1
    <3>2. CASE stt.mode = "final" /\ stt_output' = Append(stt_output, stt.turn)
      <4>1. /\ Len(stt_output') = Len(stt_output) + 1 /\ Len(stt_output) \in Nat
            /\ stt_output'[Len(stt_output) + 1] = stt.turn
            /\ \A i \in 1..Len(stt_output) : stt_output'[i] = stt_output[i]
        BY <1>2, <2>2, <3>2, Appended
      <4>2. ASSUME NEW i \in 1..Len(stt_output')
            PROVE  Holds(text_out', "speech_stopped", stt_output'[i])
        <5>1. CASE i \in 1..Len(stt_output)
          BY <1>5, <4>1, <5>1
        <5>2. CASE i = Len(stt_output) + 1
          BY <2>2, <3>2, <4>1, <5>2 DEF AnnouncedSegment
        <5>3. QED
          BY <4>1, <5>1, <5>2
      <4>3. QED
        BY <4>2
    <3>3. QED
      BY <2>1, <3>1, <3>2
  <2>4. QED
    BY <1>3, <1>4, <2>1, <2>3 DEF AnnouncedIInv, Idle
<1>8. CASE Notify
  <2>1. /\ stt_output # <<>> /\ stt_output' = Tail(stt_output)
        /\ UNCHANGED <<spoken_prompt, stt>>
    BY <1>8 DEF Notify, userVars
  <2>2. \A i \in 1..Len(Tail(stt_output)) :
              i + 1 \in 1..Len(stt_output) /\ Tail(stt_output)[i] = stt_output[i + 1]
    BY <1>2, <2>1, Shortened
  <2>3. \A i \in 1..Len(stt_output') : Holds(text_out', "speech_stopped", stt_output'[i])
    BY <1>5, <2>1, <2>2
  <2>4. stt'.pc = "decoding" => AnnouncedSegment(text_out', stt'.mode, stt'.turn)
    BY <1>1, <2>1 DEF AnnouncedIInv, AnnouncedSegment
  <2>5. QED
    BY <1>3, <1>4, <2>1, <2>3, <2>4 DEF AnnouncedIInv
<1>9. QED
  BY <1>6, <1>7, <1>8

LEMMA AnnouncedStep == Types /\ AnnouncedIInv /\ [PipelineNext]_pipelineVars => AnnouncedIInv'
<1> SUFFICES ASSUME Types, AnnouncedIInv, [PipelineNext]_pipelineVars
             PROVE  AnnouncedIInv'
  OBVIOUS
<1>1. CASE UNCHANGED <<turn_id, speech_started, spoken_prompt, stt, stt_output>>
  <2>1. \A type, t : Holds(text_out, type, t) => Holds(text_out', type, t)
    BY LogKeeps
  <2>2. QED
    BY <1>1, <2>1 DEF AnnouncedIInv, AnnouncedSegment
<1>2. CASE UNCHANGED pipelineVars
  BY <1>1, <1>2 DEF pipelineVars, tsVars, sttVars
<1>3. CASE LLMTake \/ LLMText \/ LLMToolCall \/ LLMFinish \/ LLMRaises
  BY <1>1, <1>3 DEF LLMTake, LLMText, LLMToolCall, LLMFinish, LLMRaises, tsVars, userVars, sttVars
<1>4. CASE ProcessChunk \/ ProcessEnd
  BY <1>1, <1>4 DEF ProcessChunk, ProcessEnd, tsVars, userVars, sttVars
<1>5. CASE TTSTake \/ TTSPiece \/ TTSSend \/ TTSFinish \/ TTSRaises
  BY <1>1, <1>5 DEF TTSTake, TTSPiece, TTSSend, TTSFinish, TTSRaises, tsVars, sttVars
<1>6. CASE ServiceCancels \/ ServicePrompts \/ ServiceAnswersCall
  BY <1>1, <1>6 DEF ServiceCancels, ServicePrompts, ServiceAnswersCall, tsVars, sttVars
<1>7. QED
  BY <1>2, <1>3, <1>4, <1>5, <1>6, AnnouncedSpeak, AnnouncedSTT DEF PipelineNext, Handlers

-----------------------------------------------------------------------------
\* What may be added to the log, thread by thread.
LEMMA CausalStep ==
  ASSUME Types, ChainIInv, AnnouncedIInv, TranscribedIInv, Causal(text_out),
         [PipelineNext]_pipelineVars
  PROVE  Causal(text_out')
<1> DEFINE s == text_out
<1>1. s \in Seq(Said)
  BY DEF Types, Queues
<1>2. CASE UNCHANGED text_out
  BY <1>2
<1>3. CASE UNCHANGED pipelineVars
  BY <1>2, <1>3 DEF pipelineVars, tsVars
<1>4. CASE STTTake \/ LLMTake \/ LLMText \/ LLMToolCall \/ LLMRaises \/ ProcessEnd \/ TTSTake
           \/ TTSPiece \/ TTSSend \/ TTSFinish \/ TTSRaises
  BY <1>2, <1>4 DEF STTTake, LLMTake, LLMText, LLMToolCall, LLMRaises, ProcessEnd, TTSTake,
                    TTSPiece, TTSSend, TTSFinish, TTSRaises, tsVars
<1>5. CASE ServiceCancels \/ ServicePrompts \/ ServiceAnswersCall
  BY <1>2, <1>5 DEF ServiceCancels, ServicePrompts, ServiceAnswersCall, tsVars
<1>6. CASE Speak
  <2>1. Types'
    BY <1>6, TypesSpeak
  <2>2. \/ text_out' = s
        \/ turn_id' \in Opened /\ text_out' = Append(s, Event("speech_started", turn_id'))
        \/ turn_id \in Opened /\ text_out' = Append(s, Event("speech_stopped", turn_id))
    BY <1>6, <2>1 DEF Types, Scalars, Speak, StartTurn, ProgressTurn, EndTurn, DropTurn
  <2>3. \A t \in Opened : /\ Event("speech_started", t) \in Said
                          /\ Event("speech_stopped", t) \in Said
                          /\ MayAdd(s, Event("speech_started", t))
                          /\ MayAdd(s, Event("speech_stopped", t))
    BY SaidType DEF MayAdd, Event
  <2>4. QED
    BY <1>1, <2>2, <2>3, CausalAppend
<1>7. CASE STTResult
  <2> DEFINE e == Say("partial", stt.turn, "vad")
  <2>1. stt.pc = "decoding" /\ (text_out' = s \/ text_out' = Append(s, e))
    BY <1>7 DEF STTResult
  <2>2. stt.turn \in Opened /\ stt.turn \in Ids /\ stt.turn \in Nat
    BY <2>1, ChainTypes DEF Types, Threads, Idle, Decoding
  <2>3. Holds(s, "speech_started", stt.turn)
    BY <2>1 DEF AnnouncedIInv, AnnouncedSegment
  <2>4. ~Holds(s, "transcript", stt.turn)
    <3> SUFFICES ASSUME Holds(s, "transcript", stt.turn)
                 PROVE  FALSE
      OBVIOUS
    <3>1. BehindTexts(stt.turn, turn_id, speech_started, spoken_prompt, stt, stt_output)
      BY <2>2 DEF ChainIInv, LogOrder
    <3>2. stt.turn < stt.turn
      BY <2>1, <3>1 DEF BehindTexts, BehindSTT
    <3>3. QED
      BY <2>2, <3>2
  <2>5. e \in Said /\ MayAdd(s, e)
    BY <2>2, <2>3, <2>4, SaidType DEF MayAdd, Say, Sources
  <2> HIDE DEF e
  <2>6. QED
    BY <1>1, <2>1, <2>5, CausalAppend
<1>8. CASE Notify
  <2> DEFINE o == stt_output
             e == Say("transcript", o[1], "vad")
  <2>1. text_out' = Append(s, e) /\ 1 \in 1..Len(o) /\ o[1] \in Opened
    BY <1>8, Shortened DEF Types, Queues, Notify
  <2>2. Holds(s, "speech_stopped", o[1])
    BY <2>1 DEF AnnouncedIInv
  <2>3. ASSUME NEW t \in o[1]..MaxTurns, Holds(s, "transcript", t)
        PROVE  FALSE
    <3>1. t \in Ids /\ t \in Nat /\ o[1] \in Nat /\ o[1] <= t
      BY <2>1, OpenedIds, Sizes DEF Opened
    <3>2. t < o[1]
      BY <2>1, <2>3, <3>1 DEF ChainIInv, LogOrder, BehindTexts
    <3>3. QED
      BY <3>1, <3>2
  <2>4. e \in Said
    BY <2>1, SaidType, OpenedIds DEF Sources
  <2>5. e.type = "transcript" /\ e.turn = o[1]
    BY DEF Say
  <2>6. MayAdd(s, e)
    BY <2>2, <2>3, <2>5 DEF MayAdd
  <2> HIDE DEF e
  <2>7. QED
    BY <1>1, <2>1, <2>4, <2>6, CausalAppend
<1>9. CASE LLMFinish
  <2> DEFINE a == Say("call", llm.turn, llm.src)
             b == Say("usage", llm.turn, llm.src)
  <2>1. /\ llm.turn \in Ids /\ llm.src \in Sources /\ llm.tool \in BOOLEAN
        /\ llm.pc = "streaming"
    BY <1>9 DEF Types, Threads, LLMFinish, Idle, Streaming
  <2>2. a \in Said /\ b \in Said
    BY <2>1, SaidType
  <2>3. /\ a.type = "call" /\ a.turn = llm.turn /\ a.src = llm.src
        /\ b.type = "usage" /\ b.turn = llm.turn /\ b.src = llm.src
    BY DEF Say
  <2>4. text_out' = s \o (IF llm.tool THEN <<a>> ELSE <<>>) \o <<b>>
    BY <1>9 DEF LLMFinish
  <2> HIDE DEF a, b
  <2>5. text_out' = Append(IF llm.tool THEN Append(s, a) ELSE s, b)
    BY <1>1, <2>1, <2>2, <2>4, SaidTwice
  <2>6. llm.src = "vad" => Holds(s, "transcript", llm.turn)
    BY <2>1 DEF TranscribedIInv
  <2>7. MayAdd(s, a) /\ MayAdd(s, b)
    BY <2>3, <2>6 DEF MayAdd
  <2>8. Causal(Append(s, b))
    BY <1>1, <2>2, <2>7, CausalAppend
  <2>9. Append(s, a) \in Seq(Said) /\ Causal(Append(s, a))
    BY <1>1, <2>2, <2>7, CausalAppend, Appended
  <2>10. MayAdd(Append(s, a), b)
    <3>1. llm.src = "vad" => Holds(Append(s, a), "transcript", llm.turn)
      BY <1>1, <2>2, <2>6, HoldsGrows
    <3>2. QED
      BY <2>3, <3>1 DEF MayAdd
  <2>11. Causal(Append(Append(s, a), b))
    BY <2>2, <2>9, <2>10, CausalAppend
  <2>12. QED
    BY <2>5, <2>8, <2>11
<1>10. CASE ProcessChunk
  <2> DEFINE m == lm_response[1]
             e == Say("text", m.turn, m.src)
  <2>1. text_out' = Append(s, e) /\ m \in Answer /\ 1 \in 1..Len(lm_response)
    BY <1>10, Shortened DEF Types, Queues, ProcessChunk
  <2>2. e \in Said
    BY <2>1, SaidType DEF Answer
  <2>3. e.type = "text" /\ e.turn = m.turn /\ e.src = m.src
    BY DEF Say
  <2>4. m.src = "vad" => Holds(s, "transcript", m.turn)
    BY <2>1 DEF TranscribedIInv
  <2>5. MayAdd(s, e)
    BY <2>3, <2>4 DEF MayAdd
  <2> HIDE DEF e
  <2>6. QED
    BY <1>1, <2>1, <2>2, <2>5, CausalAppend
<1>11. QED
  BY <1>3, <1>4, <1>5, <1>6, <1>7, <1>8, <1>9, <1>10 DEF PipelineNext, Handlers

\* Requests, the LLM and its answers only ever carry turns that are transcribed.
LEMMA TranscribedStep ==
  ASSUME Types, TranscribedIInv, Causal(text_out), [PipelineNext]_pipelineVars
  PROVE  TranscribedIInv'
<1> DEFINE T(t) == Holds(text_out', "transcript", t)
           q == text_prompt
           r == lm_response
<1>1. /\ q \in Seq(Ghost) /\ r \in Seq(Answer) /\ text_out \in Seq(Said)
      /\ Len(q) \in Nat /\ Len(r) \in Nat
  BY DEF Types, Queues
<1>2. \A t : Holds(text_out, "transcript", t) => T(t)
  BY LogKeeps
<1> HIDE DEF T
<1>3. /\ \A i \in 1..Len(q) : q[i].src = "vad" => T(q[i].turn)
      /\ llm.pc = "streaming" /\ llm.src = "vad" => T(llm.turn)
      /\ \A i \in 1..Len(r) : r[i].src = "vad" => T(r[i].turn)
  BY <1>2 DEF TranscribedIInv
<1>4. ASSUME NEW m \in Ghost, m.src = "vad" => T(m.turn)
      PROVE  \A i \in 1..Len(Append(q, m)) :
                Append(q, m)[i].src = "vad" => T(Append(q, m)[i].turn)
  <2> DEFINE a == Append(q, m)
  <2>1. /\ Len(a) = Len(q) + 1 /\ a[Len(q) + 1] = m /\ \A k \in 1..Len(q) : a[k] = q[k]
    BY <1>1, Appended
  <2> HIDE DEF a
  <2>2. ASSUME NEW i \in 1..Len(a)
        PROVE  a[i].src = "vad" => T(a[i].turn)
    <3>1. CASE i \in 1..Len(q)
      BY <1>3, <2>1, <3>1
    <3>2. CASE i = Len(q) + 1
      BY <1>4, <2>1, <3>2
    <3>3. QED
      BY <1>1, <2>1, <3>1, <3>2
  <2>3. QED
    BY <2>2 DEF a
<1>5. CASE UNCHANGED <<text_prompt, llm, lm_response>>
  BY <1>3, <1>5 DEF TranscribedIInv, T
<1>6. CASE UNCHANGED pipelineVars
  BY <1>5, <1>6 DEF pipelineVars, llmVars
<1>7. CASE Speak \/ STTTake \/ STTResult
  BY <1>5, <1>7 DEF Speak, STTTake, STTResult, llmVars
<1>8. CASE TTSTake \/ TTSPiece \/ TTSSend \/ TTSFinish \/ TTSRaises \/ ServiceCancels
  BY <1>5, <1>8 DEF TTSTake, TTSPiece, TTSSend, TTSFinish, TTSRaises, ServiceCancels, llmVars
<1>9. CASE Notify
  <2> DEFINE t == Head(stt_output)
             m == Request(t, "vad")
  <2>1. /\ t \in Ids /\ q' = Append(q, m) /\ text_out' = Append(text_out, Say("transcript", t, "vad"))
        /\ UNCHANGED <<llm, lm_response>>
    BY <1>9, Shortened, OpenedIds DEF Types, Queues, Notify, llmVars
  <2>2. m \in Ghost /\ m.turn = t
    BY <2>1 DEF Request, Ghost, Sources
  <2>3. T(t)
    <3>1. /\ Say("transcript", t, "vad") \in Said
          /\ Say("transcript", t, "vad").type = "transcript" /\ Say("transcript", t, "vad").turn = t
      BY <2>1, SaidType DEF Say, Sources
    <3>2. QED
      BY <1>1, <2>1, <3>1, HoldsGrows DEF T
  <2> HIDE DEF t, m
  <2>4. QED
    BY <1>3, <1>4, <2>1, <2>2, <2>3 DEF TranscribedIInv, T
<1>10. CASE LLMTake
  <2>1. /\ q # <<>> /\ q' = Tail(q) /\ lm_response' = r
        /\ llm'.turn = Head(q).turn /\ llm'.src = Head(q).src
    BY <1>10 DEF LLMTake
  <2>2. /\ Head(q) = q[1] /\ 1 \in 1..Len(q)
        /\ \A i \in 1..Len(Tail(q)) : i + 1 \in 1..Len(q) /\ Tail(q)[i] = q[i + 1]
    BY <1>1, <2>1, Shortened
  <2>3. QED
    BY <1>3, <2>1, <2>2 DEF TranscribedIInv, T
<1>11. CASE LLMText \/ LLMToolCall
  <2>1. /\ llm \in Streaming /\ llm.pc = "streaming" /\ UNCHANGED <<text_prompt, lm_response>>
        /\ llm' = [llm EXCEPT !.chunks = @ + 1] \/ llm' = [llm EXCEPT !.tool = TRUE]
    BY <1>11 DEF LLMText, LLMToolCall, Types, Threads, Idle
  <2>2. llm.pc = "streaming" /\ llm'.src = llm.src /\ llm'.turn = llm.turn
    BY <2>1 DEF Streaming
  <2>3. QED
    BY <1>3, <2>1, <2>2 DEF TranscribedIInv, T
<1>12. CASE LLMRaises
  <2>1. /\ llm \in Streaming /\ UNCHANGED <<text_prompt, lm_response>>
        /\ llm' = Idle \/ llm' = [llm EXCEPT !.pc = "hung"]
    BY <1>12 DEF LLMRaises, Types, Threads, Idle
  <2>2. llm'.pc # "streaming"
    <3>1. [llm EXCEPT !.pc = "hung"].pc = "hung" /\ Idle.pc = "idle"
      BY <2>1 DEF Streaming, Idle
    <3>2. QED
      BY <2>1, <3>1
  <2>3. QED
    BY <1>3, <2>1, <2>2 DEF TranscribedIInv, T
<1>13. CASE LLMFinish
  <2> DEFINE Out(kind) == [kind |-> kind, turn |-> llm.turn, src |-> llm.src, gen0 |-> llm.gen]
             c == Pieces(llm.chunks, Out("chunk"))
             a == WithAnswer(r, c, Out("end"))
  <2>1. /\ llm.turn \in Ids /\ llm.src \in Sources /\ llm.gen \in Nat /\ llm.chunks \in Nat
        /\ llm.pc = "streaming"
    BY <1>13, Sizes DEF Types, Threads, LLMFinish, Idle, Streaming
  <2>2. /\ Out("chunk") \in Answer /\ Out("end") \in Answer
        /\ Out("chunk").turn = llm.turn /\ Out("end").turn = llm.turn
        /\ Out("chunk").src = llm.src /\ Out("end").src = llm.src
    BY <2>1 DEF Answer
  <2>3. lm_response' = a /\ llm' = Idle /\ text_prompt' = q
    BY <1>13 DEF LLMFinish, WithAnswer, Pieces
  <2> HIDE DEF Out
  <2>4. /\ Len(a) = Len(r) + llm.chunks + 1
        /\ \A i \in 1..Len(r) : a[i] = r[i]
        /\ \A i \in (Len(r) + 1)..(Len(r) + llm.chunks) : a[i] = Out("chunk")
        /\ a[Len(r) + llm.chunks + 1] = Out("end")
    <3>1. /\ c \in Seq(Answer) /\ Len(c) = llm.chunks
          /\ \A k \in 1..llm.chunks : c[k] = Out("chunk")
      BY <2>1, <2>2, PiecesAre
    <3> HIDE DEF c
    <3>2. /\ a \in Seq(Answer)
          /\ Len(r) \in Nat /\ Len(c) \in Nat
          /\ Len(a) = Len(r) + Len(c) + 1
          /\ \A i \in 1..Len(r) : a[i] = r[i]
          /\ a[Len(r) + Len(c) + 1] = Out("end")
      <4> DEFINE b == Out("end")
      <4>1. r \in Seq(Answer) /\ c \in Seq(Answer) /\ b \in Answer
        BY <1>1, <2>2, <3>1
      <4> HIDE DEF b
      <4>2. /\ WithAnswer(r, c, b) \in Seq(Answer)
            /\ Len(r) \in Nat /\ Len(c) \in Nat
            /\ Len(WithAnswer(r, c, b)) = Len(r) + Len(c) + 1
            /\ \A i \in 1..Len(r) : WithAnswer(r, c, b)[i] = r[i]
            /\ WithAnswer(r, c, b)[Len(r) + Len(c) + 1] = b
        BY <4>1, JoinedEnds
      <4>3. QED
        BY <4>2 DEF b
    <3>2a. \A k \in 1..Len(c) : a[Len(r) + k] = c[k]
      BY <1>1, <2>2, <3>1, JoinedMiddle
    <3> HIDE DEF a
    <3>3. \A i \in (Len(r) + 1)..(Len(r) + llm.chunks) :
             i - Len(r) \in 1..llm.chunks /\ Len(r) + (i - Len(r)) = i
      BY <1>1, <2>1
    <3>4. ASSUME NEW i \in (Len(r) + 1)..(Len(r) + llm.chunks)
          PROVE  a[i] = Out("chunk")
      <4>1. PICK k \in 1..llm.chunks : Len(r) + k = i
        BY <3>3
      <4>2. a[Len(r) + k] = c[k] /\ c[k] = Out("chunk")
        BY <3>1, <3>2a
      <4>3. QED
        BY <4>1, <4>2
    <3>5. QED
      BY <3>1, <3>2, <3>4
  <2> HIDE DEF a
  <2>5. ASSUME NEW i \in 1..Len(a)
        PROVE  a[i].src = "vad" => T(a[i].turn)
    <3>1. CASE i \in 1..Len(r)
      BY <1>3, <2>4, <3>1
    <3>2. CASE i \in (Len(r) + 1)..(Len(r) + llm.chunks)
      BY <1>3, <2>1, <2>2, <2>4, <3>2
    <3>3. CASE i = Len(r) + llm.chunks + 1
      BY <1>3, <2>1, <2>2, <2>4, <3>3
    <3>4. QED
      BY <1>1, <2>1, <2>4, <3>1, <3>2, <3>3
  <2>6. QED
    BY <1>3, <2>3, <2>5 DEF TranscribedIInv, T, Idle
<1>14. CASE ProcessChunk \/ ProcessEnd
  <2>1. r # <<>> /\ lm_response' = Tail(r) /\ UNCHANGED <<text_prompt, llm>>
    BY <1>14 DEF ProcessChunk, ProcessEnd
  <2>2. \A i \in 1..Len(Tail(r)) : i + 1 \in 1..Len(r) /\ Tail(r)[i] = r[i + 1]
    BY <1>1, <2>1, Shortened
  <2>3. QED
    BY <1>3, <2>1, <2>2 DEF TranscribedIInv, T
<1>15. CASE ServicePrompts
  <2>1. q' = Append(q, Request(prompts', "client")) /\ UNCHANGED <<llm, lm_response>>
    BY <1>15 DEF ServicePrompts, llmVars
  <2>2. Request(prompts', "client") \in Ghost /\ Request(prompts', "client").src # "vad"
    <3>1. Types'
      BY <1>15, TypesService
    <3>2. prompts' \in Ids
      BY <1>15, <3>1, OpenedIds, Sizes DEF Types, Scalars, ServicePrompts
    <3>3. QED
      BY <3>2 DEF Request, Ghost, Sources
  <2> HIDE DEF q
  <2>3. \A i \in 1..Len(q') : q'[i].src = "vad" => T(q'[i].turn)
    BY <1>4, <2>1, <2>2
  <2>4. QED
    BY <1>3, <2>1, <2>3 DEF TranscribedIInv, T, q
<1>16. CASE ServiceAnswersCall
  <2>1. PICK i \in 1..Len(text_out) :
           /\ text_out[i].type = "call"
           /\ q' = Append(q, Request(text_out[i].turn, text_out[i].src))
    BY <1>16 DEF ServiceAnswersCall
  <2> DEFINE m == Request(text_out[i].turn, text_out[i].src)
  <2>2. m \in Ghost /\ m.src = text_out[i].src /\ m.turn = text_out[i].turn
    <3>1. text_out[i] \in Said
      BY <1>1
    <3>2. QED
      BY <2>1, <3>1 DEF Said, Request, Ghost
  <2>3. m.src = "vad" => T(m.turn)
    <3>1. text_out[i].src = "vad" => HoldsBefore(text_out, i, "transcript", text_out[i].turn)
      BY <2>1 DEF Causal
    <3>2. \A k \in 1..(i - 1) : k \in 1..Len(text_out)
      BY <1>1
    <3>3. HoldsBefore(text_out, i, "transcript", text_out[i].turn)
             => Holds(text_out, "transcript", text_out[i].turn)
      BY <3>2 DEF HoldsBefore, Holds
    <3>4. QED
      BY <1>2, <2>2, <3>1, <3>3
  <2>4. UNCHANGED <<llm, lm_response>>
    BY <1>16 DEF ServiceAnswersCall, llmVars
  <2> HIDE DEF m, q
  <2>5. \A k \in 1..Len(q') : q'[k].src = "vad" => T(q'[k].turn)
    BY <1>4, <2>1, <2>2, <2>3 DEF m
  <2>6. QED
    BY <1>3, <2>4, <2>5 DEF TranscribedIInv, T, q
<1>17. QED
  BY <1>6, <1>7, <1>8, <1>9, <1>10, <1>11, <1>12, <1>13, <1>14, <1>15, <1>16
  DEF PipelineNext, Handlers

\* Four threads put into text_out, and still the client learns of a turn in the
\* order it happened: stopped, then its transcript, once and in the order of the
\* turns, then what the assistant makes of it; live snapshots come before the
\* transcript.
THEOREM PipelineCausalOrder == PipelineSpec => []CausalOrder
<1> DEFINE IInv == ChainIInv /\ AnnouncedIInv /\ TranscribedIInv /\ Causal(text_out)
<1>1. PipelineInit => IInv
  <2>1. PipelineInit => ChainIInv
    BY DEF PipelineInit, TSInit, Idle, ChainIInv, QueueOrder, STTOrder, TextOrder, LogOrder, Holds
  <2>2. PipelineInit => AnnouncedIInv /\ TranscribedIInv /\ Causal(text_out)
    BY DEF PipelineInit, TSInit, Idle, AnnouncedIInv, TranscribedIInv, Causal
  <2>3. QED
    BY <2>1, <2>2
<1>2. Types /\ IInv /\ [PipelineNext]_pipelineVars => IInv'
  <2>1. Types /\ IInv /\ [PipelineNext]_pipelineVars => Causal(text_out)'
    BY CausalStep
  <2>2. QED
    BY <2>1, ChainStep, AnnouncedStep, TranscribedStep
<1>3. IInv => CausalOrder
  BY DEF Causal, CausalOrder, HoldsBefore, Before
<1>4. QED
  BY <1>1, <1>2, <1>3, TypesInit, TypesStep, PTL DEF PipelineSpec
=============================================================================
