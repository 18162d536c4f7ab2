------------------------------ MODULE VAD_proofs ------------------------------
(***************************************************************************)
(* Proofs about SileroVADHandler (VAD.tla), for every frame length, every  *)
(* threshold and every number of items: the types of its state, the audio  *)
(* of an utterance, then the turns it makes (events and segments, and that *)
(* it implements TurnSegmenter).  For the turns, each step of the handler  *)
(* is first shown to be one of six kinds; the properties follow from these.*)
(***************************************************************************)
EXTENDS VAD, TLAPS

\* What the handler can put in its queues.
LEMMA EventType ==
  ASSUME NEW t \in Nat
  PROVE  /\ Event("speech_started", t) \in TurnEvent
         /\ Event("speech_stopped", t) \in TurnEvent
BY DEF Event, TurnEvent

LEMMA SegmentType ==
  ASSUME NEW acc \in Seq(Nat), NEW t \in Nat
  PROVE  /\ VADAudio("progressive", acc, t) \in Segment
         /\ VADAudio("final", acc, t) \in Segment
BY DEF VADAudio, Segment

\* Closing an utterance keeps the types of what it changes.
LEMMA EmitUtteranceType ==
  ASSUME NEW acc \in Seq(Nat), NEW t \in Nat, NEW events \in Seq(TurnEvent),
         NEW prompt \in Seq(Segment), TypeOK, EmitUtterance(acc, t, events, prompt)
  PROVE  /\ speech_acc' \in Seq(Nat)
         /\ speech_started' \in BOOLEAN
         /\ silence_ms' \in Nat
         /\ text_out' \in Seq(TurnEvent)
         /\ spoken_prompt' \in Seq(Segment)
<1>1. /\ speech_acc' = <<>> \/ speech_acc' = acc
      /\ speech_started' = FALSE \/ speech_started' = speech_started
      /\ silence_ms' = 0 \/ silence_ms' = silence_ms
      /\ text_out' = events \/ text_out' = Append(events, Event("speech_stopped", t))
      /\ \/ spoken_prompt' = prompt
         \/ spoken_prompt' = Append(prompt, VADAudio("final", acc, t))
  BY Zenon DEF EmitUtterance
<1>2. <<>> \in Seq(Nat) /\ Append(events, Event("speech_stopped", t)) \in Seq(TurnEvent)
  BY EventType
<1>3. Append(prompt, VADAudio("final", acc, t)) \in Seq(Segment)
  BY SegmentType
<1>4. silence_ms \in Nat
  BY DEF TypeOK
<1>5. speech_started \in BOOLEAN
  BY DEF TypeOK
<1>6. speech_acc' \in Seq(Nat)
  BY <1>1, <1>2
<1>7. silence_ms' \in Nat
  BY <1>1, <1>4
<1>8. speech_started' \in BOOLEAN
  BY <1>1, <1>5
<1>9. text_out' \in Seq(TurnEvent)
  BY <1>1, <1>2
<1>10. spoken_prompt' \in Seq(Segment)
  BY <1>1, <1>3
<1>11. QED
  BY <1>6, <1>7, <1>8, <1>9, <1>10

\* Every variable keeps its type, whatever the chunk sizes, the thresholds and
\* the moment at which the warm-up thread runs.
THEOREM VADTypeOK == Spec => []TypeOK
<1>1. Init => TypeOK
  <2> SUFFICES ASSUME Init
               PROVE  TypeOK
    OBVIOUS
  <2>1. speech_started \in BOOLEAN
    BY DEF Init
  <2>2. /\ speech_acc \in Seq(Nat)
        /\ spoken_prompt \in Seq(Segment)
        /\ text_out \in Seq(TurnEvent)
    BY DEF Init
  <2>3. QED
    BY <2>1, <2>2 DEF Init, TypeOK
<1>2. TypeOK /\ [Next]_vars => TypeOK'
  <2> SUFFICES ASSUME TypeOK, [Next]_vars
               PROVE  TypeOK'
    OBVIOUS
  <2>1. CASE Commit
    <3>1. /\ speech_acc' \in Seq(Nat)
          /\ speech_started' \in BOOLEAN
          /\ silence_ms' \in Nat
          /\ text_out' \in Seq(TurnEvent)
          /\ spoken_prompt' \in Seq(Segment)
      <4>1. CASE speech_started
        BY <2>1, <4>1, EmitUtteranceType DEF Commit, TypeOK
      <4>2. CASE ~speech_started
        BY <2>1, <4>2 DEF Commit, TypeOK
      <4>3. QED
        BY <4>1, <4>2
    <3>2. QED
      BY <2>1, <3>1 DEF Commit, TakeItem, TypeOK
  <2>2. CASE LazyWarmupFails
    BY <2>2 DEF LazyWarmupFails, TakeItem, turnVars, TypeOK
  <2>3. ASSUME NEW n \in Chunks, Gather(n)
        PROVE  TypeOK'
    BY <2>3, VADAssumption DEF Gather, TakeItem, Chunks, WarmAfterCall, turnVars, TypeOK
  <2>4. ASSUME NEW n \in Chunks, TakeFrame(n)
        PROVE  /\ items' \in Nat /\ buffer' \in Nat /\ frames' \in Nat
               /\ warmer' = warmer /\ min_silence_ms' = min_silence_ms
    BY <2>4, VADAssumption DEF TakeFrame, TakeItem, Chunks, TypeOK
  <2>5. ASSUME NEW n \in Chunks, FrameRaises(n)
        PROVE  TypeOK'
    BY <2>5, <2>4 DEF FrameRaises, turnVars, TypeOK
  <2>6. ASSUME NEW n \in Chunks, SpeechFrame(n)
        PROVE  TypeOK'
    <3> DEFINE starting == ~speech_started
               t        == IF starting THEN turn_id + 1 ELSE turn_id
               acc      == Append(speech_acc, frames + 1)
               count    == IF starting THEN 1 ELSE frame_count + 1
               events   == IF starting THEN Append(text_out, Event("speech_started", t))
                                       ELSE text_out
               prompt   == IF count % ProgressEvery = 0
                           THEN Append(spoken_prompt, VADAudio("progressive", acc, t))
                           ELSE spoken_prompt
    <3>1. t \in Nat /\ count \in Nat
      BY DEF TypeOK
    <3>2. acc \in Seq(Nat)
      BY DEF TypeOK
    <3>3. events \in Seq(TurnEvent)
      BY <3>1, EventType DEF TypeOK
    <3>4. prompt \in Seq(Segment)
      <4>1. VADAudio("progressive", acc, t) \in Segment
        BY <3>1, <3>2, SegmentType
      <4> HIDE DEF t, acc, count
      <4>2. QED
        BY <4>1 DEF TypeOK
    <3>5. /\ turn_id' = t /\ frame_count' = count /\ warm' = "ready"
          /\ generation' \in Nat /\ TakeFrame(n)
      BY <2>6 DEF SpeechFrame, NewTurn, Cancelled, TypeOK
    <3>6. \/ EmitUtterance(acc, t, events, prompt)
          \/ /\ speech_started' = TRUE /\ silence_ms' = 0 /\ speech_acc' = acc
             /\ text_out' = events /\ spoken_prompt' = prompt
      BY <2>6 DEF SpeechFrame, NewTurn, Cancelled
    <3> HIDE DEF t, acc, count, events, prompt
    <3>7. /\ speech_acc' \in Seq(Nat)
          /\ speech_started' \in BOOLEAN
          /\ silence_ms' \in Nat
          /\ text_out' \in Seq(TurnEvent)
          /\ spoken_prompt' \in Seq(Segment)
      <4>1. CASE EmitUtterance(acc, t, events, prompt)
        BY <4>1, <3>1, <3>2, <3>3, <3>4, EmitUtteranceType
      <4>2. CASE /\ speech_started' = TRUE /\ silence_ms' = 0 /\ speech_acc' = acc
                 /\ text_out' = events /\ spoken_prompt' = prompt
        BY <4>2, <3>2, <3>3, <3>4
      <4>3. QED
        BY <3>6, <4>1, <4>2
    <3>8. QED
      BY <2>4, <3>1, <3>5, <3>7 DEF TypeOK
  <2>7. ASSUME NEW n \in Chunks, SilenceFrame(n)
        PROVE  TypeOK'
    <3> DEFINE acc    == IF speech_started THEN Append(speech_acc, frames + 1) ELSE speech_acc
               silent == silence_ms + FrameMs
    <3>1. acc \in Seq(Nat)
      BY DEF TypeOK
    <3>2. silent \in Nat
      BY VADAssumption DEF TypeOK
    <3>3. /\ warm' = "ready" /\ UNCHANGED <<turn_id, frame_count, generation>>
          /\ TakeFrame(n)
      BY <2>7 DEF SilenceFrame, WithPause
    <3>4. \/ EmitUtterance(acc, turn_id, text_out, spoken_prompt)
          \/ /\ speech_acc' = acc /\ silence_ms' = silent
             /\ UNCHANGED <<speech_started, text_out, spoken_prompt>>
      BY <2>7 DEF SilenceFrame, WithPause
    <3> HIDE DEF acc, silent
    <3>5. /\ speech_acc' \in Seq(Nat)
          /\ speech_started' \in BOOLEAN
          /\ silence_ms' \in Nat
          /\ text_out' \in Seq(TurnEvent)
          /\ spoken_prompt' \in Seq(Segment)
      BY <3>1, <3>2, <3>4, EmitUtteranceType DEF TypeOK
    <3>6. QED
      BY <2>4, <3>3, <3>5 DEF TypeOK
  <2>8. CASE WarmerSetsSession
    BY <2>8 DEF WarmerSetsSession, turnVars, TypeOK
  <2>9. CASE WarmerSetsState
    BY <2>9 DEF WarmerSetsState, turnVars, TypeOK
  <2>10. CASE PipelineUpdate
    BY <2>10 DEF PipelineUpdate, turnVars, TypeOK
  <2>11. CASE UNCHANGED vars
    BY <2>11 DEF vars, turnVars, TypeOK
  <2>12. QED
    BY <2>1, <2>2, <2>3, <2>5, <2>6, <2>7, <2>8, <2>9, <2>10, <2>11 DEF Next
<1>3. QED
  BY <1>1, <1>2, PTL DEF Spec

\* One item brings at most one frame's worth of audio and process takes a frame
\* out as soon as there is one, so the residue stays below a frame.
THEOREM VADBufferBelowFrame == Spec => []BufferBelowFrame
<1>1. Init => BufferBelowFrame
  BY VADAssumption DEF Init, BufferBelowFrame
<1>2. TypeOK /\ BufferBelowFrame /\ [Next]_vars => BufferBelowFrame'
  BY VADAssumption
  DEF TypeOK, BufferBelowFrame, Next, vars, Chunks, TakeFrame, Commit, LazyWarmupFails, Gather,
      FrameRaises, SpeechFrame, SilenceFrame, WarmerSetsSession, WarmerSetsState,
      PipelineUpdate
<1>3. QED
  BY <1>1, <1>2, VADTypeOK, PTL DEF Spec

-----------------------------------------------------------------------------
\* Every segment of the queue p is gapless.
Gapless(p) == \A i \in 1..Len(p) : Consecutive(p[i].audio)

\* While a turn is open its frames are the last ones read, which takes a model
\* that is completely loaded: no frame can be dropped any more.
OpenTurn ==
    /\ speech_started <=> speech_acc # <<>>
    /\ speech_started => /\ Consecutive(speech_acc)
                         /\ speech_acc[Len(speech_acc)] = frames
                         /\ warm = "ready"

\* One frame is gapless, and the frame read next continues a gapless run.
LEMMA ConsecutiveOne ==
  ASSUME NEW f \in Nat
  PROVE  Consecutive(Append(<<>>, f))
BY DEF Consecutive

LEMMA ConsecutiveNext ==
  ASSUME NEW s \in Seq(Nat), Consecutive(s)
  PROVE  Consecutive(Append(s, s[Len(s)] + 1))
<1>1. Len(s) \in Nat \ {0}
  BY DEF Consecutive
<1>2. s[Len(s)] \in Nat /\ s[1] \in Nat /\ s[Len(s)] + 1 = s[1] + Len(s)
  BY <1>1 DEF Consecutive
<1> DEFINE r == Append(s, s[Len(s)] + 1)
<1>3. /\ Len(r) = Len(s) + 1 /\ r[1] = s[1] /\ r # <<>>
      /\ \A i \in 1..Len(s) : r[i] = s[i]
      /\ r[Len(s) + 1] = s[Len(s)] + 1
  BY <1>1, <1>2
<1> HIDE DEF r
<1>4. ASSUME NEW i \in 1..Len(r)
      PROVE  r[i] + 1 = r[1] + i
  <2>1. CASE i \in 1..Len(s)
    BY <2>1, <1>3 DEF Consecutive
  <2>2. CASE i = Len(s) + 1
    BY <2>2, <1>1, <1>2, <1>3
  <2>3. QED
    BY <2>1, <2>2, <1>1, <1>3
<1>5. Consecutive(r)
  BY <1>3, <1>4 DEF Consecutive
<1>6. QED
  BY <1>5 DEF r

LEMMA GaplessAppend ==
  ASSUME NEW p \in Seq(Segment), Gapless(p), NEW m \in Segment, Consecutive(m.audio)
  PROVE  Gapless(Append(p, m))
<1> SUFFICES ASSUME NEW i \in 1..Len(Append(p, m))
             PROVE  Consecutive(Append(p, m)[i].audio)
  BY DEF Gapless
<1>1. CASE i \in 1..Len(p)
  <2>1. Append(p, m)[i] = p[i]
    BY <1>1
  <2>2. QED
    BY <1>1, <2>1 DEF Gapless
<1>2. CASE i = Len(p) + 1
  <2>1. Append(p, m)[i] = m
    BY <1>2
  <2>2. QED
    BY <2>1
<1>3. QED
  BY <1>1, <1>2

\* Closing a gapless utterance queues it, if at all, and leaves no open turn.
LEMMA EmitUtteranceIntact ==
  ASSUME NEW acc \in Seq(Nat), NEW t \in Nat, NEW events, NEW prompt \in Seq(Segment),
         Consecutive(acc), Gapless(prompt), EmitUtterance(acc, t, events, prompt)
  PROVE  Gapless(spoken_prompt') /\ speech_acc' = <<>> /\ speech_started' = FALSE
<1>1. acc # <<>>
  BY DEF Consecutive
<1>2. speech_acc' = <<>> /\ speech_started' = FALSE
  BY <1>1, Zenon DEF EmitUtterance
<1>3. \/ spoken_prompt' = prompt
      \/ spoken_prompt' = Append(prompt, VADAudio("final", acc, t))
  BY Zenon DEF EmitUtterance
<1>4. VADAudio("final", acc, t) \in Segment /\ VADAudio("final", acc, t).audio = acc
  BY SegmentType DEF VADAudio
<1>5. Gapless(Append(prompt, VADAudio("final", acc, t)))
  BY <1>4, GaplessAppend
<1>6. Gapless(spoken_prompt')
  BY <1>3, <1>5
<1>7. QED
  BY <1>2, <1>6

\* No frame of a turn is lost: everything handed to the STT is gapless, and so
\* is, up to the last frame read, what is being accumulated.
THEOREM VADUtteranceIntact == Spec => []UtteranceIntact
<1> DEFINE IInv == OpenTurn /\ Gapless(spoken_prompt)
<1>1. Init => IInv
  BY DEF Init, OpenTurn, Gapless
<1>2. TypeOK /\ TypeOK' /\ IInv /\ [Next]_vars => IInv'
  <2> SUFFICES ASSUME TypeOK, TypeOK', IInv, [Next]_vars
               PROVE  IInv'
    OBVIOUS
  <2>1. ASSUME UNCHANGED turnVars, speech_started => warm' = "ready" /\ frames' = frames
        PROVE  IInv'
    BY <2>1 DEF turnVars, OpenTurn, Gapless
  <2>2. ASSUME Gapless(spoken_prompt'), speech_acc' = <<>>, speech_started' = FALSE
        PROVE  IInv'
    BY <2>2 DEF OpenTurn, Gapless
  <2>3. CASE Commit
    <3>1. CASE speech_started
      <4>1. EmitUtterance(speech_acc, turn_id, text_out, spoken_prompt)
        BY <2>3, <3>1 DEF Commit
      <4>2. Consecutive(speech_acc) /\ speech_acc \in Seq(Nat) /\ turn_id \in Nat
            /\ spoken_prompt \in Seq(Segment)
        BY <3>1 DEF OpenTurn, TypeOK
      <4>3. QED
        BY <4>1, <4>2, <2>2, EmitUtteranceIntact
    <3>2. CASE ~speech_started
      BY <2>3, <3>2 DEF Commit, OpenTurn, Gapless
    <3>3. QED
      BY <3>1, <3>2
  <2>4. CASE LazyWarmupFails
    BY <2>4, <2>1 DEF LazyWarmupFails, OpenTurn
  <2>5. ASSUME NEW n \in Chunks, Gather(n)
        PROVE  IInv'
    BY <2>5, <2>1 DEF Gather, WarmAfterCall, OpenTurn
  <2>6. ASSUME NEW n \in Chunks, FrameRaises(n)
        PROVE  IInv'
    BY <2>6, <2>1 DEF FrameRaises, OpenTurn
  <2>7. ASSUME NEW acc, acc = Append(speech_acc, frames + 1)
        PROVE  acc \in Seq(Nat) /\ acc # <<>> /\ Consecutive(acc) /\ acc[Len(acc)] = frames + 1
    <3>1. speech_acc \in Seq(Nat) /\ frames \in Nat
      BY DEF TypeOK
    <3>2. acc \in Seq(Nat) /\ acc # <<>> /\ acc[Len(acc)] = frames + 1
      BY <2>7, <3>1
    <3>3. CASE speech_started
      <4>1. Consecutive(speech_acc) /\ speech_acc[Len(speech_acc)] = frames
        BY <3>3 DEF OpenTurn
      <4>2. QED
        BY <4>1, <3>1, <3>2, <2>7, ConsecutiveNext
    <3>4. CASE ~speech_started
      <4>1. speech_acc = <<>>
        BY <3>4 DEF OpenTurn
      <4>2. frames + 1 \in Nat
        BY <3>1
      <4>3. QED
        BY <4>1, <4>2, <3>2, <2>7, ConsecutiveOne
    <3>5. QED
      BY <3>3, <3>4
  <2>8. ASSUME NEW acc, acc \in Seq(Nat), acc # <<>>, Consecutive(acc),
               acc[Len(acc)] = frames', speech_acc' = acc, speech_started' = TRUE,
               warm' = "ready", Gapless(spoken_prompt')
        PROVE  IInv'
    BY <2>8 DEF OpenTurn, Gapless
  <2>9. ASSUME NEW n \in Chunks, SpeechFrame(n)
        PROVE  IInv'
    <3> DEFINE starting == ~speech_started
               t        == IF starting THEN turn_id + 1 ELSE turn_id
               acc      == Append(speech_acc, frames + 1)
               count    == IF starting THEN 1 ELSE frame_count + 1
               events   == IF starting THEN Append(text_out, Event("speech_started", t))
                                       ELSE text_out
               prompt   == IF count % ProgressEvery = 0
                           THEN Append(spoken_prompt, VADAudio("progressive", acc, t))
                           ELSE spoken_prompt
    <3>1. \/ EmitUtterance(acc, t, events, prompt)
          \/ /\ speech_started' = TRUE /\ silence_ms' = 0 /\ speech_acc' = acc
             /\ text_out' = events /\ spoken_prompt' = prompt
      BY <2>9 DEF SpeechFrame, NewTurn, Cancelled
    <3>2. warm' = "ready" /\ frames' = frames + 1
      BY <2>9 DEF SpeechFrame, NewTurn, Cancelled, TakeFrame
    <3>3. acc \in Seq(Nat) /\ acc # <<>> /\ Consecutive(acc) /\ acc[Len(acc)] = frames + 1
      BY <2>7
    <3>4. t \in Nat
      BY DEF TypeOK
    <3>5. VADAudio("progressive", acc, t) \in Segment
          /\ VADAudio("progressive", acc, t).audio = acc
      BY <3>3, <3>4, SegmentType DEF VADAudio
    <3>6. prompt = Append(spoken_prompt, VADAudio("progressive", acc, t))
          \/ prompt = spoken_prompt
      OBVIOUS
    <3> HIDE DEF t, acc, count, events, prompt
    <3>7. prompt \in Seq(Segment) /\ Gapless(prompt)
      <4>1. spoken_prompt \in Seq(Segment) /\ Gapless(spoken_prompt)
        BY DEF TypeOK
      <4>2. Append(spoken_prompt, VADAudio("progressive", acc, t)) \in Seq(Segment)
        BY <4>1, <3>5
      <4>3. Gapless(Append(spoken_prompt, VADAudio("progressive", acc, t)))
        BY <4>1, <3>3, <3>5, GaplessAppend
      <4>4. QED
        BY <4>1, <4>2, <4>3, <3>6
    <3>8. CASE EmitUtterance(acc, t, events, prompt)
      BY <3>8, <3>3, <3>4, <3>7, <2>2, EmitUtteranceIntact
    <3>9. CASE /\ speech_started' = TRUE /\ silence_ms' = 0 /\ speech_acc' = acc
               /\ text_out' = events /\ spoken_prompt' = prompt
      BY <3>9, <3>2, <3>3, <3>7, <2>8
    <3>10. QED
      BY <3>1, <3>8, <3>9
  <2>10. ASSUME NEW n \in Chunks, SilenceFrame(n)
         PROVE  IInv'
    <3>1. warm' = "ready" /\ frames' = frames + 1
      BY <2>10 DEF SilenceFrame, WithPause, TakeFrame
    <3>2. CASE ~speech_started
      <4>1. speech_acc' = speech_acc /\ UNCHANGED <<speech_started, spoken_prompt>>
        BY <2>10, <3>2 DEF SilenceFrame, WithPause
      <4>2. QED
        BY <4>1, <3>2 DEF OpenTurn, Gapless
    <3>3. CASE speech_started
      <4> DEFINE acc == Append(speech_acc, frames + 1)
      <4>1. \/ EmitUtterance(acc, turn_id, text_out, spoken_prompt)
            \/ speech_acc' = acc /\ UNCHANGED <<speech_started, spoken_prompt>>
        BY <2>10, <3>3 DEF SilenceFrame, WithPause
      <4>2. acc \in Seq(Nat) /\ acc # <<>> /\ Consecutive(acc) /\ acc[Len(acc)] = frames + 1
        BY <2>7
      <4>3. turn_id \in Nat /\ spoken_prompt \in Seq(Segment) /\ Gapless(spoken_prompt)
        BY DEF TypeOK
      <4>4. speech_started = TRUE
        BY <3>3 DEF TypeOK
      <4> HIDE DEF acc
      <4>5. CASE EmitUtterance(acc, turn_id, text_out, spoken_prompt)
        BY <4>5, <4>2, <4>3, <2>2, EmitUtteranceIntact
      <4>6. CASE speech_acc' = acc /\ UNCHANGED <<speech_started, spoken_prompt>>
        BY <4>6, <4>2, <4>3, <4>4, <3>1, <2>8
      <4>7. QED
        BY <4>1, <4>5, <4>6
    <3>4. QED
      BY <3>2, <3>3
  <2>11. CASE WarmerSetsSession
    BY <2>11, <2>1 DEF WarmerSetsSession, OpenTurn
  <2>12. CASE WarmerSetsState
    BY <2>12, <2>1 DEF WarmerSetsState, OpenTurn
  <2>13. CASE PipelineUpdate
    BY <2>13, <2>1 DEF PipelineUpdate, OpenTurn
  <2>14. CASE UNCHANGED vars
    BY <2>14, <2>1 DEF vars, OpenTurn
  <2>15. QED
    BY <2>3, <2>4, <2>5, <2>6, <2>9, <2>10, <2>11, <2>12, <2>13, <2>14 DEF Next
<1>3. IInv => UtteranceIntact
  BY DEF OpenTurn, Gapless, UtteranceIntact
<1>4. QED
  BY <1>1, <1>2, <1>3, VADTypeOK, PTL DEF Spec

-----------------------------------------------------------------------------
(* The turns. *)

\* The utterance of turn t is acc, and long enough or not.
Long(acc) == Len(acc) * FrameMs >= MinSpeechMs

Segments(acc, t, prompt) ==
    IF Long(acc) THEN Append(prompt, VADAudio("final", acc, t)) ELSE prompt
Stops(acc, t, events) ==
    IF Long(acc) THEN Append(events, Event("speech_stopped", t)) ELSE events

\* Audio that may be handed on in this step: that of the open turn, with or
\* without the frame that is read.
WithFrame == Append(speech_acc, frames + 1)

\* Nothing about turns but one frame more of the open one.
QuietStep ==
    /\ UNCHANGED <<turn_id, speech_started, generation, spoken_prompt, text_out>>
    /\ speech_acc' = speech_acc \/ (speech_started /\ speech_acc' = WithFrame)
    /\ frames' \in {frames, frames + 1}

StartStep ==
    /\ ~speech_started /\ speech_started' = TRUE
    /\ turn_id' = turn_id + 1 /\ generation' = generation + 1
    /\ speech_acc' = WithFrame /\ frames' = frames + 1
    /\ text_out' = Append(text_out, Event("speech_started", turn_id + 1))
    /\ spoken_prompt' = spoken_prompt

ProgressStep ==
    /\ speech_started /\ speech_started' = TRUE
    /\ UNCHANGED <<turn_id, generation, text_out>>
    /\ speech_acc' = WithFrame /\ frames' = frames + 1
    /\ spoken_prompt' = Append(spoken_prompt, VADAudio("progressive", WithFrame, turn_id))

EndStep(acc) ==
    /\ speech_started /\ speech_started' = FALSE
    /\ UNCHANGED <<turn_id, generation>>
    /\ speech_acc' = <<>>
    /\ \/ acc = speech_acc /\ frames' = frames
       \/ acc = WithFrame /\ frames' = frames + 1
    /\ text_out' = Stops(acc, turn_id, text_out)
    /\ spoken_prompt' = Segments(acc, turn_id, spoken_prompt)

BlipStep ==
    /\ ~speech_started /\ speech_started' = FALSE
    /\ turn_id' = turn_id + 1 /\ generation' = generation + 1
    /\ speech_acc' = <<>> /\ frames' = frames + 1
    /\ text_out' = Stops(WithFrame, turn_id + 1,
                         Append(text_out, Event("speech_started", turn_id + 1)))
    /\ spoken_prompt' = Segments(WithFrame, turn_id + 1, spoken_prompt)

ProgressEndStep ==
    /\ speech_started /\ speech_started' = FALSE
    /\ UNCHANGED <<turn_id, generation>>
    /\ speech_acc' = <<>> /\ frames' = frames + 1
    /\ text_out' = Stops(WithFrame, turn_id, text_out)
    /\ spoken_prompt' = Segments(WithFrame, turn_id,
                           Append(spoken_prompt, VADAudio("progressive", WithFrame, turn_id)))

TurnStep ==
    \/ QuietStep \/ StartStep \/ ProgressStep \/ (\E acc : EndStep(acc))
    \/ BlipStep \/ ProgressEndStep

\* Closing an utterance that is not empty.
LEMMA EmitCases ==
  ASSUME NEW acc \in Seq(Nat), acc # <<>>, NEW t, NEW events, NEW prompt,
         EmitUtterance(acc, t, events, prompt)
  PROVE  /\ speech_acc' = <<>> /\ speech_started' = FALSE
         /\ text_out' = Stops(acc, t, events)
         /\ spoken_prompt' = Segments(acc, t, prompt)
<1>1. Len(acc) * FrameMs < MinSpeechMs <=> ~Long(acc)
  BY VADAssumption DEF Long
<1>2. /\ speech_acc' = <<>> /\ speech_started' = FALSE
      /\ IF Len(acc) * FrameMs < MinSpeechMs
         THEN text_out' = events /\ spoken_prompt' = prompt
         ELSE /\ text_out' = Append(events, Event("speech_stopped", t))
              /\ spoken_prompt' = Append(prompt, VADAudio("final", acc, t))
  BY Zenon DEF EmitUtterance
<1>3. QED
  BY <1>1, <1>2 DEF Stops, Segments

\* Every step of the handler is of one of the six kinds.
LEMMA StepKinds ==
  ASSUME TypeOK, UtteranceIntact, [Next]_vars
  PROVE  TurnStep
<1>1. /\ speech_acc \in Seq(Nat) /\ frames \in Nat /\ speech_started \in BOOLEAN
      /\ speech_started <=> speech_acc # <<>>
  BY DEF TypeOK, UtteranceIntact
<1>2. WithFrame \in Seq(Nat) /\ WithFrame # <<>>
  BY <1>1 DEF WithFrame
<1>3. CASE Commit
  <2>1. CASE speech_started
    <3>1. EmitUtterance(speech_acc, turn_id, text_out, spoken_prompt)
          /\ UNCHANGED <<turn_id, generation, frames>>
      BY <1>3, <2>1 DEF Commit
    <3>2. EndStep(speech_acc)
      BY <1>1, <2>1, <3>1, EmitCases DEF EndStep
    <3>3. QED
      BY <3>2 DEF TurnStep
  <2>2. CASE ~speech_started
    BY <1>3, <2>2 DEF Commit, QuietStep, TurnStep
  <2>3. QED
    BY <2>1, <2>2
<1>4. CASE LazyWarmupFails
  BY <1>4 DEF LazyWarmupFails, turnVars, QuietStep, TurnStep
<1>5. ASSUME NEW n \in Chunks, Gather(n) \/ FrameRaises(n)
      PROVE  TurnStep
  BY <1>5 DEF Gather, FrameRaises, TakeFrame, turnVars, QuietStep, TurnStep
<1>6. ASSUME NEW n \in Chunks, SpeechFrame(n)
      PROVE  TurnStep
  <2> DEFINE t      == IF ~speech_started THEN turn_id + 1 ELSE turn_id
             count  == IF ~speech_started THEN 1 ELSE frame_count + 1
             events == IF ~speech_started THEN Append(text_out, Event("speech_started", t))
                                          ELSE text_out
             prompt == IF count % ProgressEvery = 0
                       THEN Append(spoken_prompt, VADAudio("progressive", WithFrame, t))
                       ELSE spoken_prompt
  <2>1. /\ turn_id' = t /\ frames' = frames + 1
        /\ generation' = IF ~speech_started THEN generation + 1 ELSE generation
    BY <1>6 DEF SpeechFrame, NewTurn, Cancelled, TakeFrame
  <2>2. \/ EmitUtterance(WithFrame, t, events, prompt)
        \/ /\ speech_started' = TRUE /\ speech_acc' = WithFrame
           /\ text_out' = events /\ spoken_prompt' = prompt
    BY <1>6 DEF SpeechFrame, NewTurn, Cancelled, WithFrame
  <2>3. \/ /\ speech_started' = FALSE /\ speech_acc' = <<>>
           /\ text_out' = Stops(WithFrame, t, events)
           /\ spoken_prompt' = Segments(WithFrame, t, prompt)
        \/ /\ speech_started' = TRUE /\ speech_acc' = WithFrame
           /\ text_out' = events /\ spoken_prompt' = prompt
    <3> HIDE DEF t, events, prompt
    <3>1. QED
      BY <1>2, <2>2, EmitCases
  <2>4. CASE ~speech_started
    <3>1. count % ProgressEvery # 0
      BY <2>4, VADAssumption
    <3>2. /\ t = turn_id + 1 /\ prompt = spoken_prompt
          /\ events = Append(text_out, Event("speech_started", turn_id + 1))
      BY <2>4, <3>1
    <3> HIDE DEF t, count, events, prompt
    <3>3. StartStep \/ BlipStep
      BY <2>1, <2>3, <2>4, <3>2 DEF StartStep, BlipStep
    <3>4. QED
      BY <3>3 DEF TurnStep
  <2>5. CASE speech_started
    <3>1. /\ t = turn_id /\ events = text_out
          /\ \/ prompt = spoken_prompt
             \/ prompt = Append(spoken_prompt, VADAudio("progressive", WithFrame, turn_id))
      BY <2>5
    <3> HIDE DEF t, count, events, prompt
    <3>2. speech_started = TRUE
      BY <1>1, <2>5
    <3>3. QuietStep \/ ProgressStep \/ EndStep(WithFrame) \/ ProgressEndStep
      BY <2>1, <2>3, <2>5, <3>1, <3>2 DEF QuietStep, ProgressStep, EndStep, ProgressEndStep
    <3>4. QED
      BY <3>3 DEF TurnStep
  <2>6. QED
    BY <2>4, <2>5
<1>7. ASSUME NEW n \in Chunks, SilenceFrame(n)
      PROVE  TurnStep
  <2>1. UNCHANGED <<turn_id, generation>> /\ frames' = frames + 1
    BY <1>7 DEF SilenceFrame, WithPause, TakeFrame
  <2>2. \/ speech_started /\ EmitUtterance(WithFrame, turn_id, text_out, spoken_prompt)
        \/ /\ speech_acc' = IF speech_started THEN WithFrame ELSE speech_acc
           /\ UNCHANGED <<speech_started, text_out, spoken_prompt>>
    BY <1>7 DEF SilenceFrame, WithPause, WithFrame
  <2>3. EndStep(WithFrame) \/ QuietStep
    BY <1>2, <2>1, <2>2, EmitCases DEF EndStep, QuietStep
  <2>4. QED
    BY <2>3 DEF TurnStep
<1>8. CASE WarmerSetsSession \/ WarmerSetsState \/ PipelineUpdate \/ UNCHANGED vars
  BY <1>8 DEF WarmerSetsSession, WarmerSetsState, PipelineUpdate, vars, turnVars, QuietStep, TurnStep
<1>9. QED
  BY <1>3, <1>4, <1>5, <1>6, <1>7, <1>8 DEF Next

-----------------------------------------------------------------------------
\* The types of what a step hands on.
LEMMA HandedOn ==
  ASSUME TypeOK
  PROVE  /\ WithFrame \in Seq(Nat) /\ speech_acc \in Seq(Nat)
         /\ Len(WithFrame) = Len(speech_acc) + 1
         /\ WithFrame[Len(WithFrame)] = frames + 1
         /\ \A i \in 1..Len(speech_acc) : WithFrame[i] = speech_acc[i]
         /\ \A t \in Nat : /\ Event("speech_started", t) \in TurnEvent
                           /\ Event("speech_stopped", t) \in TurnEvent
         /\ \A acc \in Seq(Nat), t \in Nat : /\ VADAudio("progressive", acc, t) \in Segment
                                             /\ VADAudio("final", acc, t) \in Segment
<1>1. speech_acc \in Seq(Nat) /\ frames + 1 \in Nat
  BY DEF TypeOK
<1>2. QED
  BY <1>1, EventType, SegmentType DEF WithFrame

LEMMA Appended ==
  ASSUME NEW S, NEW s \in Seq(S), NEW e \in S
  PROVE  /\ Append(s, e) \in Seq(S)
         /\ Len(Append(s, e)) = Len(s) + 1 /\ Len(s) \in Nat
         /\ \A i \in 1..Len(s) : Append(s, e)[i] = s[i] /\ s[i] \in S
         /\ Append(s, e)[Len(s) + 1] = e
OBVIOUS

LEMMA EventFields == \A e \in TurnEvent : e.turn \in Nat
BY DEF TurnEvent

LEMMA SegmentFields == \A m \in Segment : m.turn \in Nat /\ m.audio \in Seq(Nat)
BY DEF Segment

\* The event log up to turn t: what EventProtocol says, and no event of a later turn.
EventsUpTo(s, t) ==
    /\ \A i \in 1..Len(s) :
          s[i].type = "speech_stopped" =>
             i > 1 /\ s[i-1] = Event("speech_started", s[i].turn)
    /\ \A i, j \in 1..Len(s) :
          i < j /\ s[j].type = "speech_started" => s[i].turn < s[j].turn
    /\ \A i \in 1..Len(s) : s[i].turn <= t

LastIs(s, e) == s # <<>> /\ s[Len(s)] = e

\* A new turn is announced.
LEMMA StartedAppend ==
  ASSUME NEW s \in Seq(TurnEvent), NEW t \in Nat, EventsUpTo(s, t)
  PROVE  /\ Append(s, Event("speech_started", t + 1)) \in Seq(TurnEvent)
         /\ EventsUpTo(Append(s, Event("speech_started", t + 1)), t + 1)
         /\ LastIs(Append(s, Event("speech_started", t + 1)), Event("speech_started", t + 1))
<1> DEFINE e == Event("speech_started", t + 1)
           r == Append(s, e)
<1>1. e \in TurnEvent /\ e.type = "speech_started" /\ e.turn = t + 1
  <2>1. t + 1 \in Nat
    OBVIOUS
  <2>2. e \in TurnEvent
    BY <2>1, EventType
  <2>3. QED
    BY <2>2 DEF Event
<1>2. /\ r \in Seq(TurnEvent) /\ Len(r) = Len(s) + 1 /\ Len(s) \in Nat
      /\ \A i \in 1..Len(s) : r[i] = s[i] /\ s[i].turn \in Nat
      /\ r[Len(s) + 1] = e
  <2> HIDE DEF e
  <2>1. QED
    BY <1>1, Appended, EventFields
<1>3. LastIs(r, e)
  <2> HIDE DEF e
  <2>1. QED
    BY <1>1, <1>2 DEF LastIs
<1> HIDE DEF e, r
<1>4. ASSUME NEW i \in 1..Len(r), r[i].type = "speech_stopped"
      PROVE  i > 1 /\ r[i-1] = Event("speech_started", r[i].turn)
  <2>1. i \in 1..Len(s)
    BY <1>1, <1>2, <1>4
  <2>2. r[i] = s[i] /\ i > 1 /\ s[i-1] = Event("speech_started", s[i].turn)
    BY <1>2, <1>4, <2>1 DEF EventsUpTo
  <2>3. QED
    BY <1>2, <2>1, <2>2
<1>5. ASSUME NEW i \in 1..Len(r), NEW j \in 1..Len(r), i < j, r[j].type = "speech_started"
      PROVE  r[i].turn < r[j].turn
  <2>1. i \in 1..Len(s) /\ r[i] = s[i] /\ s[i].turn <= t /\ s[i].turn \in Nat
    BY <1>2, <1>5 DEF EventsUpTo
  <2>2. CASE j \in 1..Len(s)
    BY <1>2, <1>5, <2>1, <2>2 DEF EventsUpTo
  <2>3. CASE j = Len(s) + 1
    BY <1>1, <1>2, <2>1, <2>3
  <2>4. QED
    BY <1>2, <2>2, <2>3
<1>6. ASSUME NEW i \in 1..Len(r)
      PROVE  r[i].turn <= t + 1
  <2>1. CASE i \in 1..Len(s)
    BY <1>2, <2>1 DEF EventsUpTo
  <2>2. CASE i = Len(s) + 1
    BY <1>1, <1>2, <2>2
  <2>3. QED
    BY <1>2, <2>1, <2>2
<1>7. EventsUpTo(r, t + 1)
  BY <1>4, <1>5, <1>6 DEF EventsUpTo
<1>8. QED
  BY <1>2, <1>3, <1>7 DEF e, r

\* The turn that was announced last is closed.
LEMMA StoppedAppend ==
  ASSUME NEW s \in Seq(TurnEvent), NEW t \in Nat, EventsUpTo(s, t),
         LastIs(s, Event("speech_started", t))
  PROVE  EventsUpTo(Append(s, Event("speech_stopped", t)), t)
<1> DEFINE e == Event("speech_stopped", t)
           r == Append(s, e)
<1>1. e \in TurnEvent /\ e.type = "speech_stopped" /\ e.turn = t
  BY EventType DEF Event
<1>2. /\ Len(r) = Len(s) + 1 /\ Len(s) \in Nat \ {0}
      /\ \A i \in 1..Len(s) : r[i] = s[i] /\ s[i].turn \in Nat
      /\ r[Len(s) + 1] = e
  <2> HIDE DEF e
  <2>1. QED
    BY <1>1, Appended, EventFields DEF LastIs
<1> HIDE DEF e, r
<1>3. r[Len(s)] = Event("speech_started", t)
  BY <1>2 DEF LastIs
<1>4. ASSUME NEW i \in 1..Len(r), r[i].type = "speech_stopped"
      PROVE  i > 1 /\ r[i-1] = Event("speech_started", r[i].turn)
  <2>1. CASE i \in 1..Len(s)
    BY <1>2, <1>4, <2>1 DEF EventsUpTo
  <2>2. CASE i = Len(s) + 1
    <3>1. i - 1 = Len(s) /\ r[i].turn = t
      BY <1>1, <1>2, <2>2
    <3>2. QED
      BY <1>2, <1>3, <2>2, <3>1
  <2>3. QED
    BY <1>2, <2>1, <2>2
<1>5. \A i, j \in 1..Len(r) : i < j /\ r[j].type = "speech_started" => r[i].turn < r[j].turn
  BY <1>1, <1>2 DEF EventsUpTo
<1>6. \A i \in 1..Len(r) : r[i].turn <= t
  BY <1>1, <1>2 DEF EventsUpTo
<1>7. EventsUpTo(r, t)
  BY <1>4, <1>5, <1>6 DEF EventsUpTo
<1>8. QED
  BY <1>7 DEF e, r

LEMMA EventStep ==
  ASSUME TypeOK, EventsUpTo(text_out, turn_id),
         speech_started => LastIs(text_out, Event("speech_started", turn_id)), TurnStep
  PROVE  /\ EventsUpTo(text_out', turn_id')
         /\ speech_started' => LastIs(text_out', Event("speech_started", turn_id'))
<1>1. text_out \in Seq(TurnEvent) /\ turn_id \in Nat
  BY DEF TypeOK
<1>2. CASE QuietStep
  BY <1>2 DEF QuietStep
<1>3. CASE StartStep
  BY <1>1, <1>3, StartedAppend DEF StartStep
<1>4. CASE ProgressStep
  BY <1>4 DEF ProgressStep
<1>5. ASSUME NEW acc, EndStep(acc)
      PROVE  EventsUpTo(text_out', turn_id') /\ ~speech_started'
  BY <1>1, <1>5, StoppedAppend DEF EndStep, Stops
<1>6. CASE BlipStep
  <2> DEFINE s == Append(text_out, Event("speech_started", turn_id + 1))
  <2>1. s \in Seq(TurnEvent) /\ EventsUpTo(s, turn_id + 1)
        /\ LastIs(s, Event("speech_started", turn_id + 1))
    BY <1>1, StartedAppend
  <2>2. text_out' = Stops(WithFrame, turn_id + 1, s) /\ turn_id' = turn_id + 1 /\ ~speech_started'
    BY <1>6 DEF BlipStep
  <2> HIDE DEF s
  <2>3. turn_id + 1 \in Nat
    BY <1>1
  <2>4. EventsUpTo(text_out', turn_id + 1)
    BY <2>1, <2>2, <2>3, StoppedAppend DEF Stops
  <2>5. QED
    BY <2>2, <2>4
<1>7. CASE ProgressEndStep
  BY <1>1, <1>7, StoppedAppend DEF ProgressEndStep, Stops
<1>8. QED
  BY <1>2, <1>3, <1>4, <1>5, <1>6, <1>7 DEF TurnStep

\* The client sees each turn started once, with a new id, and stopped only
\* directly after it started; while the user speaks the last event is the start.
THEOREM VADEventProtocol == Spec => []EventProtocol
<1> DEFINE IInv == /\ EventsUpTo(text_out, turn_id)
                   /\ speech_started => LastIs(text_out, Event("speech_started", turn_id))
<1>1. Init => IInv
  BY DEF Init, EventsUpTo
<1>2. TypeOK /\ UtteranceIntact /\ IInv /\ [Next]_vars => IInv'
  BY StepKinds, EventStep
<1>3. IInv => EventProtocol
  BY DEF EventsUpTo, LastIs, EventProtocol
<1>4. QED
  BY <1>1, <1>2, <1>3, VADTypeOK, VADUtteranceIntact, PTL DEF Spec

-----------------------------------------------------------------------------
\* The turns closed in a log of events and in a queue of segments.
StoppedIn(s) == {s[i].turn : i \in {k \in 1..Len(s) : s[k].type = "speech_stopped"}}
FinalsIn(p)  == {p[i].turn : i \in {k \in 1..Len(p) : p[k].mode = "final"}}
LongFinals(p) == \A i \in 1..Len(p) : p[i].mode = "final" => Long(p[i].audio)

LEMMA CommittedParts ==
  CommittedIsTranscribed <=> StoppedIn(text_out) = FinalsIn(spoken_prompt) /\ LongFinals(spoken_prompt)
<1>1. StoppedTurns = StoppedIn(text_out)
  BY DEF StoppedTurns, StoppedIn
<1>2. FinalTurns = FinalsIn(spoken_prompt)
  BY DEF FinalTurns, FinalsIn
<1>3. QED
  BY <1>1, <1>2 DEF CommittedIsTranscribed, LongFinals, Long

LEMMA StoppedGrows ==
  ASSUME NEW s \in Seq(TurnEvent), NEW e \in TurnEvent
  PROVE  StoppedIn(Append(s, e)) =
            StoppedIn(s) \cup (IF e.type = "speech_stopped" THEN {e.turn} ELSE {})
<1> DEFINE r == Append(s, e)
<1>1. /\ Len(r) = Len(s) + 1 /\ Len(s) \in Nat /\ r[Len(s) + 1] = e
      /\ \A i \in 1..Len(s) : r[i] = s[i]
  BY Appended
<1> HIDE DEF r
<1>2. StoppedIn(r) = StoppedIn(s) \cup (IF e.type = "speech_stopped" THEN {e.turn} ELSE {})
  <2>1. ASSUME NEW i \in 1..Len(r), r[i].type = "speech_stopped"
        PROVE  r[i].turn \in StoppedIn(s) \cup (IF e.type = "speech_stopped" THEN {e.turn} ELSE {})
    BY <1>1, <2>1 DEF StoppedIn
  <2>2. ASSUME NEW i \in 1..Len(s), s[i].type = "speech_stopped"
        PROVE  s[i].turn \in StoppedIn(r)
    <3>1. i \in 1..Len(r) /\ r[i] = s[i]
      BY <1>1
    <3>2. QED
      BY <2>2, <3>1 DEF StoppedIn
  <2>3. e.type = "speech_stopped" => e.turn \in StoppedIn(r)
    <3>1. Len(s) + 1 \in 1..Len(r) /\ r[Len(s) + 1] = e
      BY <1>1
    <3>2. QED
      BY <3>1 DEF StoppedIn
  <2>4. StoppedIn(r) \subseteq StoppedIn(s) \cup (IF e.type = "speech_stopped" THEN {e.turn} ELSE {})
    BY <2>1 DEF StoppedIn
  <2>5. StoppedIn(s) \subseteq StoppedIn(r)
    BY <2>2 DEF StoppedIn
  <2>6. QED
    BY <2>3, <2>4, <2>5
<1>3. QED
  BY <1>2 DEF r

LEMMA FinalsGrow ==
  ASSUME NEW p \in Seq(Segment), NEW m \in Segment
  PROVE  /\ FinalsIn(Append(p, m)) = FinalsIn(p) \cup (IF m.mode = "final" THEN {m.turn} ELSE {})
         /\ LongFinals(p) /\ (m.mode = "final" => Long(m.audio)) => LongFinals(Append(p, m))
<1> DEFINE r == Append(p, m)
<1>1. /\ Len(r) = Len(p) + 1 /\ Len(p) \in Nat /\ r[Len(p) + 1] = m
      /\ \A i \in 1..Len(p) : r[i] = p[i]
  BY Appended
<1> HIDE DEF r
<1>2. FinalsIn(r) = FinalsIn(p) \cup (IF m.mode = "final" THEN {m.turn} ELSE {})
  <2>1. ASSUME NEW i \in 1..Len(r), r[i].mode = "final"
        PROVE  r[i].turn \in FinalsIn(p) \cup (IF m.mode = "final" THEN {m.turn} ELSE {})
    BY <1>1, <2>1 DEF FinalsIn
  <2>2. ASSUME NEW i \in 1..Len(p), p[i].mode = "final"
        PROVE  p[i].turn \in FinalsIn(r)
    <3>1. i \in 1..Len(r) /\ r[i] = p[i]
      BY <1>1
    <3>2. QED
      BY <2>2, <3>1 DEF FinalsIn
  <2>3. m.mode = "final" => m.turn \in FinalsIn(r)
    <3>1. Len(p) + 1 \in 1..Len(r) /\ r[Len(p) + 1] = m
      BY <1>1
    <3>2. QED
      BY <3>1 DEF FinalsIn
  <2>4. FinalsIn(r) \subseteq FinalsIn(p) \cup (IF m.mode = "final" THEN {m.turn} ELSE {})
    BY <2>1 DEF FinalsIn
  <2>5. FinalsIn(p) \subseteq FinalsIn(r)
    BY <2>2 DEF FinalsIn
  <2>6. QED
    BY <2>3, <2>4, <2>5
<1>3. LongFinals(p) /\ (m.mode = "final" => Long(m.audio)) => LongFinals(r)
  BY <1>1 DEF LongFinals
<1>4. QED
  BY <1>2, <1>3 DEF r

\* Closing a turn commits it and hands it to the STT, or does neither.
LEMMA ClosedTogether ==
  ASSUME NEW s \in Seq(TurnEvent), NEW p \in Seq(Segment), NEW acc \in Seq(Nat), NEW t \in Nat,
         StoppedIn(s) = FinalsIn(p), LongFinals(p)
  PROVE  StoppedIn(Stops(acc, t, s)) = FinalsIn(Segments(acc, t, p))
         /\ LongFinals(Segments(acc, t, p))
<1> DEFINE e == Event("speech_stopped", t)
           m == VADAudio("final", acc, t)
<1>1. /\ e \in TurnEvent /\ e.type = "speech_stopped" /\ e.turn = t
      /\ m \in Segment /\ m.mode = "final" /\ m.turn = t /\ m.audio = acc
  BY EventType, SegmentType DEF Event, VADAudio
<1> HIDE DEF e, m
<1>2. CASE Long(acc)
  <2>1. /\ StoppedIn(Append(s, e)) = StoppedIn(s) \cup {t}
        /\ FinalsIn(Append(p, m)) = FinalsIn(p) \cup {t} /\ LongFinals(Append(p, m))
    BY <1>1, <1>2, StoppedGrows, FinalsGrow
  <2>2. QED
    BY <1>2, <2>1 DEF Stops, Segments, e, m
<1>3. CASE ~Long(acc)
  BY <1>3 DEF Stops, Segments
<1>4. QED
  BY <1>2, <1>3

\* An event that only opens a turn and a snapshot close none.
LEMMA ClosesNone ==
  ASSUME NEW t \in Nat
  PROVE  /\ \A s \in Seq(TurnEvent) :
               StoppedIn(Append(s, Event("speech_started", t))) = StoppedIn(s)
         /\ \A p \in Seq(Segment), acc \in Seq(Nat) :
               /\ FinalsIn(Append(p, VADAudio("progressive", acc, t))) = FinalsIn(p)
               /\ LongFinals(p) => LongFinals(Append(p, VADAudio("progressive", acc, t)))
<1>1. Event("speech_started", t) \in TurnEvent /\ Event("speech_started", t).type = "speech_started"
  BY EventType DEF Event
<1>2. ASSUME NEW acc \in Seq(Nat)
      PROVE  VADAudio("progressive", acc, t) \in Segment
             /\ VADAudio("progressive", acc, t).mode = "progressive"
  BY SegmentType DEF VADAudio
<1>3. ASSUME NEW s \in Seq(TurnEvent)
      PROVE  StoppedIn(Append(s, Event("speech_started", t))) = StoppedIn(s)
  BY <1>1, StoppedGrows
<1>4. ASSUME NEW p \in Seq(Segment), NEW acc \in Seq(Nat)
      PROVE  /\ FinalsIn(Append(p, VADAudio("progressive", acc, t))) = FinalsIn(p)
             /\ LongFinals(p) => LongFinals(Append(p, VADAudio("progressive", acc, t)))
  BY <1>2, FinalsGrow
<1>5. QED
  BY <1>3, <1>4

\* The turns the client is told are committed are exactly those the STT gets to
\* transcribe, each of at least min_speech_ms.
THEOREM VADCommittedIsTranscribed == Spec => []CommittedIsTranscribed
<1>1. Init => CommittedIsTranscribed
  <2>1. Init => StoppedIn(text_out) = {} /\ FinalsIn(spoken_prompt) = {} /\ LongFinals(spoken_prompt)
    BY DEF Init, StoppedIn, FinalsIn, LongFinals
  <2>2. QED
    BY <2>1, CommittedParts
<1>2. TypeOK /\ UtteranceIntact /\ CommittedIsTranscribed /\ [Next]_vars => CommittedIsTranscribed'
  <2> SUFFICES ASSUME TypeOK, UtteranceIntact, CommittedIsTranscribed, [Next]_vars
               PROVE  StoppedIn(text_out') = FinalsIn(spoken_prompt') /\ LongFinals(spoken_prompt')
    <3>1. StoppedTurns' = StoppedIn(text_out')
      BY DEF StoppedTurns, StoppedIn
    <3>2. FinalTurns' = FinalsIn(spoken_prompt')
      BY DEF FinalTurns, FinalsIn
    <3>3. QED
      BY <3>1, <3>2 DEF CommittedIsTranscribed, LongFinals, Long
  <2>1. /\ text_out \in Seq(TurnEvent) /\ spoken_prompt \in Seq(Segment) /\ turn_id \in Nat
        /\ turn_id + 1 \in Nat
        /\ StoppedIn(text_out) = FinalsIn(spoken_prompt) /\ LongFinals(spoken_prompt)
        /\ WithFrame \in Seq(Nat) /\ speech_acc \in Seq(Nat)
    BY CommittedParts, HandedOn DEF TypeOK
  <2>2. TurnStep
    BY StepKinds
  <2>3. CASE QuietStep
    BY <2>1, <2>3 DEF QuietStep
  <2>4. CASE StartStep
    BY <2>1, <2>4, ClosesNone DEF StartStep
  <2>5. CASE ProgressStep
    BY <2>1, <2>5, ClosesNone DEF ProgressStep
  <2>6. ASSUME NEW acc, EndStep(acc)
        PROVE  StoppedIn(text_out') = FinalsIn(spoken_prompt') /\ LongFinals(spoken_prompt')
    BY <2>1, <2>6, ClosedTogether DEF EndStep
  <2>7. CASE BlipStep
    <3> DEFINE s == Append(text_out, Event("speech_started", turn_id + 1))
    <3>1. s \in Seq(TurnEvent) /\ StoppedIn(s) = StoppedIn(text_out)
      BY <2>1, ClosesNone, EventType
    <3>2. /\ text_out' = Stops(WithFrame, turn_id + 1, s)
          /\ spoken_prompt' = Segments(WithFrame, turn_id + 1, spoken_prompt)
      BY <2>7 DEF BlipStep
    <3> HIDE DEF s
    <3>3. QED
      BY <2>1, <3>1, <3>2, ClosedTogether
  <2>8. CASE ProgressEndStep
    <3> DEFINE p == Append(spoken_prompt, VADAudio("progressive", WithFrame, turn_id))
    <3>1. VADAudio("progressive", WithFrame, turn_id) \in Segment
      BY <2>1, SegmentType
    <3>2. p \in Seq(Segment) /\ FinalsIn(p) = FinalsIn(spoken_prompt) /\ LongFinals(p)
      BY <2>1, <3>1, ClosesNone
    <3>3. /\ text_out' = Stops(WithFrame, turn_id, text_out)
          /\ spoken_prompt' = Segments(WithFrame, turn_id, p)
      BY <2>8 DEF ProgressEndStep
    <3> HIDE DEF p
    <3>4. QED
      BY <2>1, <3>2, <3>3, ClosedTogether
  <2>9. QED
    BY <2>2, <2>3, <2>4, <2>5, <2>6, <2>7, <2>8 DEF TurnStep
<1>3. QED
  BY <1>1, <1>2, VADTypeOK, VADUtteranceIntact, PTL DEF Spec

-----------------------------------------------------------------------------
\* The segment m may come before audio acc of turn t: it is an earlier turn's and
\* ends before acc begins, or it is a snapshot from the same beginning.
Before(m, t, acc) ==
    \/ m.turn < t /\ Final(m.audio) < First(acc)
    \/ /\ m.turn = t /\ m.mode = "progressive"
       /\ First(m.audio) = First(acc) /\ Len(m.audio) <= Len(acc)

AllBefore(p, t, acc) == \A i \in 1..Len(p) : Before(p[i], t, acc)

\* The queue p when turn t is the last one and f the last frame.
Queue(p, t, f) ==
    /\ \A i, j \in 1..Len(p) : i < j => Before(p[i], p[j].turn, p[j].audio)
    /\ \A i \in 1..Len(p) : p[i].turn \in 0..t /\ Final(p[i].audio) \in 0..f

LEMMA QueueAppend ==
  ASSUME NEW p \in Seq(Segment), NEW t \in Nat, NEW f \in Nat, NEW u \in Nat, NEW g \in Nat,
         Queue(p, t, f), t <= u, f <= g,
         NEW m \in Segment, AllBefore(p, m.turn, m.audio), m.turn <= u, Final(m.audio) \in 0..g
  PROVE  Queue(Append(p, m), u, g)
<1> DEFINE r == Append(p, m)
<1>1. /\ Len(r) = Len(p) + 1 /\ Len(p) \in Nat /\ r[Len(p) + 1] = m
      /\ \A i \in 1..Len(p) : r[i] = p[i]
  BY Appended
<1> HIDE DEF r
<1>2. ASSUME NEW i \in 1..Len(r), NEW j \in 1..Len(r), i < j
      PROVE  Before(r[i], r[j].turn, r[j].audio)
  <2>1. i \in 1..Len(p) /\ r[i] = p[i]
    BY <1>1, <1>2
  <2>2. CASE j \in 1..Len(p)
    BY <1>1, <1>2, <2>1, <2>2 DEF Queue
  <2>3. CASE j = Len(p) + 1
    BY <1>1, <2>1, <2>3 DEF AllBefore
  <2>4. QED
    BY <1>1, <2>2, <2>3
<1>3. ASSUME NEW i \in 1..Len(r)
      PROVE  r[i].turn \in 0..u /\ Final(r[i].audio) \in 0..g
  <2>1. CASE i \in 1..Len(p)
    <3>1. r[i] = p[i] /\ p[i].turn \in 0..t /\ Final(p[i].audio) \in 0..f
      BY <1>1, <2>1 DEF Queue
    <3>2. QED
      BY <3>1
  <2>2. CASE i = Len(p) + 1
    BY <1>1, <2>2, SegmentFields
  <2>3. QED
    BY <1>1, <2>1, <2>2
<1>4. QED
  BY <1>2, <1>3 DEF Queue, r

\* More audio of the turn, or a first frame of the next, comes after the same queue.
LEMMA LaterAudio ==
  ASSUME NEW p \in Seq(Segment), NEW t \in Nat, NEW acc \in Seq(Nat), acc # <<>>, NEW f \in Nat,
         AllBefore(p, t, acc)
  PROVE  AllBefore(p, t, Append(acc, f))
<1>1. First(Append(acc, f)) = First(acc) /\ Len(Append(acc, f)) = Len(acc) + 1 /\ Len(acc) \in Nat
  BY DEF First
<1>2. ASSUME NEW i \in 1..Len(p)
      PROVE  Before(p[i], t, Append(acc, f))
  <2>1. p[i] \in Segment
    OBVIOUS
  <2>2. Before(p[i], t, acc) /\ Len(p[i].audio) \in Nat
    BY <2>1, SegmentFields DEF AllBefore
  <2> HIDE DEF First
  <2>3. QED
    BY <1>1, <2>2 DEF Before
<1>3. QED
  BY <1>2 DEF AllBefore

LEMMA NextTurnAudio ==
  ASSUME NEW p \in Seq(Segment), NEW t \in Nat, NEW f \in Nat, Queue(p, t, f)
  PROVE  AllBefore(p, t + 1, Append(<<>>, f + 1))
<1>1. First(Append(<<>>, f + 1)) = f + 1
  BY DEF First
<1>2. QED
  BY <1>1 DEF AllBefore, Before, Queue

\* A snapshot of acc goes after what may come before acc.
LEMMA SnapshotBefore ==
  ASSUME NEW p \in Seq(Segment), NEW t \in Nat, NEW acc \in Seq(Nat), AllBefore(p, t, acc)
  PROVE  AllBefore(Append(p, VADAudio("progressive", acc, t)), t, acc)
<1> DEFINE m == VADAudio("progressive", acc, t)
           r == Append(p, m)
<1>1. m \in Segment /\ m.mode = "progressive" /\ m.turn = t /\ m.audio = acc
  BY SegmentType DEF VADAudio
<1> HIDE DEF m
<1>2. /\ Len(r) = Len(p) + 1 /\ Len(p) \in Nat /\ r[Len(p) + 1] = m
      /\ \A i \in 1..Len(p) : r[i] = p[i]
  BY <1>1, Appended
<1>3. Before(m, t, acc)
  <2>1. Len(acc) \in Nat
    OBVIOUS
  <2>2. QED
    BY <1>1, <2>1 DEF Before
<1> HIDE DEF r
<1>4. ASSUME NEW i \in 1..Len(r)
      PROVE  Before(r[i], t, acc)
  BY <1>2, <1>3 DEF AllBefore
<1>5. QED
  BY <1>4 DEF AllBefore, r, m

\* The queue after acc, whose last frame is g, was handed on in either way.
LEMMA QueueGrows ==
  ASSUME NEW p \in Seq(Segment), NEW t \in Nat, NEW f \in Nat, NEW u \in Nat, NEW g \in Nat,
         Queue(p, t, f), t <= u, f <= g,
         NEW acc \in Seq(Nat), Final(acc) = g, AllBefore(p, u, acc)
  PROVE  /\ Queue(p, u, g)
         /\ Queue(Append(p, VADAudio("progressive", acc, u)), u, g)
         /\ Queue(Segments(acc, u, p), u, g)
<1>1. ASSUME NEW m \in Segment, m.turn = u, m.audio = acc
      PROVE  Queue(Append(p, m), u, g)
  BY <1>1, QueueAppend
<1>2. /\ VADAudio("progressive", acc, u) \in Segment /\ VADAudio("final", acc, u) \in Segment
      /\ VADAudio("progressive", acc, u).turn = u /\ VADAudio("progressive", acc, u).audio = acc
      /\ VADAudio("final", acc, u).turn = u /\ VADAudio("final", acc, u).audio = acc
  BY SegmentType DEF VADAudio
<1>3. Queue(p, u, g)
  BY DEF Queue
<1>4. QED
  BY <1>1, <1>2, <1>3 DEF Segments

\* The inductive invariant: the segments of the queue are ordered among each other
\* and all come before the audio that is being accumulated.
QueueIInv ==
    /\ Queue(spoken_prompt, turn_id, frames)
    /\ speech_started => AllBefore(spoken_prompt, turn_id, speech_acc)

LEMMA QueueStep ==
  ASSUME TypeOK, UtteranceIntact, QueueIInv, TurnStep
  PROVE  QueueIInv'
<1> DEFINE p == spoken_prompt
           snap == Append(p, VADAudio("progressive", WithFrame, turn_id))
<1>1. /\ p \in Seq(Segment) /\ turn_id \in Nat /\ frames \in Nat /\ speech_acc \in Seq(Nat)
      /\ speech_started \in BOOLEAN
      /\ turn_id + 1 \in Nat /\ frames + 1 \in Nat /\ turn_id <= turn_id + 1 /\ frames <= frames + 1
      /\ turn_id <= turn_id /\ frames <= frames
      /\ WithFrame \in Seq(Nat)
  BY HandedOn DEF TypeOK
<1>2. Final(WithFrame) = frames + 1
  BY HandedOn DEF Final
<1>3. Queue(p, turn_id, frames)
  BY DEF QueueIInv
<1>4. speech_started => /\ AllBefore(p, turn_id, speech_acc)
                        /\ AllBefore(p, turn_id, WithFrame)
                        /\ Final(speech_acc) = frames
  BY <1>1, LaterAudio DEF QueueIInv, UtteranceIntact, Final, WithFrame
<1>5. ~speech_started => AllBefore(p, turn_id + 1, WithFrame)
  BY <1>1, <1>3, NextTurnAudio DEF UtteranceIntact, WithFrame
<1>6. speech_started => /\ Queue(snap, turn_id, frames + 1)
                        /\ AllBefore(snap, turn_id, WithFrame)
                        /\ snap \in Seq(Segment)
  <2>1. VADAudio("progressive", WithFrame, turn_id) \in Segment
    BY <1>1, SegmentType
  <2>2. QED
    BY <1>1, <1>2, <1>3, <1>4, <2>1, QueueGrows, SnapshotBefore
<1> HIDE DEF snap
<1>7. CASE QuietStep
  <2>1. spoken_prompt' = p /\ turn_id' = turn_id /\ speech_started' = speech_started
        /\ frames' \in {frames, frames + 1}
        /\ (speech_acc' = speech_acc \/ (speech_started /\ speech_acc' = WithFrame))
    BY <1>7 DEF QuietStep
  <2>2. Queue(p, turn_id, frames + 1)
    BY <1>1, <1>3 DEF Queue
  <2>3. speech_started' => AllBefore(p, turn_id, speech_acc')
    BY <1>4, <2>1
  <2>4. QED
    BY <1>3, <2>1, <2>2, <2>3 DEF QueueIInv
<1>8. CASE StartStep
  <2>1. /\ ~speech_started /\ spoken_prompt' = p /\ turn_id' = turn_id + 1
        /\ frames' = frames + 1 /\ speech_acc' = WithFrame
    BY <1>8 DEF StartStep
  <2>2. Queue(p, turn_id + 1, frames + 1)
    BY <1>1, <1>2, <1>3, <1>5, <2>1, QueueGrows
  <2>3. QED
    BY <1>5, <2>1, <2>2 DEF QueueIInv
<1>9. CASE ProgressStep
  <2>1. /\ speech_started /\ spoken_prompt' = snap /\ turn_id' = turn_id
        /\ frames' = frames + 1 /\ speech_acc' = WithFrame
    BY <1>9 DEF ProgressStep, snap
  <2>2. QED
    BY <1>6, <2>1 DEF QueueIInv
<1>10. ASSUME NEW acc, EndStep(acc)
       PROVE  QueueIInv'
  <2>1. /\ speech_started /\ speech_started' = FALSE /\ turn_id' = turn_id
        /\ spoken_prompt' = Segments(acc, turn_id, p)
        /\ \/ acc = speech_acc /\ frames' = frames
           \/ acc = WithFrame /\ frames' = frames + 1
    BY <1>10 DEF EndStep
  <2>2. Queue(Segments(acc, turn_id, p), turn_id, frames')
    <3>1. CASE acc = speech_acc /\ frames' = frames
      BY <1>1, <1>3, <1>4, <2>1, <3>1, QueueGrows
    <3>2. CASE acc = WithFrame /\ frames' = frames + 1
      BY <1>1, <1>2, <1>3, <1>4, <2>1, <3>2, QueueGrows
    <3>3. QED
      BY <2>1, <3>1, <3>2
  <2>3. QED
    BY <2>1, <2>2 DEF QueueIInv
<1>11. CASE BlipStep
  <2>1. /\ ~speech_started /\ speech_started' = FALSE /\ turn_id' = turn_id + 1
        /\ spoken_prompt' = Segments(WithFrame, turn_id + 1, p) /\ frames' = frames + 1
    BY <1>11 DEF BlipStep
  <2>2. Queue(Segments(WithFrame, turn_id + 1, p), turn_id + 1, frames + 1)
    BY <1>1, <1>2, <1>3, <1>5, <2>1, QueueGrows
  <2>3. QED
    BY <2>1, <2>2 DEF QueueIInv
<1>12. CASE ProgressEndStep
  <2>1. /\ speech_started /\ speech_started' = FALSE /\ turn_id' = turn_id
        /\ spoken_prompt' = Segments(WithFrame, turn_id, snap) /\ frames' = frames + 1
    BY <1>12 DEF ProgressEndStep, snap
  <2>2. Queue(Segments(WithFrame, turn_id, snap), turn_id, frames + 1)
    <3>1. frames + 1 <= frames + 1
      BY <1>1
    <3>2. QED
      BY <1>1, <1>2, <1>6, <2>1, <3>1, QueueGrows
  <2>3. QED
    BY <2>1, <2>2 DEF QueueIInv
<1>13. QED
  BY <1>7, <1>8, <1>9, <1>10, <1>11, <1>12 DEF TurnStep

\* Segments reach the STT in the order of their turns, a live snapshot of a turn
\* is a shorter piece from the same beginning, and no frame belongs to two turns.
THEOREM VADNoSharedAudio == Spec => []NoSharedAudio
<1>1. Init => QueueIInv
  BY DEF Init, QueueIInv, Queue
<1>2. TypeOK /\ UtteranceIntact /\ QueueIInv /\ [Next]_vars => QueueIInv'
  BY StepKinds, QueueStep
<1>3. TypeOK /\ QueueIInv => NoSharedAudio
  <2> SUFFICES ASSUME TypeOK, QueueIInv, NEW i \in 1..Len(spoken_prompt),
                      NEW j \in 1..Len(spoken_prompt), i < j
               PROVE  LET a == spoken_prompt[i]
                          b == spoken_prompt[j]
                      IN /\ a.turn <= b.turn
                         /\ a.turn = b.turn => /\ a.mode = "progressive"
                                               /\ First(a.audio) = First(b.audio)
                                               /\ Len(a.audio) <= Len(b.audio)
                         /\ a.turn < b.turn => Final(a.audio) < First(b.audio)
    BY DEF NoSharedAudio
  <2>1. spoken_prompt[i] \in Segment /\ spoken_prompt[j] \in Segment
    BY DEF TypeOK
  <2>2. spoken_prompt[i].turn \in Nat /\ spoken_prompt[j].turn \in Nat
    BY <2>1, SegmentFields
  <2>3. Before(spoken_prompt[i], spoken_prompt[j].turn, spoken_prompt[j].audio)
    BY DEF QueueIInv, Queue
  <2>4. QED
    BY <2>2, <2>3 DEF Before
<1>4. QED
  BY <1>1, <1>2, <1>3, VADTypeOK, VADUtteranceIntact, PTL DEF Spec

-----------------------------------------------------------------------------
\* A segment, and a queue of segments, seen without their audio.
SeenOne(m) == [mode |-> m.mode, turn |-> m.turn]
Seen(p) == [i \in 1..Len(p) |-> SeenOne(p[i])]
SeenSegment == [mode : {"progressive", "final"}, turn : Nat]

LEMMA SeenAppend ==
  ASSUME NEW p \in Seq(Segment), NEW m \in Segment
  PROVE  Seen(p) \in Seq(SeenSegment) /\ Seen(Append(p, m)) = Append(Seen(p), SeenOne(m))
<1>1. \A x \in Segment : SeenOne(x) \in SeenSegment
  BY DEF Segment, SeenOne, SeenSegment
<1> DEFINE r == Append(p, m)
<1>2. /\ Len(r) = Len(p) + 1 /\ Len(p) \in Nat /\ r[Len(p) + 1] = m
      /\ \A i \in 1..Len(p) : r[i] = p[i] /\ p[i] \in Segment
  BY Appended
<1> HIDE DEF r
<1>3. Seen(p) \in Seq(SeenSegment) /\ Len(Seen(p)) = Len(p)
  <2>1. \A i \in 1..Len(p) : SeenOne(p[i]) \in SeenSegment
    BY <1>1, <1>2
  <2> HIDE DEF SeenOne
  <2>2. QED
    BY <1>2, <2>1 DEF Seen
<1>4. SeenOne(m) \in SeenSegment
  BY <1>1
<1> DEFINE q == Append(Seen(p), SeenOne(m))
<1>5. /\ q \in Seq(SeenSegment) /\ Len(q) = Len(p) + 1 /\ q[Len(p) + 1] = SeenOne(m)
      /\ \A i \in 1..Len(p) : q[i] = SeenOne(p[i])
  <2>1. \A i \in 1..Len(p) : Seen(p)[i] = SeenOne(p[i])
    BY DEF Seen
  <2>2. QED
    BY <1>3, <1>4, <2>1, Appended
<1> HIDE DEF q
<1>6. Seen(r) \in [1..(Len(p) + 1) -> SeenSegment]
      /\ \A i \in 1..(Len(p) + 1) : Seen(r)[i] = SeenOne(r[i])
  <2>1. \A i \in 1..Len(r) : SeenOne(r[i]) \in SeenSegment
    BY <1>1, <1>2
  <2> HIDE DEF SeenOne
  <2>2. QED
    BY <1>2, <2>1 DEF Seen
<1>7. q \in [1..(Len(p) + 1) -> SeenSegment]
  BY <1>2, <1>5
<1>8. \A i \in 1..(Len(p) + 1) : Seen(r)[i] = q[i]
  <2> SUFFICES ASSUME NEW i \in 1..(Len(p) + 1)
               PROVE  Seen(r)[i] = q[i]
    OBVIOUS
  <2>1. CASE i \in 1..Len(p)
    BY <1>2, <1>5, <1>6, <2>1
  <2>2. CASE i = Len(p) + 1
    BY <1>2, <1>5, <1>6, <2>2
  <2>3. QED
    BY <1>2, <2>1, <2>2
<1>9. Seen(r) = q
  BY <1>6, <1>7, <1>8
<1>10. QED
  BY <1>3, <1>9 DEF r, q

LEMMA SeenGrows ==
  ASSUME NEW p \in Seq(Segment), NEW acc \in Seq(Nat), NEW t \in Nat
  PROVE  /\ Seen(p) \in Seq(SeenSegment)
         /\ Turns!VADAudio("progressive", t) \in SeenSegment
         /\ Turns!VADAudio("final", t) \in SeenSegment
         /\ Seen(Append(p, VADAudio("progressive", acc, t)))
              = Append(Seen(p), Turns!VADAudio("progressive", t))
         /\ Seen(Append(p, VADAudio("final", acc, t)))
              = Append(Seen(p), Turns!VADAudio("final", t))
<1>1. /\ SeenOne(VADAudio("progressive", acc, t)) = Turns!VADAudio("progressive", t)
      /\ SeenOne(VADAudio("final", acc, t)) = Turns!VADAudio("final", t)
      /\ Turns!VADAudio("progressive", t) \in SeenSegment
      /\ Turns!VADAudio("final", t) \in SeenSegment
  BY DEF SeenOne, VADAudio, Turns!VADAudio, SeenSegment
<1>2. QED
  BY <1>1, SeenAppend, SegmentType

\* Two items put one after the other are a pair put at once.
LEMMA AppendTwo ==
  ASSUME NEW S, NEW s \in Seq(S), NEW a \in S, NEW b \in S
  PROVE  Append(Append(s, a), b) = s \o <<a, b>>
OBVIOUS

\* A step of one of the six kinds is a step of TurnSegmenter.
LEMMA TurnsStep ==
  ASSUME TypeOK, TurnStep
  PROVE  Turns!TSNext \/ UNCHANGED Turns!tsVars
<1> DEFINE E(type, t) == Turns!Event(type, t)
           A(mode, t) == Turns!VADAudio(mode, t)
<1>1. /\ spoken_prompt \in Seq(Segment) /\ text_out \in Seq(TurnEvent)
      /\ turn_id \in Nat /\ turn_id + 1 \in Nat /\ WithFrame \in Seq(Nat)
      /\ speech_acc \in Seq(Nat) /\ speech_started \in BOOLEAN
  BY HandedOn DEF TypeOK
<1>2. \A type, t : Event(type, t) = E(type, t)
  BY DEF Event, Turns!Event
<1>3. \A t \in Nat : E("speech_started", t) \in TurnEvent /\ E("speech_stopped", t) \in TurnEvent
  BY <1>2, EventType
<1>4. ASSUME NEW acc \in Seq(Nat), NEW t \in Nat, NEW p \in Seq(Segment), NEW s \in Seq(TurnEvent)
      PROVE  \/ /\ Stops(acc, t, s) = s
                /\ Seen(Segments(acc, t, p)) = Seen(p)
             \/ /\ Stops(acc, t, s) = Append(s, E("speech_stopped", t))
                /\ Seen(Segments(acc, t, p)) = Append(Seen(p), A("final", t))
  BY <1>2, SeenGrows DEF Stops, Segments
<1>5. CASE QuietStep
  BY <1>5 DEF QuietStep, Turns!tsVars
<1>6. CASE StartStep
  <2>1. Turns!StartTurn
    BY <1>1, <1>2, <1>6 DEF StartStep, Turns!StartTurn
  <2>2. QED
    BY <2>1 DEF Turns!TSNext
<1>7. CASE ProgressStep
  <2>1. Seen(spoken_prompt') = Append(Seen(spoken_prompt), A("progressive", turn_id))
    BY <1>1, <1>7, SeenGrows DEF ProgressStep
  <2>2. Turns!ProgressTurn
    BY <1>7, <2>1 DEF ProgressStep, Turns!ProgressTurn, Seen, SeenOne
  <2>3. QED
    BY <2>2 DEF Turns!TSNext
<1>8. ASSUME NEW acc, EndStep(acc)
      PROVE  Turns!TSNext
  <2>1. acc \in Seq(Nat)
    BY <1>1, <1>8 DEF EndStep
  <2>2. \/ /\ text_out' = text_out
           /\ Seen(spoken_prompt') = Seen(spoken_prompt)
        \/ /\ text_out' = Append(text_out, E("speech_stopped", turn_id))
           /\ Seen(spoken_prompt') = Append(Seen(spoken_prompt), A("final", turn_id))
    BY <1>1, <1>4, <1>8, <2>1 DEF EndStep
  <2>3. speech_started /\ speech_started' = FALSE /\ UNCHANGED <<turn_id, generation>>
    BY <1>8 DEF EndStep
  <2>4. Turns!EndTurn \/ Turns!DropTurn
    BY <2>2, <2>3 DEF Turns!EndTurn, Turns!DropTurn, Seen, SeenOne
  <2>5. QED
    BY <2>4 DEF Turns!TSNext
<1>9. CASE BlipStep
  <2> DEFINE s == Append(text_out, E("speech_started", turn_id + 1))
  <2>1. s \in Seq(TurnEvent)
    BY <1>1, <1>3
  <2>2. /\ text_out' = Stops(WithFrame, turn_id + 1, s)
        /\ spoken_prompt' = Segments(WithFrame, turn_id + 1, spoken_prompt)
        /\ ~speech_started /\ speech_started' = speech_started
        /\ turn_id' = turn_id + 1 /\ generation' = generation + 1
    BY <1>1, <1>2, <1>9 DEF BlipStep
  <2>3. Append(s, E("speech_stopped", turn_id + 1))
          = text_out \o <<E("speech_started", turn_id + 1), E("speech_stopped", turn_id + 1)>>
    BY <1>1, <1>3, AppendTwo
  <2> HIDE DEF s, E
  <2>4. \/ /\ text_out' = s
           /\ Seen(spoken_prompt') = Seen(spoken_prompt)
        \/ /\ text_out' = Append(s, E("speech_stopped", turn_id + 1))
           /\ Seen(spoken_prompt') = Append(Seen(spoken_prompt), A("final", turn_id + 1))
    BY <1>1, <1>4, <2>1, <2>2
  <2>5. Turns!BlipTurn
    BY <2>2, <2>3, <2>4 DEF Turns!BlipTurn, Seen, SeenOne, s, E
  <2>6. QED
    BY <2>5 DEF Turns!TSNext
<1>10. CASE ProgressEndStep
  <2> DEFINE p == Append(spoken_prompt, VADAudio("progressive", WithFrame, turn_id))
  <2>1. /\ p \in Seq(Segment)
        /\ Seen(p) = Append(Seen(spoken_prompt), A("progressive", turn_id))
    <3>1. VADAudio("progressive", WithFrame, turn_id) \in Segment
      BY <1>1, SegmentType
    <3>2. QED
      BY <1>1, <3>1, SeenGrows
  <2>2. /\ text_out' = Stops(WithFrame, turn_id, text_out)
        /\ spoken_prompt' = Segments(WithFrame, turn_id, p)
        /\ speech_started /\ speech_started' = FALSE /\ UNCHANGED <<turn_id, generation>>
    BY <1>10 DEF ProgressEndStep
  <2> HIDE DEF p
  <2>3. Append(Append(Seen(spoken_prompt), A("progressive", turn_id)), A("final", turn_id))
          = Seen(spoken_prompt) \o <<A("progressive", turn_id), A("final", turn_id)>>
    <3>1. /\ Seen(spoken_prompt) \in Seq(SeenSegment)
          /\ A("progressive", turn_id) \in SeenSegment /\ A("final", turn_id) \in SeenSegment
      BY <1>1, SeenGrows
    <3> HIDE DEF A, SeenSegment
    <3>2. QED
      BY <3>1, AppendTwo
  <2>4. \/ /\ text_out' = text_out
           /\ Seen(spoken_prompt') = Append(Seen(spoken_prompt), A("progressive", turn_id))
        \/ /\ text_out' = Append(text_out, E("speech_stopped", turn_id))
           /\ Seen(spoken_prompt') = Seen(spoken_prompt)
                                       \o <<A("progressive", turn_id), A("final", turn_id)>>
    BY <1>1, <1>4, <2>1, <2>2, <2>3
  <2>5. Turns!ProgressAndEnd
    BY <2>2, <2>4 DEF Turns!ProgressAndEnd, Seen, SeenOne
  <2>6. QED
    BY <2>5 DEF Turns!TSNext
<1>11. QED
  BY <1>5, <1>6, <1>7, <1>8, <1>9, <1>10 DEF TurnStep

\* Seen without its audio, the handler implements TurnSegmenter step by step: in
\* particular every new turn cancels the running response exactly once.
THEOREM VADImplementsTurnSegmenter == Spec => ImplementsTurnSegmenter
<1>1. Init => Turns!TSInit
  BY DEF Init, Turns!TSInit
<1>2. TypeOK /\ UtteranceIntact /\ [Next]_vars => [Turns!TSNext]_(Turns!tsVars)
  BY StepKinds, TurnsStep
<1>3. QED
  BY <1>1, <1>2, VADTypeOK, VADUtteranceIntact, PTL DEF Spec, ImplementsTurnSegmenter, Turns!TSSpec
=============================================================================
