---------------------------- MODULE Session_proofs ----------------------------
(***************************************************************************)
(* Proofs about a whole session (Session.tla), for every number of turns,  *)
(* prompts, cancels, tool calls and pieces: the client hears the answers   *)
(* in the order in which they were asked for; what Pipeline_proofs shows   *)
(* of the handler threads still holds with the drain and event-loop        *)
(* threads at their queues; and what RealtimeService.tla promises for      *)
(* arbitrary messages holds for those the handlers really send.            *)
(***************************************************************************)
EXTENDS Session, Pipeline_proofs, FiniteSetTheorems

\* What the drain thread takes and tells the client.
Spoken == [type : {"speech_started", "speech_stopped", "partial", "transcript", "text", "call",
                   "usage"}, turn : Ids, src : Sources]
Reply == [type : {"text", "call"}, turn : Ids, src : Sources]
SentTypes == {"speech_started", "speech_stopped", "partial", "transcript", "created", "text",
              "audio", "call", "done", "cancelled"}
Told == [type : SentTypes, rid : Nat, turn : Ids, src : Sources]
          \cup [type : SentTypes, rid : Nat, turn : {0}, src : {"none"}]

Waiting == [pc : {"text", "audio"}]
Interrupting == [pc : {"bargein", "cancel", "cancelDone", "cancelClear"}, msg : Spoken]
Replying == [pc : {"start", "announce", "deliver"}, msg : Reply \cup Sound]
Finishing == [pc : {"finish", "finishDone", "finishClear"}, msg : Sound]

ServiceTypes ==
    /\ response_id \in Nat /\ responses \in Nat
    /\ drain \in Waiting \cup Interrupting \cup Replying \cup Finishing
    /\ sent \in Seq(Told)

\* The turns of the user among the items of a queue, in a handler, in the drain
\* thread's hands, and in what the client heard.
TurnOf(m) == IF m.src = "vad" THEN {m.turn} ELSE {}
TurnsIn(q) == {t \in Ids : \E i \in 1..Len(q) : q[i].src = "vad" /\ q[i].turn = t}
TurnBy(h) == IF h.pc = "idle" THEN {} ELSE TurnOf(h)
Handed(d) == IF d \in Replying /\ d.msg \in Sound THEN TurnOf(d.msg) ELSE {}
Sounded(s) ==
    {t \in Ids : \E i \in 1..Len(s) : s[i].type = "audio" /\ s[i].src = "vad" /\ s[i].turn = t}

\* The turns that a function call was made for: on its way to the drain thread,
\* or in its hands and handed on.
ToCall(s) ==
    {t \in Ids : \E i \in 1..Len(s) : s[i].type = "call" /\ s[i].src = "vad" /\ s[i].turn = t}
Calling(d) == IF d \in Replying /\ d.msg \in Reply /\ d.msg.type = "call" THEN {d.msg.turn} ELSE {}
CallTold(s) == {t \in Ids : \E i \in 1..Len(s) : s[i].type = "call" /\ s[i].turn = t}
CalledNow == CallTold(sent) \cup Calling(drain)

\* The places a spoken answer passes, the last one first.
Line(s, d, a, t, p, r, l, q) ==
    <<Sounded(s), Handed(d), TurnsIn(a), TurnBy(t), TurnsIn(p), TurnsIn(r), TurnBy(l), TurnsIn(q)>>
Places == Line(sent, drain, audio_out, tts, lm_processed, lm_response, llm, text_prompt)

\* No turn is behind a later one, between the places and in each queue, but for
\* the turns in T.
InLine(F, T) == \A i, j \in 1..8 : i < j => \A x \in F[i], y \in F[j] : x <= y \/ y \in T
Sorted(q, T) ==
    \A i, j \in 1..Len(q) : i < j => \A x \in TurnOf(q[i]), y \in TurnOf(q[j]) : x <= y \/ y \in T

\* Nothing has been passed by a later turn: what is still on its way to its
\* transcript is of later turns than all that is in line, and so only a function
\* call puts an earlier turn behind a later one.
OrderIInv ==
    /\ InLine(Places, CalledNow)
    /\ Sorted(audio_out, CalledNow) /\ Sorted(lm_processed, CalledNow)
    /\ Sorted(lm_response, CalledNow) /\ Sorted(text_prompt, CalledNow)
PassedIInv ==
    /\ \A i \in 1..8 : \A t \in Places[i] : BehindNow(t)
    /\ \A t \in ToCall(text_out) : BehindNow(t)

SessionIInv ==
    /\ Types /\ ServiceTypes /\ ChainIInv
    /\ OrderIInv /\ PassedIInv /\ SpokenInOrder
-----------------------------------------------------------------------------
LEMMA IdsAreNat == \A t \in Ids : t \in Nat
BY DEF Ids

\* A queue whose head is taken.
LEMMA HeadLeaves ==
  ASSUME NEW S, \A m \in S : m.turn \in Ids, NEW s \in Seq(S), s # <<>>, NEW T, Sorted(s, T)
  PROVE  /\ Sorted(Tail(s), T)
         /\ TurnsIn(Tail(s)) \subseteq TurnsIn(s)
         /\ TurnOf(Head(s)) \subseteq TurnsIn(s)
         /\ \A x \in TurnOf(Head(s)), y \in TurnsIn(Tail(s)) : x <= y \/ y \in T
<1> DEFINE r == Tail(s)
<1>1. /\ Len(s) \in Nat \ {0} /\ Len(r) = Len(s) - 1 /\ Head(s) = s[1]
      /\ \A i \in 1..Len(r) : r[i] = s[i + 1]
  BY Shortened
<1>2. \A i \in 1..Len(s) : s[i].turn \in Ids
  OBVIOUS
<1> HIDE DEF r
<1>3. \A i \in 1..Len(r) : i + 1 \in 1..Len(s) /\ 1 < i + 1
  BY <1>1
<1>4. Sorted(r, T)
  <2> SUFFICES ASSUME NEW i \in 1..Len(r), NEW j \in 1..Len(r), i < j,
                      NEW x \in TurnOf(r[i]), NEW y \in TurnOf(r[j])
               PROVE  x <= y \/ y \in T
    BY DEF Sorted
  <2>1. r[i] = s[i + 1] /\ r[j] = s[j + 1] /\ i + 1 < j + 1
    BY <1>1
  <2>2. QED
    BY <1>3, <2>1 DEF Sorted
<1>5. TurnsIn(r) \subseteq TurnsIn(s)
  BY <1>1, <1>3 DEF TurnsIn
<1>6. TurnOf(s[1]) \subseteq TurnsIn(s)
  BY <1>1, <1>2 DEF TurnsIn, TurnOf
<1>7. ASSUME NEW x \in TurnOf(s[1]), NEW y \in TurnsIn(r)
      PROVE  x <= y \/ y \in T
  <2>1. PICK i \in 1..Len(r) : r[i].src = "vad" /\ r[i].turn = y
    BY <1>7 DEF TurnsIn
  <2>2. y \in TurnOf(s[i + 1]) /\ 1 \in 1..Len(s)
    BY <1>1, <2>1 DEF TurnOf
  <2>3. QED
    BY <1>3, <1>7, <2>2 DEF Sorted
<1>8. QED
  BY <1>1, <1>4, <1>5, <1>6, <1>7 DEF r

\* A queue in which something is put that is not earlier than all that waits.
LEMMA LastJoins ==
  ASSUME NEW S, \A m \in S : m.turn \in Ids, NEW s \in Seq(S), NEW e \in S,
         NEW T, Sorted(s, T), \A x \in TurnsIn(s), y \in TurnOf(e) : x <= y \/ y \in T
  PROVE  /\ Sorted(Append(s, e), T)
         /\ TurnsIn(Append(s, e)) \subseteq TurnsIn(s) \cup TurnOf(e)
<1> DEFINE r == Append(s, e)
<1>1. /\ Len(s) \in Nat /\ Len(r) = Len(s) + 1 /\ r[Len(s) + 1] = e
      /\ \A i \in 1..Len(s) : r[i] = s[i]
  BY Appended
<1>2. \A i \in 1..Len(s) : s[i].turn \in Ids
  OBVIOUS
<1> HIDE DEF r
<1>3. \A i \in 1..Len(r) : i \in 1..Len(s) \/ i = Len(s) + 1
  BY <1>1
<1>4. Sorted(r, T)
  <2> SUFFICES ASSUME NEW i \in 1..Len(r), NEW j \in 1..Len(r), i < j,
                      NEW x \in TurnOf(r[i]), NEW y \in TurnOf(r[j])
               PROVE  x <= y \/ y \in T
    BY DEF Sorted
  <2>1. i \in 1..Len(s) /\ r[i] = s[i]
    BY <1>1
  <2>2. CASE j \in 1..Len(s)
    BY <1>1, <2>1, <2>2 DEF Sorted
  <2>3. CASE j = Len(s) + 1
    <3>1. x \in TurnsIn(s)
      BY <1>2, <2>1 DEF TurnsIn, TurnOf
    <3>2. QED
      BY <1>1, <2>3, <3>1
  <2>4. QED
    BY <1>3, <2>2, <2>3
<1>5. ASSUME NEW t \in TurnsIn(r)
      PROVE  t \in TurnsIn(s) \cup TurnOf(e)
  <2>1. PICK i \in 1..Len(r) : r[i].src = "vad" /\ r[i].turn = t
    BY <1>5 DEF TurnsIn
  <2>2. CASE i \in 1..Len(s)
    BY <1>1, <1>5, <2>1, <2>2 DEF TurnsIn
  <2>3. CASE i = Len(s) + 1
    BY <1>1, <2>1, <2>3 DEF TurnOf
  <2>4. QED
    BY <1>3, <2>2, <2>3
<1>6. QED
  BY <1>4, <1>5 DEF r

\* The same for a whole answer: n pieces a and the end b.
LEMMA AnswerJoins ==
  ASSUME NEW S, \A m \in S : m.turn \in Ids, NEW s \in Seq(S), NEW a \in S, NEW b \in S,
         TurnOf(a) = TurnOf(b), NEW n \in Nat,
         NEW T, Sorted(s, T), \A x \in TurnsIn(s), y \in TurnOf(b) : x <= y \/ y \in T
  PROVE  /\ Sorted(WithAnswer(s, Pieces(n, a), b), T)
         /\ TurnsIn(WithAnswer(s, Pieces(n, a), b)) \subseteq TurnsIn(s) \cup TurnOf(b)
<1> DEFINE c == Pieces(n, a)
           r == WithAnswer(s, c, b)
<1>1. s \in Seq(S) /\ c \in Seq(S) /\ b \in S
  BY PiecesAre
<1>2. Len(s) \in Nat /\ Len(c) = n /\ \A i \in 1..n : c[i] = a
  BY PiecesAre
<1> HIDE DEF c
<1>3. /\ Len(r) = Len(s) + n + 1 /\ r[Len(s) + n + 1] = b
      /\ \A i \in 1..Len(s) : r[i] = s[i]
      /\ \A i \in 1..n : r[Len(s) + i] = a
  <2>1. Len(r) = Len(s) + Len(c) + 1
    BY <1>1 DEF WithAnswer
  <2>2. \A i \in 1..Len(s) : r[i] = s[i]
    BY <1>1, JoinedEnds
  <2>3. r[Len(s) + Len(c) + 1] = b
    BY <1>1, JoinedEnds
  <2>4. \A i \in 1..Len(c) : r[Len(s) + i] = c[i]
    BY <1>1, JoinedMiddle
  <2> HIDE DEF r
  <2>5. QED
    BY <1>2, <2>1, <2>2, <2>3, <2>4
<1>4. \A i \in 1..Len(s) : s[i].turn \in Ids
  OBVIOUS
<1> HIDE DEF r
<1>5. ASSUME NEW i \in 1..Len(r), i \notin 1..Len(s)
      PROVE  TurnOf(r[i]) = TurnOf(b)
  <2> DEFINE l == Len(s)
  <2>1. l \in Nat /\ i \in 1..(l + n + 1) /\ ~(i \in 1..l)
    BY <1>2, <1>3, <1>5
  <2> HIDE DEF l
  <2>2. i = l + n + 1 \/ (i - l \in 1..n /\ i = l + (i - l))
    BY <2>1
  <2>3. QED
    BY <1>3, <2>2 DEF l
<1>6. \A x, y \in TurnOf(b) : x <= y
  BY IdsAreNat DEF TurnOf
<1>7. Sorted(r, T)
  <2> SUFFICES ASSUME NEW i \in 1..Len(r), NEW j \in 1..Len(r), i < j,
                      NEW x \in TurnOf(r[i]), NEW y \in TurnOf(r[j])
               PROVE  x <= y \/ y \in T
    BY DEF Sorted
  <2>1. CASE i \in 1..Len(s) /\ j \in 1..Len(s)
    BY <1>2, <1>3, <2>1 DEF Sorted
  <2>2. CASE i \in 1..Len(s) /\ j \notin 1..Len(s)
    <3>1. x \in TurnsIn(s)
      BY <1>2, <1>3, <1>4, <2>2 DEF TurnsIn, TurnOf
    <3>2. QED
      BY <1>5, <2>2, <3>1
  <2>3. CASE i \notin 1..Len(s)
    <3>1. j \notin 1..Len(s)
      BY <1>2, <1>3, <2>3
    <3>2. QED
      BY <1>5, <1>6, <2>3, <3>1
  <2>4. QED
    BY <2>1, <2>2, <2>3
<1>8. ASSUME NEW t \in TurnsIn(r)
      PROVE  t \in TurnsIn(s) \cup TurnOf(b)
  <2>1. PICK i \in 1..Len(r) : r[i].src = "vad" /\ r[i].turn = t
    BY <1>8 DEF TurnsIn
  <2>2. CASE i \in 1..Len(s)
    BY <1>2, <1>3, <1>8, <2>1, <2>2 DEF TurnsIn
  <2>3. CASE i \notin 1..Len(s)
    <3>1. t \in TurnOf(r[i])
      BY <2>1 DEF TurnOf
    <3>2. QED
      BY <1>5, <2>3, <3>1
  <2>4. QED
    BY <2>2, <2>3
<1>9. QED
  BY <1>7, <1>8 DEF r, c

\* One more exception does not disturb the order.
LEMMA SortedStill ==
  ASSUME NEW q, NEW T, NEW U, T \subseteq U, Sorted(q, T)
  PROVE  Sorted(q, U)
BY DEF Sorted

\* From F to G something may have left any place, and something may have moved to
\* place k from the one behind it, where it was not later than what is left.
MovedTo(k, F, G, T) ==
    /\ \A i \in 1..8 : i # k => G[i] \subseteq F[i]
    /\ G[k] \subseteq F[k] \cup F[k + 1]
    /\ \A x \in G[k], y \in G[k + 1] : x \in F[k] \/ x <= y \/ y \in T

LEMMA InLineMoves ==
  ASSUME NEW F, NEW G, NEW T, NEW k \in 1..7, InLine(F, T), MovedTo(k, F, G, T)
  PROVE  InLine(G, T)
<1> SUFFICES ASSUME NEW i \in 1..8, NEW j \in 1..8, i < j, NEW x \in G[i], NEW y \in G[j]
             PROVE  x <= y \/ y \in T
  BY DEF InLine
<1>1. k \in 1..8 /\ k + 1 \in 1..8
  OBVIOUS
<1>2. CASE i # k /\ j # k
  BY <1>2 DEF MovedTo, InLine
<1>3. CASE i # k /\ j = k
  <2>1. x \in F[i] /\ (y \in F[k] \/ y \in F[k + 1]) /\ i < k /\ i < k + 1
    BY <1>3 DEF MovedTo
  <2>2. QED
    BY <1>1, <2>1 DEF InLine
<1>4. CASE i = k /\ j # k
  <2>1. y \in F[j] /\ (x \in F[k] \/ x \in F[k + 1])
    BY <1>4 DEF MovedTo
  <2>2. CASE x \in F[k]
    BY <1>1, <1>4, <2>1, <2>2 DEF InLine
  <2>3. CASE x \notin F[k] /\ j = k + 1
    BY <1>4, <2>3 DEF MovedTo
  <2>4. CASE x \in F[k + 1] /\ j # k + 1
    <3>1. k + 1 < j
      BY <1>4, <2>4
    <3>2. QED
      BY <1>1, <2>1, <2>4, <3>1 DEF InLine
  <2>5. QED
    BY <2>1, <2>2, <2>3, <2>4
<1>5. QED
  BY <1>2, <1>3, <1>4

\* Whatever is in line was in line before.
LEMMA MovedFrom ==
  ASSUME NEW F, NEW G, NEW T, NEW k \in 1..7, MovedTo(k, F, G, T), NEW i \in 1..8, NEW t \in G[i]
  PROVE  \E j \in 1..8 : t \in F[j]
<1>1. k \in 1..8 /\ k + 1 \in 1..8
  OBVIOUS
<1>2. QED
  BY <1>1 DEF MovedTo

\* Function calls in text_out once a message has joined or left it.
LEMMA CallJoins ==
  ASSUME NEW s \in Seq(Said), NEW e \in Said
  PROVE  ToCall(Append(s, e)) \subseteq
            ToCall(s) \cup (IF e.type = "call" /\ e.src = "vad" THEN {e.turn} ELSE {})
<1> SUFFICES ASSUME NEW t \in ToCall(Append(s, e)), ~(e.type = "call" /\ e.src = "vad" /\ e.turn = t)
             PROVE  t \in ToCall(s)
  OBVIOUS
<1>1. /\ Len(s) \in Nat /\ Len(Append(s, e)) = Len(s) + 1 /\ Append(s, e)[Len(s) + 1] = e
      /\ \A i \in 1..Len(s) : Append(s, e)[i] = s[i]
  BY Appended
<1>2. PICK i \in 1..Len(Append(s, e)) :
         /\ Append(s, e)[i].type = "call" /\ Append(s, e)[i].src = "vad"
         /\ Append(s, e)[i].turn = t
  BY DEF ToCall
<1>3. i \in 1..Len(s)
  BY <1>1, <1>2
<1>4. QED
  BY <1>1, <1>2, <1>3 DEF ToCall

LEMMA CallLeaves ==
  ASSUME NEW s \in Seq(Said), s # <<>>
  PROVE  ToCall(Tail(s)) \subseteq ToCall(s)
<1>1. \A i \in 1..Len(Tail(s)) : i + 1 \in 1..Len(s) /\ Tail(s)[i] = s[i + 1]
  BY Shortened
<1>2. QED
  BY <1>1 DEF ToCall

-----------------------------------------------------------------------------
LEMMA QueueTypes ==
  ASSUME Types
  PROVE  /\ text_prompt \in Seq(Ghost) /\ \A m \in Ghost : m.turn \in Ids
         /\ lm_response \in Seq(Answer) /\ \A m \in Answer : m.turn \in Ids
         /\ lm_processed \in Seq(ForTTS) /\ \A m \in ForTTS : m.turn \in Ids
         /\ audio_out \in Seq(Sound) /\ \A m \in Sound : m.turn \in Ids
         /\ text_out \in Seq(Said)
BY DEF Types, Queues, Ghost, Answer, ForTTS, Sound

LEMMA PlaceNames ==
  /\ Places[1] = Sounded(sent) /\ Places[2] = Handed(drain) /\ Places[3] = TurnsIn(audio_out)
  /\ Places[4] = TurnBy(tts) /\ Places[5] = TurnsIn(lm_processed)
  /\ Places[6] = TurnsIn(lm_response) /\ Places[7] = TurnBy(llm) /\ Places[8] = TurnsIn(text_prompt)
BY DEF Places, Line

\* Places next to each other are in order.
LEMMA InLineNext ==
  ASSUME NEW F, NEW T, InLine(F, T)
  PROVE  \A k \in 1..7 : \A x \in F[k], y \in F[k + 1] : x <= y \/ y \in T
BY DEF InLine

\* The LLM takes the oldest request, works on it and hands its answer on.
LEMMA LLMMoves ==
  ASSUME Types, OrderIInv, UNCHANGED serviceState,
         LLMTake \/ LLMText \/ LLMToolCall \/ LLMFinish \/ LLMRaises
  PROVE  /\ \E k \in 1..7 : MovedTo(k, Places, Places', CalledNow)
         /\ Sorted(text_prompt', CalledNow) /\ Sorted(lm_response', CalledNow)
         /\ ToCall(text_out') \subseteq ToCall(text_out) \cup TurnBy(llm)
<1> DEFINE T == CalledNow
           q == text_prompt
           r == lm_response
<1>1. UNCHANGED <<sent, drain, audio_out, tts, lm_processed>>
  BY DEF serviceState, LLMTake, LLMText, LLMToolCall, LLMFinish, LLMRaises, procVars, ttsVars
<1>2. Sorted(q, T) /\ Sorted(r, T) /\ InLine(Places, T)
  BY DEF OrderIInv
<1>3. q \in Seq(Ghost) /\ r \in Seq(Answer)
  BY QueueTypes
<1> HIDE DEF T
<1>4. CASE LLMTake
  <2>1. /\ q # <<>> /\ q' = Tail(q) /\ r' = r /\ text_out' = text_out /\ llm.pc = "idle"
        /\ llm'.pc = "streaming" /\ llm'.turn = Head(q).turn /\ llm'.src = Head(q).src
    BY <1>4 DEF LLMTake, tsVars
  <2>2. /\ Sorted(Tail(q), T) /\ TurnsIn(Tail(q)) \subseteq TurnsIn(q)
        /\ TurnOf(Head(q)) \subseteq TurnsIn(q)
        /\ \A x \in TurnOf(Head(q)), y \in TurnsIn(Tail(q)) : x <= y \/ y \in T
    BY <1>2, <1>3, <2>1, HeadLeaves, QueueTypes
  <2>3. TurnBy(llm') = TurnOf(Head(q))
    BY <2>1 DEF TurnBy, TurnOf
  <2>4. MovedTo(7, Places, Places', T)
    BY <1>1, <2>1, <2>2, <2>3 DEF MovedTo, Places, Line
  <2>5. QED
    BY <1>2, <2>1, <2>2, <2>4 DEF T
<1>5. CASE LLMText \/ LLMToolCall
  <2>1. /\ llm \in Streaming /\ UNCHANGED <<text_prompt, lm_response, text_out>>
        /\ llm' = [llm EXCEPT !.chunks = @ + 1] \/ llm' = [llm EXCEPT !.tool = TRUE]
    BY <1>5 DEF LLMText, LLMToolCall, Types, Threads, Idle, tsVars
  <2>2. TurnBy(llm') = TurnBy(llm)
    BY <2>1 DEF Streaming, TurnBy, TurnOf
  <2>3. Places' = Places
    BY <1>1, <2>1, <2>2 DEF Places, Line
  <2>4. MovedTo(7, Places, Places', T)
    BY <1>2, <2>3, InLineNext DEF MovedTo
  <2>5. QED
    BY <1>2, <2>1, <2>4 DEF T
<1>6. CASE LLMRaises
  <2>1. /\ llm \in Streaming /\ UNCHANGED <<text_prompt, lm_response, text_out>>
        /\ llm' = Idle \/ llm' = [llm EXCEPT !.pc = "hung"]
    BY <1>6 DEF LLMRaises, Types, Threads, Idle, tsVars
  <2>2. CASE llm' = Idle
    <3>1. TurnBy(llm') = {}
      BY <2>2 DEF TurnBy, Idle
    <3>2. MovedTo(6, Places, Places', T)
      BY <1>1, <2>1, <3>1 DEF MovedTo, Places, Line
    <3>3. QED
      BY <1>2, <2>1, <3>2 DEF T
  <2>3. CASE llm' = [llm EXCEPT !.pc = "hung"]
    <3>1. TurnBy(llm') = TurnBy(llm)
      BY <2>1, <2>3 DEF Streaming, TurnBy, TurnOf
    <3>2. Places' = Places
      BY <1>1, <2>1, <3>1 DEF Places, Line
    <3>3. MovedTo(7, Places, Places', T)
      BY <1>2, <3>2, InLineNext DEF MovedTo
    <3>4. QED
      BY <1>2, <2>1, <3>3 DEF T
  <2>4. QED
    BY <2>1, <2>2, <2>3
<1>7. CASE LLMFinish
  <2> DEFINE Out(kind) == [kind |-> kind, turn |-> llm.turn, src |-> llm.src, gen0 |-> llm.gen]
             a == Out("chunk")
             b == Out("end")
             w == WithAnswer(r, Pieces(llm.chunks, a), b)
             c == Say("call", llm.turn, llm.src)
             u == Say("usage", llm.turn, llm.src)
  <2>1. /\ llm.turn \in Ids /\ llm.src \in Sources /\ llm.gen \in Nat /\ llm.chunks \in Nat
        /\ llm.tool \in BOOLEAN /\ llm.pc = "streaming"
    BY <1>7, Sizes DEF Types, Threads, LLMFinish, Idle, Streaming
  <2>2. r' = w /\ q' = q /\ TurnBy(llm') = {}
    BY <1>7 DEF LLMFinish, WithAnswer, Pieces, Idle, TurnBy
  <2>3. text_out' = text_out \o (IF llm.tool THEN <<c>> ELSE <<>>) \o <<u>>
    BY <1>7 DEF LLMFinish
  <2>4. a \in Answer /\ b \in Answer /\ TurnOf(a) = TurnBy(llm) /\ TurnOf(b) = TurnBy(llm)
    BY <2>1 DEF Answer, TurnOf, TurnBy
  <2>5. /\ c \in Said /\ c.type = "call" /\ c.turn = llm.turn /\ c.src = llm.src
        /\ u \in Said /\ u.type = "usage"
    BY <2>1, SaidType DEF Say
  <2>6. \A x \in TurnsIn(r), y \in TurnBy(llm) : x <= y \/ y \in T
    BY <1>2, InLineNext, PlaceNames
  <2> HIDE DEF a, b, c, u
  <2>7. Sorted(w, T) /\ TurnsIn(w) \subseteq TurnsIn(r) \cup TurnBy(llm)
    BY <1>2, <1>3, <2>1, <2>4, <2>6, AnswerJoins, QueueTypes
  <2> HIDE DEF w
  <2>8. MovedTo(6, Places, Places', T)
    BY <1>1, <2>2, <2>7 DEF MovedTo, Places, Line
  <2>9. ToCall(text_out') \subseteq ToCall(text_out) \cup TurnBy(llm)
    <3> DEFINE s == text_out
               v == IF llm.tool THEN Append(s, c) ELSE s
    <3>1. s \in Seq(Said)
      BY QueueTypes
    <3>2. text_out' = Append(v, u)
      BY <2>1, <2>3, <2>5, <3>1, SaidTwice
    <3>3. ToCall(Append(s, c)) \subseteq ToCall(s) \cup TurnBy(llm)
      BY <2>1, <2>5, <3>1, CallJoins DEF TurnBy, TurnOf
    <3>4. v \in Seq(Said) /\ ToCall(v) \subseteq ToCall(s) \cup TurnBy(llm)
      BY <2>5, <3>1, <3>3, Appended
    <3> HIDE DEF v
    <3>5. ToCall(Append(v, u)) \subseteq ToCall(v)
      BY <2>5, <3>4, CallJoins
    <3>6. QED
      BY <3>2, <3>4, <3>5
  <2>10. QED
    BY <1>2, <2>2, <2>7, <2>8, <2>9 DEF T
<1>8. QED
  BY <1>4, <1>5, <1>6, <1>7 DEF T

\* The processor takes the oldest piece or end, which may hand the answer on.
LEMMA ProcessorMoves ==
  ASSUME Types, OrderIInv, UNCHANGED serviceState, ProcessChunk \/ ProcessEnd
  PROVE  /\ \E k \in 1..7 : MovedTo(k, Places, Places', CalledNow)
         /\ Sorted(lm_response', CalledNow) /\ Sorted(lm_processed', CalledNow)
         /\ ToCall(text_out') \subseteq ToCall(text_out)
<1> DEFINE T == CalledNow
           r == lm_response
           p == lm_processed
           m == Head(r)
<1>1. /\ UNCHANGED <<sent, drain, audio_out, tts, llm, text_prompt>>
      /\ r # <<>> /\ r' = Tail(r)
  BY DEF serviceState, ProcessChunk, ProcessEnd, ttsVars
<1>2. Sorted(r, T) /\ Sorted(p, T) /\ InLine(Places, T)
  BY DEF OrderIInv
<1>3. r \in Seq(Answer) /\ p \in Seq(ForTTS)
  BY QueueTypes
<1> HIDE DEF T
<1>4. /\ Sorted(Tail(r), T) /\ TurnsIn(Tail(r)) \subseteq TurnsIn(r)
      /\ TurnOf(m) \subseteq TurnsIn(r)
      /\ \A x \in TurnOf(m), y \in TurnsIn(Tail(r)) : x <= y \/ y \in T
  BY <1>1, <1>2, <1>3, HeadLeaves, QueueTypes
<1>5. m \in Answer
  BY <1>1, <1>3, Shortened
<1>6. CASE UNCHANGED <<lm_processed, text_out>>
  <2>1. MovedTo(7, Places, Places', T)
    <3>1. \A x \in TurnBy(llm), y \in TurnsIn(text_prompt) : x <= y \/ y \in T
      BY <1>2, InLineNext, PlaceNames
    <3>2. QED
      BY <1>1, <1>4, <1>6, <3>1 DEF MovedTo, Places, Line
  <2>2. QED
    BY <1>1, <1>2, <1>4, <1>6, <2>1 DEF T
<1>7. CASE ProcessChunk
  <2> DEFINE e == Say("text", m.turn, m.src)
  <2>1. text_out' = Append(text_out, e) /\ lm_processed' = p
    BY <1>7 DEF ProcessChunk
  <2>2. e \in Said /\ e.type = "text"
    BY <1>5, SaidType DEF Say, Answer
  <2> HIDE DEF e
  <2>3. ToCall(text_out') \subseteq ToCall(text_out)
    BY <2>1, <2>2, CallJoins, QueueTypes
  <2>4. MovedTo(7, Places, Places', T)
    <3>1. \A x \in TurnBy(llm), y \in TurnsIn(text_prompt) : x <= y \/ y \in T
      BY <1>2, InLineNext, PlaceNames
    <3>2. QED
      BY <1>1, <1>4, <2>1, <3>1 DEF MovedTo, Places, Line
  <2>5. QED
    BY <1>1, <1>2, <1>4, <2>1, <2>3, <2>4 DEF T
<1>8. CASE ProcessEnd /\ ~UNCHANGED lm_processed
  <2> DEFINE e == [turn |-> m.turn, src |-> m.src, barged |-> generation # m.gen0]
  <2>1. lm_processed' = Append(p, e) /\ text_out' = text_out
    BY <1>8 DEF ProcessEnd, tsVars
  <2>2. e \in ForTTS /\ TurnOf(e) = TurnOf(m)
    BY <1>5 DEF ForTTS, Answer, TurnOf
  <2> HIDE DEF e
  <2>3. \A x \in TurnsIn(p), y \in TurnOf(e) : x <= y \/ y \in T
    <3>1. \A x \in TurnsIn(p), y \in TurnsIn(r) : x <= y \/ y \in T
      BY <1>2, InLineNext, PlaceNames
    <3>2. QED
      BY <1>4, <2>2, <3>1
  <2>4. Sorted(Append(p, e), T) /\ TurnsIn(Append(p, e)) \subseteq TurnsIn(p) \cup TurnOf(e)
    BY <1>2, <1>3, <2>2, <2>3, LastJoins, QueueTypes
  <2>5. MovedTo(5, Places, Places', T)
    BY <1>1, <1>4, <2>1, <2>2, <2>4 DEF MovedTo, Places, Line
  <2>6. QED
    BY <1>1, <1>4, <2>1, <2>4, <2>5 DEF T
<1>9. CASE ProcessEnd /\ UNCHANGED lm_processed
  BY <1>6, <1>9 DEF ProcessEnd, tsVars
<1>10. QED
  BY <1>7, <1>8, <1>9 DEF T

\* The TTS takes the oldest text and puts its pieces and the end behind the others.
LEMMA TTSMoves ==
  ASSUME Types, OrderIInv, UNCHANGED serviceState,
         TTSTake \/ TTSPiece \/ TTSSend \/ TTSFinish \/ TTSRaises
  PROVE  /\ \E k \in 1..7 : MovedTo(k, Places, Places', CalledNow)
         /\ Sorted(lm_processed', CalledNow) /\ Sorted(audio_out', CalledNow)
         /\ text_out' = text_out
<1> DEFINE T == CalledNow
           p == lm_processed
           a == audio_out
<1>1. UNCHANGED <<sent, drain, lm_response, llm, text_prompt, text_out>>
  BY DEF serviceState, TTSTake, TTSPiece, TTSSend, TTSFinish, TTSRaises, tsVars, llmVars
<1>2. Sorted(p, T) /\ Sorted(a, T) /\ InLine(Places, T)
  BY DEF OrderIInv
<1>3. p \in Seq(ForTTS) /\ a \in Seq(Sound)
  BY QueueTypes
<1> HIDE DEF T
<1>4. \A x \in TurnsIn(a), y \in TurnBy(tts) : x <= y \/ y \in T
  BY <1>2, InLineNext, PlaceNames
<1>5. ASSUME tts.pc # "idle"
      PROVE  tts \in Speaking /\ tts.turn \in Ids /\ tts.src \in Sources /\ TurnBy(tts) = TurnOf(tts)
  BY <1>5 DEF Types, Threads, Idle, Speaking, TurnBy
<1>6. CASE TTSTake
  <2>1. /\ p # <<>> /\ p' = Tail(p) /\ a' = a /\ tts.pc = "idle"
        /\ tts'.pc = "synthesising" /\ tts'.turn = Head(p).turn /\ tts'.src = Head(p).src
    BY <1>6 DEF TTSTake
  <2>2. /\ Sorted(Tail(p), T) /\ TurnsIn(Tail(p)) \subseteq TurnsIn(p)
        /\ TurnOf(Head(p)) \subseteq TurnsIn(p)
        /\ \A x \in TurnOf(Head(p)), y \in TurnsIn(Tail(p)) : x <= y \/ y \in T
    BY <1>2, <1>3, <2>1, HeadLeaves, QueueTypes
  <2>3. TurnBy(tts') = TurnOf(Head(p))
    BY <2>1 DEF TurnBy, TurnOf
  <2>4. MovedTo(4, Places, Places', T)
    BY <1>1, <2>1, <2>2, <2>3 DEF MovedTo, Places, Line
  <2>5. QED
    BY <1>1, <1>2, <2>1, <2>2, <2>4 DEF T
<1>7. CASE TTSPiece
  <2>1. tts.pc = "synthesising" /\ tts' = [tts EXCEPT !.pc = "sending"] /\ p' = p /\ a' = a
    BY <1>7 DEF TTSPiece, procVars
  <2>2. TurnBy(tts') = TurnBy(tts)
    BY <1>5, <2>1 DEF Speaking, TurnBy, TurnOf
  <2>3. MovedTo(3, Places, Places', T)
    BY <1>1, <1>4, <2>1, <2>2 DEF MovedTo, Places, Line
  <2>4. QED
    BY <1>1, <1>2, <2>1, <2>3 DEF T
<1>8. CASE TTSSend \/ TTSFinish
  <2>1. PICK kind \in {"audio", "done"} :
           a' = Append(a, [kind |-> kind, turn |-> tts.turn, src |-> tts.src])
    BY <1>8 DEF TTSSend, TTSFinish
  <2> DEFINE e == [kind |-> kind, turn |-> tts.turn, src |-> tts.src]
  <2>2. tts.pc # "idle" /\ p' = p
    BY <1>8 DEF TTSSend, TTSFinish, procVars
  <2>3. TurnBy(tts') \subseteq TurnBy(tts)
    <3>1. CASE TTSSend
      BY <1>5, <2>2, <3>1 DEF TTSSend, Speaking, TurnBy, TurnOf
    <3>2. CASE TTSFinish
      BY <3>2 DEF TTSFinish, TurnBy, Idle
    <3>3. QED
      BY <1>8, <3>1, <3>2
  <2>4. e \in Sound /\ TurnOf(e) = TurnBy(tts)
    BY <1>5, <2>2 DEF Sound, TurnOf
  <2> HIDE DEF e
  <2>5. Sorted(Append(a, e), T) /\ TurnsIn(Append(a, e)) \subseteq TurnsIn(a) \cup TurnOf(e)
    BY <1>2, <1>3, <1>4, <2>4, LastJoins, QueueTypes
  <2>6. \A x \in TurnOf(e), y \in TurnBy(tts') : x <= y
    BY <1>5, <2>2, <2>3, <2>4, IdsAreNat DEF TurnOf
  <2>7. MovedTo(3, Places, Places', T)
    <3>1. a' = Append(a, e)
      BY <2>1 DEF e
    <3>2. QED
      BY <1>1, <2>2, <2>3, <2>4, <2>5, <2>6, <3>1 DEF MovedTo, Places, Line
  <2>8. QED
    BY <1>1, <1>2, <2>1, <2>2, <2>5, <2>7 DEF T, e
<1>9. CASE TTSRaises
  <2>1. TurnBy(tts') = {} /\ p' = p /\ a' = a
    BY <1>9 DEF TTSRaises, Idle, TurnBy, procVars
  <2>2. MovedTo(3, Places, Places', T)
    BY <1>1, <2>1 DEF MovedTo, Places, Line
  <2>3. QED
    BY <1>1, <1>2, <2>1, <2>2 DEF T
<1>10. QED
  BY <1>6, <1>7, <1>8, <1>9 DEF T

-----------------------------------------------------------------------------
\* Audio and text can be told apart.
LEMMA AudioOrText ==
  /\ \A m \in Sound : /\ "kind" \in DOMAIN m /\ m \notin Reply
                      /\ m.turn \in Ids /\ m.src \in Sources
  /\ \A m \in Reply : /\ "kind" \notin DOMAIN m /\ m \notin Sound
                      /\ m.type \in {"text", "call"} /\ m.turn \in Ids /\ m.src \in Sources
BY DEF Sound, Reply

LEMMA PlacesAreIds ==
  ASSUME Types, NEW i \in 1..8, NEW t \in Places[i]
  PROVE  t \in Ids
<1>1. Sounded(sent) \subseteq Ids /\ \A q : TurnsIn(q) \subseteq Ids
  BY DEF Sounded, TurnsIn
<1>2. Handed(drain) \subseteq Ids
  BY AudioOrText DEF Handed, TurnOf
<1>3. TurnBy(llm) \subseteq Ids
  BY DEF Types, Threads, Idle, Streaming, TurnBy, TurnOf
<1>4. TurnBy(tts) \subseteq Ids
  BY DEF Types, Threads, Idle, Speaking, TurnBy, TurnOf
<1>5. i = 1 \/ i = 2 \/ i = 3 \/ i = 4 \/ i = 5 \/ i = 6 \/ i = 7 \/ i = 8
  OBVIOUS
<1>6. QED
  BY <1>1, <1>2, <1>3, <1>4, <1>5, PlaceNames

\* A request put behind the others.
LEMMA RequestJoins ==
  ASSUME Types, OrderIInv, NEW e \in Ghost, NEW U, CalledNow \subseteq U,
         text_prompt' = Append(text_prompt, e),
         \A i \in 1..7 : Places'[i] \subseteq Places[i],
         \A i \in 1..8 : \A x \in Places[i], y \in TurnOf(e) : x <= y \/ y \in U
  PROVE  /\ InLine(Places', U) /\ Sorted(text_prompt', U)
         /\ \A i \in 1..8 : \A t \in Places'[i] :
               t \in TurnOf(e) \/ \E j \in 1..8 : t \in Places[j]
<1> DEFINE F == Places
           G == Places'
           q == text_prompt
<1>1. /\ InLine(F, CalledNow) /\ Sorted(q, U)
      /\ F[8] = TurnsIn(q) /\ G[8] = TurnsIn(Append(q, e))
  BY SortedStill, PlaceNames DEF OrderIInv, Places, Line
<1>2. Sorted(Append(q, e), U) /\ TurnsIn(Append(q, e)) \subseteq TurnsIn(q) \cup TurnOf(e)
  <2>1. \A x \in TurnsIn(q), y \in TurnOf(e) : x <= y \/ y \in U
    BY <1>1
  <2>2. QED
    BY <1>1, <2>1, LastJoins, QueueTypes
<1> HIDE DEF F, G
<1>3. /\ \A i \in 1..7 : G[i] \subseteq F[i]
      /\ G[8] \subseteq F[8] \cup TurnOf(e)
      /\ \A i \in 1..8 : \A x \in F[i], y \in TurnOf(e) : x <= y \/ y \in U
  BY <1>1, <1>2 DEF F, G
<1>4. InLine(G, U)
  <2> SUFFICES ASSUME NEW i \in 1..8, NEW j \in 1..8, i < j, NEW x \in G[i], NEW y \in G[j]
               PROVE  x <= y \/ y \in U
    BY DEF InLine
  <2>1. x \in F[i] /\ i \in 1..7
    BY <1>3
  <2>2. CASE y \in F[j]
    BY <1>1, <2>1, <2>2 DEF InLine
  <2>3. CASE y \in TurnOf(e)
    BY <1>3, <2>1, <2>3
  <2>4. j \in 1..7 \/ j = 8
    OBVIOUS
  <2>5. QED
    BY <1>3, <2>2, <2>3, <2>4
<1>5. ASSUME NEW i \in 1..8, NEW t \in G[i]
      PROVE  t \in TurnOf(e) \/ \E j \in 1..8 : t \in F[j]
  <2>1. i \in 1..7 \/ i = 8
    OBVIOUS
  <2>2. QED
    BY <1>3, <1>5, <2>1
<1>6. QED
  BY <1>2, <1>4, <1>5 DEF F, G

\* A turn that everything in line is behind of.
LEMMA BehindNext ==
  ASSUME Types, PassedIInv, stt_output # <<>>
  PROVE  \A i \in 1..8 : \A x \in Places[i] : x <= Head(stt_output)
<1> SUFFICES ASSUME NEW i \in 1..8, NEW x \in Places[i]
             PROVE  x <= Head(stt_output)
  OBVIOUS
<1>1. 1 \in 1..Len(stt_output) /\ Head(stt_output) = stt_output[1] /\ stt_output[1] \in Nat
  BY ChainTypes, Shortened
<1>2. x < stt_output[1]
  BY <1>1 DEF PassedIInv, BehindNow, BehindTexts
<1>3. x \in Nat
  BY PlacesAreIds, IdsAreNat
<1>4. QED
  BY <1>1, <1>2, <1>3

\* The notifier requests an answer to the oldest text.
LEMMA NotifyMoves ==
  ASSUME Types, ChainIInv, OrderIInv, PassedIInv, Notify, UNCHANGED serviceState
  PROVE  OrderIInv' /\ PassedIInv'
<1> DEFINE t == Head(stt_output)
           e == Request(t, "vad")
           c == Say("transcript", t, "vad")
<1>1. /\ stt_output # <<>> /\ text_prompt' = Append(text_prompt, e)
      /\ text_out' = Append(text_out, c)
      /\ UNCHANGED <<sent, drain, audio_out, tts, lm_processed, lm_response, llm>>
  BY DEF Notify, serviceState, llmVars, procVars, ttsVars
<1>2. t \in Ids /\ \A u \in Ids : BehindNow(u) \/ u = t => BehindNow(u)'
  BY ChainNotify
<1>3. e \in Ghost /\ TurnOf(e) = {t}
  BY <1>2 DEF Request, Ghost, Sources, TurnOf
<1>4. c \in Said /\ c.type = "transcript"
  BY <1>2, SaidType DEF Say, Sources
<1>5. \A i \in 1..8 : \A x \in Places[i] : x <= t
  BY <1>1, BehindNext
<1>6. CalledNow' = CalledNow
  BY <1>1 DEF CalledNow
<1>7. \A i \in 1..7 : Places'[i] = Places[i]
  BY <1>1 DEF Places, Line
<1> HIDE DEF t, e, c
<1>8. /\ InLine(Places', CalledNow) /\ Sorted(text_prompt', CalledNow)
      /\ \A i \in 1..8 : \A x \in Places'[i] :
            x \in TurnOf(e) \/ \E j \in 1..8 : x \in Places[j]
  BY <1>1, <1>3, <1>5, <1>7, RequestJoins
<1>9. OrderIInv'
  BY <1>1, <1>6, <1>8 DEF OrderIInv
<1>10. \A i \in 1..8 : \A x \in Places'[i] : BehindNow(x)'
  BY <1>2, <1>3, <1>8, PlacesAreIds DEF PassedIInv
<1>11. \A x \in ToCall(text_out') : BehindNow(x)'
  <2>1. ToCall(text_out') \subseteq ToCall(text_out)
    BY <1>1, <1>4, CallJoins, QueueTypes
  <2>2. ToCall(text_out) \subseteq Ids
    BY DEF ToCall
  <2>3. QED
    BY <1>2, <2>1, <2>2 DEF PassedIInv
<1>12. QED
  BY <1>9, <1>10, <1>11 DEF PassedIInv

\* The user and the STT do not touch what is in line.
LEMMA UserKeeps ==
  ASSUME Types, OrderIInv, Speak \/ STTTake \/ STTResult, UNCHANGED serviceState
  PROVE  OrderIInv' /\ Places' = Places /\ ToCall(text_out') \subseteq ToCall(text_out)
<1>1. UNCHANGED <<sent, drain, audio_out, tts, lm_processed, lm_response, llm, text_prompt>>
  BY DEF Speak, STTTake, STTResult, serviceState, llmVars, procVars, ttsVars
<1>2. OrderIInv' /\ Places' = Places
  BY <1>1 DEF OrderIInv, Places, CalledNow
<1>3. Types'
  BY TypesSpeak, TypesSTT
<1>4. \/ text_out' = text_out
      \/ \E e \in Said : e.type # "call" /\ text_out' = Append(text_out, e)
  <2>1. CASE Speak
    <3>1. \/ text_out' = text_out
          \/ turn_id' \in Opened /\ text_out' = Append(text_out, Event("speech_started", turn_id'))
          \/ turn_id \in Opened /\ text_out' = Append(text_out, Event("speech_stopped", turn_id))
      BY <1>3, <2>1 DEF Types, Scalars, Speak, StartTurn, ProgressTurn, EndTurn, DropTurn
    <3>2. \A t \in Opened : /\ Event("speech_started", t) \in Said
                            /\ Event("speech_stopped", t) \in Said
                            /\ Event("speech_started", t).type # "call"
                            /\ Event("speech_stopped", t).type # "call"
      BY SaidType DEF Event
    <3>3. QED
      BY <3>1, <3>2
  <2>2. CASE STTTake
    BY <2>2 DEF STTTake
  <2>3. CASE STTResult
    <3> DEFINE e == Say("partial", stt.turn, "vad")
    <3>1. text_out' = text_out \/ text_out' = Append(text_out, e)
      BY <2>3 DEF STTResult
    <3>2. stt.turn \in Ids
      BY <2>3, OpenedIds DEF STTResult, Types, Threads, Idle, Decoding
    <3>3. e \in Said /\ e.type # "call"
      BY <3>2, SaidType DEF Say, Sources
    <3> HIDE DEF e
    <3>4. QED
      BY <3>1, <3>3
  <2>4. QED
    BY <2>1, <2>2, <2>3
<1>5. ToCall(text_out') \subseteq ToCall(text_out)
  BY <1>4, CallJoins, QueueTypes
<1>6. QED
  BY <1>2, <1>5

\* Nothing any handler does disturbs the order of the answers.
LEMMA HandlersKeepOrder ==
  ASSUME Types, ChainIInv, OrderIInv, PassedIInv, Speak \/ Handlers, UNCHANGED serviceState
  PROVE  OrderIInv' /\ PassedIInv'
<1>1. \A t \in Ids : BehindNow(t) => BehindNow(t)'
  BY ChainStep DEF PipelineNext
<1>2. CalledNow' = CalledNow
  BY DEF CalledNow, serviceState
<1>3. ToCall(text_out) \subseteq Ids
  BY DEF ToCall
<1>4. ASSUME \E k \in 1..7 : MovedTo(k, Places, Places', CalledNow),
             ToCall(text_out') \subseteq ToCall(text_out) \cup TurnBy(llm)
      PROVE  InLine(Places', CalledNow) /\ PassedIInv'
  <2>1. InLine(Places', CalledNow)
    BY <1>4, InLineMoves DEF OrderIInv
  <2>2. \A i \in 1..8 : \A t \in Places'[i] : \E j \in 1..8 : t \in Places[j]
    BY <1>4, MovedFrom
  <2>3. \A i \in 1..8 : \A t \in Places'[i] : BehindNow(t)'
    BY <1>1, <2>2, PlacesAreIds DEF PassedIInv
  <2>4. \A t \in TurnBy(llm) : t \in Places[7] /\ 7 \in 1..8
    BY PlaceNames
  <2>5. \A t \in ToCall(text_out') : BehindNow(t)'
    BY <1>1, <1>3, <1>4, <2>4, PlacesAreIds DEF PassedIInv
  <2>6. QED
    BY <2>1, <2>3, <2>5 DEF PassedIInv
<1>5. CASE Speak \/ STTTake \/ STTResult
  BY <1>1, <1>3, <1>5, UserKeeps, PlacesAreIds DEF PassedIInv
<1>6. CASE Notify
  BY <1>6, NotifyMoves
<1>7. CASE LLMTake \/ LLMText \/ LLMToolCall \/ LLMFinish \/ LLMRaises
  <2>1. UNCHANGED <<audio_out, lm_processed>>
    BY <1>7 DEF LLMTake, LLMText, LLMToolCall, LLMFinish, LLMRaises, procVars, ttsVars
  <2>2. InLine(Places', CalledNow) /\ PassedIInv'
    BY <1>4, <1>7, LLMMoves
  <2>3. QED
    BY <1>2, <1>7, <2>1, <2>2, LLMMoves DEF OrderIInv
<1>8. CASE ProcessChunk \/ ProcessEnd
  <2>1. UNCHANGED <<audio_out, text_prompt>>
    BY <1>8 DEF ProcessChunk, ProcessEnd, ttsVars
  <2>2. InLine(Places', CalledNow) /\ PassedIInv'
    BY <1>4, <1>8, ProcessorMoves
  <2>3. QED
    BY <1>2, <1>8, <2>1, <2>2, ProcessorMoves DEF OrderIInv
<1>9. CASE TTSTake \/ TTSPiece \/ TTSSend \/ TTSFinish \/ TTSRaises
  <2>1. UNCHANGED <<lm_response, text_prompt>>
    BY <1>9 DEF TTSTake, TTSPiece, TTSSend, TTSFinish, TTSRaises, llmVars
  <2>2. InLine(Places', CalledNow) /\ PassedIInv'
    BY <1>4, <1>9, TTSMoves
  <2>3. QED
    BY <1>2, <1>9, <2>1, <2>2, TTSMoves DEF OrderIInv
<1>10. QED
  BY <1>5, <1>6, <1>7, <1>8, <1>9 DEF Handlers

-----------------------------------------------------------------------------
\* The drain thread's program counter says what it works on.
LEMMA DrainMessage ==
  ASSUME ServiceTypes
  PROVE  /\ drain.pc \in {"text", "audio"} => drain \in Waiting
         /\ drain.pc \in {"bargein", "cancel", "cancelDone", "cancelClear"} =>
              drain \in Interrupting /\ drain.msg \in Spoken
         /\ drain.pc \in {"start", "announce", "deliver"} =>
              drain \in Replying /\ drain.msg \in Reply \cup Sound
         /\ drain.pc \in {"finish", "finishDone", "finishClear"} =>
              drain \in Finishing /\ drain.msg \in Sound
BY DEF ServiceTypes, Waiting, Interrupting, Replying, Finishing

\* Where the drain thread goes.
LEMMA DrainType ==
  /\ \A pc \in {"text", "audio"} : Svc!At(pc) \in Waiting
  /\ \A pc \in {"bargein", "cancel", "cancelDone", "cancelClear"}, m \in Spoken :
        Svc!With(pc, m) \in Interrupting
  /\ \A pc \in {"start", "announce", "deliver"}, m \in Reply \cup Sound :
        /\ Svc!With(pc, m) \in Replying
        /\ Svc!With(pc, m).msg = m
  /\ \A pc \in {"finish", "finishDone", "finishClear"}, m \in Sound :
        Svc!With(pc, m) \in Finishing
BY DEF Svc!At, Svc!With, Waiting, Interrupting, Replying, Finishing

\* It holds an answer or a call only while it replies.
LEMMA EmptyHanded ==
  ASSUME NEW d \in Waiting \cup Interrupting \cup Finishing
  PROVE  d \notin Replying /\ Handed(d) = {} /\ Calling(d) = {}
<1>1. d \notin Replying
  BY DEF Waiting, Interrupting, Finishing, Replying
<1>2. QED
  BY <1>1 DEF Handed, Calling

LEMMA MessageTurn ==
  ASSUME NEW m \in Spoken \cup Reply \cup Sound
  PROVE  m.turn \in Ids /\ m.src \in Sources
BY DEF Spoken, Reply, Sound

\* The messages of text_out.
LEMMA MessageType ==
  ASSUME NEW m \in Said
  PROVE  /\ Message(m) \in Spoken
         /\ Message(m).type \in {"text", "call"} => Message(m) \in Reply
         /\ Message(m).type = "call" => Message(m) = m
BY OpenedIds DEF Message, Said, Spoken, Reply, Sources

\* What the client can be told of, and of what.
Causes == Spoken \cup Reply \cup Sound \cup {Svc!NoMessage}

LEMMA EventType ==
  \A rid \in Nat, type \in SentTypes, m \in Causes :
     /\ Svc!ServerEvent(type, rid, m) \in Told
     /\ Svc!ServerEvent(type, rid, m).type = type /\ Svc!ServerEvent(type, rid, m).rid = rid
     /\ Svc!ServerEvent(type, rid, m).turn = m.turn /\ Svc!ServerEvent(type, rid, m).src = m.src
<1>1. \A m \in Causes : (m.turn \in Ids /\ m.src \in Sources) \/ (m.turn = 0 /\ m.src = "none")
  BY MessageTurn DEF Causes, Svc!NoMessage
<1>2. QED
  BY <1>1 DEF Svc!ServerEvent, Told

\* The client is told of one thing more, which is neither audio nor a call.
ToldQuietly == \E e \in Told : e.type \notin {"audio", "call"} /\ sent' = Append(sent, e)

\* A step of the service that takes nothing in hand and hands nothing over.
QuietStep ==
    /\ response_id' \in Nat /\ responses' \in Nat
    /\ drain' \in Waiting \cup Interrupting \cup Replying \cup Finishing
    /\ Handed(drain') \subseteq Handed(drain) /\ Calling(drain) \subseteq Calling(drain')
    /\ sent' = sent \/ ToldQuietly

LEMMA QuietEvent ==
  ASSUME NEW type \in SentTypes \ {"audio", "call"}, NEW rid \in Nat, NEW m \in Causes,
         sent' = Append(sent, Svc!ServerEvent(type, rid, m))
  PROVE  ToldQuietly
<1> DEFINE e == Svc!ServerEvent(type, rid, m)
<1>1. e \in Told /\ e.type = type
  BY EventType
<1> HIDE DEF e
<1>2. sent' = Append(sent, e)
  BY DEF e
<1>3. QED
  BY <1>1, <1>2 DEF ToldQuietly

\* Where the drain thread is not in the middle of a reply, it may go to wherever
\* it has nothing to hand over.
LEMMA QuietDrain ==
  ASSUME ServiceTypes, drain.pc \notin {"start", "announce", "deliver"},
         drain' \in Waiting \cup Interrupting \cup Finishing, UNCHANGED <<response_id, responses>>,
         sent' = sent \/ ToldQuietly
  PROVE  QuietStep
<1>1. drain \notin Replying
  BY DEF Replying
<1>2. Calling(drain) = {}
  BY <1>1 DEF Calling
<1>3. Handed(drain') = {}
  BY EmptyHanded
<1>4. QED
  BY <1>2, <1>3 DEF QuietStep, ServiceTypes

LEMMA QuietTexts ==
  ASSUME ServiceTypes, NEW m \in Spoken,
         \/ Svc!TakeSpeechStarted(m) \/ Svc!TakeSpeechStopped(m) \/ Svc!TakeTranscript(m)
         \/ Svc!TakeUsage(m)
  PROVE  QuietStep
<1>1. /\ drain.pc = "text" /\ UNCHANGED <<response_id, responses>>
      /\ drain' = Svc!With("bargein", m) \/ drain' = Svc!At("audio")
  BY DEF Svc!TakeSpeechStarted, Svc!TakeSpeechStopped, Svc!TakeTranscript, Svc!TakeUsage,
         Svc!respVars
<1>2. drain' \in Waiting \cup Interrupting
  BY <1>1, DrainType
<1>3. \/ sent' = sent
      \/ \E type \in {"speech_started", "speech_stopped", "partial", "transcript"} :
            sent' = Append(sent, Svc!ServerEvent(type, 0, m))
  BY DEF Svc!TakeSpeechStarted, Svc!TakeSpeechStopped, Svc!TakeTranscript, Svc!TakeUsage,
         Svc!Emit, Svc!None
<1>4. sent' = sent \/ ToldQuietly
  BY <1>3, QuietEvent DEF Causes, SentTypes
<1>5. QED
  BY <1>1, <1>2, <1>4, QuietDrain

LEMMA QuietTimeouts ==
  ASSUME ServiceTypes, Svc!TimeoutText \/ Svc!TimeoutAudio
  PROVE  QuietStep
<1>1. /\ drain.pc \in {"text", "audio"} /\ UNCHANGED <<response_id, responses, sent>>
      /\ drain' = Svc!At("text") \/ drain' = Svc!At("audio")
  BY DEF Svc!TimeoutText, Svc!TimeoutAudio, Svc!respVars
<1>2. QED
  BY <1>1, DrainType, QuietDrain

\* A barge-in and the end of a response.
LEMMA QuietInterrupts ==
  ASSUME ServiceTypes,
         \/ Svc!BargeIn \/ Svc!DrainCancels \/ Svc!DrainCancelDone \/ Svc!DrainCancelClear
         \/ Svc!Finish \/ Svc!FinishDone \/ Svc!FinishClear
  PROVE  QuietStep
<1> DEFINE R == Waiting \cup Interrupting \cup Finishing
<1>1. response_id \in Nat /\ responses \in Nat /\ 0 \in Nat
  BY DEF ServiceTypes
<1>2. CASE Svc!BargeIn \/ Svc!DrainCancels
  <2>1. /\ drain.pc \in {"bargein", "cancel"} /\ UNCHANGED <<response_id, responses, sent>>
        /\ \/ drain' = Svc!At("audio") \/ drain' = Svc!With("cancel", drain.msg)
           \/ drain' = Svc!With("cancelDone", drain.msg)
    BY <1>2 DEF Svc!BargeIn, Svc!DrainCancels, Svc!respVars
  <2>2. drain' \in R
    BY <2>1, DrainType, DrainMessage
  <2>3. QED
    BY <2>1, <2>2, QuietDrain
<1>3. CASE Svc!DrainCancelDone
  <2>1. /\ drain.pc = "cancelDone" /\ UNCHANGED <<response_id, responses>>
        /\ drain' = Svc!With("cancelClear", drain.msg)
        /\ sent' = Append(sent, Svc!ServerEvent("cancelled", response_id, drain.msg))
    BY <1>3 DEF Svc!DrainCancelDone, Svc!respVars, Svc!Emit
  <2>2. drain' \in R
    BY <2>1, DrainType, DrainMessage
  <2>3. ToldQuietly
    BY <1>1, <2>1, DrainMessage, QuietEvent DEF Causes, SentTypes
  <2>4. QED
    BY <2>1, <2>2, <2>3, QuietDrain
<1>4. CASE Svc!DrainCancelClear \/ Svc!FinishClear
  <2>1. /\ drain.pc \in {"cancelClear", "finishClear"} /\ response_id' = 0
        /\ UNCHANGED <<responses, sent>>
        /\ drain' = Svc!At("audio") \/ drain' = Svc!At("text")
    BY <1>4 DEF Svc!DrainCancelClear, Svc!FinishClear, Svc!None
  <2>2. drain' \in R /\ Handed(drain') = {}
    BY <2>1, DrainType, EmptyHanded
  <2>3. Calling(drain) = {}
    BY <2>1 DEF Calling, Replying
  <2>4. QED
    BY <1>1, <2>1, <2>2, <2>3 DEF QuietStep
<1>5. CASE Svc!Finish
  <2>1. /\ drain.pc = "finish" /\ UNCHANGED <<response_id, responses, sent>>
        /\ drain' = Svc!At("text") \/ drain' = Svc!With("finishDone", drain.msg)
    BY <1>5 DEF Svc!Finish, Svc!respVars
  <2>2. drain' \in R
    BY <2>1, DrainType, DrainMessage
  <2>3. QED
    BY <2>1, <2>2, QuietDrain
<1>6. CASE Svc!FinishDone
  <2>1. /\ drain.pc = "finishDone" /\ UNCHANGED <<response_id, responses>>
        /\ drain' = Svc!With("finishClear", drain.msg)
        /\ sent' = Append(sent, Svc!ServerEvent("done", response_id, drain.msg))
    BY <1>6 DEF Svc!FinishDone, Svc!respVars, Svc!Emit
  <2>2. drain' \in R
    BY <2>1, DrainType, DrainMessage
  <2>3. ToldQuietly
    BY <1>1, <2>1, DrainMessage, QuietEvent DEF Causes, SentTypes
  <2>4. QED
    BY <2>1, <2>2, <2>3, QuietDrain
<1>7. QED
  BY <1>2, <1>3, <1>4, <1>5, <1>6

\* A response is started and announced for the message that the drain thread holds.
LEMMA QuietStarts ==
  ASSUME ServiceTypes, Svc!StartResponse \/ Svc!AnnounceResponse
  PROVE  QuietStep
<1>1. /\ drain.pc \in {"start", "announce"}
      /\ drain' = Svc!With("announce", drain.msg) \/ drain' = Svc!With("deliver", drain.msg)
  BY DEF Svc!StartResponse, Svc!AnnounceResponse
<1>2. drain \in Replying /\ drain.msg \in Reply \cup Sound
  BY <1>1, DrainMessage
<1>3. drain' \in Replying /\ drain'.msg = drain.msg
  BY <1>1, <1>2, DrainType
<1>4. Handed(drain') = Handed(drain) /\ Calling(drain') = Calling(drain)
  BY <1>2, <1>3 DEF Handed, Calling
<1>5. response_id \in Nat /\ responses \in Nat
  BY DEF ServiceTypes
<1>6. CASE Svc!StartResponse
  <2>1. responses' = responses + 1 /\ response_id' = responses + 1 /\ sent' = sent
    BY <1>6 DEF Svc!StartResponse
  <2>2. QED
    BY <1>3, <1>4, <1>5, <2>1 DEF QuietStep
<1>7. CASE Svc!AnnounceResponse
  <2>1. /\ UNCHANGED <<response_id, responses>>
        /\ sent' = Append(sent, Svc!ServerEvent("created", response_id, drain.msg))
    BY <1>7 DEF Svc!AnnounceResponse, Svc!respVars, Svc!Emit
  <2>2. drain.msg \in Causes /\ "created" \in SentTypes
    BY <1>2 DEF Causes, SentTypes
  <2>3. ToldQuietly
    BY <1>5, <2>1, <2>2, QuietEvent DEF SentTypes
  <2>4. QED
    BY <1>3, <1>4, <1>5, <2>1, <2>3 DEF QuietStep
<1>8. QED
  BY <1>6, <1>7

\* The client, on the event-loop thread.
LEMMA QuietClient ==
  ASSUME ServiceTypes,
         \/ Svc!ClientCancels \/ Svc!ClientCancelDone \/ Svc!ClientCancelClear \/ Svc!ClientItem
  PROVE  QuietStep
<1>1. response_id \in Nat /\ responses \in Nat /\ 0 \in Nat
      /\ drain \in Waiting \cup Interrupting \cup Replying \cup Finishing
  BY DEF ServiceTypes
<1>2. UNCHANGED <<drain, responses>> /\ (response_id' = response_id \/ response_id' = 0)
  BY DEF Svc!ClientCancels, Svc!ClientCancelDone, Svc!ClientCancelClear, Svc!ClientItem,
         Svc!respVars, Svc!None
<1>3. \/ sent' = sent
      \/ sent' = Append(sent, Svc!ServerEvent("cancelled", response_id, Svc!NoMessage))
  BY DEF Svc!ClientCancels, Svc!ClientCancelDone, Svc!ClientCancelClear, Svc!ClientItem, Svc!Emit
<1>4. sent' = sent \/ ToldQuietly
  BY <1>1, <1>3, QuietEvent DEF Causes, SentTypes
<1>5. QED
  BY <1>1, <1>2, <1>4 DEF QuietStep

-----------------------------------------------------------------------------
\* What an event more makes of what the client heard.
LEMMA SentGrows ==
  ASSUME NEW s \in Seq(Told), NEW e \in Told
  PROVE  /\ Append(s, e) \in Seq(Told)
         /\ CallTold(s) \subseteq CallTold(Append(s, e))
         /\ e.type = "call" /\ e.turn \in Ids => e.turn \in CallTold(Append(s, e))
         /\ e.type # "audio" => Sounded(Append(s, e)) \subseteq Sounded(s)
         /\ Sounded(Append(s, e)) \subseteq Sounded(s) \cup TurnOf(e)
<1> DEFINE r == Append(s, e)
<1>1. /\ r \in Seq(Told) /\ Len(s) \in Nat /\ Len(r) = Len(s) + 1 /\ r[Len(s) + 1] = e
      /\ \A i \in 1..Len(s) : r[i] = s[i]
  BY Appended
<1> HIDE DEF r
<1>2. \A i \in 1..Len(s) : i \in 1..Len(r)
  BY <1>1
<1>3. CallTold(s) \subseteq CallTold(r)
  BY <1>1, <1>2 DEF CallTold
<1>4. e.type = "call" /\ e.turn \in Ids => e.turn \in CallTold(r)
  BY <1>1 DEF CallTold
<1>5. ASSUME NEW t \in Sounded(r)
      PROVE  t \in Sounded(s) \/ (e.type = "audio" /\ t \in TurnOf(e))
  <2>1. PICK i \in 1..Len(r) : r[i].type = "audio" /\ r[i].src = "vad" /\ r[i].turn = t
    BY <1>5 DEF Sounded
  <2>2. i \in 1..Len(s) \/ i = Len(s) + 1
    BY <1>1
  <2>3. QED
    BY <1>1, <1>5, <2>1, <2>2 DEF Sounded, TurnOf
<1>6. QED
  BY <1>1, <1>3, <1>4, <1>5 DEF r

\* Audio that is not of an earlier turn than what was heard, or of one that a call
\* was made for, keeps the order in which the answers are heard.
LEMMA SpokenAppend ==
  ASSUME sent \in Seq(Told), NEW e \in Told, sent' = Append(sent, e), SpokenInOrder,
         e.type = "audio" =>
            \A x \in Sounded(sent), y \in TurnOf(e) : x <= y \/ y \in CallTold(sent)
  PROVE  SpokenInOrder'
<1> DEFINE s == sent
           r == sent'
<1>1. /\ Len(s) \in Nat /\ Len(r) = Len(s) + 1 /\ r[Len(s) + 1] = e
      /\ \A i \in 1..Len(s) : r[i] = s[i] /\ s[i] \in Told
  BY Appended
<1> SUFFICES ASSUME NEW i \in 1..Len(r), NEW j \in 1..Len(r), i < j,
                    r[i].type = "audio", r[i].src = "vad", r[j].type = "audio", r[j].src = "vad",
                    \A k \in 1..j : r[k].type = "call" => r[k].turn # r[j].turn
             PROVE  r[i].turn <= r[j].turn
  BY DEF SpokenInOrder
<1> HIDE DEF r
<1>2. i \in 1..Len(s) /\ r[i] = s[i] /\ s[i] \in Told
  BY <1>1
<1>3. CASE j \in 1..Len(s)
  <2>1. \A k \in 1..j : k \in 1..Len(s)
    BY <1>1, <1>3
  <2>2. \A k \in 1..j : s[k].type = "call" => s[k].turn # s[j].turn
    BY <1>1, <1>3, <2>1
  <2>3. QED
    BY <1>1, <1>2, <1>3, <2>2 DEF SpokenInOrder
<1>4. CASE j = Len(s) + 1
  <2>1. r[j] = e
    BY <1>1, <1>4
  <2>2. s[i].turn \in Sounded(s)
    <3>1. s[i].turn \in Ids
      BY <1>2 DEF Told
    <3>2. QED
      BY <1>2, <3>1 DEF Sounded
  <2>3. e.turn \in TurnOf(e)
    BY <2>1 DEF TurnOf
  <2>4. e.turn \notin CallTold(s)
    <3>1. \A k \in 1..Len(s) : k \in 1..j /\ r[k] = s[k]
      BY <1>1, <1>4
    <3>2. QED
      BY <2>1, <3>1 DEF CallTold
  <2>5. QED
    BY <1>2, <2>1, <2>2, <2>3, <2>4
<1>5. j \in 1..Len(s) \/ j = Len(s) + 1
  BY <1>1
<1>6. QED
  BY <1>3, <1>4, <1>5

-----------------------------------------------------------------------------
\* A step of the service moves what is in line, and forgets no call.
LEMMA ServiceKeepsOrder ==
  ASSUME Types, OrderIInv, PassedIInv, UNCHANGED <<userVars, sttVars, lm_processed, lm_response>>,
         CalledNow \subseteq CalledNow', ToCall(text_out') \subseteq ToCall(text_out),
         \E k \in 1..7 : MovedTo(k, Places, Places', CalledNow),
         Sorted(audio_out', CalledNow), Sorted(text_prompt', CalledNow)
  PROVE  OrderIInv' /\ PassedIInv'
<1>1. InLine(Places', CalledNow)
  BY InLineMoves DEF OrderIInv
<1>2. InLine(Places', CalledNow')
  BY <1>1 DEF InLine
<1>3. UNCHANGED <<turn_id, speech_started, spoken_prompt, stt, stt_output>>
  BY DEF userVars, sttVars
<1>4. \A t : BehindNow(t)' <=> BehindNow(t)
  BY <1>3 DEF BehindNow
<1>5. \A i \in 1..8 : \A t \in Places'[i] : \E j \in 1..8 : t \in Places[j]
  BY MovedFrom
<1>6. PassedIInv'
  BY <1>4, <1>5 DEF PassedIInv
<1>7. /\ Sorted(audio_out', CalledNow') /\ Sorted(text_prompt', CalledNow')
      /\ Sorted(lm_processed', CalledNow') /\ Sorted(lm_response', CalledNow')
  <2>1. Sorted(lm_processed', CalledNow) /\ Sorted(lm_response', CalledNow)
    BY DEF OrderIInv
  <2>2. QED
    BY <2>1, SortedStill
<1>8. QED
  BY <1>2, <1>6, <1>7 DEF OrderIInv

\* A step that takes nothing in hand keeps the order of what is told, whatever
\* else it takes from the queues.
LEMMA QuietKeepsOrder ==
  ASSUME Types, ServiceTypes, OrderIInv, PassedIInv, SpokenInOrder, QuietStep,
         UNCHANGED <<userVars, sttVars, tts, lm_processed, lm_response, llm>>,
         ToCall(text_out') \subseteq ToCall(text_out),
         TurnsIn(audio_out') \subseteq TurnsIn(audio_out), Sorted(audio_out', CalledNow),
         TurnsIn(text_prompt') \subseteq TurnsIn(text_prompt), Sorted(text_prompt', CalledNow)
  PROVE  ServiceTypes' /\ OrderIInv' /\ PassedIInv' /\ SpokenInOrder'
<1>1. sent \in Seq(Told)
  BY DEF ServiceTypes
<1>2. /\ sent' \in Seq(Told) /\ CallTold(sent) \subseteq CallTold(sent')
      /\ Sounded(sent') \subseteq Sounded(sent) /\ SpokenInOrder'
  <2>1. CASE sent' = sent
    BY <1>1, <2>1 DEF SpokenInOrder
  <2>2. CASE ToldQuietly
    <3>1. PICK e \in Told : e.type \notin {"audio", "call"} /\ sent' = Append(sent, e)
      BY <2>2 DEF ToldQuietly
    <3>2. SpokenInOrder'
      BY <1>1, <3>1, SpokenAppend
    <3>3. QED
      BY <1>1, <3>1, <3>2, SentGrows
  <2>3. QED
    BY <2>1, <2>2 DEF QuietStep
<1>3. ServiceTypes'
  BY <1>2 DEF ServiceTypes, QuietStep
<1>4. CalledNow \subseteq CalledNow'
  BY <1>2 DEF CalledNow, QuietStep
<1>5. MovedTo(4, Places, Places', CalledNow)
  <2>1. Handed(drain') \subseteq Handed(drain)
    BY DEF QuietStep
  <2>2. QED
    BY <1>2, <2>1 DEF MovedTo, Places, Line
<1>6. OrderIInv' /\ PassedIInv'
  BY <1>4, <1>5, ServiceKeepsOrder
<1>7. QED
  BY <1>2, <1>3, <1>6

\* The drain thread takes a message of text_out.
LEMMA DrainTextKeepsOrder ==
  ASSUME Types, ServiceTypes, OrderIInv, PassedIInv, SpokenInOrder, DrainText
  PROVE  ServiceTypes' /\ OrderIInv' /\ PassedIInv' /\ SpokenInOrder'
<1> DEFINE h == Head(text_out)
           m == Message(h)
<1>1. /\ text_out # <<>> /\ text_out' = Tail(text_out) /\ Svc!TakeText(m)
      /\ UNCHANGED <<userVars, sttVars, tts, lm_processed, lm_response, llm, audio_out>>
  BY DEF DrainText, handlerState, llmVars, procVars
<1>2. text_out \in Seq(Said) /\ h \in Said
  BY <1>1, QueueTypes, Shortened
<1>3. ToCall(text_out') \subseteq ToCall(text_out)
  BY <1>1, <1>2, CallLeaves
<1>4. m \in Spoken /\ (m.type \in {"text", "call"} => m \in Reply) /\ (m.type = "call" => m = h)
  BY <1>2, MessageType
<1>5. Sorted(audio_out, CalledNow) /\ Sorted(text_prompt, CalledNow)
  BY DEF OrderIInv
<1>6. m.type = "call" /\ m.src = "vad" => m.turn \in ToCall(text_out)
  <2>1. 1 \in 1..Len(text_out) /\ h = text_out[1]
    BY <1>1, <1>2, Shortened
  <2>2. QED
    BY <1>4, <2>1, MessageTurn DEF ToCall
<1> HIDE DEF h, m
<1>7. CASE \/ Svc!TakeSpeechStarted(m) \/ Svc!TakeSpeechStopped(m) \/ Svc!TakeTranscript(m)
           \/ Svc!TakeUsage(m)
  <2>1. QuietStep
    BY <1>4, <1>7, QuietTexts
  <2>2. text_prompt' = text_prompt
    BY <1>7 DEF Svc!TakeSpeechStarted, Svc!TakeSpeechStopped, Svc!TakeTranscript, Svc!TakeUsage,
                Svc!pipeVars
  <2>3. QED
    BY <1>1, <1>3, <1>5, <2>1, <2>2, QuietKeepsOrder
<1>8. ASSUME Svc!StartOrDeliver(m), m \in Reply, drain.pc = "text"
      PROVE  /\ drain' \in Replying /\ Handed(drain') = {} /\ Calling(drain) = {}
             /\ m.type = "call" => Calling(drain') = {m.turn}
  <2>1. drain' = Svc!With("start", m) \/ drain' = Svc!With("deliver", m)
    BY <1>8 DEF Svc!StartOrDeliver
  <2>2. drain' \in Replying /\ drain'.msg = m
    BY <1>8, <2>1, DrainType
  <2>3. Handed(drain') = {}
    BY <1>8, <2>2, AudioOrText DEF Handed
  <2>4. Calling(drain) = {}
    BY <1>8 DEF Calling, Replying
  <2>5. QED
    BY <1>8, <2>2, <2>3, <2>4 DEF Calling
<1>9. CASE Svc!TakeAssistantText(m) \/ (Svc!TakeFunctionCall(m) /\ UNCHANGED text_prompt)
  <2>1. /\ drain.pc = "text" /\ m \in Reply /\ Svc!StartOrDeliver(m)
        /\ UNCHANGED <<response_id, responses, sent, text_prompt>>
    BY <1>4, <1>9 DEF Svc!TakeAssistantText, Svc!TakeFunctionCall, Svc!respVars, Svc!pipeVars
  <2>2. QuietStep
    BY <1>8, <2>1 DEF QuietStep, ServiceTypes
  <2>3. QED
    BY <1>1, <1>3, <1>5, <2>1, <2>2, QuietKeepsOrder
<1>10. CASE Svc!TakeFunctionCall(m) /\ ~UNCHANGED text_prompt
  <2> DEFINE e == [turn |-> m.turn, src |-> m.src]
  <2>1. /\ drain.pc = "text" /\ m \in Reply /\ m.type = "call" /\ Svc!StartOrDeliver(m)
        /\ text_prompt' = Append(text_prompt, e) /\ UNCHANGED <<response_id, responses, sent>>
    BY <1>4, <1>10 DEF Svc!TakeFunctionCall, Svc!respVars
  <2>2. e \in Ghost /\ TurnOf(e) = TurnOf(m)
    BY <2>1, MessageTurn DEF Ghost, TurnOf
  <2> HIDE DEF e
  <2>3. CalledNow \subseteq CalledNow' /\ m.turn \in CalledNow'
    BY <1>8, <2>1 DEF CalledNow
  <2>4. \A i \in 1..8 : \A x \in Places[i], y \in TurnOf(e) : x <= y \/ y \in CalledNow'
    BY <2>2, <2>3 DEF TurnOf
  <2>5. \A i \in 1..7 : Places'[i] \subseteq Places[i]
    BY <1>1, <1>8, <2>1 DEF Places, Line
  <2> DEFINE U == CalledNow'
  <2>6. CalledNow \subseteq U /\ \A i \in 1..8 : \A x \in Places[i], y \in TurnOf(e) : x <= y \/ y \in U
    BY <2>3, <2>4
  <2> HIDE DEF U
  <2>7. /\ InLine(Places', U) /\ Sorted(text_prompt', U)
        /\ \A i \in 1..8 : \A t \in Places'[i] :
              t \in TurnOf(e) \/ \E j \in 1..8 : t \in Places[j]
    BY <2>1, <2>2, <2>5, <2>6, RequestJoins
  <2>8. /\ Sorted(audio_out', U) /\ Sorted(lm_processed', U) /\ Sorted(lm_response', U)
    <3>1. /\ Sorted(audio_out', CalledNow) /\ Sorted(lm_processed', CalledNow)
          /\ Sorted(lm_response', CalledNow)
      BY <1>1 DEF OrderIInv
    <3>2. QED
      BY <2>6, <3>1, SortedStill
  <2>9. OrderIInv'
    BY <2>7, <2>8 DEF OrderIInv, U
  <2>10. UNCHANGED <<turn_id, speech_started, spoken_prompt, stt, stt_output>>
    BY <1>1 DEF userVars, sttVars
  <2>11. \A t : BehindNow(t)' <=> BehindNow(t)
    BY <2>10 DEF BehindNow
  <2>12. \A t \in TurnOf(e) : BehindNow(t)
    BY <1>6, <2>1, <2>2 DEF PassedIInv, TurnOf
  <2>13. PassedIInv'
    BY <1>3, <2>7, <2>11, <2>12 DEF PassedIInv
  <2>14. ServiceTypes' /\ SpokenInOrder'
    BY <1>8, <2>1 DEF ServiceTypes, SpokenInOrder
  <2>15. QED
    BY <2>9, <2>13, <2>14
<1>11. QED
  BY <1>1, <1>7, <1>9, <1>10 DEF Svc!TakeText

\* The drain thread takes a piece of audio, to hand it over or to drop it, or the
\* end of an answer.
LEMMA DrainAudioKeepsOrder ==
  ASSUME Types, ServiceTypes, OrderIInv, PassedIInv, SpokenInOrder, DrainAudio
  PROVE  ServiceTypes' /\ OrderIInv' /\ PassedIInv' /\ SpokenInOrder'
<1> DEFINE m == Head(audio_out)
<1>1. /\ audio_out # <<>> /\ audio_out' = Tail(audio_out)
      /\ Svc!TakeAudio(m) \/ Svc!TakeDone(m)
      /\ UNCHANGED <<userVars, sttVars, tts, lm_processed, lm_response, llm, text_out>>
  BY DEF DrainAudio, handlerState, llmVars, procVars
<1>2. /\ drain.pc = "audio"
      /\ UNCHANGED <<response_id, responses, sent, text_prompt>>
  BY <1>1 DEF Svc!TakeAudio, Svc!TakeDone, Svc!respVars, Svc!pipeVars
<1>3. audio_out \in Seq(Sound) /\ (\A e \in Sound : e.turn \in Ids) /\ m \in Sound
  BY <1>1, QueueTypes, Shortened
<1>4. Sorted(audio_out, CalledNow) /\ Sorted(text_prompt, CalledNow)
  BY DEF OrderIInv
<1>5. /\ Sorted(audio_out', CalledNow) /\ TurnsIn(audio_out') \subseteq TurnsIn(audio_out)
      /\ TurnOf(m) \subseteq TurnsIn(audio_out)
      /\ \A x \in TurnOf(m), y \in TurnsIn(audio_out') : x <= y \/ y \in CalledNow
  BY <1>1, <1>3, <1>4, HeadLeaves
<1> HIDE DEF m
<1>6. CASE drain' = Svc!At("text") \/ drain' = Svc!With("finish", m)
  <2>1. drain' \in Waiting \cup Interrupting \cup Finishing
    BY <1>3, <1>6, DrainType
  <2>2. QuietStep
    BY <1>2, <2>1, QuietDrain
  <2>3. QED
    BY <1>1, <1>2, <1>4, <1>5, <2>2, QuietKeepsOrder
<1>7. CASE Svc!StartOrDeliver(m)
  <2>1. drain' = Svc!With("start", m) \/ drain' = Svc!With("deliver", m)
    BY <1>7 DEF Svc!StartOrDeliver
  <2>2. drain' \in Replying /\ drain'.msg = m
    BY <1>3, <2>1, DrainType
  <2>3. Handed(drain') = TurnOf(m)
    BY <1>3, <2>2 DEF Handed
  <2>4. Calling(drain) = {}
    BY <1>2 DEF Calling, Replying
  <2>5. MovedTo(2, Places, Places', CalledNow)
    BY <1>1, <1>2, <1>5, <2>3 DEF MovedTo, Places, Line
  <2>6. CalledNow \subseteq CalledNow'
    BY <1>2, <2>4 DEF CalledNow
  <2>7. OrderIInv' /\ PassedIInv'
    BY <1>1, <1>2, <1>4, <1>5, <2>5, <2>6, ServiceKeepsOrder
  <2>8. ServiceTypes' /\ SpokenInOrder'
    BY <1>2, <2>2 DEF ServiceTypes, SpokenInOrder
  <2>9. QED
    BY <2>7, <2>8
<1>8. QED
  BY <1>1, <1>6, <1>7 DEF Svc!TakeAudio, Svc!TakeDone

\* The drain thread hands over what it holds.
LEMMA DeliverKeepsOrder ==
  ASSUME Types, ServiceTypes, OrderIInv, PassedIInv, SpokenInOrder, Svc!Deliver,
         UNCHANGED <<handlerState, text_out, audio_out>>
  PROVE  ServiceTypes' /\ OrderIInv' /\ PassedIInv' /\ SpokenInOrder'
<1> DEFINE m == drain.msg
           audio == "kind" \in DOMAIN m
           e == Svc!ServerEvent(IF audio THEN "audio" ELSE m.type, response_id, m)
<1>1. /\ drain.pc = "deliver" /\ sent' = Append(sent, e)
      /\ drain' = Svc!At(IF audio THEN "text" ELSE "audio")
      /\ UNCHANGED <<response_id, responses, text_prompt>>
  BY DEF Svc!Deliver, Svc!Emit, Svc!respVars, Svc!pipeVars
<1>2. UNCHANGED <<userVars, sttVars, tts, lm_processed, lm_response, llm, text_out, audio_out>>
  BY DEF handlerState, llmVars, procVars
<1>3. drain \in Replying /\ m \in Reply \cup Sound
  BY <1>1, DrainMessage
<1>4. drain' \in Waiting /\ Handed(drain') = {}
  BY <1>1, DrainType, EmptyHanded
<1>5. response_id \in Nat /\ responses \in Nat /\ sent \in Seq(Told)
  BY DEF ServiceTypes
<1>6. m.turn \in Ids
  BY <1>3, MessageTurn
<1>7. audio <=> m \in Sound
  BY <1>3 DEF Reply, Sound
<1>8. ~audio => m \in Reply /\ m.type \in {"text", "call"}
  BY <1>3, <1>7 DEF Reply
<1>9. /\ e \in Told /\ e.turn = m.turn /\ e.src = m.src
      /\ e.type = (IF audio THEN "audio" ELSE m.type)
  <2>1. (IF audio THEN "audio" ELSE m.type) \in {"audio", "text", "call"}
    BY <1>8
  <2> DEFINE y == IF audio THEN "audio" ELSE m.type
  <2>2. y \in SentTypes /\ m \in Causes
    BY <1>3, <2>1 DEF Causes, SentTypes
  <2> HIDE DEF y, m
  <2>3. /\ Svc!ServerEvent(y, response_id, m) \in Told
        /\ Svc!ServerEvent(y, response_id, m).type = y
        /\ Svc!ServerEvent(y, response_id, m).turn = m.turn
        /\ Svc!ServerEvent(y, response_id, m).src = m.src
    BY <1>5, <2>2, EventType
  <2>4. QED
    BY <2>3 DEF y
<1>10. Handed(drain) = (IF audio THEN TurnOf(m) ELSE {})
  BY <1>3, <1>7 DEF Handed
<1>11. TurnOf(e) = TurnOf(m)
  BY <1>9 DEF TurnOf
<1>12. audio => Calling(drain) = {}
  BY <1>7, AudioOrText DEF Calling
<1> HIDE DEF e, m, audio
<1>13. /\ sent' \in Seq(Told) /\ CallTold(sent) \subseteq CallTold(sent')
       /\ e.type = "call" => m.turn \in CallTold(sent')
       /\ Sounded(sent') \subseteq Sounded(sent) \cup Handed(drain)
  <2>1. e.type # "audio" \/ audio
    BY <1>8, <1>9
  <2>2. /\ CallTold(sent) \subseteq CallTold(sent') /\ sent' \in Seq(Told)
        /\ e.type = "call" /\ e.turn \in Ids => e.turn \in CallTold(sent')
        /\ e.type # "audio" => Sounded(sent') \subseteq Sounded(sent)
        /\ Sounded(sent') \subseteq Sounded(sent) \cup TurnOf(e)
    BY <1>1, <1>5, <1>9, SentGrows
  <2>3. QED
    BY <1>6, <1>9, <1>10, <1>11, <2>1, <2>2
<1>14. CalledNow \subseteq CalledNow'
  <2>1. Calling(drain) \subseteq CallTold(sent')
    <3>1. CASE audio
      BY <1>12, <3>1
    <3>2. CASE ~audio
      BY <1>9, <1>13, <3>2 DEF Calling, m
    <3>3. QED
      BY <3>1, <3>2
  <2>2. QED
    BY <1>13, <2>1 DEF CalledNow
<1>15. \A x \in Sounded(sent), y \in Handed(drain) : x <= y \/ y \in CalledNow
  BY InLineNext, PlaceNames DEF OrderIInv
<1>16. SpokenInOrder'
  <2>1. e.type = "audio" => \A x \in Sounded(sent), y \in TurnOf(e) : x <= y \/ y \in CallTold(sent)
    BY <1>8, <1>9, <1>10, <1>11, <1>12, <1>15 DEF CalledNow
  <2>2. QED
    BY <1>1, <1>5, <1>9, <2>1, SpokenAppend
<1>17. MovedTo(1, Places, Places', CalledNow)
  BY <1>1, <1>2, <1>4, <1>13 DEF MovedTo, Places, Line
<1>18. /\ Sorted(audio_out', CalledNow) /\ Sorted(text_prompt', CalledNow)
       /\ ToCall(text_out') \subseteq ToCall(text_out)
  BY <1>1, <1>2 DEF OrderIInv
<1>19. OrderIInv' /\ PassedIInv'
  BY <1>2, <1>14, <1>17, <1>18, ServiceKeepsOrder
<1>20. ServiceTypes'
  BY <1>1, <1>4, <1>5, <1>13 DEF ServiceTypes
<1>21. QED
  BY <1>16, <1>19, <1>20

\* The other steps of the service, on the drain thread and for the client.
LEMMA ServiceStepKeepsOrder ==
  ASSUME Types, ServiceTypes, OrderIInv, PassedIInv, SpokenInOrder,
         DrainTimeout \/ Client \/ (Svc!DrainStep /\ UNCHANGED <<handlerState, text_out, audio_out>>)
  PROVE  ServiceTypes' /\ OrderIInv' /\ PassedIInv' /\ SpokenInOrder'
<1>1. UNCHANGED <<handlerState, text_out, audio_out>>
  BY DEF DrainTimeout, Client
<1>2. UNCHANGED <<userVars, sttVars, tts, lm_processed, lm_response, llm, text_out, audio_out>>
  BY <1>1 DEF handlerState, llmVars, procVars
<1>3. Sorted(audio_out, CalledNow) /\ Sorted(text_prompt, CalledNow)
  BY DEF OrderIInv
<1>4. CASE Svc!Deliver
  BY <1>1, <1>4, DeliverKeepsOrder
<1>5. CASE ~Svc!Deliver
  <2>1. QuietStep
    <3>1. CASE DrainTimeout
      BY <3>1, QuietTimeouts DEF DrainTimeout
    <3>2. CASE Client
      BY <3>2, QuietClient DEF Client
    <3>3. CASE Svc!DrainStep
      BY <1>5, <3>3, QuietInterrupts, QuietStarts DEF Svc!DrainStep
    <3>4. QED
      BY <3>1, <3>2, <3>3
  <2>2. TurnsIn(text_prompt') \subseteq TurnsIn(text_prompt) /\ Sorted(text_prompt', CalledNow)
    <3>1. CASE text_prompt' = text_prompt
      BY <1>3, <3>1
    <3>2. CASE Svc!ClientItem
      <4> DEFINE e == [turn |-> prompts', src |-> "client"]
      <4>1. text_prompt' = Append(text_prompt, e) /\ prompts' = prompts + 1 /\ prompts < MaxPrompts
        BY <3>2 DEF Svc!ClientItem
      <4>2. prompts' \in 1..MaxPrompts
        BY <4>1, Sizes DEF Types, Scalars
      <4>3. e \in Ghost /\ TurnOf(e) = {}
        BY <4>2, OpenedIds DEF Ghost, Sources, TurnOf
      <4> HIDE DEF e
      <4>4. QED
        BY <1>3, <4>1, <4>3, QueueTypes, LastJoins
    <3>3. UNCHANGED text_prompt \/ Svc!ClientItem
      <4>1. CASE DrainTimeout
        BY <4>1 DEF DrainTimeout, Svc!TimeoutText, Svc!TimeoutAudio, Svc!pipeVars
      <4>2. CASE Client
        BY <4>2 DEF Client, Svc!ClientCancels, Svc!ClientCancelDone, Svc!ClientCancelClear,
                    Svc!pipeVars
      <4>3. CASE Svc!DrainStep
        BY <4>3 DEF Svc!DrainStep, Svc!BargeIn, Svc!DrainCancels, Svc!DrainCancelDone,
                    Svc!DrainCancelClear, Svc!StartResponse, Svc!AnnounceResponse, Svc!Deliver,
                    Svc!Finish, Svc!FinishDone, Svc!FinishClear, Svc!pipeVars
      <4>4. QED
        BY <4>1, <4>2, <4>3
    <3>4. QED
      BY <3>1, <3>2, <3>3
  <2>3. QED
    BY <1>2, <1>3, <2>1, <2>2, QuietKeepsOrder
<1>6. QED
  BY <1>4, <1>5

-----------------------------------------------------------------------------
\* What a step of the drain thread or of the client does to the rest of the
\* pipeline: it takes from the queues, asks the LLM or cancels.
ServiceTouches ==
    /\ UNCHANGED handlerState
    /\ text_out' = text_out \/ (text_out # <<>> /\ text_out' = Tail(text_out))
    /\ audio_out' = audio_out \/ (audio_out # <<>> /\ audio_out' = Tail(audio_out))
    /\ text_prompt' = text_prompt \/ \E m \in Ghost : text_prompt' = Append(text_prompt, m)
    /\ generation' = generation \/ generation' = generation + 1
    /\ prompts' \in 0..MaxPrompts /\ cancels' \in 0..MaxCancels

LEMMA DrainTouches ==
  ASSUME Types, ServiceTypes, Drain
  PROVE  ServiceTouches
<1>1. prompts \in 0..MaxPrompts /\ cancels \in 0..MaxCancels
  BY DEF Types, Scalars
<1>2. CASE DrainText
  <2> DEFINE m == Message(Head(text_out))
             e == [turn |-> m.turn, src |-> m.src]
  <2>1. /\ text_out # <<>> /\ text_out' = Tail(text_out) /\ Svc!TakeText(m)
        /\ UNCHANGED <<handlerState, audio_out>>
    BY <1>2 DEF DrainText
  <2>2. m \in Spoken
    BY <2>1, QueueTypes, Shortened, MessageType
  <2>3. e \in Ghost
    BY <2>2, MessageTurn DEF Ghost
  <2> HIDE DEF m
  <2>4. /\ UNCHANGED <<prompts, cancels, generation>>
        /\ text_prompt' = text_prompt \/ text_prompt' = Append(text_prompt, e)
    BY <2>1 DEF Svc!TakeText, Svc!TakeSpeechStarted, Svc!TakeSpeechStopped, Svc!TakeTranscript,
                Svc!TakeAssistantText, Svc!TakeFunctionCall, Svc!TakeUsage, Svc!pipeVars
  <2> HIDE DEF e
  <2>5. QED
    BY <1>1, <2>1, <2>3, <2>4 DEF ServiceTouches
<1>3. CASE DrainAudio
  <2>1. /\ audio_out # <<>> /\ audio_out' = Tail(audio_out) /\ UNCHANGED <<handlerState, text_out>>
        /\ UNCHANGED <<prompts, cancels, generation, text_prompt>>
    BY <1>3 DEF DrainAudio, Svc!TakeAudio, Svc!TakeDone, Svc!pipeVars
  <2>2. QED
    BY <1>1, <2>1 DEF ServiceTouches
<1>4. CASE DrainTimeout
  <2>1. /\ UNCHANGED <<handlerState, text_out, audio_out>>
        /\ UNCHANGED <<prompts, cancels, generation, text_prompt>>
    BY <1>4 DEF DrainTimeout, Svc!TimeoutText, Svc!TimeoutAudio, Svc!pipeVars
  <2>2. QED
    BY <1>1, <2>1 DEF ServiceTouches
<1>5. CASE Svc!DrainStep /\ UNCHANGED <<handlerState, text_out, audio_out>>
  <2>1. /\ UNCHANGED <<prompts, cancels, text_prompt>>
        /\ generation' = generation \/ generation' = generation + 1
    BY <1>5 DEF Svc!DrainStep, Svc!BargeIn, Svc!DrainCancels, Svc!DrainCancelDone,
                Svc!DrainCancelClear, Svc!StartResponse, Svc!AnnounceResponse, Svc!Deliver,
                Svc!Finish, Svc!FinishDone, Svc!FinishClear, Svc!pipeVars
  <2>2. QED
    BY <1>1, <1>5, <2>1 DEF ServiceTouches
<1>6. QED
  BY <1>2, <1>3, <1>4, <1>5 DEF Drain

LEMMA ClientTouches ==
  ASSUME Types, Client
  PROVE  ServiceTouches
<1>1. prompts \in 0..MaxPrompts /\ cancels \in 0..MaxCancels
  BY DEF Types, Scalars
<1>2. UNCHANGED <<handlerState, text_out, audio_out>>
  BY DEF Client
<1>3. CASE Svc!ClientItem
  <2> DEFINE e == [turn |-> prompts', src |-> "client"]
  <2>1. /\ prompts < MaxPrompts /\ prompts' = prompts + 1 /\ text_prompt' = Append(text_prompt, e)
        /\ UNCHANGED <<generation, cancels>>
    BY <1>3 DEF Svc!ClientItem
  <2>2. prompts' \in 1..MaxPrompts
    BY <1>1, <2>1, Sizes
  <2>3. e \in Ghost
    BY <2>2, OpenedIds DEF Ghost, Sources
  <2> HIDE DEF e
  <2>4. QED
    BY <1>1, <1>2, <2>1, <2>2, <2>3 DEF ServiceTouches
<1>4. CASE Svc!ClientCancels
  <2>1. /\ cancels < MaxCancels /\ cancels' = cancels + 1 /\ generation' = generation + 1
        /\ UNCHANGED <<prompts, text_prompt>>
    BY <1>4 DEF Svc!ClientCancels
  <2>2. cancels' \in 0..MaxCancels
    BY <1>1, <2>1, Sizes
  <2>3. QED
    BY <1>1, <1>2, <2>1, <2>2 DEF ServiceTouches
<1>5. CASE Svc!ClientCancelDone \/ Svc!ClientCancelClear
  <2>1. UNCHANGED <<prompts, cancels, generation, text_prompt>>
    BY <1>5 DEF Svc!ClientCancelDone, Svc!ClientCancelClear, Svc!pipeVars
  <2>2. QED
    BY <1>1, <1>2, <2>1 DEF ServiceTouches
<1>6. QED
  BY <1>3, <1>4, <1>5 DEF Client

\* Such a step keeps what Pipeline_proofs shows of the handler threads.
LEMMA ServiceKeepsTypes ==
  ASSUME Types, ServiceTouches
  PROVE  Types'
<1>1. UNCHANGED <<turn_id, speech_started, spoken_prompt, snapshots, toolCalls, stt, stt_output,
                  llm, lm_response, buffers, gens, lm_processed, tts>>
  BY DEF ServiceTouches, handlerState, userVars, sttVars, llmVars, procVars
<1>2. Threads' /\ Maps'
  BY <1>1 DEF Types, Threads, Maps
<1>3. Scalars'
  <2>1. generation' \in Nat
    BY DEF Types, Scalars, ServiceTouches
  <2>2. QED
    BY <1>1, <2>1 DEF Types, Scalars, ServiceTouches
<1>4. text_out' \in Seq(Said) /\ audio_out' \in Seq(Sound) /\ text_prompt' \in Seq(Ghost)
  <2>1. text_out' \in Seq(Said)
    BY QueueTypes, Shortened DEF ServiceTouches
  <2>2. audio_out' \in Seq(Sound)
    BY QueueTypes, Shortened DEF ServiceTouches
  <2>3. text_prompt' \in Seq(Ghost)
    <3>1. text_prompt \in Seq(Ghost)
      BY QueueTypes
    <3>2. \A m \in Ghost : Append(text_prompt, m) \in Seq(Ghost)
      BY <3>1, Appended
    <3>3. QED
      BY <3>1, <3>2 DEF ServiceTouches
  <2>4. QED
    BY <2>1, <2>2, <2>3
<1>5. Queues'
  BY <1>1, <1>4 DEF Types, Queues
<1>6. QED
  BY <1>2, <1>3, <1>5 DEF Types

LEMMA ServiceKeepsChain ==
  ASSUME Types, ChainIInv, ServiceTouches
  PROVE  ChainIInv'
<1>1. UNCHANGED <<turn_id, speech_started, spoken_prompt, stt, stt_output>>
  BY DEF ServiceTouches, handlerState, userVars, sttVars
<1>2. \A t : Holds(text_out', "transcript", t) => Holds(text_out, "transcript", t)
  <2>1. CASE text_out # <<>> /\ text_out' = Tail(text_out)
    <3>1. \A i \in 1..Len(text_out') : i + 1 \in 1..Len(text_out) /\ text_out'[i] = text_out[i + 1]
      BY <2>1, QueueTypes, Shortened
    <3>2. QED
      BY <3>1 DEF Holds
  <2>2. QED
    BY <2>1 DEF ServiceTouches
<1>3. LogOrder(text_out', turn_id, speech_started, spoken_prompt, stt, stt_output)
  BY <1>2 DEF ChainIInv, LogOrder
<1>4. QED
  BY <1>1, <1>3 DEF ChainIInv

LEMMA SessionInvariantInit == SessionInit => SessionIInv
<1> SUFFICES ASSUME SessionInit
             PROVE  SessionIInv
  OBVIOUS
<1>1. PipelineInit /\ Svc!ServiceInit
  BY DEF SessionInit
<1>2. Types
  BY <1>1, TypesInit
<1>3. /\ spoken_prompt = <<>> /\ text_out = <<>> /\ stt_output = <<>> /\ text_prompt = <<>>
      /\ lm_response = <<>> /\ lm_processed = <<>> /\ audio_out = <<>> /\ sent = <<>>
      /\ stt = Idle /\ llm = Idle /\ tts = Idle
  BY <1>1 DEF PipelineInit, TSInit, Svc!ServiceInit
<1>4. drain \in Waiting /\ response_id = 0 /\ responses = 0
  BY <1>1, DrainType DEF Svc!ServiceInit, Svc!None
<1>5. ServiceTypes
  BY <1>3, <1>4 DEF ServiceTypes
<1>6. ChainIInv
  BY <1>3 DEF ChainIInv, QueueOrder, STTOrder, TextOrder, LogOrder, Holds, Idle
<1>7. \A i \in 1..8 : Places[i] = {}
  <2>1. \A q : q = <<>> => TurnsIn(q) = {} /\ Sounded(q) = {}
    BY DEF TurnsIn, Sounded
  <2>2. Handed(drain) = {} /\ TurnBy(tts) = {} /\ TurnBy(llm) = {}
    BY <1>3, <1>4, EmptyHanded DEF TurnBy, Idle
  <2>3. \A i \in 1..8 : i = 1 \/ i = 2 \/ i = 3 \/ i = 4 \/ i = 5 \/ i = 6 \/ i = 7 \/ i = 8
    OBVIOUS
  <2>4. QED
    BY <1>3, <2>1, <2>2, <2>3, PlaceNames
<1>8. OrderIInv
  BY <1>3, <1>7 DEF OrderIInv, InLine, Sorted
<1>9. PassedIInv /\ SpokenInOrder
  BY <1>3, <1>7 DEF PassedIInv, ToCall, SpokenInOrder
<1>10. QED
  BY <1>2, <1>5, <1>6, <1>8, <1>9 DEF SessionIInv

LEMMA SessionInvariantStep == SessionIInv /\ [SessionNext]_sessionVars => SessionIInv'
<1> SUFFICES ASSUME SessionIInv, [SessionNext]_sessionVars
             PROVE  SessionIInv'
  OBVIOUS
<1>1. Types /\ ServiceTypes /\ ChainIInv /\ OrderIInv /\ PassedIInv /\ SpokenInOrder
  BY DEF SessionIInv
<1>2. CASE UNCHANGED sessionVars
  <2>1. UNCHANGED pipelineVars /\ UNCHANGED serviceState
    BY <1>2 DEF sessionVars
  <2>2. Types' /\ ChainIInv' /\ \A t : BehindNow(t)' <=> BehindNow(t)
    <3>1. UNCHANGED <<turn_id, speech_started, spoken_prompt, stt, stt_output>>
      BY <2>1 DEF pipelineVars, tsVars, sttVars
    <3>2. QED
      BY <1>1, <2>1, <3>1, TypesStep, ChainStep DEF BehindNow
  <2>3. UNCHANGED <<text_out, text_prompt, lm_response, lm_processed, audio_out, llm, tts>>
    BY <2>1 DEF pipelineVars, tsVars, llmVars, procVars, ttsVars
  <2>4. UNCHANGED <<response_id, responses, drain, sent>>
    BY <2>1 DEF serviceState
  <2>5. Places' = Places /\ CalledNow' = CalledNow
    BY <2>3, <2>4 DEF Places, CalledNow
  <2>6. ServiceTypes' /\ OrderIInv' /\ PassedIInv' /\ SpokenInOrder'
    BY <1>1, <2>2, <2>3, <2>4, <2>5 DEF ServiceTypes, OrderIInv, PassedIInv, SpokenInOrder
  <2>7. QED
    BY <2>2, <2>6 DEF SessionIInv
<1>3. CASE (Speak \/ Handlers) /\ UNCHANGED serviceState
  <2>1. Types' /\ ChainIInv'
    BY <1>1, <1>3, TypesStep, ChainStep DEF PipelineNext
  <2>2. OrderIInv' /\ PassedIInv'
    BY <1>1, <1>3, HandlersKeepOrder
  <2>3. ServiceTypes' /\ SpokenInOrder'
    BY <1>1, <1>3 DEF serviceState, ServiceTypes, SpokenInOrder
  <2>4. QED
    BY <2>1, <2>2, <2>3 DEF SessionIInv
<1>4. CASE Drain \/ Client
  <2>1. Types' /\ ChainIInv'
    BY <1>1, <1>4, DrainTouches, ClientTouches, ServiceKeepsTypes, ServiceKeepsChain
  <2>2. ServiceTypes' /\ OrderIInv' /\ PassedIInv' /\ SpokenInOrder'
    BY <1>1, <1>4, DrainTextKeepsOrder, DrainAudioKeepsOrder, ServiceStepKeepsOrder DEF Drain
  <2>3. QED
    BY <2>1, <2>2 DEF SessionIInv
<1>5. QED
  BY <1>2, <1>3, <1>4 DEF SessionNext

\* What the client hears is in the order in which it was asked for, but for what
\* answers a function call.
THEOREM SessionSpokenInOrder == SessionSpec => []SpokenInOrder
<1>1. SessionIInv => SpokenInOrder
  BY DEF SessionIInv
<1>2. QED
  BY <1>1, SessionInvariantInit, SessionInvariantStep, PTL DEF SessionSpec

-----------------------------------------------------------------------------
\* What Pipeline_proofs shows of the TTS and of the processor's maps, with the
\* service at the queues: it leaves both alone, and its cancels only ever raise
\* the generation.
HandlersIInv == Types /\ LateIInv /\ ProcessorIInv

LEMMA HandlersInvariantInit == SessionInit => HandlersIInv
BY TypesInit, LateInit, ProcessorInit DEF SessionInit, HandlersIInv

LEMMA HandlersInvariantStep ==
  SessionIInv /\ HandlersIInv /\ [SessionNext]_sessionVars => HandlersIInv'
<1> SUFFICES ASSUME SessionIInv, HandlersIInv, [SessionNext]_sessionVars
             PROVE  HandlersIInv'
  OBVIOUS
<1>1. Types /\ LateIInv /\ ProcessorIInv /\ ServiceTypes
  BY DEF HandlersIInv, SessionIInv
<1>2. CASE UNCHANGED sessionVars \/ ((Speak \/ Handlers) /\ UNCHANGED serviceState)
  <2>1. [PipelineNext]_pipelineVars
    BY <1>2 DEF PipelineNext, sessionVars
  <2>2. QED
    BY <1>1, <2>1, TypesStep, LateStep, ProcessorStep DEF HandlersIInv
<1>3. CASE Drain \/ Client
  <2>1. ServiceTouches
    BY <1>1, <1>3, DrainTouches, ClientTouches
  <2>2. UNCHANGED <<tts, lm_response, buffers, gens>>
    BY <2>1 DEF ServiceTouches, handlerState, llmVars, procVars
  <2>3. ProcessorIInv'
    BY <1>1, <2>2 DEF ProcessorIInv
  <2>4. generation \in Nat /\ (generation' = generation \/ generation' = generation + 1)
    BY <1>1, <2>1 DEF Types, Scalars, ServiceTouches
  <2>5. tts.pc # "idle" => tts.gen \in Nat
    BY <1>1 DEF Types, Threads, Idle, Speaking
  <2>6. LateIInv'
    BY <1>1, <2>2, <2>4, <2>5 DEF LateIInv
  <2>7. QED
    BY <1>1, <2>1, <2>3, <2>6, ServiceKeepsTypes DEF HandlersIInv
<1>4. QED
  BY <1>2, <1>3 DEF SessionNext

\* Whoever cancels, the barge-in on the drain thread or the client on the event
\* loop, the TTS sends at most the piece it had already checked.
THEOREM SessionCancelStopsSpeech == SessionSpec => []CancelStopsSpeech
<1>1. HandlersIInv => CancelStopsSpeech
  BY DEF HandlersIInv, LateIInv, CancelStopsSpeech
<1>2. QED
  BY <1>1, SessionInvariantInit, SessionInvariantStep, HandlersInvariantInit, HandlersInvariantStep,
     PTL DEF SessionSpec

\* With the ids that the service gives to the client's items in the same queue as
\* the VAD's, and the calls it answers itself, no text of one answer leaks into
\* another in the processor.
THEOREM SessionProcessorClean == SessionSpec => []ProcessorClean
<1>1. HandlersIInv => ProcessorClean
  BY ProcessorIsClean DEF HandlersIInv
<1>2. QED
  BY <1>1, SessionInvariantInit, SessionInvariantStep, HandlersInvariantInit, HandlersInvariantStep,
     PTL DEF SessionSpec

-----------------------------------------------------------------------------
\* What the service does in a session: nothing, while a handler moves, or a step
\* of RealtimeService.tla on what the handlers have put in the queues.
serviceChange == <<serviceState, cancels>>
ServiceMoves ==
    \/ UNCHANGED serviceChange
    \/ \E m \in Spoken : Svc!TakeText(m)
    \/ \E m \in Sound : Svc!TakeAudio(m) \/ Svc!TakeDone(m)
    \/ Svc!TimeoutText \/ Svc!TimeoutAudio
    \/ Svc!DrainStep
    \/ Svc!LoopStep

LEMMA SessionMovesService ==
  ASSUME Types, [SessionNext]_sessionVars
  PROVE  ServiceMoves
<1>1. CASE UNCHANGED sessionVars
  BY <1>1 DEF sessionVars, pipelineVars, bounds, serviceChange, ServiceMoves
<1>2. CASE (Speak \/ Handlers) /\ UNCHANGED serviceState
  <2>1. UNCHANGED cancels
    BY <1>2 DEF Speak, Handlers, STTTake, STTResult, Notify, LLMTake, LLMText, LLMToolCall,
       LLMFinish, LLMRaises, ProcessChunk, ProcessEnd, TTSTake, TTSPiece, TTSSend, TTSFinish,
       TTSRaises, bounds
  <2>2. QED
    BY <1>2, <2>1 DEF serviceChange, ServiceMoves
<1>3. CASE DrainText
  <2>1. text_out # <<>> /\ Svc!TakeText(Message(Head(text_out)))
    BY <1>3 DEF DrainText
  <2>2. Message(Head(text_out)) \in Spoken
    BY <2>1, QueueTypes, Shortened, MessageType
  <2>3. QED
    BY <2>1, <2>2 DEF ServiceMoves
<1>4. CASE DrainAudio
  <2>1. audio_out # <<>> /\ (Svc!TakeAudio(Head(audio_out)) \/ Svc!TakeDone(Head(audio_out)))
    BY <1>4 DEF DrainAudio
  <2>2. Head(audio_out) \in Sound
    BY <2>1, QueueTypes, Shortened
  <2>3. QED
    BY <2>1, <2>2 DEF ServiceMoves
<1>5. CASE DrainTimeout \/ Svc!DrainStep \/ Client
  BY <1>5 DEF DrainTimeout, Client, Svc!LoopStep, ServiceMoves
<1>6. QED
  BY <1>1, <1>2, <1>3, <1>4, <1>5 DEF SessionNext, Drain

\* A response that is open has a number and a turn.
ResponseIInv ==
    /\ response_id \in 0..responses
    /\ current_response_turn \in Ids \cup {0}
    /\ response_id # 0 => current_response_turn # 0
    /\ loop \in {"idle", "cancelDone", "cancelClear"}

LEMMA ResponseStep ==
  ASSUME ServiceTypes, ResponseIInv, ServiceMoves
  PROVE  ResponseIInv'
<1>1. responses \in Nat
  BY DEF ServiceTypes
<1>2. CASE UNCHANGED <<response_id, responses, current_response_turn>>
           /\ loop' \in {"idle", "cancelDone", "cancelClear"}
  BY <1>2 DEF ResponseIInv
<1>3. CASE UNCHANGED serviceChange
  BY <1>2, <1>3 DEF ResponseIInv, serviceChange, serviceState
<1>4. ASSUME NEW m, Svc!TakeText(m) \/ Svc!TakeAudio(m) \/ Svc!TakeDone(m)
      PROVE  ResponseIInv'
  BY <1>2, <1>4 DEF ResponseIInv, Svc!TakeText, Svc!TakeSpeechStarted, Svc!TakeSpeechStopped,
     Svc!TakeTranscript, Svc!TakeAssistantText, Svc!TakeFunctionCall, Svc!TakeUsage, Svc!TakeAudio,
     Svc!TakeDone, Svc!respVars
<1>5. CASE \/ Svc!TimeoutText \/ Svc!TimeoutAudio \/ Svc!BargeIn \/ Svc!DrainCancels
           \/ Svc!DrainCancelDone \/ Svc!AnnounceResponse \/ Svc!Deliver \/ Svc!Finish
           \/ Svc!FinishDone
  BY <1>2, <1>5 DEF ResponseIInv, Svc!TimeoutText, Svc!TimeoutAudio, Svc!BargeIn,
     Svc!DrainCancels, Svc!DrainCancelDone, Svc!AnnounceResponse, Svc!Deliver, Svc!Finish,
     Svc!FinishDone, Svc!respVars
<1>6. CASE Svc!DrainCancelClear \/ Svc!FinishClear \/ Svc!ClientCancelClear
  BY <1>1, <1>6 DEF ResponseIInv, Svc!DrainCancelClear, Svc!FinishClear, Svc!ClientCancelClear,
     Svc!None
<1>7. CASE Svc!StartResponse
  <2>1. /\ responses' = responses + 1 /\ response_id' = responses + 1 /\ UNCHANGED loop
        /\ current_response_turn' = drain.msg.turn /\ drain.pc = "start"
    BY <1>7 DEF Svc!StartResponse, Svc!ResponseTurn
  <2>2. drain.msg.turn \in Ids /\ 0 \notin Ids
    BY <2>1, DrainMessage, MessageTurn DEF Ids
  <2>3. QED
    BY <1>1, <2>1, <2>2 DEF ResponseIInv
<1>8. CASE Svc!ClientCancels \/ Svc!ClientCancelDone \/ Svc!ClientItem
  BY <1>2, <1>8 DEF ResponseIInv, Svc!ClientCancels, Svc!ClientCancelDone, Svc!ClientItem,
     Svc!respVars
<1>9. QED
  BY <1>3, <1>4, <1>5, <1>6, <1>7, <1>8 DEF ServiceMoves, Svc!DrainStep, Svc!LoopStep

\* The response opened last in the log s is for turn t, and is r if r is one at all.
LastOpened(s, r, t) ==
    \E k \in 1..Len(s) : /\ s[k].type = "created" /\ s[k].turn = t
                         /\ r \in {s[k].rid, 0}
                         /\ \A j \in (k + 1)..Len(s) : s[j].type # "created"

\* As long as the service remembers a turn, the response opened last is for it,
\* whether it is still open or was cancelled, and a piece of audio that is about
\* to be delivered is of that turn.
OpenForTurn ==
    /\ current_response_turn # 0 /\ drain.pc # "announce"
          => LastOpened(sent, response_id, current_response_turn)
    /\ drain.pc = "announce" \/ (drain.pc = "deliver" /\ drain.msg \in Sound)
          => current_response_turn = drain.msg.turn

AudioIInv == OpenForTurn /\ Svc!AudioOfItsTurn

\* As long as the client has not cancelled, only the drain thread writes
\* response_id, which tells exactly which response is open in the log.
OneOpen ==
    /\ loop = "idle"
    /\ \A r \in Nat : Svc!Protocol!Created(sent, r) \/ Svc!Protocol!Closed(sent, r)
                         => r \in 1..responses
    /\ \A r \in Nat : Svc!Protocol!IsOpen(sent, r) => r = response_id
    /\ drain.pc = "start" => response_id = 0
    /\ drain.pc = "announce" => /\ response_id = responses /\ response_id # 0
                                /\ ~Svc!Protocol!Created(sent, response_id)
                                /\ ~Svc!Protocol!Closed(sent, response_id)
    /\ drain.pc \in {"deliver", "finishDone", "cancel", "cancelDone"} => response_id # 0
    /\ response_id # 0 /\ drain.pc \notin {"announce", "cancelClear", "finishClear"}
          => Svc!Protocol!IsOpen(sent, response_id)
    /\ drain.pc \in {"cancelClear", "finishClear"} => ~Svc!Protocol!IsOpen(sent, response_id)

ProtocolIInv == cancels = 0 => OneOpen

LEMMA CreatedAppend ==
  ASSUME NEW s \in Seq(Told), NEW e \in Told, NEW r
  PROVE  Svc!Protocol!Created(Append(s, e), r) <=>
            Svc!Protocol!Created(s, r) \/ (e.type = "created" /\ e.rid = r)
BY Appended DEF Svc!Protocol!Created

LEMMA ClosedAppend ==
  ASSUME NEW s \in Seq(Told), NEW e \in Told, NEW r
  PROVE  Svc!Protocol!Closed(Append(s, e), r) <=>
            Svc!Protocol!Closed(s, r) \/ (e.type \in {"done", "cancelled"} /\ e.rid = r)
BY Appended DEF Svc!Protocol!Closed

\* An emission that delivers no audio outside of a response of its turn.
LEMMA EmitAudio ==
  ASSUME ServiceTypes, ResponseIInv, Svc!AudioOfItsTurn, NEW type \in SentTypes,
         NEW rid \in 0..responses, NEW m \in Causes,
         Svc!Emit(Svc!ServerEvent(type, rid, m)),
         type = "audio" => LastOpened(sent, rid, m.turn)
  PROVE  /\ Svc!AudioOfItsTurn'
         /\ type # "created" => \A r, t : LastOpened(sent, r, t) => LastOpened(sent', r, t)
         /\ type = "created" => LastOpened(sent', rid, m.turn)
<1> USE DEF Svc!None
<1> DEFINE e == Svc!ServerEvent(type, rid, m)
<1>1. e \in Told /\ e.type = type /\ e.rid = rid /\ e.turn = m.turn
  <2>1. rid \in Nat
    BY DEF ServiceTypes
  <2>2. QED
    BY <2>1, EventType
<1>2. sent \in Seq(Told) /\ sent' = Append(sent, e)
  BY DEF ServiceTypes, Svc!Emit
<1> HIDE DEF e
<1>3. /\ Len(sent') = Len(sent) + 1 /\ Len(sent) \in Nat
      /\ \A i \in 1..Len(sent) : sent'[i] = sent[i]
      /\ sent'[Len(sent) + 1] = e
  BY <1>1, <1>2, Appended
<1>4. ASSUME type # "created", NEW r, NEW t, LastOpened(sent, r, t)
      PROVE  LastOpened(sent', r, t)
  <2>1. PICK k \in 1..Len(sent) : /\ sent[k].type = "created" /\ sent[k].turn = t
                                  /\ r \in {sent[k].rid, 0}
                                  /\ \A j \in (k + 1)..Len(sent) : sent[j].type # "created"
    BY <1>4 DEF LastOpened
  <2>2. k \in 1..Len(sent') /\ sent'[k] = sent[k]
    BY <1>3, <2>1
  <2>3. ASSUME NEW j \in (k + 1)..Len(sent')
        PROVE  sent'[j].type # "created"
    <3>1. CASE j \in 1..Len(sent)
      BY <1>3, <2>1, <3>1
    <3>2. CASE j = Len(sent) + 1
      BY <1>1, <1>3, <1>4, <3>2
    <3>3. QED
      BY <1>3, <2>1, <3>1, <3>2
  <2>4. QED
    BY <2>1, <2>2, <2>3 DEF LastOpened
<1>5. ASSUME type = "created"
      PROVE  LastOpened(sent', rid, m.turn)
  <2> DEFINE last == Len(sent) + 1
  <2>1. /\ last \in 1..Len(sent') /\ sent'[last].type = "created" /\ sent'[last].turn = m.turn
        /\ rid \in {sent'[last].rid, 0}
        /\ \A j \in (last + 1)..Len(sent') : FALSE
    BY <1>1, <1>3, <1>5
  <2> HIDE DEF last
  <2>2. QED
    BY <2>1 DEF LastOpened
<1>6. ASSUME NEW i \in 1..Len(sent'), sent'[i].type = "audio"
      PROVE  \E k \in 1..(i - 1) : /\ sent'[k].type = "created"
                                   /\ sent'[k].turn = sent'[i].turn
                                   /\ sent'[i].rid \in {sent'[k].rid, 0}
                                   /\ \A j \in (k + 1)..(i - 1) : sent'[j].type # "created"
  <2>1. CASE i \in 1..Len(sent)
    <3>1. PICK k \in 1..(i - 1) : /\ sent[k].type = "created"
                                  /\ sent[k].turn = sent[i].turn
                                  /\ sent[i].rid \in {sent[k].rid, 0}
                                  /\ \A j \in (k + 1)..(i - 1) : sent[j].type # "created"
      BY <1>3, <1>6, <2>1 DEF Svc!AudioOfItsTurn
    <3>2. k \in 1..Len(sent) /\ \A j \in (k + 1)..(i - 1) : j \in 1..Len(sent)
      BY <1>3, <2>1, <3>1
    <3>3. QED
      BY <1>3, <2>1, <3>1, <3>2
  <2>2. CASE i = Len(sent) + 1
    <3>1. LastOpened(sent, rid, m.turn) /\ i - 1 = Len(sent)
      BY <1>1, <1>3, <1>6, <2>2
    <3>2. PICK k \in 1..Len(sent) : /\ sent[k].type = "created" /\ sent[k].turn = m.turn
                                    /\ rid \in {sent[k].rid, 0}
                                    /\ \A j \in (k + 1)..Len(sent) : sent[j].type # "created"
      BY <3>1 DEF LastOpened
    <3>3. \A j \in (k + 1)..Len(sent) : j \in 1..Len(sent)
      BY <1>3, <3>2
    <3>4. QED
      BY <1>1, <1>3, <2>2, <3>1, <3>2, <3>3
  <2>3. QED
    BY <1>3, <2>1, <2>2
<1>7. Svc!AudioOfItsTurn'
  BY <1>6 DEF Svc!AudioOfItsTurn
<1>8. QED
  BY <1>4, <1>5, <1>7

\* What was opened last is known also without the id, which a cancel clears.
LEMMA LastWithoutId ==
  ASSUME NEW s, NEW r, NEW t, LastOpened(s, r, t)
  PROVE  LastOpened(s, 0, t)
BY DEF LastOpened

\* Steps that leave the response and the log alone.
LEMMA QuietAudio ==
  ASSUME ServiceTypes, ResponseIInv, AudioIInv, UNCHANGED <<response_id, current_response_turn, sent>>,
         drain.pc # "announce", drain'.pc # "announce",
         drain'.pc = "deliver" /\ drain'.msg \in Sound => current_response_turn = drain'.msg.turn
  PROVE  AudioIInv'
<1>1. Svc!AudioOfItsTurn'
  BY DEF AudioIInv, Svc!AudioOfItsTurn
<1>2. OpenForTurn'
  BY DEF AudioIInv, OpenForTurn, LastOpened
<1>3. QED
  BY <1>1, <1>2 DEF AudioIInv

\* Steps that send an event of another kind.
LEMMA EmitQuietAudio ==
  ASSUME ServiceTypes, ResponseIInv, AudioIInv, NEW type \in SentTypes,
         NEW rid \in 0..responses, NEW m \in Causes,
         Svc!Emit(Svc!ServerEvent(type, rid, m)), type \notin {"audio", "created"},
         UNCHANGED <<response_id, current_response_turn>>,
         drain' = drain \/ (drain.pc # "announce" /\ drain'.pc \notin {"announce", "deliver"})
  PROVE  AudioIInv'
<1>1. Svc!AudioOfItsTurn' /\ \A r, t : LastOpened(sent, r, t) => LastOpened(sent', r, t)
  BY EmitAudio DEF AudioIInv
<1>2. OpenForTurn'
  <2>1. current_response_turn' # 0 /\ drain'.pc # "announce"
           => LastOpened(sent', response_id', current_response_turn')
    BY <1>1 DEF AudioIInv, OpenForTurn
  <2>2. drain'.pc = "announce" \/ (drain'.pc = "deliver" /\ drain'.msg \in Sound)
          => current_response_turn' = drain'.msg.turn
    BY DEF AudioIInv, OpenForTurn
  <2>3. QED
    BY <2>1, <2>2 DEF OpenForTurn
<1>3. QED
  BY <1>1, <1>2 DEF AudioIInv

\* What the drain thread does once it is set going on a message.
LEMMA PcOf ==
  /\ \A pc : Svc!At(pc).pc = pc
  /\ \A pc, m : Svc!With(pc, m).pc = pc /\ Svc!With(pc, m).msg = m
BY DEF Svc!At, Svc!With

LEMMA AudioStep ==
  ASSUME ServiceTypes, ResponseIInv, AudioIInv, ServiceMoves
  PROVE  AudioIInv'
<1> USE PcOf DEF Svc!None
<1>1. response_id \in 0..responses /\ 0 \in 0..responses
  BY DEF ServiceTypes, ResponseIInv
<1>2. CASE UNCHANGED serviceChange
  <2>1. UNCHANGED <<response_id, current_response_turn, drain, sent>>
    BY <1>2 DEF serviceChange, serviceState
  <2>2. OpenForTurn'
    BY <2>1 DEF AudioIInv, OpenForTurn, LastOpened
  <2>3. QED
    BY <2>1, <2>2 DEF AudioIInv, Svc!AudioOfItsTurn
<1>3. ASSUME NEW m \in Spoken, Svc!TakeText(m)
      PROVE  AudioIInv'
  <2>1. m \in Causes /\ (m.type \in {"text", "call"} => m \in Reply)
    BY DEF Causes, Spoken, Reply
  <2>2. CASE Svc!TakeSpeechStarted(m)
    <3>1. /\ Svc!Emit(Svc!ServerEvent("speech_started", 0, m)) /\ drain.pc = "text"
          /\ drain'.pc = "bargein" /\ UNCHANGED <<response_id, current_response_turn>>
      BY <2>2 DEF Svc!TakeSpeechStarted, Svc!respVars
    <3>2. QED
      BY <1>1, <2>1, <3>1, EmitQuietAudio DEF SentTypes
  <2>3. CASE Svc!TakeSpeechStopped(m)
    <3>1. /\ Svc!Emit(Svc!ServerEvent("speech_stopped", 0, m)) /\ drain.pc = "text"
          /\ drain'.pc = "audio" /\ UNCHANGED <<response_id, current_response_turn>>
      BY <2>3 DEF Svc!TakeSpeechStopped, Svc!respVars
    <3>2. QED
      BY <1>1, <2>1, <3>1, EmitQuietAudio DEF SentTypes
  <2>4. CASE Svc!TakeTranscript(m)
    <3>1. /\ Svc!Emit(Svc!ServerEvent(m.type, 0, m)) \/ UNCHANGED sent
          /\ drain.pc = "text" /\ drain'.pc = "audio" /\ m.type \in {"transcript", "partial"}
          /\ UNCHANGED <<response_id, current_response_turn>>
      BY <2>4 DEF Svc!TakeTranscript, Svc!respVars
    <3>2. m.type \in SentTypes /\ m.type \notin {"audio", "created"}
      BY <3>1 DEF SentTypes
    <3>3. CASE UNCHANGED sent
      BY <3>1, <3>3, QuietAudio
    <3>4. CASE Svc!Emit(Svc!ServerEvent(m.type, 0, m))
      BY <1>1, <2>1, <3>1, <3>2, <3>4, EmitQuietAudio
    <3>5. QED
      BY <3>1, <3>3, <3>4
  <2>5. CASE Svc!TakeAssistantText(m) \/ Svc!TakeFunctionCall(m)
    <3>1. /\ drain.pc = "text" /\ drain'.pc \in {"start", "deliver"} /\ drain'.msg = m
          /\ UNCHANGED <<response_id, current_response_turn, sent>>
      BY <2>5 DEF Svc!TakeAssistantText, Svc!TakeFunctionCall, Svc!StartOrDeliver, Svc!respVars
    <3>2. m \notin Sound
      BY <2>1, <2>5, AudioOrText DEF Svc!TakeAssistantText, Svc!TakeFunctionCall
    <3>3. QED
      BY <3>1, <3>2, QuietAudio
  <2>6. CASE Svc!TakeUsage(m)
    BY <2>6, QuietAudio DEF Svc!TakeUsage, Svc!respVars
  <2>7. QED
    BY <1>3, <2>2, <2>3, <2>4, <2>5, <2>6 DEF Svc!TakeText
<1>4. ASSUME NEW m \in Sound, Svc!TakeAudio(m) \/ Svc!TakeDone(m)
      PROVE  AudioIInv'
  <2>1. CASE Svc!TakeAudio(m)
    <3>1. /\ drain.pc = "audio" /\ UNCHANGED <<response_id, current_response_turn, sent>>
          /\ \/ drain'.pc = "text"
             \/ Svc!AudioFits(m) /\ drain' = Svc!With(IF response_id = 0 THEN "start" ELSE "deliver", m)
      BY <2>1 DEF Svc!TakeAudio, Svc!StartOrDeliver, Svc!respVars
    <3>2. Svc!AudioFits(m) /\ response_id # 0 => current_response_turn = m.turn
      BY DEF Svc!AudioFits, ResponseIInv
    <3>3. QED
      BY <3>1, <3>2, QuietAudio
  <2>2. CASE Svc!TakeDone(m)
    BY <2>2, QuietAudio DEF Svc!TakeDone, Svc!respVars
  <2>3. QED
    BY <1>4, <2>1, <2>2
<1>5. CASE Svc!TimeoutText \/ Svc!TimeoutAudio
  BY <1>5, QuietAudio DEF Svc!TimeoutText, Svc!TimeoutAudio, Svc!respVars
<1>6. CASE Svc!DrainStep
  <2>1. CASE Svc!BargeIn \/ Svc!DrainCancels \/ Svc!Finish
    BY <2>1, QuietAudio DEF Svc!BargeIn, Svc!DrainCancels, Svc!Finish, Svc!respVars
  <2>2. CASE Svc!DrainCancelDone \/ Svc!FinishDone
    <3>1. drain.msg \in Causes
      BY <2>2, DrainMessage DEF Causes, Svc!DrainCancelDone, Svc!FinishDone
    <3>2. \E type \in {"cancelled", "done"} :
            /\ Svc!Emit(Svc!ServerEvent(type, response_id, drain.msg))
            /\ drain.pc # "announce" /\ drain'.pc \in {"cancelClear", "finishClear"}
            /\ UNCHANGED <<response_id, current_response_turn>>
      BY <2>2 DEF Svc!DrainCancelDone, Svc!FinishDone, Svc!respVars
    <3>3. QED
      BY <1>1, <3>1, <3>2, EmitQuietAudio DEF SentTypes
  <2>3. CASE Svc!DrainCancelClear \/ Svc!FinishClear
    <3>1. /\ response_id' = 0 /\ drain'.pc \in {"text", "audio"} /\ sent' = sent
          /\ current_response_turn' \in {current_response_turn, 0} /\ drain.pc # "announce"
      BY <2>3 DEF Svc!DrainCancelClear, Svc!FinishClear
    <3>2. current_response_turn' # 0 => LastOpened(sent, 0, current_response_turn')
      BY <3>1, LastWithoutId DEF AudioIInv, OpenForTurn
    <3>3. QED
      BY <3>1, <3>2 DEF AudioIInv, OpenForTurn, Svc!AudioOfItsTurn
  <2>4. CASE Svc!StartResponse
    <3>1. drain'.pc = "announce" /\ current_response_turn' = drain'.msg.turn /\ sent' = sent
      BY <2>4 DEF Svc!StartResponse, Svc!ResponseTurn
    <3>2. QED
      BY <3>1 DEF AudioIInv, OpenForTurn, Svc!AudioOfItsTurn
  <2>5. CASE Svc!AnnounceResponse
    <3>1. drain.msg \in Causes
      BY <2>5, DrainMessage DEF Causes, Svc!AnnounceResponse
    <3>2. /\ Svc!Emit(Svc!ServerEvent("created", response_id, drain.msg))
          /\ drain.pc = "announce" /\ drain' = Svc!With("deliver", drain.msg)
          /\ UNCHANGED <<response_id, current_response_turn>>
      BY <2>5 DEF Svc!AnnounceResponse, Svc!respVars
    <3>3. Svc!AudioOfItsTurn' /\ LastOpened(sent', response_id, drain.msg.turn)
      BY <1>1, <3>1, <3>2, EmitAudio DEF AudioIInv, SentTypes
    <3>4. current_response_turn = drain.msg.turn
      BY <3>2 DEF AudioIInv, OpenForTurn
    <3>5. QED
      BY <3>2, <3>3, <3>4 DEF AudioIInv, OpenForTurn
  <2>6. CASE Svc!Deliver
    <3> DEFINE type == IF "kind" \in DOMAIN drain.msg THEN "audio" ELSE drain.msg.type
    <3>1. drain.msg \in Reply \cup Sound /\ drain.msg \in Causes
      BY <2>6, DrainMessage DEF Causes, Svc!Deliver
    <3>2. /\ type \in SentTypes /\ type # "created"
          /\ type = "audio" => drain.msg \in Sound
      BY <3>1, AudioOrText DEF SentTypes
    <3>3. /\ Svc!Emit(Svc!ServerEvent(type, response_id, drain.msg)) /\ drain.pc = "deliver"
          /\ drain'.pc \in {"text", "audio"} /\ UNCHANGED <<response_id, current_response_turn>>
      BY <2>6 DEF Svc!Deliver, Svc!respVars
    <3> HIDE DEF type
    <3>4. type = "audio" => LastOpened(sent, response_id, drain.msg.turn)
      BY <3>2, <3>3, MessageTurn DEF AudioIInv, OpenForTurn, Ids
    <3>5. Svc!AudioOfItsTurn' /\ \A r, t : LastOpened(sent, r, t) => LastOpened(sent', r, t)
      BY <1>1, <3>1, <3>2, <3>3, <3>4, EmitAudio DEF AudioIInv
    <3>6. QED
      BY <3>3, <3>5 DEF AudioIInv, OpenForTurn
  <2>7. QED
    BY <1>6, <2>1, <2>2, <2>3, <2>4, <2>5, <2>6 DEF Svc!DrainStep
<1>7. CASE Svc!LoopStep
  <2>1. CASE Svc!ClientCancels \/ Svc!ClientItem
    BY <2>1 DEF Svc!ClientCancels, Svc!ClientItem, Svc!respVars, AudioIInv, OpenForTurn,
       Svc!AudioOfItsTurn
  <2>2. CASE Svc!ClientCancelDone
    <3>1. Svc!NoMessage \in Causes
      BY DEF Causes
    <3>2. Svc!Emit(Svc!ServerEvent("cancelled", response_id, Svc!NoMessage)) /\ drain' = drain
          /\ UNCHANGED <<response_id, current_response_turn>>
      BY <2>2 DEF Svc!ClientCancelDone, Svc!respVars
    <3>3. QED
      BY <1>1, <3>1, <3>2, EmitQuietAudio DEF SentTypes
  <2>3. CASE Svc!ClientCancelClear
    <3>1. response_id' = 0 /\ UNCHANGED <<current_response_turn, drain, sent>>
      BY <2>3 DEF Svc!ClientCancelClear
    <3>2. current_response_turn # 0 /\ drain.pc # "announce"
             => LastOpened(sent, 0, current_response_turn)
      BY LastWithoutId DEF AudioIInv, OpenForTurn
    <3>3. QED
      BY <3>1, <3>2 DEF AudioIInv, OpenForTurn, Svc!AudioOfItsTurn
  <2>4. QED
    BY <1>7, <2>1, <2>2, <2>3 DEF Svc!LoopStep
<1>8. QED
  BY <1>2, <1>3, <1>4, <1>5, <1>6, <1>7 DEF ServiceMoves

-----------------------------------------------------------------------------
\* Whether the drain thread is about to deliver without a response, and whether
\* the client's last cancel is not over yet.
Holding == IF response_id = 0 /\ drain.pc \in {"announce", "deliver"} THEN 1 ELSE 0
Cancels == IF loop = "idle" THEN 0 ELSE 1

\* Each cancel of the client pays for one delta without a response: while the
\* event loop is busy with it, then, if it found the drain thread between its test
\* and the delivery, while the drain thread holds the delta, and then in the log.
OrphanIInv == Cardinality(Svc!Orphans(sent)) + Holding + Cancels <= cancels

Delta == {"text", "audio", "call"}

LEMMA OrphansAppend ==
  ASSUME NEW s \in Seq(Told), NEW e \in Told
  PROVE  /\ Cardinality(Svc!Orphans(s)) \in Nat
         /\ e.type \in Delta /\ e.rid = 0 =>
              Cardinality(Svc!Orphans(Append(s, e))) = Cardinality(Svc!Orphans(s)) + 1
         /\ ~(e.type \in Delta /\ e.rid = 0) =>
              Cardinality(Svc!Orphans(Append(s, e))) = Cardinality(Svc!Orphans(s))
<1> DEFINE last == Len(s) + 1
<1>1. /\ Len(s) \in Nat /\ Len(Append(s, e)) = last /\ Append(s, e)[last] = e
      /\ \A i \in 1..Len(s) : Append(s, e)[i] = s[i]
  BY Appended
<1>2. Svc!Orphans(s) \subseteq 1..Len(s) /\ last \notin Svc!Orphans(s)
  BY <1>1 DEF Svc!Orphans
<1>3. IsFiniteSet(Svc!Orphans(s))
  <2>1. IsFiniteSet(1..Len(s))
    BY <1>1, FS_Interval
  <2>2. QED
    BY <1>2, <2>1, FS_Subset
<1>4. /\ IsFiniteSet(Svc!Orphans(s) \cup {last})
      /\ Cardinality(Svc!Orphans(s) \cup {last}) = Cardinality(Svc!Orphans(s)) + 1
  BY <1>2, <1>3, FS_AddElement
<1>5. e.type \in Delta /\ e.rid = 0 => Svc!Orphans(Append(s, e)) = Svc!Orphans(s) \cup {last}
  BY <1>1 DEF Svc!Orphans, Delta, Svc!None
<1>6. ~(e.type \in Delta /\ e.rid = 0) => Svc!Orphans(Append(s, e)) = Svc!Orphans(s)
  BY <1>1 DEF Svc!Orphans, Delta, Svc!None
<1>7. Cardinality(Svc!Orphans(s)) \in Nat
  BY <1>3, FS_CardinalityType
<1> HIDE DEF last
<1>8. QED
  BY <1>4, <1>5, <1>6, <1>7

LEMMA EmitOrphans ==
  ASSUME Types, ServiceTypes, ResponseIInv, NEW type \in SentTypes, NEW rid \in 0..responses,
         NEW m \in Causes,
         Svc!Emit(Svc!ServerEvent(type, rid, m))
  PROVE  /\ Cardinality(Svc!Orphans(sent)) \in Nat
         /\ type \in Delta /\ rid = 0 =>
              Cardinality(Svc!Orphans(sent')) = Cardinality(Svc!Orphans(sent)) + 1
         /\ ~(type \in Delta /\ rid = 0) =>
              Cardinality(Svc!Orphans(sent')) = Cardinality(Svc!Orphans(sent))
<1> DEFINE e == Svc!ServerEvent(type, rid, m)
<1>1. e \in Told /\ e.type = type /\ e.rid = rid
  <2>1. rid \in Nat
    BY DEF Types, ServiceTypes
  <2>2. QED
    BY <2>1, EventType
<1>2. sent \in Seq(Told) /\ sent' = Append(sent, e)
  BY DEF Types, ServiceTypes, Svc!Emit
<1> HIDE DEF e
<1>3. QED
  BY <1>1, <1>2, OrphansAppend

\* What the invariant counts is a number.
LEMMA OrphansCount ==
  ASSUME Types, ServiceTypes, ResponseIInv
  PROVE  Cardinality(Svc!Orphans(sent)) \in Nat /\ cancels \in Nat
         /\ Holding \in {0, 1} /\ Cancels \in {0, 1}
<1>1. sent \in Seq(Told) /\ cancels \in Nat
  BY Sizes DEF Types, Scalars, ServiceTypes
<1>2. Len(sent) \in Nat /\ Svc!Orphans(sent) \subseteq 1..Len(sent)
  BY <1>1 DEF Svc!Orphans
<1>3. IsFiniteSet(1..Len(sent))
  BY <1>2, FS_Interval
<1>4. Cardinality(Svc!Orphans(sent)) \in Nat
  BY <1>2, <1>3, FS_Subset, FS_CardinalityType
<1>5. QED
  BY <1>1, <1>4 DEF Holding, Cancels

\* Steps that leave the response and the log alone, and those that send an event
\* of another kind.
LEMMA QuietOrphans ==
  ASSUME Types, ServiceTypes, ResponseIInv, OrphanIInv, UNCHANGED <<response_id, cancels, loop>>,
         Cardinality(Svc!Orphans(sent')) = Cardinality(Svc!Orphans(sent)),
         \/ drain'.pc \in {"announce", "deliver"} => response_id # 0
         \/ drain.pc \in {"announce", "deliver"}
  PROVE  OrphanIInv'
<1>1. Holding' <= Holding /\ Cancels' = Cancels
  BY DEF Holding, Cancels
<1>2. Holding' \in {0, 1}
  BY DEF Holding
<1>3. QED
  BY <1>1, <1>2, OrphansCount DEF OrphanIInv

LEMMA EmitQuietOrphans ==
  ASSUME Types, ServiceTypes, ResponseIInv, OrphanIInv, NEW type \in SentTypes,
         NEW rid \in 0..responses, NEW m \in Causes,
         Svc!Emit(Svc!ServerEvent(type, rid, m)), type \notin Delta,
         UNCHANGED <<response_id, cancels, loop>>,
         \/ drain'.pc \in {"announce", "deliver"} => response_id # 0
         \/ drain.pc \in {"announce", "deliver"}
  PROVE  OrphanIInv'
<1>1. Cardinality(Svc!Orphans(sent')) = Cardinality(Svc!Orphans(sent))
  BY EmitOrphans
<1>2. QED
  BY <1>1, QuietOrphans

LEMMA OrphanStep ==
  ASSUME Types, ServiceTypes, ResponseIInv, OrphanIInv, ServiceMoves
  PROVE  OrphanIInv'
<1> USE PcOf DEF Svc!None
<1>1. response_id \in 0..responses /\ 0 \in 0..responses
  BY DEF ServiceTypes, ResponseIInv
<1>2. CASE UNCHANGED serviceChange
  BY <1>2 DEF serviceChange, serviceState, OrphanIInv, Holding, Cancels
<1>3. ASSUME NEW m \in Spoken, Svc!TakeText(m)
      PROVE  OrphanIInv'
  <2>1. m \in Causes
    BY DEF Causes
  <2>2. CASE Svc!TakeSpeechStarted(m) \/ Svc!TakeSpeechStopped(m)
    <3>1. /\ \E type \in {"speech_started", "speech_stopped"} : Svc!Emit(Svc!ServerEvent(type, 0, m))
          /\ drain'.pc \in {"audio", "bargein"} /\ UNCHANGED <<response_id, cancels, loop>>
      BY <2>2 DEF Svc!TakeSpeechStarted, Svc!TakeSpeechStopped, Svc!respVars
    <3>2. QED
      BY <1>1, <2>1, <3>1, EmitQuietOrphans DEF SentTypes, Delta
  <2>3. CASE Svc!TakeTranscript(m)
    <3>1. /\ Svc!Emit(Svc!ServerEvent(m.type, 0, m)) \/ UNCHANGED sent
          /\ m.type \in SentTypes /\ m.type \notin Delta
          /\ drain'.pc = "audio" /\ UNCHANGED <<response_id, cancels, loop>>
      BY <2>3 DEF Svc!TakeTranscript, Svc!respVars, SentTypes, Delta
    <3>2. CASE UNCHANGED sent
      BY <3>1, <3>2, QuietOrphans
    <3>3. CASE Svc!Emit(Svc!ServerEvent(m.type, 0, m))
      BY <1>1, <2>1, <3>1, <3>3, EmitQuietOrphans
    <3>4. QED
      BY <3>1, <3>2, <3>3
  <2>4. CASE Svc!TakeAssistantText(m) \/ Svc!TakeFunctionCall(m) \/ Svc!TakeUsage(m)
    <3>1. /\ drain'.pc = "deliver" => response_id # 0
          /\ drain'.pc # "announce" /\ UNCHANGED <<response_id, cancels, loop, sent>>
      BY <2>4 DEF Svc!TakeAssistantText, Svc!TakeFunctionCall, Svc!TakeUsage, Svc!StartOrDeliver, Svc!respVars
    <3>2. QED
      BY <3>1, QuietOrphans
  <2>5. QED
    BY <1>3, <2>2, <2>3, <2>4 DEF Svc!TakeText
<1>4. ASSUME NEW m \in Sound, Svc!TakeAudio(m) \/ Svc!TakeDone(m)
      PROVE  OrphanIInv'
  <2>1. /\ drain'.pc = "deliver" => response_id # 0
        /\ drain'.pc # "announce" /\ UNCHANGED <<response_id, cancels, loop, sent>>
    BY <1>4 DEF Svc!TakeAudio, Svc!TakeDone, Svc!StartOrDeliver, Svc!respVars
  <2>2. QED
    BY <2>1, QuietOrphans
<1>5. CASE Svc!TimeoutText \/ Svc!TimeoutAudio
  BY <1>5, QuietOrphans DEF Svc!TimeoutText, Svc!TimeoutAudio, Svc!respVars
<1>6. CASE Svc!DrainStep
  <2>1. CASE Svc!BargeIn \/ Svc!DrainCancels \/ Svc!Finish
    BY <2>1, QuietOrphans DEF Svc!BargeIn, Svc!DrainCancels, Svc!Finish, Svc!respVars
  <2>2. CASE Svc!DrainCancelDone \/ Svc!FinishDone
    <3>1. drain.msg \in Causes
      BY <2>2, DrainMessage DEF Causes, Svc!DrainCancelDone, Svc!FinishDone
    <3>2. \E type \in {"cancelled", "done"} :
            /\ Svc!Emit(Svc!ServerEvent(type, response_id, drain.msg))
            /\ drain'.pc \in {"cancelClear", "finishClear"}
            /\ UNCHANGED <<response_id, cancels, loop>>
      BY <2>2 DEF Svc!DrainCancelDone, Svc!FinishDone, Svc!respVars
    <3>3. QED
      BY <1>1, <3>1, <3>2, EmitQuietOrphans DEF SentTypes, Delta
  <2>3. CASE Svc!DrainCancelClear \/ Svc!FinishClear
    <3>1. drain'.pc \in {"text", "audio"} /\ UNCHANGED <<cancels, loop, sent>>
      BY <2>3 DEF Svc!DrainCancelClear, Svc!FinishClear
    <3>2. Holding' = 0 /\ Cancels' = Cancels
      BY <3>1 DEF Holding, Cancels
    <3>3. QED
      BY <3>1, <3>2, OrphansCount DEF OrphanIInv
  <2>4. CASE Svc!StartResponse
    <3>1. response_id' # 0 /\ UNCHANGED <<cancels, loop, sent>>
      BY <2>4 DEF Svc!StartResponse, ServiceTypes
    <3>2. Holding' = 0 /\ Cancels' = Cancels
      BY <3>1 DEF Holding, Cancels
    <3>3. QED
      BY <3>1, <3>2, OrphansCount DEF OrphanIInv
  <2>5. CASE Svc!AnnounceResponse
    <3>1. drain.msg \in Causes
      BY <2>5, DrainMessage DEF Causes, Svc!AnnounceResponse
    <3>2. /\ Svc!Emit(Svc!ServerEvent("created", response_id, drain.msg)) /\ drain.pc = "announce"
          /\ UNCHANGED <<response_id, cancels, loop>>
      BY <2>5 DEF Svc!AnnounceResponse, Svc!respVars
    <3>3. QED
      BY <1>1, <3>1, <3>2, EmitQuietOrphans DEF SentTypes, Delta
  <2>6. CASE Svc!Deliver
    <3> DEFINE type == IF "kind" \in DOMAIN drain.msg THEN "audio" ELSE drain.msg.type
    <3>1. drain.msg \in Reply \cup Sound /\ drain.msg \in Causes
      BY <2>6, DrainMessage DEF Causes, Svc!Deliver
    <3>2. type \in SentTypes /\ type \in Delta
      BY <3>1, AudioOrText DEF SentTypes, Delta
    <3>3. /\ Svc!Emit(Svc!ServerEvent(type, response_id, drain.msg)) /\ drain.pc = "deliver"
          /\ drain'.pc \in {"text", "audio"} /\ UNCHANGED <<response_id, cancels, loop>>
      BY <2>6 DEF Svc!Deliver, Svc!respVars
    <3> HIDE DEF type
    <3>4. /\ response_id = 0 =>
               Cardinality(Svc!Orphans(sent')) = Cardinality(Svc!Orphans(sent)) + 1
          /\ response_id # 0 => Cardinality(Svc!Orphans(sent')) = Cardinality(Svc!Orphans(sent))
      BY <1>1, <3>1, <3>2, <3>3, EmitOrphans
    <3>5. /\ Holding = IF response_id = 0 THEN 1 ELSE 0
          /\ Holding' = 0 /\ Cancels' = Cancels
      BY <3>3 DEF Holding, Cancels
    <3>6. QED
      BY <3>3, <3>4, <3>5, OrphansCount DEF OrphanIInv
  <2>7. QED
    BY <1>6, <2>1, <2>2, <2>3, <2>4, <2>5, <2>6 DEF Svc!DrainStep
<1>7. CASE Svc!LoopStep
  <2>1. CASE Svc!ClientCancels
    <3>1. /\ loop = "idle" /\ loop' # "idle" /\ cancels' = cancels + 1
          /\ UNCHANGED <<response_id, drain, sent>>
      BY <2>1 DEF Svc!ClientCancels, Svc!respVars
    <3>2. Holding' = Holding /\ Cancels = 0 /\ Cancels' = 1
      BY <3>1 DEF Holding, Cancels
    <3>3. QED
      BY <3>1, <3>2, OrphansCount DEF OrphanIInv
  <2>2. CASE Svc!ClientCancelDone
    <3>1. Svc!NoMessage \in Causes
      BY DEF Causes
    <3>2. /\ Svc!Emit(Svc!ServerEvent("cancelled", response_id, Svc!NoMessage))
          /\ loop # "idle" /\ loop' # "idle" /\ UNCHANGED <<response_id, cancels, drain>>
      BY <2>2 DEF Svc!ClientCancelDone, Svc!respVars
    <3>3. Cardinality(Svc!Orphans(sent')) = Cardinality(Svc!Orphans(sent))
      BY <1>1, <3>1, <3>2, EmitOrphans DEF SentTypes, Delta
    <3>4. Holding' = Holding /\ Cancels' = Cancels
      BY <3>2 DEF Holding, Cancels
    <3>5. QED
      BY <3>2, <3>3, <3>4 DEF OrphanIInv
  <2>3. CASE Svc!ClientCancelClear
    <3>1. loop # "idle" /\ loop' = "idle" /\ UNCHANGED <<cancels, drain, sent>>
      BY <2>3 DEF Svc!ClientCancelClear
    <3>2. Holding' \in {0, 1} /\ Cancels = 1 /\ Cancels' = 0
      BY <3>1 DEF Holding, Cancels
    <3>3. QED
      BY <3>1, <3>2, OrphansCount DEF OrphanIInv
  <2>4. CASE Svc!ClientItem
    BY <2>4, QuietOrphans DEF Svc!ClientItem, Svc!respVars, OrphanIInv, Holding, Cancels
  <2>5. QED
    BY <1>7, <2>1, <2>2, <2>3, <2>4 DEF Svc!LoopStep
<1>8. QED
  BY <1>2, <1>3, <1>4, <1>5, <1>6, <1>7 DEF ServiceMoves

-----------------------------------------------------------------------------
\* What an emission means to the protocol.
LEMMA EmitProtocol ==
  ASSUME ServiceTypes, ResponseIInv, NEW type \in SentTypes, NEW rid \in 0..responses,
         NEW m \in Causes, Svc!Emit(Svc!ServerEvent(type, rid, m))
  PROVE  /\ \A r : Svc!Protocol!Created(sent', r) <=>
                      Svc!Protocol!Created(sent, r) \/ (type = "created" /\ rid = r)
         /\ \A r : Svc!Protocol!Closed(sent', r) <=>
                      Svc!Protocol!Closed(sent, r) \/ (type \in {"done", "cancelled"} /\ rid = r)
         /\ \/ type \in Svc!TurnEvents
            \/ type = "created" /\ ~Svc!Protocol!Created(sent, rid)
                 /\ \A r \in Nat : ~Svc!Protocol!IsOpen(sent, r)
            \/ type \in Svc!ResponseEvents \ {"created"} /\ Svc!Protocol!IsOpen(sent, rid)
            => Svc!Protocol!RPStep
<1> DEFINE e == Svc!ServerEvent(type, rid, m)
<1>1. e \in Told /\ e.type = type /\ e.rid = rid
  <2>1. rid \in Nat
    BY DEF ServiceTypes
  <2>2. QED
    BY <2>1, EventType
<1>2. sent \in Seq(Told) /\ sent' = Append(sent, e)
  BY DEF ServiceTypes, Svc!Emit
<1> HIDE DEF e
<1>3. \A i \in 1..Len(sent) : sent[i].rid \in Nat
  <2>1. \A i \in 1..Len(sent) : sent[i] \in Told
    BY <1>2
  <2>2. QED
    BY <2>1 DEF Told
<1>4. ASSUME \/ type \in Svc!TurnEvents
             \/ type = "created" /\ ~Svc!Protocol!Created(sent, rid)
                  /\ \A r \in Nat : ~Svc!Protocol!IsOpen(sent, r)
             \/ type \in Svc!ResponseEvents \ {"created"} /\ Svc!Protocol!IsOpen(sent, rid)
      PROVE  Svc!Protocol!RPStep
  <2>1. type \in Svc!TurnEvents => type \notin Svc!ResponseEvents /\ type # "created"
    BY DEF Svc!TurnEvents, Svc!ResponseEvents
  <2>2. Svc!Protocol!Legal(sent, e)
    BY <1>1, <1>3, <1>4, <2>1 DEF Svc!Protocol!Legal
  <2>3. sent' # <<>> /\ sent'[Len(sent')] = e
    BY <1>1, <1>2
  <2>4. QED
    BY <1>2, <2>2, <2>3 DEF Svc!Protocol!RPStep, Svc!Protocol!RPNext
<1>5. QED
  BY <1>1, <1>2, <1>4, CreatedAppend, ClosedAppend

\* Only the client's cancel, or the loop while it is busy with it, disturbs the
\* drain thread.
LEMMA NoCancel ==
  ASSUME Types, ServiceTypes, ResponseIInv, ProtocolIInv, ServiceMoves, cancels' = 0
  PROVE  /\ cancels = 0 /\ OneOpen /\ loop' = "idle"
         /\ ~Svc!ClientCancels /\ ~Svc!ClientCancelDone /\ ~Svc!ClientCancelClear
<1>1. cancels' = cancels \/ cancels' = cancels + 1
  BY DEF ServiceMoves, Svc!TakeText, Svc!TakeSpeechStarted, Svc!TakeSpeechStopped,
     Svc!TakeTranscript, Svc!TakeAssistantText, Svc!TakeFunctionCall, Svc!TakeUsage,
     Svc!TakeAudio, Svc!TakeDone, Svc!TimeoutText, Svc!TimeoutAudio, Svc!DrainStep, Svc!BargeIn,
     Svc!DrainCancels, Svc!DrainCancelDone, Svc!DrainCancelClear, Svc!StartResponse,
     Svc!AnnounceResponse, Svc!Deliver, Svc!Finish, Svc!FinishDone, Svc!FinishClear, Svc!LoopStep,
     Svc!ClientCancels, Svc!ClientCancelDone, Svc!ClientCancelClear, Svc!ClientItem,
     serviceChange, serviceState
<1>2. cancels = 0 /\ OneOpen
  BY <1>1 DEF ProtocolIInv, Types, Scalars
<1>3. ~Svc!ClientCancels /\ ~Svc!ClientCancelDone /\ ~Svc!ClientCancelClear
  BY <1>2 DEF OneOpen, Svc!ClientCancels, Svc!ClientCancelDone, Svc!ClientCancelClear
<1>4. loop' = loop
  BY <1>3
  DEF ServiceMoves, Svc!TakeText, Svc!TakeSpeechStarted, Svc!TakeSpeechStopped,
      Svc!TakeTranscript, Svc!TakeAssistantText, Svc!TakeFunctionCall, Svc!TakeUsage,
      Svc!TakeAudio, Svc!TakeDone, Svc!TimeoutText, Svc!TimeoutAudio, Svc!DrainStep, Svc!BargeIn,
      Svc!DrainCancels, Svc!DrainCancelDone, Svc!DrainCancelClear, Svc!StartResponse,
      Svc!AnnounceResponse, Svc!Deliver, Svc!Finish, Svc!FinishDone, Svc!FinishClear,
      Svc!LoopStep, Svc!ClientItem, serviceChange, serviceState
<1>5. QED
  BY <1>2, <1>3, <1>4 DEF OneOpen

\* Steps on neither the response nor the log.
LEMMA QuietProtocol ==
  ASSUME ServiceTypes, ResponseIInv, OneOpen, UNCHANGED <<response_id, responses, sent>>, loop' = "idle",
         drain.pc \notin {"announce", "cancelClear", "finishClear"},
         drain'.pc \notin {"announce", "cancelClear", "finishClear"},
         drain'.pc = "start" => response_id = 0,
         drain'.pc \in {"deliver", "finishDone", "cancel", "cancelDone"} => response_id # 0
  PROVE  OneOpen' /\ Svc!Protocol!RPStep
BY DEF OneOpen, Svc!Protocol!RPStep, Svc!Protocol!Created, Svc!Protocol!Closed, Svc!Protocol!IsOpen

\* An event that is about no response, or about the one that is open, and closes it not.
LEMMA EmitQuietProtocol ==
  ASSUME ServiceTypes, ResponseIInv, OneOpen, NEW type \in SentTypes, NEW rid \in 0..responses,
         NEW m \in Causes, Svc!Emit(Svc!ServerEvent(type, rid, m)),
         type \in Svc!TurnEvents \/ (rid = response_id /\ Svc!Protocol!IsOpen(sent, rid)),
         type \notin {"created", "done", "cancelled"},
         UNCHANGED <<response_id, responses>>, loop' = "idle",
         drain.pc \notin {"announce", "cancelClear", "finishClear"},
         drain'.pc \in {"text", "audio", "bargein"}
  PROVE  OneOpen' /\ Svc!Protocol!RPStep
<1>1. /\ \A r : Svc!Protocol!Created(sent', r) <=> Svc!Protocol!Created(sent, r)
      /\ \A r : Svc!Protocol!Closed(sent', r) <=> Svc!Protocol!Closed(sent, r)
      /\ Svc!Protocol!RPStep
  <2>1. type \in Svc!TurnEvents \/ type \in Svc!ResponseEvents \ {"created"}
    BY DEF SentTypes, Svc!TurnEvents, Svc!ResponseEvents
  <2>2. QED
    BY <2>1, EmitProtocol
<1>2. \A r : Svc!Protocol!IsOpen(sent', r) <=> Svc!Protocol!IsOpen(sent, r)
  BY <1>1 DEF Svc!Protocol!IsOpen
<1>3. QED
  BY <1>1, <1>2 DEF OneOpen

\* Every step that is not the client's keeps OneOpen and is one of the protocol.
LEMMA ProtocolStep ==
  ASSUME Types, ServiceTypes, ResponseIInv, ProtocolIInv, ServiceMoves, cancels' = 0
  PROVE  OneOpen' /\ Svc!Protocol!RPStep
<1> USE PcOf DEF Svc!None
<1>1. /\ response_id \in 0..responses /\ 0 \in 0..responses /\ responses \in Nat
      /\ OneOpen /\ loop' = "idle"
  BY NoCancel DEF ServiceTypes, ResponseIInv
<1>2. CASE UNCHANGED serviceChange
  BY <1>1, <1>2 DEF serviceChange, serviceState, OneOpen, Svc!Protocol!RPStep, Svc!Protocol!Created,
                    Svc!Protocol!Closed, Svc!Protocol!IsOpen
<1>3. ASSUME NEW m \in Spoken, Svc!TakeText(m)
      PROVE  OneOpen' /\ Svc!Protocol!RPStep
  <2>1. m \in Causes
    BY DEF Causes, Spoken, Reply
  <2>2. CASE Svc!TakeSpeechStarted(m) \/ Svc!TakeSpeechStopped(m)
    <3>1. /\ \E type \in {"speech_started", "speech_stopped"} : Svc!Emit(Svc!ServerEvent(type, 0, m))
          /\ drain.pc = "text" /\ drain'.pc \in {"audio", "bargein"}
          /\ UNCHANGED <<response_id, responses>>
      BY <2>2 DEF Svc!TakeSpeechStarted, Svc!TakeSpeechStopped, Svc!respVars
    <3>2. QED
      BY <1>1, <2>1, <3>1, EmitQuietProtocol DEF Svc!TurnEvents, SentTypes
  <2>3. CASE Svc!TakeTranscript(m)
    <3>1. /\ Svc!Emit(Svc!ServerEvent(m.type, 0, m)) \/ UNCHANGED sent
          /\ m.type \in {"transcript", "partial"} /\ drain.pc = "text" /\ drain'.pc = "audio"
          /\ UNCHANGED <<response_id, responses>>
      BY <2>3 DEF Svc!TakeTranscript, Svc!respVars
    <3>2. /\ m.type \in SentTypes /\ m.type \in Svc!TurnEvents
          /\ m.type \notin {"created", "done", "cancelled"}
      BY <3>1 DEF SentTypes, Svc!TurnEvents
    <3>3. CASE UNCHANGED sent
      BY <1>1, <3>1, <3>3, QuietProtocol
    <3>4. CASE Svc!Emit(Svc!ServerEvent(m.type, 0, m))
      BY <1>1, <2>1, <3>1, <3>2, <3>4, EmitQuietProtocol
    <3>5. QED
      BY <3>1, <3>3, <3>4
  <2>4. CASE Svc!TakeAssistantText(m) \/ Svc!TakeFunctionCall(m)
    <3>1. /\ drain.pc = "text" /\ drain' = Svc!With(IF response_id = 0 THEN "start" ELSE "deliver", m)
          /\ UNCHANGED <<response_id, responses, sent>>
      BY <2>4 DEF Svc!TakeAssistantText, Svc!TakeFunctionCall, Svc!StartOrDeliver, Svc!respVars
    <3>2. QED
      BY <1>1, <3>1, QuietProtocol
  <2>5. CASE Svc!TakeUsage(m)
    BY <1>1, <2>5, QuietProtocol DEF Svc!TakeUsage, Svc!respVars
  <2>6. QED
    BY <1>3, <2>2, <2>3, <2>4, <2>5 DEF Svc!TakeText
<1>4. ASSUME NEW m \in Sound, Svc!TakeAudio(m) \/ Svc!TakeDone(m)
      PROVE  OneOpen' /\ Svc!Protocol!RPStep
  BY <1>1, <1>4, QuietProtocol DEF Svc!TakeAudio, Svc!TakeDone, Svc!StartOrDeliver, Svc!respVars
<1>5. CASE Svc!TimeoutText \/ Svc!TimeoutAudio
  BY <1>1, <1>5, QuietProtocol DEF Svc!TimeoutText, Svc!TimeoutAudio, Svc!respVars
<1>6. CASE Svc!DrainStep
  <2>1. CASE Svc!BargeIn \/ Svc!DrainCancels \/ Svc!Finish
    BY <1>1, <2>1, QuietProtocol DEF Svc!BargeIn, Svc!DrainCancels, Svc!Finish, Svc!respVars,
       OneOpen
  <2>2. CASE Svc!DrainCancelDone \/ Svc!FinishDone
    <3>1. drain.msg \in Causes
      BY <2>2, DrainMessage DEF Causes, Svc!DrainCancelDone, Svc!FinishDone
    <3>2. PICK type \in {"cancelled", "done"} : Svc!Emit(Svc!ServerEvent(type, response_id, drain.msg))
      BY <2>2 DEF Svc!DrainCancelDone, Svc!FinishDone
    <3>3. /\ drain.pc \in {"cancelDone", "finishDone"} /\ drain'.pc \in {"cancelClear", "finishClear"}
          /\ UNCHANGED <<response_id, responses>>
      BY <2>2 DEF Svc!DrainCancelDone, Svc!FinishDone, Svc!respVars
    <3>4. response_id # 0 /\ Svc!Protocol!IsOpen(sent, response_id)
      BY <1>1, <3>3 DEF OneOpen
    <3>5. /\ \A r : Svc!Protocol!Created(sent', r) <=> Svc!Protocol!Created(sent, r)
          /\ \A r : Svc!Protocol!Closed(sent', r) <=> Svc!Protocol!Closed(sent, r) \/ response_id = r
          /\ Svc!Protocol!RPStep
      BY <1>1, <3>1, <3>2, <3>4, EmitProtocol DEF SentTypes, Svc!ResponseEvents
    <3>6. \A r : Svc!Protocol!IsOpen(sent', r) <=> Svc!Protocol!IsOpen(sent, r) /\ response_id # r
      BY <3>5 DEF Svc!Protocol!IsOpen
    <3>7. QED
      BY <1>1, <3>3, <3>4, <3>5, <3>6 DEF OneOpen
  <2>3. CASE Svc!DrainCancelClear \/ Svc!FinishClear
    <3>1. /\ drain.pc \in {"cancelClear", "finishClear"} /\ drain'.pc \in {"text", "audio"}
          /\ response_id' = 0 /\ UNCHANGED <<responses, sent>>
      BY <2>3 DEF Svc!DrainCancelClear, Svc!FinishClear
    <3>2. \A r \in Nat : ~Svc!Protocol!IsOpen(sent, r)
      BY <1>1, <3>1 DEF OneOpen
    <3>3. \A r \in Nat : ~Svc!Protocol!IsOpen(sent', r)
      BY <3>1, <3>2
    <3>4. \A r \in Nat : Svc!Protocol!Created(sent', r) \/ Svc!Protocol!Closed(sent', r)
                            => r \in 1..responses'
      BY <1>1, <3>1 DEF OneOpen
    <3>5. QED
      BY <1>1, <3>1, <3>3, <3>4 DEF OneOpen, Svc!Protocol!RPStep
  <2>4. CASE Svc!StartResponse
    <3>1. /\ drain.pc = "start" /\ drain'.pc = "announce" /\ sent' = sent
          /\ responses' = responses + 1 /\ response_id' = responses + 1
      BY <2>4 DEF Svc!StartResponse
    <3>2. \A r \in Nat : Svc!Protocol!Created(sent', r) \/ Svc!Protocol!Closed(sent', r)
                            => r \in 1..responses
      BY <1>1, <3>1 DEF OneOpen
    <3>3. ~Svc!Protocol!IsOpen(sent, 0)
      BY <1>1 DEF OneOpen, Svc!Protocol!IsOpen
    <3>4. \A r \in Nat : ~Svc!Protocol!IsOpen(sent', r)
      BY <1>1, <3>1, <3>3 DEF OneOpen
    <3>5. QED
      BY <1>1, <3>1, <3>2, <3>4 DEF OneOpen, Svc!Protocol!RPStep
  <2>5. CASE Svc!AnnounceResponse
    <3>1. drain.msg \in Causes
      BY <2>5, DrainMessage DEF Causes, Svc!AnnounceResponse
    <3>2. /\ Svc!Emit(Svc!ServerEvent("created", response_id, drain.msg))
          /\ drain.pc = "announce" /\ drain'.pc = "deliver" /\ UNCHANGED <<response_id, responses>>
      BY <2>5 DEF Svc!AnnounceResponse, Svc!respVars
    <3>3. /\ response_id = responses /\ response_id # 0 /\ response_id \in Nat
          /\ ~Svc!Protocol!Created(sent, response_id) /\ ~Svc!Protocol!Closed(sent, response_id)
          /\ \A r \in Nat : ~Svc!Protocol!IsOpen(sent, r)
      BY <1>1, <3>2 DEF OneOpen, Svc!Protocol!IsOpen
    <3>4. /\ \A r : Svc!Protocol!Created(sent', r) <=> Svc!Protocol!Created(sent, r) \/ response_id = r
          /\ \A r : Svc!Protocol!Closed(sent', r) <=> Svc!Protocol!Closed(sent, r)
          /\ Svc!Protocol!RPStep
      BY <1>1, <3>1, <3>2, <3>3, EmitProtocol DEF SentTypes, Svc!ResponseEvents
    <3>5. \A r : Svc!Protocol!IsOpen(sent', r) <=>
                    Svc!Protocol!IsOpen(sent, r) \/ (response_id = r /\ ~Svc!Protocol!Closed(sent, r))
      BY <3>4 DEF Svc!Protocol!IsOpen
    <3>6. QED
      BY <1>1, <3>2, <3>3, <3>4, <3>5 DEF OneOpen
  <2>6. CASE Svc!Deliver
    <3> DEFINE type == IF "kind" \in DOMAIN drain.msg THEN "audio" ELSE drain.msg.type
    <3>1. drain.msg \in Reply \cup Sound /\ drain.msg \in Causes
      BY <2>6, DrainMessage DEF Causes, Svc!Deliver
    <3>2. type \in SentTypes /\ type \notin {"created", "done", "cancelled"}
      BY <3>1, AudioOrText DEF SentTypes
    <3>3. /\ Svc!Emit(Svc!ServerEvent(type, response_id, drain.msg)) /\ drain.pc = "deliver"
          /\ drain'.pc \in {"text", "audio"} /\ UNCHANGED <<response_id, responses>>
      BY <2>6 DEF Svc!Deliver, Svc!respVars
    <3> HIDE DEF type
    <3>4. Svc!Protocol!IsOpen(sent, response_id)
      BY <1>1, <3>3 DEF OneOpen
    <3>5. QED
      BY <1>1, <3>1, <3>2, <3>3, <3>4, EmitQuietProtocol
  <2>7. QED
    BY <1>6, <2>1, <2>2, <2>3, <2>4, <2>5, <2>6 DEF Svc!DrainStep
<1>7. CASE Svc!LoopStep
  <2>1. Svc!ClientItem
    BY <1>7, NoCancel DEF Svc!LoopStep
  <2>2. UNCHANGED <<response_id, responses, drain, sent>>
    BY <2>1 DEF Svc!ClientItem, Svc!respVars
  <2>3. QED
    BY <1>1, <2>2 DEF OneOpen, Svc!Protocol!RPStep, Svc!Protocol!Created, Svc!Protocol!Closed,
       Svc!Protocol!IsOpen
<1>8. QED
  BY <1>2, <1>3, <1>4, <1>5, <1>6, <1>7 DEF ServiceMoves

\* What the service keeps, whatever the handlers do.
ServiceIInv == ResponseIInv /\ AudioIInv /\ OrphanIInv /\ ProtocolIInv

LEMMA ServiceInvariantInit == SessionInit => ServiceIInv /\ Svc!Protocol!RPInit
<1> SUFFICES ASSUME SessionInit
             PROVE  ServiceIInv /\ Svc!Protocol!RPInit
  OBVIOUS
<1>1. /\ response_id = 0 /\ responses = 0 /\ current_response_turn = 0 /\ loop = "idle"
      /\ sent = <<>> /\ drain.pc = "text"
  BY PcOf DEF SessionInit, Svc!ServiceInit, Svc!None
<1>2. ResponseIInv /\ AudioIInv
  BY <1>1 DEF ResponseIInv, AudioIInv, OpenForTurn, Svc!AudioOfItsTurn
<1>3. \A r : ~Svc!Protocol!Created(sent, r) /\ ~Svc!Protocol!Closed(sent, r)
  BY <1>1 DEF Svc!Protocol!Created, Svc!Protocol!Closed
<1>4. ProtocolIInv
  BY <1>1, <1>3 DEF ProtocolIInv, OneOpen, Svc!Protocol!IsOpen
<1>5. OrphanIInv
  <2>1. cancels = 0 /\ Svc!Orphans(sent) = {} /\ Holding = 0 /\ Cancels = 0
    BY <1>1 DEF SessionInit, PipelineInit, Svc!Orphans, Holding, Cancels
  <2>2. QED
    BY <2>1, FS_EmptySet DEF OrphanIInv
<1>6. QED
  BY <1>1, <1>2, <1>4, <1>5 DEF ServiceIInv, Svc!Protocol!RPInit

LEMMA ServiceInvariantStep ==
  ASSUME SessionIInv, ServiceIInv, [SessionNext]_sessionVars
  PROVE  ServiceIInv' /\ (cancels' = 0 => Svc!Protocol!RPStep)
<1>1. Types /\ ServiceTypes /\ ResponseIInv /\ AudioIInv /\ OrphanIInv /\ ProtocolIInv
  BY DEF SessionIInv, ServiceIInv
<1>2. ServiceMoves
  BY <1>1, SessionMovesService
<1>3. cancels' = 0 => OneOpen' /\ Svc!Protocol!RPStep
  BY <1>1, <1>2, ProtocolStep
<1>4. QED
  BY <1>1, <1>2, <1>3, ResponseStep, AudioStep, OrphanStep DEF ServiceIInv, ProtocolIInv

\* With the client's items and the service's own answers in one queue with the
\* user's turns, and at whatever moment the client cancels, audio is only delivered
\* in the response opened last, which was opened for its turn; a cancel between the
\* test and the delivery takes its id, never its turn.
THEOREM SessionAudioOfItsTurn == SessionSpec => []Svc!AudioOfItsTurn
<1>1. ServiceIInv => Svc!AudioOfItsTurn
  BY DEF ServiceIInv, AudioIInv
<1>2. QED
  BY <1>1, SessionInvariantInit, SessionInvariantStep, ServiceInvariantInit, ServiceInvariantStep,
     PTL DEF SessionSpec

\* However often the client cancels, at most one delta of what the handlers produce
\* is delivered without a response for each cancel.
THEOREM SessionOneDeltaPerCancel == SessionSpec => []Svc!OneDeltaPerCancel
<1>1. SessionIInv /\ ServiceIInv => Svc!OneDeltaPerCancel
  <2> SUFFICES ASSUME SessionIInv, ServiceIInv
               PROVE  Svc!OneDeltaPerCancel
    OBVIOUS
  <2>1. Types /\ ServiceTypes /\ ResponseIInv /\ OrphanIInv
    BY DEF SessionIInv, ServiceIInv
  <2> DEFINE n == Cardinality(Svc!Orphans(sent))
  <2>2. n \in Nat /\ cancels \in Nat /\ Holding \in {0, 1} /\ Cancels \in {0, 1}
    BY <2>1, OrphansCount
  <2>3. n + Holding + Cancels <= cancels
    BY <2>1 DEF OrphanIInv
  <2> HIDE DEF n
  <2>4. n <= cancels
    BY <2>2, <2>3
  <2> DEFINE c == Svc!Cardinality(Svc!Orphans(sent))
  <2>5. c = n
    BY DEF n, Svc!Cardinality, Cardinality
  <2>6. QED
    BY <2>4, <2>5 DEF Svc!OneDeltaPerCancel
<1>2. QED
  BY <1>1, SessionInvariantInit, SessionInvariantStep, ServiceInvariantInit, ServiceInvariantStep,
     PTL DEF SessionSpec

\* Until the client cancels from the other thread, the whole session implements
\* the response protocol: the barge-ins of the user, which cancel on two threads,
\* and the answers that the pipeline had already queued do not break it.
THEOREM SessionImplementsProtocol == SessionSpec => Svc!ImplementsResponseProtocol
<1>1. SessionIInv /\ ServiceIInv /\ [SessionNext]_sessionVars
        => ServiceIInv' /\ [cancels' = 0 => Svc!Protocol!RPStep]_(Svc!serviceVars)
  BY ServiceInvariantStep
<1>2. QED
  BY <1>1, SessionInvariantInit, SessionInvariantStep, ServiceInvariantInit, PTL
  DEF SessionSpec, Svc!ImplementsResponseProtocol

=============================================================================
