---------------------------- MODULE Dialogue_proofs ----------------------------
(***************************************************************************)
(* Proofs about the conversation history (Dialogue.tla), for both handlers *)
(* and any number of prompts, calls and failures.                          *)
(***************************************************************************)
EXTENDS Dialogue, SequenceTheorems, FiniteSetTheorems, TLAPS

Ids == ({"unique"} \X Nat) \cup ({"turn"} \X Nat \X Nat)
Sources == {"vad", "client"}
Msg == [role : {"user"}, turn : Nat, src : Sources] \cup [role : {"assistant"}, turn : Nat]
       \cup [role : {"call"}, id : Ids, round : Nat] \cup [role : {"tool"}, id : Ids]
PromptReq == [kind : {"prompt"}, turn : Nat, src : Sources]
ToolReq == [kind : {"tool"}, turn : Nat, id : Ids, no : Nat]
Request == PromptReq \cup ToolReq
FnCall == [id : Ids, name : {"search_knowledge", "other"}, turn : Nat, round : Nat, no : Nat]

\* What the state is made of.
Types ==
    /\ history \in Seq(Msg)
    /\ llm.pc = "generate" => llm.req \in Request
    /\ text_prompt \in Seq(Request)
    /\ text_out \in Seq(FnCall) /\ drain \in Seq(FnCall) /\ client \subseteq FnCall
    /\ spoken \in Nat /\ seq \in Nat /\ calls \in Nat /\ rounds \in Nat

Issued(m, v, c) == (m.src = "vad" /\ m.turn <= v) \/ (m.src = "client" /\ m.turn <= c)

\* Every prompt is a new one, and on its way it is in one place only.
PromptsDistinct ==
    /\ \A i \in 1..Len(history) : history[i].role = "user" => Issued(history[i], spoken, seq)
    /\ \A i \in 1..Len(text_prompt) : ~IsTool(text_prompt[i]) => Issued(text_prompt[i], spoken, seq)
    /\ \A i, j \in 1..Len(history) : i < j /\ history[i].role = "user" => history[i] # history[j]
    /\ \A i, j \in 1..Len(text_prompt) :
        i < j /\ ~IsTool(text_prompt[i]) => text_prompt[i] # text_prompt[j]
    /\ \A i \in 1..Len(history), j \in 1..Len(text_prompt) :
        ~IsTool(text_prompt[j]) => history[i] # Message(text_prompt[j])

DialogueIInv == Types /\ PromptsDistinct /\ AnswersWithinLimit /\ PromptsOnce

\* A request becomes a message, a prompt one of the user.
LEMMA MessageType ==
  ASSUME NEW req \in Request
  PROVE  /\ Message(req) \in Msg
         /\ IsTool(req) => Message(req).role = "tool"
         /\ ~IsTool(req) => req \in PromptReq /\ Message(req).role = "user"
<1>1. CASE req \in PromptReq
  BY <1>1 DEF PromptReq, Message, IsTool, User, Msg
<1>2. CASE req \in ToolReq
  BY <1>2 DEF ToolReq, Message, IsTool, Output, Msg
<1>3. QED
  BY <1>1, <1>2 DEF Request

\* What an answer adds to the history are no prompts, and only calls if the
\* OpenAI handler returns before the truncation.
LEMMA AddedType ==
  ASSUME NEW req \in Request, NEW made \in Seq(FnCall), NEW text \in BOOLEAN
  PROVE  /\ Added(req, made, text) \in Seq(Msg)
         /\ \A i \in 1..Len(Added(req, made, text)) :
                /\ Added(req, made, text)[i].role # "user"
                /\ backend = "openai" /\ made # <<>> => Added(req, made, text)[i].role = "call"
<1> DEFINE cs == StoredCalls(made)
           out == IF IsTool(req) THEN <<Message(req)>> ELSE <<>>
           ans == IF text THEN <<Answer(req.turn)>> ELSE <<>>
<1>1. Answer(req.turn) \in Msg /\ Answer(req.turn).role = "assistant"
  BY DEF Request, PromptReq, ToolReq, Answer, Msg
<1>2. \A c \in FnCall : CallMsg(c) \in Msg /\ CallMsg(c).role = "call"
  BY DEF FnCall, CallMsg, Msg
<1>3. /\ cs \in Seq(Msg) /\ Len(cs) = Len(made)
      /\ \A i \in 1..Len(cs) : cs[i].role = "call"
  BY <1>2 DEF StoredCalls
<1>4. out \in Seq(Msg) /\ \A i \in 1..Len(out) : out[i].role = "tool"
  BY MessageType
<1>5. ans \in Seq(Msg) /\ \A i \in 1..Len(ans) : ans[i].role = "assistant"
  BY <1>1
<1>6. cs = StoredCalls(made)
  OBVIOUS
<1>7. backend # "openai" => Added(req, made, text) = cs \o out \o ans
  BY DEF Added
<1> HIDE DEF cs, out, ans
<1>8. CASE backend = "openai" /\ made # <<>>
  <2>1. Added(req, made, text) = cs
    BY <1>6, <1>8 DEF Added
  <2>2. QED
    BY <1>3, <2>1
<1>9. CASE backend = "openai" /\ made = <<>>
  <2> DEFINE one == <<Answer(req.turn)>>
  <2>1. Added(req, made, text) = one
    BY <1>9 DEF Added
  <2>2. one \in Seq(Msg) /\ \A i \in 1..Len(one) : one[i].role # "user"
    BY <1>1
  <2> HIDE DEF one
  <2>3. QED
    BY <1>9, <2>1, <2>2
<1>10. CASE backend # "openai"
  <2> DEFINE both == cs \o out
  <2>1. /\ both \in Seq(Msg)
        /\ \A i \in 1..Len(both) : both[i].role # "user"
    BY <1>3, <1>4, ConcatProperties
  <2> HIDE DEF both
  <2>2. /\ both \o ans \in Seq(Msg)
        /\ \A i \in 1..Len(both \o ans) : (both \o ans)[i].role # "user"
    <3>1. /\ both \o ans \in Seq(Msg)
          /\ Len(both \o ans) = Len(both) + Len(ans)
      BY <1>5, <2>1, ConcatProperties
    <3>2. ASSUME NEW i \in 1..Len(both \o ans)
          PROVE  (both \o ans)[i].role # "user"
      <4>1. CASE i <= Len(both)
        BY <1>5, <2>1, <3>1, <4>1, ConcatProperties
      <4>2. CASE i > Len(both)
        <5>1. (both \o ans)[i] = ans[i - Len(both)] /\ i - Len(both) \in 1..Len(ans)
          BY <1>5, <2>1, <3>1, <4>2, ConcatProperties
        <5>2. QED
          BY <1>5, <5>1
      <4>3. QED
        BY <2>1, <4>1, <4>2
    <3>3. QED
      BY <3>1, <3>2
  <2>3. Added(req, made, text) = both \o ans
    BY <1>7, <1>10 DEF both
  <2>4. QED
    BY <1>10, <2>2, <2>3
<1>11. QED
  BY <1>8, <1>9, <1>10

\* Truncation keeps the newest messages, and no more than max_history.
LEMMA TruncatedProperties ==
  ASSUME NEW h \in Seq(Msg)
  PROVE  /\ Truncated(h) \in Seq(Msg)
         /\ Len(Truncated(h)) <= MaxHistory
         /\ \E k \in Nat : /\ Len(Truncated(h)) = Len(h) - k
                           /\ \A i \in 1..Len(Truncated(h)) : Truncated(h)[i] = h[i + k]
<1>0. MaxHistory \in Nat \ {0} /\ Len(h) \in Nat
  BY DialogueAssumption
<1>1. CASE Len(h) > MaxHistory
  <2> DEFINE k == Len(h) - MaxHistory
  <2>1. k \in Nat /\ Truncated(h) = SubSeq(h, k + 1, Len(h))
    BY <1>0, <1>1 DEF Truncated
  <2>2. \A i \in (k + 1)..Len(h) : h[i] \in Msg
    BY <1>0, <2>1
  <2>3. /\ Truncated(h) \in Seq(Msg)
        /\ Len(Truncated(h)) = MaxHistory
        /\ \A i \in 1..MaxHistory : Truncated(h)[i] = h[k + 1 + i - 1]
    BY <1>0, <1>1, <2>1, <2>2, SubSeqProperties
  <2>4. Len(Truncated(h)) = Len(h) - k
    BY <1>0, <2>3
  <2>5. \A i \in 1..Len(Truncated(h)) : Truncated(h)[i] = h[i + k]
    BY <1>0, <2>1, <2>3
  <2>6. Truncated(h) \in Seq(Msg) /\ Len(Truncated(h)) <= MaxHistory
    BY <1>0, <2>3
  <2>7. k \in Nat
    BY <2>1
  <2> HIDE DEF k
  <2>8. \E l \in Nat : /\ Len(Truncated(h)) = Len(h) - l
                       /\ \A i \in 1..Len(Truncated(h)) : Truncated(h)[i] = h[i + l]
    <3>1. WITNESS k \in Nat
    <3>2. QED
      BY <2>4, <2>5
  <2>9. QED
    BY <2>6, <2>8
<1>2. CASE Len(h) <= MaxHistory
  <2>1. Truncated(h) = h
    BY <1>0, <1>2 DEF Truncated
  <2>2. \A i \in 1..Len(h) : h[i] = h[i + 0]
    BY <1>0
  <2>3. QED
    BY <1>0, <1>2, <2>1, <2>2
<1>3. QED
  BY <1>0, <1>1, <1>2

\* Two prompts with the same message are the same.
LEMMA MessageInjective ==
  ASSUME NEW p \in PromptReq, NEW q \in PromptReq, Message(p) = Message(q)
  PROVE  p = q
<1>1. /\ Message(p).turn = p.turn /\ Message(p).src = p.src
      /\ Message(q).turn = q.turn /\ Message(q).src = q.src
  BY DEF PromptReq, Message, IsTool, User
<1>2. p.turn = q.turn /\ p.src = q.src
  BY <1>1
<1>3. QED
  BY <1>2 DEF PromptReq

LEMMA MessageIssued ==
  ASSUME NEW p \in PromptReq
  PROVE  Issued(Message(p), spoken, seq) <=> Issued(p, spoken, seq)
BY DEF PromptReq, Message, IsTool, User, Issued

\* A request is put into the queue: the output of a call, or a new prompt.
LEMMA Enqueue ==
  ASSUME Types, PromptsDistinct, NEW req \in Request,
         text_prompt' = Append(text_prompt, req), UNCHANGED history,
         spoken' \in Nat, spoken' >= spoken, seq' \in Nat, seq' >= seq,
         ~IsTool(req) => Issued(req, spoken', seq') /\ ~Issued(req, spoken, seq)
  PROVE  PromptsDistinct' /\ text_prompt' \in Seq(Request)
<1> DEFINE n == Len(text_prompt)
<1>1. /\ n \in Nat /\ Len(text_prompt') = n + 1
      /\ text_prompt' \in Seq(Request)
      /\ \A i \in 1..n : text_prompt'[i] = text_prompt[i] /\ text_prompt[i] \in Request
      /\ text_prompt'[n + 1] = req
  BY DEF Types
<1>2. \A i \in 1..Len(history) : history[i] \in Msg
  BY DEF Types
<1>3. \A i \in 1..Len(history) : history[i].role = "user" => Issued(history[i], spoken', seq')
  <2> SUFFICES ASSUME NEW i \in 1..Len(history), history[i].role = "user"
               PROVE  Issued(history[i], spoken', seq')
    OBVIOUS
  <2>1. history[i].turn \in Nat
    BY <1>2 DEF Msg
  <2>2. Issued(history[i], spoken, seq)
    BY DEF PromptsDistinct
  <2>3. QED
    BY <2>1, <2>2 DEF Issued, Types
<1>4. \A i \in 1..(n + 1) : ~IsTool(text_prompt'[i]) => Issued(text_prompt'[i], spoken', seq')
  <2> SUFFICES ASSUME NEW i \in 1..(n + 1), ~IsTool(text_prompt'[i])
               PROVE  Issued(text_prompt'[i], spoken', seq')
    OBVIOUS
  <2>1. CASE i = n + 1
    BY <1>1, <2>1 DEF Issued
  <2>2. CASE i # n + 1
    <3>1. text_prompt'[i] = text_prompt[i] /\ i \in 1..n /\ text_prompt[i] \in Request
      BY <1>1, <2>2
    <3>2. Issued(text_prompt[i], spoken, seq)
      BY <3>1 DEF PromptsDistinct
    <3>3. text_prompt[i].turn \in Nat
      BY <3>1 DEF Request, PromptReq, ToolReq
    <3>4. QED
      BY <3>1, <3>2, <3>3 DEF Issued, Types
  <2>3. QED
    BY <2>1, <2>2
<1>5. \A i, j \in 1..(n + 1) :
        i < j /\ ~IsTool(text_prompt'[i]) => text_prompt'[i] # text_prompt'[j]
  <2> SUFFICES ASSUME NEW i \in 1..(n + 1), NEW j \in 1..(n + 1), i < j,
                      ~IsTool(text_prompt'[i])
               PROVE  text_prompt'[i] # text_prompt'[j]
    OBVIOUS
  <2>1. i \in 1..n /\ text_prompt'[i] = text_prompt[i]
    BY <1>1
  <2>2. CASE j = n + 1
    <3>1. Issued(text_prompt[i], spoken, seq)
      BY <2>1 DEF PromptsDistinct
    <3>2. QED
      BY <1>1, <2>1, <2>2, <3>1
  <2>3. CASE j # n + 1
    BY <1>1, <2>1, <2>3 DEF PromptsDistinct
  <2>4. QED
    BY <2>2, <2>3
<1>6. \A i \in 1..Len(history), j \in 1..(n + 1) :
        ~IsTool(text_prompt'[j]) => history[i] # Message(text_prompt'[j])
  <2> SUFFICES ASSUME NEW i \in 1..Len(history), NEW j \in 1..(n + 1),
                      ~IsTool(text_prompt'[j])
               PROVE  history[i] # Message(text_prompt'[j])
    OBVIOUS
  <2>1. CASE j = n + 1
    <3>1. ~Issued(req, spoken, seq) /\ req \in PromptReq /\ Message(req).role = "user"
      BY <1>1, <2>1, MessageType
    <3>2. ~Issued(Message(req), spoken, seq)
      BY <3>1, MessageIssued
    <3>3. history[i].role = "user" => Issued(history[i], spoken, seq)
      BY DEF PromptsDistinct
    <3>4. QED
      BY <1>1, <2>1, <3>1, <3>2, <3>3
  <2>2. CASE j # n + 1
    BY <1>1, <2>2 DEF PromptsDistinct
  <2>3. QED
    BY <2>1, <2>2
<1>7. \A i, j \in 1..Len(history) : i < j /\ history[i].role = "user" => history[i] # history[j]
  BY DEF PromptsDistinct
<1>8. history' = history /\ Len(text_prompt') = n + 1 /\ text_prompt' \in Seq(Request)
  BY <1>1
<1> HIDE DEF n
<1>9. QED
  BY <1>3, <1>4, <1>5, <1>6, <1>7, <1>8, Zenon DEF PromptsDistinct

\* Requests that come from outside or from the drain thread.
LEMMA EnqueueKeeps ==
  ASSUME DialogueIInv,
         Speak \/ Type \/ DrainSearched \/ (\E call \in client : ClientAnswers(call))
  PROVE  DialogueIInv'
<1> USE DEF DialogueIInv
<1>1. /\ PromptsDistinct' /\ text_prompt' \in Seq(Request)
      /\ spoken' \in Nat /\ seq' \in Nat
      /\ drain' \in Seq(FnCall) /\ client' \subseteq FnCall
      /\ UNCHANGED <<backend, history, llm, text_out, calls, rounds>>
  <2>1. CASE Speak
    <3> DEFINE req == Prompt(spoken + 1, "vad")
    <3>1. req \in Request /\ ~Issued(req, spoken, seq) /\ Issued(req, spoken + 1, seq)
      BY DEF Prompt, Request, PromptReq, Sources, Issued, Types
    <3>2. text_prompt' = Append(text_prompt, req) /\ spoken' = spoken + 1 /\ seq' = seq
      BY <2>1 DEF Speak, counters
    <3>3. UNCHANGED <<backend, history, llm, text_out, drain, client, calls, rounds>>
      BY <2>1 DEF Speak, llmVars
    <3> HIDE DEF req
    <3>4. PromptsDistinct' /\ text_prompt' \in Seq(Request)
      BY <3>1, <3>2, <3>3, Enqueue DEF Types
    <3>5. QED
      BY <3>2, <3>3, <3>4 DEF Types
  <2>2. CASE Type
    <3> DEFINE req == Prompt(seq + 1, "client")
    <3>1. req \in Request /\ ~Issued(req, spoken, seq) /\ Issued(req, spoken, seq + 1)
      BY DEF Prompt, Request, PromptReq, Sources, Issued, Types
    <3>2. text_prompt' = Append(text_prompt, req) /\ spoken' = spoken /\ seq' = seq + 1
      BY <2>2 DEF Type
    <3>3. UNCHANGED <<backend, history, llm, text_out, drain, client, calls, rounds>>
      BY <2>2 DEF Type, llmVars
    <3> HIDE DEF req
    <3>4. PromptsDistinct' /\ text_prompt' \in Seq(Request)
      BY <3>1, <3>2, <3>3, Enqueue DEF Types
    <3>5. QED
      BY <3>2, <3>3, <3>4 DEF Types
  <2>3. ASSUME NEW turn \in Nat, NEW call \in FnCall
        PROVE  ToolOutput(turn, call) \in Request /\ IsTool(ToolOutput(turn, call))
    BY DEF ToolOutput, FnCall, Request, ToolReq, IsTool
  <2>4. CASE \E call \in client : ClientAnswers(call)
    <3>1. PICK call \in client : ClientAnswers(call)
      BY <2>4
    <3> DEFINE req == ToolOutput(seq + 1, call)
    <3>2. req \in Request /\ IsTool(req)
      BY <2>3 DEF Types
    <3>3. text_prompt' = Append(text_prompt, req) /\ spoken' = spoken /\ seq' = seq + 1
      BY <3>1 DEF ClientAnswers
    <3>4. /\ UNCHANGED <<backend, history, llm, text_out, drain, calls, rounds>>
          /\ client' \subseteq client
      BY <3>1 DEF ClientAnswers, llmVars
    <3> HIDE DEF req
    <3>5. PromptsDistinct' /\ text_prompt' \in Seq(Request)
      BY <3>2, <3>3, <3>4, Enqueue DEF Types
    <3>6. QED
      BY <3>3, <3>4, <3>5 DEF Types
  <2>5. CASE DrainSearched
    <3> DEFINE call == Head(drain)
               req == ToolOutput(call.turn, call)
    <3>1. call \in FnCall
      BY <2>5 DEF DrainSearched, Types
    <3>2. req \in Request /\ IsTool(req)
      BY <2>3, <3>1 DEF FnCall
    <3>3. text_prompt' = Append(text_prompt, req) /\ drain' = <<>>
      BY <2>5 DEF DrainSearched, WithOutput, TurnOf
    <3>4. UNCHANGED <<backend, history, llm, text_out, client, spoken, seq, calls, rounds>>
      BY <2>5 DEF DrainSearched, llmVars
    <3> HIDE DEF req
    <3>5. PromptsDistinct' /\ text_prompt' \in Seq(Request)
      BY <3>2, <3>3, <3>4, Enqueue DEF Types
    <3>6. QED
      BY <3>3, <3>4, <3>5 DEF Types
  <2>6. QED
    BY <2>1, <2>2, <2>4, <2>5
<1>2. Types'
  BY <1>1 DEF Types
<1>3. AnswersWithinLimit' /\ PromptsOnce'
  BY <1>1 DEF AnswersWithinLimit, PromptsOnce
<1>4. QED
  BY <1>1, <1>2, <1>3

\* The LLM handler takes a request.
LEMMA TakeKeeps ==
  ASSUME DialogueIInv, LLMTake
  PROVE  DialogueIInv'
<1> DEFINE req == Head(text_prompt)
           m == Message(req)
           n == Len(history)
           q == Len(text_prompt)
<1> USE DEF DialogueIInv
<1>1. /\ q \in Nat /\ q >= 1
      /\ req = text_prompt[1] /\ req \in Request
      /\ text_prompt' \in Seq(Request) /\ Len(text_prompt') = q - 1
      /\ \A i \in 1..(q - 1) : text_prompt'[i] = text_prompt[i + 1]
  BY DEF LLMTake, Types
<1>2. /\ n \in Nat
      /\ m \in Msg
      /\ IsTool(req) => m.role = "tool"
      /\ ~IsTool(req) => req \in PromptReq /\ m.role = "user"
  BY <1>1, MessageType DEF Types
<1>3. /\ history' = IF IsTool(req) THEN history ELSE Append(history, m)
      /\ llm' = [pc |-> "generate", req |-> req, sent |-> Messages(req)]
      /\ rounds' = rounds + 1
      /\ UNCHANGED <<backend, text_out, drain, client, spoken, seq, calls>>
  BY DEF LLMTake, Stored
<1>4. /\ history' \in Seq(Msg)
      /\ IsTool(req) => history' = history
      /\ ~IsTool(req) => /\ Len(history') = n + 1 /\ history'[n + 1] = m
                         /\ \A i \in 1..n : history'[i] = history[i]
  BY <1>2, <1>3 DEF Types
<1>5. ~IsTool(req) => Issued(m, spoken, seq) /\ \A i \in 1..n : history[i] # m
  BY <1>1, <1>2, MessageIssued DEF PromptsDistinct
<1>6. \A j \in 1..(q - 1) : ~IsTool(req) /\ ~IsTool(text_prompt[j + 1]) =>
                                m # Message(text_prompt[j + 1])
  <2> SUFFICES ASSUME NEW j \in 1..(q - 1), ~IsTool(req), ~IsTool(text_prompt[j + 1])
               PROVE  m # Message(text_prompt[j + 1])
    OBVIOUS
  <2>1. text_prompt[1] # text_prompt[j + 1]
    BY <1>1 DEF PromptsDistinct
  <2>2. text_prompt[j + 1] \in PromptReq
    BY <1>1, MessageType DEF Types
  <2>3. QED
    BY <1>1, <1>2, <2>1, <2>2, MessageInjective
<1> HIDE DEF req, m, q
<1>7. PromptsDistinct'
  <2>1. \A i \in 1..Len(history') : history'[i].role = "user" => Issued(history'[i], spoken', seq')
    BY <1>2, <1>3, <1>4, <1>5 DEF PromptsDistinct
  <2>2. \A i \in 1..(q - 1) :
            ~IsTool(text_prompt'[i]) => Issued(text_prompt'[i], spoken', seq')
    BY <1>1, <1>3 DEF PromptsDistinct, q
  <2>3. \A i, j \in 1..Len(history') :
            i < j /\ history'[i].role = "user" => history'[i] # history'[j]
    BY <1>2, <1>4, <1>5 DEF PromptsDistinct
  <2>4. \A i, j \in 1..(q - 1) :
            i < j /\ ~IsTool(text_prompt'[i]) => text_prompt'[i] # text_prompt'[j]
    BY <1>1 DEF PromptsDistinct, q
  <2>5. \A i \in 1..Len(history'), j \in 1..(q - 1) :
            ~IsTool(text_prompt'[j]) => history'[i] # Message(text_prompt'[j])
    <3> SUFFICES ASSUME NEW i \in 1..Len(history'), NEW j \in 1..(q - 1),
                        ~IsTool(text_prompt'[j])
                 PROVE  history'[i] # Message(text_prompt'[j])
      OBVIOUS
    <3>1. text_prompt'[j] = text_prompt[j + 1] /\ j + 1 \in 1..q
      BY <1>1
    <3>2. CASE i \in 1..n
      BY <1>4, <3>1, <3>2 DEF PromptsDistinct, q
    <3>3. CASE i \notin 1..n
      BY <1>2, <1>4, <1>6, <3>1, <3>3
    <3>4. QED
      BY <3>2, <3>3
  <2>6. QED
    BY <1>1, <2>1, <2>2, <2>3, <2>4, <2>5 DEF PromptsDistinct
<1>8. AnswersWithinLimit'
  BY <1>2, <1>4 DEF AnswersWithinLimit
<1>9. PromptsOnce'
  <2> DEFINE sent == Messages(req)
  <2> SUFFICES ASSUME NEW i \in 1..Len(sent), NEW j \in 1..Len(sent),
                      i < j, sent[i] = sent[j], sent[i].role = "user"
               PROVE  backend = "openai" /\ j = Len(sent) /\ i = j - 1
    BY <1>3 DEF PromptsOnce
  <2>1. \A k, l \in 1..n : k < l /\ history[k].role = "user" => history[k] # history[l]
    BY DEF PromptsDistinct
  <2>2. CASE backend = "openai" /\ ~IsTool(req)
    <3>1. sent = Append(Append(history, m), m)
      BY <2>2 DEF Messages, Stored, m
    <3>2. /\ Len(sent) = n + 2 /\ sent[n + 1] = m /\ sent[n + 2] = m
          /\ \A k \in 1..n : sent[k] = history[k]
      BY <1>2, <3>1 DEF Types
    <3>3. QED
      BY <1>2, <1>5, <2>1, <2>2, <3>2
  <2>3. CASE ~(backend = "openai" /\ ~IsTool(req))
    <3>1. sent = Append(history, m)
      BY <2>3 DEF Messages, Stored, m
    <3>2. /\ Len(sent) = n + 1 /\ sent[n + 1] = m
          /\ \A k \in 1..n : sent[k] = history[k]
      BY <1>2, <3>1 DEF Types
    <3>3. QED
      BY <1>2, <1>5, <2>1, <3>2
  <2>4. QED
    BY <2>2, <2>3
<1>10. Types'
  BY <1>1, <1>3, <1>4 DEF Types
<1>11. QED
  BY <1>7, <1>8, <1>9, <1>10

\* What the history is after an answer: the end of what it was and of what has
\* been added, no longer than max_history unless calls came last.
LEMMA HistoryAfterProperties ==
  ASSUME history \in Seq(Msg), NEW req \in Request, NEW made \in Seq(FnCall), NEW text \in BOOLEAN
  PROVE  LET added == Added(req, made, text)
             h == HistoryAfter(req, made, text)
             n == Len(history)
         IN /\ h \in Seq(Msg)
            /\ \E k \in Nat :
                /\ Len(h) = n + Len(added) - k
                /\ \A i \in 1..Len(h) :
                    h[i] = IF i + k <= n THEN history[i + k] ELSE added[i + k - n]
                /\ \/ Len(h) <= MaxHistory
                   \/ k = 0 /\ \A i \in 1..Len(added) : added[i].role = "call"
<1> DEFINE added == Added(req, made, text)
           all == history \o added
           h == HistoryAfter(req, made, text)
           n == Len(history)
<1>1. /\ added \in Seq(Msg) /\ Len(added) \in Nat /\ n \in Nat
      /\ backend = "openai" /\ made # <<>> => \A i \in 1..Len(added) : added[i].role = "call"
  BY AddedType
<1>2. h = IF backend = "openai" /\ made # <<>> THEN all ELSE Truncated(all)
  BY DEF HistoryAfter
<1> HIDE DEF added, h
<1>3. /\ all \in Seq(Msg) /\ Len(all) = n + Len(added)
      /\ \A i \in 1..(n + Len(added)) : all[i] = IF i <= n THEN history[i] ELSE added[i - n]
  BY <1>1, ConcatProperties
<1> HIDE DEF all
<1>4. CASE backend = "openai" /\ made # <<>>
  <2>1. /\ h \in Seq(Msg) /\ Len(h) = n + Len(added) - 0
        /\ \A i \in 1..Len(h) : h[i] = IF i + 0 <= n THEN history[i + 0] ELSE added[i + 0 - n]
    BY <1>1, <1>2, <1>3, <1>4
  <2>2. \A i \in 1..Len(added) : added[i].role = "call"
    BY <1>1, <1>4
  <2>3. QED
    BY <2>1, <2>2 DEF added, h
<1>5. CASE ~(backend = "openai" /\ made # <<>>)
  <2>1. h = Truncated(all)
    BY <1>2, <1>5
  <2>2. /\ h \in Seq(Msg) /\ Len(h) <= MaxHistory /\ Len(h) \in Nat
    BY <1>3, <2>1, TruncatedProperties
  <2>3. PICK k \in Nat : Len(h) = Len(all) - k /\ \A i \in 1..Len(h) : h[i] = all[i + k]
    BY <1>3, <2>1, TruncatedProperties
  <2>4. \A i \in 1..Len(h) : h[i] = IF i + k <= n THEN history[i + k] ELSE added[i + k - n]
    BY <1>1, <1>3, <2>2, <2>3
  <2>5. Len(h) = n + Len(added) - k
    BY <1>3, <2>3
  <2>6. QED
    BY <2>2, <2>4, <2>5 DEF added, h
<1>6. QED
  BY <1>4, <1>5

\* The answer of the model.
LEMMA FinishKeeps ==
  ASSUME DialogueIInv, LLMFinish
  PROVE  DialogueIInv'
<1> USE DEF DialogueIInv
<1>1. PICK c \in 0..2, given \in BOOLEAN, text \in BOOLEAN, name \in {"search_knowledge", "other"} :
        /\ calls + c <= MaxCalls
        /\ backend = "transformers" /\ c > 0 => text
        /\ LET made == [i \in 1..Found(c) |->
                           [id |-> CallId(llm.req.turn, i, given), name |-> name,
                            turn |-> llm.req.turn, round |-> rounds, no |-> calls + i]]
           IN /\ text_out' = text_out \o made
              /\ history' = HistoryAfter(llm.req, made, text)
              /\ asked' = IF name = "search_knowledge"
                          THEN asked \cup {call.no : call \in ToSet(made)} ELSE asked
              /\ cut' = cut \cup (CallIds(history \o Added(llm.req, made, text)) \ CallIds(history'))
              /\ calls' = calls + Len(made)
  BY Zenon DEF LLMFinish
<1> DEFINE made == [i \in 1..Found(c) |->
                        [id |-> CallId(llm.req.turn, i, given), name |-> name,
                         turn |-> llm.req.turn, round |-> rounds, no |-> calls + i]]
           added == Added(llm.req, made, text)
           n == Len(history)
<1>2. llm.pc = "generate" /\ llm.req \in Request /\ llm.req.turn \in Nat
  BY DEF LLMFinish, Types, Request, PromptReq, ToolReq
<1>3. made \in Seq(FnCall) /\ Len(made) \in Nat
  <2>1. Found(c) \in Nat
    BY DEF Found
  <2>2. \A i \in 1..Found(c) : CallId(llm.req.turn, i, given) \in Ids
    BY <1>2, <2>1 DEF CallId, Ids, Types
  <2>3. \A i \in 1..Found(c) : made[i] \in FnCall
    BY <1>2, <2>1, <2>2 DEF FnCall, Types
  <2>4. QED
    BY <2>1, <2>3
<1>4. /\ text_out' = text_out \o made /\ calls' = calls + Len(made)
      /\ history' = HistoryAfter(llm.req, made, text)
      /\ UNCHANGED <<backend, text_prompt, drain, client, spoken, seq, rounds>>
      /\ llm' = [pc |-> "idle"]
  BY <1>1 DEF LLMFinish
<1> HIDE DEF made
<1>5. /\ added \in Seq(Msg) /\ Len(added) \in Nat /\ n \in Nat
      /\ \A i \in 1..Len(added) : added[i].role # "user"
  BY <1>2, <1>3, AddedType DEF Types
<1>6. /\ history' \in Seq(Msg)
      /\ \E k \in Nat :
            /\ Len(history') = n + Len(added) - k
            /\ \A i \in 1..Len(history') :
                history'[i] = IF i + k <= n THEN history[i + k] ELSE added[i + k - n]
            /\ \/ Len(history') <= MaxHistory
               \/ k = 0 /\ \A i \in 1..Len(added) : added[i].role = "call"
  BY <1>2, <1>3, <1>4, HistoryAfterProperties DEF Types
<1> HIDE DEF added
<1>7. PICK k \in Nat :
        /\ Len(history') = n + Len(added) - k
        /\ \A i \in 1..Len(history') :
            history'[i] = IF i + k <= n THEN history[i + k] ELSE added[i + k - n]
        /\ \/ Len(history') <= MaxHistory
           \/ k = 0 /\ \A i \in 1..Len(added) : added[i].role = "call"
  BY <1>6
<1>8. Len(history') \in Nat
  BY <1>6
<1>9. \A i \in 1..Len(history') : i + k > n =>
        i + k - n \in 1..Len(added) /\ history'[i] = added[i + k - n]
  BY <1>5, <1>7, <1>8
<1>10. \A i \in 1..Len(history') : history'[i].role = "user" =>
        i + k \in 1..n /\ history'[i] = history[i + k]
  <2> SUFFICES ASSUME NEW i \in 1..Len(history'), history'[i].role = "user"
               PROVE  i + k \in 1..n /\ history'[i] = history[i + k]
    OBVIOUS
  <2>1. i + k <= n
    <3>1. ~(i + k > n)
      BY <1>5, <1>9
    <3>2. QED
      BY <1>5, <1>7, <1>8, <3>1
  <2>2. i + k \in 1..n
    BY <1>5, <1>7, <1>8, <2>1
  <2>3. history'[i] = history[i + k]
    BY <1>7, <2>1
  <2>4. QED
    BY <2>2, <2>3
<1>11. PromptsDistinct'
  <2>1. \A i \in 1..Len(history') : history'[i].role = "user" => Issued(history'[i], spoken, seq)
    BY <1>10 DEF PromptsDistinct
  <2>2. \A i, j \in 1..Len(history') :
            i < j /\ history'[i].role = "user" => history'[i] # history'[j]
    <3> SUFFICES ASSUME NEW i \in 1..Len(history'), NEW j \in 1..Len(history'), i < j,
                        history'[i].role = "user", history'[j].role = "user"
                 PROVE  history'[i] # history'[j]
      OBVIOUS
    <3>1. /\ i + k \in 1..n /\ history'[i] = history[i + k]
          /\ j + k \in 1..n /\ history'[j] = history[j + k]
          /\ i + k < j + k
      BY <1>8, <1>10
    <3>2. history[i + k] # history[j + k]
      BY <3>1 DEF PromptsDistinct
    <3>3. QED
      BY <3>1, <3>2
  <2>3. \A i \in 1..Len(history'), j \in 1..Len(text_prompt) :
            ~IsTool(text_prompt[j]) => history'[i] # Message(text_prompt[j])
    <3> SUFFICES ASSUME NEW i \in 1..Len(history'), NEW j \in 1..Len(text_prompt),
                        ~IsTool(text_prompt[j]), history'[i] = Message(text_prompt[j])
                 PROVE  FALSE
      OBVIOUS
    <3>1. history'[i].role = "user"
      BY MessageType DEF Types
    <3>2. i + k \in 1..n /\ history'[i] = history[i + k]
      BY <1>10, <3>1
    <3>3. QED
      BY <3>2 DEF PromptsDistinct
  <2>4. QED
    BY <1>4, <2>1, <2>2, <2>3 DEF PromptsDistinct
<1>12. AnswersWithinLimit'
  <2>1. MaxHistory \in Nat
    BY DialogueAssumption
  <2>2. SUFFICES ASSUME NEW i \in 1..Len(history'), history'[i].role = "assistant"
                 PROVE  i <= MaxHistory
    BY DEF AnswersWithinLimit
  <2>3. CASE Len(history') <= MaxHistory
    BY <1>8, <2>1, <2>3
  <2>4. CASE k = 0 /\ \A l \in 1..Len(added) : added[l].role = "call"
    <3>1. i \in 1..n /\ history[i].role = "assistant"
      BY <1>5, <1>7, <1>8, <1>9, <2>2, <2>4
    <3>2. QED
      BY <3>1 DEF AnswersWithinLimit
  <2>5. QED
    BY <1>7, <2>3, <2>4
<1>13. PromptsOnce'
  BY <1>4 DEF PromptsOnce
<1>14. Types'
  <2>1. text_out' \in Seq(FnCall)
    BY <1>3, <1>4 DEF Types
  <2>2. calls' \in Nat
    BY <1>3, <1>4 DEF Types
  <2>3. QED
    BY <1>4, <1>6, <2>1, <2>2 DEF Types
<1>15. QED
  BY <1>11, <1>12, <1>13, <1>14

LEMMA OthersKeep ==
  ASSUME DialogueIInv, LLMFails \/ DrainTake \/ UNCHANGED dialogueVars
  PROVE  DialogueIInv'
<1> USE DEF DialogueIInv
<1>1. /\ UNCHANGED <<backend, history, text_prompt, spoken, seq, calls, rounds>>
      /\ llm' = llm \/ llm' = [pc |-> "idle"] \/ llm' = [pc |-> "stuck"]
      /\ text_out' \in Seq(FnCall) /\ drain' \in Seq(FnCall) /\ client' \subseteq FnCall
  <2>1. CASE LLMFails
    BY <2>1 DEF LLMFails, Types
  <2>2. CASE DrainTake
    <3>1. Head(text_out) \in FnCall /\ Tail(text_out) \in Seq(FnCall)
      BY <2>2 DEF DrainTake, Types
    <3>2. <<Head(text_out)>> \in Seq(FnCall)
      BY <3>1
    <3>3. /\ drain' = <<Head(text_out)>> \/ drain' = drain
          /\ client' = client \cup {Head(text_out)} \/ client' = client
          /\ text_out' = Tail(text_out)
      BY <2>2 DEF DrainTake
    <3>4. UNCHANGED <<backend, history, llm, text_prompt, spoken, seq, calls, rounds>>
      BY <2>2 DEF DrainTake, llmVars, counters
    <3>5. drain' \in Seq(FnCall) /\ client' \subseteq FnCall
      BY <3>1, <3>2, <3>3 DEF Types
    <3>6. QED
      BY <3>1, <3>3, <3>4, <3>5
  <2>3. CASE UNCHANGED dialogueVars
    BY <2>3 DEF dialogueVars, llmVars, counters, Types
  <2>4. QED
    BY <2>1, <2>2, <2>3
<1>2. PromptsDistinct' /\ AnswersWithinLimit'
  BY <1>1 DEF PromptsDistinct, AnswersWithinLimit
<1>3. PromptsOnce'
  BY <1>1 DEF PromptsOnce
<1>4. Types'
  BY <1>1 DEF Types
<1>5. QED
  BY <1>2, <1>3, <1>4

\* The invariant of the dialogue.
LEMMA DialogueInvariant == DialogueSpec => []DialogueIInv
<1>1. DialogueInit => DialogueIInv
  BY DEF DialogueInit, DialogueIInv, Types, PromptsDistinct, AnswersWithinLimit, PromptsOnce
<1>2. DialogueIInv /\ [DialogueNext]_dialogueVars => DialogueIInv'
  BY EnqueueKeeps, TakeKeeps, FinishKeeps, OthersKeep DEF DialogueNext, LLMStep, DrainStep
<1>3. QED
  BY <1>1, <1>2, PTL DEF DialogueSpec

\* max_history bounds the conversation up to the last answer, for any value of
\* it and whatever the models call: calls go beyond it only after that answer.
THEOREM DialogueAnswersWithinLimit == DialogueSpec => []AnswersWithinLimit
<1>1. DialogueIInv => AnswersWithinLimit
  BY DEF DialogueIInv
<1>2. QED
  BY <1>1, DialogueInvariant, PTL

\* No prompt is ever told twice, except by the OpenAI handler in the request
\* that answers it.
THEOREM DialoguePromptsOnce == DialogueSpec => []PromptsOnce
<1>1. DialogueIInv => PromptsOnce
  BY DEF DialogueIInv
<1>2. QED
  BY <1>1, DialogueInvariant, PTL

-----------------------------------------------------------------------------
\* The calls on their way to their execution, and the requests on their way to
\* an answer.
Pending == ToSet(text_out) \cup ToSet(drain) \cup client
Waiting == ToSet(text_prompt) \cup (IF llm.pc = "generate" THEN {llm.req} ELSE {})

InTurn(m, n) == m.role \in {"user", "assistant"} => m.turn \in 1..n

\* Turn ids are given by one of two counters, call numbers by a third.
TurnsKnown ==
    /\ backend \in Backends
    /\ \A i \in 1..Len(history) : InTurn(history[i], spoken + seq)
    /\ \A r \in Waiting : r.turn \in 1..(spoken + seq) /\ (IsTool(r) => r.no \in 1..calls)
    /\ \A c \in Pending : c.turn \in 1..(spoken + seq) /\ c.no \in 1..calls
    /\ llm.pc \in {"idle", "generate", "stuck"}
    /\ llm.pc = "generate" =>
        /\ llm.sent \in Seq(Msg)
        /\ \A i \in 1..Len(llm.sent) : InTurn(llm.sent[i], spoken + seq)
    /\ served \subseteq 1..calls /\ asked \subseteq 1..calls

\* An output costs a call, so that turn ids are bounded by prompts and calls.
Counted ==
    /\ Len(drain) <= 1 /\ IsFiniteSet(client) /\ calls <= MaxCalls
    /\ Len(text_out) + Len(drain) + Cardinality(client) <= calls
    /\ spoken + seq + Len(text_out) + Len(drain) + Cardinality(client) <= MaxPrompts + calls

TurnIInv == TurnsKnown /\ Counted

\* Calls of earlier requests have earlier numbers, which the ids contain that
\* come from a counter.
CallIInv ==
    /\ \A i \in 1..Len(history) : history[i].role = "call" =>
        /\ history[i].round <= rounds
        /\ llm.pc = "generate" => history[i].round < rounds
        /\ history[i].id[1] = "unique" => history[i].id[2] <= calls
        /\ backend = "transformers" => history[i].id[1] = "unique"
    /\ CallsDistinct

Known(id) == id \in cut \cup CallIds(history)

\* A call is in the history, or has been truncated away, for as long as its
\* output may come; the transformers handler keeps outputs behind their calls.
OutputIInv ==
    /\ \A i \in 1..Len(history) : history[i].role = "tool" =>
        /\ backend # "openai"
        /\ \/ history[i].id \in cut
           \/ \E j \in 1..(i - 1) : history[j].role = "call" /\ history[j].id = history[i].id
    /\ \A c \in Pending : Known(c.id)
    /\ \A r \in Waiting : IsTool(r) => Known(r.id)
    /\ OutputFollowsCall

\* The entries of a queue.
LEMMA QueueEntries ==
  ASSUME NEW S, NEW s \in Seq(S)
  PROVE  /\ ToSet(s) \subseteq S
         /\ \A i \in 1..Len(s) : s[i] \in ToSet(s)
         /\ \A x \in ToSet(s) : \E i \in 1..Len(s) : x = s[i]
BY DEF ToSet

LEMMA QueueAppended ==
  ASSUME NEW S, NEW s \in Seq(S), NEW x \in S
  PROVE  ToSet(Append(s, x)) = ToSet(s) \cup {x}
<1>1. /\ Append(s, x) \in Seq(S) /\ Len(Append(s, x)) = Len(s) + 1 /\ Len(s) \in Nat
      /\ Append(s, x)[Len(s) + 1] = x
      /\ \A i \in 1..Len(s) : Append(s, x)[i] = s[i]
  OBVIOUS
<1>2. ASSUME NEW y \in ToSet(Append(s, x))
      PROVE  y \in ToSet(s) \cup {x}
  <2>1. PICK i \in 1..(Len(s) + 1) : y = Append(s, x)[i]
    BY <1>1, QueueEntries
  <2>2. CASE i = Len(s) + 1
    BY <1>1, <2>1, <2>2
  <2>3. CASE i # Len(s) + 1
    <3>1. i \in 1..Len(s) /\ y = s[i]
      BY <1>1, <2>1, <2>3
    <3>2. QED
      BY <3>1, QueueEntries
  <2>4. QED
    BY <2>2, <2>3
<1>3. ASSUME NEW y \in ToSet(s) \cup {x}
      PROVE  y \in ToSet(Append(s, x))
  <2>1. PICK i \in 1..(Len(s) + 1) : y = Append(s, x)[i]
    <3>1. CASE y = x
      BY <1>1, <3>1
    <3>2. CASE y \in ToSet(s)
      <4>1. PICK i \in 1..Len(s) : y = s[i]
        BY <3>2, QueueEntries
      <4>2. QED
        BY <1>1, <4>1
    <3>3. QED
      BY <3>1, <3>2
  <2>2. QED
    BY <1>1, <2>1, QueueEntries
<1>4. QED
  BY <1>2, <1>3

LEMMA QueueTaken ==
  ASSUME NEW S, NEW s \in Seq(S), s # <<>>
  PROVE  /\ Head(s) \in ToSet(s) /\ Head(s) \in S
         /\ Tail(s) \in Seq(S) /\ Len(Tail(s)) = Len(s) - 1
         /\ ToSet(Tail(s)) \subseteq ToSet(s)
<1>1. /\ Tail(s) \in Seq(S) /\ Len(Tail(s)) = Len(s) - 1 /\ Len(s) \in Nat /\ Len(s) >= 1
      /\ Head(s) = s[1] /\ Head(s) \in S
      /\ \A i \in 1..Len(Tail(s)) : Tail(s)[i] = s[i + 1]
  OBVIOUS
<1>2. ASSUME NEW y \in ToSet(Tail(s))
      PROVE  y \in ToSet(s)
  <2>1. PICK i \in 1..Len(Tail(s)) : y = Tail(s)[i]
    BY <1>1, QueueEntries
  <2>2. i + 1 \in 1..Len(s) /\ y = s[i + 1]
    BY <1>1, <2>1
  <2>3. QED
    BY <2>2, QueueEntries
<1>3. Head(s) \in ToSet(s)
  BY <1>1, QueueEntries
<1>4. QED
  BY <1>1, <1>2, <1>3

LEMMA QueueExtended ==
  ASSUME NEW S, NEW s \in Seq(S), NEW t \in Seq(S)
  PROVE  ToSet(s \o t) \subseteq ToSet(s) \cup ToSet(t)
<1> DEFINE both == s \o t
<1>1. /\ both \in Seq(S) /\ Len(both) = Len(s) + Len(t) /\ Len(s) \in Nat /\ Len(t) \in Nat
      /\ \A i \in 1..Len(both) : both[i] = IF i <= Len(s) THEN s[i] ELSE t[i - Len(s)]
  BY ConcatProperties
<1> HIDE DEF both
<1>2. ASSUME NEW y \in ToSet(both)
      PROVE  y \in ToSet(s) \cup ToSet(t)
  <2>1. PICK i \in 1..Len(both) : y = both[i]
    BY <1>1, QueueEntries
  <2>2. CASE i <= Len(s)
    <3>1. i \in 1..Len(s) /\ y = s[i]
      BY <1>1, <2>1, <2>2
    <3>2. QED
      BY <3>1, QueueEntries
  <2>3. CASE i > Len(s)
    <3>1. i - Len(s) \in 1..Len(t) /\ y = t[i - Len(s)]
      BY <1>1, <2>1, <2>3
    <3>2. QED
      BY <3>1, QueueEntries
  <2>4. QED
    BY <1>1, <2>2, <2>3
<1>3. QED
  BY <1>2 DEF both

LEMMA CallIdsMeaning ==
  ASSUME NEW h, NEW id
  PROVE  id \in CallIds(h) <=> \E i \in 1..Len(h) : h[i].role = "call" /\ h[i].id = id
BY DEF CallIds

LEMMA InTurnGrows ==
  ASSUME NEW n \in Nat, NEW k \in Nat, n <= k
  PROVE  /\ \A m : InTurn(m, n) => InTurn(m, k)
         /\ \A t : t \in 1..n => t \in 1..k
<1>1. \A t : t \in 1..n => t \in 1..k
  OBVIOUS
<1>2. QED
  BY <1>1 DEF InTurn

\* What enters the queue of requests: a prompt of a new turn, or the output of
\* a call that was on its way.
LEMMA RequestEnters ==
  ASSUME Types, Speak \/ Type \/ DrainSearched \/ (\E call \in client : ClientAnswers(call))
  PROVE  /\ Pending' \subseteq Pending
         /\ UNCHANGED <<backend, history, llm, calls, rounds, cut, asked, served>>
         /\ spoken' \in Nat /\ seq' \in Nat /\ spoken + seq <= spoken' + seq'
         /\ \E req \in Request :
              /\ Waiting' \subseteq Waiting \cup {req}
              /\ \/ ~IsTool(req) /\ req.turn \in 1..(spoken' + seq')
                 \/ \E call \in Pending :
                      /\ IsTool(req) /\ req.id = call.id /\ req.no = call.no
                      /\ \/ req.turn = call.turn
                         \/ req.turn \in 1..(spoken' + seq')
<1>0. /\ spoken \in Nat /\ seq \in Nat /\ text_prompt \in Seq(Request)
      /\ client \subseteq FnCall /\ drain \in Seq(FnCall)
  BY DEF Types
<1>1. ASSUME NEW req \in Request, text_prompt' = Append(text_prompt, req), llm' = llm
      PROVE  Waiting' \subseteq Waiting \cup {req}
  BY <1>0, <1>1, QueueAppended DEF Waiting
<1>2. CASE Speak
  <2> DEFINE req == Prompt(spoken + 1, "vad")
  <2>1. /\ UNCHANGED <<backend, history, llm, calls, rounds, cut, asked, served>>
        /\ UNCHANGED <<text_out, drain, client>>
        /\ spoken' = spoken + 1 /\ seq' = seq /\ text_prompt' = Append(text_prompt, req)
    BY <1>2 DEF Speak, llmVars, ghosts
  <2>2. req \in Request /\ ~IsTool(req) /\ req.turn \in 1..(spoken' + seq')
    BY <1>0, <2>1 DEF Prompt, IsTool, Request, PromptReq, Sources
  <2> HIDE DEF req
  <2>3. Waiting' \subseteq Waiting \cup {req}
    BY <1>1, <2>1, <2>2
  <2>4. Pending' = Pending
    BY <2>1 DEF Pending
  <2>5. QED
    BY <1>0, <2>1, <2>2, <2>3, <2>4
<1>3. CASE Type
  <2> DEFINE req == Prompt(seq + 1, "client")
  <2>1. /\ UNCHANGED <<backend, history, llm, calls, rounds, cut, asked, served>>
        /\ UNCHANGED <<text_out, drain, client>>
        /\ spoken' = spoken /\ seq' = seq + 1 /\ text_prompt' = Append(text_prompt, req)
    BY <1>3 DEF Type, llmVars, ghosts
  <2>2. req \in Request /\ ~IsTool(req) /\ req.turn \in 1..(spoken' + seq')
    BY <1>0, <2>1 DEF Prompt, IsTool, Request, PromptReq, Sources
  <2> HIDE DEF req
  <2>3. Waiting' \subseteq Waiting \cup {req}
    BY <1>1, <2>1, <2>2
  <2>4. Pending' = Pending
    BY <2>1 DEF Pending
  <2>5. QED
    BY <1>0, <2>1, <2>2, <2>3, <2>4
<1>4. ASSUME NEW turn \in Nat, NEW call \in FnCall
      PROVE  LET req == ToolOutput(turn, call) IN
             /\ req \in Request /\ IsTool(req)
             /\ req.id = call.id /\ req.no = call.no /\ req.turn = turn
  BY DEF ToolOutput, FnCall, Request, ToolReq, IsTool
<1>5. CASE \E call \in client : ClientAnswers(call)
  <2>1. PICK call \in client : ClientAnswers(call)
    BY <1>5
  <2> DEFINE req == ToolOutput(seq + 1, call)
  <2>2. /\ UNCHANGED <<backend, history, llm, calls, rounds, cut, asked, served>>
        /\ UNCHANGED <<text_out, drain>> /\ client' \subseteq client
        /\ spoken' = spoken /\ seq' = seq + 1 /\ text_prompt' = Append(text_prompt, req)
    BY <2>1 DEF ClientAnswers, llmVars, ghosts
  <2>3. /\ req \in Request /\ IsTool(req) /\ req.id = call.id /\ req.no = call.no
        /\ req.turn = seq + 1
    BY <1>0, <1>4
  <2> HIDE DEF req
  <2>4. Waiting' \subseteq Waiting \cup {req}
    BY <1>1, <2>2, <2>3
  <2>5. Pending' \subseteq Pending /\ call \in Pending
    BY <2>2 DEF Pending
  <2>6. req.turn \in 1..(spoken' + seq')
    BY <1>0, <2>2, <2>3
  <2>7. \E c \in Pending : /\ IsTool(req) /\ req.id = c.id /\ req.no = c.no
                          /\ \/ req.turn = c.turn
                             \/ req.turn \in 1..(spoken' + seq')
    BY <2>3, <2>5, <2>6
  <2>8. QED
    BY <1>0, <2>2, <2>3, <2>4, <2>5, <2>7
<1>6. CASE DrainSearched
  <2> DEFINE call == Head(drain)
             req == ToolOutput(call.turn, call)
  <2>1. /\ UNCHANGED <<backend, history, llm, calls, rounds, cut, asked, served>>
        /\ UNCHANGED <<text_out, client, spoken, seq>>
        /\ drain # <<>> /\ drain' = <<>> /\ text_prompt' = Append(text_prompt, req)
    <3>1. text_prompt' = Append(text_prompt, req)
      BY <1>6 DEF DrainSearched, WithOutput, TurnOf
    <3> HIDE DEF call, req
    <3>2. QED
      BY <1>6, <3>1 DEF DrainSearched, llmVars, ghosts
  <2>2. call \in FnCall /\ call \in ToSet(drain) /\ call.turn \in Nat
    <3>1. call \in FnCall /\ call \in ToSet(drain)
      BY <1>0, <2>1, QueueTaken
    <3> HIDE DEF call, req
    <3>2. QED
      BY <3>1 DEF FnCall
  <2>3. /\ req \in Request /\ IsTool(req) /\ req.id = call.id /\ req.no = call.no
        /\ req.turn = call.turn
    BY <1>4, <2>2
  <2> HIDE DEF call, req
  <2>4. Waiting' \subseteq Waiting \cup {req}
    BY <1>1, <2>1, <2>3
  <2>5. Pending' \subseteq Pending /\ call \in Pending
    <3>1. ToSet(<<>>) = {}
      BY DEF ToSet
    <3>2. QED
      BY <2>1, <2>2, <3>1 DEF Pending
  <2>6. QED
    BY <1>0, <2>1, <2>3, <2>4, <2>5
<1>7. QED
  BY <1>2, <1>3, <1>5, <1>6

\* The handler's thread takes a request.
LEMMA RequestTaken ==
  ASSUME Types, LLMTake
  PROVE  /\ UNCHANGED <<backend, text_out, drain, client, spoken, seq, calls, cut, asked>>
         /\ Pending' = Pending /\ rounds' = rounds + 1 /\ Waiting' \subseteq Waiting
         /\ \E req \in Waiting \cap Request :
              /\ llm' = [pc |-> "generate", req |-> req, sent |-> Messages(req)]
              /\ history' = Stored(req)
              /\ served' = IF IsTool(req) THEN served \cup {req.no} ELSE served
<1> DEFINE req == Head(text_prompt)
<1>1. /\ UNCHANGED <<backend, text_out, drain, client, spoken, seq, calls, cut, asked>>
      /\ rounds' = rounds + 1 /\ text_prompt # <<>> /\ text_prompt' = Tail(text_prompt)
  BY DEF LLMTake
<1>2. /\ llm' = [pc |-> "generate", req |-> req, sent |-> Messages(req)]
      /\ history' = Stored(req)
      /\ served' = IF IsTool(req) THEN served \cup {req.no} ELSE served
  BY DEF LLMTake
<1>3. /\ req \in ToSet(text_prompt) /\ req \in Request
      /\ ToSet(Tail(text_prompt)) \subseteq ToSet(text_prompt)
  BY <1>1, QueueTaken DEF Types
<1> HIDE DEF req
<1>4. llm'.req = req /\ req \in Waiting \cap Request
  BY <1>2, <1>3 DEF Waiting
<1>5. Waiting' \subseteq Waiting
  BY <1>1, <1>3, <1>4 DEF Waiting
<1>6. Pending' = Pending
  BY <1>1 DEF Pending
<1>7. QED
  BY <1>1, <1>2, <1>4, <1>5, <1>6

\* Nothing new comes of a failing model, or of a call that is shown to the
\* client or taken by the drain thread.
LEMMA NothingEnters ==
  ASSUME Types, LLMFails \/ DrainTake \/ UNCHANGED dialogueVars
  PROVE  /\ UNCHANGED <<backend, history, spoken, seq, calls, rounds, cut, asked, served>>
         /\ Pending' \subseteq Pending /\ Waiting' \subseteq Waiting
         /\ llm' = llm \/ llm' = [pc |-> "idle"] \/ llm' = [pc |-> "stuck"]
<1>1. CASE LLMFails
  <2>1. /\ UNCHANGED <<backend, history, spoken, seq, calls, rounds, cut, asked, served>>
        /\ UNCHANGED <<text_prompt, text_out, drain, client>>
        /\ llm' = [pc |-> "idle"] \/ llm' = [pc |-> "stuck"]
    BY <1>1 DEF LLMFails, ghosts
  <2>2. Pending' = Pending /\ Waiting' \subseteq Waiting
    BY <2>1 DEF Pending, Waiting
  <2>3. QED
    BY <2>1, <2>2
<1>2. CASE DrainTake
  <2>1. /\ UNCHANGED <<backend, history, spoken, seq, calls, rounds, cut, asked, served>>
        /\ UNCHANGED <<text_prompt, llm>> /\ text_out # <<>>
        /\ drain' = <<Head(text_out)>> \/ drain' = drain
        /\ client' = client \cup {Head(text_out)} \/ client' = client
        /\ text_out' = Tail(text_out)
    BY <1>2 DEF DrainTake, ghosts, llmVars, counters
  <2>2. Head(text_out) \in ToSet(text_out) /\ ToSet(Tail(text_out)) \subseteq ToSet(text_out)
    BY <2>1, QueueTaken DEF Types
  <2>3. ToSet(<<Head(text_out)>>) = {Head(text_out)}
    BY DEF ToSet
  <2>4. Pending' \subseteq Pending
    BY <2>1, <2>2, <2>3 DEF Pending
  <2>5. Waiting' = Waiting
    BY <2>1 DEF Waiting
  <2>6. QED
    BY <2>1, <2>4, <2>5
<1>3. CASE UNCHANGED dialogueVars
  <2>1. /\ UNCHANGED <<backend, history, spoken, seq, calls, rounds, cut, asked, served>>
        /\ UNCHANGED <<text_prompt, text_out, drain, client, llm>>
    BY <1>3 DEF dialogueVars, llmVars, counters, ghosts
  <2>2. Pending' = Pending /\ Waiting' = Waiting
    BY <2>1 DEF Pending, Waiting
  <2>3. QED
    BY <2>1, <2>2
<1>4. QED
  BY <1>1, <1>2, <1>3

\* The calls in an answer are numbered on; their ids come from a counter or
\* from the provider, or, with the OpenAI handler, from turn and index.
LEMMA AnswerArrives ==
  ASSUME Types, LLMFinish
  PROVE  /\ UNCHANGED <<backend, text_prompt, drain, client, spoken, seq, rounds, served>>
         /\ llm.pc = "generate" /\ llm.req \in Waiting /\ llm.req \in Request
         /\ llm' = [pc |-> "idle"] /\ Waiting' \subseteq Waiting
         /\ \E made \in Seq(FnCall), text \in BOOLEAN :
              /\ text_out' = text_out \o made /\ Pending' \subseteq Pending \cup ToSet(made)
              /\ calls' = calls + Len(made) /\ calls' <= MaxCalls
              /\ history' = HistoryAfter(llm.req, made, text)
              /\ asked' \subseteq asked \cup {call.no : call \in ToSet(made)}
              /\ cut' = cut \cup (CallIds(history \o Added(llm.req, made, text)) \ CallIds(history'))
              /\ \A i \in 1..Len(made) :
                    /\ made[i].turn = llm.req.turn
                    /\ made[i].round = rounds /\ made[i].no = calls + i
                    /\ \/ made[i].id = <<"unique", calls + i>>
                       \/ backend # "transformers" /\ made[i].id = <<"turn", llm.req.turn, i>>
<1>1. PICK c \in 0..2, given \in BOOLEAN, text \in BOOLEAN, name \in {"search_knowledge", "other"} :
        /\ calls + c <= MaxCalls
        /\ backend = "transformers" /\ c > 0 => text
        /\ LET made == [i \in 1..Found(c) |->
                           [id |-> CallId(llm.req.turn, i, given), name |-> name,
                            turn |-> llm.req.turn, round |-> rounds, no |-> calls + i]]
           IN /\ text_out' = text_out \o made
              /\ history' = HistoryAfter(llm.req, made, text)
              /\ asked' = IF name = "search_knowledge"
                          THEN asked \cup {call.no : call \in ToSet(made)} ELSE asked
              /\ cut' = cut \cup (CallIds(history \o Added(llm.req, made, text)) \ CallIds(history'))
              /\ calls' = calls + Len(made)
  BY Zenon DEF LLMFinish
<1> DEFINE made == [i \in 1..Found(c) |->
                        [id |-> CallId(llm.req.turn, i, given), name |-> name,
                         turn |-> llm.req.turn, round |-> rounds, no |-> calls + i]]
<1>2. llm.pc = "generate" /\ llm.req \in Request /\ llm.req.turn \in Nat
  BY DEF LLMFinish, Types, Request, PromptReq, ToolReq
<1>3. Found(c) \in Nat /\ Found(c) <= c
  BY DEF Found
<1>4. \A i \in 1..Found(c) :
        \/ CallId(llm.req.turn, i, given) = <<"unique", calls + i>>
        \/ /\ backend # "transformers"
           /\ CallId(llm.req.turn, i, given) = <<"turn", llm.req.turn, i>>
  BY DEF CallId
<1>5. /\ made \in Seq(FnCall) /\ Len(made) = Found(c)
      /\ \A i \in 1..Len(made) :
            /\ made[i].turn = llm.req.turn
            /\ made[i].round = rounds /\ made[i].no = calls + i
            /\ \/ made[i].id = <<"unique", calls + i>>
               \/ backend # "transformers" /\ made[i].id = <<"turn", llm.req.turn, i>>
  <2>1. \A i \in 1..Found(c) : CallId(llm.req.turn, i, given) \in Ids
    BY <1>2, <1>3, <1>4 DEF Ids, Types
  <2>2. \A i \in 1..Found(c) : made[i] \in FnCall
    BY <1>2, <1>3, <2>1 DEF FnCall, Types
  <2>3. made \in Seq(FnCall) /\ Len(made) = Found(c)
    BY <1>3, <2>2
  <2>4. QED
    BY <1>4, <2>3
<1>6. /\ text_out' = text_out \o made /\ calls' = calls + Len(made)
      /\ history' = HistoryAfter(llm.req, made, text)
      /\ asked' = IF name = "search_knowledge"
                  THEN asked \cup {call.no : call \in ToSet(made)} ELSE asked
      /\ cut' = cut \cup (CallIds(history \o Added(llm.req, made, text)) \ CallIds(history'))
  BY <1>1
<1> HIDE DEF made
<1>7. /\ UNCHANGED <<backend, text_prompt, drain, client, spoken, seq, rounds, served>>
      /\ llm' = [pc |-> "idle"]
  BY DEF LLMFinish
<1>8. llm.req \in Waiting /\ Waiting' \subseteq Waiting
  BY <1>2, <1>7 DEF Waiting
<1>9. Pending' \subseteq Pending \cup ToSet(made)
  BY <1>5, <1>6, <1>7, QueueExtended DEF Pending, Types
<1>10. calls' <= MaxCalls
  <2>1. calls \in Nat /\ MaxCalls \in Nat
    BY DialogueAssumption DEF Types
  <2>2. QED
    BY <1>1, <1>3, <1>5, <1>6, <2>1
<1>11. asked' \subseteq asked \cup {call.no : call \in ToSet(made)}
  BY <1>6
<1>12. QED
  BY <1>2, <1>5, <1>6, <1>7, <1>8, <1>9, <1>10, <1>11, Zenon

LEMMA Concatenated ==
  ASSUME NEW S, NEW s \in Seq(S), NEW t \in Seq(S)
  PROVE  /\ s \o t \in Seq(S) /\ Len(s \o t) = Len(s) + Len(t)
         /\ Len(s) \in Nat /\ Len(t) \in Nat
         /\ \A i \in 1..(Len(s) + Len(t)) :
              (s \o t)[i] = IF i <= Len(s) THEN s[i] ELSE t[i - Len(s)]
BY ConcatProperties

\* What an answer adds to the history, one by one: its calls come first.
LEMMA AddedMessages ==
  ASSUME NEW req \in Request, NEW made \in Seq(FnCall), NEW text \in BOOLEAN
  PROVE  LET added == Added(req, made, text) IN
         /\ \A i \in 1..Len(made) : i \in 1..Len(added) /\ added[i] = CallMsg(made[i])
         /\ \A i \in 1..Len(added) :
              \/ i \in 1..Len(made) /\ added[i] = CallMsg(made[i])
              \/ i > Len(made) /\ added[i] = Answer(req.turn)
              \/ i > Len(made) /\ backend # "openai" /\ IsTool(req) /\ added[i] = Message(req)
<1> DEFINE cs == StoredCalls(made)
           out == IF IsTool(req) THEN <<Message(req)>> ELSE <<>>
           ans == IF text THEN <<Answer(req.turn)>> ELSE <<>>
           added == Added(req, made, text)
<1>1. Answer(req.turn) \in Msg
  BY DEF Request, PromptReq, ToolReq, Answer, Msg
<1>2. \A c \in FnCall : CallMsg(c) \in Msg
  BY DEF FnCall, CallMsg, Msg
<1>3. /\ cs \in Seq(Msg) /\ Len(cs) = Len(made) /\ Len(made) \in Nat
      /\ \A i \in 1..Len(made) : cs[i] = CallMsg(made[i])
  BY <1>2 DEF StoredCalls
<1>4. out \in Seq(Msg) /\ \A i \in 1..Len(out) : IsTool(req) /\ out[i] = Message(req)
  BY MessageType
<1>5. ans \in Seq(Msg) /\ \A i \in 1..Len(ans) : ans[i] = Answer(req.turn)
  BY <1>1
<1>6. cs = StoredCalls(made)
  OBVIOUS
<1>7. backend # "openai" => added = cs \o out \o ans
  BY DEF Added
<1>8. backend = "openai" => added = IF made # <<>> THEN cs ELSE <<Answer(req.turn)>>
  BY DEF Added
<1> HIDE DEF cs, out, ans, added
<1>9. CASE backend = "openai"
  <2>1. CASE made # <<>>
    BY <1>3, <1>8, <1>9, <2>1 DEF added
  <2>2. CASE made = <<>>
    <3>1. Len(added) = 1 /\ added[1] = Answer(req.turn) /\ Len(made) = 0
      BY <1>8, <1>9, <2>2
    <3>2. QED
      BY <3>1 DEF added
  <2>3. QED
    BY <2>1, <2>2
<1>10. CASE backend # "openai"
  <2> DEFINE both == cs \o out
             all == both \o ans
  <2>1. /\ both \in Seq(Msg) /\ Len(both) = Len(cs) + Len(out)
        /\ Len(cs) \in Nat /\ Len(out) \in Nat /\ Len(ans) \in Nat
        /\ \A i \in 1..Len(both) : both[i] = IF i <= Len(cs) THEN cs[i] ELSE out[i - Len(cs)]
    <3>1. cs \in Seq(Msg) /\ out \in Seq(Msg) /\ ans \in Seq(Msg)
      BY <1>3, <1>4, <1>5
    <3>2. cs \o out \in Seq(Msg) /\ Len(cs \o out) = Len(cs) + Len(out)
      BY <3>1, Concatenated
    <3>3. \A i \in 1..(Len(cs) + Len(out)) :
             (cs \o out)[i] = IF i <= Len(cs) THEN cs[i] ELSE out[i - Len(cs)]
      BY <3>1, Concatenated
    <3>4. Len(cs) \in Nat /\ Len(out) \in Nat /\ Len(ans) \in Nat
      BY <3>1
    <3>5. both = cs \o out
      OBVIOUS
    <3> HIDE DEF both
    <3>6. QED
      BY <3>2, <3>3, <3>4, <3>5
  <2>2. added = all
    BY <1>7, <1>10
  <2> HIDE DEF both
  <2>3. /\ Len(all) = Len(both) + Len(ans)
        /\ \A i \in 1..Len(all) : all[i] = IF i <= Len(both) THEN both[i] ELSE ans[i - Len(both)]
    <3>1. ans \in Seq(Msg)
      BY <1>5
    <3> HIDE DEF all
    <3>2. Len(both \o ans) = Len(both) + Len(ans)
      BY <2>1, <3>1, Concatenated
    <3>3. \A i \in 1..(Len(both) + Len(ans)) :
             (both \o ans)[i] = IF i <= Len(both) THEN both[i] ELSE ans[i - Len(both)]
      BY <2>1, <3>1, Concatenated
    <3>4. all = both \o ans
      BY DEF all
    <3>5. QED
      BY <3>2, <3>3, <3>4
  <2> HIDE DEF all
  <2>4. ASSUME NEW i \in 1..Len(made)
        PROVE  i \in 1..Len(all) /\ all[i] = CallMsg(made[i])
    <3>1. i \in 1..Len(both) /\ i <= Len(cs) /\ i \in 1..Len(all)
      BY <1>3, <2>1, <2>3
    <3>2. all[i] = both[i] /\ both[i] = cs[i]
      BY <2>1, <2>3, <3>1
    <3>3. QED
      BY <1>3, <3>1, <3>2
  <2>5. ASSUME NEW i \in 1..Len(all)
        PROVE  \/ i \in 1..Len(made) /\ all[i] = CallMsg(made[i])
               \/ i > Len(made) /\ all[i] = Answer(req.turn)
               \/ i > Len(made) /\ IsTool(req) /\ all[i] = Message(req)
    <3>1. CASE i <= Len(cs)
      <4>1. i \in 1..Len(made)
        BY <1>3, <2>1, <3>1
      <4>2. QED
        BY <2>4, <4>1
    <3>2. CASE i > Len(cs) /\ i <= Len(both)
      <4>1. /\ all[i] = out[i - Len(cs)] /\ i - Len(cs) \in 1..Len(out) /\ i > Len(made)
        BY <1>3, <2>1, <2>3, <3>2
      <4>2. QED
        BY <1>4, <4>1
    <3>3. CASE i > Len(both)
      <4>1. all[i] = ans[i - Len(both)] /\ i - Len(both) \in 1..Len(ans) /\ i > Len(made)
        BY <1>3, <2>1, <2>3, <3>3
      <4>2. QED
        BY <1>5, <4>1
    <3>4. QED
      BY <1>3, <2>1, <3>1, <3>2, <3>3
  <2>6. QED
    BY <1>10, <2>2, <2>4, <2>5 DEF added
<1>11. QED
  BY <1>9, <1>10

\* After an answer, the history is the end of what it was with the answer added.
LEMMA HistoryShift ==
  ASSUME history \in Seq(Msg), NEW req \in Request, NEW made \in Seq(FnCall), NEW text \in BOOLEAN
  PROVE  LET all == history \o Added(req, made, text)
             h == HistoryAfter(req, made, text)
         IN /\ all \in Seq(Msg)
            /\ \E k \in Nat : /\ Len(h) = Len(all) - k /\ Len(h) \in Nat
                              /\ \A i \in 1..Len(h) : i + k \in 1..Len(all) /\ h[i] = all[i + k]
<1> DEFINE added == Added(req, made, text)
           all == history \o added
           h == HistoryAfter(req, made, text)
<1>1. all \in Seq(Msg) /\ Len(all) \in Nat
  BY AddedType, ConcatProperties
<1>2. h = IF backend = "openai" /\ made # <<>> THEN all ELSE Truncated(all)
  BY DEF HistoryAfter
<1> HIDE DEF added, all, h
<1>3. CASE backend = "openai" /\ made # <<>>
  <2>1. h = all
    BY <1>2, <1>3
  <2>2. /\ Len(h) = Len(all) - 0 /\ Len(h) \in Nat
        /\ \A i \in 1..Len(h) : i + 0 \in 1..Len(all) /\ h[i] = all[i + 0]
    BY <1>1, <2>1
  <2>3. QED
    BY <1>1, <2>2 DEF h, all, added
<1>4. CASE ~(backend = "openai" /\ made # <<>>)
  <2>1. h = Truncated(all)
    BY <1>2, <1>4
  <2>2. h \in Seq(Msg) /\ Len(h) \in Nat
    BY <1>1, <2>1, TruncatedProperties
  <2>3. PICK k \in Nat : Len(h) = Len(all) - k /\ \A i \in 1..Len(h) : h[i] = all[i + k]
    BY <1>1, <2>1, TruncatedProperties
  <2>4. \A i \in 1..Len(h) : i + k \in 1..Len(all)
    BY <1>1, <2>2, <2>3
  <2>5. QED
    BY <1>1, <2>2, <2>3, <2>4 DEF h, all, added
<1>5. QED
  BY <1>3, <1>4

LEMMA MessageInTurn ==
  ASSUME NEW req \in Request, NEW n \in Nat, req.turn \in 1..n
  PROVE  InTurn(Message(req), n) /\ InTurn(Answer(req.turn), n)
<1>1. InTurn(Answer(req.turn), n)
  BY DEF InTurn, Answer
<1>2. CASE IsTool(req)
  BY <1>1, <1>2 DEF Message, Output, InTurn
<1>3. CASE ~IsTool(req)
  BY <1>1, <1>3 DEF Message, User, InTurn
<1>4. QED
  BY <1>2, <1>3

LEMMA AppendInTurn ==
  ASSUME NEW h \in Seq(Msg), NEW m \in Msg, NEW n \in Nat,
         \A i \in 1..Len(h) : InTurn(h[i], n), InTurn(m, n)
  PROVE  /\ Append(h, m) \in Seq(Msg)
         /\ \A i \in 1..Len(Append(h, m)) : InTurn(Append(h, m)[i], n)
<1>1. /\ Append(h, m) \in Seq(Msg) /\ Len(Append(h, m)) = Len(h) + 1 /\ Len(h) \in Nat
      /\ \A i \in 1..(Len(h) + 1) : Append(h, m)[i] = IF i <= Len(h) THEN h[i] ELSE m
  OBVIOUS
<1>2. ASSUME NEW i \in 1..(Len(h) + 1)
      PROVE  InTurn(Append(h, m)[i], n)
  <2>1. CASE i <= Len(h)
    BY <1>1, <2>1
  <2>2. CASE i > Len(h)
    BY <1>1, <2>2
  <2>3. QED
    BY <1>1, <2>1, <2>2
<1>3. QED
  BY <1>1, <1>2

LEMMA EnterKeepsTurns ==
  ASSUME Types, TurnsKnown,
         Speak \/ Type \/ DrainSearched \/ (\E call \in client : ClientAnswers(call))
  PROVE  TurnsKnown'
<1> DEFINE n == spoken + seq
           k == spoken' + seq'
<1>1. /\ Pending' \subseteq Pending
      /\ UNCHANGED <<backend, history, llm, calls, asked, served>>
      /\ n \in Nat /\ k \in Nat /\ n <= k
  BY RequestEnters DEF Types
<1>2. PICK req \in Request :
        /\ Waiting' \subseteq Waiting \cup {req}
        /\ \/ ~IsTool(req) /\ req.turn \in 1..(spoken' + seq')
           \/ \E call \in Pending :
                /\ IsTool(req) /\ req.id = call.id /\ req.no = call.no
                /\ \/ req.turn = call.turn
                   \/ req.turn \in 1..(spoken' + seq')
  BY RequestEnters
<1> HIDE DEF n, k
<1>3. /\ \A m : InTurn(m, n) => InTurn(m, k)
      /\ \A t : t \in 1..n => t \in 1..k
  BY <1>1, InTurnGrows
<1>4. req.turn \in 1..k /\ (IsTool(req) => req.no \in 1..calls)
  BY <1>2, <1>3 DEF TurnsKnown, n, k
<1>5. \A r \in Waiting' : r.turn \in 1..k /\ (IsTool(r) => r.no \in 1..calls')
  BY <1>1, <1>2, <1>3, <1>4 DEF TurnsKnown, n
<1>6. \A c \in Pending' : c.turn \in 1..k /\ c.no \in 1..calls'
  BY <1>1, <1>3 DEF TurnsKnown, n
<1>7. /\ \A i \in 1..Len(history') : InTurn(history'[i], k)
      /\ llm'.pc = "generate" =>
            /\ llm'.sent \in Seq(Msg)
            /\ \A i \in 1..Len(llm'.sent) : InTurn(llm'.sent[i], k)
  BY <1>1, <1>3 DEF TurnsKnown, n
<1>8. QED
  BY <1>1, <1>5, <1>6, <1>7 DEF TurnsKnown, k

LEMMA TakeKeepsTurns ==
  ASSUME Types, TurnsKnown, LLMTake
  PROVE  TurnsKnown'
<1> DEFINE n == spoken + seq
<1>1. /\ UNCHANGED <<backend, spoken, seq, calls, asked>>
      /\ Pending' = Pending /\ Waiting' \subseteq Waiting
      /\ n \in Nat /\ history \in Seq(Msg)
  BY RequestTaken DEF Types
<1>2. PICK req \in Waiting \cap Request :
        /\ llm' = [pc |-> "generate", req |-> req, sent |-> Messages(req)]
        /\ history' = Stored(req)
        /\ served' = IF IsTool(req) THEN served \cup {req.no} ELSE served
  BY RequestTaken
<1>3. \A i \in 1..Len(history) : InTurn(history[i], n)
  BY DEF TurnsKnown
<1>4. req.turn \in 1..n /\ (IsTool(req) => req.no \in 1..calls)
  BY DEF TurnsKnown
<1> HIDE DEF n
<1>5. InTurn(Message(req), n) /\ Message(req) \in Msg
  BY <1>1, <1>4, MessageInTurn, MessageType
<1>6. /\ Append(history, Message(req)) \in Seq(Msg)
      /\ \A i \in 1..Len(Append(history, Message(req))) :
            InTurn(Append(history, Message(req))[i], n)
  BY <1>1, <1>3, <1>5, AppendInTurn
<1>7. /\ Stored(req) \in Seq(Msg)
      /\ \A i \in 1..Len(Stored(req)) : InTurn(Stored(req)[i], n)
  BY <1>1, <1>3, <1>6 DEF Stored
<1> DEFINE base == IF backend = "openai" THEN Stored(req) ELSE history
<1>8. base \in Seq(Msg) /\ \A i \in 1..Len(base) : InTurn(base[i], n)
  BY <1>1, <1>3, <1>7
<1>9. Messages(req) = Append(base, Message(req))
  BY DEF Messages
<1> HIDE DEF base
<1>10. /\ Append(base, Message(req)) \in Seq(Msg)
       /\ \A i \in 1..Len(Append(base, Message(req))) : InTurn(Append(base, Message(req))[i], n)
  BY <1>1, <1>5, <1>8, AppendInTurn
<1>11. /\ llm'.pc = "generate" /\ llm'.sent = Append(base, Message(req))
  BY <1>2, <1>9
<1>12. served' \subseteq 1..calls /\ asked' \subseteq 1..calls
  BY <1>1, <1>2, <1>4 DEF TurnsKnown
<1>13. /\ \A r \in Waiting' : r.turn \in 1..n /\ (IsTool(r) => r.no \in 1..calls)
       /\ \A c \in Pending' : c.turn \in 1..n /\ c.no \in 1..calls
       /\ backend \in Backends
  BY <1>1 DEF TurnsKnown, n
<1>14. \A i \in 1..Len(history') : InTurn(history'[i], n)
  BY <1>2, <1>7
<1>15. /\ llm'.sent \in Seq(Msg)
       /\ \A i \in 1..Len(llm'.sent) : InTurn(llm'.sent[i], n)
  BY <1>10, <1>11
<1>16. QED
  BY <1>1, <1>11, <1>12, <1>13, <1>14, <1>15 DEF TurnsKnown, n

LEMMA FinishKeepsTurns ==
  ASSUME Types, TurnsKnown, LLMFinish
  PROVE  TurnsKnown'
<1> DEFINE n == spoken + seq
           req == llm.req
<1>1. /\ UNCHANGED <<backend, text_prompt, drain, client, spoken, seq, rounds, served>>
      /\ req \in Waiting /\ req \in Request
      /\ llm' = [pc |-> "idle"] /\ Waiting' \subseteq Waiting
      /\ n \in Nat /\ calls \in Nat /\ history \in Seq(Msg)
  BY AnswerArrives DEF Types
<1>2. PICK made \in Seq(FnCall), text \in BOOLEAN :
        /\ Pending' \subseteq Pending \cup ToSet(made)
        /\ calls' = calls + Len(made)
        /\ history' = HistoryAfter(req, made, text)
        /\ asked' \subseteq asked \cup {call.no : call \in ToSet(made)}
        /\ \A i \in 1..Len(made) : made[i].turn = req.turn /\ made[i].no = calls + i
  BY AnswerArrives
<1>3. req.turn \in 1..n
  BY <1>1 DEF TurnsKnown
<1> HIDE DEF n, req
<1>4. Len(made) \in Nat /\ calls' \in Nat /\ \A t : t \in 1..calls => t \in 1..calls'
  BY <1>1, <1>2
<1>5. \A c \in ToSet(made) : c.turn \in 1..n /\ c.no \in 1..calls'
  <2> SUFFICES ASSUME NEW c \in ToSet(made)
               PROVE  c.turn \in 1..n /\ c.no \in 1..calls'
    OBVIOUS
  <2>1. PICK i \in 1..Len(made) : c = made[i]
    BY QueueEntries
  <2>2. calls + i \in 1..calls'
    BY <1>1, <1>2, <1>4
  <2>3. QED
    BY <1>2, <1>3, <2>1, <2>2
<1>6. /\ \A c \in Pending' : c.turn \in 1..n /\ c.no \in 1..calls'
      /\ \A r \in Waiting' : r.turn \in 1..n /\ (IsTool(r) => r.no \in 1..calls')
      /\ served' \subseteq 1..calls' /\ asked' \subseteq 1..calls'
  BY <1>1, <1>2, <1>4, <1>5 DEF TurnsKnown, n
<1> DEFINE added == Added(req, made, text)
           all == history \o added
<1>7. \A i \in 1..Len(added) : InTurn(added[i], n)
  <2>1. InTurn(Message(req), n) /\ InTurn(Answer(req.turn), n)
    BY <1>1, <1>3, MessageInTurn
  <2>2. \A c : InTurn(CallMsg(c), n)
    BY DEF InTurn, CallMsg
  <2>3. \A i \in 1..Len(added) :
          \/ i \in 1..Len(made) /\ added[i] = CallMsg(made[i])
          \/ added[i] = Answer(req.turn)
          \/ added[i] = Message(req)
    BY <1>1, AddedMessages
  <2> HIDE DEF added
  <2>4. QED
    BY <2>1, <2>2, <2>3
<1>8. added \in Seq(Msg)
  BY <1>1, AddedType
<1> HIDE DEF added
<1>9. \A i \in 1..Len(all) : InTurn(all[i], n)
  <2>1. /\ Len(all) = Len(history) + Len(added)
        /\ Len(history) \in Nat /\ Len(added) \in Nat
    BY <1>1, <1>8, Concatenated
  <2>2. \A i \in 1..(Len(history) + Len(added)) :
            all[i] = IF i <= Len(history) THEN history[i] ELSE added[i - Len(history)]
    BY <1>1, <1>8, Concatenated
  <2>3. \A i \in 1..Len(history) : InTurn(history[i], n)
    BY DEF TurnsKnown, n
  <2> HIDE DEF all
  <2>4. SUFFICES ASSUME NEW i \in 1..Len(all)
                 PROVE  InTurn(all[i], n)
    OBVIOUS
  <2>5. CASE i <= Len(history)
    BY <2>1, <2>2, <2>3, <2>5
  <2>6. CASE i > Len(history)
    <3>1. i - Len(history) \in 1..Len(added) /\ all[i] = added[i - Len(history)]
      BY <2>1, <2>2, <2>6
    <3>2. QED
      BY <1>7, <3>1
  <2>7. QED
    BY <2>1, <2>5, <2>6
<1>10. \A i \in 1..Len(history') : InTurn(history'[i], n)
  <2>1. PICK k \in Nat : \A i \in 1..Len(history') :
                            i + k \in 1..Len(all) /\ history'[i] = all[i + k]
    BY <1>1, <1>2, HistoryShift DEF added
  <2> HIDE DEF all
  <2>2. QED
    BY <1>9, <2>1
<1>11. QED
  BY <1>1, <1>6, <1>10 DEF TurnsKnown, n

LEMMA OthersKeepTurns ==
  ASSUME Types, TurnsKnown, LLMFails \/ DrainTake \/ UNCHANGED dialogueVars
  PROVE  TurnsKnown'
<1>1. /\ UNCHANGED <<backend, history, spoken, seq, calls, asked, served>>
      /\ Pending' \subseteq Pending /\ Waiting' \subseteq Waiting
      /\ llm' = llm \/ llm' = [pc |-> "idle"] \/ llm' = [pc |-> "stuck"]
  BY NothingEnters
<1>2. /\ llm'.pc \in {"idle", "generate", "stuck"}
      /\ llm'.pc = "generate" =>
            /\ llm'.sent \in Seq(Msg)
            /\ \A i \in 1..Len(llm'.sent) : InTurn(llm'.sent[i], spoken + seq)
  <2>1. CASE llm' = llm
    BY <2>1 DEF TurnsKnown
  <2>2. CASE llm' = [pc |-> "idle"] \/ llm' = [pc |-> "stuck"]
    BY <2>2
  <2>3. QED
    BY <1>1, <2>1, <2>2
<1>3. QED
  BY <1>1, <1>2 DEF TurnsKnown

\* A call is counted when it is made and moves from queue to queue; the client's
\* answers take new turn ids, but no more than there were calls.
LEMMA CountedKept ==
  ASSUME Types, Counted, [DialogueNext]_dialogueVars
  PROVE  Counted'
<1> DEFINE open == Len(text_out) + Len(drain) + Cardinality(client)
<1>1. /\ spoken \in Nat /\ seq \in Nat /\ calls \in Nat
      /\ Len(text_out) \in Nat /\ Len(drain) \in Nat
      /\ Cardinality(client) \in Nat /\ IsFiniteSet(client)
      /\ MaxPrompts \in Nat /\ MaxCalls \in Nat
  BY FS_CardinalityType, DialogueAssumption DEF Types, Counted
<1>2. /\ Len(drain) <= 1 /\ calls <= MaxCalls
      /\ open <= calls /\ spoken + seq + open <= MaxPrompts + calls
  BY <1>1 DEF Counted
<1>3. CASE Speak \/ Type
  <2>1. /\ UNCHANGED <<text_out, drain, client, calls>>
        /\ spoken + seq < MaxPrompts
        /\ spoken' + seq' = spoken + seq + 1
    <3>1. CASE Speak
      BY <1>1, <3>1 DEF Speak
    <3>2. CASE Type
      BY <1>1, <3>2 DEF Type
    <3>3. QED
      BY <1>3, <3>1, <3>2
  <2>2. spoken' + seq' + open <= MaxPrompts + calls
    <3> HIDE DEF open
    <3>1. open \in Nat
      BY <1>1 DEF open
    <3>2. QED
      BY <1>1, <1>2, <2>1, <3>1
  <2>3. spoken' + seq' + Len(text_out) + Len(drain) + Cardinality(client) <= MaxPrompts + calls
    <3>1. spoken' + seq' = spoken + seq + 1
      BY <2>1
    <3>2. QED
      BY <1>1, <2>2, <3>1
  <2>4. QED
    BY <1>1, <1>2, <2>1, <2>3 DEF Counted
<1>4. CASE \E call \in client : ClientAnswers(call)
  <2>1. PICK call \in client : ClientAnswers(call)
    BY <1>4
  <2>2. /\ UNCHANGED <<text_out, drain, calls, spoken>>
        /\ client' = client \ {call} /\ seq' = seq + 1
    BY <2>1 DEF ClientAnswers
  <2>3. IsFiniteSet(client') /\ Cardinality(client') = Cardinality(client) - 1
    BY <1>1, <2>1, <2>2, FS_RemoveElement
  <2>4. QED
    BY <1>1, <1>2, <2>2, <2>3 DEF Counted
<1>5. CASE LLMFinish
  <2>1. PICK made \in Seq(FnCall) : /\ text_out' = text_out \o made
                                    /\ calls' = calls + Len(made) /\ calls' <= MaxCalls
    BY <1>5, AnswerArrives
  <2>2. UNCHANGED <<drain, client, spoken, seq>>
    BY <1>5 DEF LLMFinish
  <2>3. Len(text_out') = Len(text_out) + Len(made) /\ Len(made) \in Nat
    BY <2>1, Concatenated DEF Types
  <2>4. QED
    BY <1>1, <1>2, <2>1, <2>2, <2>3 DEF Counted
<1>6. CASE DrainTake
  <2> DEFINE call == Head(text_out)
  <2>1. /\ drain = <<>> /\ text_out' = Tail(text_out) /\ text_out # <<>>
        /\ UNCHANGED <<calls, spoken, seq>>
        /\ \/ drain' = <<call>> /\ client' = client
           \/ drain' = drain /\ client' = client \cup {call}
    BY <1>6 DEF DrainTake, counters
  <2>2. Len(text_out') = Len(text_out) - 1
    BY <2>1, QueueTaken DEF Types
  <2>3. Len(drain) = 0 /\ Len(<<call>>) = 1
    BY <2>1
  <2>4. /\ IsFiniteSet(client \cup {call})
        /\ Cardinality(client \cup {call}) \in Nat
        /\ Cardinality(client \cup {call}) <= Cardinality(client) + 1
    <3> HIDE DEF call
    <3>1. /\ IsFiniteSet(client \cup {call})
          /\ \/ Cardinality(client \cup {call}) = Cardinality(client)
             \/ Cardinality(client \cup {call}) = Cardinality(client) + 1
      BY <1>1, FS_AddElement
    <3>2. QED
      BY <1>1, <3>1
  <2>5. /\ IsFiniteSet(client') /\ Cardinality(client') \in Nat
        /\ Len(drain') \in Nat /\ Len(drain') <= 1
        /\ Len(drain') + Cardinality(client') <= Cardinality(client) + 1
    <3> HIDE DEF call
    <3>1. CASE drain' = <<call>> /\ client' = client
      BY <1>1, <2>3, <3>1
    <3>2. CASE drain' = drain /\ client' = client \cup {call}
      <4>1. Len(drain') = 0
        BY <2>3, <3>2
      <4>2. /\ IsFiniteSet(client') /\ Cardinality(client') \in Nat
            /\ Cardinality(client') <= Cardinality(client) + 1
        BY <2>4, <3>2
      <4>3. QED
        BY <1>1, <4>1, <4>2
    <3>3. QED
      BY <2>1, <3>1, <3>2
  <2>6. UNCHANGED <<calls, spoken, seq>>
    BY <2>1
  <2>7. /\ Len(text_out') + Len(drain') + Cardinality(client') <= open
        /\ Len(text_out') \in Nat
    BY <1>1, <2>2, <2>3, <2>5, QueueTaken, <2>1 DEF Types
  <2> HIDE DEF open
  <2>8. /\ Len(text_out') + Len(drain') + Cardinality(client') <= calls
        /\ spoken + seq + Len(text_out') + Len(drain') + Cardinality(client') <= MaxPrompts + calls
    <3>1. open \in Nat
      BY <1>1 DEF open
    <3>2. QED
      BY <1>1, <1>2, <2>5, <2>7, <3>1
  <2>9. QED
    BY <1>2, <2>5, <2>6, <2>8 DEF Counted
<1>7. CASE DrainSearched
  <2>1. /\ UNCHANGED <<text_out, client, calls, spoken, seq>>
        /\ Len(drain') = 0
    BY <1>7 DEF DrainSearched
  <2>2. QED
    BY <1>1, <1>2, <2>1 DEF Counted
<1>8. CASE LLMTake \/ LLMFails \/ UNCHANGED dialogueVars
  <2>1. UNCHANGED <<text_out, drain, client, calls, spoken, seq>>
    BY <1>8 DEF LLMTake, LLMFails, dialogueVars, counters
  <2>2. QED
    BY <2>1 DEF Counted
<1>9. QED
  BY <1>3, <1>4, <1>5, <1>6, <1>7, <1>8 DEF DialogueNext, LLMStep, DrainStep

LEMMA TurnInvariant == DialogueSpec => []TurnIInv
<1>1. DialogueInit => TurnIInv
  <2> SUFFICES ASSUME DialogueInit PROVE TurnIInv
    OBVIOUS
  <2>1. /\ ToSet(text_out) = {} /\ ToSet(drain) = {} /\ ToSet(text_prompt) = {}
        /\ Len(history) = 0 /\ Len(drain) = 0 /\ Len(text_out) = 0
    BY DEF DialogueInit, ToSet
  <2>2. Pending = {} /\ Waiting = {}
    BY <2>1 DEF Pending, Waiting, DialogueInit
  <2>3. TurnsKnown
    BY <2>1, <2>2 DEF TurnsKnown, DialogueInit
  <2>4. IsFiniteSet(client) /\ Cardinality(client) = 0
    BY FS_EmptySet DEF DialogueInit
  <2>5. Counted
    BY <2>1, <2>4, DialogueAssumption DEF Counted, DialogueInit
  <2>6. QED
    BY <2>3, <2>5 DEF TurnIInv
<1>2. DialogueIInv /\ TurnIInv /\ [DialogueNext]_dialogueVars => TurnIInv'
  <2> SUFFICES ASSUME Types, TurnsKnown, Counted, [DialogueNext]_dialogueVars
               PROVE  TurnIInv'
    BY DEF DialogueIInv, TurnIInv
  <2>1. TurnsKnown'
    BY EnterKeepsTurns, TakeKeepsTurns, FinishKeepsTurns, OthersKeepTurns
       DEF DialogueNext, LLMStep, DrainStep
  <2>2. Counted'
    BY CountedKept
  <2>3. QED
    BY <2>1, <2>2 DEF TurnIInv
<1>3. QED
  BY <1>1, <1>2, DialogueInvariant, PTL DEF DialogueSpec

\* Types of the dialogue.  Turn ids are bounded although every tool output of
\* the client takes a new one, since an output costs a call.
THEOREM DialogueTypes == DialogueSpec => []DialogueTypeOK
<1>1. DialogueIInv /\ TurnIInv => DialogueTypeOK
  <2> SUFFICES ASSUME Types, TurnsKnown, Counted
               PROVE  DialogueTypeOK
    BY DEF DialogueIInv, TurnIInv
  <2> DEFINE n == spoken + seq
             k == MaxPrompts + MaxCalls
  <2>1. n \in Nat /\ k \in Nat /\ n <= k
    <3>1. /\ spoken \in Nat /\ seq \in Nat /\ calls \in Nat
          /\ Len(text_out) \in Nat /\ Len(drain) \in Nat /\ Cardinality(client) \in Nat
          /\ MaxPrompts \in Nat /\ MaxCalls \in Nat
      BY FS_CardinalityType, DialogueAssumption DEF Types, Counted
    <3>2. QED
      BY <3>1 DEF Counted
  <2>2. ASSUME NEW m \in Msg, InTurn(m, n)
        PROVE  IsMessage(m)
    <3> HIDE DEF n, k
    <3>1. m.role \in {"user", "assistant"} => m.turn \in 1..k
      BY <2>1, <2>2 DEF InTurn
    <3>2. m.role \in {"call", "tool"} => m.id[1] \in {"unique", "turn"}
      BY DEF Msg, Ids
    <3>3. /\ m.role \in {"user", "assistant", "call", "tool"}
          /\ m.role = "user" => m.src \in {"vad", "client"}
      BY DEF Msg, Sources
    <3>4. QED
      BY <3>1, <3>2, <3>3 DEF IsMessage, k
  <2>3. \A m \in ToSet(history) : IsMessage(m)
    BY <2>2, QueueEntries DEF TurnsKnown, Types
  <2>4. llm.pc = "generate" => \A m \in ToSet(llm.sent) : IsMessage(m)
    BY <2>2, QueueEntries DEF TurnsKnown
  <2>5. \A c \in ToSet(text_out) \cup client \cup ToSet(drain) :
            c.no \in 1..calls /\ c.turn \in 1..(spoken + seq)
    BY DEF TurnsKnown, Pending
  <2>6. QED
    BY <2>3, <2>4, <2>5 DEF DialogueTypeOK, TurnsKnown, Counted
<1>2. QED
  BY <1>1, DialogueInvariant, TurnInvariant, PTL

LEMMA CallMsgIs ==
  ASSUME NEW c
  PROVE  CallMsg(c).role = "call" /\ CallMsg(c).id = c.id /\ CallMsg(c).round = c.round
BY DEF CallMsg

\* The history with an answer added, before the truncation.
LEMMA AllMessages ==
  ASSUME history \in Seq(Msg), NEW req \in Request, NEW made \in Seq(FnCall), NEW text \in BOOLEAN
  PROVE  LET all == history \o Added(req, made, text)
             n == Len(history)
         IN /\ \A i \in 1..n : i \in 1..Len(all) /\ all[i] = history[i]
            /\ \A l \in 1..Len(made) : n + l \in 1..Len(all) /\ all[n + l] = CallMsg(made[l])
            /\ \A i \in 1..Len(all) : i > n =>
                 \/ i - n \in 1..Len(made) /\ all[i] = CallMsg(made[i - n])
                 \/ all[i].role = "assistant"
                 \/ /\ backend # "openai" /\ IsTool(req)
                    /\ all[i].role = "tool" /\ all[i].id = req.id
<1> DEFINE added == Added(req, made, text)
           all == history \o added
           n == Len(history)
<1>1. added \in Seq(Msg)
  BY AddedType
<1>2. /\ \A i \in 1..Len(made) : i \in 1..Len(added) /\ added[i] = CallMsg(made[i])
      /\ \A i \in 1..Len(added) :
              \/ i \in 1..Len(made) /\ added[i] = CallMsg(made[i])
              \/ added[i] = Answer(req.turn)
              \/ backend # "openai" /\ IsTool(req) /\ added[i] = Message(req)
  BY AddedMessages
<1>3. /\ Answer(req.turn).role = "assistant"
      /\ IsTool(req) => Message(req).role = "tool" /\ Message(req).id = req.id
  BY DEF Answer, Message, Output
<1> HIDE DEF added
<1>4. Len(all) = n + Len(added) /\ n \in Nat /\ Len(added) \in Nat /\ Len(made) \in Nat
  BY <1>1, Concatenated
<1>5. \A i \in 1..(Len(history) + Len(added)) :
        all[i] = IF i <= Len(history) THEN history[i] ELSE added[i - Len(history)]
  BY <1>1, Concatenated
<1> HIDE DEF all
<1>6. \A i \in 1..n : i \in 1..Len(all) /\ all[i] = history[i]
  BY <1>4, <1>5
<1>7. ASSUME NEW l \in 1..Len(added)
      PROVE  n + l \in 1..Len(all) /\ all[n + l] = added[l]
  BY <1>4, <1>5
<1>8. \A l \in 1..Len(made) : n + l \in 1..Len(all) /\ all[n + l] = CallMsg(made[l])
  BY <1>2, <1>7
<1>9. ASSUME NEW i \in 1..Len(all), i > n
      PROVE  \/ i - n \in 1..Len(made) /\ all[i] = CallMsg(made[i - n])
             \/ all[i].role = "assistant"
             \/ /\ backend # "openai" /\ IsTool(req)
                /\ all[i].role = "tool" /\ all[i].id = req.id
  <2>1. i - n \in 1..Len(added) /\ all[i] = added[i - n]
    BY <1>4, <1>5, <1>9
  <2>2. QED
    BY <1>2, <1>3, <2>1
<1>10. QED
  BY <1>6, <1>8, <1>9 DEF all, added

\* The properties of calls hold with the answer added, before truncation: ids of
\* new calls are new, or of a later round of the same turn.
LEMMA AnswerKeepsCalls ==
  ASSUME Types, CallIInv, NEW req \in Request, NEW made \in Seq(FnCall), NEW text \in BOOLEAN,
         llm.pc = "generate",
         \A i \in 1..Len(made) :
            /\ made[i].round = rounds
            /\ \/ made[i].id = <<"unique", calls + i>>
               \/ backend # "transformers" /\ made[i].id = <<"turn", req.turn, i>>
  PROVE  LET all == history \o Added(req, made, text) IN
         /\ \A i \in 1..Len(all) : all[i].role = "call" =>
              /\ all[i].round <= rounds
              /\ all[i].id[1] = "unique" => all[i].id[2] <= calls + Len(made)
              /\ backend = "transformers" => all[i].id[1] = "unique"
         /\ \A i, j \in 1..Len(all) :
              i < j /\ all[i].role = "call" /\ all[j].role = "call" /\ all[i].id = all[j].id =>
                all[i].round # all[j].round /\ all[i].id[1] = "turn"
<1> DEFINE all == history \o Added(req, made, text)
           n == Len(history)
<1>1. /\ n \in Nat /\ calls \in Nat /\ rounds \in Nat /\ Len(made) \in Nat
      /\ \A i \in 1..n : history[i] \in Msg
  BY DEF Types
<1>2. all \in Seq(Msg) /\ Len(all) \in Nat
  BY HistoryShift DEF Types
<1>3. /\ \A i \in 1..n : i \in 1..Len(all) /\ all[i] = history[i]
      /\ \A i \in 1..Len(all) : i > n =>
                 \/ i - n \in 1..Len(made) /\ all[i] = CallMsg(made[i - n])
                 \/ all[i].role = "assistant"
                 \/ /\ backend # "openai" /\ IsTool(req)
                    /\ all[i].role = "tool" /\ all[i].id = req.id
  BY AllMessages DEF Types
<1> HIDE DEF all
<1>4. ASSUME NEW i \in 1..n, all[i].role = "call"
      PROVE  /\ all[i].round \in Nat /\ all[i].round < rounds
             /\ all[i].id[1] = "unique" => all[i].id[2] \in Nat /\ all[i].id[2] <= calls
             /\ backend = "transformers" => all[i].id[1] = "unique"
             /\ all[i].id[1] \in {"unique", "turn"}
  <2>1. all[i] = history[i] /\ history[i] \in Msg /\ history[i].role = "call"
    BY <1>1, <1>3, <1>4
  <2>2. history[i].round \in Nat /\ history[i].id \in Ids
    BY <2>1 DEF Msg
  <2>3. /\ history[i].id[1] = "unique" => history[i].id[2] \in Nat
        /\ history[i].id[1] \in {"unique", "turn"}
    BY <2>2 DEF Ids
  <2>4. QED
    BY <2>1, <2>2, <2>3 DEF CallIInv
<1>5. ASSUME NEW i \in 1..Len(all), i > n, all[i].role = "call"
      PROVE  /\ i - n \in 1..Len(made) /\ all[i].round = rounds
             /\ \/ all[i].id = <<"unique", calls + (i - n)>>
                \/ backend # "transformers" /\ all[i].id = <<"turn", req.turn, i - n>>
  <2>1. i - n \in 1..Len(made) /\ all[i] = CallMsg(made[i - n])
    BY <1>3, <1>5
  <2>2. all[i].id = made[i - n].id /\ all[i].round = made[i - n].round
    BY <2>1, CallMsgIs
  <2>3. QED
    BY <2>1, <2>2
<1>6. ASSUME NEW i \in 1..Len(all), all[i].role = "call"
      PROVE  /\ all[i].round <= rounds
             /\ all[i].id[1] = "unique" => all[i].id[2] <= calls + Len(made)
             /\ backend = "transformers" => all[i].id[1] = "unique"
  <2>1. CASE i <= n
    <3>1. i \in 1..n
      BY <1>1, <1>2, <2>1
    <3>2. QED
      BY <1>1, <1>4, <1>6, <3>1
  <2>2. CASE i > n
    <3>1. /\ i - n \in 1..Len(made) /\ all[i].round = rounds
          /\ \/ all[i].id = <<"unique", calls + (i - n)>>
             \/ backend # "transformers" /\ all[i].id = <<"turn", req.turn, i - n>>
      BY <1>5, <1>6, <2>2
    <3>2. calls + (i - n) <= calls + Len(made)
      BY <1>1, <3>1
    <3>3. QED
      BY <1>1, <3>1, <3>2
  <2>3. QED
    BY <1>1, <2>1, <2>2
<1>7. ASSUME NEW i \in 1..Len(all), NEW j \in 1..Len(all), i < j,
             all[i].role = "call", all[j].role = "call", all[i].id = all[j].id
      PROVE  all[i].round # all[j].round /\ all[i].id[1] = "turn"
  <2>1. CASE j <= n
    <3>1. i \in 1..n /\ j \in 1..n
      BY <1>1, <1>2, <1>7, <2>1
    <3>2. all[i] = history[i] /\ all[j] = history[j]
      BY <1>3, <3>1
    <3>3. QED
      BY <1>7, <3>1, <3>2 DEF CallIInv, CallsDistinct
  <2>2. CASE i <= n /\ j > n
    <3>1. i \in 1..n
      BY <1>1, <1>2, <2>2
    <3>2. /\ all[i].round \in Nat /\ all[i].round < rounds
          /\ all[i].id[1] = "unique" => all[i].id[2] \in Nat /\ all[i].id[2] <= calls
          /\ all[i].id[1] \in {"unique", "turn"}
      BY <1>4, <1>7, <3>1
    <3>3. /\ j - n \in 1..Len(made) /\ all[j].round = rounds
          /\ \/ all[j].id = <<"unique", calls + (j - n)>>
             \/ all[j].id = <<"turn", req.turn, j - n>>
      BY <1>5, <1>7, <2>2
    <3>4. all[i].round # all[j].round
      BY <1>1, <3>2, <3>3
    <3>5. all[i].id[1] # "unique"
      <4>1. CASE all[j].id = <<"unique", calls + (j - n)>>
        <5>1. all[i].id[1] = "unique" /\ all[i].id[2] = calls + (j - n)
          BY <1>7, <4>1
        <5>2. QED
          BY <1>1, <3>2, <3>3, <5>1
      <4>2. CASE all[j].id = <<"turn", req.turn, j - n>>
        BY <1>7, <4>2
      <4>3. QED
        BY <3>3, <4>1, <4>2
    <3>6. QED
      BY <3>2, <3>4, <3>5
  <2>3. CASE i > n /\ j > n
    <3>1. /\ i - n \in 1..Len(made) /\ j - n \in 1..Len(made) /\ i - n < j - n
          /\ \/ all[i].id = <<"unique", calls + (i - n)>>
             \/ all[i].id = <<"turn", req.turn, i - n>>
          /\ \/ all[j].id = <<"unique", calls + (j - n)>>
             \/ all[j].id = <<"turn", req.turn, j - n>>
      BY <1>1, <1>2, <1>5, <1>7, <2>3
    <3>2. all[i].id # all[j].id
      <4>1. calls + (i - n) # calls + (j - n) /\ i - n # j - n
        BY <1>1, <3>1
      <4>2. CASE all[i].id = <<"unique", calls + (i - n)>>
        <5>1. all[i].id[1] = "unique" /\ all[i].id[2] = calls + (i - n)
          BY <4>2
        <5>2. \/ all[j].id[1] = "unique" /\ all[j].id[2] = calls + (j - n)
              \/ all[j].id[1] = "turn"
          BY <3>1
        <5>3. QED
          BY <4>1, <5>1, <5>2
      <4>3. CASE all[i].id = <<"turn", req.turn, i - n>>
        <5>1. all[i].id[1] = "turn" /\ all[i].id[3] = i - n
          BY <4>3
        <5>2. \/ all[j].id[1] = "unique"
              \/ all[j].id[1] = "turn" /\ all[j].id[3] = j - n
          BY <3>1
        <5>3. QED
          BY <4>1, <5>1, <5>2
      <4>4. QED
        BY <3>1, <4>2, <4>3
    <3>3. QED
      BY <1>7, <3>2
  <2>4. QED
    BY <1>1, <1>2, <1>7, <2>1, <2>2, <2>3
<1>8. QED
  BY <1>6, <1>7 DEF all

LEMMA TakeKeepsCalls ==
  ASSUME Types, CallIInv, LLMTake
  PROVE  CallIInv'
<1>1. UNCHANGED <<backend, calls>> /\ rounds' = rounds + 1 /\ rounds \in Nat
  BY RequestTaken DEF Types
<1>2. PICK req \in Request : /\ llm' = [pc |-> "generate", req |-> req, sent |-> Messages(req)]
                             /\ history' = Stored(req)
  BY RequestTaken
<1>3. /\ Len(history) \in Nat /\ Len(history') \in Nat
      /\ \A i \in 1..Len(history') : history'[i].role = "call" =>
            i \in 1..Len(history) /\ history'[i] = history[i]
  <2>1. CASE IsTool(req)
    BY <1>2, <2>1 DEF Stored, Types
  <2>2. CASE ~IsTool(req)
    <3>1. Message(req) \in Msg /\ Message(req).role = "user"
      BY <2>2, MessageType
    <3>2. history' = Append(history, Message(req))
      BY <1>2, <2>2 DEF Stored
    <3>3. /\ Len(history') = Len(history) + 1 /\ Len(history) \in Nat
          /\ \A i \in 1..Len(history) : history'[i] = history[i]
          /\ history'[Len(history) + 1] = Message(req)
      BY <3>1, <3>2 DEF Types
    <3>4. QED
      BY <3>1, <3>3
  <2>3. QED
    BY <2>1, <2>2
<1>4. \A i \in 1..Len(history) : history[i].role = "call" => history[i].round \in Nat
  BY DEF Types, Msg
<1>5. \A i \in 1..Len(history') : history'[i].role = "call" =>
        /\ history'[i].round < rounds' /\ history'[i].round <= rounds'
        /\ history'[i].id[1] = "unique" => history'[i].id[2] <= calls
        /\ backend = "transformers" => history'[i].id[1] = "unique"
  <2> SUFFICES ASSUME NEW i \in 1..Len(history'), history'[i].role = "call"
               PROVE  /\ history'[i].round < rounds' /\ history'[i].round <= rounds'
                      /\ history'[i].id[1] = "unique" => history'[i].id[2] <= calls
                      /\ backend = "transformers" => history'[i].id[1] = "unique"
    OBVIOUS
  <2>1. i \in 1..Len(history) /\ history'[i] = history[i] /\ history[i].role = "call"
    BY <1>3
  <2>2. /\ history[i].round <= rounds /\ history[i].round \in Nat
        /\ history[i].id[1] = "unique" => history[i].id[2] <= calls
        /\ backend = "transformers" => history[i].id[1] = "unique"
    BY <1>4, <2>1 DEF CallIInv
  <2>3. history[i].round < rounds' /\ history[i].round <= rounds'
    BY <1>1, <2>2
  <2>4. QED
    BY <2>1, <2>2, <2>3
<1>6. CallsDistinct'
  BY <1>3 DEF CallIInv, CallsDistinct
<1>7. QED
  BY <1>1, <1>5, <1>6 DEF CallIInv

LEMMA FinishKeepsCalls ==
  ASSUME Types, CallIInv, LLMFinish
  PROVE  CallIInv'
<1> DEFINE req == llm.req
<1>1. /\ UNCHANGED <<backend, rounds>> /\ llm.pc = "generate" /\ req \in Request
      /\ llm' = [pc |-> "idle"]
  BY AnswerArrives
<1>2. PICK made \in Seq(FnCall), text \in BOOLEAN :
        /\ calls' = calls + Len(made)
        /\ history' = HistoryAfter(req, made, text)
        /\ \A i \in 1..Len(made) :
              /\ made[i].round = rounds
              /\ \/ made[i].id = <<"unique", calls + i>>
                 \/ backend # "transformers" /\ made[i].id = <<"turn", req.turn, i>>
  BY AnswerArrives
<1> HIDE DEF req
<1>3. \A i \in 1..Len(made) :
            /\ made[i].round = rounds
            /\ \/ made[i].id = <<"unique", calls + i>>
               \/ backend # "transformers" /\ made[i].id = <<"turn", req.turn, i>>
  BY <1>2
<1> DEFINE all == history \o Added(req, made, text)
<1>4. \A i \in 1..Len(all) : all[i].role = "call" =>
        /\ all[i].round <= rounds
        /\ all[i].id[1] = "unique" => all[i].id[2] <= calls + Len(made)
        /\ backend = "transformers" => all[i].id[1] = "unique"
  BY <1>1, <1>3, AnswerKeepsCalls
<1>5. \A i, j \in 1..Len(all) :
        i < j /\ all[i].role = "call" /\ all[j].role = "call" /\ all[i].id = all[j].id =>
            all[i].round # all[j].round /\ all[i].id[1] = "turn"
  BY <1>1, <1>3, AnswerKeepsCalls
<1>6. /\ Len(history') \in Nat
      /\ \E k \in Nat : \A i \in 1..Len(history') :
                            i + k \in 1..Len(all) /\ history'[i] = all[i + k]
  <2>1. \E k \in Nat : /\ Len(HistoryAfter(req, made, text)) = Len(all) - k
                       /\ Len(HistoryAfter(req, made, text)) \in Nat
                       /\ \A i \in 1..Len(HistoryAfter(req, made, text)) :
                            /\ i + k \in 1..Len(all)
                            /\ HistoryAfter(req, made, text)[i] = all[i + k]
    BY <1>1, HistoryShift DEF Types
  <2> HIDE DEF all
  <2>2. QED
    BY <1>2, <2>1
<1> HIDE DEF all
<1>7. PICK k \in Nat : \A i \in 1..Len(history') :
                            i + k \in 1..Len(all) /\ history'[i] = all[i + k]
  BY <1>6
<1>8. CallsDistinct'
  <2> SUFFICES ASSUME NEW i \in 1..Len(history'), NEW j \in 1..Len(history'), i < j,
                      history'[i].role = "call", history'[j].role = "call",
                      history'[i].id = history'[j].id
               PROVE  history'[i].round # history'[j].round /\ history'[i].id[1] = "turn"
    BY DEF CallsDistinct
  <2>1. /\ i + k \in 1..Len(all) /\ history'[i] = all[i + k]
        /\ j + k \in 1..Len(all) /\ history'[j] = all[j + k] /\ i + k < j + k
    BY <1>6, <1>7
  <2>2. QED
    BY <1>5, <2>1
<1>9. \A i \in 1..Len(history') : history'[i].role = "call" =>
        /\ history'[i].round <= rounds
        /\ history'[i].id[1] = "unique" => history'[i].id[2] <= calls'
        /\ backend = "transformers" => history'[i].id[1] = "unique"
  BY <1>2, <1>4, <1>7
<1>10. llm'.pc # "generate"
  BY <1>1
<1>11. QED
  BY <1>1, <1>8, <1>9, <1>10 DEF CallIInv

LEMMA CallInvariant == DialogueSpec => []CallIInv
<1>1. DialogueInit => CallIInv
  BY DEF DialogueInit, CallIInv, CallsDistinct
<1>2. DialogueIInv /\ CallIInv /\ [DialogueNext]_dialogueVars => CallIInv'
  <2> SUFFICES ASSUME Types, CallIInv, [DialogueNext]_dialogueVars
               PROVE  CallIInv'
    BY DEF DialogueIInv
  <2>1. CASE Speak \/ Type \/ DrainSearched \/ (\E call \in client : ClientAnswers(call))
    <3>1. UNCHANGED <<backend, history, llm, calls, rounds>>
      BY <2>1, RequestEnters
    <3>2. QED
      BY <3>1 DEF CallIInv, CallsDistinct
  <2>2. CASE LLMFails \/ DrainTake \/ UNCHANGED dialogueVars
    <3>1. /\ UNCHANGED <<backend, history, calls, rounds>>
          /\ llm' = llm \/ llm' = [pc |-> "idle"] \/ llm' = [pc |-> "stuck"]
      BY <2>2, NothingEnters
    <3>2. llm'.pc = "generate" => llm.pc = "generate"
      BY <3>1
    <3>3. QED
      BY <3>1, <3>2 DEF CallIInv, CallsDistinct
  <2>3. QED
    BY <2>1, <2>2, TakeKeepsCalls, FinishKeepsCalls DEF DialogueNext, LLMStep, DrainStep
<1>3. QED
  BY <1>1, <1>2, DialogueInvariant, PTL DEF DialogueSpec

\* For any calls, ids and truncations: two calls of the history that cannot be
\* told apart were made for one turn in different requests to a provider
\* without ids.
THEOREM DialogueCallsDistinct == DialogueSpec => []CallsDistinct
<1>1. CallIInv => CallsDistinct
  BY DEF CallIInv
<1>2. QED
  BY <1>1, CallInvariant, PTL

LEMMA EnterKeepsOutputs ==
  ASSUME Types, OutputIInv,
         Speak \/ Type \/ DrainSearched \/ (\E call \in client : ClientAnswers(call))
  PROVE  OutputIInv'
<1>1. Pending' \subseteq Pending /\ UNCHANGED <<backend, history, llm, cut>>
  BY RequestEnters
<1>2. PICK req \in Request :
        /\ Waiting' \subseteq Waiting \cup {req}
        /\ ~IsTool(req) \/ \E call \in Pending : req.id = call.id
  BY RequestEnters
<1>3. \A id : Known(id)' <=> Known(id)
  BY <1>1 DEF Known
<1>4. IsTool(req) => Known(req.id)
  BY <1>2 DEF OutputIInv
<1>5. (\A c \in Pending' : Known(c.id)') /\ (\A r \in Waiting' : IsTool(r) => Known(r.id)')
  BY <1>1, <1>2, <1>3, <1>4 DEF OutputIInv
<1>6. QED
  BY <1>1, <1>5 DEF OutputIInv, OutputFollowsCall

\* The request has the history in front of the output it sends.
LEMMA TakeKeepsOutputs ==
  ASSUME Types, OutputIInv, LLMTake
  PROVE  OutputIInv'
<1> DEFINE n == Len(history)
<1>1. /\ UNCHANGED <<backend, cut>> /\ Pending' = Pending /\ Waiting' \subseteq Waiting
      /\ n \in Nat /\ history \in Seq(Msg)
  BY RequestTaken DEF Types
<1>2. PICK req \in Waiting \cap Request :
        /\ llm' = [pc |-> "generate", req |-> req, sent |-> Messages(req)]
        /\ history' = Stored(req)
  BY RequestTaken
<1>3. /\ Message(req) \in Msg
      /\ IsTool(req) => Message(req).id = req.id
      /\ ~IsTool(req) => Message(req).role = "user"
  BY MessageType DEF Message, Output
<1>4. /\ Stored(req) \in Seq(Msg) /\ Len(Stored(req)) \in Nat /\ n <= Len(Stored(req))
      /\ \A i \in 1..n : Stored(req)[i] = history[i]
      /\ \A i \in 1..Len(Stored(req)) : i > n => Stored(req)[i].role = "user"
      /\ IsTool(req) => Stored(req) = history
  <2>1. CASE IsTool(req)
    BY <1>1, <2>1 DEF Stored
  <2>2. CASE ~IsTool(req)
    <3>1. Stored(req) = Append(history, Message(req))
      BY <2>2 DEF Stored
    <3>2. /\ Append(history, Message(req)) \in Seq(Msg)
          /\ Len(Append(history, Message(req))) = n + 1
          /\ \A i \in 1..n : Append(history, Message(req))[i] = history[i]
          /\ Append(history, Message(req))[n + 1] = Message(req)
      BY <1>1, <1>3
    <3>3. QED
      BY <1>1, <1>3, <2>2, <3>1, <3>2
  <2>3. QED
    BY <2>1, <2>2
<1> HIDE DEF n
<1>5. \A id : Known(id) => Known(id)'
  <2> SUFFICES ASSUME NEW id, id \in CallIds(history)
               PROVE  id \in CallIds(Stored(req))
    BY <1>1, <1>2 DEF Known
  <2>1. PICK i \in 1..n : history[i].role = "call" /\ history[i].id = id
    BY CallIdsMeaning DEF n
  <2>2. i \in 1..Len(Stored(req)) /\ Stored(req)[i] = history[i]
    BY <1>1, <1>4, <2>1
  <2>3. \E j \in 1..Len(Stored(req)) : Stored(req)[j].role = "call" /\ Stored(req)[j].id = id
    BY <2>1, <2>2
  <2>4. QED
    BY <2>3, CallIdsMeaning
<1>6. ASSUME NEW i \in 1..Len(Stored(req)), Stored(req)[i].role = "tool"
      PROVE  /\ i \in 1..n /\ backend # "openai"
             /\ \/ Stored(req)[i].id \in cut
                \/ \E j \in 1..(i - 1) : /\ Stored(req)[j].role = "call"
                                         /\ Stored(req)[j].id = Stored(req)[i].id
  <2>1. i \in 1..n /\ Stored(req)[i] = history[i]
    BY <1>1, <1>4, <1>6
  <2>2. /\ backend # "openai"
        /\ \/ history[i].id \in cut
           \/ \E j \in 1..(i - 1) : history[j].role = "call" /\ history[j].id = history[i].id
    BY <1>6, <2>1 DEF OutputIInv, n
  <2>3. \A j \in 1..(i - 1) : Stored(req)[j] = history[j]
    BY <1>1, <1>4, <2>1
  <2>4. QED
    BY <2>1, <2>2, <2>3
<1> DEFINE base == IF backend = "openai" THEN Stored(req) ELSE history
           sent == Append(base, Message(req))
<1>7. llm'.pc = "generate" /\ llm'.sent = sent
  BY <1>2 DEF Messages
<1>8. /\ base \in Seq(Msg) /\ Len(base) \in Nat /\ n <= Len(base)
      /\ \A i \in 1..Len(base) : i > n => base[i].role = "user"
      /\ \A i \in 1..n : base[i] = history[i]
      /\ IsTool(req) => base = history
  BY <1>1, <1>4 DEF n
<1> HIDE DEF base
<1>9. /\ Len(sent) = Len(base) + 1 /\ sent[Len(base) + 1] = Message(req)
      /\ \A i \in 1..Len(base) : sent[i] = base[i]
  BY <1>3, <1>8
<1> HIDE DEF sent
<1>10. ASSUME NEW i \in 1..Len(sent), sent[i].role = "tool"
       PROVE  \/ sent[i].id \in cut
              \/ \E j \in 1..(i - 1) : sent[j].role = "call" /\ sent[j].id = sent[i].id
  <2>1. CASE i <= Len(base)
    <3>1. i \in 1..n /\ sent[i] = history[i]
      BY <1>1, <1>8, <1>9, <1>10, <2>1
    <3>2. \/ history[i].id \in cut
          \/ \E j \in 1..(i - 1) : history[j].role = "call" /\ history[j].id = history[i].id
      BY <1>10, <3>1 DEF OutputIInv, n
    <3>3. \A j \in 1..(i - 1) : sent[j] = history[j]
      BY <1>1, <1>8, <1>9, <3>1
    <3>4. QED
      BY <3>1, <3>2, <3>3
  <2>2. CASE i > Len(base)
    <3>1. i = Len(base) + 1 /\ sent[i] = Message(req)
      BY <1>8, <1>9, <2>2
    <3>2. IsTool(req) /\ Message(req).id = req.id /\ base = history /\ Len(base) = n
      BY <1>3, <1>8, <1>10, <3>1 DEF n
    <3>3. req.id \in cut \/ req.id \in CallIds(history)
      BY <3>2 DEF OutputIInv, Known
    <3>4. CASE req.id \in CallIds(history)
      <4>1. PICK j \in 1..n : history[j].role = "call" /\ history[j].id = req.id
        BY <3>4, CallIdsMeaning DEF n
      <4>2. j \in 1..(i - 1) /\ sent[j] = history[j]
        BY <1>1, <1>8, <1>9, <3>1, <3>2, <4>1
      <4>3. QED
        BY <3>1, <3>2, <4>1, <4>2
    <3>5. QED
      BY <3>1, <3>2, <3>3, <3>4
  <2>3. QED
    BY <1>8, <1>9, <2>1, <2>2
<1>11. OutputFollowsCall'
  BY <1>1, <1>7, <1>10 DEF OutputFollowsCall
<1>12. (\A c \in Pending' : Known(c.id)') /\ (\A r \in Waiting' : IsTool(r) => Known(r.id)')
  BY <1>1, <1>5 DEF OutputIInv
<1>13. QED
  BY <1>1, <1>2, <1>6, <1>11, <1>12 DEF OutputIInv

\* The truncation that separates an output from its call removes the only call
\* with that id, which is remembered in cut.
LEMMA FinishKeepsOutputs ==
  ASSUME Types, backend \in Backends, CallIInv, OutputIInv, LLMFinish
  PROVE  OutputIInv'
<1> DEFINE req == llm.req
           n == Len(history)
<1>1. /\ UNCHANGED backend /\ llm.pc = "generate" /\ req \in Request /\ req \in Waiting
      /\ llm' = [pc |-> "idle"] /\ Waiting' \subseteq Waiting
      /\ n \in Nat /\ history \in Seq(Msg)
  BY AnswerArrives DEF Types
<1>2. PICK made \in Seq(FnCall), text \in BOOLEAN :
        /\ Pending' \subseteq Pending \cup ToSet(made)
        /\ calls' = calls + Len(made)
        /\ history' = HistoryAfter(req, made, text)
        /\ cut' = cut \cup (CallIds(history \o Added(req, made, text)) \ CallIds(history'))
        /\ \A i \in 1..Len(made) :
              /\ made[i].round = rounds
              /\ \/ made[i].id = <<"unique", calls + i>>
                 \/ backend # "transformers" /\ made[i].id = <<"turn", req.turn, i>>
  BY AnswerArrives
<1> HIDE DEF req
<1>3. \A i \in 1..Len(made) :
            /\ made[i].round = rounds
            /\ \/ made[i].id = <<"unique", calls + i>>
               \/ backend # "transformers" /\ made[i].id = <<"turn", req.turn, i>>
  BY <1>2
<1> DEFINE all == history \o Added(req, made, text)
<1>4. /\ \A i \in 1..Len(all) : all[i].role = "call" =>
            (backend = "transformers" => all[i].id[1] = "unique")
      /\ \A i, j \in 1..Len(all) :
            i < j /\ all[i].role = "call" /\ all[j].role = "call" /\ all[i].id = all[j].id =>
                all[i].id[1] = "turn"
  <2>1. \A i \in 1..Len(all) : all[i].role = "call" =>
            /\ all[i].round <= rounds
            /\ all[i].id[1] = "unique" => all[i].id[2] <= calls + Len(made)
            /\ backend = "transformers" => all[i].id[1] = "unique"
    BY <1>1, <1>3, AnswerKeepsCalls
  <2>2. \A i, j \in 1..Len(all) :
            i < j /\ all[i].role = "call" /\ all[j].role = "call" /\ all[i].id = all[j].id =>
                all[i].round # all[j].round /\ all[i].id[1] = "turn"
    BY <1>1, <1>3, AnswerKeepsCalls
  <2> HIDE DEF all
  <2>3. QED
    BY <2>1, <2>2
<1>5. \A i \in 1..n : i \in 1..Len(all) /\ all[i] = history[i]
  BY <1>1, AllMessages
<1>6. \A l \in 1..Len(made) : n + l \in 1..Len(all) /\ all[n + l] = CallMsg(made[l])
  BY <1>1, AllMessages
<1>7. \A i \in 1..Len(all) : i > n =>
        \/ i - n \in 1..Len(made) /\ all[i] = CallMsg(made[i - n])
        \/ all[i].role = "assistant"
        \/ /\ backend # "openai" /\ IsTool(req)
           /\ all[i].role = "tool" /\ all[i].id = req.id
  BY <1>1, AllMessages
<1>8. /\ Len(history') \in Nat
      /\ \E k \in Nat : \A i \in 1..Len(history') :
                            i + k \in 1..Len(all) /\ history'[i] = all[i + k]
                            /\ Len(history') = Len(all) - k
  <2>1. \E k \in Nat : /\ Len(HistoryAfter(req, made, text)) = Len(all) - k
                       /\ Len(HistoryAfter(req, made, text)) \in Nat
                       /\ \A i \in 1..Len(HistoryAfter(req, made, text)) :
                            /\ i + k \in 1..Len(all)
                            /\ HistoryAfter(req, made, text)[i] = all[i + k]
    BY <1>1, HistoryShift DEF Types
  <2> HIDE DEF all
  <2>2. QED
    BY <1>2, <2>1
<1>9. cut' = cut \cup (CallIds(all) \ CallIds(history'))
  BY <1>2
<1>10. all \in Seq(Msg) /\ Len(all) \in Nat
  BY <1>1, HistoryShift
<1> HIDE DEF all, n
<1>11. PICK k \in Nat : \A i \in 1..Len(history') :
                            /\ i + k \in 1..Len(all) /\ history'[i] = all[i + k]
                            /\ Len(history') = Len(all) - k
  BY <1>8
<1>12. \A id : id \in cut \cup CallIds(all) => Known(id)'
  BY <1>9 DEF Known
<1>13. \A i \in 1..Len(all) : all[i].role = "call" => all[i].id \in CallIds(all)
  BY CallIdsMeaning
<1>14. \A id : Known(id) => Known(id)'
  <2> SUFFICES ASSUME NEW id, id \in CallIds(history)
               PROVE  Known(id)'
    BY <1>12 DEF Known
  <2>1. PICK i \in 1..n : history[i].role = "call" /\ history[i].id = id
    BY CallIdsMeaning DEF n
  <2>2. id \in CallIds(all)
    BY <1>5, <1>13, <2>1
  <2>3. QED
    BY <1>12, <2>2
<1>15. \A c \in ToSet(made) : Known(c.id)'
  <2> SUFFICES ASSUME NEW c \in ToSet(made)
               PROVE  Known(c.id)'
    OBVIOUS
  <2>1. PICK l \in 1..Len(made) : c = made[l]
    BY QueueEntries
  <2>2. /\ n + l \in 1..Len(all) /\ all[n + l] = CallMsg(made[l])
    BY <1>6
  <2>3. all[n + l].role = "call" /\ all[n + l].id = c.id
    BY <2>1, <2>2, CallMsgIs
  <2>4. QED
    BY <1>12, <1>13, <2>2, <2>3
<1>16. (\A c \in Pending' : Known(c.id)') /\ (\A r \in Waiting' : IsTool(r) => Known(r.id)')
  BY <1>1, <1>2, <1>14, <1>15 DEF OutputIInv
<1>17. ASSUME NEW p \in 1..Len(all), all[p].role = "tool"
       PROVE  /\ backend # "openai"
              /\ \/ all[p].id \in cut
                 \/ \E j \in 1..(p - 1) : /\ j \in 1..Len(all)
                                          /\ all[j].role = "call" /\ all[j].id = all[p].id
  <2>1. CASE p <= n
    <3>1. p \in 1..n /\ all[p] = history[p]
      BY <1>1, <1>5, <1>10, <2>1
    <3>2. /\ backend # "openai"
          /\ \/ history[p].id \in cut
             \/ \E j \in 1..(p - 1) : history[j].role = "call" /\ history[j].id = history[p].id
      BY <1>17, <3>1 DEF OutputIInv, n
    <3>3. \A j \in 1..(p - 1) : j \in 1..Len(all) /\ all[j] = history[j]
      BY <1>1, <1>5, <3>1
    <3>4. QED
      BY <3>1, <3>2, <3>3
  <2>2. CASE p > n
    <3>1. backend # "openai" /\ IsTool(req) /\ all[p].id = req.id
      <4>1. \A c : CallMsg(c).role = "call"
        BY CallMsgIs
      <4>2. QED
        BY <1>7, <1>17, <2>2, <4>1
    <3>2. req.id \in cut \/ req.id \in CallIds(history)
      BY <1>1, <3>1 DEF OutputIInv, Known
    <3>3. CASE req.id \in CallIds(history)
      <4>1. PICK j \in 1..n : history[j].role = "call" /\ history[j].id = req.id
        BY <3>3, CallIdsMeaning DEF n
      <4>2. j \in 1..(p - 1) /\ j \in 1..Len(all) /\ all[j] = history[j]
        BY <1>1, <1>5, <1>10, <2>2, <4>1
      <4>3. QED
        BY <3>1, <4>1, <4>2
    <3>4. QED
      BY <3>1, <3>2, <3>3
  <2>3. QED
    BY <1>1, <1>10, <2>1, <2>2
<1>18. ASSUME NEW i \in 1..Len(history'), history'[i].role = "tool"
       PROVE  /\ backend # "openai"
              /\ \/ history'[i].id \in cut'
                 \/ \E j \in 1..(i - 1) : /\ history'[j].role = "call"
                                          /\ history'[j].id = history'[i].id
  <2> DEFINE p == i + k
             id == history'[i].id
  <2>1. /\ p \in 1..Len(all) /\ history'[i] = all[p] /\ Len(history') = Len(all) - k
        /\ all[p].role = "tool" /\ all[p].id = id
    BY <1>11, <1>18
  <2> HIDE DEF id
  <2>2. /\ backend # "openai"
        /\ \/ id \in cut
           \/ \E j \in 1..(p - 1) : j \in 1..Len(all) /\ all[j].role = "call" /\ all[j].id = id
    BY <1>17, <2>1
  <2>3. CASE id \in cut
    BY <1>9, <2>2, <2>3 DEF id
  <2>4. CASE \E j \in 1..(p - 1) : j \in 1..Len(all) /\ all[j].role = "call" /\ all[j].id = id
    <3>1. PICK j \in 1..(p - 1) : j \in 1..Len(all) /\ all[j].role = "call" /\ all[j].id = id
      BY <2>4
    <3>2. CASE j > k
      <4>1. j - k \in 1..(i - 1) /\ j - k \in 1..Len(history')
        <5>1. j \in Nat /\ j <= i + k - 1 /\ i \in Nat /\ i <= Len(history')
          BY <1>8, <3>1
        <5>2. QED
          BY <1>8, <3>2, <5>1
      <4>2. (j - k) + k = j
        BY <3>1
      <4>3. history'[j - k] = all[j]
        BY <1>11, <4>1, <4>2
      <4>4. QED
        BY <2>2, <3>1, <4>1, <4>3 DEF id
    <3>3. CASE j <= k
      <4>1. id \notin CallIds(history')
        <5> SUFFICES ASSUME id \in CallIds(history')
                     PROVE  FALSE
          OBVIOUS
        <5>1. PICK q \in 1..Len(history') : history'[q].role = "call" /\ history'[q].id = id
          BY CallIdsMeaning
        <5>2. q + k \in 1..Len(all) /\ all[q + k].role = "call" /\ all[q + k].id = id /\ j < q + k
          BY <1>8, <1>11, <3>1, <3>3, <5>1
        <5>3. all[j].id[1] = "turn"
          BY <1>4, <3>1, <5>2
        <5>4. backend = "transformers"
          BY <2>2, DialogueAssumption
        <5>5. QED
          BY <1>4, <3>1, <5>3, <5>4
      <4>2. id \in CallIds(all)
        BY <1>13, <3>1
      <4>3. QED
        BY <1>9, <2>2, <4>1, <4>2 DEF id
    <3>4. QED
      BY <3>1, <3>2, <3>3
  <2>5. QED
    BY <2>2, <2>3, <2>4
<1>19. OutputFollowsCall'
  BY <1>1 DEF OutputFollowsCall
<1>20. QED
  BY <1>1, <1>16, <1>18, <1>19 DEF OutputIInv

LEMMA OutputInvariant == DialogueSpec => []OutputIInv
<1>1. DialogueInit => OutputIInv
  <2> SUFFICES ASSUME DialogueInit PROVE OutputIInv
    OBVIOUS
  <2>1. ToSet(text_out) = {} /\ ToSet(drain) = {} /\ ToSet(text_prompt) = {} /\ Len(history) = 0
    BY DEF DialogueInit, ToSet
  <2>2. Pending = {} /\ Waiting = {} /\ llm.pc = "idle"
    BY <2>1 DEF Pending, Waiting, DialogueInit
  <2>3. QED
    BY <2>1, <2>2 DEF OutputIInv, OutputFollowsCall
<1>2. DialogueIInv /\ TurnIInv /\ CallIInv /\ OutputIInv /\ [DialogueNext]_dialogueVars => OutputIInv'
  <2> SUFFICES ASSUME Types, backend \in Backends, CallIInv, OutputIInv,
                      [DialogueNext]_dialogueVars
               PROVE  OutputIInv'
    BY DEF DialogueIInv, TurnIInv, TurnsKnown
  <2>1. CASE LLMFails \/ DrainTake \/ UNCHANGED dialogueVars
    <3>1. /\ UNCHANGED <<backend, history, cut>>
          /\ Pending' \subseteq Pending /\ Waiting' \subseteq Waiting
          /\ llm' = llm \/ llm' = [pc |-> "idle"] \/ llm' = [pc |-> "stuck"]
      BY <2>1, NothingEnters
    <3>2. \A id : Known(id)' <=> Known(id)
      BY <3>1 DEF Known
    <3>3. OutputFollowsCall'
      <4>1. CASE llm' = llm
        BY <3>1, <4>1 DEF OutputIInv, OutputFollowsCall
      <4>2. CASE llm' = [pc |-> "idle"] \/ llm' = [pc |-> "stuck"]
        BY <4>2 DEF OutputFollowsCall
      <4>3. QED
        BY <3>1, <4>1, <4>2
    <3>4. QED
      BY <3>1, <3>2, <3>3 DEF OutputIInv
  <2>2. QED
    BY <2>1, EnterKeepsOutputs, TakeKeepsOutputs, FinishKeepsOutputs
       DEF DialogueNext, LLMStep, DrainStep
<1>3. QED
  BY <1>1, <1>2, DialogueInvariant, TurnInvariant, CallInvariant, PTL DEF DialogueSpec

\* The model is never sent the output of a call it does not see in front of it,
\* for any prompts and calls in between, unless max_history has cut the call off.
THEOREM DialogueOutputFollowsCall == DialogueSpec => []OutputFollowsCall
<1>1. OutputIInv => OutputFollowsCall
  BY DEF OutputIInv
<1>2. QED
  BY <1>1, OutputInvariant, PTL
===============================================================================
