------------------------------ MODULE Dialogue ------------------------------
(***************************************************************************)
(* What the LLM is told: the conversation history of the two LLM handlers, *)
(* and the round trip of function calls, which the drain thread of the     *)
(* service answers itself (search_knowledge) or the client.                *)
(*                                                                         *)
(* Only the handler's thread uses the history, so what it does before and  *)
(* after it waits for the model is one step each.  A cancel only makes the *)
(* answer shorter (Pipeline.tla has the cancels).  The system prompt, the  *)
(* same in every request, is left out.                                     *)
(*                                                                         *)
(* Ghosts: the no of a call, cut has the ids of calls that truncation has  *)
(* removed, asked the calls of search_knowledge, served the calls whose    *)
(* output the LLM has taken.                                               *)
(***************************************************************************)
EXTENDS Naturals, SequencesExt

CONSTANTS
    Backends,   \* subset of {"openai", "transformers"}
    MaxHistory, \* max_history
    MaxPrompts, \* bound: what the user says or types
    MaxCalls,   \* bound: calls the model makes
    MaxFaults   \* bound: models that fail

ASSUME DialogueAssumption ==
    /\ Backends \subseteq {"openai", "transformers"}
    /\ MaxHistory \in Nat \ {0}
    /\ {MaxPrompts, MaxCalls, MaxFaults} \subseteq Nat

VARIABLES
    backend,
    history,       \* _history
    llm,           \* the LLM handler's thread
    text_prompt,   \* queue of GenerateResponseRequests
    text_out,      \* queue of FunctionCallEvents
    drain,         \* the drain thread: the call it executes
    client,        \* calls the client has seen and not answered
    spoken, seq,   \* turn ids given by the VAD and by the service
    calls,         \* calls made; the counter for ids of the transformers handler
    rounds,        \* requests made to the model
    faults,        \* counter for the bound
    cut, asked, served

counters == <<spoken, seq, calls, rounds, faults>>
llmVars == <<history, llm>>
ghosts == <<cut, asked, served>>
dialogueVars == <<backend, llmVars, text_prompt, text_out, drain, client, counters, ghosts>>

\* Messages of the history.
User(turn, src) == [role |-> "user", turn |-> turn, src |-> src]
Answer(turn) == [role |-> "assistant", turn |-> turn]
CallMsg(call) == [role |-> "call", id |-> call.id, round |-> call.round]
Output(id) == [role |-> "tool", id |-> id]

\* GenerateResponseRequest for a prompt, and for the output of a call.
Prompt(turn, src) == [kind |-> "prompt", turn |-> turn, src |-> src]
ToolOutput(turn, call) == [kind |-> "tool", turn |-> turn, id |-> call.id, no |-> call.no]

IsTool(req) == req.kind = "tool"
Message(req) == IF IsTool(req) THEN Output(req.id) ELSE User(req.turn, req.src)

DialogueInit ==
    /\ backend \in Backends
    /\ history = <<>> /\ llm = [pc |-> "idle"]
    /\ text_prompt = <<>> /\ text_out = <<>>
    /\ drain = <<>> /\ client = {}
    /\ spoken = 0 /\ seq = 0 /\ calls = 0 /\ rounds = 0 /\ faults = 0
    /\ cut = {} /\ asked = {} /\ served = {}

-----------------------------------------------------------------------------
\* The user speaks (the notifier makes it a request) or types.
Speak ==
    /\ spoken + seq < MaxPrompts
    /\ spoken' = spoken + 1
    /\ text_prompt' = Append(text_prompt, Prompt(spoken', "vad"))
    /\ UNCHANGED <<backend, llmVars, text_out, drain, client, seq, calls, rounds, faults, ghosts>>

Type ==
    /\ spoken + seq < MaxPrompts
    /\ seq' = seq + 1
    /\ text_prompt' = Append(text_prompt, Prompt(seq', "client"))
    /\ UNCHANGED <<backend, llmVars, text_out, drain, client, spoken, calls, rounds, faults, ghosts>>

\* conversation.item.create with a function_call_output: a turn id of its own.
ClientAnswers(call) ==
    /\ call \in client
    /\ client' = client \ {call}
    /\ seq' = seq + 1
    /\ text_prompt' = Append(text_prompt, ToolOutput(seq', call))
    /\ UNCHANGED <<backend, llmVars, text_out, drain, spoken, calls, rounds, faults, ghosts>>

-----------------------------------------------------------------------------
\* The prompt enters the history, the output of a call does not.
Stored(req) == IF IsTool(req) THEN history ELSE Append(history, Message(req))

\* Mutant: both handlers store the prompt first.
MessagesAfterStore(req) == Append(Stored(req), Message(req))

\* The request: the OpenAI handler has stored the prompt when it copies the
\* history, and appends it once more.
Messages(req) == Append(IF backend = "openai" THEN Stored(req) ELSE history, Message(req))

\* process() up to the request to the model.
LLMTake ==
    /\ llm.pc = "idle" /\ text_prompt # <<>>
    /\ LET req == Head(text_prompt) IN
       /\ llm' = [pc |-> "generate", req |-> req, sent |-> Messages(req)]
       /\ history' = Stored(req)
       /\ served' = IF IsTool(req) THEN served \cup {req.no} ELSE served
    /\ text_prompt' = Tail(text_prompt)
    /\ rounds' = rounds + 1
    /\ UNCHANGED <<backend, text_out, drain, client, spoken, seq, calls, faults, cut, asked>>

\* The request raises, or the stream does: the run loop prints it.  In the
\* transformers handler the model raises in a thread of its own, and the
\* iterator over its output waits for ever.
LLMFails ==
    /\ llm.pc = "generate" /\ faults < MaxFaults
    /\ faults' = faults + 1
    /\ \/ llm' = [pc |-> "idle"]
       \/ backend = "transformers" /\ llm' = [pc |-> "stuck"]
    /\ UNCHANGED <<backend, history, text_prompt, text_out, drain, client, spoken, seq, calls,
                   rounds, ghosts>>

\* Mutant: nothing is ever forgotten.
KeepsAll(h) == h

\* self._history[-self.max_history:]
Truncated(h) == IF Len(h) > MaxHistory THEN SubSeq(h, Len(h) - MaxHistory + 1, Len(h)) ELSE h

\* Mutant: the index of the call is forgotten.
CallIdOfTurn(turn, i, given) == <<"turn", turn>>

\* The provider's id or one made of turn and index; or a counter.
CallId(turn, i, given) ==
    IF backend = "transformers" \/ given THEN <<"unique", calls + i>> ELSE <<"turn", turn, i>>

\* How many of n calls in an answer are found.  The greedy pattern of the
\* transformers handler takes two of them for one, which is no JSON.
Found(n) == IF backend = "transformers" /\ n > 1 THEN 0 ELSE n

\* Mutant: only the last of several calls is stored.
StoresLast(made) == IF made = <<>> THEN <<>> ELSE <<CallMsg(Last(made))>>

StoredCalls(made) == [i \in 1..Len(made) |-> CallMsg(made[i])]

\* What an answer adds to the history: the calls, and else the text, be it
\* empty; or the calls, the output that was answered, and the text if any,
\* of which the calls are part.
Added(req, made, text) ==
    IF backend = "openai"
    THEN IF made # <<>> THEN StoredCalls(made) ELSE <<Answer(req.turn)>>
    ELSE StoredCalls(made) \o (IF IsTool(req) THEN <<Message(req)>> ELSE <<>>)
         \o (IF text THEN <<Answer(req.turn)>> ELSE <<>>)

\* Truncation is skipped by the OpenAI handler after calls.
HistoryAfter(req, made, text) ==
    LET h == history \o Added(req, made, text)
    IN IF backend = "openai" /\ made # <<>> THEN h ELSE Truncated(h)

CallIds(h) == {h[i].id : i \in {j \in 1..Len(h) : h[j].role = "call"}}

\* The answer: n calls of tools, with or without ids, and text or none.
LLMFinish ==
    /\ llm.pc = "generate"
    /\ \E n \in 0..2, given, text \in BOOLEAN, name \in {"search_knowledge", "other"} :
        /\ calls + n <= MaxCalls
        /\ backend = "transformers" /\ n > 0 => text
        /\ LET made == [i \in 1..Found(n) |->
                            [id |-> CallId(llm.req.turn, i, given), name |-> name,
                             turn |-> llm.req.turn, round |-> rounds, no |-> calls + i]]
           IN /\ text_out' = text_out \o made
              /\ history' = HistoryAfter(llm.req, made, text)
              /\ asked' = IF name = "search_knowledge" THEN asked \cup {c.no : c \in ToSet(made)}
                          ELSE asked
              /\ cut' = cut \cup (CallIds(history \o Added(llm.req, made, text)) \ CallIds(history'))
              /\ calls' = calls + Len(made)
    /\ llm' = [pc |-> "idle"]
    /\ UNCHANGED <<backend, text_prompt, drain, client, spoken, seq, rounds, faults, served>>

-----------------------------------------------------------------------------
\* _handle_pipeline_event of a FunctionCallEvent: the client sees it; the
\* drain thread executes search_knowledge before it does anything else.
DrainTake ==
    /\ drain = <<>> /\ text_out # <<>>
    /\ LET call == Head(text_out) IN
       IF call.name = "search_knowledge"
       THEN drain' = <<call>> /\ UNCHANGED client
       ELSE client' = client \cup {call} /\ UNCHANGED drain
    /\ text_out' = Tail(text_out)
    /\ UNCHANGED <<backend, llmVars, text_prompt, counters, ghosts>>

\* Mutant: the turn of the call is not passed on.
NoTurn(call) == 0

\* The continuation belongs to the turn of the call.
TurnOf(call) == call.turn

\* Mutant: what the search raises ends the handling of the event.
NoOutputOnError(found, call) ==
    IF found THEN Append(text_prompt, ToolOutput(TurnOf(call), call)) ELSE text_prompt

\* An exception of the search counts as nothing found.
WithOutput(found, call) == Append(text_prompt, ToolOutput(TurnOf(call), call))

DrainSearched ==
    /\ drain # <<>>
    /\ \/ text_prompt' = WithOutput(TRUE, Head(drain)) /\ UNCHANGED faults
       \/ /\ faults < MaxFaults /\ faults' = faults + 1
          /\ text_prompt' = WithOutput(FALSE, Head(drain))
    /\ drain' = <<>>
    /\ UNCHANGED <<backend, llmVars, text_out, client, spoken, seq, calls, rounds, ghosts>>

LLMStep == LLMTake \/ LLMFails \/ LLMFinish
DrainStep == DrainTake \/ DrainSearched

DialogueNext ==
    \/ Speak \/ Type \/ \E call \in client : ClientAnswers(call)
    \/ LLMStep \/ DrainStep

\* The two threads go on, and the model answers or fails; the user and the
\* client need not do anything.
DialogueSpec ==
    /\ DialogueInit /\ [][DialogueNext]_dialogueVars
    /\ WF_dialogueVars(LLMStep) /\ WF_dialogueVars(DrainStep)

-----------------------------------------------------------------------------
IsMessage(m) ==
    \/ m.role = "user" /\ m.turn \in 1..(MaxPrompts + MaxCalls) /\ m.src \in {"vad", "client"}
    \/ m.role = "assistant" /\ m.turn \in 1..(MaxPrompts + MaxCalls)
    \/ m.role \in {"call", "tool"} /\ m.id[1] \in {"unique", "turn"}

\* Type correctness; every answer belongs to the turn of some prompt or call.
DialogueTypeOK ==
    /\ backend \in Backends
    /\ \A m \in ToSet(history) : IsMessage(m)
    /\ llm.pc \in {"idle", "generate", "stuck"}
    /\ llm.pc = "generate" => \A m \in ToSet(llm.sent) : IsMessage(m)
    /\ \A c \in ToSet(text_out) \cup client \cup ToSet(drain) :
        c.no \in 1..calls /\ c.turn \in 1..(spoken + seq)
    /\ Len(drain) <= 1
    /\ served \subseteq 1..calls /\ asked \subseteq 1..calls

\* The output of a call is only sent together with the call, wherever the
\* prompts of the user and other calls came in between, unless the call has
\* been truncated away.
OutputFollowsCall ==
    llm.pc = "generate" =>
        \A i \in 1..Len(llm.sent) : llm.sent[i].role = "tool" =>
            \/ llm.sent[i].id \in cut
            \/ \E j \in 1..(i - 1) : llm.sent[j].role = "call" /\ llm.sent[j].id = llm.sent[i].id

\* max_history holds for the conversation as of the last answer: only what
\* came after it, unanswered prompts and calls, may go beyond.
AnswersWithinLimit ==
    \A i \in 1..Len(history) : history[i].role = "assistant" => i <= MaxHistory

\* The model is told every prompt once, except that the OpenAI handler sends
\* the prompt it is answering twice in a row.
PromptsOnce ==
    llm.pc = "generate" =>
        LET sent == llm.sent IN
        \A i, j \in 1..Len(sent) :
            i < j /\ sent[i] = sent[j] /\ sent[i].role = "user" =>
                backend = "openai" /\ j = Len(sent) /\ i = j - 1

\* Two calls in the history have the same id only if the provider gives no ids
\* and they are of two answers to one turn id, such as the rounds of a
\* server-side tool; the calls of one answer can always be told apart.
CallsDistinct ==
    \A i, j \in 1..Len(history) :
        i < j /\ history[i].role = "call" /\ history[j].role = "call"
              /\ history[i].id = history[j].id =>
            history[i].round # history[j].round /\ history[i].id[1] = "turn"

\* The model gets the output of every search_knowledge call it has made, also
\* if the search raises, unless it has hung itself up.
KnowledgeServed ==
    \A n \in 1..MaxCalls : n \in asked ~> n \in served \/ llm.pc = "stuck"
=============================================================================
