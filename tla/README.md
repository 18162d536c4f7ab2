# s2s-vn in TLA+

s2s-vn is a Vietnamese speech-to-speech server: microphone audio comes in over a
realtime protocol, is cut into turns, transcribed, answered by a language model
and spoken, while the user may interrupt at any moment. Six handler threads, a
drain thread, a warm-up thread and the event loop share queues, a generation
counter, the models and the session's state, most of it without locks; around
the sessions, the server's configuration, a self-test and an LLM proxy share that
event loop. These modules state
what has to be true of that concurrency, TLC checks it on small instances, and
TLAPS proves every one of their safety properties for every instance.

Paths below are relative to `src/src/s2s_vn/`.

## The system

| component | state | operations | talks to |
|---|---|---|---|
| `VAD/vad_handler.py` | byte buffer, accumulated speech, turn id, silence, half or fully loaded model | `process` (chunk, end marker), `warmup` | reads `audio_in`; cancels `CancelScope`; puts `spoken_prompt`, `text_out` |
| `STT/*_stt_handler.py` | model | `process` of live snapshots and final segments | `spoken_prompt` to `stt_output`, `text_out` |
| `STT/transcription_notifier.py` | none | `process` | `stt_output` to `text_prompt`, `text_out` |
| `LLM/llm_openai_compatible.py`, `LLM/transformers_llm.py` | history, the open stream | `process` | `text_prompt` to `lm_response`, `text_out` |
| `LLM/lm_output_processor.py` | text and generation per turn id | `process` of chunks and ends | `lm_response` to `lm_processed`, `text_out` |
| `TTS/*_tts_handler.py` | model, the running synthesis | `process` | `lm_processed` to `audio_out` |
| `pipeline/messages.py` `CancelScope` | generation | `cancel`, `current` | every handler above and the service |
| `base_handler.py`, `utils/thread_manager.py` | stop event, threads | `run`, `start`, `stop` | one thread per handler |
| `api/openai_realtime/realtime_service.py` | open response and its turn, current VAD turn, `_seq`, maps | client events (loop thread), `_drain` (drain thread), warm-up thread | `text_out`, `audio_out`, `text_prompt`, `audio_in`, `CancelScope` |
| `websocket_router.py`, `webrtc_router.py` | event queue, output track | transport | the service |
| `server.py` configuration | one configuration object, `config.json` | `POST /v1/config`, `save_config`, `load_config`, `main` | handlers built for later sessions |
| `server.py` self-test and LLM proxy | self-test lock; one worker thread per proxy request | `pipeline_test`, `llm_proxy` | the event loop, handlers of their own |
| `s2s_pipeline.py`, `backend_registry.py` | the session's queues and threads | build, `warmup_all` | the handlers' `warmup` |
| `api/rag_service.py` | vector store | add, search, delete | the service's `search_knowledge` |
| `talk.py`, `cli.py` | playback buffer | terminal client | the server |

What is hard about it, and what makes each part correct:

* **VAD.** Chunks do not align with frames, the model is loaded by another thread
  in two assignments, the silence limit changes at run time. Correct: no frame of
  a turn is lost or given to two turns, and what the client is told to be
  committed is what the STT gets.
* **Handlers.** A cancel is only a counter; each thread notices it at its own
  points. Correct: what is announced is in causal order, a cancel silences speech
  at once, nothing leaks from one answer to another, and the pipeline
  comes to rest (up to an LLM that hangs in the Transformers streamer).
* **Service.** Two threads write the response's state, and the order in which the
  two queues are drained is unrelated to the order in which they were filled.
  Correct: one response at a time, opened and closed once, audio only within a
  response of its turn, at most one delta without a response per client cancel.
* **Whole session.** Turn ids of the VAD and of client items come from two
  counters; the VAD and the service both cancel. Correct: answers are heard in
  order, old audio stops, the right response is finished, everything is delivered.
* **Loading.** The background warm-up and the handler's own thread load the same
  model, with a lock or without. Correct: a model is used only when it is whole,
  loaded once where there is a lock, and `server.model_ready` is true when it comes.
* **Event loop.** Joins, proxy answers and the self-test's lock sit on the loop that
  also delivers events. Correct: the loop gets free again, every thread of a closed
  session ends, two self-tests never overlap (each with the exceptions listed below).
* **Configuration.** Fields are assigned while they are validated, in another order
  than they are read; the file is truncated and then written; the server may be
  killed at any moment. Correct: what was acknowledged and written survives, a session has
  the key its backend needs, the server starts again (with the exceptions listed below).
* **Dialogue.** Prompts, tool calls and their outputs take different ways to the
  history. Correct: a tool's output is sent after its call, a prompt is told once,
  the history stays bounded, every knowledge call is served.

## Modules

`TurnSegmenter` is the abstract user: turns opened with one cancel and
`speech_started`, closed with `speech_stopped` and one final segment, or forgotten.

`VAD` is `SileroVADHandler` frame by frame. A chunk is its length, the buffer a
number of units, accumulated speech the sequence of frame numbers, so that a lost
or repeated frame shows. Actions: `Gather` (no frame complete), `SpeechFrame` and
`SilenceFrame` (the whole of `process` for that classification, including the
snapshot and `_emit_utterance`), `Commit` (the end marker), `LazyWarmupFails`,
`FrameRaises`, the two assignments of `warmup` on the other thread, and
`PipelineUpdate`. `audio_in` has one producer and one consumer, so an item is
chosen when it is taken. `MaxItems` bounds the items.

`Pipeline` has the threads behind the VAD. It extends `TurnSegmenter`, whose
actions `Speak` uses, so that the composition with `VAD` is the refinement
checked in run `vad`. (Only the turns with a positive silence limit are used;
`BlipTurn` and `ProgressAndEnd` are what the VAD does when the limit is 0.) Every
point at which a handler reads the generation, and every put, is a step of its
own, except that the puts at the end of one LLM request are one step. Whatever a
model returns, and with `Failures` whether it raises or returns nothing (for the TTS:
no audio), is arbitrary; an LLM that raises goes on, or is `"hung"`, which is the loop of
the Transformers handler over a streamer that `generate`, raising in a thread of its own,
never ends. The three TTS backends share the shape "check, then put, then
`ResponseDone`"; the STT backends differ in `SttDiscards`: Zipformer returns
nothing after a cancel, Whisper what it has. The notation follows the code:
`gens` and `buffers` are the processor's maps, `llm.gen` is `gen_start`, `tts.gen`
is `gen`. Ghost fields (`src`, `gen0`, `barged`, `late`) are read by no guard.

`RealtimeService` has the session's response state. The drain thread's program
counter `drain.pc` stops between any two accesses to `response_id` that the event
loop could interleave with: test, start, announce, deliver, cancel, emit, clear.
Several events of one emission are one entry of `sent`. Alone, the module is fed
with any message in any order (`TextMessages`, `AudioMessages`), which is more than
the pipeline can do, and makes its results independent of `Pipeline`.

`ResponseProtocol` is the abstract promise to the client: a log of all server events,
in which a response is created when none is open, everything about a response
(`ResponseEvents`) refers to the open one, and it is closed once; events about turns may
come in between. `RealtimeService` keeps it as long as the client has not cancelled.

`Session` composes `Pipeline` and `RealtimeService` on the same queues, the same
generation and the same counter of client items. The drain thread takes the head
of `text_out`, then of `audio_out`, and goes on when the one it looks at is empty.

`ModelLoading` is `warmup` and `warmup_all` for every backend. A load is the
sequence of what it does that another thread can see: the attributes it assigns in
their order, the two steps of writing Zipformer's `tokens.txt` (one file, whoever
writes it), or `raise`. `bg.next` has the handlers that `warmup_all` has not come to;
`FirstOf` takes them in the order of the pipeline (`StageOrder`). `Loads` has one row per backend, with the attribute that
`process` tests and whether there is a lock. Actions: `LoadEnter` (lock and second
look), `LoadStep`, `LoadRaises`, the background thread's `BgNext` and `BgReturns`,
and for a handler's thread `HandlerTake`, `HandlerLoaded`, `HandlerUsed` (after which
a Transformers LLM may be `"hung"`). Ghosts:
`loads` counts completed loads, `failed` has the handlers whose warm-up was tried in
vain or skipped at the deadline.

`Server` extends it with the event loop. `loop` is `"free"` or what holds it: the
construction of a session, the join of its threads (`ThreadManager.stop` is called
from a coroutine), or a proxy request waiting on a queue. Sessions: `Connect`,
`CreateSender`, `Announce` (an event before `CreateSender` is lost), `BgEmit`
(`server.model_ready`), `DrainEmit`, the callback `PutEvent` with its bounded queue,
`Send`, `Disconnect`, `HandlerEnds`, `DrainEnds`, `JoinEnds`. Proxy: `ProxyStart`,
`WorkerAnswers`, `ProxyGet`, `ProxySent`, `ProxyTimeout`, `ProxyGone`, `WorkerEnds`.
`WorkerAnswers` may leave the worker `"hung"`. Self-test: `TestStart`, `TestThreadEnds`,
`TestLLMHangs` (`stuck` counts the thread that `gather` then waits for), `TestEnd`. Ghosts:
`lost` has the events of a session that came before there was a send task or met a full
queue, `raised` that a thread of a self-test raised.

`ConfigStore` is the configuration object and its file. Settings that the code
treats alike are one field: the key, the backend that may need it, and plain fields.
The orders in which the code assigns, saves and reads them are ranks (`AssignOrder`,
`SaveOrder`, `BuildOrder`); a thread keeps the set of fields it has done or has still to do.
`PostStart`, `PostAssign`, `PostCheck`, `PostRead`, `PostOpen`, `PostWrite` and
`PostSaveFails` are one request (each runs in a thread of its own, a sync `def`);
`BuildStart`, `BuildRead`, `BuildEnd` read the configuration for a session; `Crash`
is `kill`, and `ConfigInit` and `Restart` are `main`: `Loaded` is the file if it can be
read and else the command line flags, which may differ at every start (`Files`, `Flags`).
That a write fails is only logged, and the request is answered as saved (`Answered`). A file that two
saves write at once is either save or a mixture. Ghosts: `promise` is the configuration of the last `POST` if it
was answered 200 and ran alone, whether it was written, and in which life of the server; `unkeyed` that the object in memory has been without a key it
needs; `torn` that a save was cut off, failed, or overlapped another.

`Dialogue` is the history of both LLM handlers and the round trip of function
calls. `Speak`, `Type` and `ClientAnswers` put requests, `LLMTake` builds the request
to the model, `LLMFinish` stores what came back, for either handler, `LLMFails` is a
model that raises, `DrainTake` and `DrainSearched` are the service's handling of a
call (`search_knowledge` is answered by the drain thread itself, also when the search
raises). Ghosts: `cut` has the ids of calls truncated away, `asked` and `served` the
knowledge calls made and answered, a call's `no` its number, `round` the request.

`VAD_proofs`, `Pipeline_proofs`, `Service_proofs`, `Session_proofs`, `Loading_proofs`,
`Server_proofs`, `Config_proofs` and `Dialogue_proofs` hold the theorems, one module for
each module of the model (the model of the server has two, `Loading_proofs` is about the
loads alone); `MC*` modules only name what a configuration instantiates.

## Runs

| run | question | states |
|---|---|---|
| `vad` | Is audio cut without loss, are events and segments consistent, does `VAD` implement `TurnSegmenter`? | 129,052 |
| `pipeline` | Order, cancels and the processor's maps under all interleavings, with models that fail or hang; does the pipeline come to rest? | 1,047,938 |
| `pipeline_live` | Is the last turn answered, although it interrupts the one before? | 32,666 |
| `service` | Does the service keep the response protocol until the client cancels, and deliver audio only within a response of its turn, whatever arrives; what does a cancel let through? | 727,186 |
| `session` | Pipeline, drain and event loop together | 251,835 |
| `config` | Requests, sessions and crashes against one configuration and its file | 216,715 |
| `server` | Loading, the event loop's sessions, proxy and self-tests: safety and liveness | 251,122 |
| `dialogue` | What the model is told, by either handler, with function calls and failures | 94,990 |
| `barge_in_unnoticed` | comment in `lm_output_processor.py:66` | violated |
| `old_audio` | docstring of `scripts/test_barge_in.py` | violated |
| `wrong_finish` | docstring of `ResponseDone` | violated |
| `never_done` | comment in `realtime_service.py:367` | violated |

**Bounds.** `vad`: frames of two units, so that chunks of one and two leave every
possible residue; utterances of two frames are long enough, of one too short;
silence limits 0 and two frames; a snapshot every second frame; eight items are
enough for a turn that is dropped, one that is committed and the beginning of a
third. `pipeline`: any two of a first turn, a second turn, a client prompt and a
cancel, which is every pair that can disturb each other, with two text pieces and
two audio pieces so that a cancel can fall between them. `service`: messages are
taken until five events are sent, a whole response and the beginning of another;
the three message types that touch the response (the others only pass through and
are exercised in `session`); two turn ids; one client cancel and one client item,
at any point. `ResponseProtocol` is only required until the client cancels: the
loop thread emits `response.done` whether or not a response is open, a race which
the docstring of `start_drain` admits. `AudioOfItsTurn` and `OneDeltaPerCancel` are checked with the cancel: a
delta that it overtakes goes out with `response_id` null, within the response opened last.
`session`: any two of two turns, one prompt and
one cancel, with one piece each, since what is asked there is the order between the
queues; without function calls. `SpokenInOrder` exempts answers that waited for
one, because they are put behind whatever was said in the meantime.

`config`: two requests and one session, so that two saves, or a request and a
construction, overlap; bodies that are valid, refused midway, blank the key and switch
the backend; started without a file or with one that has a key, and with the default
flags (remote, no key) or those of a local model, at each start; one crash and one failing
write, which is one at each point. `server`:
one session, which has Zipformer (no lock, and a file that two loads share), or a
Transformers LLM (the tested attribute first, and it may hang), or an LLM without a key
(its warm-up raises) and MMS (a lock and several attributes); two items, so that the handler's thread meets the background thread
before and after its load; a queue of one event, so that it overflows; one proxy
request, two self-tests of two threads each (the code starts four; two suffice for one
to raise while the other runs); one fault; and of connections, items, events, proxy
requests and self-tests any two together (`MaxStimuli`), which is every pair of uses
of the event loop. `dialogue`: two prompts, three calls (a round with two calls and a
second round), one fault, a history so short that calls are truncated away.

Deadlock is not checked where a session may simply end: the bounds on turns and
messages let every thread run out of work.

**Fairness.** Each handler's `run` loop never ends by itself and catches what
`process` raises, and a model call returns or raises, so each handler thread is weakly
fair. The one call that may do neither is the Transformers handler's loop over its
streamer (`transformers_llm.py:143-156`): a thread that is `"hung"` there has no next
step, and the liveness properties name it. The drain thread polls with a timeout and catches everything; it is weakly
fair too. Nothing is assumed of the user, the client or of failures: in particular
a second turn need not come. `EventuallyQuiet` is checked in `pipeline`,
with cancels, prompts and models that raise, return nothing or hang; the raises themselves
are not fair. `LastTurnAnswered` (`pipeline_live`) and `EverythingDelivered` (`session`)
are checked without failing models, since an answer that is never produced is no failure
of the pipeline. `pipeline_live` also leaves out the service's own cancel: it comes from
`speech_started` reaching the drain, and a drain slow enough to be a whole turn
late would cancel the answer of the turn it belongs to. That is listed as a hazard,
not as a property.

`server` has one weak fairness condition, on `ServerStep`: every step of a thread, of a
load, of a wait that has a timeout and of a coroutine that is ready. Threads are
scheduled by the system, and asyncio's ready queue is first come first served, so each
of them would be fair by itself; as the client need do nothing and only finitely many
of these steps can follow one another, it is enough to assume that some ready one is
taken. Clients, users, the arrival of items and faults are not fair, and what hangs in the
Transformers handler (a session's LLM thread, a proxy's worker, the LLM thread of a
self-test) takes no more steps: `ThreadsEnd`, `WorkerStops` and `TestLockFreed` exempt
exactly that thread. In `dialogue` the LLM thread and the drain thread are each weakly
fair: the model answers, raises, or hangs (`"stuck"`).

**What the violated runs show.**

* `barge_in_unnoticed`: the LLM handler returns all chunks at the end of its
  stream; the processor compares the generation at the end with the one at its own
  first chunk, both after the interruption, and speaks the cancelled answer.
* `old_audio`: `_cancel_current_response` forgets `response_id` but not
  `_current_response_turn`; queued audio of the interrupted turn re-opens a response.
* `wrong_finish`: a text prompt and a spoken turn both have id 1; the late
  `ResponseDone` of one finishes the response of the other.
* `never_done`: text and audio are drained in turn, so `ResponseDone` can be
  handled before the last text delta, which then opens a response for ever.

## Proofs

`VAD_proofs` proves, for every frame length, duration, threshold, set of silence
limits and bound, from `VADAssumption` alone:

* `VADTypeOK`: `Spec => []TypeOK`.
* `VADBufferBelowFrame`: the handler takes at most one frame per item and never
  falls behind, because an item has at most one frame (`append` splits at 1024
  bytes) and the residue is smaller than one.
* `VADUtteranceIntact`: what the STT gets, and what is being accumulated, is a
  gapless run of frames. The property is not inductive: a frame is lost whenever
  inference raises on a half-loaded model, so one has to know that this cannot
  happen while a turn is open. `IInv` adds exactly that (`OpenTurn`: an open turn
  has `warm = "ready"`, and its last frame is the last one read) to the gaplessness
  of the segments already queued (`Gapless`). Lemmas `ConsecutiveOne`,
  `ConsecutiveNext` and `GaplessAppend` say how runs of frames grow,
  `EmitUtteranceType` and `EmitUtteranceIntact` do the work of `_emit_utterance`
  once for its three callers.

Its second part is about turns. Lemma `StepKinds` says what the disjuncts of
`Next` do to turns: every step is quiet, starts a turn, hands on a snapshot, ends a turn,
or does two of these in one call (`BlipStep`, `ProgressEndStep`). Each result is one step
per kind:

* `VADEventProtocol`: needs that no event is of a later turn than the open one, and that
  the last event is the start of that turn as long as it is open (`EventsUpTo`, `LastIs`).
* `VADCommittedIsTranscribed`: stops and final segments grow together (`ClosedTogether`),
  which needs the previous result, and that a queued final segment was long enough.
* `VADNoSharedAudio`: says nothing of the audio still being accumulated. `QueueIInv` adds
  that every queued segment is of an earlier turn and ends before that audio begins, or
  is a snapshot of the open turn with the same beginning (`Before`), and that all of it
  is below the next frame.
* `VADImplementsTurnSegmenter`: `Spec => Turns!TSSpec`; queues are mapped to what the
  abstract user knows of them (`Seen`).

`Pipeline_proofs`, for any number of turns, prompts, cancels, tool calls and pieces, both
kinds of STT, with and without failing models:

* `PipelineTypes`. `Types` gives every queue and thread its own record set, with the
  turns opened so far instead of all ids. `NotedIInv` adds that the generation counts
  turns and cancels and that no thread has noted one that is ahead of it; it is apart from
  `Types`, which a session keeps as well, though it has more places that cancel.
* `PipelineCancelStopsSpeech`: that at most one piece is late is not inductive, since a
  second one might be under way. `LateIInv`: a piece being sent is the first that can be
  late, and after one that was late the generation has left `tts.gen` behind for good.
* `PipelineProcessorClean`: the maps are empty when the queue is, so one must know what
  they hold when it is not. `ProcessorIInv`: the queue consists of whole answers
  (`EndsAt`), the maps hold something only under the id of the first item, and pieces
  held and pieces to come are at most one answer's.
* `PipelineCausalOrder`, three invariants for the three things it says. `ChainIInv`: from
  the VAD through the segments, the STT, its outputs and the notifier to the log, turns
  come in order, and nothing is behind a final segment of its own turn.
  `AnnouncedIInv`: every segment on the way has its `speech_started`, a final one its
  `speech_stopped`. `TranscribedIInv`: a spoken prompt, the request in the LLM and
  everything in its answer has its transcript in the log. TLC checked all of these with
  `MaxChunks = MaxAudio = 1` before they were proved.

`Service_proofs`, for any turns, messages in any order, prompts and client cancels:

* `ServiceTypes`; `Shape` says for each program counter of the drain thread which
  messages it may hold.
* `ServiceAudioOfItsTurn`: the piece is checked some steps before it is delivered, and
  the event loop runs in between. `OpenForTurn`: an open response was announced for
  `current_response_turn`, and a piece about to be delivered is of that turn. A cancel by
  the loop forgets `response_id` but not the turn: a piece that was already tested goes
  out with `response_id` null, and `OpenForTurn` says that the response opened last is
  still one for its turn; a piece not yet tested opens a new one first.
* `ServiceOneDeltaPerCancel`: the bound is not inductive, since the drain thread may be
  about to send another. `OrphanIInv` counts the delta that is in its hands when
  `response_id` has been taken away together with those in the log: a cancel that finds a
  response open adds one at most, and the drain thread only gets there with one open.
* `ServiceImplementsProtocol`: as long as the client has not cancelled, only the drain
  thread writes `response_id`. `OneOpen` says, for each of its program counters, whether
  the response that variable names is not yet announced, open or closed in the log, that
  no other is open, and that ids not yet given are in no event.

`Session_proofs`, for any number of turns, prompts, cancels, tool calls and pieces, both
kinds of STT, with and without failing models, is about the composition. The handler
steps of a session are those of `Pipeline`; the steps of the drain thread and of the event
loop are to the handlers what `ServiceTouches` says (they take the head of a queue, put an
item at the end of `text_prompt`, raise the generation).

* `SessionSpokenInOrder`. What is heard is in order because everything before it is.
  `Places` are the eight places a spoken answer passes, from `text_prompt` to the audio in
  `sent`. `OrderIInv`: no place holds an earlier turn than a place further on, and each queue is
  in order, except for turns that a function call was made for (`CalledNow`), whose
  second answer is asked for when later turns may have passed. That is not inductive: a
  new prompt is put behind everything, so one must know that it is of a later turn than all
  in line. `PassedIInv` says so, with `BehindNow` of `Pipeline_proofs` (what is in line is
  not after anything still on its way to its transcript), also of calls not yet taken,
  because their continuation enters the line again. `ChainIInv` is carried over to keep it. The proof is one lemma per step that moves a turn from one place to the next.
* `SessionCancelStopsSpeech`, `SessionProcessorClean`: the invariants of `Pipeline` are kept by
  the service, since it leaves the TTS and the maps alone and its cancels only raise the
  generation (`HandlersIInv`).
* `SessionAudioOfItsTurn`, `SessionOneDeltaPerCancel`, `SessionImplementsProtocol`: `SessionMovesService` shows that every
  step of a session is nothing to the service or a step of `RealtimeService` on a message
  that the handlers have queued (`ServiceMoves`), with the record sets that the types of
  the queues give it; `ServiceIInv` is the argument of `Service_proofs` over these moves. Turn
  ids of the VAD and of the client's items meet in one queue here, and the barge-in
  cancels on the drain thread what the VAD has cancelled already.

TLC checked all parts of `SessionIInv` on `MCSession` (251,835 states) before they were proved.

`Loading_proofs` proves `ServerLockedLoadedOnce` for any sessions, backends, items and
faults: `ServerSpec => []LockedLoadedOnce`. That a model is loaded at most once is not
inductive: one has to know why a second load cannot be under way. `LockInv` says that
whoever loads a handler with a lock holds that lock, that the model has not been loaded
yet, and that the rest of the load ends with the flag; a loaded model has its flag set,
which is what the second look under the lock sees. `Shape` adds what the variables are,
as far as the steps need it. `EnterKeeps`, `StepKeeps`, `RaiseKeeps` and `CallUpdate`
are one lemma per kind of step; `OthersKeep` shows that the rest of the server leaves
models alone.

`Server_proofs` goes on from there, with the same generality:

* `ServerCompleteWhenUsed`, for backends with and without a lock. `PartsInv` says what a
  running load has assigned so far (`Progress`: `todo` is a suffix of what the load does,
  and everything before it is in `attrs`), that a set flag means a whole model, and that
  a call that returns has found or set the flag. `FlagLastBackends` is where the rows of
  `Loads` enter, `ProgressLast` where "the flag is assigned last" does; for VieNeu and
  Transformers it is false.
* `ServerOneTestAtATime`: `TestIInv` says that a test past the lock holds it, and that
  threads run on behind a test that is over only after one raised.
* `ServerReadyIsTrue`: when the event is in a queue or delivered, the warm-up thread has
  ended (`ReadySent`). Until then each handler has its model, has failed, has not been
  come to, or is being loaded by that thread (`Tried`). The last case turns into the
  first because of what a call of `warmup` promises (`CallsIInv`): the flag is set
  already, or the rest of the load will set it or raise (`Promises`), whatever loads of
  other threads assign meanwhile.
* `ServerTypes` is the conjunction of these with `LoopIInv` (who waits on the event loop
  has it alone: at most one session is being built or joined, at most one proxy request
  waits), `HandlerIInv` (a handler's thread loads exactly while it is in a call of
  `warmup`; a lock is held by a thread that loads) and `QueueIInv`.

TLC checked them on `MCServer` and on two sessions with Transformers and VieNeu.

`Config_proofs`, for any bodies, requests, constructions, files, flags, crashes and errors:

* `ConfigTypes`: no value that fails a check of its own in `POST` is ever in memory or in
  the file (a remote backend refused for want of a key does stay); what a
  thread has read so far is a part of a configuration (`Parts`).
* `ConfigFileReadable`: `FileIInv` adds that, with nothing torn, whoever writes is alone.
* `ConfigAcknowledgedSurvives`: `AloneIInv` follows a request that is alone until it is
  answered: what it has read is what is in memory, and the file is as it left it; and
  once something is promised, no request runs, and the file holds it if the write
  succeeded. A crash keeps it because nothing runs in a server that is down (`DownIInv`).
  What was promised after a write that failed holds in the same life of the server only,
  which is why the promise carries its life and a server that is down is past it.
* `ConfigSessionHasKey` and `ConfigRestarts`: two consequences of `KeyIInv`. What a save
  or a construction has read with a remote backend has the key, or will read one that is
  there (`HasKey`): the backend is read before the key, and only blanks, which `unkeyed`
  records, take a key away. A server that is refused had such an object before, or no
  document to load; then the flags count, about which nothing is assumed. `FileIInv` says
  that with nothing torn only a missing file is no document.

`Dialogue_proofs`, for any `max_history`, prompts, calls and faults:

* `DialogueAnswersWithinLimit` and `DialoguePromptsOnce`, from `DialogueIInv`. The second
  needs `PromptsDistinct`: the counters of the VAD and of the client give every prompt a
  message of its own (`Issued`), and a prompt is in the queue or in the history, never in
  both, so that nothing but the handler's own second append can repeat it.
  `HistoryAfterProperties` describes what an answer leaves of the history, with or
  without the truncation, as a shift of indices.
* `DialogueTypes`: that a turn id stays within its type is not inductive, because each of
  the client's outputs takes the next one. `Counted`: an output costs a call, so prompts
  given, ids taken and calls on their way are together bounded.
* `DialogueCallsDistinct`: `CallIInv` says that calls in the history are of earlier
  requests than the one at the model, and that ids from a counter are below it.
* `DialogueOutputFollowsCall`: `OutputIInv` says that a call whose output may still come
  is in the history or was cut off (`Known`), in every place it passes: the queue to the
  service, the drain thread, the client, the queue back and the request at the model; and
  that an output in the history is behind its call. That a truncation which removes a
  call does not leave another one under the same id rests on `CallIInv`.

TLC checked them on `MCDialogue` and, with a history of two and four calls, on 313,182
states.

**Assumptions.** Every theorem rests on the named assumption of its module (those about
`Session` on `PipelineAssumption`) and on nothing else. They say that bounds are natural numbers, flags Booleans and sets of the stated
kind, and furthermore: a frame is not empty (`VADAssumption`), `max_history` is positive
(`DialogueAssumption`), turn ids are positive and messages of the seven types
(`ServiceAssumption`), a session's stages have backends that have a row in `Loads`
(`LoadingAssumption`), and the value for "no one holds the lock" is not a self-test
(`ServerAssumption`). `ConfigAssumption` says of files and flags only that they are
configurations: they may ask for a remote backend without a key.

**Only model-checked.** Every safety invariant and every action property that a passing run
checks is stated by a theorem. What remains is liveness (`EventuallyQuiet`,
`LastTurnAnswered`, `EverythingDelivered`, `ThreadsEnd`, `ReadyArrives`, `LoopServes`,
`WorkerStops`, `TestLockFreed`, `KnowledgeServed`): it rests on fairness and `ENABLED`, which
the provers do not handle. `PipelineCausalOrder` is a theorem, and a
run, of `Pipeline` alone, where `text_out` is never emptied; in a session it is a queue, and
the statement would have to be about `sent`.

## What the code does that no property claims

Modelled as the code has it; the properties are stated around it, by the exceptions
named in their comments.

* VieNeu and Transformers assign the attribute that `process` tests before the rest of the
  model: a handler may work with half a model (`CompleteWhenUsed` is about `FlagLast`).
* Warm-ups without a lock may load a model twice; two loads of Zipformer may write
  `tokens.txt` while the other reads it, and one of them raises.
* A cancel of the client between the drain thread's test and its delivery lets one delta
  out with `response_id` null (`OneDeltaPerCancel`).
* `server.model_ready` is lost when it comes before the send task exists
  (`websocket_router.py:31`), or meets a full queue (`lost`).
* A client that drops a streamed proxy answer leaves its worker polling for ever
  (`WorkerStops` exempts it).
* A thread of the self-test that raises outside its `try` lets the lock go while the
  others run (`raised`).
* A request that `POST /v1/config` refuses keeps what was assigned before, even a
  remote backend without a key, which the next save writes and the next start refuses
  (`unkeyed`); a save that is cut off, fails or overlaps another may lose the whole file
  (`torn`). The next start then uses its flags, which nobody looked at while the file was
  good, and is refused if they lack a key.
* A `POST` whose save fails is answered "saved for later sessions"
  (`server.py:438-442`), and the next start knows nothing of it (`promise.written`).
* The OpenAI handler sends the prompt it answers twice, and stores no tool outputs, so
  that later requests have a call without its output; the Transformers handler finds
  none of two calls in one answer (its pattern is greedy).
* When `generate` raises in its thread, the Transformers handler waits for its streamer for
  ever (`transformers_llm.py:143-156`): the session's LLM thread answers no more turns and
  outlives the session, a proxy's worker never looks at its stop event, and a self-test
  keeps its lock, so that no other can be run (`"hung"`, `stuck`, `"stuck"`).

## Not modelled, and the plan

Next, in this order:

1. `CausalOrder` for `Session`, over the events in `sent`.
2. `Session` with client-side tools (their continuation gets a turn id of its own) and
   with failing models.
3. `session.update` changing tools and prompt while a request runs; VieNeu's crossfade.

Not modelled: `webrtc_router.py` (signalling and pacing belong to aiortc; one producer,
one consumer, an unbounded queue), the RAG service and the knowledge upload (single calls
of ChromaDB, which does its own locking), voices, the mock handlers, `talk.py` and
`cli.py` (device I/O and argument parsing; the playback buffer does every operation under
its lock), the scripts (measurements and test clients), resampling, prompts,
authentication and web pages, the models themselves, `--config` with a file other than
`config.json`, and the table of backends beyond which of them need a key.
