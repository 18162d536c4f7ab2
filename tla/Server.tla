------------------------------- MODULE Server -------------------------------
(***************************************************************************)
(* The event loop of the server and what runs on it or beside it: the      *)
(* WebSocket sessions with their threads and send loop, the LLM proxy,     *)
(* which waits for its worker on the loop itself, and the self-test, whose *)
(* lock is taken on the loop while the tests run in threads.               *)
(*                                                                         *)
(* A coroutine runs until it awaits: a step of a coroutine requires that   *)
(* loop is "free", and what keeps the loop while it waits sets it.         *)
(*                                                                         *)
(* Ghosts: lost has the events of a session that came before its send task *)
(* or met a full queue, raised says that a thread of a self-test raised.   *)
(***************************************************************************)
EXTENDS ModelLoading

CONSTANTS
    MaxQueue,   \* asyncio.Queue(maxsize) of a session
    Proxies,    \* requests to /v1/chat/completions
    MaxChunks,  \* bound: text pieces of one answer
    SelfTests,  \* requests to /v1/test/pipeline
    TestThreads, \* how many threads a self-test starts (4)
    MaxStimuli  \* bound: connections, items, events of the drain threads,
                \* proxy requests and self-tests together

Nobody == "nobody"

ASSUME ServerAssumption ==
    /\ {MaxQueue, MaxChunks, TestThreads, MaxStimuli} \subseteq Nat
    /\ Nobody \notin SelfTests

VARIABLES
    loop,      \* "free", or what keeps the event loop
    conn,      \* life of a connection
    drain,     \* the session's drain thread
    soon,      \* callbacks that put an event into the queue
    events,    \* Session.events
    sender,    \* _send_loop
    delivered, \* which events the client has received
    texts,     \* events of the drain threads, counted for the bound
    lost,
    proxy,     \* coroutine of a proxy request
    worker,    \* its handler thread, out queue and stop event
    test,      \* coroutine of a self-test
    running,   \* how many of its threads have not ended
    stuck,     \* and of these never will
    lock,      \* who has _test_lock
    raised

sessionVars == <<loop, conn, drain, soon, events, sender, delivered, texts, lost>>
proxyVars == <<proxy, worker>>
testVars == <<test, running, stuck, lock, raised>>
serverVars == <<loadingVars, sessionVars, proxyVars, testVars>>

Stopped(c) == conn[c] \in {"joining", "closed"}   \* stop_event and _stop_drain are set

Count(S) == Cardinality(S)
Stimulus == Count({c \in Conns : conn[c] # "none"}) + items + texts
            + Count({r \in Proxies : proxy[r].pc # "none"})
            + Count({t \in SelfTests : test[t] # "none"}) < MaxStimuli

ServerInit ==
    /\ LoadingInit
    /\ loop = "free"
    /\ conn = [c \in Conns |-> "none"] /\ drain = conn /\ sender = conn
    /\ soon = [c \in Conns |-> <<>>] /\ events = soon
    /\ texts = 0
    /\ delivered = [c \in Conns |-> {}] /\ lost = delivered
    /\ proxy = [r \in Proxies |-> [pc |-> "none"]]
    /\ worker = [r \in Proxies |-> [pc |-> "none", out |-> <<>>, stop |-> FALSE]]
    /\ test = [t \in SelfTests |-> "none"]
    /\ running = [t \in SelfTests |-> 0] /\ stuck = running
    /\ lock = Nobody /\ raised = FALSE

-----------------------------------------------------------------------------
\* realtime_endpoint: the Session is built, which starts the handlers' threads
\* and the background thread; ...
Connect(c) ==
    /\ loop = "free" /\ conn[c] = "none" /\ Stimulus
    /\ conn' = [conn EXCEPT ![c] = "starting"]
    /\ loop' = "start"
    /\ hnd' = [hnd EXCEPT ![c] = [h \in Handlers(c) |-> "poll"]]
    /\ bg' = [bg EXCEPT ![c].pc = "warming"]
    /\ UNCHANGED <<setup, attrs, holder, loads, loader, tokens, counters, drain, soon, events,
                   sender, delivered, texts, lost, proxyVars, testVars>>

\* ... the send task is created, ...
CreateSender(c) ==
    /\ conn[c] = "starting"
    /\ conn' = [conn EXCEPT ![c] = "announcing"]
    /\ sender' = [sender EXCEPT ![c] = "get"]
    /\ UNCHANGED <<loadingVars, loop, drain, soon, events, delivered, texts, lost, proxyVars, testVars>>

\* ... session.created is emitted, and the drain thread started.
Announce(c) ==
    /\ conn[c] = "announcing"
    /\ conn' = [conn EXCEPT ![c] = "open"]
    /\ loop' = "free"
    /\ soon' = [soon EXCEPT ![c] = Append(@, "created")]
    /\ drain' = [drain EXCEPT ![c] = "run"]
    /\ UNCHANGED <<loadingVars, events, sender, delivered, texts, lost, proxyVars, testVars>>

\* Mutant: model_ready before the warm-up.
BgEmitsAnyTime(c) == bg[c].pc \in {"warming", "emit"}

\* _warmup_models is through with the handlers; the embedding of the RAG is
\* tried, and what it raises printed.
BgReady(c) == bg[c].pc = "emit"

\* model_ready; on_event raises, unheard, while the Session has no send task.
BgEmit(c) ==
    /\ BgReady(c)
    /\ bg' = [bg EXCEPT ![c].pc = "ended"]
    /\ IF conn[c] = "starting"
       THEN lost' = [lost EXCEPT ![c] = @ \cup {"ready"}] /\ UNCHANGED soon
       ELSE soon' = [soon EXCEPT ![c] = Append(@, "ready")] /\ UNCHANGED lost
    /\ UNCHANGED <<setup, attrs, holder, loads, loader, hnd, tokens, counters, loop, conn, drain,
                   events, sender, delivered, texts, proxyVars, testVars>>

\* An event of the drain thread.
DrainEmit(c) ==
    /\ drain[c] = "run" /\ Stimulus
    /\ texts' = texts + 1
    /\ soon' = [soon EXCEPT ![c] = Append(@, "text")]
    /\ UNCHANGED <<loadingVars, loop, conn, drain, events, sender, delivered, lost, proxyVars, testVars>>

\* Mutant: a queue without a limit.
NoLimit(c) == TRUE

\* put_nowait does not raise.
Fits(c) == Len(events[c]) < MaxQueue

\* The callback on the loop.
PutEvent(c) ==
    /\ loop = "free" /\ soon[c] # <<>>
    /\ soon' = [soon EXCEPT ![c] = Tail(@)]
    /\ IF Fits(c)
       THEN events' = [events EXCEPT ![c] = Append(@, Head(soon[c]))] /\ UNCHANGED lost
       ELSE lost' = [lost EXCEPT ![c] = @ \cup {Head(soon[c])}] /\ UNCHANGED events
    /\ UNCHANGED <<loadingVars, loop, conn, drain, sender, delivered, texts, proxyVars, testVars>>

\* _send_loop sends the next event, or ends because it cannot.
Send(c) ==
    /\ loop = "free" /\ sender[c] = "get" /\ events[c] # <<>>
    /\ events' = [events EXCEPT ![c] = Tail(@)]
    /\ \/ /\ delivered' = [delivered EXCEPT ![c] = @ \cup {Head(events[c])}]
          /\ UNCHANGED sender
          /\ NoFault
       \/ /\ Fault
          /\ sender' = [sender EXCEPT ![c] = "ended"]
          /\ UNCHANGED delivered
    /\ UNCHANGED <<modelVars, items, loop, conn, drain, soon, texts, lost, proxyVars, testVars>>

\* The client has gone or has been idle: the send task is cancelled, and
\* ThreadManager.stop joins the threads on the event loop.
Disconnect(c) ==
    /\ loop = "free" /\ conn[c] = "open"
    /\ conn' = [conn EXCEPT ![c] = "joining"]
    /\ loop' = "join"
    /\ sender' = [sender EXCEPT ![c] = "ended"]
    /\ UNCHANGED <<loadingVars, drain, soon, events, delivered, texts, lost, proxyVars, testVars>>

\* Mutant: a handler's thread waits for its next item first.
StopUnseen(c) == FALSE

\* The while of BaseHandler.run, at most 0.1 s later.
StopSeen(c) == Stopped(c)

\* A thread of the session sees that it has to stop.
HandlerEnds(c, h) ==
    /\ StopSeen(c) /\ hnd[c][h] = "poll"
    /\ hnd' = [hnd EXCEPT ![c][h] = "ended"]
    /\ UNCHANGED <<setup, attrs, holder, loads, loader, bg, tokens, counters, sessionVars, proxyVars, testVars>>

DrainEnds(c) ==
    /\ Stopped(c) /\ drain[c] = "run"
    /\ drain' = [drain EXCEPT ![c] = "ended"]
    /\ UNCHANGED <<loadingVars, loop, conn, soon, events, sender, delivered, texts, lost, proxyVars, testVars>>

\* All have ended, or the five seconds have passed.
JoinEnds(c) ==
    /\ conn[c] = "joining"
    /\ conn' = [conn EXCEPT ![c] = "closed"]
    /\ loop' = "free"
    /\ UNCHANGED <<loadingVars, drain, soon, events, sender, delivered, texts, lost, proxyVars, testVars>>

-----------------------------------------------------------------------------
\* llm_proxy starts a handler thread.  It gives it the request and waits, or,
\* for a streamed answer, does so when the response headers have been sent.
\* Or the handler cannot be built.
ProxyStart(r) ==
    /\ loop = "free" /\ proxy[r].pc = "none" /\ Stimulus
    /\ \/ /\ proxy' = [proxy EXCEPT ![r] = [pc |-> "get", stream |-> FALSE]]
          /\ worker' = [worker EXCEPT ![r].pc = "process"]
          /\ loop' = "proxy"
       \/ /\ proxy' = [proxy EXCEPT ![r] = [pc |-> "headers", stream |-> TRUE]]
          /\ worker' = [worker EXCEPT ![r].pc = "poll"]
          /\ UNCHANGED loop
       \/ /\ proxy' = [proxy EXCEPT ![r].pc = "error"]
          /\ UNCHANGED <<worker, loop>>
    /\ UNCHANGED <<loadingVars, conn, drain, soon, events, sender, delivered, texts, lost, testVars>>

\* The answer, all pieces at once, or nothing if the model raises: the thread then
\* goes on, or is in the loop of the Transformers handler over its streamer for ever.
WorkerAnswers(r) ==
    /\ worker[r].pc = "process"
    /\ \/ /\ \E n \in 0..MaxChunks :
              worker' = [worker EXCEPT ![r].pc = "poll",
                                       ![r].out = [i \in 1..n |-> "chunk"] \o <<"end">>]
          /\ NoFault
       \/ Fault /\ \E pc \in {"poll", "hung"} : worker' = [worker EXCEPT ![r].pc = pc]
    /\ UNCHANGED <<modelVars, items, sessionVars, proxy, testVars>>

\* BaseHandler.run; the PIPELINE_END in its queue is no request and no end.
WorkerEnds(r) ==
    /\ worker[r].pc = "poll" /\ worker[r].stop
    /\ worker' = [worker EXCEPT ![r].pc = "ended"]
    /\ UNCHANGED <<loadingVars, sessionVars, proxy, testVars>>

\* _collect takes from the queue; a piece of a streamed answer is sent to the
\* client, which lets others use the loop.
ProxyGet(r) ==
    /\ proxy[r].pc = "get" /\ worker[r].out # <<>>
    /\ LET last == Head(worker[r].out) = "end" IN
       /\ worker' = [worker EXCEPT ![r].out = Tail(@), ![r].stop = last]
       /\ proxy' = [proxy EXCEPT ![r].pc = IF last THEN "answered"
                                           ELSE IF proxy[r].stream THEN "send" ELSE "get"]
       /\ loop' = IF last \/ proxy[r].stream THEN "free" ELSE loop
    /\ UNCHANGED <<loadingVars, conn, drain, soon, events, sender, delivered, texts, lost, testVars>>

ProxySent(r) ==
    /\ loop = "free" /\ proxy[r].pc \in {"headers", "send"}
    /\ worker' = IF proxy[r].pc = "headers" THEN [worker EXCEPT ![r].pc = "process"] ELSE worker
    /\ proxy' = [proxy EXCEPT ![r].pc = "get"]
    /\ loop' = "proxy"
    /\ UNCHANGED <<loadingVars, conn, drain, soon, events, sender, delivered, texts, lost, testVars>>

\* Mutant: the worker is left running after a timeout.
StopOnEndOnly == FALSE

\* After the loop of _collect, also on a timeout, the worker is told to stop.
StopAfterTimeout == TRUE

\* Mutant: oq.get() without a timeout.
ProxyWaits(r) == FALSE

\* 120 seconds without anything from the worker.
TimedOut(r) == proxy[r].pc = "get" /\ worker[r].out = <<>>

ProxyTimeout(r) ==
    /\ TimedOut(r)
    /\ proxy' = [proxy EXCEPT ![r].pc = "answered"]
    /\ worker' = [worker EXCEPT ![r].stop = StopAfterTimeout]
    /\ loop' = "free"
    /\ UNCHANGED <<loadingVars, conn, drain, soon, events, sender, delivered, texts, lost, testVars>>

\* The client closes a streamed answer: the generator is dropped where it is.
ProxyGone(r) ==
    /\ loop = "free" /\ proxy[r].pc \in {"headers", "send"}
    /\ proxy' = [proxy EXCEPT ![r].pc = "gone"]
    /\ UNCHANGED <<loadingVars, sessionVars, worker, testVars>>

-----------------------------------------------------------------------------
\* Mutant: the lock is not asked for.
LockIgnored == FALSE

\* _test_lock.acquire(blocking=False) fails.
LockTaken == lock # Nobody

\* Mutant: the lock is kept when the import raises.
KeptOnError(t) == t

\* finally: the lock is released.
ReleasedBy(t) == Nobody

\* pipeline_test: 409, or the imports fail, or four threads are started.
TestStart(t) ==
    /\ loop = "free" /\ test[t] = "none" /\ Stimulus
    /\ IF LockTaken
       THEN test' = [test EXCEPT ![t] = "refused"] /\ UNCHANGED <<running, lock, faults>>
       ELSE \/ /\ test' = [test EXCEPT ![t] = "gather"]
               /\ running' = [running EXCEPT ![t] = TestThreads]
               /\ lock' = t
               /\ NoFault
            \/ /\ Fault
               /\ test' = [test EXCEPT ![t] = "error"]
               /\ lock' = ReleasedBy(t)
               /\ UNCHANGED running
    /\ UNCHANGED <<modelVars, items, sessionVars, proxyVars, stuck, raised>>

\* generate() of the Transformers handler raises in its own thread: the test of the
\* LLM waits for the streamer for ever, and gather for the test.
TestLLMHangs(t) ==
    /\ running[t] > 0 /\ stuck[t] = 0
    /\ Fault
    /\ stuck' = [stuck EXCEPT ![t] = 1]
    /\ UNCHANGED <<modelVars, items, sessionVars, proxyVars, test, running, lock, raised>>

\* A thread ends.  What a model raises is its result, but its imports and the
\* clean-up may raise, and then gather does not wait for the others.
TestThreadEnds(t) ==
    /\ running[t] > stuck[t]
    /\ running' = [running EXCEPT ![t] = @ - 1]
    /\ \/ UNCHANGED <<test, raised, faults>>
       \/ /\ Fault /\ test[t] = "gather"
          /\ test' = [test EXCEPT ![t] = "raising"]
          /\ raised' = TRUE
    /\ UNCHANGED <<modelVars, items, sessionVars, proxyVars, stuck, lock>>

TestEnd(t) ==
    /\ loop = "free"
    /\ (test[t] = "gather" /\ running[t] = 0) \/ test[t] = "raising"
    /\ test' = [test EXCEPT ![t] = "answered"]
    /\ lock' = ReleasedBy(t)
    /\ UNCHANGED <<loadingVars, sessionVars, proxyVars, running, stuck, raised>>

-----------------------------------------------------------------------------
\* What the threads of a session do about models, within the bound.
Loading(c) ==
    /\ LoadingStep(c)
    /\ items' > items => Stimulus
    /\ UNCHANGED <<sessionVars, proxyVars, testVars>>

\* The client and its user, which need not do anything.
Client ==
    \/ \E c \in Conns : Connect(c) \/ DrainEmit(c) \/ Disconnect(c)
    \/ \E r \in Proxies : ProxyStart(r) \/ ProxyGone(r)
    \/ \E t \in SelfTests : TestStart(t)

SessionStep(c) ==
    \/ Loading(c)
    \/ CreateSender(c) \/ Announce(c) \/ BgEmit(c) \/ PutEvent(c) \/ Send(c)
    \/ \E h \in Handlers(c) : HandlerEnds(c, h)
    \/ DrainEnds(c) \/ JoinEnds(c)

ProxyStep(r) ==
    WorkerAnswers(r) \/ WorkerEnds(r) \/ ProxyGet(r) \/ ProxySent(r) \/ ProxyTimeout(r)

TestStep(t) == TestEnd(t) \/ TestThreadEnds(t) \/ TestLLMHangs(t)

ServerNext ==
    \/ Client
    \/ \E c \in Conns : SessionStep(c)
    \/ \E r \in Proxies : ProxyStep(r)
    \/ \E t \in SelfTests : TestStep(t)

-----------------------------------------------------------------------------
\* Everything but the client and the arrival of items.
ServerStep ==
    \/ \E c \in Conns : SessionStep(c) /\ items' = items
    \/ \E r \in Proxies : ProxyStep(r)
    \/ \E t \in SelfTests : TestStep(t)

\* Every thread that is not hung goes on, every load ends, every wait on the loop
\* has its timeout, and the loop, which is first come first served, gets round to every
\* coroutine that is ready.  The client need do nothing, so that there are
\* finitely many such steps, and it is enough that some ready one is taken.
ServerFairness == WF_serverVars(ServerStep)

ServerSpec == ServerInit /\ [][ServerNext]_serverVars /\ ServerFairness

-----------------------------------------------------------------------------
\* Type correctness of both modules; the loop is kept by whoever waits on it,
\* and a session's queue never holds more than its limit.
ServerTypeOK ==
    /\ LoadingTypeOK
    /\ loop \in {"free", "start", "join", "proxy"}
    /\ conn \in [Conns -> {"none", "starting", "announcing", "open", "joining", "closed"}]
    /\ loop = "start" <=> \E c \in Conns : conn[c] \in {"starting", "announcing"}
    /\ loop = "join" <=> \E c \in Conns : conn[c] = "joining"
    /\ loop = "proxy" <=> \E r \in Proxies : proxy[r].pc = "get"
    /\ \A c \in Conns : Len(events[c]) <= MaxQueue /\ lost[c] \subseteq {"created", "ready", "text"}
    /\ lock \in SelfTests \cup {Nobody}
    /\ \A t \in SelfTests : stuck[t] \in {0, 1} /\ stuck[t] <= running[t]

\* server.model_ready, which lets the client start, is true: every handler's
\* model can be used, or its warm-up has been tried and has raised, or the
\* deadline has passed.
ReadyIsTrue ==
    \A c \in Conns : "ready" \in delivered[c] =>
        \A h \in Handlers(c) : Flagged(c, h) \/ h \in bg[c].failed

\* Two self-tests never load their models at the same time, which the lock is
\* for, unless a thread of the first has raised.
OneTestAtATime == raised \/ Count({t \in SelfTests : running[t] > 0}) <= 1

\* After a disconnect every thread of the session ends: the handlers, even
\* while the background thread holds a lock they wait for, the drain thread,
\* and the background thread, which nobody tells to stop.  Only an LLM thread
\* that hangs in the Transformers handler, whose generate() raised, does not.
ThreadsEnd ==
    \A c \in Conns : conn[c] = "joining" ~>
        /\ \A h \in Handlers(c) : hnd[c][h] \in {"ended", "hung"}
        /\ drain[c] = "ended" /\ bg[c].pc = "ended"

\* A client that stays learns that the models are ready, whatever raises or hangs
\* and whatever else occupies the loop, unless its send task has broken, or this
\* very event came before there was one or met a full queue.
ReadyArrives ==
    \A c \in Conns : conn[c] = "open" ~>
        "ready" \in delivered[c] \/ "ready" \in lost[c] \/ sender[c] = "ended"

\* The event loop is never blocked for good, in particular not by a proxy
\* request whose model raises or hangs.
LoopServes == []<>(loop = "free")

\* The worker of a proxy request ends, also after a timeout, unless the client
\* dropped the answer or the worker hangs in the Transformers handler, whose
\* generate() raised: it then never looks at its stop event.
WorkerStops ==
    \A r \in Proxies : proxy[r].pc = "get" ~>
        worker[r].pc \in {"ended", "hung"} \/ proxy[r].pc = "gone"

\* The self-test can be called again, whatever fails in it, unless its LLM thread
\* hangs in the Transformers handler while gather waits for it.
TestLockFreed == []<>(lock = Nobody \/ stuck[lock] = 1)
=============================================================================
