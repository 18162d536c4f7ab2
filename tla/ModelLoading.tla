---------------------------- MODULE ModelLoading ----------------------------
(***************************************************************************)
(* How the handlers of a session get their models.  The background thread  *)
(* of the session calls warmup() of one handler after the other; at the    *)
(* same time every handler's own thread calls it when an item arrives and  *)
(* the attribute that process() looks at is still None.  A load is the     *)
(* sequence of what the thread does that the other one can see.            *)
(*                                                                         *)
(* Ghosts: loads counts completed loads, failed (in bg) has the handlers   *)
(* whose background warm-up raised or was skipped at the deadline.         *)
(***************************************************************************)
EXTENDS Naturals, SequencesExt

CONSTANTS
    Conns,     \* connections, each used at most once
    Setups,    \* which backends a session may be configured with
    MaxItems,  \* bound: items that reach a handler, over all sessions
    MaxFaults  \* bound: things that fail without a reason in the model

VARIABLES
    setup,     \* the backend of each stage of a session
    attrs,     \* attributes of the handler that have been assigned
    holder,    \* who holds the handler's _warmup_lock
    loads,
    loader,    \* the running call of warmup() in the background and in each handler's thread
    bg,        \* the background thread of a session
    hnd,       \* the handlers' threads
    tokens,    \* tokens.txt of Zipformer, one file for all sessions
    items, faults \* counters for the bounds

counters == <<items, faults>>
modelVars == <<setup, attrs, holder, loads, loader, bg, hnd, tokens>>
loadingVars == <<modelVars, counters>>

Stages == {"stt", "llm", "tts"}

\* The order of the handlers in the pipeline.
StageOrder == [stt |-> 1, llm |-> 2, tts |-> 3]
FirstOf(S) == CHOOSE h \in S : \A g \in S : StageOrder[h] <= StageOrder[g]

\* Something fails that need not.
Fault == faults < MaxFaults /\ faults' = faults + 1
NoFault == UNCHANGED faults

Load(does, flag, locked) == [does |-> does, flag |-> flag, locked |-> locked]

\* Mutant: MMS assigns _model first.
ModelFirst == <<"_model", "_tokenizer", "_model_sample_rate">>

\* MMSTTSHandler.warmup assigns _model last, which tells process() it is there.
ModelLast == <<"_tokenizer", "_model_sample_rate", "_model">>

MMS == Load(ModelLast, "_model", TRUE)
Piper == Load(<<"_voice">>, "_voice", TRUE)
VieNeu == Load(<<"_tts", "_src_rate", "_resample_ratio">>, "_tts", FALSE)
Whisper == Load(<<"_model">>, "_model", FALSE)

\* tokens.txt is written before the recognizer reads it.
Zipformer == Load(<<"truncate", "write", "_rec">>, "_rec", FALSE)

\* A client without a key raises.
OpenAI == Load(<<"_client">>, "_client", FALSE)
NoKey == Load(<<"raise">>, "_client", FALSE)

\* The model is moved to the device and set to eval after it is assigned.
Transformers == Load(<<"_tokenizer", "_model", "prepare">>, "_model", FALSE)

\* What warmup() of each backend does, the attribute process() tests, and
\* whether a lock is held.
Loads == [mms |-> MMS, piper |-> Piper, vieneu |-> VieNeu, whisper |-> Whisper,
          zipformer |-> Zipformer, openai |-> OpenAI, nokey |-> NoKey,
          transformers |-> Transformers]

\* Backends whose flag is assigned last.
FlagLast == {"whisper", "zipformer", "openai", "nokey", "mms", "piper"}
FileSteps == {"truncate", "write"}

ASSUME LoadingAssumption ==
    /\ \A s \in Setups : DOMAIN s \subseteq Stages /\ \A h \in DOMAIN s : s[h] \in DOMAIN Loads
    /\ {MaxItems, MaxFaults} \subseteq Nat

\* The handlers of a session of which loading is considered, and the threads
\* that may call their warmup().
Handlers(c) == DOMAIN setup[c]
Threads(c) == Handlers(c) \cup {"bg"}

Of(c, h) == Loads[setup[c][h]]
Flagged(c, h) == Of(c, h).flag \in attrs[c][h]
Complete(c, h) == ToSet(Of(c, h).does) \ FileSteps \subseteq attrs[c][h]

\* A call of warmup: of handler h, the steps still to do.
NoCall == [pc |-> "none"]
Call(h) == [pc |-> "enter", h |-> h]

LoadingInit ==
    /\ setup \in [Conns -> Setups]
    /\ attrs = [c \in Conns |-> [h \in Handlers(c) |-> {}]]
    /\ holder = [c \in Conns |-> [h \in Handlers(c) |-> "nobody"]]
    /\ loads = [c \in Conns |-> [h \in Handlers(c) |-> 0]]
    /\ loader = [c \in Conns |-> [t \in Threads(c) |-> NoCall]]
    /\ bg = [c \in Conns |-> [pc |-> "none", failed |-> {}, next |-> Handlers(c)]]
    /\ hnd = [c \in Conns |-> [h \in Handlers(c) |-> "none"]]
    /\ tokens = "absent"
    /\ items = 0 /\ faults = 0

-----------------------------------------------------------------------------
\* Mutant: who waited for the lock loads again.
NeverDone(c, h) == FALSE

\* With the lock, whether another thread has loaded the model meanwhile.
DoneMeanwhile(c, h) == Of(c, h).locked /\ Flagged(c, h)

\* The call starts, at once or when the lock is free.
LoadEnter(c, t) ==
    /\ loader[c][t].pc = "enter"
    /\ LET h == loader[c][t].h IN
       /\ Of(c, h).locked => holder[c][h] = "nobody"
       /\ IF DoneMeanwhile(c, h)
          THEN /\ loader' = [loader EXCEPT ![c][t].pc = "return"]
               /\ UNCHANGED holder
          ELSE /\ loader' = [loader EXCEPT ![c][t] =
                                [pc |-> "load", h |-> h, todo |-> Of(c, h).does]]
               /\ holder' = IF Of(c, h).locked THEN [holder EXCEPT ![c][h] = t] ELSE holder
    /\ UNCHANGED <<setup, attrs, loads, bg, hnd, tokens, counters>>

Unlock(c, t, h) == IF holder[c][h] = t THEN [holder EXCEPT ![c][h] = "nobody"] ELSE holder

\* One step of the load; the last one ends it.
LoadStep(c, t) ==
    /\ loader[c][t].pc = "load"
    /\ LET h == loader[c][t].h
           do == Head(loader[c][t].todo)
           last == Len(loader[c][t].todo) = 1
       IN /\ do # "raise"
          /\ tokens' = CASE do = "truncate" -> "cut"
                         [] do = "write" -> "whole"
                         [] OTHER -> tokens
          /\ attrs' = CASE do \in FileSteps -> attrs
                        [] do = "_model" -> [attrs EXCEPT ![c][h] = (@ \ {"prepare"}) \cup {do}]
                        [] OTHER -> [attrs EXCEPT ![c][h] = @ \cup {do}]
          /\ loader' = IF last THEN [loader EXCEPT ![c][t].pc = "return"]
                       ELSE [loader EXCEPT ![c][t].todo = Tail(@)]
          /\ loads' = IF last THEN [loads EXCEPT ![c][h] = @ + 1] ELSE loads
          /\ holder' = IF last THEN Unlock(c, t, h) ELSE holder
    /\ UNCHANGED <<setup, bg, hnd, counters>>

\* The load raises: for want of a key, of memory or of the network, or (it
\* need not) over a tokens.txt that another load is just writing.
LoadRaises(c, t) ==
    /\ loader[c][t].pc = "load"
    /\ LET h == loader[c][t].h
           do == Head(loader[c][t].todo)
       IN /\ \/ NoFault /\ (do = "raise" \/ (do = "_rec" /\ tokens = "cut"))
             \/ Fault
          /\ loader' = [loader EXCEPT ![c][t] = [pc |-> "raised", h |-> h]]
          /\ holder' = Unlock(c, t, h)
    /\ UNCHANGED <<setup, attrs, loads, bg, hnd, tokens, items>>

-----------------------------------------------------------------------------
\* The background thread, warmup_all: call the next handler's warmup, or
\* stop at the deadline; what a call raises is logged.
BgNext(c) ==
    /\ bg[c].pc = "warming" /\ loader[c]["bg"].pc = "none"
    /\ \/ /\ bg[c].next # {}
          /\ loader' = [loader EXCEPT ![c]["bg"] = Call(FirstOf(bg[c].next))]
          /\ bg' = [bg EXCEPT ![c].next = @ \ {FirstOf(@)}]
          /\ NoFault
       \/ /\ IF bg[c].next = {} THEN NoFault ELSE Fault
          /\ bg' = [bg EXCEPT ![c].pc = "emit", ![c].next = {},
                              ![c].failed = @ \cup bg[c].next]
          /\ UNCHANGED loader
    /\ UNCHANGED <<setup, attrs, holder, loads, hnd, tokens, items>>

\* Mutant: what a warmup raises ends the thread.
ThreadEnds == "ended"

\* warmup_all logs it and goes on.
AfterRaise == "warming"

BgReturns(c) ==
    /\ loader[c]["bg"].pc \in {"return", "raised"}
    /\ bg' = IF loader[c]["bg"].pc = "raised"
             THEN [bg EXCEPT ![c].failed = @ \cup {loader[c]["bg"].h}, ![c].pc = AfterRaise]
             ELSE bg
    /\ loader' = [loader EXCEPT ![c]["bg"] = NoCall]
    /\ UNCHANGED <<setup, attrs, holder, loads, hnd, tokens, counters>>

-----------------------------------------------------------------------------
\* A handler's thread takes an item and looks at the flag.
HandlerTake(c, h) ==
    /\ hnd[c][h] = "poll" /\ items < MaxItems
    /\ items' = items + 1
    /\ hnd' = [hnd EXCEPT ![c][h] = IF Flagged(c, h) THEN "use" ELSE "load"]
    /\ loader' = IF Flagged(c, h) THEN loader ELSE [loader EXCEPT ![c][h] = Call(h)]
    /\ UNCHANGED <<setup, attrs, holder, loads, bg, tokens, faults>>

\* warmup() has returned or raised; _process_item prints what it raised.
HandlerLoaded(c, h) ==
    /\ loader[c][h].pc \in {"return", "raised"}
    /\ hnd' = [hnd EXCEPT ![c][h] = IF loader[c][h].pc = "return" THEN "use" ELSE "poll"]
    /\ loader' = [loader EXCEPT ![c][h] = NoCall]
    /\ UNCHANGED <<setup, attrs, holder, loads, bg, tokens, counters>>

\* process() is through with the item, or has raised; or, with Transformers, waits
\* for a streamer to which generate(), which raised in its own thread, will put no
\* more.
HandlerUsed(c, h) ==
    /\ hnd[c][h] = "use"
    /\ \/ hnd' = [hnd EXCEPT ![c][h] = "poll"] /\ NoFault
       \/ /\ setup[c][h] = "transformers" /\ Fault
          /\ hnd' = [hnd EXCEPT ![c][h] = "hung"]
    /\ UNCHANGED <<setup, attrs, holder, loads, loader, bg, tokens, items>>

\* What the threads of a session do about models.
LoadingStep(c) ==
    \/ \E t \in Threads(c) : LoadEnter(c, t) \/ LoadStep(c, t) \/ LoadRaises(c, t)
    \/ BgNext(c) \/ BgReturns(c)
    \/ \E h \in Handlers(c) : HandlerTake(c, h) \/ HandlerLoaded(c, h) \/ HandlerUsed(c, h)

-----------------------------------------------------------------------------
\* Type correctness; a handler's thread loads exactly while its call of warmup
\* runs.
LoadingTypeOK ==
    /\ setup \in [Conns -> Setups]
    /\ \A c \in Conns : \A h \in Handlers(c) :
        /\ attrs[c][h] \subseteq ToSet(Of(c, h).does) \ FileSteps
        /\ holder[c][h] \in {"nobody", "bg", h}
        /\ hnd[c][h] \in {"none", "poll", "load", "use", "hung", "ended"}
        /\ hnd[c][h] = "load" <=> loader[c][h].pc # "none"
    /\ \A c \in Conns : \A t \in Threads(c) :
        loader[c][t].pc \in {"none", "enter", "load", "return", "raised"}
    /\ \A c \in Conns : bg[c].pc \in {"none", "warming", "emit", "ended"}
    /\ tokens \in {"absent", "cut", "whole"}

\* Where the attribute that process() looks at is assigned last, a handler
\* never works with a model of which a part is still missing, even if the
\* background thread is in the middle of loading it.  (VieNeu and
\* Transformers assign it before the rest.)
CompleteWhenUsed ==
    \A c \in Conns : \A h \in Handlers(c) :
        hnd[c][h] = "use" /\ setup[c][h] \in FlagLast => Complete(c, h)

\* The lock and the second look at the flag under it: MMS and Piper load
\* their model once, whoever comes first.
LockedLoadedOnce ==
    \A c \in Conns : \A h \in Handlers(c) : Of(c, h).locked => loads[c][h] <= 1
=============================================================================
