---------------------------- MODULE Loading_proofs ----------------------------
(***************************************************************************)
(* Proofs about the lock of MMS and Piper (ModelLoading.tla) in the whole  *)
(* server (Server.tla), for any number of sessions, backends and items.    *)
(***************************************************************************)
EXTENDS Server, TLAPS

\* What backends with a lock do.
LockedSteps == {"_tokenizer", "_model_sample_rate", "_model", "_voice"}

\* The steps that are left of a load end with the assignment of the flag.
EndsWith(todo, flag) ==
    todo \in Seq(LockedSteps) /\ Len(todo) > 0 /\ todo[Len(todo)] = flag

\* Why LockedLoadedOnce holds: who loads has the lock and found the flag unset,
\* and who ends a load has set it.
LoadedOnce(c, h) == loads[c][h] = 0 \/ (loads[c][h] = 1 /\ Flagged(c, h))

LoadsUnderLock(c, h, t) ==
    loader[c][t].pc = "load" /\ loader[c][t].h = h =>
        /\ holder[c][h] = t
        /\ loads[c][h] = 0
        /\ EndsWith(loader[c][t].todo, Of(c, h).flag)

LockInv ==
    \A c \in Conns : \A h \in Handlers(c) : Of(c, h).locked =>
        LoadedOnce(c, h) /\ \A t \in Threads(c) : LoadsUnderLock(c, h, t)

\* What a call of warmup may look like.
IsCall(r) ==
    \/ r = NoCall
    \/ \E h : r = Call(h) \/ r = [pc |-> "return", h |-> h] \/ r = [pc |-> "raised", h |-> h]
    \/ \E h, todo : \/ r = [pc |-> "load", h |-> h, todo |-> todo]
                    \/ r = [pc |-> "return", h |-> h, todo |-> todo]

Shape ==
    /\ setup \in [Conns -> Setups]
    /\ DOMAIN attrs = Conns /\ DOMAIN holder = Conns
    /\ DOMAIN loads = Conns /\ DOMAIN loader = Conns
    /\ \A c \in Conns :
        /\ DOMAIN attrs[c] = Handlers(c) /\ DOMAIN holder[c] = Handlers(c)
        /\ DOMAIN loads[c] = Handlers(c) /\ DOMAIN loader[c] = Threads(c)
        /\ \A t \in Threads(c) : IsCall(loader[c][t])

LoadingIInv == Shape /\ LockInv

\* A backend with a lock assigns its flag last, and no step of it takes an
\* attribute back.
LEMMA LockedBackends ==
  ASSUME NEW b \in DOMAIN Loads, Loads[b].locked
  PROVE  /\ Loads[b].does \in Seq(LockedSteps)
         /\ Len(Loads[b].does) > 0
         /\ Loads[b].does[Len(Loads[b].does)] = Loads[b].flag
         /\ Loads[b].flag \notin FileSteps \cup {"prepare", "raise"}
<1>1. b = "mms" \/ b = "piper"
  BY DEF Loads, Load, MMS, Piper, VieNeu, Whisper, Zipformer, OpenAI, NoKey, Transformers
<1>2. CASE b = "mms"
  <2> DEFINE steps == <<"_tokenizer", "_model_sample_rate", "_model">>
  <2>0. Loads[b] = MMS
    BY <1>2 DEF Loads
  <2>1. Loads[b].does = steps /\ Loads[b].flag = "_model"
    BY <2>0 DEF Load, MMS, ModelLast
  <2>2. Len(<<"_tokenizer", "_model_sample_rate", "_model">>) = 3
    OBVIOUS
  <2>3. <<"_tokenizer", "_model_sample_rate", "_model">>[3] = "_model"
    OBVIOUS
  <2>4. <<"_tokenizer", "_model_sample_rate", "_model">> \in Seq(LockedSteps)
    BY DEF LockedSteps
  <2>5. Len(Loads[b].does) > 0
    BY <2>1, <2>2
  <2>6. Loads[b].flag \notin FileSteps \cup {"prepare", "raise"}
    BY <2>1 DEF FileSteps
  <2>7. QED
    BY <2>1, <2>2, <2>3, <2>4, <2>5, <2>6
<1>3. CASE b = "piper"
  <2>0. Loads[b] = Piper
    BY <1>3 DEF Loads
  <2>1. Loads[b].does = <<"_voice">> /\ Loads[b].flag = "_voice"
    BY <2>0 DEF Load, Piper
  <2>2. /\ <<"_voice">> \in Seq(LockedSteps)
        /\ Len(<<"_voice">>) = 1
        /\ <<"_voice">>[1] = "_voice"
    BY DEF LockedSteps
  <2>3. Len(Loads[b].does) > 0
    BY <2>1, <2>2
  <2>4. Loads[b].flag \notin FileSteps \cup {"prepare", "raise"}
    BY <2>1 DEF FileSteps
  <2>5. QED
    BY <2>1, <2>2, <2>3, <2>4
<1>4. QED
  BY <1>1, <1>2, <1>3

LEMMA LockedOf ==
  ASSUME setup \in [Conns -> Setups], NEW c \in Conns, NEW h \in Handlers(c), Of(c, h).locked
  PROVE  /\ EndsWith(Of(c, h).does, Of(c, h).flag)
         /\ Of(c, h).flag \notin FileSteps \cup {"prepare", "raise"}
<1>1. setup[c][h] \in DOMAIN Loads
  BY LoadingAssumption DEF Handlers
<1>2. QED
  BY <1>1, LockedBackends DEF Of, EndsWith

\* What loader becomes when one call of warmup goes on.
LEMMA LoaderUpdate ==
  ASSUME Shape, UNCHANGED setup,
         NEW c \in Conns, NEW t \in Threads(c), NEW r, IsCall(r),
         loader' = [loader EXCEPT ![c][t] = r]
  PROVE  /\ DOMAIN loader' = Conns
         /\ \A d \in Conns : /\ DOMAIN loader'[d] = Threads(d)'
                             /\ \A u \in Threads(d)' : IsCall(loader'[d][u])
         /\ loader'[c][t] = r
         /\ \A d \in Conns : \A u \in Threads(d) :
                d # c \/ u # t => loader'[d][u] = loader[d][u]
<1>1. \A d \in Conns : Threads(d)' = Threads(d)
  BY DEF Threads, Handlers
<1>2. QED
  BY <1>1 DEF Shape

LEMMA Unchanged ==
  ASSUME LoadingIInv, UNCHANGED <<setup, attrs, holder, loads, loader>>
  PROVE  LoadingIInv'
<1>1. \A d \in Conns : Threads(d)' = Threads(d) /\ Handlers(d)' = Handlers(d)
  BY DEF Threads, Handlers
<1>2. \A d \in Conns : \A h \in Handlers(d) : Of(d, h)' = Of(d, h)
  BY DEF Of
<1>3. Shape'
  BY <1>1 DEF LoadingIInv, Shape
<1>4. \A d \in Conns : \A h \in Handlers(d) :
        /\ LoadedOnce(d, h)' <=> LoadedOnce(d, h)
        /\ \A t \in Threads(d) : LoadsUnderLock(d, h, t)' <=> LoadsUnderLock(d, h, t)
  BY <1>2 DEF LoadedOnce, LoadsUnderLock, Flagged
<1>5. LockInv'
  BY <1>1, <1>2, <1>4 DEF LoadingIInv, LockInv
<1>6. QED
  BY <1>3, <1>5 DEF LoadingIInv

\* A call starts or ends without the model being touched.
LEMMA CallUpdate ==
  ASSUME LoadingIInv, UNCHANGED <<setup, attrs, holder, loads>>,
         NEW c \in Conns, NEW t \in Threads(c), NEW r, IsCall(r), r.pc # "load",
         loader' = [loader EXCEPT ![c][t] = r]
  PROVE  LoadingIInv'
<1>1. \A d \in Conns : Threads(d)' = Threads(d) /\ Handlers(d)' = Handlers(d)
  BY DEF Threads, Handlers
<1>2. \A d \in Conns : \A h \in Handlers(d) : Of(d, h)' = Of(d, h)
  BY DEF Of
<1>3. Shape'
  BY <1>1, LoaderUpdate DEF LoadingIInv, Shape
<1>4. LockInv'
  <2> SUFFICES ASSUME NEW d \in Conns, NEW h \in Handlers(d), Of(d, h).locked
               PROVE  LoadedOnce(d, h)' /\ \A u \in Threads(d) : LoadsUnderLock(d, h, u)'
    BY <1>1, <1>2 DEF LockInv
  <2>1. LoadedOnce(d, h) /\ \A u \in Threads(d) : LoadsUnderLock(d, h, u)
    BY DEF LoadingIInv, LockInv
  <2>2. LoadedOnce(d, h)'
    BY <1>2, <2>1 DEF LoadedOnce, Flagged
  <2>3. ASSUME NEW u \in Threads(d)
        PROVE  LoadsUnderLock(d, h, u)'
    BY <1>2, <2>1, LoaderUpdate DEF LoadsUnderLock, LoadingIInv
  <2>4. QED
    BY <2>2, <2>3
<1>5. QED
  BY <1>3, <1>4 DEF LoadingIInv

\* No thread is called nobody.
LEMMA ThreadNames ==
  ASSUME Shape, NEW c \in Conns, NEW t \in Threads(c)
  PROVE  t # "nobody"
<1>1. DOMAIN setup[c] \subseteq Stages
  BY LoadingAssumption DEF Shape
<1>2. QED
  BY <1>1 DEF Threads, Handlers, Stages

LEMMA EnterCall ==
  ASSUME NEW r, IsCall(r), r.pc = "enter"
  PROVE  [r EXCEPT !.pc = "return"] = [pc |-> "return", h |-> r.h]
<1>1. r # NoCall
  BY DEF NoCall
<1>2. \A h : r # [pc |-> "return", h |-> h] /\ r # [pc |-> "raised", h |-> h]
  OBVIOUS
<1>3. \A h, todo : /\ r # [pc |-> "load", h |-> h, todo |-> todo]
                   /\ r # [pc |-> "return", h |-> h, todo |-> todo]
  OBVIOUS
<1>4. PICK h : r = [pc |-> "enter", h |-> h]
  BY <1>1, <1>2, <1>3 DEF IsCall, Call
<1>5. QED
  BY <1>4

\* The lock and the second look: who starts to load is alone and the first.
LEMMA EnterKeeps ==
  ASSUME LoadingIInv, NEW c \in Conns, NEW t \in Threads(c), LoadEnter(c, t)
  PROVE  LoadingIInv'
<1> DEFINE hh == loader[c][t].h
<1> USE DEF LoadingIInv
<1>1. \A d \in Conns : Threads(d)' = Threads(d) /\ Handlers(d)' = Handlers(d)
  BY DEF LoadEnter, Threads, Handlers
<1>2. \A d \in Conns : \A h \in Handlers(d) : Of(d, h)' = Of(d, h)
  BY DEF LoadEnter, Of
<1>3. IsCall(loader[c][t]) /\ loader[c][t].pc = "enter"
  BY DEF LoadEnter, Shape
<1>4. CASE DoneMeanwhile(c, hh)
  <2>0. [loader[c][t] EXCEPT !.pc = "return"] = [pc |-> "return", h |-> hh]
    BY <1>3, EnterCall
  <2>1. loader' = [loader EXCEPT ![c][t] = [pc |-> "return", h |-> hh]]
    BY <1>4, <2>0 DEF LoadEnter
  <2>2. IsCall([pc |-> "return", h |-> hh])
    BY DEF IsCall
  <2>3. UNCHANGED <<setup, attrs, holder, loads>>
    BY <1>4 DEF LoadEnter
  <2>4. QED
    BY <2>1, <2>2, <2>3, CallUpdate
<1>5. CASE ~DoneMeanwhile(c, hh)
  <2> DEFINE r == [pc |-> "load", h |-> hh, todo |-> Of(c, hh).does]
  <2>1. /\ loader' = [loader EXCEPT ![c][t] = r]
        /\ holder' = IF Of(c, hh).locked THEN [holder EXCEPT ![c][hh] = t] ELSE holder
        /\ Of(c, hh).locked => holder[c][hh] = "nobody"
        /\ UNCHANGED <<setup, attrs, loads>>
    BY <1>5 DEF LoadEnter
  <2>2. /\ IsCall(r)
        /\ r.pc = "load" /\ r.h = hh /\ r.todo = Of(c, hh).does
    BY DEF IsCall
  <2> HIDE DEF r
  <2>3. /\ loader'[c][t] = r
        /\ \A d \in Conns : \A u \in Threads(d) : d # c \/ u # t => loader'[d][u] = loader[d][u]
    <3>1. UNCHANGED setup
      BY <2>1
    <3>2. Shape /\ IsCall(r)
      BY <2>2
    <3>3. loader' = [loader EXCEPT ![c][t] = r]
      BY <2>1
    <3>4. loader'[c][t] = r
      BY <3>1, <3>2, <3>3, LoaderUpdate
    <3>5. \A d \in Conns : \A u \in Threads(d) : d # c \/ u # t => loader'[d][u] = loader[d][u]
      BY <3>1, <3>2, <3>3, LoaderUpdate
    <3>6. QED
      BY <3>4, <3>5
  <2>4. Shape'
    BY <1>1, <2>1, <2>2, LoaderUpdate DEF Shape
  <2>5. ASSUME NEW d \in Conns, NEW h \in Handlers(d), Of(d, h).locked
        PROVE  LoadedOnce(d, h)' /\ \A u \in Threads(d) : LoadsUnderLock(d, h, u)'
    <3>1. LoadedOnce(d, h) /\ \A u \in Threads(d) : LoadsUnderLock(d, h, u)
      BY <2>5 DEF LockInv
    <3>2. LoadedOnce(d, h)'
      BY <1>2, <2>1, <3>1 DEF LoadedOnce, Flagged
    <3>3. ASSUME NEW u \in Threads(d)
          PROVE  LoadsUnderLock(d, h, u)'
      <4>1. CASE d = c /\ h = hh
        <5>1. loads[c][hh] = 0
          BY <1>5, <2>5, <3>1, <4>1 DEF DoneMeanwhile, LoadedOnce
        <5>2. \A v \in Threads(c) : ~(loader[c][v].pc = "load" /\ loader[c][v].h = hh)
          BY <2>1, <2>5, <3>1, <4>1, ThreadNames DEF LoadsUnderLock
        <5>3. EndsWith(Of(c, hh).does, Of(c, hh).flag)
          BY <2>5, <4>1, LockedOf DEF Shape
        <5>4. holder'[c][hh] = t
          BY <2>1, <2>5, <4>1 DEF Shape
        <5>5. QED
          BY <1>2, <2>1, <2>2, <2>3, <4>1, <5>1, <5>2, <5>3, <5>4 DEF LoadsUnderLock
      <4>2. CASE d # c \/ h # hh
        <5>1. holder'[d][h] = holder[d][h]
          BY <2>1, <4>2 DEF Shape
        <5>2. QED
          BY <1>2, <2>1, <2>2, <2>3, <3>1, <4>2, <5>1 DEF LoadsUnderLock
      <4>3. QED
        BY <4>1, <4>2
    <3>4. QED
      BY <3>2, <3>3
  <2>6. LockInv'
    BY <1>1, <1>2, <2>5 DEF LockInv
  <2>7. QED
    BY <2>4, <2>6
<1>6. QED
  BY <1>4, <1>5

\* A load that raises gives the lock back and loads nothing.
LEMMA RaiseKeeps ==
  ASSUME LoadingIInv, NEW c \in Conns, NEW t \in Threads(c), LoadRaises(c, t)
  PROVE  LoadingIInv'
<1> DEFINE hh == loader[c][t].h
           r == [pc |-> "raised", h |-> hh]
<1> USE DEF LoadingIInv
<1>1. \A d \in Conns : Threads(d)' = Threads(d) /\ Handlers(d)' = Handlers(d)
  BY DEF LoadRaises, Threads, Handlers
<1>2. \A d \in Conns : \A h \in Handlers(d) : Of(d, h)' = Of(d, h)
  BY DEF LoadRaises, Of
<1>3. /\ loader' = [loader EXCEPT ![c][t] = r]
      /\ holder' = Unlock(c, t, hh)
      /\ UNCHANGED <<setup, attrs, loads>>
  BY DEF LoadRaises
<1>4. IsCall(r) /\ r.pc = "raised"
  BY DEF IsCall
<1> HIDE DEF r
<1>5. /\ loader'[c][t] = r
      /\ \A d \in Conns : \A u \in Threads(d) : d # c \/ u # t => loader'[d][u] = loader[d][u]
  <2>1. UNCHANGED setup
    BY <1>3
  <2>2. Shape /\ IsCall(r)
    BY <1>4
  <2>3. loader' = [loader EXCEPT ![c][t] = r]
    BY <1>3
  <2>4. loader'[c][t] = r
    BY <2>1, <2>2, <2>3, LoaderUpdate
  <2>5. \A d \in Conns : \A u \in Threads(d) : d # c \/ u # t => loader'[d][u] = loader[d][u]
    BY <2>1, <2>2, <2>3, LoaderUpdate
  <2>6. QED
    BY <2>4, <2>5
<1>6. Shape'
  BY <1>1, <1>3, <1>4, LoaderUpdate DEF Shape, Unlock
<1>7. ASSUME NEW d \in Conns, NEW h \in Handlers(d), Of(d, h).locked
      PROVE  LoadedOnce(d, h)' /\ \A u \in Threads(d) : LoadsUnderLock(d, h, u)'
  <2>1. LoadedOnce(d, h) /\ \A u \in Threads(d) : LoadsUnderLock(d, h, u)
    BY <1>7 DEF LockInv
  <2>2. LoadedOnce(d, h)'
    BY <1>2, <1>3, <2>1 DEF LoadedOnce, Flagged
  <2>3. ASSUME NEW u \in Threads(d)
        PROVE  LoadsUnderLock(d, h, u)'
    <3>1. CASE d = c /\ u = t
      BY <1>4, <1>5, <3>1 DEF LoadsUnderLock
    <3>2. CASE d # c \/ u # t
      <4>1. holder[d][h] = u => holder'[d][h] = u
        BY <1>3, <3>2 DEF Unlock, Shape
      <4>2. QED
        BY <1>2, <1>3, <1>5, <2>1, <3>2, <4>1 DEF LoadsUnderLock
    <3>3. QED
      BY <3>1, <3>2
  <2>4. QED
    BY <2>2, <2>3
<1>8. LockInv'
  BY <1>1, <1>2, <1>7 DEF LockInv
<1>9. QED
  BY <1>6, <1>8

LEMMA LoadCall ==
  ASSUME NEW r, IsCall(r), r.pc = "load"
  PROVE  /\ [r EXCEPT !.pc = "return"] = [pc |-> "return", h |-> r.h, todo |-> r.todo]
         /\ [r EXCEPT !.todo = Tail(@)] = [pc |-> "load", h |-> r.h, todo |-> Tail(r.todo)]
<1>1. r # NoCall
  BY DEF NoCall
<1>2. \A h : r # Call(h)
  BY DEF Call
<1>3. \A h : r # [pc |-> "return", h |-> h] /\ r # [pc |-> "raised", h |-> h]
  OBVIOUS
<1>4. \A h, todo : r # [pc |-> "return", h |-> h, todo |-> todo]
  OBVIOUS
<1>5. PICK h, todo : r = [pc |-> "load", h |-> h, todo |-> todo]
  BY <1>1, <1>2, <1>3, <1>4 DEF IsCall
<1>6. r.h = h /\ r.todo = todo
  BY <1>5
<1>7. [r EXCEPT !.pc = "return"] = [pc |-> "return", h |-> h, todo |-> todo]
  BY <1>5
<1>8. \A rest : [r EXCEPT !.todo = rest] = [pc |-> "load", h |-> h, todo |-> rest]
  BY <1>5
<1>9. QED
  BY <1>6, <1>7, <1>8

\* What is left of a load keeps its end, and the last step is the flag.
LEMMA EndsWithTail ==
  ASSUME NEW todo, NEW flag, EndsWith(todo, flag)
  PROVE  /\ Len(todo) = 1 => Head(todo) = flag
         /\ Len(todo) # 1 => EndsWith(Tail(todo), flag)
<1>1. todo \in Seq(LockedSteps) /\ Len(todo) \in Nat /\ Len(todo) >= 1
  BY DEF EndsWith
<1>2. CASE Len(todo) = 1
  BY <1>1, <1>2 DEF EndsWith
<1>3. CASE Len(todo) # 1
  <2>1. Tail(todo) \in Seq(LockedSteps) /\ Len(Tail(todo)) = Len(todo) - 1
    BY <1>1, <1>3
  <2>2. Tail(todo)[Len(todo) - 1] = todo[Len(todo)]
    BY <1>1, <1>3
  <2>3. EndsWith(Tail(todo), flag)
    BY <1>1, <1>3, <2>1, <2>2 DEF EndsWith
  <2>4. QED
    BY <1>3, <2>3
<1>4. QED
  BY <1>2, <1>3

\* A step of a load never takes the flag of a locked backend back, and the last
\* one sets it.
LEMMA StepKeepsFlags ==
  ASSUME Shape, NEW c \in Conns, NEW t \in Threads(c), LoadStep(c, t),
         NEW d \in Conns, NEW h \in Handlers(d), Of(d, h).locked
  PROVE  /\ Flagged(d, h) => Of(d, h).flag \in attrs'[d][h]
         /\ d = c /\ h = loader[c][t].h /\ Head(loader[c][t].todo) = Of(d, h).flag =>
                Of(d, h).flag \in attrs'[d][h]
<1> DEFINE hh == loader[c][t].h
           do == Head(loader[c][t].todo)
<1>1. Of(d, h).flag \notin FileSteps \cup {"prepare", "raise"}
  BY LockedOf DEF Shape
<1>2. CASE do \in FileSteps
  BY <1>1, <1>2 DEF LoadStep, Shape, Flagged
<1>3. CASE do \notin FileSteps /\ do = "_model"
  <2>1. attrs' = [attrs EXCEPT ![c][hh] = (@ \ {"prepare"}) \cup {do}]
    BY <1>3 DEF LoadStep
  <2>2. QED
    BY <1>1, <2>1 DEF Shape, Flagged
<1>4. CASE do \notin FileSteps /\ do # "_model"
  <2>1. attrs' = [attrs EXCEPT ![c][hh] = @ \cup {do}]
    BY <1>4 DEF LoadStep
  <2>2. QED
    BY <1>1, <2>1 DEF Shape, Flagged
<1>5. QED
  BY <1>2, <1>3, <1>4

LEMMA StepDomains ==
  ASSUME Shape, NEW c \in Conns, NEW t \in Threads(c), LoadStep(c, t)
  PROVE  /\ DOMAIN attrs' = Conns /\ DOMAIN loads' = Conns /\ DOMAIN holder' = Conns
         /\ \A d \in Conns : /\ DOMAIN attrs'[d] = Handlers(d)
                             /\ DOMAIN loads'[d] = Handlers(d)
                             /\ DOMAIN holder'[d] = Handlers(d)
<1> DEFINE hh == loader[c][t].h
           do == Head(loader[c][t].todo)
<1>1. \/ attrs' = attrs
      \/ attrs' = [attrs EXCEPT ![c][hh] = (@ \ {"prepare"}) \cup {do}]
      \/ attrs' = [attrs EXCEPT ![c][hh] = @ \cup {do}]
  BY DEF LoadStep
<1>2. loads' = loads \/ loads' = [loads EXCEPT ![c][hh] = @ + 1]
  BY DEF LoadStep
<1>3. holder' = holder \/ holder' = [holder EXCEPT ![c][hh] = "nobody"]
  BY DEF LoadStep, Unlock
<1>4. QED
  BY <1>1, <1>2, <1>3 DEF Shape

\* A step of a load: the last one unlocks, counts the load and has set the flag.
LEMMA StepKeeps ==
  ASSUME LoadingIInv, NEW c \in Conns, NEW t \in Threads(c), LoadStep(c, t)
  PROVE  LoadingIInv'
<1> DEFINE hh == loader[c][t].h
           todo == loader[c][t].todo
           last == Len(todo) = 1
           r == IF last THEN [pc |-> "return", h |-> hh, todo |-> todo]
                ELSE [pc |-> "load", h |-> hh, todo |-> Tail(todo)]
<1> USE DEF LoadingIInv
<1>1. \A d \in Conns : Threads(d)' = Threads(d) /\ Handlers(d)' = Handlers(d)
  BY DEF LoadStep, Threads, Handlers
<1>2. \A d \in Conns : \A h \in Handlers(d) : Of(d, h)' = Of(d, h)
  BY DEF LoadStep, Of
<1>3. UNCHANGED setup /\ loader[c][t].pc = "load" /\ IsCall(loader[c][t])
  BY DEF LoadStep, Shape
<1>4. loader' = [loader EXCEPT ![c][t] = r]
  <2>1. CASE last
    <3>1. loader' = [loader EXCEPT ![c][t] = [loader[c][t] EXCEPT !.pc = "return"]]
      BY <2>1 DEF LoadStep
    <3>2. QED
      BY <1>3, <2>1, <3>1, LoadCall
  <2>2. CASE ~last
    <3>1. loader' = [loader EXCEPT ![c][t] = [loader[c][t] EXCEPT !.todo = Tail(@)]]
      BY <2>2 DEF LoadStep
    <3>2. QED
      BY <1>3, <2>2, <3>1, LoadCall
  <2>3. QED
    BY <2>1, <2>2
<1>5. /\ IsCall(r)
      /\ last => r.pc = "return"
      /\ ~last => r.h = hh /\ r.todo = Tail(todo)
  BY DEF IsCall
<1>6. /\ last => /\ loads' = [loads EXCEPT ![c][hh] = @ + 1]
                 /\ holder' = Unlock(c, t, hh)
      /\ ~last => loads' = loads /\ holder' = holder
  BY DEF LoadStep
<1> HIDE DEF r
<1>7. loader'[c][t] = r
  BY <1>4 DEF Shape
<1>8. \A d \in Conns : \A u \in Threads(d) : d # c \/ u # t => loader'[d][u] = loader[d][u]
  BY <1>3, <1>4, <1>5, LoaderUpdate
<1>9. Shape'
  BY <1>1, <1>3, <1>4, <1>5, LoaderUpdate, StepDomains DEF Shape
<1>10. ASSUME NEW d \in Conns, NEW h \in Handlers(d), Of(d, h).locked
       PROVE  LoadedOnce(d, h)' /\ \A u \in Threads(d) : LoadsUnderLock(d, h, u)'
  <2>1. LoadedOnce(d, h) /\ \A u \in Threads(d) : LoadsUnderLock(d, h, u)
    BY <1>10 DEF LockInv
  <2>2. Flagged(d, h) => Flagged(d, h)'
    BY <1>2, <1>10, StepKeepsFlags DEF Flagged
  <2>3. CASE d = c /\ h = hh
    <3>1. /\ holder[c][hh] = t
          /\ loads[c][hh] = 0
          /\ EndsWith(todo, Of(c, hh).flag)
      BY <1>3, <2>1, <2>3 DEF LoadsUnderLock
    <3>2. \A u \in Threads(c) : u # t => ~(loader[c][u].pc = "load" /\ loader[c][u].h = hh)
      BY <2>1, <2>3, <3>1 DEF LoadsUnderLock
    <3>3. CASE last
      <4>1. Head(todo) = Of(c, hh).flag
        BY <3>1, <3>3, EndsWithTail
      <4>2. Flagged(d, h)'
        BY <1>2, <1>10, <2>3, <4>1, StepKeepsFlags DEF Flagged
      <4>3. loads'[d][h] = 1
        BY <1>6, <2>3, <3>1, <3>3 DEF Shape
      <4>4. LoadedOnce(d, h)'
        BY <4>2, <4>3 DEF LoadedOnce
      <4>5. \A u \in Threads(d) : LoadsUnderLock(d, h, u)'
        BY <1>5, <1>7, <1>8, <2>3, <3>2, <3>3 DEF LoadsUnderLock
      <4>6. QED
        BY <4>4, <4>5
    <3>4. CASE ~last
      <4>1. EndsWith(Tail(todo), Of(c, hh).flag)
        BY <3>1, <3>4, EndsWithTail
      <4>2. loads'[d][h] = 0 /\ holder'[d][h] = t
        BY <1>6, <2>3, <3>1, <3>4
      <4>3. LoadedOnce(d, h)'
        BY <4>2 DEF LoadedOnce
      <4>4. LoadsUnderLock(d, h, t)'
        BY <1>2, <1>5, <1>7, <2>3, <3>4, <4>1, <4>2 DEF LoadsUnderLock
      <4>5. \A u \in Threads(d) : u # t => LoadsUnderLock(d, h, u)'
        BY <1>8, <2>3, <3>2 DEF LoadsUnderLock
      <4>6. QED
        BY <4>3, <4>4, <4>5
    <3>5. QED
      BY <3>3, <3>4
  <2>4. CASE d # c \/ h # hh
    <3>1. loads'[d][h] = loads[d][h] /\ holder'[d][h] = holder[d][h]
      BY <1>6, <2>4 DEF Unlock, Shape
    <3>2. LoadedOnce(d, h)'
      BY <2>1, <2>2, <3>1 DEF LoadedOnce
    <3>3. ASSUME NEW u \in Threads(d)
          PROVE  LoadsUnderLock(d, h, u)'
      <4>1. CASE d = c /\ u = t
        BY <1>5, <1>7, <2>4, <4>1 DEF LoadsUnderLock
      <4>2. CASE d # c \/ u # t
        BY <1>2, <1>8, <2>1, <3>1, <4>2 DEF LoadsUnderLock
      <4>3. QED
        BY <4>1, <4>2
    <3>4. QED
      BY <3>2, <3>3
  <2>5. QED
    BY <2>3, <2>4
<1>11. LockInv'
  BY <1>1, <1>2, <1>10 DEF LockInv
<1>12. QED
  BY <1>9, <1>11

\* What the threads of a session do about models keeps the invariant.
LEMMA LoadingKeeps ==
  ASSUME LoadingIInv, NEW c \in Conns, LoadingStep(c)
  PROVE  LoadingIInv'
<1>1. ASSUME NEW t \in Threads(c), LoadEnter(c, t) \/ LoadStep(c, t) \/ LoadRaises(c, t)
      PROVE  LoadingIInv'
  BY <1>1, EnterKeeps, StepKeeps, RaiseKeeps
<1>2. "bg" \in Threads(c) /\ \A h \in Handlers(c) : h \in Threads(c)
  BY DEF Threads
<1>3. IsCall(NoCall) /\ NoCall.pc # "load"
  BY DEF IsCall, NoCall
<1>4. \A h : IsCall(Call(h)) /\ Call(h).pc # "load"
  BY DEF IsCall, Call
<1>5. CASE BgNext(c)
  <2>1. CASE UNCHANGED loader
    BY <1>5, <2>1, Unchanged DEF BgNext
  <2>2. CASE loader' = [loader EXCEPT ![c]["bg"] = Call(FirstOf(bg[c].next))]
    BY <1>2, <1>4, <1>5, <2>2, CallUpdate DEF BgNext
  <2>3. QED
    BY <1>5, <2>1, <2>2 DEF BgNext
<1>6. CASE BgReturns(c)
  BY <1>2, <1>3, <1>6, CallUpdate DEF BgReturns
<1>7. ASSUME NEW h \in Handlers(c), HandlerTake(c, h)
      PROVE  LoadingIInv'
  <2>1. CASE Flagged(c, h)
    BY <1>7, <2>1, Unchanged DEF HandlerTake
  <2>2. CASE ~Flagged(c, h)
    BY <1>2, <1>4, <1>7, <2>2, CallUpdate DEF HandlerTake
  <2>3. QED
    BY <2>1, <2>2
<1>8. ASSUME NEW h \in Handlers(c), HandlerLoaded(c, h)
      PROVE  LoadingIInv'
  BY <1>2, <1>3, <1>8, CallUpdate DEF HandlerLoaded
<1>9. ASSUME NEW h \in Handlers(c), HandlerUsed(c, h)
      PROVE  LoadingIInv'
  BY <1>9, Unchanged DEF HandlerUsed
<1>10. QED
  BY <1>1, <1>5, <1>6, <1>7, <1>8, <1>9 DEF LoadingStep

\* The other steps of the server leave the models alone.
LEMMA OthersKeep ==
  ASSUME [ServerNext]_serverVars, \A c \in Conns : ~LoadingStep(c)
  PROVE  UNCHANGED <<setup, attrs, holder, loads, loader>>
<1>1. CASE Client
  BY <1>1 DEF Client, Connect, DrainEmit, Disconnect, ProxyStart, ProxyGone, TestStart,
              loadingVars, modelVars
<1>2. ASSUME NEW c \in Conns, SessionStep(c)
      PROVE  UNCHANGED <<setup, attrs, holder, loads, loader>>
  BY <1>2 DEF SessionStep, Loading, CreateSender, Announce, BgEmit, PutEvent, Send, HandlerEnds,
              DrainEnds, JoinEnds, loadingVars, modelVars
<1>3. ASSUME NEW r \in Proxies, ProxyStep(r)
      PROVE  UNCHANGED <<setup, attrs, holder, loads, loader>>
  BY <1>3 DEF ProxyStep, WorkerAnswers, WorkerEnds, ProxyGet, ProxySent, ProxyTimeout,
              loadingVars, modelVars
<1>4. ASSUME NEW t \in SelfTests, TestStep(t)
      PROVE  UNCHANGED <<setup, attrs, holder, loads, loader>>
  BY <1>4 DEF TestStep, TestEnd, TestThreadEnds, TestLLMHangs, loadingVars, modelVars
<1>5. CASE UNCHANGED serverVars
  BY <1>5 DEF serverVars, loadingVars, modelVars
<1>6. QED
  BY <1>1, <1>2, <1>3, <1>4, <1>5 DEF ServerNext

\* The invariant of loading.
LEMMA LoadingInvariant == ServerSpec => []LoadingIInv
<1>1. ServerInit => LoadingIInv
  <2> SUFFICES ASSUME ServerInit
               PROVE  LoadingIInv
    OBVIOUS
  <2>1. Shape
    BY DEF ServerInit, LoadingInit, Shape, IsCall
  <2>2. \A c \in Conns : \A h \in Handlers(c) : loads[c][h] = 0
    BY DEF ServerInit, LoadingInit
  <2>3. \A c \in Conns : \A t \in Threads(c) : loader[c][t].pc = "none"
    BY DEF ServerInit, LoadingInit, NoCall
  <2>4. LockInv
    BY <2>2, <2>3 DEF LockInv, LoadedOnce, LoadsUnderLock
  <2>5. QED
    BY <2>1, <2>4 DEF LoadingIInv
<1>2. LoadingIInv /\ [ServerNext]_serverVars => LoadingIInv'
  <2> SUFFICES ASSUME LoadingIInv, [ServerNext]_serverVars
               PROVE  LoadingIInv'
    OBVIOUS
  <2>1. CASE \E c \in Conns : LoadingStep(c)
    BY <2>1, LoadingKeeps
  <2>2. CASE \A c \in Conns : ~LoadingStep(c)
    BY <2>2, OthersKeep, Unchanged
  <2>3. QED
    BY <2>1, <2>2
<1>3. QED
  BY <1>1, <1>2, PTL DEF ServerSpec

\* MMS and Piper load their model once in every session, whatever backends the
\* other stages have, whatever raises, and whatever else the server does.
THEOREM ServerLockedLoadedOnce == ServerSpec => []LockedLoadedOnce
<1>1. LoadingIInv => LockedLoadedOnce
  BY DEF LoadingIInv, LockInv, LoadedOnce, LockedLoadedOnce
<1>2. QED
  BY <1>1, LoadingInvariant, PTL
===============================================================================
