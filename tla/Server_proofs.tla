---------------------------- MODULE Server_proofs ----------------------------
(***************************************************************************)
(* Proofs about the server (Server.tla) and the loading of models in it    *)
(* (ModelLoading.tla), for any number of sessions, proxy requests and      *)
(* self-tests: a handler never works with half a model, where the          *)
(* attribute that tells it so is assigned last, with or without a lock;    *)
(* the client is told the truth about the warm-up; self-tests exclude each *)
(* other; and the types.                                                   *)
(***************************************************************************)
EXTENDS Loading_proofs, FiniteSetTheorems

\* What the backends do that assign the flag last.
Steps == {"_tokenizer", "_model_sample_rate", "_model", "_voice", "_rec", "_client",
          "truncate", "write", "raise"}

\* todo is the rest of a load, and what came before it has been assigned.
Progress(todo, does, have) ==
    /\ todo \in Seq(Steps) /\ does \in Seq(Steps)
    /\ \E k \in 1..Len(does) :
        /\ Len(todo) = Len(does) - k + 1
        /\ \A i \in 1..Len(todo) : todo[i] = does[i + k - 1]
        /\ \A i \in 1..(k - 1) : does[i] \in FileSteps \cup have

\* Why CompleteWhenUsed holds, of one handler.
Call1(c, h, t) ==
    loader[c][t].h = h =>
        /\ loader[c][t].pc = "load" => Progress(loader[c][t].todo, Of(c, h).does, attrs[c][h])
        /\ loader[c][t].pc = "return" => Flagged(c, h)

PartsInv ==
    \A c \in Conns : \A h \in Handlers(c) :
        /\ loader[c][h].pc # "none" => loader[c][h].h = h
        /\ setup[c][h] \in FlagLast =>
            /\ Flagged(c, h) => Complete(c, h)
            /\ hnd[c][h] = "use" => Flagged(c, h)
            /\ \A t \in Threads(c) : Call1(c, h, t)

HndShape == DOMAIN hnd = Conns /\ \A c \in Conns : DOMAIN hnd[c] = Handlers(c)

CompleteIInv == Shape /\ HndShape /\ PartsInv

LEMMA FlagLastBackends ==
  ASSUME NEW b \in FlagLast
  PROVE  LET does == Loads[b].does IN
         /\ b \in DOMAIN Loads
         /\ does \in Seq(Steps) /\ Len(does) > 0
         /\ does[Len(does)] = Loads[b].flag \/ does[Len(does)] = "raise"
         /\ \A i \in 1..(Len(does) - 1) : does[i] # Loads[b].flag
         /\ \A i \in 1..Len(does) : does[i] # "prepare"
         /\ Loads[b].flag \notin FileSteps \cup {"raise", "prepare"}
<1>1. b \in DOMAIN Loads
  BY DEF FlagLast, Loads
<1>2. \A x \in Steps : /\ <<x>> \in Seq(Steps) /\ Len(<<x>>) = 1 /\ <<x>>[1] = x
  OBVIOUS
<1>3. \A x, y, z \in Steps :
        /\ <<x, y, z>> \in Seq(Steps) /\ Len(<<x, y, z>>) = 3
        /\ <<x, y, z>>[1] = x /\ <<x, y, z>>[2] = y /\ <<x, y, z>>[3] = z
  OBVIOUS
<1>4. CASE b = "mms"
  <2>1. Loads[b] = MMS
    BY <1>4 DEF Loads
  <2>2. /\ Loads[b].does = <<"_tokenizer", "_model_sample_rate", "_model">>
        /\ Loads[b].flag = "_model"
    BY <2>1 DEF MMS, Load, ModelLast
  <2>3. \A i \in 1..2 : i = 1 \/ i = 2
    OBVIOUS
  <2>4. \A i \in 1..3 : i = 1 \/ i = 2 \/ i = 3
    OBVIOUS
  <2>5. QED
    BY <1>1, <1>3, <2>2, <2>3, <2>4 DEF Steps, FileSteps
<1>5. CASE b = "zipformer"
  <2>1. Loads[b] = Zipformer
    BY <1>5 DEF Loads
  <2>2. Loads[b].does = <<"truncate", "write", "_rec">> /\ Loads[b].flag = "_rec"
    BY <2>1 DEF Zipformer, Load
  <2>3. \A i \in 1..2 : i = 1 \/ i = 2
    OBVIOUS
  <2>4. \A i \in 1..3 : i = 1 \/ i = 2 \/ i = 3
    OBVIOUS
  <2>5. QED
    BY <1>1, <1>3, <2>2, <2>3, <2>4 DEF Steps, FileSteps
<1>6. CASE b \in {"whisper", "openai", "nokey", "piper"}
  <2>1. \E x \in Steps : /\ Loads[b].does = <<x>>
                         /\ x = Loads[b].flag \/ x = "raise"
                         /\ x # "prepare"
                         /\ Loads[b].flag \notin FileSteps \cup {"raise", "prepare"}
    <3>1. CASE b = "whisper"
      <4>1. Loads[b] = Whisper
        BY <3>1 DEF Loads
      <4>2. Loads[b].does = <<"_model">> /\ Loads[b].flag = "_model"
        BY <4>1 DEF Whisper, Load
      <4>3. QED
        BY <4>2 DEF Steps, FileSteps
    <3>2. CASE b = "openai"
      <4>1. Loads[b] = OpenAI
        BY <3>2 DEF Loads
      <4>2. Loads[b].does = <<"_client">> /\ Loads[b].flag = "_client"
        BY <4>1 DEF OpenAI, Load
      <4>3. QED
        BY <4>2 DEF Steps, FileSteps
    <3>3. CASE b = "nokey"
      <4>1. Loads[b] = NoKey
        BY <3>3 DEF Loads
      <4>2. Loads[b].does = <<"raise">> /\ Loads[b].flag = "_client"
        BY <4>1 DEF NoKey, Load
      <4>3. QED
        BY <4>2 DEF Steps, FileSteps
    <3>4. CASE b = "piper"
      <4>1. Loads[b] = Piper
        BY <3>4 DEF Loads
      <4>2. Loads[b].does = <<"_voice">> /\ Loads[b].flag = "_voice"
        BY <4>1 DEF Piper, Load
      <4>3. QED
        BY <4>2 DEF Steps, FileSteps
    <3>5. QED
      BY <1>6, <3>1, <3>2, <3>3, <3>4
  <2>2. QED
    BY <1>1, <1>2, <2>1
<1>7. QED
  BY <1>4, <1>5, <1>6 DEF FlagLast

LEMMA ProgressStart ==
  ASSUME NEW does \in Seq(Steps), NEW have, Len(does) > 0
  PROVE  Progress(does, does, have)
<1>1. /\ Len(does) \in Nat /\ 1 \in 1..Len(does)
      /\ Len(does) = Len(does) - 1 + 1
      /\ \A i \in 1..Len(does) : does[i] = does[i + 1 - 1]
      /\ \A i \in 1..(1 - 1) : does[i] \in FileSteps \cup have
  OBVIOUS
<1>2. QED
  BY <1>1 DEF Progress

\* What has been assigned stays.
LEMMA ProgressMonotone ==
  ASSUME NEW todo, NEW does, NEW have, NEW more, Progress(todo, does, have),
         \A a \in ToSet(does) : a \in have => a \in more
  PROVE  Progress(todo, does, more)
<1>1. PICK k \in 1..Len(does) :
        /\ Len(todo) = Len(does) - k + 1
        /\ \A i \in 1..Len(todo) : todo[i] = does[i + k - 1]
        /\ \A i \in 1..(k - 1) : does[i] \in FileSteps \cup have
  BY DEF Progress
<1>2. does \in Seq(Steps) /\ Len(does) \in Nat
  BY DEF Progress
<1>3. \A i \in 1..(k - 1) : does[i] \in ToSet(does)
  BY <1>2 DEF ToSet
<1>4. \A i \in 1..(k - 1) : does[i] \in FileSteps \cup more
  BY <1>1, <1>3
<1>5. QED
  BY <1>1, <1>4 DEF Progress

LEMMA ProgressNext ==
  ASSUME NEW todo, NEW does, NEW have, NEW more, Progress(todo, does, have), Len(todo) # 1,
         \A a \in ToSet(does) : a \in have => a \in more,
         Head(todo) \in FileSteps \cup more
  PROVE  Progress(Tail(todo), does, more)
<1>0. Progress(todo, does, more)
  BY ProgressMonotone
<1>1. PICK k \in 1..Len(does) :
        /\ Len(todo) = Len(does) - k + 1
        /\ \A i \in 1..Len(todo) : todo[i] = does[i + k - 1]
        /\ \A i \in 1..(k - 1) : does[i] \in FileSteps \cup more
  BY <1>0 DEF Progress
<1>2. /\ does \in Seq(Steps) /\ Len(does) \in Nat
      /\ todo \in Seq(Steps) /\ Len(todo) \in Nat
  BY DEF Progress
<1>3. Len(todo) > 1 /\ k + 1 \in 1..Len(does)
  BY <1>1, <1>2
<1>4. /\ Tail(todo) \in Seq(Steps) /\ Len(Tail(todo)) = Len(does) - (k + 1) + 1
      /\ \A i \in 1..Len(Tail(todo)) : Tail(todo)[i] = todo[i + 1]
      /\ Head(todo) = todo[1]
  BY <1>1, <1>2, <1>3
<1>5. \A i \in 1..Len(Tail(todo)) : Tail(todo)[i] = does[i + (k + 1) - 1]
  BY <1>1, <1>2, <1>3, <1>4
<1>6. does[k] \in FileSteps \cup more
  BY <1>1, <1>2, <1>3, <1>4
<1>7. \A i \in 1..((k + 1) - 1) : does[i] \in FileSteps \cup more
  BY <1>1, <1>6
<1>8. QED
  BY <1>2, <1>3, <1>4, <1>5, <1>7 DEF Progress

\* The flag comes last: when it is assigned everything else is there.
LEMMA ProgressLast ==
  ASSUME NEW b \in FlagLast, NEW todo, NEW have, Progress(todo, Loads[b].does, have)
  PROVE  /\ Len(todo) >= 1 /\ Head(todo) \in ToSet(Loads[b].does)
         /\ Len(todo) = 1 /\ Head(todo) # "raise" => Head(todo) = Loads[b].flag
         /\ Head(todo) = Loads[b].flag =>
                ToSet(Loads[b].does) \ FileSteps \subseteq have \cup {Head(todo)}
<1> DEFINE does == Loads[b].does
<1>1. PICK k \in 1..Len(does) :
        /\ Len(todo) = Len(does) - k + 1
        /\ \A i \in 1..Len(todo) : todo[i] = does[i + k - 1]
        /\ \A i \in 1..(k - 1) : does[i] \in FileSteps \cup have
  BY DEF Progress
<1>2. /\ does \in Seq(Steps) /\ Len(does) \in Nat
      /\ todo \in Seq(Steps) /\ Len(todo) \in Nat
  BY DEF Progress
<1>3. /\ does[Len(does)] = Loads[b].flag \/ does[Len(does)] = "raise"
      /\ \A i \in 1..(Len(does) - 1) : does[i] # Loads[b].flag
  BY FlagLastBackends
<1> HIDE DEF does
<1>4. Len(todo) >= 1 /\ Head(todo) = does[k]
  BY <1>1, <1>2
<1>5. Head(todo) \in ToSet(does)
  BY <1>1, <1>2, <1>4 DEF ToSet
<1>6. Len(todo) = 1 => k = Len(does)
  <2>1. Len(todo) = Len(does) - k + 1 /\ k \in Int /\ Len(does) \in Int
    BY <1>1, <1>2
  <2>2. \A x, y \in Int : 1 = y - x + 1 => x = y
    OBVIOUS
  <2>3. QED
    BY <2>1, <2>2
<1>7. ASSUME Head(todo) = Loads[b].flag
      PROVE  ToSet(does) \ FileSteps \subseteq have \cup {Head(todo)}
  <2>1. k = Len(does)
    BY <1>1, <1>2, <1>3, <1>4, <1>7
  <2>2. \A i \in 1..Len(does) : i \in 1..(k - 1) \/ i = k
    BY <1>2, <2>1
  <2>3. ToSet(does) = {does[i] : i \in 1..Len(does)}
    BY <1>2 DEF ToSet
  <2>4. QED
    BY <1>1, <1>4, <2>2, <2>3
<1>8. QED
  BY <1>3, <1>4, <1>5, <1>6, <1>7 DEF does

\* A call of warmup starts, ends or raises, and the handler's thread uses the
\* model only if the flag says that it may.
LEMMA CallKeepsParts ==
  ASSUME CompleteIInv, UNCHANGED <<setup, attrs>>, Shape', HndShape',
         NEW c \in Conns, NEW t \in Threads(c), NEW r,
         r.pc # "load", r.pc # "return", t # "bg" => r.pc = "none" \/ r.h = t,
         loader' = [loader EXCEPT ![c][t] = r],
         \A d \in Conns : \A h \in Handlers(d) :
            setup[d][h] \in FlagLast /\ hnd'[d][h] = "use" => Flagged(d, h)
  PROVE  CompleteIInv'
<1> USE DEF CompleteIInv
<1>1. \A d \in Conns : Threads(d)' = Threads(d) /\ Handlers(d)' = Handlers(d)
  BY DEF Threads, Handlers
<1>2. \A d \in Conns : \A h \in Handlers(d) :
        /\ Of(d, h)' = Of(d, h)
        /\ Flagged(d, h)' <=> Flagged(d, h)
        /\ Complete(d, h)' <=> Complete(d, h)
  BY DEF Of, Flagged, Complete
<1>3. \A d \in Conns : \A u \in Threads(d) :
        loader'[d][u] = loader[d][u] \/ (d = c /\ u = t /\ loader'[d][u] = r)
  BY DEF Shape
<1>4. \A d \in Conns : \A h \in Handlers(d) : h # "bg" /\ h \in Threads(d)
  <2>1. \A d \in Conns : DOMAIN setup[d] \subseteq Stages
    BY LoadingAssumption DEF Shape
  <2>2. QED
    BY <2>1 DEF Threads, Handlers, Stages
<1>5. ASSUME NEW d \in Conns, NEW h \in Handlers(d)
      PROVE  loader'[d][h].pc # "none" => loader'[d][h].h = h
  BY <1>3, <1>4 DEF PartsInv
<1>6. ASSUME NEW d \in Conns, NEW h \in Handlers(d), setup[d][h] \in FlagLast,
             NEW u \in Threads(d)
      PROVE  Call1(d, h, u)'
  <2>1. Call1(d, h, u)
    BY <1>6 DEF PartsInv
  <2>2. QED
    BY <1>2, <1>3, <2>1 DEF Call1
<1>7. PartsInv'
  BY <1>1, <1>2, <1>5, <1>6 DEF PartsInv
<1>8. QED
  BY <1>7

\* With the lock and the second look, only who finds the flag set returns
\* without loading; who loads starts from the beginning.
LEMMA EnterKeepsParts ==
  ASSUME CompleteIInv, Shape', NEW c \in Conns, NEW t \in Threads(c), LoadEnter(c, t)
  PROVE  CompleteIInv'
<1> USE DEF CompleteIInv
<1> DEFINE hh == loader[c][t].h
           r == IF DoneMeanwhile(c, hh) THEN [pc |-> "return", h |-> hh]
                ELSE [pc |-> "load", h |-> hh, todo |-> Of(c, hh).does]
<1>0. UNCHANGED <<setup, attrs, hnd>> /\ loader[c][t].pc = "enter"
  BY DEF LoadEnter
<1>1. \A d \in Conns : Threads(d)' = Threads(d) /\ Handlers(d)' = Handlers(d)
  BY <1>0 DEF Threads, Handlers
<1>2. \A d \in Conns : \A h \in Handlers(d) :
        /\ Of(d, h)' = Of(d, h)
        /\ Flagged(d, h)' <=> Flagged(d, h)
        /\ Complete(d, h)' <=> Complete(d, h)
  BY <1>0 DEF Of, Flagged, Complete
<1>3. loader' = [loader EXCEPT ![c][t] = r]
  <2>1. CASE DoneMeanwhile(c, hh)
    <3>1. loader' = [loader EXCEPT ![c][t] = [loader[c][t] EXCEPT !.pc = "return"]]
      BY <2>1 DEF LoadEnter
    <3>2. IsCall(loader[c][t])
      BY DEF Shape
    <3>3. QED
      BY <1>0, <2>1, <3>1, <3>2, EnterCall
  <2>2. CASE ~DoneMeanwhile(c, hh)
    BY <2>2 DEF LoadEnter
  <2>3. QED
    BY <2>1, <2>2
<1>4. /\ r.h = hh /\ r.pc # "none"
      /\ r.pc = "return" => DoneMeanwhile(c, hh)
      /\ r.pc = "load" => r.todo = Of(c, hh).does
  OBVIOUS
<1> HIDE DEF r
<1>5. \A d \in Conns : \A u \in Threads(d) :
        loader'[d][u] = loader[d][u] \/ (d = c /\ u = t /\ loader'[d][u] = r)
  BY <1>3 DEF Shape
<1>6. \A d \in Conns : \A h \in Handlers(d) : h \in Threads(d)
  BY DEF Threads
<1>7. ASSUME NEW d \in Conns, NEW h \in Handlers(d)
      PROVE  loader'[d][h].pc # "none" => loader'[d][h].h = h
  BY <1>0, <1>4, <1>5, <1>6 DEF PartsInv
<1>8. ASSUME NEW d \in Conns, NEW h \in Handlers(d), setup[d][h] \in FlagLast,
             NEW u \in Threads(d)
      PROVE  Call1(d, h, u)'
  <2>1. Call1(d, h, u)
    BY <1>8 DEF PartsInv
  <2>2. CASE loader'[d][u] = loader[d][u]
    BY <1>0, <1>2, <2>1, <2>2 DEF Call1
  <2>3. CASE d = c /\ u = t /\ loader'[d][u] = r /\ hh = h
    <3>1. Progress(Of(d, h).does, Of(d, h).does, attrs[d][h])
      BY <1>8, FlagLastBackends, ProgressStart DEF Of
    <3>2. r.pc = "return" => Flagged(d, h)
      BY <1>4, <2>3 DEF DoneMeanwhile
    <3>3. QED
      BY <1>0, <1>2, <1>4, <2>3, <3>1, <3>2 DEF Call1
  <2>4. CASE d = c /\ u = t /\ loader'[d][u] = r /\ hh # h
    BY <1>4, <2>4 DEF Call1
  <2>5. QED
    BY <1>5, <2>2, <2>3, <2>4
<1>9. PartsInv'
  BY <1>0, <1>1, <1>2, <1>7, <1>8 DEF PartsInv
<1>10. HndShape'
  BY <1>0, <1>1 DEF HndShape
<1>11. QED
  BY <1>9, <1>10

\* What a step of a load does to the attributes of a backend that assigns the
\* flag last: nothing is taken back, and only what is done is added.
LEMMA StepAttrs ==
  ASSUME Shape, NEW c \in Conns, NEW t \in Threads(c), LoadStep(c, t),
         NEW d \in Conns, NEW h \in Handlers(d), setup[d][h] \in FlagLast
  PROVE  LET do == Head(loader[c][t].todo)
             here == d = c /\ h = loader[c][t].h
         IN /\ \A a \in ToSet(Of(d, h).does) : a \in attrs[d][h] => a \in attrs'[d][h]
            /\ Flagged(d, h) => Of(d, h).flag \in attrs'[d][h]
            /\ here => do \in FileSteps \cup attrs'[d][h]
            /\ Of(d, h).flag \in attrs'[d][h] => Flagged(d, h) \/ (here /\ do = Of(d, h).flag)
<1> DEFINE do == Head(loader[c][t].todo)
           hh == loader[c][t].h
<1>1. /\ Of(d, h).flag \notin FileSteps \cup {"raise", "prepare"}
      /\ "prepare" \notin ToSet(Of(d, h).does)
  BY FlagLastBackends DEF Of, ToSet
<1>2. CASE do \in FileSteps
  <2>1. attrs' = attrs
    BY <1>2 DEF LoadStep, FileSteps
  <2>2. QED
    BY <1>2, <2>1 DEF Flagged
<1>3. CASE do \notin FileSteps /\ do = "_model"
  <2>1. attrs' = [attrs EXCEPT ![c][hh] = (@ \ {"prepare"}) \cup {do}]
    BY <1>3 DEF LoadStep
  <2>2. attrs'[d][h] = IF d = c /\ h = hh THEN (attrs[d][h] \ {"prepare"}) \cup {do}
                       ELSE attrs[d][h]
    BY <2>1 DEF Shape
  <2>3. QED
    BY <1>1, <2>2 DEF Flagged
<1>4. CASE do \notin FileSteps /\ do # "_model"
  <2>1. attrs' = [attrs EXCEPT ![c][hh] = @ \cup {do}]
    BY <1>4 DEF LoadStep
  <2>2. attrs'[d][h] = IF d = c /\ h = hh THEN attrs[d][h] \cup {do} ELSE attrs[d][h]
    BY <2>1 DEF Shape
  <2>3. QED
    BY <1>1, <2>2 DEF Flagged
<1>5. QED
  BY <1>2, <1>3, <1>4

\* A step of a load: when it assigns the flag, everything else is there.
LEMMA StepKeepsParts ==
  ASSUME CompleteIInv, Shape', NEW c \in Conns, NEW t \in Threads(c), LoadStep(c, t)
  PROVE  CompleteIInv'
<1> USE DEF CompleteIInv
<1> DEFINE hh == loader[c][t].h
           todo == loader[c][t].todo
           do == Head(todo)
           last == Len(todo) = 1
           r == IF last THEN [pc |-> "return", h |-> hh, todo |-> todo]
                ELSE [pc |-> "load", h |-> hh, todo |-> Tail(todo)]
<1>0. /\ UNCHANGED <<setup, hnd>>
      /\ loader[c][t].pc = "load" /\ IsCall(loader[c][t])
      /\ do # "raise"
  BY DEF LoadStep, Shape
<1>1. \A d \in Conns : Threads(d)' = Threads(d) /\ Handlers(d)' = Handlers(d)
  BY <1>0 DEF Threads, Handlers
<1>2. \A d \in Conns : \A h \in Handlers(d) :
        /\ Of(d, h)' = Of(d, h)
        /\ Flagged(d, h)' <=> Of(d, h).flag \in attrs'[d][h]
        /\ Complete(d, h)' <=> ToSet(Of(d, h).does) \ FileSteps \subseteq attrs'[d][h]
  BY <1>0 DEF Of, Flagged, Complete
<1>3. loader' = [loader EXCEPT ![c][t] = r]
  <2>1. CASE last
    <3>1. loader' = [loader EXCEPT ![c][t] = [loader[c][t] EXCEPT !.pc = "return"]]
      BY <2>1 DEF LoadStep
    <3>2. QED
      BY <1>0, <2>1, <3>1, LoadCall
  <2>2. CASE ~last
    <3>1. loader' = [loader EXCEPT ![c][t] = [loader[c][t] EXCEPT !.todo = Tail(@)]]
      BY <2>2 DEF LoadStep
    <3>2. QED
      BY <1>0, <2>2, <3>1, LoadCall
  <2>3. QED
    BY <2>1, <2>2
<1>4. /\ r.h = hh
      /\ last => r.pc = "return"
      /\ ~last => r.pc = "load" /\ r.todo = Tail(todo)
  OBVIOUS
<1> HIDE DEF r
<1>5. \A d \in Conns : \A u \in Threads(d) :
        \/ ~(d = c /\ u = t) /\ loader'[d][u] = loader[d][u]
        \/ d = c /\ u = t /\ loader'[d][u] = r
  BY <1>3 DEF Shape
<1>6. \A d \in Conns : \A h \in Handlers(d) : h \in Threads(d)
  BY DEF Threads
<1>7. ASSUME NEW d \in Conns, NEW h \in Handlers(d)
      PROVE  loader'[d][h].pc # "none" => loader'[d][h].h = h
  BY <1>0, <1>4, <1>5, <1>6 DEF PartsInv
<1>8. ASSUME NEW d \in Conns, NEW h \in Handlers(d), setup[d][h] \in FlagLast
      PROVE  /\ Flagged(d, h)' => Complete(d, h)'
             /\ hnd'[d][h] = "use" => Flagged(d, h)'
             /\ \A u \in Threads(d) : Call1(d, h, u)'
  <2> DEFINE does == Of(d, h).does
  <2>1. /\ Flagged(d, h) => Complete(d, h)
        /\ hnd[d][h] = "use" => Flagged(d, h)
        /\ \A u \in Threads(d) : Call1(d, h, u)
    BY <1>8 DEF PartsInv
  <2>2. /\ \A a \in ToSet(does) : a \in attrs[d][h] => a \in attrs'[d][h]
        /\ Flagged(d, h) => Flagged(d, h)'
        /\ d = c /\ h = hh => do \in FileSteps \cup attrs'[d][h]
        /\ Flagged(d, h)' => Flagged(d, h) \/ (d = c /\ h = hh /\ do = Of(d, h).flag)
    BY <1>2, <1>8, StepAttrs
  <2>3. d = c /\ h = hh => Progress(todo, does, attrs[d][h])
    BY <1>0, <2>1 DEF Call1
  <2>4. d = c /\ h = hh =>
            /\ last => do = Of(d, h).flag
            /\ do = Of(d, h).flag => ToSet(does) \ FileSteps \subseteq attrs[d][h] \cup {do}
            /\ do \in ToSet(does)
    BY <1>0, <1>8, <2>3, ProgressLast DEF Of
  <2>5. Of(d, h).flag \notin FileSteps
    BY <1>8, FlagLastBackends DEF Of
  <2>6. Flagged(d, h)' => Complete(d, h)'
    <3>1. CASE Flagged(d, h)
      BY <1>2, <2>1, <2>2, <3>1 DEF Complete
    <3>2. CASE d = c /\ h = hh /\ do = Of(d, h).flag
      BY <1>2, <2>2, <2>4, <2>5, <3>2
    <3>3. QED
      BY <2>2, <3>1, <3>2
  <2>7. ASSUME NEW u \in Threads(d)
        PROVE  Call1(d, h, u)'
    <3>1. CASE loader'[d][u] = loader[d][u]
      <4>1. loader[d][u].h = h /\ loader[d][u].pc = "load" =>
                Progress(loader[d][u].todo, does, attrs'[d][h])
        BY <2>1, <2>2, ProgressMonotone DEF Call1
      <4>2. QED
        BY <1>2, <2>1, <2>2, <3>1, <4>1 DEF Call1
    <3>2. CASE d = c /\ u = t /\ loader'[d][u] = r /\ h # hh
      BY <1>4, <3>2 DEF Call1
    <3>3. CASE d = c /\ u = t /\ loader'[d][u] = r /\ h = hh /\ last
      <4>1. Flagged(d, h)'
        BY <1>2, <2>2, <2>4, <2>5, <3>3
      <4>2. QED
        BY <1>4, <3>3, <4>1 DEF Call1
    <3>4. CASE d = c /\ u = t /\ loader'[d][u] = r /\ h = hh /\ ~last
      <4>1. Progress(Tail(todo), does, attrs'[d][h])
        BY <2>2, <2>3, <3>4, ProgressNext
      <4>2. QED
        BY <1>2, <1>4, <3>4, <4>1 DEF Call1
    <3>5. QED
      BY <1>5, <3>1, <3>2, <3>3, <3>4
  <2>8. QED
    BY <1>0, <2>1, <2>2, <2>6, <2>7
<1>9. PartsInv'
  BY <1>0, <1>1, <1>7, <1>8 DEF PartsInv
<1>10. HndShape'
  BY <1>0, <1>1 DEF HndShape
<1>11. QED
  BY <1>9, <1>10

\* Nobody touches a model or a call of warmup.
LEMMA OthersKeepParts ==
  ASSUME CompleteIInv, UNCHANGED <<setup, attrs, loader>>, Shape', HndShape',
         \A d \in Conns : \A h \in Handlers(d) :
            hnd'[d][h] = "use" => hnd[d][h] = "use" \/ Flagged(d, h)
  PROVE  CompleteIInv'
<1>1. \A d \in Conns : Threads(d)' = Threads(d) /\ Handlers(d)' = Handlers(d)
  BY DEF Threads, Handlers
<1>2. \A d \in Conns : \A h \in Handlers(d) :
        /\ Flagged(d, h)' <=> Flagged(d, h)
        /\ Complete(d, h)' <=> Complete(d, h)
        /\ \A t \in Threads(d) : Call1(d, h, t)' <=> Call1(d, h, t)
  BY DEF Of, Flagged, Complete, Call1
<1>3. PartsInv'
  BY <1>1, <1>2 DEF CompleteIInv, PartsInv
<1>4. QED
  BY <1>3 DEF CompleteIInv

LEMMA LoadingKeepsParts ==
  ASSUME CompleteIInv, Shape', NEW c \in Conns, LoadingStep(c)
  PROVE  CompleteIInv'
<1> USE DEF CompleteIInv
<1>1. /\ "bg" \in Threads(c)
      /\ \A h \in Handlers(c) : h \in Threads(c)
      /\ \A t \in Threads(c) : t # "bg" => t \in Handlers(c)
  BY DEF Threads
<1>2. /\ NoCall.pc = "none"
      /\ \A h : Call(h).pc = "enter" /\ Call(h).h = h
  BY DEF NoCall, Call
<1>3. HndShape'
  <2>1. UNCHANGED setup
    BY DEF LoadingStep, LoadEnter, LoadStep, LoadRaises, BgNext, BgReturns,
           HandlerTake, HandlerLoaded, HandlerUsed
  <2>2. \A d \in Conns : Handlers(d)' = Handlers(d)
    BY <2>1 DEF Handlers
  <2>3. \/ hnd' = hnd
        \/ \E h \in Handlers(c) : \E v : hnd' = [hnd EXCEPT ![c][h] = v]
    BY DEF LoadingStep, LoadEnter, LoadStep, LoadRaises, BgNext, BgReturns,
           HandlerTake, HandlerLoaded, HandlerUsed
  <2>4. QED
    BY <2>2, <2>3 DEF HndShape
<1>4. \A d \in Conns : \A h \in Handlers(d) :
        setup[d][h] \in FlagLast /\ hnd[d][h] = "use" => Flagged(d, h)
  BY DEF PartsInv
<1>5. ASSUME NEW t \in Threads(c), LoadEnter(c, t) \/ LoadStep(c, t)
      PROVE  CompleteIInv'
  BY <1>5, EnterKeepsParts, StepKeepsParts
<1>6. ASSUME NEW t \in Threads(c), LoadRaises(c, t)
      PROVE  CompleteIInv'
  <2> DEFINE r == [pc |-> "raised", h |-> loader[c][t].h]
  <2>1. loader' = [loader EXCEPT ![c][t] = r] /\ UNCHANGED <<setup, attrs, hnd>>
    BY <1>6 DEF LoadRaises
  <2>2. r.pc # "load" /\ r.pc # "return" /\ (t # "bg" => r.h = t)
    BY <1>1, <1>6 DEF LoadRaises, PartsInv
  <2> HIDE DEF r
  <2>3. QED
    BY <1>3, <1>4, <2>1, <2>2, CallKeepsParts
<1>7. CASE BgNext(c)
  <2>1. UNCHANGED <<setup, attrs, hnd>>
    BY <1>7 DEF BgNext
  <2>2. CASE UNCHANGED loader
    BY <1>3, <2>1, <2>2, OthersKeepParts
  <2>3. CASE loader' = [loader EXCEPT ![c]["bg"] = Call(FirstOf(bg[c].next))]
    BY <1>1, <1>2, <1>3, <1>4, <2>1, <2>3, CallKeepsParts
  <2>4. QED
    BY <1>7, <2>2, <2>3 DEF BgNext
<1>8. CASE BgReturns(c)
  <2>1. loader' = [loader EXCEPT ![c]["bg"] = NoCall] /\ UNCHANGED <<setup, attrs, hnd>>
    BY <1>8 DEF BgReturns
  <2>2. QED
    BY <1>1, <1>2, <1>3, <1>4, <2>1, CallKeepsParts
<1>9. ASSUME NEW h \in Handlers(c), HandlerTake(c, h)
      PROVE  CompleteIInv'
  <2>1. /\ UNCHANGED <<setup, attrs>>
        /\ hnd' = [hnd EXCEPT ![c][h] = IF Flagged(c, h) THEN "use" ELSE "load"]
    BY <1>9 DEF HandlerTake
  <2>2. \A d \in Conns : \A g \in Handlers(d) :
            hnd'[d][g] = "use" => hnd[d][g] = "use" \/ Flagged(d, g)
    BY <2>1 DEF HndShape
  <2>3. CASE Flagged(c, h)
    BY <1>3, <1>9, <2>1, <2>2, <2>3, OthersKeepParts DEF HandlerTake
  <2>4. CASE ~Flagged(c, h)
    <3>1. loader' = [loader EXCEPT ![c][h] = Call(h)]
      BY <1>9, <2>4 DEF HandlerTake
    <3>2. QED
      BY <1>1, <1>2, <1>3, <1>4, <2>1, <2>2, <3>1, CallKeepsParts
  <2>5. QED
    BY <2>3, <2>4
<1>10. ASSUME NEW h \in Handlers(c), HandlerLoaded(c, h)
       PROVE  CompleteIInv'
  <2>1. /\ loader' = [loader EXCEPT ![c][h] = NoCall] /\ UNCHANGED <<setup, attrs>>
        /\ hnd' = [hnd EXCEPT ![c][h] = IF loader[c][h].pc = "return" THEN "use" ELSE "poll"]
    BY <1>10 DEF HandlerLoaded
  <2>2. setup[c][h] \in FlagLast /\ loader[c][h].pc = "return" => Flagged(c, h)
    BY <1>1 DEF PartsInv, Call1
  <2>3. \A d \in Conns : \A g \in Handlers(d) :
            setup[d][g] \in FlagLast /\ hnd'[d][g] = "use" => Flagged(d, g)
    BY <1>4, <2>1, <2>2 DEF HndShape
  <2>4. QED
    BY <1>1, <1>2, <1>3, <2>1, <2>3, CallKeepsParts
<1>11. ASSUME NEW h \in Handlers(c), HandlerUsed(c, h)
       PROVE  CompleteIInv'
  <2>1. /\ UNCHANGED <<setup, attrs, loader>>
        /\ \E now \in {"poll", "hung"} : hnd' = [hnd EXCEPT ![c][h] = now]
    BY <1>11 DEF HandlerUsed
  <2>2. \A d \in Conns : \A g \in Handlers(d) : hnd'[d][g] = "use" => hnd[d][g] = "use"
    BY <2>1 DEF HndShape
  <2>3. QED
    BY <1>3, <2>1, <2>2, OthersKeepParts
<1>12. QED
  BY <1>5, <1>6, <1>7, <1>8, <1>9, <1>10, <1>11 DEF LoadingStep

\* The other steps of the server only stop handlers or let them poll.
LEMMA OthersStop ==
  ASSUME HndShape, [ServerNext]_serverVars, \A c \in Conns : ~LoadingStep(c)
  PROVE  /\ HndShape'
         /\ \A d \in Conns : \A h \in Handlers(d) : hnd'[d][h] = "use" => hnd[d][h] = "use"
<1>1. UNCHANGED setup
  BY OthersKeep
<1>2. \A d \in Conns : Handlers(d)' = Handlers(d)
  BY <1>1 DEF Handlers
<1>3. \/ hnd' = hnd
      \/ \E c \in Conns : hnd' = [hnd EXCEPT ![c] = [h \in Handlers(c) |-> "poll"]]
      \/ \E c \in Conns : \E h \in Handlers(c) : hnd' = [hnd EXCEPT ![c][h] = "ended"]
  <2>1. CASE Client
    BY <2>1 DEF Client, Connect, DrainEmit, Disconnect, ProxyStart, ProxyGone, TestStart,
                loadingVars, modelVars
  <2>2. ASSUME NEW c \in Conns, SessionStep(c)
        PROVE  \/ hnd' = hnd
               \/ \E h \in Handlers(c) : hnd' = [hnd EXCEPT ![c][h] = "ended"]
    BY <2>2 DEF SessionStep, Loading, CreateSender, Announce, BgEmit, PutEvent, Send, HandlerEnds,
                DrainEnds, JoinEnds, loadingVars, modelVars
  <2>3. ASSUME NEW r \in Proxies, ProxyStep(r)
        PROVE  hnd' = hnd
    BY <2>3 DEF ProxyStep, WorkerAnswers, WorkerEnds, ProxyGet, ProxySent, ProxyTimeout,
                loadingVars, modelVars
  <2>4. ASSUME NEW t \in SelfTests, TestStep(t)
        PROVE  hnd' = hnd
    BY <2>4 DEF TestStep, TestEnd, TestThreadEnds, TestLLMHangs, loadingVars, modelVars
  <2>5. CASE UNCHANGED serverVars
    BY <2>5 DEF serverVars, loadingVars, modelVars
  <2>6. QED
    BY <2>1, <2>2, <2>3, <2>4, <2>5 DEF ServerNext
<1>4. QED
  BY <1>2, <1>3 DEF HndShape

\* A handler whose backend assigns the tested attribute last only works with a
\* whole model, in every interleaving of any number of loads, with or without a
\* lock, and whatever raises.
THEOREM ServerCompleteWhenUsed == ServerSpec => []CompleteWhenUsed
<1>1. ServerInit => CompleteIInv
  <2> SUFFICES ASSUME ServerInit
               PROVE  CompleteIInv
    OBVIOUS
  <2>1. Shape
    BY DEF ServerInit, LoadingInit, Shape, IsCall
  <2>2. HndShape /\ \A c \in Conns : \A h \in Handlers(c) : hnd[c][h] = "none" /\ attrs[c][h] = {}
    BY DEF ServerInit, LoadingInit, HndShape
  <2>3. \A c \in Conns : \A t \in Threads(c) : loader[c][t].pc = "none"
    BY DEF ServerInit, LoadingInit, NoCall
  <2>4. PartsInv
    BY <2>2, <2>3 DEF PartsInv, Call1, Flagged, Threads
  <2>5. QED
    BY <2>1, <2>2, <2>4 DEF CompleteIInv
<1>2. CompleteIInv /\ LoadingIInv' /\ [ServerNext]_serverVars => CompleteIInv'
  <2> SUFFICES ASSUME CompleteIInv, Shape', [ServerNext]_serverVars
               PROVE  CompleteIInv'
    BY DEF LoadingIInv
  <2>1. CASE \E c \in Conns : LoadingStep(c)
    BY <2>1, LoadingKeepsParts
  <2>2. CASE \A c \in Conns : ~LoadingStep(c)
    <3>1. UNCHANGED <<setup, attrs, loader>>
      BY <2>2, OthersKeep
    <3>2. QED
      BY <2>2, <3>1, OthersStop, OthersKeepParts DEF CompleteIInv
  <2>3. QED
    BY <2>1, <2>2
<1>3. CompleteIInv => CompleteWhenUsed
  BY DEF CompleteIInv, PartsInv, CompleteWhenUsed
<1>4. QED
  BY <1>1, <1>2, <1>3, LoadingInvariant, PTL DEF ServerSpec

-----------------------------------------------------------------------------
\* Why OneTestAtATime holds: a test has the lock until its answer, and threads
\* of a test outlive it only if one of them has raised.
TestTypes ==
    /\ test \in [SelfTests -> {"none", "refused", "error", "gather", "raising", "answered"}]
    /\ running \in [SelfTests -> Nat] /\ stuck \in [SelfTests -> {0, 1}]
    /\ lock \in SelfTests \cup {Nobody}
    /\ raised \in BOOLEAN

TestIInv ==
    /\ TestTypes
    /\ \A t \in SelfTests :
        /\ test[t] \in {"gather", "raising"} => lock = t
        /\ test[t] = "raising" => raised
        /\ running[t] > 0 => raised \/ test[t] = "gather"
        /\ test[t] = "none" => running[t] = 0
        /\ stuck[t] <= running[t]

\* The self-test is left alone by everything else.
LEMMA OthersKeepTests ==
  ASSUME [ServerNext]_serverVars,
         \A t \in SelfTests : ~TestStart(t) /\ ~TestThreadEnds(t) /\ ~TestLLMHangs(t) /\ ~TestEnd(t)
  PROVE  UNCHANGED testVars
<1>1. CASE Client
  BY <1>1 DEF Client, Connect, DrainEmit, Disconnect, ProxyStart, ProxyGone
<1>2. ASSUME NEW c \in Conns, SessionStep(c)
      PROVE  UNCHANGED testVars
  BY <1>2 DEF SessionStep, Loading, CreateSender, Announce, BgEmit, PutEvent, Send, HandlerEnds,
              DrainEnds, JoinEnds
<1>3. ASSUME NEW r \in Proxies, ProxyStep(r)
      PROVE  UNCHANGED testVars
  BY <1>3 DEF ProxyStep, WorkerAnswers, WorkerEnds, ProxyGet, ProxySent, ProxyTimeout
<1>4. CASE UNCHANGED serverVars
  BY <1>4 DEF serverVars
<1>5. QED
  BY <1>1, <1>2, <1>3, <1>4 DEF ServerNext, TestStep

LEMMA TestInvariant == ServerSpec => []TestIInv
<1>1. ServerInit => TestIInv
  <2>1. ServerInit => /\ test = [t \in SelfTests |-> "none"] /\ running = [t \in SelfTests |-> 0]
                      /\ stuck = running /\ lock = Nobody /\ raised = FALSE
    BY DEF ServerInit
  <2> SUFFICES ASSUME ServerInit
               PROVE  TestIInv
    OBVIOUS
  <2>2. TestTypes
    <3>1. test \in [SelfTests -> {"none", "refused", "error", "gather", "raising", "answered"}]
      BY <2>1
    <3>2. /\ running \in [SelfTests -> Nat] /\ stuck \in [SelfTests -> {0, 1}]
          /\ lock \in SelfTests \cup {Nobody}
      BY <2>1
    <3>3. raised \in BOOLEAN
      BY <2>1
    <3>4. QED
      BY <3>1, <3>2, <3>3 DEF TestTypes
  <2>3. \A t \in SelfTests : test[t] = "none" /\ running[t] = 0 /\ stuck[t] = 0
    BY <2>1
  <2>4. QED
    BY <2>2, <2>3 DEF TestIInv
<1>2. TestIInv /\ [ServerNext]_serverVars => TestIInv'
  <2> SUFFICES ASSUME TestIInv, [ServerNext]_serverVars
               PROVE  TestIInv'
    OBVIOUS
  <2>0. TestThreads \in Nat /\ Nobody \notin SelfTests
    BY ServerAssumption
  <2>1. ASSUME NEW t \in SelfTests, TestStart(t)
        PROVE  TestIInv'
    <3>1. CASE LockTaken
      BY <2>1, <3>1 DEF TestStart, TestIInv, TestTypes
    <3>2. CASE ~LockTaken
      <4>1. lock = Nobody /\ \A u \in SelfTests : test[u] \notin {"gather", "raising"}
        BY <2>0, <3>2 DEF LockTaken, TestIInv, TestTypes
      <4>2. CASE test' = [test EXCEPT ![t] = "error"]
        BY <2>0, <2>1, <3>2, <4>1, <4>2 DEF TestStart, TestIInv, TestTypes, ReleasedBy
      <4>3. CASE test' = [test EXCEPT ![t] = "gather"]
        BY <2>0, <2>1, <3>2, <4>1, <4>3 DEF TestStart, TestIInv, TestTypes
      <4>4. QED
        BY <2>1, <3>2, <4>2, <4>3 DEF TestStart
    <3>3. QED
      BY <3>1, <3>2
  <2>2. ASSUME NEW t \in SelfTests, TestThreadEnds(t)
        PROVE  TestIInv'
    <3>1. /\ running[t] - 1 \in Nat /\ running[t] > stuck[t]
          /\ running' = [running EXCEPT ![t] = running[t] - 1] /\ UNCHANGED <<stuck, lock>>
      BY <2>2 DEF TestThreadEnds, TestIInv, TestTypes
    <3>2. /\ running' \in [SelfTests -> Nat]
          /\ \A u \in SelfTests : /\ running'[u] > 0 => running[u] > 0
                                  /\ stuck'[u] <= running'[u]
                                  /\ running[u] = 0 => running'[u] = 0
      BY <3>1 DEF TestIInv, TestTypes
    <3>3. CASE UNCHANGED <<test, raised>>
      BY <3>1, <3>2, <3>3 DEF TestIInv, TestTypes
    <3>4. CASE test[t] = "gather" /\ test' = [test EXCEPT ![t] = "raising"] /\ raised' = TRUE
      BY <3>1, <3>2, <3>4 DEF TestIInv, TestTypes
    <3>5. QED
      BY <2>2, <3>3, <3>4 DEF TestThreadEnds
  <2>3. ASSUME NEW t \in SelfTests, TestEnd(t)
        PROVE  TestIInv'
    BY <2>0, <2>3 DEF TestEnd, TestIInv, TestTypes, ReleasedBy
  <2>4. ASSUME NEW t \in SelfTests, TestLLMHangs(t)
        PROVE  TestIInv'
    <3>1. /\ stuck' = [stuck EXCEPT ![t] = 1] /\ UNCHANGED <<test, running, lock, raised>>
          /\ running[t] > 0
      BY <2>4 DEF TestLLMHangs
    <3>2. /\ stuck' \in [SelfTests -> {0, 1}]
          /\ \A u \in SelfTests : stuck'[u] <= running'[u]
      BY <3>1 DEF TestIInv, TestTypes
    <3>3. QED
      BY <3>1, <3>2 DEF TestIInv, TestTypes
  <2>5. CASE UNCHANGED testVars
    BY <2>5 DEF testVars, TestIInv, TestTypes
  <2>6. QED
    BY <2>1, <2>2, <2>3, <2>4, <2>5, OthersKeepTests
<1>3. QED
  BY <1>1, <1>2, PTL DEF ServerSpec

\* However many self-tests are called, and whenever their imports fail, the
\* threads of two of them run together only after a thread has raised.
THEOREM ServerOneTestAtATime == ServerSpec => []OneTestAtATime
<1>1. TestIInv => OneTestAtATime
  <2> SUFFICES ASSUME TestIInv, ~raised
               PROVE  Count({t \in SelfTests : running[t] > 0}) <= 1
    BY DEF OneTestAtATime
  <2> DEFINE S == {t \in SelfTests : running[t] > 0}
  <2>1. S \subseteq {lock}
    BY DEF TestIInv
  <2>2. IsFiniteSet({lock}) /\ Cardinality({lock}) = 1
    BY FS_Singleton
  <2>3. Cardinality(S) <= 1
    BY <2>1, <2>2, FS_Subset
  <2>4. QED
    BY <2>3 DEF Count
<1>2. QED
  BY <1>1, TestInvariant, PTL

-----------------------------------------------------------------------------
\* The flag has been assigned, or the steps that are left of a load will do it,
\* or will raise.
Promises(todo, l, have) ==
    /\ todo \in Seq(ToSet(l.does)) /\ Len(todo) > 0
    /\ l.flag \in have \/ \E i \in 1..Len(todo) : todo[i] \in {l.flag, "raise"}

\* What a call of warmup for a handler is up to; a handler calls its own.
CallKept(c, t) ==
    /\ t # "bg" /\ loader[c][t].pc # "none" => loader[c][t].h = t
    /\ \A h \in Handlers(c) : loader[c][t].pc # "none" /\ loader[c][t].h = h =>
        /\ loader[c][t].pc = "load" => Promises(loader[c][t].todo, Of(c, h), attrs[c][h])
        /\ loader[c][t].pc = "return" => Flagged(c, h)

CallsIInv == Shape /\ \A c \in Conns : \A t \in Threads(c) : CallKept(c, t)

\* Why ReadyIsTrue holds: the background thread has been at a handler, is at
\* it, or will be, ...
Tried(c, h) ==
    \/ Flagged(c, h) \/ h \in bg[c].failed \/ h \in bg[c].next
    \/ loader[c]["bg"].pc # "none" /\ loader[c]["bg"].h = h

WarmUp(c) ==
    /\ bg[c] = [pc |-> bg[c].pc, failed |-> bg[c].failed, next |-> bg[c].next]
    /\ bg[c].pc \in {"none", "warming", "emit", "ended"}
    /\ conn[c] = "none" => bg[c].pc = "none"
    /\ bg[c].pc # "warming" => loader[c]["bg"].pc = "none"
    /\ bg[c].pc \in {"emit", "ended"} => bg[c].next = {}
    /\ \A h \in Handlers(c) : Tried(c, h)

EventNames == {"created", "ready", "text"}

\* ... and the event is the last thing it does.
ReadySent(c) ==
    /\ soon[c] \in Seq(EventNames)
    /\ events[c] \in Seq(EventNames)
    /\ "ready" \in ToSet(soon[c]) \cup ToSet(events[c]) \cup delivered[c] => bg[c].pc = "ended"

SessionShape ==
    /\ conn \in [Conns -> {"none", "starting", "announcing", "open", "joining", "closed"}]
    /\ DOMAIN bg = Conns /\ DOMAIN soon = Conns /\ DOMAIN events = Conns /\ DOMAIN delivered = Conns

ReadyIInv == SessionShape /\ \A c \in Conns : WarmUp(c) /\ ReadySent(c)


\* What a load does, in whatever order, contains the assignment of its flag or
\* raises, and the flag is an attribute that stays.
LEMMA AllBackends ==
  ASSUME NEW b \in DOMAIN Loads
  PROVE  LET does == Loads[b].does IN
         /\ does \in Seq(ToSet(does)) /\ Len(does) > 0
         /\ \E i \in 1..Len(does) : does[i] \in {Loads[b].flag, "raise"}
         /\ Loads[b].flag \notin FileSteps \cup {"raise", "prepare"}
<1> DEFINE does == Loads[b].does
<1>1. CASE b \in FlagLast
  <2>1. /\ does \in Seq(Steps) /\ Len(does) > 0
        /\ does[Len(does)] \in {Loads[b].flag, "raise"}
        /\ Loads[b].flag \notin FileSteps \cup {"raise", "prepare"}
    BY <1>1, FlagLastBackends
  <2>2. Len(does) \in 1..Len(does) /\ \A i \in 1..Len(does) : does[i] \in ToSet(does)
    BY <2>1 DEF ToSet
  <2> HIDE DEF does
  <2>3. does \in Seq(ToSet(does))
    BY <2>1, <2>2
  <2>4. QED
    BY <2>1, <2>2, <2>3 DEF does
<1>2. CASE b = "vieneu"
  <2> DEFINE s == <<"_tts", "_src_rate", "_resample_ratio">>
  <2>1. Loads[b] = VieNeu
    BY <1>2 DEF Loads
  <2>2. does = s /\ Loads[b].flag = "_tts"
    BY <2>1 DEF VieNeu, Load
  <2>3. s \in Seq(ToSet(s)) /\ Len(s) = 3 /\ s[1] = "_tts"
    BY DEF ToSet
  <2> HIDE DEF s
  <2>4. \E i \in 1..Len(s) : s[i] \in {"_tts", "raise"}
    BY <2>3
  <2>5. QED
    BY <2>2, <2>3, <2>4 DEF FileSteps
<1>3. CASE b = "transformers"
  <2> DEFINE s == <<"_tokenizer", "_model", "prepare">>
  <2>1. Loads[b] = Transformers
    BY <1>3 DEF Loads
  <2>2. does = s /\ Loads[b].flag = "_model"
    BY <2>1 DEF Transformers, Load
  <2>3. s \in Seq(ToSet(s)) /\ Len(s) = 3 /\ s[2] = "_model"
    BY DEF ToSet
  <2> HIDE DEF s
  <2>4. \E i \in 1..Len(s) : s[i] \in {"_model", "raise"}
    BY <2>3
  <2>5. QED
    BY <2>2, <2>3, <2>4 DEF FileSteps
<1>4. QED
  BY <1>1, <1>2, <1>3 DEF Loads, FlagLast

LEMMA AllOf ==
  ASSUME Shape, NEW c \in Conns, NEW h \in Handlers(c)
  PROVE  /\ Promises(Of(c, h).does, Of(c, h), attrs[c][h])
         /\ Of(c, h).flag \notin FileSteps \cup {"raise", "prepare"}
         /\ h # "bg" /\ h \in Threads(c)
<1>1. setup[c][h] \in DOMAIN Loads /\ DOMAIN setup[c] \subseteq Stages
  BY LoadingAssumption DEF Handlers, Shape
<1>2. h # "bg" /\ h \in Threads(c)
  BY <1>1 DEF Handlers, Threads, Stages
<1>3. QED
  BY <1>1, <1>2, AllBackends DEF Of, Promises

\* What a step of a load does to the attributes of any handler.
LEMMA StepAttributes ==
  ASSUME Shape, NEW c \in Conns, NEW t \in Threads(c), LoadStep(c, t),
         NEW d \in Conns, NEW h \in Handlers(d)
  PROVE  LET do == Head(loader[c][t].todo)
             here == d = c /\ h = loader[c][t].h
         IN /\ Flagged(d, h) => Of(d, h).flag \in attrs'[d][h]
            /\ here /\ do = Of(d, h).flag => Of(d, h).flag \in attrs'[d][h]
            /\ attrs'[d][h] \subseteq attrs[d][h] \cup {do}
            /\ ~here \/ do \in FileSteps => attrs'[d][h] = attrs[d][h]
<1> DEFINE do == Head(loader[c][t].todo)
           hh == loader[c][t].h
<1>1. Of(d, h).flag \notin FileSteps \cup {"raise", "prepare"}
  BY AllOf
<1>2. CASE do \in FileSteps
  <2>1. attrs' = attrs
    BY <1>2 DEF LoadStep, FileSteps
  <2>2. QED
    BY <1>1, <1>2, <2>1 DEF Flagged
<1>3. CASE do \notin FileSteps /\ do = "_model"
  <2>1. attrs' = [attrs EXCEPT ![c][hh] = (@ \ {"prepare"}) \cup {do}]
    BY <1>3 DEF LoadStep
  <2>2. attrs'[d][h] = IF d = c /\ h = hh THEN (attrs[d][h] \ {"prepare"}) \cup {do}
                       ELSE attrs[d][h]
    BY <2>1 DEF Shape
  <2>3. QED
    BY <1>1, <1>3, <2>2 DEF Flagged
<1>4. CASE do \notin FileSteps /\ do # "_model"
  <2>1. attrs' = [attrs EXCEPT ![c][hh] = @ \cup {do}]
    BY <1>4 DEF LoadStep
  <2>2. attrs'[d][h] = IF d = c /\ h = hh THEN attrs[d][h] \cup {do} ELSE attrs[d][h]
    BY <2>1 DEF Shape
  <2>3. QED
    BY <1>1, <1>4, <2>2 DEF Flagged
<1>5. QED
  BY <1>2, <1>3, <1>4

\* What it does to the call.
LEMMA StepCall ==
  ASSUME Shape, NEW c \in Conns, NEW t \in Threads(c), LoadStep(c, t)
  PROVE  LET r == loader'[c][t] todo == loader[c][t].todo IN
         /\ r.h = loader[c][t].h
         /\ Len(todo) = 1 => r.pc = "return"
         /\ Len(todo) # 1 => r.pc = "load" /\ r.todo = Tail(todo)
         /\ \A d \in Conns : \A u \in Threads(d) : ~(d = c /\ u = t) => loader'[d][u] = loader[d][u]
<1> DEFINE hh == loader[c][t].h
           todo == loader[c][t].todo
           last == Len(todo) = 1
           r == IF last THEN [pc |-> "return", h |-> hh, todo |-> todo]
                ELSE [pc |-> "load", h |-> hh, todo |-> Tail(todo)]
<1>1. loader[c][t].pc = "load" /\ IsCall(loader[c][t])
  BY DEF LoadStep, Shape
<1>2. loader' = [loader EXCEPT ![c][t] = r]
  <2>1. CASE last
    <3>1. loader' = [loader EXCEPT ![c][t] = [loader[c][t] EXCEPT !.pc = "return"]]
      BY <2>1 DEF LoadStep
    <3>2. QED
      BY <1>1, <2>1, <3>1, LoadCall
  <2>2. CASE ~last
    <3>1. loader' = [loader EXCEPT ![c][t] = [loader[c][t] EXCEPT !.todo = Tail(@)]]
      BY <2>2 DEF LoadStep
    <3>2. QED
      BY <1>1, <2>2, <3>1, LoadCall
  <2>3. QED
    BY <2>1, <2>2
<1>3. /\ r.h = hh
      /\ last => r.pc = "return"
      /\ ~last => r.pc = "load" /\ r.todo = Tail(todo)
  OBVIOUS
<1> HIDE DEF r
<1>4. loader'[c][t] = r
  BY <1>2 DEF Shape
<1>5. \A d \in Conns : \A u \in Threads(d) : ~(d = c /\ u = t) => loader'[d][u] = loader[d][u]
  BY <1>2 DEF Shape
<1>6. QED
  BY <1>3, <1>4, <1>5

\* What is promised, is kept.
LEMMA PromiseKept ==
  ASSUME NEW todo, NEW l, NEW have, NEW more, Promises(todo, l, have),
         l.flag \in have => l.flag \in more, Head(todo) # "raise",
         Head(todo) = l.flag => l.flag \in more
  PROVE  /\ Len(todo) = 1 => l.flag \in more
         /\ Len(todo) # 1 => Promises(Tail(todo), l, more)
<1>1. /\ todo \in Seq(ToSet(l.does)) /\ Len(todo) > 0
      /\ l.flag \in have \/ \E i \in 1..Len(todo) : todo[i] \in {l.flag, "raise"}
  BY DEF Promises
<1>2. CASE l.flag \in more
  <2> DEFINE S == ToSet(l.does)
  <2>1. todo \in Seq(S) /\ Len(todo) > 0
    BY <1>1
  <2> HIDE DEF S
  <2>2. Len(todo) # 1 => Tail(todo) \in Seq(S) /\ Len(Tail(todo)) > 0
    BY <2>1
  <2>3. QED
    BY <1>2, <2>2 DEF Promises, S
<1>3. CASE l.flag \notin more
  <2>1. PICK i \in 1..Len(todo) : todo[i] \in {l.flag, "raise"}
    BY <1>1, <1>3
  <2>2. i # 1
    BY <1>1, <1>3, <2>1
  <2>3. /\ Tail(todo) \in Seq(ToSet(l.does)) /\ Len(Tail(todo)) > 0
        /\ i - 1 \in 1..Len(Tail(todo)) /\ Tail(todo)[i - 1] = todo[i]
        /\ Len(todo) # 1
    BY <1>1, <2>1, <2>2
  <2>4. QED
    BY <2>1, <2>3 DEF Promises
<1>4. QED
  BY <1>2, <1>3

\* A call starts, ends, or goes on without the model being touched.
LEMMA CallUpdateKept ==
  ASSUME CallsIInv, Shape', UNCHANGED <<setup, attrs>>,
         NEW c \in Conns, NEW t \in Threads(c), NEW r,
         loader' = [loader EXCEPT ![c][t] = r],
         t # "bg" => r.pc = "none" \/ r.h = t,
         \A h \in Handlers(c) : r.pc # "none" /\ r.h = h =>
            /\ r.pc = "load" => Promises(r.todo, Of(c, h), attrs[c][h])
            /\ r.pc = "return" => Flagged(c, h)
  PROVE  CallsIInv'
<1>1. \A d \in Conns : Threads(d)' = Threads(d) /\ Handlers(d)' = Handlers(d)
  BY DEF Threads, Handlers
<1>2. \A d \in Conns : \A h \in Handlers(d) :
        Of(d, h)' = Of(d, h) /\ (Flagged(d, h)' <=> Flagged(d, h))
  BY DEF Of, Flagged
<1>3. \A d \in Conns : \A u \in Threads(d) :
        loader'[d][u] = loader[d][u] \/ (d = c /\ u = t /\ loader'[d][u] = r)
  BY DEF CallsIInv, Shape
<1>4. ASSUME NEW d \in Conns, NEW u \in Threads(d)
      PROVE  CallKept(d, u)'
  <2>1. CallKept(d, u)
    BY DEF CallsIInv
  <2>2. CASE loader'[d][u] = loader[d][u]
    BY <1>1, <1>2, <2>1, <2>2 DEF CallKept
  <2>3. CASE d = c /\ u = t /\ loader'[d][u] = r
    BY <1>1, <1>2, <2>3 DEF CallKept
  <2>4. QED
    BY <1>3, <2>2, <2>3
<1>5. QED
  BY <1>1, <1>4 DEF CallsIInv

LEMMA StepKeepsCalls ==
  ASSUME CallsIInv, Shape', NEW c \in Conns, NEW t \in Threads(c), LoadStep(c, t)
  PROVE  CallsIInv'
<1> DEFINE hh == loader[c][t].h
           todo == loader[c][t].todo
<1>0. Shape /\ UNCHANGED setup /\ loader[c][t].pc = "load" /\ Head(todo) # "raise"
  BY DEF CallsIInv, LoadStep
<1>1. \A d \in Conns : Threads(d)' = Threads(d) /\ Handlers(d)' = Handlers(d)
  BY <1>0 DEF Threads, Handlers
<1>2. \A d \in Conns : \A h \in Handlers(d) :
        Of(d, h)' = Of(d, h) /\ (Flagged(d, h)' <=> Of(d, h).flag \in attrs'[d][h])
  BY <1>0 DEF Of, Flagged
<1>3. ASSUME NEW d \in Conns, NEW u \in Threads(d)
      PROVE  CallKept(d, u)'
  <2>1. CallKept(d, u)
    BY DEF CallsIInv
  <2>2. CASE ~(d = c /\ u = t)
    <3>1. loader'[d][u] = loader[d][u]
      BY <1>0, <2>2, StepCall
    <3>2. ASSUME NEW h \in Handlers(d), loader[d][u].pc # "none", loader[d][u].h = h
          PROVE  /\ loader[d][u].pc = "load" => Promises(loader[d][u].todo, Of(d, h), attrs'[d][h])
                 /\ loader[d][u].pc = "return" => Flagged(d, h)'
      <4>1. Flagged(d, h) => Of(d, h).flag \in attrs'[d][h]
        BY <1>0, StepAttributes
      <4>2. QED
        BY <1>2, <2>1, <3>2, <4>1 DEF CallKept, Promises, Flagged
    <3>3. QED
      BY <1>1, <1>2, <2>1, <3>1, <3>2 DEF CallKept
  <2>3. CASE d = c /\ u = t
    <3>1. /\ loader'[c][t].h = hh
          /\ Len(todo) = 1 => loader'[c][t].pc = "return"
          /\ Len(todo) # 1 => loader'[c][t].pc = "load" /\ loader'[c][t].todo = Tail(todo)
      BY <1>0, StepCall
    <3>2. ASSUME NEW h \in Handlers(c), hh = h
          PROVE  /\ Len(todo) = 1 => Flagged(c, h)'
                 /\ Len(todo) # 1 => Promises(Tail(todo), Of(c, h), attrs'[c][h])
      <4>1. Promises(todo, Of(c, h), attrs[c][h])
        BY <1>0, <2>1, <2>3, <3>2 DEF CallKept
      <4>2. /\ Of(c, h).flag \in attrs[c][h] => Of(c, h).flag \in attrs'[c][h]
            /\ Head(todo) = Of(c, h).flag => Of(c, h).flag \in attrs'[c][h]
        BY <1>0, <3>2, StepAttributes DEF Flagged
      <4> HIDE DEF todo
      <4>3. /\ Len(todo) = 1 => Of(c, h).flag \in attrs'[c][h]
            /\ Len(todo) # 1 => Promises(Tail(todo), Of(c, h), attrs'[c][h])
        BY <1>0, <4>1, <4>2, PromiseKept
      <4>4. QED
        BY <1>2, <4>3
    <3>3. u # "bg" => hh = u
      BY <1>0, <2>1, <2>3 DEF CallKept
    <3>4. QED
      BY <1>1, <1>2, <2>3, <3>1, <3>2, <3>3 DEF CallKept
  <2>4. QED
    BY <2>2, <2>3
<1>4. QED
  BY <1>1, <1>3 DEF CallsIInv

LEMMA LoadingKeepsCalls ==
  ASSUME CallsIInv, Shape', NEW c \in Conns, LoadingStep(c)
  PROVE  CallsIInv'
<1>0. Shape
  BY DEF CallsIInv
<1>1. /\ "bg" \in Threads(c)
      /\ \A h \in Handlers(c) : h \in Threads(c)
  BY DEF Threads
<1>2. /\ NoCall.pc = "none"
      /\ \A h : Call(h).pc = "enter" /\ Call(h).h = h
  BY DEF NoCall, Call
<1>3. ASSUME NEW t \in Threads(c), LoadEnter(c, t)
      PROVE  CallsIInv'
  <2> DEFINE hh == loader[c][t].h
  <2>1. UNCHANGED <<setup, attrs>> /\ loader[c][t].pc = "enter" /\ IsCall(loader[c][t])
    BY <1>0, <1>3 DEF LoadEnter, Shape
  <2>2. t # "bg" => hh = t
    BY <2>1 DEF CallsIInv, CallKept
  <2>3. CASE DoneMeanwhile(c, hh)
    <3> DEFINE r == [pc |-> "return", h |-> hh]
    <3>1. loader' = [loader EXCEPT ![c][t] = [loader[c][t] EXCEPT !.pc = "return"]]
      BY <1>3, <2>3 DEF LoadEnter
    <3>2. loader' = [loader EXCEPT ![c][t] = r]
      BY <2>1, <3>1, EnterCall
    <3>3. r.pc = "return" /\ r.h = hh
      OBVIOUS
    <3> HIDE DEF r
    <3>4. \A h \in Handlers(c) : hh = h => Flagged(c, h)
      BY <2>3 DEF DoneMeanwhile
    <3>5. \A h \in Handlers(c) : r.pc # "none" /\ r.h = h =>
            /\ r.pc = "load" => Promises(r.todo, Of(c, h), attrs[c][h])
            /\ r.pc = "return" => Flagged(c, h)
      BY <3>3, <3>4
    <3>6. t # "bg" => r.pc = "none" \/ r.h = t
      BY <2>2, <3>3
    <3>7. QED
      BY <2>1, <3>2, <3>5, <3>6, CallUpdateKept
  <2>4. CASE ~DoneMeanwhile(c, hh)
    <3> DEFINE r == [pc |-> "load", h |-> hh, todo |-> Of(c, hh).does]
    <3>1. loader' = [loader EXCEPT ![c][t] = r]
      BY <1>3, <2>4 DEF LoadEnter
    <3>2. r.pc = "load" /\ r.h = hh /\ r.todo = Of(c, hh).does
      OBVIOUS
    <3> HIDE DEF r
    <3>3. \A h \in Handlers(c) : hh = h => Promises(r.todo, Of(c, h), attrs[c][h])
      BY <1>0, <3>2, AllOf
    <3>4. QED
      BY <2>1, <2>2, <3>1, <3>2, <3>3, CallUpdateKept
  <2>5. QED
    BY <2>3, <2>4
<1>4. ASSUME NEW t \in Threads(c), LoadRaises(c, t)
      PROVE  CallsIInv'
  <2> DEFINE r == [pc |-> "raised", h |-> loader[c][t].h]
  <2>1. loader' = [loader EXCEPT ![c][t] = r] /\ UNCHANGED <<setup, attrs>>
    BY <1>4 DEF LoadRaises
  <2>2. r.pc = "raised" /\ (t # "bg" => r.h = t)
    BY <1>4 DEF LoadRaises, CallsIInv, CallKept
  <2> HIDE DEF r
  <2>3. QED
    BY <2>1, <2>2, CallUpdateKept
<1>5. ASSUME UNCHANGED <<setup, attrs, loader>>
      PROVE  CallsIInv'
  BY <1>5 DEF CallsIInv, CallKept, Threads, Handlers, Of, Flagged
<1>6. ASSUME UNCHANGED <<setup, attrs>>, NEW t \in Threads(c), loader' = [loader EXCEPT ![c][t] = NoCall]
      PROVE  CallsIInv'
  BY <1>2, <1>6, CallUpdateKept
<1>7. ASSUME UNCHANGED <<setup, attrs>>, NEW t \in Threads(c), NEW h, t # "bg" => h = t,
             loader' = [loader EXCEPT ![c][t] = Call(h)]
      PROVE  CallsIInv'
  BY <1>2, <1>7, CallUpdateKept
<1>8. CASE BgNext(c)
  BY <1>1, <1>5, <1>7, <1>8 DEF BgNext
<1>9. CASE BgReturns(c)
  BY <1>1, <1>6, <1>9 DEF BgReturns
<1>10. ASSUME NEW h \in Handlers(c), HandlerTake(c, h)
       PROVE  CallsIInv'
  BY <1>1, <1>5, <1>7, <1>10 DEF HandlerTake
<1>11. ASSUME NEW h \in Handlers(c), HandlerLoaded(c, h)
       PROVE  CallsIInv'
  BY <1>1, <1>6, <1>11 DEF HandlerLoaded
<1>12. ASSUME NEW h \in Handlers(c), HandlerUsed(c, h)
       PROVE  CallsIInv'
  BY <1>5, <1>12 DEF HandlerUsed
<1>13. QED
  BY <1>3, <1>4, <1>8, <1>9, <1>10, <1>11, <1>12, StepKeepsCalls DEF LoadingStep

LEMMA CallsInvariant == ServerSpec => []CallsIInv
<1>1. ServerInit => CallsIInv
  <2> SUFFICES ASSUME ServerInit
               PROVE  CallsIInv
    OBVIOUS
  <2>1. Shape
    BY DEF ServerInit, LoadingInit, Shape, IsCall
  <2>2. \A c \in Conns : \A t \in Threads(c) : loader[c][t].pc = "none"
    BY DEF ServerInit, LoadingInit, NoCall
  <2>3. QED
    BY <2>1, <2>2 DEF CallsIInv, CallKept
<1>2. CallsIInv /\ LoadingIInv' /\ [ServerNext]_serverVars => CallsIInv'
  <2> SUFFICES ASSUME CallsIInv, Shape', [ServerNext]_serverVars
               PROVE  CallsIInv'
    BY DEF LoadingIInv
  <2>1. CASE \E c \in Conns : LoadingStep(c)
    BY <2>1, LoadingKeepsCalls
  <2>2. CASE \A c \in Conns : ~LoadingStep(c)
    <3>1. UNCHANGED <<setup, attrs, loader>>
      BY <2>2, OthersKeep
    <3>2. QED
      BY <3>1 DEF CallsIInv, CallKept, Threads, Handlers, Of, Flagged
  <2>3. QED
    BY <2>1, <2>2
<1>3. QED
  BY <1>1, <1>2, LoadingInvariant, PTL DEF ServerSpec

\* A model that can be used stays so.
LEMMA FlaggedStays ==
  ASSUME Shape, NEW c \in Conns, LoadingStep(c), NEW d \in Conns, NEW h \in Handlers(d), Flagged(d, h)
  PROVE  Flagged(d, h)'
<1>1. UNCHANGED setup
  BY DEF LoadingStep, LoadEnter, LoadStep, LoadRaises, BgNext, BgReturns,
         HandlerTake, HandlerLoaded, HandlerUsed
<1>2. Of(d, h)' = Of(d, h)
  BY <1>1 DEF Of
<1>3. CASE UNCHANGED attrs
  BY <1>2, <1>3 DEF Flagged
<1>4. ASSUME NEW t \in Threads(c), LoadStep(c, t)
      PROVE  Flagged(d, h)'
  BY <1>2, <1>4, StepAttributes DEF Flagged
<1>5. UNCHANGED attrs \/ \E t \in Threads(c) : LoadStep(c, t)
  BY DEF LoadingStep, LoadEnter, LoadRaises, BgNext, BgReturns,
         HandlerTake, HandlerLoaded, HandlerUsed
<1>6. QED
  BY <1>3, <1>4, <1>5

\* The background thread goes on with nothing but its call.
LEMMA WarmKept ==
  ASSUME UNCHANGED <<setup, bg>>, NEW d \in Conns, WarmUp(d),
         conn'[d] = "none" => conn[d] = "none",
         \A h \in Handlers(d) : Flagged(d, h) => Flagged(d, h)',
         loader'[d]["bg"].pc = "none" <=> loader[d]["bg"].pc = "none",
         loader[d]["bg"].pc # "none" => loader'[d]["bg"].h = loader[d]["bg"].h
  PROVE  WarmUp(d)'
<1>1. Handlers(d)' = Handlers(d)
  BY DEF Handlers
<1>2. ASSUME NEW h \in Handlers(d)
      PROVE  Tried(d, h)'
  BY DEF WarmUp, Tried
<1>3. QED
  BY <1>1, <1>2 DEF WarmUp

\* The steps of loading keep what is known of the background thread.
LEMMA LoadingKeepsWarm ==
  ASSUME CallsIInv, SessionShape, \A d \in Conns : WarmUp(d),
         NEW c \in Conns, LoadingStep(c), UNCHANGED conn
  PROVE  /\ DOMAIN bg' = Conns
         /\ \A d \in Conns : WarmUp(d)' /\ (bg[d].pc = "ended" => bg'[d].pc = "ended")
<1> DEFINE Goal == /\ DOMAIN bg' = Conns
                   /\ \A d \in Conns : WarmUp(d)' /\ (bg[d].pc = "ended" => bg'[d].pc = "ended")
<1>0. /\ Shape /\ DOMAIN bg = Conns /\ UNCHANGED setup
      /\ \A d \in Conns : Handlers(d)' = Handlers(d) /\ "bg" \in Threads(d)
  BY DEF CallsIInv, SessionShape, LoadingStep, LoadEnter, LoadStep, LoadRaises, BgNext, BgReturns,
         HandlerTake, HandlerLoaded, HandlerUsed, Handlers, Threads
<1>1. \A d \in Conns : \A h \in Handlers(d) : Flagged(d, h) => Flagged(d, h)'
  BY <1>0, FlaggedStays
<1>2. /\ NoCall.pc = "none"
      /\ \A h : Call(h).pc = "enter" /\ Call(h).h = h
  BY DEF NoCall, Call
<1>3. ASSUME UNCHANGED bg,
             \A d \in Conns :
                /\ loader'[d]["bg"].pc = "none" <=> loader[d]["bg"].pc = "none"
                /\ loader[d]["bg"].pc # "none" => loader'[d]["bg"].h = loader[d]["bg"].h
      PROVE  Goal
  BY <1>0, <1>1, <1>3, WarmKept
<1>4. ASSUME UNCHANGED bg, NEW t \in Threads(c), NEW r, loader' = [loader EXCEPT ![c][t] = r],
             t = "bg" => /\ loader[c][t].pc # "none" /\ r.pc # "none"
                         /\ r.h = loader[c][t].h
      PROVE  Goal
  <2>1. \A d \in Conns : \/ loader'[d]["bg"] = loader[d]["bg"]
                         \/ d = c /\ t = "bg" /\ loader'[d]["bg"] = r
    BY <1>0, <1>4 DEF Shape
  <2>2. QED
    BY <1>3, <1>4, <2>1
<1> HIDE DEF Goal
<1>5. ASSUME NEW d \in Conns, bg'[d] = bg[d], loader'[d] = loader[d]
       PROVE  WarmUp(d)'
  <2>1. WarmUp(d) /\ Handlers(d)' = Handlers(d)
    BY <1>0
  <2>2. \A h \in Handlers(d) : Tried(d, h)
    BY <2>1 DEF WarmUp
  <2>3. \A h \in Handlers(d) : Tried(d, h)'
    BY <1>1, <1>5, <2>2 DEF Tried
  <2>4. QED
    BY <1>5, <2>1, <2>3 DEF WarmUp
<1>6. ASSUME NEW t \in Threads(c), LoadEnter(c, t)
      PROVE  Goal
  <2> DEFINE hh == loader[c][t].h
  <2>1. UNCHANGED bg /\ loader[c][t].pc = "enter" /\ IsCall(loader[c][t])
    BY <1>0, <1>6 DEF LoadEnter, Shape
  <2>2. CASE DoneMeanwhile(c, hh)
    <3> DEFINE r == [pc |-> "return", h |-> hh]
    <3>1. loader' = [loader EXCEPT ![c][t] = [loader[c][t] EXCEPT !.pc = "return"]]
      BY <1>6, <2>2 DEF LoadEnter
    <3>2. loader' = [loader EXCEPT ![c][t] = r]
      BY <2>1, <3>1, EnterCall
    <3>3. r.pc = "return" /\ r.h = hh
      OBVIOUS
    <3> HIDE DEF r
    <3>4. QED
      BY <1>4, <2>1, <3>2, <3>3
  <2>3. CASE ~DoneMeanwhile(c, hh)
    <3> DEFINE r == [pc |-> "load", h |-> hh, todo |-> Of(c, hh).does]
    <3>1. loader' = [loader EXCEPT ![c][t] = r]
      BY <1>6, <2>3 DEF LoadEnter
    <3>2. r.pc = "load" /\ r.h = hh
      OBVIOUS
    <3> HIDE DEF r
    <3>3. QED
      BY <1>4, <2>1, <3>1, <3>2
  <2>4. QED
    BY <2>2, <2>3
<1>7. ASSUME NEW t \in Threads(c), LoadStep(c, t)
      PROVE  Goal
  <2>1. UNCHANGED bg /\ loader[c][t].pc = "load"
    BY <1>7 DEF LoadStep
  <2>2. /\ loader'[c][t].h = loader[c][t].h
        /\ loader'[c][t].pc \in {"return", "load"}
        /\ \A d \in Conns : \A u \in Threads(d) : ~(d = c /\ u = t) => loader'[d][u] = loader[d][u]
    BY <1>0, <1>7, StepCall
  <2>3. ASSUME NEW d \in Conns
        PROVE  /\ loader'[d]["bg"].pc = "none" <=> loader[d]["bg"].pc = "none"
               /\ loader[d]["bg"].pc # "none" => loader'[d]["bg"].h = loader[d]["bg"].h
    BY <1>0, <2>1, <2>2
  <2>4. QED
    BY <1>3, <2>1, <2>3
<1>8. ASSUME NEW t \in Threads(c), LoadRaises(c, t)
      PROVE  Goal
  <2> DEFINE r == [pc |-> "raised", h |-> loader[c][t].h]
  <2>1. loader' = [loader EXCEPT ![c][t] = r] /\ UNCHANGED bg /\ loader[c][t].pc = "load"
    BY <1>8 DEF LoadRaises
  <2>2. r.pc = "raised" /\ r.h = loader[c][t].h
    OBVIOUS
  <2> HIDE DEF r
  <2>3. QED
    BY <1>4, <2>1, <2>2
<1>9. ASSUME NEW h \in Handlers(c), HandlerTake(c, h) \/ HandlerLoaded(c, h) \/ HandlerUsed(c, h)
      PROVE  Goal
  <2>1. h \in Threads(c) /\ h # "bg"
    BY <1>0, AllOf
  <2>2. UNCHANGED bg
    BY <1>9 DEF HandlerTake, HandlerLoaded, HandlerUsed
  <2>3. loader' = loader \/ \E r : loader' = [loader EXCEPT ![c][h] = r]
    BY <1>9 DEF HandlerTake, HandlerLoaded, HandlerUsed
  <2>4. CASE loader' = loader
    BY <1>3, <2>2, <2>4
  <2>5. CASE \E r : loader' = [loader EXCEPT ![c][h] = r]
    BY <1>4, <2>1, <2>2, <2>5
  <2>6. QED
    BY <2>3, <2>4, <2>5
<1>10. CASE BgNext(c)
  <2> DEFINE x == FirstOf(bg[c].next)
  <2>1. bg[c].pc = "warming" /\ loader[c]["bg"].pc = "none"
    BY <1>10 DEF BgNext
  <2>2. /\ bg[c] = [pc |-> bg[c].pc, failed |-> bg[c].failed, next |-> bg[c].next]
        /\ conn[c] # "none"
        /\ \A h \in Handlers(c) : Flagged(c, h) \/ h \in bg[c].failed \/ h \in bg[c].next
    BY <2>1 DEF WarmUp, Tried
  <2>3. CASE /\ loader' = [loader EXCEPT ![c]["bg"] = Call(x)]
             /\ bg' = [bg EXCEPT ![c].next = @ \ {x}]
    <3>1. loader'[c]["bg"] = Call(x) /\ \A d \in Conns : d # c => loader'[d] = loader[d]
      BY <1>0, <2>3 DEF Shape
    <3>2. /\ bg'[c].pc = "warming" /\ bg'[c].failed = bg[c].failed
          /\ bg'[c].next = bg[c].next \ {x}
          /\ bg'[c] = [pc |-> "warming", failed |-> bg[c].failed, next |-> bg[c].next \ {x}]
      BY <1>0, <2>1, <2>2, <2>3
    <3>3. DOMAIN bg' = Conns /\ \A d \in Conns : d # c => bg'[d] = bg[d]
      BY <1>0, <2>3
    <3>4. WarmUp(c)'
      <4>1. \A h \in Handlers(c) : Tried(c, h)'
        BY <1>1, <1>2, <2>2, <3>1, <3>2 DEF Tried
      <4>2. QED
        BY <1>0, <2>2, <3>2, <4>1 DEF WarmUp
    <3>5. \A d \in Conns : d # c => WarmUp(d)'
      BY <1>5, <3>1, <3>3
    <3>6. QED
      BY <2>1, <3>3, <3>4, <3>5 DEF Goal
  <2>4. CASE /\ bg' = [bg EXCEPT ![c].pc = "emit", ![c].next = {}, ![c].failed = @ \cup bg[c].next]
             /\ UNCHANGED loader
    <3>1. /\ bg'[c].pc = "emit" /\ bg'[c].failed = bg[c].failed \cup bg[c].next
          /\ bg'[c].next = {}
          /\ bg'[c] = [pc |-> "emit", failed |-> bg[c].failed \cup bg[c].next, next |-> {}]
      BY <1>0, <2>1, <2>2, <2>4
    <3>2. DOMAIN bg' = Conns /\ \A d \in Conns : d # c => bg'[d] = bg[d]
      BY <1>0, <2>4
    <3>3. WarmUp(c)'
      <4>1. \A h \in Handlers(c) : Tried(c, h)'
        BY <1>1, <2>2, <3>1 DEF Tried
      <4>2. QED
        BY <1>0, <2>1, <2>2, <2>4, <3>1, <4>1 DEF WarmUp
    <3>4. \A d \in Conns : d # c => WarmUp(d)'
      BY <1>5, <2>4, <3>2
    <3>5. QED
      BY <2>1, <3>2, <3>3, <3>4 DEF Goal
  <2>5. QED
    BY <1>10, <2>3, <2>4 DEF BgNext
<1>11. CASE BgReturns(c)
  <2> DEFINE x == loader[c]["bg"].h
  <2>1. /\ loader[c]["bg"].pc \in {"return", "raised"}
        /\ loader' = [loader EXCEPT ![c]["bg"] = NoCall]
    BY <1>11 DEF BgReturns
  <2>2. loader'[c]["bg"] = NoCall /\ \A d \in Conns : d # c => loader'[d] = loader[d]
    BY <1>0, <2>1 DEF Shape
  <2>3. /\ bg[c] = [pc |-> bg[c].pc, failed |-> bg[c].failed, next |-> bg[c].next]
        /\ bg[c].pc = "warming" /\ conn[c] # "none"
        /\ \A h \in Handlers(c) : Flagged(c, h) \/ h \in bg[c].failed \/ h \in bg[c].next \/ h = x
    BY <2>1 DEF WarmUp, Tried
  <2>4. loader[c]["bg"].pc = "return" => \A h \in Handlers(c) : h = x => Flagged(c, h)
    BY <1>0 DEF CallsIInv, CallKept
  <2>5. /\ DOMAIN bg' = Conns /\ \A d \in Conns : d # c => bg'[d] = bg[d]
        /\ bg'[c] = [pc |-> bg'[c].pc, failed |-> bg'[c].failed, next |-> bg[c].next]
        /\ bg'[c].pc = "warming" /\ bg'[c].next = bg[c].next
        /\ \A h : h \in bg[c].failed => h \in bg'[c].failed
        /\ loader[c]["bg"].pc = "raised" => x \in bg'[c].failed
    <3>1. CASE loader[c]["bg"].pc = "raised"
      <4>1. bg' = [bg EXCEPT ![c].failed = @ \cup {x}, ![c].pc = "warming"]
        BY <1>11, <3>1 DEF BgReturns, AfterRaise
      <4>2. QED
        BY <1>0, <2>3, <4>1
    <3>2. CASE loader[c]["bg"].pc # "raised"
      <4>1. bg' = bg
        BY <1>11, <3>2 DEF BgReturns
      <4>2. QED
        BY <1>0, <2>3, <3>2, <4>1
    <3>3. QED
      BY <3>1, <3>2
  <2>6. WarmUp(c)'
    <3>1. \A h \in Handlers(c) : Tried(c, h)'
      BY <1>1, <2>1, <2>3, <2>4, <2>5 DEF Tried
    <3>2. QED
      BY <1>0, <2>3, <2>5, <3>1 DEF WarmUp
  <2>7. \A d \in Conns : d # c => WarmUp(d)'
    BY <1>5, <2>2, <2>5
  <2>8. \A d \in Conns : bg[d].pc = "ended" => bg'[d].pc = "ended"
    <3>1. bg[c].pc # "ended" /\ \A d \in Conns : d # c => bg'[d] = bg[d]
      BY <2>3, <2>5
    <3>2. QED
      BY <3>1
  <2>9. \A d \in Conns : WarmUp(d)'
    BY <2>6, <2>7
  <2>10. DOMAIN bg' = Conns
    BY <2>5
  <2>11. QED
    BY <2>8, <2>9, <2>10 DEF Goal
<1>12. Goal
  BY <1>6, <1>7, <1>8, <1>9, <1>10, <1>11 DEF LoadingStep, Goal
<1>13. QED
  BY <1>12 DEF Goal

\* What is in a queue after a step.
LEMMA QueueSets ==
  ASSUME NEW S, NEW s \in Seq(S)
  PROVE  /\ \A x \in S : Append(s, x) \in Seq(S) /\ ToSet(Append(s, x)) = ToSet(s) \cup {x}
         /\ s # <<>> => /\ Tail(s) \in Seq(S) /\ Head(s) \in S /\ Head(s) \in ToSet(s)
                        /\ ToSet(Tail(s)) \subseteq ToSet(s)
<1>1. ASSUME NEW x \in S
      PROVE  Append(s, x) \in Seq(S) /\ ToSet(Append(s, x)) = ToSet(s) \cup {x}
  <2>1. /\ Append(s, x) \in Seq(S) /\ Len(s) \in Nat
        /\ DOMAIN s = 1..Len(s) /\ DOMAIN Append(s, x) = 1..(Len(s) + 1)
        /\ \A i \in 1..Len(s) : Append(s, x)[i] = s[i]
        /\ Append(s, x)[Len(s) + 1] = x
    OBVIOUS
  <2>2. \A i \in 1..(Len(s) + 1) : i \in 1..Len(s) \/ i = Len(s) + 1
    BY <2>1
  <2>3. 1..Len(s) \subseteq 1..(Len(s) + 1) /\ Len(s) + 1 \in 1..(Len(s) + 1)
    BY <2>1
  <2>4. QED
    BY <2>1, <2>2, <2>3 DEF ToSet
<1>2. ASSUME s # <<>>
      PROVE  /\ Tail(s) \in Seq(S) /\ Head(s) \in S /\ Head(s) \in ToSet(s)
             /\ ToSet(Tail(s)) \subseteq ToSet(s)
  <2>1. /\ Tail(s) \in Seq(S) /\ Len(s) \in Nat \ {0} /\ Head(s) = s[1]
        /\ DOMAIN s = 1..Len(s) /\ DOMAIN Tail(s) = 1..(Len(s) - 1)
        /\ \A i \in 1..(Len(s) - 1) : Tail(s)[i] = s[i + 1] /\ i + 1 \in 1..Len(s)
        /\ 1 \in 1..Len(s) /\ s[1] \in S
    BY <1>2
  <2>2. QED
    BY <2>1 DEF ToSet
<1>3. QED
  BY <1>1, <1>2

\* What a step may do to a session's events.
LEMMA SessionKinds ==
  ASSUME [ServerNext]_serverVars
  PROVE  \/ \E c \in Conns : LoadingStep(c) /\ UNCHANGED sessionVars
         \/ \E c \in Conns : \/ Connect(c) \/ Announce(c) \/ BgEmit(c) \/ DrainEmit(c)
                             \/ PutEvent(c) \/ Send(c)
         \/ \E c \in Conns : /\ CreateSender(c) \/ Disconnect(c) \/ JoinEnds(c)
                             /\ UNCHANGED <<setup, attrs, loader, bg, soon, events, delivered>>
         \/ UNCHANGED <<setup, attrs, loader, bg, conn, soon, events, delivered>>
<1>1. CASE Client
  BY <1>1 DEF Client, Disconnect, ProxyStart, ProxyGone, TestStart,
              loadingVars, modelVars, sessionVars
<1>2. ASSUME NEW c \in Conns, SessionStep(c)
      PROVE  \/ LoadingStep(c) /\ UNCHANGED sessionVars
             \/ Announce(c) \/ BgEmit(c) \/ PutEvent(c) \/ Send(c)
             \/ /\ CreateSender(c) \/ JoinEnds(c)
                /\ UNCHANGED <<setup, attrs, loader, bg, soon, events, delivered>>
             \/ UNCHANGED <<setup, attrs, loader, bg, conn, soon, events, delivered>>
  BY <1>2 DEF SessionStep, Loading, CreateSender, HandlerEnds, DrainEnds, JoinEnds,
              loadingVars, modelVars, sessionVars
<1>3. ASSUME NEW r \in Proxies, ProxyStep(r)
      PROVE  UNCHANGED <<setup, attrs, loader, bg, conn, soon, events, delivered>>
  BY <1>3 DEF ProxyStep, WorkerAnswers, WorkerEnds, ProxyGet, ProxySent, ProxyTimeout,
              loadingVars, modelVars, sessionVars
<1>4. ASSUME NEW t \in SelfTests, TestStep(t)
      PROVE  UNCHANGED <<setup, attrs, loader, bg, conn, soon, events, delivered>>
  BY <1>4 DEF TestStep, TestEnd, TestThreadEnds, TestLLMHangs, loadingVars, modelVars, sessionVars
<1>5. CASE UNCHANGED serverVars
  BY <1>5 DEF serverVars, loadingVars, modelVars, sessionVars
<1>6. QED
  BY <1>1, <1>2, <1>3, <1>4, <1>5 DEF ServerNext

LEMMA LoadingKeepsReady ==
  ASSUME ReadyIInv, CallsIInv, NEW c \in Conns, LoadingStep(c), UNCHANGED sessionVars
  PROVE  ReadyIInv'
<1>1. SessionShape /\ \A d \in Conns : WarmUp(d) /\ ReadySent(d)
  BY DEF ReadyIInv
<1>2. UNCHANGED <<conn, soon, events, delivered>>
  BY DEF sessionVars
<1>3. /\ DOMAIN bg' = Conns
      /\ \A d \in Conns : WarmUp(d)' /\ (bg[d].pc = "ended" => bg'[d].pc = "ended")
  BY <1>1, <1>2, LoadingKeepsWarm
<1>4. SessionShape'
  BY <1>1, <1>2, <1>3 DEF SessionShape
<1>5. \A d \in Conns : ReadySent(d)'
  BY <1>1, <1>2, <1>3 DEF ReadySent
<1>6. QED
  BY <1>3, <1>4, <1>5 DEF ReadyIInv

\* Nothing but the life of a connection changes.
LEMMA ConnKeepsReady ==
  ASSUME ReadyIInv, UNCHANGED <<setup, attrs, loader, bg, soon, events, delivered>>,
         SessionShape', \A d \in Conns : conn'[d] = "none" => conn[d] = "none"
  PROVE  ReadyIInv'
<1>1. \A d \in Conns : WarmUp(d) /\ ReadySent(d)
  BY DEF ReadyIInv
<1>2. \A d \in Conns : \A h \in Handlers(d) : Flagged(d, h) => Flagged(d, h)'
  BY DEF Of, Flagged
<1>3. \A d \in Conns : WarmUp(d)'
  BY <1>1, <1>2, WarmKept
<1>4. \A d \in Conns : ReadySent(d)'
  BY <1>1 DEF ReadySent
<1>5. QED
  BY <1>3, <1>4 DEF ReadyIInv

\* Events move on.
LEMMA EventsKeepReady ==
  ASSUME ReadyIInv, UNCHANGED <<setup, attrs, loader, bg>>,
         SessionShape', \A d \in Conns : conn'[d] = "none" => conn[d] = "none",
         NEW c \in Conns,
         soon'[c] \in Seq(EventNames) /\ events'[c] \in Seq(EventNames),
         "ready" \in ToSet(soon'[c]) \cup ToSet(events'[c]) \cup delivered'[c] =>
            "ready" \in ToSet(soon[c]) \cup ToSet(events[c]) \cup delivered[c],
         \A d \in Conns : d # c => /\ soon'[d] = soon[d] /\ events'[d] = events[d]
                                   /\ delivered'[d] = delivered[d]
  PROVE  ReadyIInv'
<1>1. \A d \in Conns : WarmUp(d) /\ ReadySent(d)
  BY DEF ReadyIInv
<1>2. \A d \in Conns : \A h \in Handlers(d) : Flagged(d, h) => Flagged(d, h)'
  BY DEF Of, Flagged
<1>3. \A d \in Conns : WarmUp(d)'
  BY <1>1, <1>2, WarmKept
<1>4. ReadySent(c)'
  BY <1>1 DEF ReadySent
<1>5. \A d \in Conns : d # c => ReadySent(d)'
  BY <1>1 DEF ReadySent
<1>6. QED
  BY <1>3, <1>4, <1>5 DEF ReadyIInv

LEMMA EventSteps ==
  ASSUME ReadyIInv, NEW c \in Conns, Announce(c) \/ DrainEmit(c) \/ PutEvent(c) \/ Send(c)
  PROVE  ReadyIInv'
<1>1. /\ SessionShape /\ \A d \in Conns : WarmUp(d) /\ ReadySent(d)
      /\ soon[c] \in Seq(EventNames) /\ events[c] \in Seq(EventNames)
  BY DEF ReadyIInv, ReadySent
<1>2. UNCHANGED <<setup, attrs, loader, bg>>
  BY DEF Announce, DrainEmit, PutEvent, Send, loadingVars, modelVars
<1>3. {"created", "text"} \subseteq EventNames
  BY DEF EventNames
<1>4. CASE Announce(c)
  <2>1. /\ conn[c] = "announcing" /\ conn' = [conn EXCEPT ![c] = "open"]
        /\ soon' = [soon EXCEPT ![c] = Append(soon[c], "created")] /\ UNCHANGED <<events, delivered>>
    BY <1>4 DEF Announce
  <2>2. SessionShape' /\ \A d \in Conns : conn'[d] = "none" => conn[d] = "none"
    BY <1>1, <1>2, <2>1 DEF SessionShape
  <2>3. soon'[c] = Append(soon[c], "created") /\ \A d \in Conns : d # c => soon'[d] = soon[d]
    BY <1>1, <2>1 DEF SessionShape
  <2>4. soon'[c] \in Seq(EventNames) /\ ToSet(soon'[c]) = ToSet(soon[c]) \cup {"created"}
    BY <1>1, <1>3, <2>3, QueueSets
  <2>5. QED
    BY <1>1, <1>2, <2>1, <2>2, <2>3, <2>4, EventsKeepReady
<1>5. CASE DrainEmit(c)
  <2>1. soon' = [soon EXCEPT ![c] = Append(soon[c], "text")] /\ UNCHANGED <<conn, events, delivered>>
    BY <1>5 DEF DrainEmit
  <2>2. SessionShape'
    BY <1>1, <1>2, <2>1 DEF SessionShape
  <2>3. soon'[c] = Append(soon[c], "text") /\ \A d \in Conns : d # c => soon'[d] = soon[d]
    BY <1>1, <2>1 DEF SessionShape
  <2>4. soon'[c] \in Seq(EventNames) /\ ToSet(soon'[c]) = ToSet(soon[c]) \cup {"text"}
    BY <1>1, <1>3, <2>3, QueueSets
  <2>5. QED
    BY <1>1, <1>2, <2>1, <2>2, <2>3, <2>4, EventsKeepReady
<1>6. CASE PutEvent(c)
  <2>1. /\ soon[c] # <<>> /\ soon' = [soon EXCEPT ![c] = Tail(soon[c])]
        /\ UNCHANGED <<conn, delivered>>
        /\ events' = events \/ events' = [events EXCEPT ![c] = Append(events[c], Head(soon[c]))]
    BY <1>6 DEF PutEvent
  <2>2. /\ Tail(soon[c]) \in Seq(EventNames) /\ Head(soon[c]) \in EventNames
        /\ Head(soon[c]) \in ToSet(soon[c]) /\ ToSet(Tail(soon[c])) \subseteq ToSet(soon[c])
    BY <1>1, <2>1, QueueSets
  <2>3. /\ Append(events[c], Head(soon[c])) \in Seq(EventNames)
        /\ ToSet(Append(events[c], Head(soon[c]))) = ToSet(events[c]) \cup {Head(soon[c])}
    BY <1>1, <2>2, QueueSets
  <2>4. SessionShape'
    BY <1>1, <1>2, <2>1 DEF SessionShape
  <2>5. /\ soon'[c] = Tail(soon[c])
        /\ events'[c] = events[c] \/ events'[c] = Append(events[c], Head(soon[c]))
        /\ \A d \in Conns : d # c => soon'[d] = soon[d] /\ events'[d] = events[d]
    BY <1>1, <2>1 DEF SessionShape
  <2>6. /\ soon'[c] \in Seq(EventNames) /\ events'[c] \in Seq(EventNames)
        /\ ToSet(soon'[c]) \cup ToSet(events'[c]) \subseteq ToSet(soon[c]) \cup ToSet(events[c])
    BY <1>1, <2>2, <2>3, <2>5
  <2>7. QED
    BY <1>1, <1>2, <2>1, <2>4, <2>5, <2>6, EventsKeepReady
<1>7. CASE Send(c)
  <2>1. /\ events[c] # <<>> /\ events' = [events EXCEPT ![c] = Tail(events[c])]
        /\ UNCHANGED <<conn, soon>>
        /\ \/ delivered' = [delivered EXCEPT ![c] = delivered[c] \cup {Head(events[c])}]
           \/ delivered' = delivered
    BY <1>7 DEF Send
  <2>2. /\ Tail(events[c]) \in Seq(EventNames)
        /\ Head(events[c]) \in ToSet(events[c]) /\ ToSet(Tail(events[c])) \subseteq ToSet(events[c])
    BY <1>1, <2>1, QueueSets
  <2>3. SessionShape'
    BY <1>1, <1>2, <2>1 DEF SessionShape
  <2>4. /\ events'[c] = Tail(events[c])
        /\ delivered'[c] = delivered[c] \/ delivered'[c] = delivered[c] \cup {Head(events[c])}
        /\ \A d \in Conns : d # c => events'[d] = events[d] /\ delivered'[d] = delivered[d]
    BY <1>1, <2>1 DEF SessionShape
  <2>5. /\ events'[c] \in Seq(EventNames)
        /\ ToSet(events'[c]) \cup delivered'[c] \subseteq ToSet(events[c]) \cup delivered[c]
    BY <2>2, <2>4
  <2>6. QED
    BY <1>1, <1>2, <2>1, <2>3, <2>4, <2>5, EventsKeepReady
<1>8. QED
  BY <1>4, <1>5, <1>6, <1>7

\* The background thread starts, and says that it is through.
LEMMA BackgroundSteps ==
  ASSUME ReadyIInv, NEW c \in Conns, Connect(c) \/ BgEmit(c)
  PROVE  ReadyIInv'
<1>1. SessionShape /\ \A d \in Conns : WarmUp(d) /\ ReadySent(d)
  BY DEF ReadyIInv
<1>2. UNCHANGED <<setup, attrs, loader, events, delivered>>
  BY DEF Connect, BgEmit
<1>3. /\ \A d \in Conns : Handlers(d)' = Handlers(d)
      /\ \A d \in Conns : \A h \in Handlers(d) : Flagged(d, h)' <=> Flagged(d, h)
  BY <1>2 DEF Handlers, Of, Flagged
<1>4. /\ bg[c] = [pc |-> bg[c].pc, failed |-> bg[c].failed, next |-> bg[c].next]
      /\ conn[c] = "none" => bg[c].pc = "none"
      /\ bg[c].pc # "warming" => loader[c]["bg"].pc = "none"
      /\ bg[c].pc \in {"emit", "ended"} => bg[c].next = {}
      /\ \A h \in Handlers(c) : Tried(c, h)
  BY <1>1 DEF WarmUp
<1>5. /\ soon[c] \in Seq(EventNames) /\ events[c] \in Seq(EventNames)
      /\ "ready" \in ToSet(soon[c]) \cup ToSet(events[c]) \cup delivered[c] => bg[c].pc = "ended"
  BY <1>1 DEF ReadySent
<1>6. \E p \in {"warming", "ended"} :
        /\ bg' = [bg EXCEPT ![c].pc = p]
        /\ bg[c].pc # "warming"
        /\ p = "warming" => /\ conn[c] = "none" /\ soon' = soon
                            /\ conn' = [conn EXCEPT ![c] = "starting"]
        /\ p = "ended" => /\ bg[c].pc = "emit" /\ conn' = conn
                          /\ soon' = soon \/ soon' = [soon EXCEPT ![c] = Append(soon[c], "ready")]
  <2>1. CASE Connect(c)
    BY <1>4, <2>1 DEF Connect
  <2>2. CASE BgEmit(c)
    BY <2>2 DEF BgEmit, BgReady
  <2>3. QED
    BY <2>1, <2>2
<1>7. PICK p \in {"warming", "ended"} :
        /\ bg' = [bg EXCEPT ![c].pc = p]
        /\ bg[c].pc # "warming"
        /\ p = "warming" => /\ conn[c] = "none" /\ soon' = soon
                            /\ conn' = [conn EXCEPT ![c] = "starting"]
        /\ p = "ended" => /\ bg[c].pc = "emit" /\ conn' = conn
                          /\ soon' = soon \/ soon' = [soon EXCEPT ![c] = Append(soon[c], "ready")]
  BY <1>6
<1>8. /\ DOMAIN bg' = Conns /\ \A d \in Conns : d # c => bg'[d] = bg[d]
      /\ bg'[c] = [pc |-> p, failed |-> bg[c].failed, next |-> bg[c].next]
  BY <1>1, <1>4, <1>7 DEF SessionShape
<1>9. conn'[c] # "none" /\ \A d \in Conns : d # c => conn'[d] = conn[d]
  BY <1>1, <1>4, <1>7 DEF SessionShape
<1>10. SessionShape'
  <2>1. conn' \in [Conns -> {"none", "starting", "announcing", "open", "joining", "closed"}]
    BY <1>1, <1>7 DEF SessionShape
  <2>2. DOMAIN soon' = Conns
    BY <1>1, <1>7 DEF SessionShape
  <2>3. QED
    BY <1>1, <1>2, <1>8, <2>1, <2>2 DEF SessionShape
<1>11. WarmUp(c)'
  <2>1. \A h \in Handlers(c) : Tried(c, h)'
    BY <1>2, <1>3, <1>4, <1>8 DEF Tried
  <2>2. p \in {"none", "warming", "emit", "ended"} /\ (p = "ended" => bg[c].next = {})
    BY <1>4, <1>7
  <2>3. QED
    BY <1>2, <1>3, <1>4, <1>7, <1>8, <1>9, <2>1, <2>2 DEF WarmUp
<1>12. ASSUME NEW d \in Conns, d # c
       PROVE  WarmUp(d)'
  <2>1. WarmUp(d) /\ bg'[d] = bg[d] /\ conn'[d] = conn[d]
    BY <1>1, <1>8, <1>9, <1>12
  <2>2. \A h \in Handlers(d) : Tried(d, h)'
    BY <1>2, <1>3, <2>1 DEF WarmUp, Tried
  <2>3. QED
    BY <1>2, <1>3, <2>1, <2>2 DEF WarmUp
<1>13. ReadySent(c)'
  <2>1. CASE p = "warming"
    BY <1>2, <1>4, <1>5, <1>7, <2>1 DEF ReadySent
  <2>2. CASE p = "ended"
    <3>1. "ready" \in EventNames
      BY DEF EventNames
    <3>2. soon'[c] = soon[c] \/ soon'[c] = Append(soon[c], "ready")
      BY <1>1, <1>7, <2>2 DEF SessionShape
    <3>3. soon'[c] \in Seq(EventNames)
      <4>1. Append(soon[c], "ready") \in Seq(EventNames)
        BY <1>5, <3>1, QueueSets
      <4>2. QED
        BY <1>5, <3>2, <4>1
    <3>4. bg'[c].pc = "ended"
      BY <1>8, <2>2
    <3>5. QED
      BY <1>2, <1>5, <3>3, <3>4 DEF ReadySent
  <2>3. QED
    BY <2>1, <2>2
<1>14. ASSUME NEW d \in Conns, d # c
       PROVE  ReadySent(d)'
  <2>1. ReadySent(d) /\ bg'[d] = bg[d]
    BY <1>1, <1>8, <1>14
  <2>2. soon'[d] = soon[d]
    BY <1>1, <1>7, <1>14 DEF SessionShape
  <2>3. QED
    BY <1>2, <2>1, <2>2 DEF ReadySent
<1>15. QED
  BY <1>10, <1>11, <1>12, <1>13, <1>14 DEF ReadyIInv

LEMMA ReadyInvariant == ServerSpec => []ReadyIInv
<1>1. ServerInit => ReadyIInv
  <2> SUFFICES ASSUME ServerInit
               PROVE  ReadyIInv
    OBVIOUS
  <2>1. /\ conn = [c \in Conns |-> "none"]
        /\ soon = [c \in Conns |-> <<>>] /\ events = soon
        /\ delivered = [c \in Conns |-> {}]
        /\ bg = [c \in Conns |-> [pc |-> "none", failed |-> {}, next |-> Handlers(c)]]
        /\ loader = [c \in Conns |-> [t \in Threads(c) |-> NoCall]]
    BY DEF ServerInit, LoadingInit
  <2>2. SessionShape
    BY <2>1 DEF SessionShape
  <2>3. ASSUME NEW c \in Conns
        PROVE  WarmUp(c)
    <3>1. /\ bg[c] = [pc |-> "none", failed |-> {}, next |-> Handlers(c)]
          /\ bg[c].pc = "none" /\ bg[c].failed = {} /\ bg[c].next = Handlers(c)
      BY <2>1
    <3>2. loader[c]["bg"].pc = "none"
      BY <2>1 DEF Threads, NoCall
    <3>3. QED
      BY <3>1, <3>2 DEF WarmUp, Tried
  <2>4. ASSUME NEW c \in Conns
        PROVE  ReadySent(c)
    <3>1. soon[c] = <<>> /\ events[c] = <<>> /\ delivered[c] = {}
      BY <2>1
    <3>2. <<>> \in Seq(EventNames) /\ ToSet(<<>>) = {}
      BY DEF ToSet
    <3>3. QED
      BY <3>1, <3>2 DEF ReadySent
  <2>5. QED
    BY <2>2, <2>3, <2>4 DEF ReadyIInv
<1>2. ReadyIInv /\ CallsIInv /\ [ServerNext]_serverVars => ReadyIInv'
  <2> SUFFICES ASSUME ReadyIInv, CallsIInv, [ServerNext]_serverVars
               PROVE  ReadyIInv'
    OBVIOUS
  <2>1. ASSUME NEW c \in Conns, LoadingStep(c), UNCHANGED sessionVars
        PROVE  ReadyIInv'
    BY <2>1, LoadingKeepsReady
  <2>2. ASSUME NEW c \in Conns,
               Connect(c) \/ Announce(c) \/ BgEmit(c) \/ DrainEmit(c) \/ PutEvent(c) \/ Send(c)
        PROVE  ReadyIInv'
    BY <2>2, BackgroundSteps, EventSteps
  <2>3. ASSUME NEW c \in Conns, CreateSender(c) \/ Disconnect(c) \/ JoinEnds(c),
               UNCHANGED <<setup, attrs, loader, bg, soon, events, delivered>>
        PROVE  ReadyIInv'
    <3>1. SessionShape' /\ \A d \in Conns : conn'[d] = "none" => conn[d] = "none"
      BY <2>3 DEF ReadyIInv, SessionShape, CreateSender, Disconnect, JoinEnds
    <3>2. QED
      BY <2>3, <3>1, ConnKeepsReady
  <2>4. CASE UNCHANGED <<setup, attrs, loader, bg, conn, soon, events, delivered>>
    BY <2>4, ConnKeepsReady DEF ReadyIInv, SessionShape
  <2>5. QED
    BY <2>1, <2>2, <2>3, <2>4, SessionKinds
<1>3. QED
  BY <1>1, <1>2, CallsInvariant, PTL DEF ServerSpec

\* The client is told that the models are ready only when every handler of its
\* session has its model, or its warm-up has been tried and has raised, or was
\* left out at the deadline; whatever the other threads load meanwhile.
THEOREM ServerReadyIsTrue == ServerSpec => []ReadyIsTrue
<1>1. ReadyIInv => ReadyIsTrue
  BY DEF ReadyIInv, ReadySent, WarmUp, Tried, ReadyIsTrue
<1>2. QED
  BY <1>1, ReadyInvariant, PTL

-----------------------------------------------------------------------------
\* Who keeps the event loop, of which there is one at a time.
Keeping == {"starting", "announcing", "joining"}
ProxyShape(p) == p = [pc |-> p.pc] \/ p = [pc |-> p.pc, stream |-> p.stream]

LoopIInv ==
    /\ conn \in [Conns -> {"none", "starting", "announcing", "open", "joining", "closed"}]
    /\ DOMAIN proxy = Proxies /\ \A r \in Proxies : ProxyShape(proxy[r])
    /\ loop \in {"free", "start", "join", "proxy"}
    /\ loop = "start" <=> \E c \in Conns : conn[c] \in {"starting", "announcing"}
    /\ loop = "join" <=> \E c \in Conns : conn[c] = "joining"
    /\ loop = "proxy" <=> \E r \in Proxies : proxy[r].pc = "get"
    /\ \A c, d \in Conns : conn[c] \in Keeping /\ conn[d] \in Keeping => c = d
    /\ \A r, s \in Proxies : proxy[r].pc = "get" /\ proxy[s].pc = "get" => r = s

LEMMA LoopKinds ==
  ASSUME [ServerNext]_serverVars
  PROVE  \/ \E c \in Conns : \/ Connect(c) \/ CreateSender(c) \/ Announce(c)
                             \/ Disconnect(c) \/ JoinEnds(c)
         \/ \E r \in Proxies : \/ ProxyStart(r) \/ ProxyGet(r) \/ ProxySent(r)
                               \/ ProxyTimeout(r) \/ ProxyGone(r)
         \/ UNCHANGED <<loop, conn, proxy>>
<1>1. CASE Client
  BY <1>1 DEF Client, DrainEmit, TestStart, proxyVars, sessionVars
<1>2. ASSUME NEW c \in Conns, SessionStep(c)
      PROVE  \/ CreateSender(c) \/ Announce(c) \/ JoinEnds(c)
             \/ UNCHANGED <<loop, conn, proxy>>
  BY <1>2 DEF SessionStep, Loading, BgEmit, PutEvent, Send, HandlerEnds, DrainEnds,
              proxyVars, sessionVars
<1>3. ASSUME NEW r \in Proxies, ProxyStep(r)
      PROVE  \/ ProxyGet(r) \/ ProxySent(r) \/ ProxyTimeout(r)
             \/ UNCHANGED <<loop, conn, proxy>>
  BY <1>3 DEF ProxyStep, WorkerAnswers, WorkerEnds, sessionVars
<1>4. ASSUME NEW t \in SelfTests, TestStep(t)
      PROVE  UNCHANGED <<loop, conn, proxy>>
  BY <1>4 DEF TestStep, TestEnd, TestThreadEnds, TestLLMHangs, proxyVars, sessionVars
<1>5. CASE UNCHANGED serverVars
  BY <1>5 DEF serverVars, proxyVars, sessionVars
<1>6. QED
  BY <1>1, <1>2, <1>3, <1>4, <1>5 DEF ServerNext

\* The life of a connection: who takes the loop found it free, and who has it
\* gives it back.
LEMMA ConnKeepsLoop ==
  ASSUME LoopIInv, NEW c \in Conns, NEW was, NEW now, conn[c] = was,
         conn' = [conn EXCEPT ![c] = now], UNCHANGED proxy,
         \/ was = "none" /\ now = "starting" /\ loop = "free" /\ loop' = "start"
         \/ was = "starting" /\ now = "announcing" /\ UNCHANGED loop
         \/ was = "announcing" /\ now = "open" /\ loop' = "free"
         \/ was = "open" /\ now = "joining" /\ loop = "free" /\ loop' = "join"
         \/ was = "joining" /\ now = "closed" /\ loop' = "free"
  PROVE  LoopIInv'
<1>1. /\ conn' \in [Conns -> {"none", "starting", "announcing", "open", "joining", "closed"}]
      /\ conn'[c] = now /\ \A d \in Conns : d # c => conn'[d] = conn[d]
  BY DEF LoopIInv
<1>2. /\ was \in Keeping => /\ \A d \in Conns : d # c => conn[d] \notin Keeping
                            /\ \A r \in Proxies : proxy[r].pc # "get"
      /\ was \notin Keeping => \A d \in Conns : conn[d] \notin Keeping
  BY DEF LoopIInv, Keeping
<1>3. loop = "free" => \A r \in Proxies : proxy[r].pc # "get"
  BY DEF LoopIInv
<1>4. /\ loop' \in {"free", "start", "join", "proxy"}
      /\ loop' = "start" <=> \E d \in Conns : conn'[d] \in {"starting", "announcing"}
      /\ loop' = "join" <=> \E d \in Conns : conn'[d] = "joining"
  BY <1>1, <1>2 DEF LoopIInv, Keeping
<1>5. loop' = "proxy" <=> \E r \in Proxies : proxy'[r].pc = "get"
  BY <1>2, <1>3 DEF LoopIInv, Keeping
<1>6. \A d, e \in Conns : conn'[d] \in Keeping /\ conn'[e] \in Keeping => d = e
  BY <1>1, <1>2
<1>7. QED
  BY <1>1, <1>4, <1>5, <1>6 DEF LoopIInv

LEMMA ProxyKeepsLoop ==
  ASSUME LoopIInv, NEW r \in Proxies, NEW q, ProxyShape(q),
         proxy' = [proxy EXCEPT ![r] = q], UNCHANGED conn,
         \/ /\ loop = "free" \/ proxy[r].pc = "get"
            /\ q.pc = "get" /\ loop' = "proxy"
         \/ /\ loop = "free" \/ proxy[r].pc = "get"
            /\ q.pc # "get" /\ loop' = "free"
  PROVE  LoopIInv'
<1>1. /\ DOMAIN proxy' = Proxies /\ proxy'[r] = q
      /\ \A s \in Proxies : s # r => proxy'[s] = proxy[s]
  BY DEF LoopIInv
<1>2. /\ \A s \in Proxies : s # r => proxy[s].pc # "get"
      /\ \A d \in Conns : conn[d] \notin Keeping
  BY DEF LoopIInv, Keeping
<1>3. \A s \in Proxies : ProxyShape(proxy'[s])
  BY <1>1 DEF LoopIInv
<1>4. /\ loop' \in {"free", "start", "join", "proxy"}
      /\ loop' = "start" <=> \E d \in Conns : conn'[d] \in {"starting", "announcing"}
      /\ loop' = "join" <=> \E d \in Conns : conn'[d] = "joining"
  BY <1>2 DEF Keeping
<1>5. loop' = "proxy" <=> \E s \in Proxies : proxy'[s].pc = "get"
  BY <1>1, <1>2
<1>6. \A s, u \in Proxies : proxy'[s].pc = "get" /\ proxy'[u].pc = "get" => s = u
  BY <1>1, <1>2
<1>7. QED
  BY <1>1, <1>3, <1>4, <1>5, <1>6 DEF LoopIInv

LEMMA ProxyUpdates ==
  ASSUME NEW p, ProxyShape(p), NEW v
  PROVE  ProxyShape([p EXCEPT !.pc = v]) /\ [p EXCEPT !.pc = v].pc = v
<1>1. CASE p = [pc |-> p.pc]
  <2>1. [p EXCEPT !.pc = v] = [pc |-> v]
    BY <1>1
  <2>2. QED
    BY <2>1 DEF ProxyShape
<1>2. CASE p = [pc |-> p.pc, stream |-> p.stream]
  <2> DEFINE q == [pc |-> v, stream |-> p.stream]
  <2>1. [p EXCEPT !.pc = v] = q
    BY <1>2
  <2>2. q.pc = v /\ q = [pc |-> q.pc, stream |-> q.stream]
    OBVIOUS
  <2> HIDE DEF q
  <2>3. QED
    BY <2>1, <2>2 DEF ProxyShape
<1>3. QED
  BY <1>1, <1>2 DEF ProxyShape

LEMMA LoopInvariant == ServerSpec => []LoopIInv
<1>1. ServerInit => LoopIInv
  <2> SUFFICES ASSUME ServerInit
               PROVE  LoopIInv
    OBVIOUS
  <2>1. /\ conn = [c \in Conns |-> "none"] /\ loop = "free"
        /\ proxy = [r \in Proxies |-> [pc |-> "none"]]
    BY DEF ServerInit
  <2>2. \A r \in Proxies : proxy[r] = [pc |-> "none"] /\ proxy[r].pc = "none"
    BY <2>1
  <2>3. /\ conn \in [Conns -> {"none", "starting", "announcing", "open", "joining", "closed"}]
        /\ \A c \in Conns : conn[c] = "none"
    BY <2>1
  <2>4. \A r \in Proxies : ProxyShape(proxy[r])
    BY <2>2 DEF ProxyShape
  <2>5. QED
    BY <2>1, <2>2, <2>3, <2>4 DEF LoopIInv, Keeping
<1>2. LoopIInv /\ [ServerNext]_serverVars => LoopIInv'
  <2> SUFFICES ASSUME LoopIInv, [ServerNext]_serverVars
               PROVE  LoopIInv'
    OBVIOUS
  <2>1. ASSUME NEW c \in Conns,
               Connect(c) \/ CreateSender(c) \/ Announce(c) \/ Disconnect(c) \/ JoinEnds(c)
        PROVE  LoopIInv'
    <3>1. UNCHANGED proxy
      BY <2>1 DEF Connect, CreateSender, Announce, Disconnect, JoinEnds, proxyVars
    <3>2. CASE Connect(c)
      BY <3>1, <3>2, ConnKeepsLoop DEF Connect
    <3>3. CASE CreateSender(c)
      BY <3>1, <3>3, ConnKeepsLoop DEF CreateSender
    <3>4. CASE Announce(c)
      BY <3>1, <3>4, ConnKeepsLoop DEF Announce
    <3>5. CASE Disconnect(c)
      BY <3>1, <3>5, ConnKeepsLoop DEF Disconnect
    <3>6. CASE JoinEnds(c)
      BY <3>1, <3>6, ConnKeepsLoop DEF JoinEnds
    <3>7. QED
      BY <2>1, <3>2, <3>3, <3>4, <3>5, <3>6
  <2>2. ASSUME NEW r \in Proxies,
               ProxyStart(r) \/ ProxyGet(r) \/ ProxySent(r) \/ ProxyTimeout(r) \/ ProxyGone(r)
        PROVE  LoopIInv'
    <3>1. UNCHANGED conn
      BY <2>2 DEF ProxyStart, ProxyGet, ProxySent, ProxyTimeout, ProxyGone, sessionVars
    <3>2. /\ ProxyShape(proxy[r])
          /\ proxy[r].pc = "get" => loop = "proxy"
      BY DEF LoopIInv
    <3>3. ASSUME NEW v, proxy' = [proxy EXCEPT ![r].pc = v],
                 loop = "free" \/ proxy[r].pc = "get",
                 (v = "get" /\ loop' = "proxy") \/ (v # "get" /\ loop' = "free")
          PROVE  LoopIInv'
      <4> DEFINE q == [proxy[r] EXCEPT !.pc = v]
      <4>1. proxy' = [proxy EXCEPT ![r] = q]
        BY <3>3
      <4>2. ProxyShape(q) /\ q.pc = v
        BY <3>2, ProxyUpdates
      <4> HIDE DEF q
      <4>3. QED
        BY <3>1, <3>3, <4>1, <4>2, ProxyKeepsLoop
    <3>4. CASE ProxyStart(r)
      <4>1. loop = "free"
        BY <3>4 DEF ProxyStart
      <4>2. CASE proxy' = [proxy EXCEPT ![r] = [pc |-> "get", stream |-> FALSE]] /\ loop' = "proxy"
        <5> DEFINE q == [pc |-> "get", stream |-> FALSE]
        <5>1. ProxyShape(q) /\ q.pc = "get" /\ proxy' = [proxy EXCEPT ![r] = q]
          BY <4>2 DEF ProxyShape
        <5> HIDE DEF q
        <5>2. QED
          BY <3>1, <4>1, <4>2, <5>1, ProxyKeepsLoop
      <4>3. CASE proxy' = [proxy EXCEPT ![r] = [pc |-> "headers", stream |-> TRUE]] /\ loop' = loop
        <5> DEFINE q == [pc |-> "headers", stream |-> TRUE]
        <5>1. ProxyShape(q) /\ q.pc = "headers" /\ proxy' = [proxy EXCEPT ![r] = q]
          BY <4>3 DEF ProxyShape
        <5> HIDE DEF q
        <5>2. QED
          BY <3>1, <4>1, <4>3, <5>1, ProxyKeepsLoop
      <4>4. CASE proxy' = [proxy EXCEPT ![r].pc = "error"] /\ loop' = loop
        <5>1. "error" # "get" /\ loop' = "free"
          BY <4>1, <4>4
        <5>2. QED
          BY <3>3, <4>1, <4>4, <5>1
      <4>5. QED
        BY <3>4, <4>2, <4>3, <4>4 DEF ProxyStart
    <3>5. CASE ProxyGet(r)
      <4> DEFINE last == Head(worker[r].out) = "end"
                 v == IF last THEN "answered" ELSE IF proxy[r].stream THEN "send" ELSE "get"
      <4>1. /\ proxy[r].pc = "get" /\ proxy' = [proxy EXCEPT ![r].pc = v]
            /\ loop' = IF last \/ proxy[r].stream THEN "free" ELSE loop
        BY <3>5 DEF ProxyGet
      <4>2. (v = "get" /\ loop' = "proxy") \/ (v # "get" /\ loop' = "free")
        BY <3>2, <4>1
      <4> HIDE DEF v
      <4>3. QED
        BY <3>3, <4>1, <4>2
    <3>6. CASE ProxySent(r)
      <4>1. loop = "free" /\ proxy' = [proxy EXCEPT ![r].pc = "get"] /\ loop' = "proxy"
        BY <3>6 DEF ProxySent
      <4>2. QED
        BY <3>3, <4>1
    <3>7. CASE ProxyTimeout(r)
      <4>1. /\ proxy[r].pc = "get" /\ proxy' = [proxy EXCEPT ![r].pc = "answered"]
            /\ "answered" # "get" /\ loop' = "free"
        BY <3>7 DEF ProxyTimeout, TimedOut
      <4>2. QED
        BY <3>3, <4>1
    <3>8. CASE ProxyGone(r)
      <4>1. /\ loop = "free" /\ proxy' = [proxy EXCEPT ![r].pc = "gone"]
            /\ "gone" # "get" /\ loop' = "free"
        BY <3>8 DEF ProxyGone, sessionVars
      <4>2. QED
        BY <3>3, <4>1
    <3>9. QED
      BY <2>2, <3>4, <3>5, <3>6, <3>7, <3>8
  <2>3. CASE UNCHANGED <<loop, conn, proxy>>
    BY <2>3 DEF LoopIInv
  <2>4. QED
    BY <2>1, <2>2, <2>3, LoopKinds
<1>3. QED
  BY <1>1, <1>2, PTL DEF ServerSpec

-----------------------------------------------------------------------------
\* The attributes, locks and threads of the handlers.
AttrsOK ==
    \A c \in Conns : \A h \in Handlers(c) : attrs[c][h] \subseteq ToSet(Of(c, h).does) \ FileSteps

HolderOK ==
    \A c \in Conns : \A h \in Handlers(c) : holder[c][h] \in {"nobody", "bg", h}

ThreadOK(c, h) ==
    /\ hnd[c][h] \in {"none", "poll", "load", "use", "hung", "ended"}
    /\ hnd[c][h] = "load" <=> loader[c][h].pc # "none"
    /\ conn[c] = "none" => hnd[c][h] = "none"

HandlerIInv ==
    /\ AttrsOK /\ HolderOK
    /\ HndShape /\ \A c \in Conns : \A h \in Handlers(c) : ThreadOK(c, h)
    /\ tokens \in {"absent", "cut", "whole"}

\* Nothing but what its steps assign.
LEMMA LoadingKeepsAttrs ==
  ASSUME CallsIInv, AttrsOK, NEW c \in Conns, LoadingStep(c)
  PROVE  AttrsOK'
<1>1. UNCHANGED setup /\ Shape
  BY DEF CallsIInv, LoadingStep, LoadEnter, LoadStep, LoadRaises, BgNext, BgReturns,
         HandlerTake, HandlerLoaded, HandlerUsed
<1>2. /\ \A d \in Conns : Handlers(d)' = Handlers(d)
      /\ \A d \in Conns : \A h \in Handlers(d) : Of(d, h)' = Of(d, h)
  BY <1>1 DEF Handlers, Of
<1>3. CASE UNCHANGED attrs
  BY <1>2, <1>3 DEF AttrsOK
<1>4. ASSUME NEW t \in Threads(c), LoadStep(c, t)
      PROVE  AttrsOK'
  <2> DEFINE do == Head(loader[c][t].todo)
  <2>1. loader[c][t].pc = "load"
    BY <1>4 DEF LoadStep
  <2>2. ASSUME NEW d \in Conns, NEW h \in Handlers(d)
        PROVE  attrs'[d][h] \subseteq ToSet(Of(d, h).does) \ FileSteps
    <3>1. attrs[d][h] \subseteq ToSet(Of(d, h).does) \ FileSteps
      BY DEF AttrsOK
    <3>2. /\ attrs'[d][h] \subseteq attrs[d][h] \cup {do}
          /\ ~(d = c /\ h = loader[c][t].h) \/ do \in FileSteps => attrs'[d][h] = attrs[d][h]
      BY <1>1, <1>4, StepAttributes
    <3>3. CASE ~(d = c /\ h = loader[c][t].h) \/ do \in FileSteps
      BY <3>1, <3>2, <3>3
    <3>4. CASE d = c /\ h = loader[c][t].h /\ do \notin FileSteps
      <4> DEFINE S == ToSet(Of(c, h).does)
                 todo == loader[c][t].todo
      <4>1. todo \in Seq(S) /\ Len(todo) > 0
        BY <2>1, <3>4 DEF CallsIInv, CallKept, Promises
      <4> HIDE DEF S
      <4>2. Head(todo) \in S
        BY <4>1
      <4>3. QED
        BY <3>1, <3>2, <3>4, <4>2 DEF S
    <3>5. QED
      BY <3>3, <3>4
  <2>3. QED
    BY <1>2, <2>2 DEF AttrsOK
<1>5. UNCHANGED attrs \/ \E t \in Threads(c) : LoadStep(c, t)
  BY DEF LoadingStep, LoadEnter, LoadRaises, BgNext, BgReturns,
         HandlerTake, HandlerLoaded, HandlerUsed
<1>6. QED
  BY <1>3, <1>4, <1>5

\* The lock of a handler is taken by its own thread or in the background.
LEMMA LoadingKeepsHolder ==
  ASSUME CallsIInv, HolderOK, NEW c \in Conns, LoadingStep(c)
  PROVE  HolderOK'
<1>1. UNCHANGED setup /\ Shape
  BY DEF CallsIInv, LoadingStep, LoadEnter, LoadStep, LoadRaises, BgNext, BgReturns,
         HandlerTake, HandlerLoaded, HandlerUsed
<1>2. \A d \in Conns : Handlers(d)' = Handlers(d)
  BY <1>1 DEF Handlers
<1>3. CASE UNCHANGED holder
  BY <1>2, <1>3 DEF HolderOK
<1>4. ASSUME NEW t \in Threads(c), holder' = Unlock(c, t, loader[c][t].h)
      PROVE  HolderOK'
  <2>1. CASE UNCHANGED holder
    BY <1>3, <2>1
  <2>2. CASE holder' = [holder EXCEPT ![c][loader[c][t].h] = "nobody"]
    BY <1>1, <1>2, <2>2 DEF HolderOK, Shape
  <2>3. QED
    BY <1>4, <2>1, <2>2 DEF Unlock
<1>5. ASSUME NEW t \in Threads(c), LoadEnter(c, t)
      PROVE  HolderOK'
  <2> DEFINE hh == loader[c][t].h
  <2>1. loader[c][t].pc = "enter"
    BY <1>5 DEF LoadEnter
  <2>2. t # "bg" => hh = t
    BY <2>1 DEF CallsIInv, CallKept
  <2>3. UNCHANGED holder \/ holder' = [holder EXCEPT ![c][hh] = t]
    BY <1>5 DEF LoadEnter
  <2>4. CASE holder' = [holder EXCEPT ![c][hh] = t]
    <3>1. \A d \in Conns : \A h \in Handlers(d) :
            holder'[d][h] = holder[d][h] \/ (d = c /\ h = hh /\ holder'[d][h] = t)
      BY <1>1, <2>4 DEF Shape
    <3>2. QED
      BY <1>2, <2>2, <3>1 DEF HolderOK
  <2>5. QED
    BY <1>3, <2>3, <2>4
<1>6. ASSUME NEW t \in Threads(c), LoadStep(c, t)
      PROVE  HolderOK'
  <2>1. UNCHANGED holder \/ holder' = Unlock(c, t, loader[c][t].h)
    BY <1>6 DEF LoadStep
  <2>2. QED
    BY <1>3, <1>4, <2>1
<1>7. ASSUME NEW t \in Threads(c), LoadRaises(c, t)
      PROVE  HolderOK'
  <2>1. holder' = Unlock(c, t, loader[c][t].h)
    BY <1>7 DEF LoadRaises
  <2>2. QED
    BY <1>4, <2>1
<1>8. \/ UNCHANGED holder
      \/ \E t \in Threads(c) : LoadEnter(c, t) \/ LoadStep(c, t) \/ LoadRaises(c, t)
  BY DEF LoadingStep, BgNext, BgReturns, HandlerTake, HandlerLoaded, HandlerUsed
<1>9. QED
  BY <1>3, <1>5, <1>6, <1>7, <1>8

\* A handler's thread is in its call of warmup, or there is none.
LEMMA LoadingKeepsThreads ==
  ASSUME CallsIInv, HndShape, \A d \in Conns : \A h \in Handlers(d) : ThreadOK(d, h),
         NEW c \in Conns, LoadingStep(c), UNCHANGED conn
  PROVE  HndShape' /\ \A d \in Conns : \A h \in Handlers(d) : ThreadOK(d, h)'
<1> DEFINE Goal == HndShape' /\ \A d \in Conns : \A h \in Handlers(d) : ThreadOK(d, h)'
<1>1. UNCHANGED setup /\ Shape
  BY DEF CallsIInv, LoadingStep, LoadEnter, LoadStep, LoadRaises, BgNext, BgReturns,
         HandlerTake, HandlerLoaded, HandlerUsed
<1>2. \A d \in Conns : Handlers(d)' = Handlers(d)
  BY <1>1 DEF Handlers
<1>3. \A d \in Conns : \A h \in Handlers(d) : h # "bg" /\ h \in Threads(d)
  BY <1>1, AllOf
<1>4. NoCall.pc = "none" /\ \A h : Call(h).pc = "enter"
  BY DEF NoCall, Call
<1>5. ASSUME UNCHANGED hnd,
             \A d \in Conns : \A h \in Handlers(d) :
                loader'[d][h].pc = "none" <=> loader[d][h].pc = "none"
      PROVE  Goal
  BY <1>2, <1>5 DEF HndShape, ThreadOK
<1>6. ASSUME NEW h \in Handlers(c), NEW was, NEW now, hnd[c][h] = was,
             hnd' = [hnd EXCEPT ![c][h] = now], was \in {"poll", "load", "use"},
             now \in {"poll", "load", "use", "hung"},
             \A d \in Conns : \A g \in Handlers(d) :
                ~(d = c /\ g = h) => loader'[d][g] = loader[d][g],
             now = "load" <=> loader'[c][h].pc # "none"
      PROVE  Goal
  <2>1. /\ HndShape' /\ hnd'[c][h] = now
        /\ \A d \in Conns : \A g \in Handlers(d) : ~(d = c /\ g = h) => hnd'[d][g] = hnd[d][g]
    BY <1>2, <1>6 DEF HndShape
  <2>2. conn[c] # "none"
    BY <1>6 DEF ThreadOK
  <2>3. ThreadOK(c, h)'
    BY <1>6, <2>1, <2>2 DEF ThreadOK
  <2>4. \A d \in Conns : \A g \in Handlers(d) : ~(d = c /\ g = h) => ThreadOK(d, g)'
    BY <1>6, <2>1 DEF ThreadOK
  <2>5. QED
    BY <2>1, <2>3, <2>4
<1> HIDE DEF Goal
<1>7. ASSUME NEW t \in Threads(c), LoadEnter(c, t)
      PROVE  Goal
  <2> DEFINE hh == loader[c][t].h
  <2>1. UNCHANGED hnd /\ loader[c][t].pc = "enter" /\ IsCall(loader[c][t])
    BY <1>1, <1>7 DEF LoadEnter, Shape
  <2>2. CASE DoneMeanwhile(c, hh)
    <3> DEFINE r == [pc |-> "return", h |-> hh]
    <3>1. loader' = [loader EXCEPT ![c][t] = [loader[c][t] EXCEPT !.pc = "return"]]
      BY <1>7, <2>2 DEF LoadEnter
    <3>2. loader' = [loader EXCEPT ![c][t] = r]
      BY <2>1, <3>1, EnterCall
    <3>3. r.pc = "return"
      OBVIOUS
    <3> HIDE DEF r
    <3>4. \A d \in Conns : \A u \in Threads(d) :
            loader'[d][u] = loader[d][u] \/ (d = c /\ u = t /\ loader'[d][u] = r)
      BY <1>1, <3>2 DEF Shape
    <3>5. QED
      BY <1>3, <1>5, <2>1, <3>3, <3>4
  <2>3. CASE ~DoneMeanwhile(c, hh)
    <3> DEFINE r == [pc |-> "load", h |-> hh, todo |-> Of(c, hh).does]
    <3>1. loader' = [loader EXCEPT ![c][t] = r]
      BY <1>7, <2>3 DEF LoadEnter
    <3>2. r.pc = "load"
      OBVIOUS
    <3> HIDE DEF r
    <3>3. \A d \in Conns : \A u \in Threads(d) :
            loader'[d][u] = loader[d][u] \/ (d = c /\ u = t /\ loader'[d][u] = r)
      BY <1>1, <3>1 DEF Shape
    <3>4. QED
      BY <1>3, <1>5, <2>1, <3>2, <3>3
  <2>4. QED
    BY <2>2, <2>3
<1>8. ASSUME NEW t \in Threads(c), LoadStep(c, t)
      PROVE  Goal
  <2>1. UNCHANGED hnd /\ loader[c][t].pc = "load"
    BY <1>8 DEF LoadStep
  <2>2. /\ loader'[c][t].pc \in {"return", "load"}
        /\ \A d \in Conns : \A u \in Threads(d) : ~(d = c /\ u = t) => loader'[d][u] = loader[d][u]
    BY <1>1, <1>8, StepCall
  <2>3. \A d \in Conns : \A h \in Handlers(d) :
            loader'[d][h].pc = "none" <=> loader[d][h].pc = "none"
    BY <1>3, <2>1, <2>2
  <2>4. QED
    BY <1>5, <2>1, <2>3
<1>9. ASSUME NEW t \in Threads(c), LoadRaises(c, t)
      PROVE  Goal
  <2> DEFINE r == [pc |-> "raised", h |-> loader[c][t].h]
  <2>1. loader' = [loader EXCEPT ![c][t] = r] /\ UNCHANGED hnd /\ loader[c][t].pc = "load"
    BY <1>9 DEF LoadRaises
  <2>2. r.pc = "raised"
    OBVIOUS
  <2> HIDE DEF r
  <2>3. \A d \in Conns : \A u \in Threads(d) :
          loader'[d][u] = loader[d][u] \/ (d = c /\ u = t /\ loader'[d][u] = r)
    BY <1>1, <2>1 DEF Shape
  <2>4. QED
    BY <1>3, <1>5, <2>1, <2>2, <2>3
<1>10. ASSUME BgNext(c) \/ BgReturns(c)
       PROVE  Goal
  <2>1. UNCHANGED hnd /\ (UNCHANGED loader \/ \E r : loader' = [loader EXCEPT ![c]["bg"] = r])
    BY <1>10 DEF BgNext, BgReturns
  <2>2. \A d \in Conns : \A h \in Handlers(d) : loader'[d][h] = loader[d][h]
    BY <1>1, <1>3, <2>1 DEF Shape
  <2>3. QED
    BY <1>5, <2>1, <2>2
<1>11. ASSUME NEW h \in Handlers(c), HandlerTake(c, h)
       PROVE  Goal
  <2>1. /\ hnd[c][h] = "poll" /\ loader[c][h].pc = "none"
        /\ hnd' = [hnd EXCEPT ![c][h] = IF Flagged(c, h) THEN "use" ELSE "load"]
        /\ loader' = IF Flagged(c, h) THEN loader ELSE [loader EXCEPT ![c][h] = Call(h)]
    BY <1>11 DEF HandlerTake, ThreadOK
  <2>2. CASE Flagged(c, h)
    BY <1>6, <2>1, <2>2
  <2>3. CASE ~Flagged(c, h)
    <3>1. hnd' = [hnd EXCEPT ![c][h] = "load"] /\ loader' = [loader EXCEPT ![c][h] = Call(h)]
      BY <2>1, <2>3
    <3>2. /\ loader'[c][h].pc # "none"
          /\ \A d \in Conns : \A g \in Handlers(d) :
                ~(d = c /\ g = h) => loader'[d][g] = loader[d][g]
      BY <1>1, <1>3, <1>4, <3>1 DEF Shape
    <3>3. QED
      BY <1>6, <2>1, <3>1, <3>2
  <2>4. QED
    BY <2>2, <2>3
<1>12. ASSUME NEW h \in Handlers(c), HandlerLoaded(c, h)
       PROVE  Goal
  <2> DEFINE now == IF loader[c][h].pc = "return" THEN "use" ELSE "poll"
  <2>1. /\ hnd[c][h] = "load"
        /\ hnd' = [hnd EXCEPT ![c][h] = now] /\ loader' = [loader EXCEPT ![c][h] = NoCall]
    BY <1>12 DEF HandlerLoaded, ThreadOK
  <2>2. /\ loader'[c][h].pc = "none"
        /\ \A d \in Conns : \A g \in Handlers(d) :
              ~(d = c /\ g = h) => loader'[d][g] = loader[d][g]
    BY <1>1, <1>3, <1>4, <2>1 DEF Shape
  <2>3. now \in {"use", "poll"}
    OBVIOUS
  <2> HIDE DEF now
  <2>4. QED
    BY <1>6, <2>1, <2>2, <2>3
<1>13. ASSUME NEW h \in Handlers(c), HandlerUsed(c, h)
       PROVE  Goal
  <2>1. /\ hnd[c][h] = "use" /\ loader[c][h].pc = "none"
        /\ UNCHANGED loader
    BY <1>13 DEF HandlerUsed, ThreadOK
  <2>2. PICK now \in {"poll", "hung"} : hnd' = [hnd EXCEPT ![c][h] = now]
    BY <1>13 DEF HandlerUsed
  <2>3. QED
    BY <1>6, <2>1, <2>2
<1>14. Goal
  BY <1>7, <1>8, <1>9, <1>10, <1>11, <1>12, <1>13 DEF LoadingStep
<1>15. QED
  BY <1>14 DEF Goal

LEMMA LoadingKeepsHandlers ==
  ASSUME CallsIInv, HandlerIInv, NEW c \in Conns, LoadingStep(c), UNCHANGED conn
  PROVE  HandlerIInv'
<1>1. UNCHANGED setup /\ \A d \in Conns : Handlers(d)' = Handlers(d)
  BY DEF LoadingStep, LoadEnter, LoadStep, LoadRaises, BgNext, BgReturns,
         HandlerTake, HandlerLoaded, HandlerUsed, Handlers
<1>2. AttrsOK' /\ HolderOK'
  BY LoadingKeepsAttrs, LoadingKeepsHolder DEF HandlerIInv
<1>3. HndShape' /\ \A d \in Conns : \A h \in Handlers(d) : ThreadOK(d, h)'
  BY LoadingKeepsThreads DEF HandlerIInv
<1>4. tokens' \in {"absent", "cut", "whole"}
  <2>1. tokens' \in {"cut", "whole", tokens}
    BY DEF LoadingStep, LoadEnter, LoadStep, LoadRaises, BgNext, BgReturns,
           HandlerTake, HandlerLoaded, HandlerUsed, counters
  <2>2. QED
    BY <2>1 DEF HandlerIInv
<1>5. QED
  BY <1>1, <1>2, <1>3, <1>4 DEF HandlerIInv

\* What a step may do to the handlers and the life of a session.
LEMMA HandlerKinds ==
  ASSUME [ServerNext]_serverVars
  PROVE  \/ \E c \in Conns : LoadingStep(c) /\ UNCHANGED sessionVars
         \/ /\ UNCHANGED <<setup, attrs, holder, loader, tokens>>
            /\ \/ \E c \in Conns : Connect(c)
               \/ \E c \in Conns : \E h \in Handlers(c) : HandlerEnds(c, h) /\ UNCHANGED conn
               \/ \E c \in Conns : /\ CreateSender(c) \/ Announce(c) \/ Disconnect(c) \/ JoinEnds(c)
                                   /\ UNCHANGED hnd
               \/ UNCHANGED <<hnd, conn>>
<1>1. CASE Client
  BY <1>1 DEF Client, Connect, DrainEmit, Disconnect, ProxyStart, ProxyGone, TestStart,
              loadingVars, modelVars, sessionVars
<1>2. ASSUME NEW c \in Conns, SessionStep(c)
      PROVE  \/ LoadingStep(c) /\ UNCHANGED sessionVars
             \/ /\ UNCHANGED <<setup, attrs, holder, loader, tokens>>
                /\ \/ \E h \in Handlers(c) : HandlerEnds(c, h) /\ UNCHANGED conn
                   \/ (CreateSender(c) \/ Announce(c) \/ JoinEnds(c)) /\ UNCHANGED hnd
                   \/ UNCHANGED <<hnd, conn>>
  BY <1>2 DEF SessionStep, Loading, CreateSender, Announce, BgEmit, PutEvent, Send, HandlerEnds,
              DrainEnds, JoinEnds, loadingVars, modelVars, sessionVars
<1>3. ASSUME NEW r \in Proxies, ProxyStep(r)
      PROVE  UNCHANGED <<setup, attrs, holder, loader, tokens, hnd, conn>>
  BY <1>3 DEF ProxyStep, WorkerAnswers, WorkerEnds, ProxyGet, ProxySent, ProxyTimeout,
              loadingVars, modelVars, sessionVars
<1>4. ASSUME NEW t \in SelfTests, TestStep(t)
      PROVE  UNCHANGED <<setup, attrs, holder, loader, tokens, hnd, conn>>
  BY <1>4 DEF TestStep, TestEnd, TestThreadEnds, TestLLMHangs, loadingVars, modelVars, sessionVars
<1>5. CASE UNCHANGED serverVars
  BY <1>5 DEF serverVars, loadingVars, modelVars, sessionVars
<1>6. QED
  BY <1>1, <1>2, <1>3, <1>4, <1>5 DEF ServerNext

LEMMA OthersKeepHandlers ==
  ASSUME HandlerIInv, UNCHANGED <<setup, attrs, holder, loader, tokens>>, HndShape',
         \A d \in Conns : \A h \in Handlers(d) : ThreadOK(d, h)'
  PROVE  HandlerIInv'
<1>1. /\ \A d \in Conns : Handlers(d)' = Handlers(d)
      /\ \A d \in Conns : \A h \in Handlers(d) : Of(d, h)' = Of(d, h)
  BY DEF Handlers, Of
<1>2. AttrsOK' /\ HolderOK'
  BY <1>1 DEF HandlerIInv, AttrsOK, HolderOK
<1>3. QED
  BY <1>1, <1>2 DEF HandlerIInv

LEMMA HandlerInvariant == ServerSpec => []HandlerIInv
<1>1. ServerInit => HandlerIInv
  <2> SUFFICES ASSUME ServerInit
               PROVE  HandlerIInv
    OBVIOUS
  <2>1. /\ attrs = [c \in Conns |-> [h \in Handlers(c) |-> {}]]
        /\ holder = [c \in Conns |-> [h \in Handlers(c) |-> "nobody"]]
        /\ hnd = [c \in Conns |-> [h \in Handlers(c) |-> "none"]]
        /\ loader = [c \in Conns |-> [t \in Threads(c) |-> NoCall]]
        /\ tokens = "absent"
    BY DEF ServerInit, LoadingInit
  <2>2. \A c \in Conns : \A h \in Handlers(c) :
          /\ attrs[c][h] = {} /\ holder[c][h] = "nobody" /\ hnd[c][h] = "none"
          /\ loader[c][h].pc = "none"
    BY <2>1 DEF Threads, NoCall
  <2>3. HndShape
    BY <2>1 DEF HndShape
  <2>4. AttrsOK /\ HolderOK
    BY <2>2 DEF AttrsOK, HolderOK
  <2>5. \A c \in Conns : \A h \in Handlers(c) : ThreadOK(c, h)
    BY <2>2 DEF ThreadOK
  <2>6. QED
    BY <2>1, <2>3, <2>4, <2>5 DEF HandlerIInv
<1>2. HandlerIInv /\ LoopIInv /\ CallsIInv /\ [ServerNext]_serverVars => HandlerIInv'
  <2> SUFFICES ASSUME HandlerIInv, LoopIInv, CallsIInv, [ServerNext]_serverVars
               PROVE  HandlerIInv'
    OBVIOUS
  <2>0. /\ HndShape /\ \A c \in Conns : \A h \in Handlers(c) : ThreadOK(c, h)
        /\ conn \in [Conns -> {"none", "starting", "announcing", "open", "joining", "closed"}]
    BY DEF HandlerIInv, LoopIInv
  <2>1. ASSUME NEW c \in Conns, LoadingStep(c), UNCHANGED sessionVars
        PROVE  HandlerIInv'
    BY <2>1, LoadingKeepsHandlers DEF sessionVars
  <2>2. CASE UNCHANGED <<setup, attrs, holder, loader, tokens>>
    <3>1. \A d \in Conns : Handlers(d)' = Handlers(d)
      BY <2>2 DEF Handlers
    <3>2. ASSUME NEW c \in Conns, Connect(c)
          PROVE  HandlerIInv'
      <4>1. /\ conn[c] = "none" /\ conn' = [conn EXCEPT ![c] = "starting"]
            /\ hnd' = [hnd EXCEPT ![c] = [h \in Handlers(c) |-> "poll"]]
        BY <3>2 DEF Connect
      <4>2. HndShape'
        BY <2>0, <3>1, <4>1 DEF HndShape
      <4>3. ASSUME NEW d \in Conns, NEW h \in Handlers(d)
            PROVE  ThreadOK(d, h)'
        <5>1. ThreadOK(d, h)
          BY <2>0
        <5>2. CASE d = c
          <6>1. hnd'[d][h] = "poll" /\ conn'[d] # "none"
            BY <2>0, <4>1, <5>2 DEF HndShape
          <6>2. QED
            BY <2>2, <4>1, <5>1, <5>2, <6>1 DEF ThreadOK
        <5>3. CASE d # c
          <6>1. hnd'[d] = hnd[d] /\ conn'[d] = conn[d]
            BY <2>0, <4>1, <5>3 DEF HndShape
          <6>2. QED
            BY <2>2, <5>1, <6>1 DEF ThreadOK
        <5>4. QED
          BY <5>2, <5>3
      <4>4. QED
        BY <2>2, <4>2, <4>3, OthersKeepHandlers
    <3>3. ASSUME NEW c \in Conns, NEW h \in Handlers(c), HandlerEnds(c, h), UNCHANGED conn
          PROVE  HandlerIInv'
      <4>1. hnd[c][h] = "poll" /\ hnd' = [hnd EXCEPT ![c][h] = "ended"]
        BY <3>3 DEF HandlerEnds
      <4>2. HndShape'
        BY <2>0, <3>1, <4>1 DEF HndShape
      <4>3. ASSUME NEW d \in Conns, NEW g \in Handlers(d)
            PROVE  ThreadOK(d, g)'
        <5>1. ThreadOK(d, g)
          BY <2>0
        <5>2. hnd'[d][g] = IF d = c /\ g = h THEN "ended" ELSE hnd[d][g]
          BY <2>0, <4>1 DEF HndShape
        <5>3. QED
          BY <2>2, <3>3, <4>1, <5>1, <5>2 DEF ThreadOK
      <4>4. QED
        BY <2>2, <4>2, <4>3, OthersKeepHandlers
    <3>4. ASSUME UNCHANGED hnd, \A d \in Conns : conn'[d] = "none" => conn[d] = "none"
          PROVE  HandlerIInv'
      <4>1. HndShape' /\ \A d \in Conns : \A h \in Handlers(d) : ThreadOK(d, h)'
        BY <2>0, <2>2, <3>1, <3>4 DEF HndShape, ThreadOK
      <4>2. QED
        BY <2>2, <4>1, OthersKeepHandlers
    <3>5. ASSUME NEW c \in Conns, CreateSender(c) \/ Announce(c) \/ Disconnect(c) \/ JoinEnds(c),
                 UNCHANGED hnd
          PROVE  HandlerIInv'
      <4>1. \E v : conn' = [conn EXCEPT ![c] = v] /\ v # "none"
        BY <3>5 DEF CreateSender, Announce, Disconnect, JoinEnds
      <4>2. \A d \in Conns : conn'[d] = "none" => conn[d] = "none"
        BY <2>0, <4>1
      <4>3. QED
        BY <3>4, <3>5, <4>2
    <3>6. CASE UNCHANGED <<hnd, conn>>
      BY <3>4, <3>6
    <3>7. QED
      BY <2>1, <3>2, <3>3, <3>5, <3>6, HandlerKinds
  <2>3. QED
    BY <2>1, <2>2, HandlerKinds
<1>3. QED
  BY <1>1, <1>2, LoopInvariant, CallsInvariant, PTL DEF ServerSpec

\* A session's queue never holds more than its limit.
QueueIInv ==
    /\ DOMAIN lost = Conns
    /\ \A c \in Conns : Len(events[c]) <= MaxQueue /\ lost[c] \subseteq EventNames

LEMMA QueueKinds ==
  ASSUME [ServerNext]_serverVars
  PROVE  \/ \E c \in Conns : BgEmit(c) \/ PutEvent(c) \/ Send(c)
         \/ UNCHANGED <<events, lost>>
<1>1. CASE Client
  BY <1>1 DEF Client, Connect, DrainEmit, Disconnect, ProxyStart, ProxyGone, TestStart, sessionVars
<1>2. ASSUME NEW c \in Conns, SessionStep(c)
      PROVE  BgEmit(c) \/ PutEvent(c) \/ Send(c) \/ UNCHANGED <<events, lost>>
  BY <1>2 DEF SessionStep, Loading, CreateSender, Announce, HandlerEnds, DrainEnds, JoinEnds,
              sessionVars
<1>3. ASSUME NEW r \in Proxies, ProxyStep(r)
      PROVE  UNCHANGED <<events, lost>>
  BY <1>3 DEF ProxyStep, WorkerAnswers, WorkerEnds, ProxyGet, ProxySent, ProxyTimeout, sessionVars
<1>4. ASSUME NEW t \in SelfTests, TestStep(t)
      PROVE  UNCHANGED <<events, lost>>
  BY <1>4 DEF TestStep, TestEnd, TestThreadEnds, TestLLMHangs, sessionVars
<1>5. CASE UNCHANGED serverVars
  BY <1>5 DEF serverVars, sessionVars
<1>6. QED
  BY <1>1, <1>2, <1>3, <1>4, <1>5 DEF ServerNext

LEMMA QueueInvariant == ServerSpec => []QueueIInv
<1>0. MaxQueue \in Nat
  BY ServerAssumption
<1>1. ServerInit => QueueIInv
  <2> SUFFICES ASSUME ServerInit
               PROVE  QueueIInv
    OBVIOUS
  <2>1. /\ soon = [c \in Conns |-> <<>>] /\ events = soon
        /\ delivered = [c \in Conns |-> {}] /\ lost = delivered
    BY DEF ServerInit
  <2>2. \A c \in Conns : events[c] = <<>> /\ lost[c] = {}
    BY <2>1
  <2>3. Len(<<>>) <= MaxQueue
    BY <1>0
  <2>4. QED
    BY <2>1, <2>2, <2>3 DEF QueueIInv
<1>2. QueueIInv /\ ReadyIInv /\ [ServerNext]_serverVars => QueueIInv'
  <2> SUFFICES ASSUME QueueIInv, ReadyIInv, [ServerNext]_serverVars
               PROVE  QueueIInv'
    OBVIOUS
  <2>1. /\ DOMAIN events = Conns /\ DOMAIN lost = Conns
        /\ \A c \in Conns : /\ soon[c] \in Seq(EventNames) /\ events[c] \in Seq(EventNames)
                            /\ Len(events[c]) \in Nat /\ Len(events[c]) <= MaxQueue
                            /\ lost[c] \subseteq EventNames
    BY DEF QueueIInv, ReadyIInv, SessionShape, ReadySent
  <2>2. ASSUME NEW c \in Conns, NEW x \in EventNames,
               lost' = lost \/ lost' = [lost EXCEPT ![c] = @ \cup {x}]
        PROVE  /\ DOMAIN lost' = Conns
               /\ \A d \in Conns : lost'[d] \subseteq EventNames
    BY <2>1, <2>2
  <2>3. ASSUME NEW c \in Conns, BgEmit(c)
        PROVE  QueueIInv'
    <3>1. lost' = lost \/ lost' = [lost EXCEPT ![c] = @ \cup {"ready"}]
      BY <2>3 DEF BgEmit
    <3>2. events' = events /\ "ready" \in EventNames
      BY <2>3 DEF BgEmit, EventNames
    <3>3. QED
      BY <2>1, <2>2, <3>1, <3>2 DEF QueueIInv
  <2>4. ASSUME NEW c \in Conns, PutEvent(c)
        PROVE  QueueIInv'
    <3>1. CASE Fits(c)
      <4>1. /\ soon[c] # <<>> /\ events' = [events EXCEPT ![c] = Append(events[c], Head(soon[c]))]
            /\ lost' = lost
        BY <2>4, <3>1 DEF PutEvent
      <4>2. Len(Append(events[c], Head(soon[c]))) <= MaxQueue
        <5>1. Len(events[c]) < MaxQueue
          BY <3>1 DEF Fits
        <5>2. Len(Append(events[c], Head(soon[c]))) = Len(events[c]) + 1
          BY <2>1
        <5>3. QED
          BY <1>0, <2>1, <5>1, <5>2
      <4>3. \A d \in Conns : /\ d = c => events'[d] = Append(events[c], Head(soon[c]))
                             /\ d # c => events'[d] = events[d]
        BY <2>1, <4>1
      <4>4. QED
        BY <2>1, <4>1, <4>2, <4>3 DEF QueueIInv
    <3>2. CASE ~Fits(c)
      <4>1. /\ lost' = [lost EXCEPT ![c] = @ \cup {Head(soon[c])}] /\ events' = events
            /\ soon[c] # <<>>
        BY <2>4, <3>2 DEF PutEvent
      <4>2. Head(soon[c]) \in EventNames
        BY <2>1, <4>1
      <4>3. QED
        BY <2>1, <2>2, <4>1, <4>2 DEF QueueIInv
    <3>3. QED
      BY <3>1, <3>2
  <2>5. ASSUME NEW c \in Conns, Send(c)
        PROVE  QueueIInv'
    <3>1. /\ events[c] # <<>> /\ events' = [events EXCEPT ![c] = Tail(events[c])]
          /\ lost' = lost
      BY <2>5 DEF Send
    <3>2. Len(Tail(events[c])) <= MaxQueue
      <4>1. Len(Tail(events[c])) = Len(events[c]) - 1
        BY <2>1, <3>1
      <4>2. QED
        BY <1>0, <2>1, <4>1
    <3>3. \A d \in Conns : /\ d = c => events'[d] = Tail(events[c])
                           /\ d # c => events'[d] = events[d]
      BY <2>1, <3>1
    <3>4. QED
      BY <2>1, <2>2, <3>1, <3>2, <3>3 DEF QueueIInv
  <2>6. CASE UNCHANGED <<events, lost>>
    BY <2>6 DEF QueueIInv
  <2>7. QED
    BY <2>3, <2>4, <2>5, <2>6, QueueKinds
<1>3. QED
  BY <1>1, <1>2, ReadyInvariant, PTL DEF ServerSpec

\* Types of the server and of loading: among others, whoever waits on the event
\* loop has it alone, a handler's thread is loading exactly while it is in a
\* call of warmup, and a session's queue keeps its limit.
THEOREM ServerTypes == ServerSpec => []ServerTypeOK
<1>1. LoadingIInv /\ CallsIInv /\ ReadyIInv /\ LoopIInv /\ HandlerIInv /\ QueueIInv /\ TestIInv =>
        ServerTypeOK
  <2> SUFFICES ASSUME LoadingIInv, ReadyIInv, LoopIInv, HandlerIInv, QueueIInv, TestIInv
               PROVE  ServerTypeOK
    OBVIOUS
  <2>1. \A c \in Conns : \A h \in Handlers(c) :
          /\ attrs[c][h] \subseteq ToSet(Of(c, h).does) \ FileSteps
          /\ holder[c][h] \in {"nobody", "bg", h}
          /\ hnd[c][h] \in {"none", "poll", "load", "use", "hung", "ended"}
          /\ hnd[c][h] = "load" <=> loader[c][h].pc # "none"
    BY DEF HandlerIInv, AttrsOK, HolderOK, ThreadOK
  <2>2. ASSUME NEW c \in Conns, NEW t \in Threads(c)
        PROVE  loader[c][t].pc \in {"none", "enter", "load", "return", "raised"}
    <3>1. IsCall(loader[c][t])
      BY DEF LoadingIInv, Shape
    <3>2. PICK r : r = loader[c][t]
      OBVIOUS
    <3>3. /\ NoCall.pc = "none"
          /\ \A h : Call(h).pc = "enter"
          /\ \A h : [pc |-> "return", h |-> h].pc = "return"
          /\ \A h : [pc |-> "raised", h |-> h].pc = "raised"
      BY DEF NoCall, Call
    <3>4. \A h, todo : /\ [pc |-> "load", h |-> h, todo |-> todo].pc = "load"
                       /\ [pc |-> "return", h |-> h, todo |-> todo].pc = "return"
      OBVIOUS
    <3>5. r.pc \in {"none", "enter", "load", "return", "raised"}
      <4>1. CASE r = NoCall
        BY <3>3, <4>1
      <4>2. CASE \E h : r = Call(h) \/ r = [pc |-> "return", h |-> h] \/ r = [pc |-> "raised", h |-> h]
        BY <3>3, <4>2
      <4>3. CASE \E h, todo : r = [pc |-> "load", h |-> h, todo |-> todo]
                              \/ r = [pc |-> "return", h |-> h, todo |-> todo]
        BY <3>4, <4>3
      <4>4. QED
        BY <3>1, <3>2, <4>1, <4>2, <4>3 DEF IsCall
    <3>6. QED
      BY <3>2, <3>5
  <2>3. \A c \in Conns : bg[c].pc \in {"none", "warming", "emit", "ended"}
    BY DEF ReadyIInv, WarmUp
  <2>4. LoadingTypeOK
    BY <2>1, <2>2, <2>3 DEF LoadingTypeOK, LoadingIInv, Shape, HandlerIInv
  <2>5. /\ loop \in {"free", "start", "join", "proxy"}
        /\ conn \in [Conns -> {"none", "starting", "announcing", "open", "joining", "closed"}]
        /\ loop = "start" <=> \E c \in Conns : conn[c] \in {"starting", "announcing"}
        /\ loop = "join" <=> \E c \in Conns : conn[c] = "joining"
        /\ loop = "proxy" <=> \E r \in Proxies : proxy[r].pc = "get"
    BY DEF LoopIInv
  <2>6. /\ \A c \in Conns : Len(events[c]) <= MaxQueue /\ lost[c] \subseteq {"created", "ready", "text"}
        /\ lock \in SelfTests \cup {Nobody}
        /\ \A t \in SelfTests : stuck[t] \in {0, 1} /\ stuck[t] <= running[t]
    BY DEF QueueIInv, EventNames, TestIInv, TestTypes
  <2>7. QED
    BY <2>4, <2>5, <2>6 DEF ServerTypeOK
<1>2. QED
  BY <1>1, LoadingInvariant, CallsInvariant, ReadyInvariant, LoopInvariant, HandlerInvariant,
     QueueInvariant, TestInvariant, PTL
===============================================================================
