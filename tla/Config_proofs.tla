---------------------------- MODULE Config_proofs ----------------------------
(***************************************************************************)
(* Proofs about the configuration (ConfigStore.tla), for any requests,     *)
(* bodies, sessions, files, flags, crashes and failing writes: types, keys *)
(* a session's backend needs, what was acknowledged, what a restart finds, *)
(* and when the file can be read.                                          *)
(***************************************************************************)
EXTENDS ConfigStore, TLAPS

\* What a part of the configuration can be: some of its fields, each with a value
\* of its own; all of them; and the states of the threads.
AnyValue == UNION {Values(f) : f \in Fields}
Parts == {d \in UNION {[S -> AnyValue] : S \in SUBSET Fields} :
            \A f \in DOMAIN d : d[f] \in Values(f)}
Configs == {c \in [Fields -> AnyValue] : IsConfig(c)}
Docs == [kind : {"doc"}, of : Configs]
Promises == [kind : {"promise"}, of : Configs, written : BOOLEAN, life : Nat]
Done == [pc |-> "done"]
Job == [pc : {"assign", "check", "write"}, body : Bodies, doc : Parts,
        todo : SUBSET Fields, alone : BOOLEAN]
Gone == [pc |-> "gone"]
Construction == [pc : {"read", "built", "failed"}, got : Parts]

\* A request still assigns fields of its body.
PostTypes ==
    /\ post \in [Posts -> {Idle, Done} \cup Job]
    /\ \A p \in Posts : post[p] \in Job => post[p].todo \subseteq DOMAIN post[p].body

Types ==
    /\ server \in {"up", "down", "refused"}
    /\ IsConfig(mem)
    /\ file \in {NoFile, Empty, Mixed} \cup Docs
    /\ PostTypes
    /\ build \in [Builders -> {Idle, Gone} \cup Construction]
    /\ promise \in {Nothing} \cup Promises
    /\ crashes \in Nat
    /\ unkeyed \in BOOLEAN /\ torn \in BOOLEAN

-----------------------------------------------------------------------------
LEMMA FieldNames ==
  /\ "key" \in Fields /\ "backend" \in Fields /\ Plain \subseteq Fields
  /\ Fields \subseteq {"key", "backend", "llm", "tts", "vad", "stt", "live"}
  /\ SavedFields = Fields
BY ConfigAssumption DEF Fields, PlainFields, SavedFields

\* A configuration is a part with all fields.
LEMMA ConfigIsPart ==
  ASSUME NEW c
  PROVE  /\ IsConfig(c) => c \in Configs /\ DOMAIN c = Fields /\ c = [f \in Fields |-> c[f]]
                           /\ \A f \in Fields : c[f] \in Values(f)
         /\ c \in Configs => IsConfig(c)
BY DEF Configs, IsConfig, AnyValue

LEMMA PartFacts ==
  ASSUME NEW d \in Parts
  PROVE  DOMAIN d \subseteq Fields /\ \A f \in DOMAIN d : d[f] \in Values(f)
<1>1. PICK S \in SUBSET Fields : d \in [S -> AnyValue]
  BY DEF Parts
<1>2. QED
  BY <1>1 DEF Parts

LEMMA NothingReadPart == NothingRead \in Parts /\ DOMAIN NothingRead = {}
<1>1. NothingRead \in [{} -> AnyValue] /\ {} \in SUBSET Fields /\ DOMAIN NothingRead = {}
  BY DEF NothingRead
<1>2. QED
  BY <1>1 DEF Parts

\* One more field has been read.
LEMMA ExtendedPart ==
  ASSUME NEW d \in Parts, NEW f \in Fields, NEW v \in Values(f)
  PROVE  /\ Extended(d, f, v) \in Parts
         /\ DOMAIN Extended(d, f, v) = DOMAIN d \cup {f}
         /\ Extended(d, f, v)[f] = v
         /\ \A g \in DOMAIN d : g # f => Extended(d, f, v)[g] = d[g]
<1> DEFINE S == DOMAIN d \cup {f}
           e == Extended(d, f, v)
<1>1. S \in SUBSET Fields /\ \A g \in DOMAIN d : d[g] \in Values(g)
  BY PartFacts
<1>2. \A g \in S : IF g = f THEN v \in Values(g) ELSE d[g] \in Values(g)
  BY <1>1
<1>3. \A g \in Fields : \A w : w \in Values(g) => w \in AnyValue
  BY DEF AnyValue
<1>4. e = [g \in S |-> IF g = f THEN v ELSE d[g]]
  BY DEF Extended
<1>5. e \in [S -> AnyValue] /\ \A g \in S : e[g] \in Values(g)
  <2>1. \A g \in S : e[g] = (IF g = f THEN v ELSE d[g])
    BY <1>4
  <2>2. \A g \in S : e[g] \in Values(g)
    BY <1>2, <2>1
  <2>3. \A g \in S : e[g] \in AnyValue
    BY <1>1, <1>3, <2>2
  <2>4. QED
    BY <1>4, <2>2, <2>3
<1>6. e \in Parts
  BY <1>1, <1>5 DEF Parts
<1>7. QED
  BY <1>4, <1>6

\* The document of a whole part is that part.
LEMMA DocumentConfig ==
  ASSUME NEW d \in Parts
  PROVE  /\ IsConfig(Document(d))
         /\ \A f \in DOMAIN d : Document(d)[f] = d[f]
<1>1. \A f \in Fields : Default[f] \in Values(f)
  BY DEF Default, Values, Backends
<1>2. \A f \in Fields : Document(d)[f] = IF f \in DOMAIN d THEN d[f] ELSE Default[f]
  BY DEF Document
<1>3. \A f \in Fields : Document(d)[f] \in Values(f)
  BY <1>1, <1>2, PartFacts
<1>4. Document(d) \in [Fields -> UNION {Values(f) : f \in Fields}]
  BY <1>3 DEF Document
<1>5. QED
  BY <1>2, <1>3, <1>4, PartFacts DEF IsConfig

\* What the steps do to a thread's record.
LEMMA JobFacts ==
  ASSUME NEW r \in Job
  PROVE  /\ r.pc \in {"assign", "check", "write"} /\ r.body \in Bodies /\ r.doc \in Parts
         /\ r.todo \subseteq Fields /\ r.alone \in BOOLEAN
BY DEF Job

LEMMA JobReads ==
  ASSUME NEW r \in Job, NEW d \in Parts, NEW s, s = [r EXCEPT !.doc = d]
  PROVE  /\ s \in Job /\ s.doc = d
         /\ s.pc = r.pc /\ s.body = r.body /\ s.todo = r.todo /\ s.alone = r.alone
BY DEF Job

LEMMA JobGoesOn ==
  ASSUME NEW r \in Job, NEW c \in {"assign", "check", "write"},
         NEW s, s = [r EXCEPT !.pc = c]
  PROVE  /\ s \in Job /\ s.pc = c /\ s.todo = r.todo
         /\ s.body = r.body /\ s.doc = r.doc /\ s.alone = r.alone
BY DEF Job

LEMMA JobOvertaken ==
  ASSUME NEW r \in Job, NEW s, s = [r EXCEPT !.alone = FALSE]
  PROVE  /\ s \in Job /\ ~s.alone
         /\ s.pc = r.pc /\ s.body = r.body /\ s.doc = r.doc /\ s.todo = r.todo
BY DEF Job

LEMMA RunningIsJob ==
  ASSUME NEW r \in {Idle, Done} \cup Job
  PROVE  /\ r.pc \notin {"idle", "done"} <=> r \in Job
         /\ r.pc \in {"assign", "check", "write"} <=> r \in Job
<1>1. r = Idle \/ r = Done \/ r \in Job
  OBVIOUS
<1>2. Idle.pc = "idle" /\ Done.pc = "done"
  BY DEF Idle, Done
<1>3. r \in Job => r.pc \in {"assign", "check", "write"}
  BY JobFacts
<1>4. QED
  BY <1>1, <1>2, <1>3

\* What a request's field becomes in memory.
LEMMA StoredValue ==
  ASSUME NEW b \in Bodies, NEW f \in DOMAIN b, ~Refuses(b[f])
  PROVE  f \in Fields /\ Stored(b[f]) \in Values(f)
<1>1. f \in Fields /\ b[f] \in Inputs(f)
  BY ConfigAssumption DEF IsBody
<1>2. CASE f = "key"
  BY <1>1, <1>2 DEF Inputs, Values, Stored, Refuses
<1>3. CASE f = "backend"
  BY <1>1, <1>3 DEF Inputs, Values, Stored, Refuses, Backends
<1>4. CASE f # "key" /\ f # "backend"
  BY <1>1, <1>4 DEF Inputs, Values, Stored, Refuses
<1>5. QED
  BY <1>1, <1>2, <1>3, <1>4

-----------------------------------------------------------------------------
\* What the steps of a request do to the requests: its own record, and the others'.
Others(p) == \A q \in Posts : q # p => post'[q] = post[q]

\* One record is replaced.
LEMMA OneReplaced ==
  ASSUME PostTypes, NEW p \in Posts, NEW r \in {Idle, Done} \cup Job,
         r \in Job => r.todo \subseteq DOMAIN r.body,
         post' = [post EXCEPT ![p] = r]
  PROVE  PostTypes' /\ Others(p) /\ post'[p] = r
<1>1. post'[p] = r /\ \A q \in Posts : q # p => post'[q] = post[q]
  BY DEF PostTypes
<1>2. post' \in [Posts -> {Idle, Done} \cup Job]
  BY DEF PostTypes
<1>3. \A q \in Posts : post'[q] \in Job => post'[q].todo \subseteq DOMAIN post'[q].body
  BY <1>1 DEF PostTypes
<1>4. QED
  BY <1>1, <1>2, <1>3 DEF PostTypes, Others

\* A new request overtakes those that run.
LEMMA StartEffect ==
  ASSUME Types, NEW p \in Posts, PostStart(p)
  PROVE  /\ PostTypes' /\ post[p] \notin Job
         /\ post'[p] \in Job /\ post'[p].pc = "assign" /\ post'[p].doc = NothingRead
         /\ post'[p].alone => \A q \in Posts : q # p => post[q] \notin Job
         /\ \A q \in Posts : q # p /\ post[q] \notin Job => post'[q] = post[q]
         /\ \A q \in Posts : q # p /\ post[q] \in Job =>
               /\ post'[q] \in Job /\ ~post'[q].alone
               /\ post'[q].pc = post[q].pc /\ post'[q].doc = post[q].doc
               /\ post'[q].todo = post[q].todo
<1>1. /\ post \in [Posts -> {Idle, Done} \cup Job] /\ post[p].pc = "idle"
      /\ \A q \in Posts : post[q] \in Job => post[q].todo \subseteq DOMAIN post[q].body
      /\ \A q \in Posts : Running(q) <=> post[q] \in Job
  BY RunningIsJob DEF Types, PostTypes, PostStart, Running
<1> DEFINE alone == \A q \in Posts \ {p} : ~Running(q)
           New(b) == [pc |-> "assign", body |-> b, doc |-> NothingRead, todo |-> DOMAIN b,
                      alone |-> alone]
<1>2. PICK b \in Bodies :
         post' = [q \in Posts |-> IF q = p THEN New(b)
                                  ELSE IF Running(q) THEN [post[q] EXCEPT !.alone = FALSE]
                                  ELSE post[q]]
  BY DEF PostStart
<1>3. /\ New(b) \in Job /\ New(b).pc = "assign" /\ New(b).doc = NothingRead
      /\ New(b).alone = alone /\ New(b).todo = DOMAIN b /\ New(b).body = b
  <2>1. DOMAIN b \subseteq Fields
    BY ConfigAssumption DEF IsBody
  <2>2. alone \in BOOLEAN
    OBVIOUS
  <2> HIDE DEF alone
  <2>3. QED
    BY <2>1, <2>2, NothingReadPart DEF Job
<1>4. post'[p] = New(b)
  BY <1>2
<1> HIDE DEF New
<1>5. ASSUME NEW q \in Posts, q # p
      PROVE  /\ post[q] \notin Job => post'[q] = post[q]
             /\ post[q] \in Job => post'[q] = [post[q] EXCEPT !.alone = FALSE]
  BY <1>1, <1>2, <1>5
<1>6. ASSUME NEW q \in Posts, q # p, post[q] \in Job
      PROVE  /\ post'[q] \in Job /\ ~post'[q].alone
             /\ post'[q].pc = post[q].pc /\ post'[q].doc = post[q].doc
             /\ post'[q].todo = post[q].todo /\ post'[q].body = post[q].body
  BY <1>5, <1>6, JobOvertaken
<1>7. PostTypes'
  <2>1. \A q \in Posts : post'[q] \in {Idle, Done} \cup Job
    BY <1>1, <1>3, <1>4, <1>5, <1>6
  <2>2. post' \in [Posts -> {Idle, Done} \cup Job]
    BY <1>2, <2>1
  <2>3. ASSUME NEW q \in Posts, post'[q] \in Job
        PROVE  post'[q].todo \subseteq DOMAIN post'[q].body
    <3>1. CASE q = p
      BY <1>3, <1>4, <3>1
    <3>2. CASE q # p /\ post[q] \in Job
      BY <1>1, <1>6, <3>2
    <3>3. CASE q # p /\ post[q] \notin Job
      BY <1>5, <2>3, <3>3
    <3>4. QED
      BY <3>1, <3>2, <3>3
  <2>4. QED
    BY <2>2, <2>3 DEF PostTypes
<1>8. post[p] \notin Job
  BY <1>1, RunningIsJob
<1>9. alone => \A q \in Posts : q # p => post[q] \notin Job
  BY <1>1
<1>10. QED
  BY <1>3, <1>4, <1>5, <1>6, <1>7, <1>8, <1>9

\* A field is refused, or assigned and no longer to do.
LEMMA AssignEffect ==
  ASSUME Types, NEW p \in Posts, PostAssign(p)
  PROVE  /\ PostTypes' /\ Others(p) /\ IsConfig(mem')
         /\ post[p] \in Job /\ post[p].todo # {} /\ post[p].pc = "assign"
         /\ \/ post'[p] = Done /\ mem' = mem
            \/ /\ post'[p] \in Job /\ post'[p].pc \in {"assign", "check"}
               /\ post'[p].doc = post[p].doc /\ post'[p].alone = post[p].alone
         /\ unkeyed' \in BOOLEAN
         /\ ~unkeyed' => /\ ~unkeyed /\ ~NeedsKey(mem')
                         /\ mem["key"] = "set" => mem'["key"] = "set"
<1> DEFINE r == post[p]
<1>1. /\ r \in Job /\ r.pc = "assign" /\ r.body \in Bodies /\ r.todo \subseteq DOMAIN r.body
      /\ r.todo \subseteq Fields /\ PostTypes /\ IsConfig(mem)
  BY RunningIsJob, JobFacts DEF Types, PostTypes, PostAssign
<1>2. PICK f \in r.todo :
         LET v == r.body[f]
         IN /\ IF Refuses(v)
               THEN mem' = mem /\ post' = [post EXCEPT ![p] = Done]
               ELSE /\ mem' = [mem EXCEPT ![f] = Stored(v)]
                    /\ post' = [post EXCEPT ![p].todo = @ \ {f},
                                            ![p].pc = IF f = "backend" THEN "check" ELSE "assign"]
            /\ unkeyed' = (unkeyed \/ v = "blank" \/ NeedsKey(mem'))
  BY DEF PostAssign, NextOf, Done
<1> DEFINE v == r.body[f]
<1>3. f \in Fields /\ f \in DOMAIN r.body
  BY <1>1
<1>4. unkeyed' \in BOOLEAN /\ (~unkeyed' => ~unkeyed /\ v # "blank" /\ ~NeedsKey(mem'))
  BY <1>2 DEF Types
<1>5. CASE Refuses(v)
  <2>1. mem' = mem /\ post' = [post EXCEPT ![p] = Done]
    BY <1>2, <1>5
  <2>2. PostTypes' /\ Others(p) /\ post'[p] = Done
    <3>1. Done \notin Job
      BY JobFacts DEF Done
    <3>2. QED
      BY <1>1, <2>1, <3>1, OneReplaced
  <2>3. QED
    BY <1>1, <1>2, <1>4, <2>1, <2>2
<1>6. CASE ~Refuses(v)
  <2> DEFINE c == IF f = "backend" THEN "check" ELSE "assign"
             S == r.todo \ {f}
             s == [[r EXCEPT !.todo = S] EXCEPT !.pc = c]
  <2>1. mem' = [mem EXCEPT ![f] = Stored(v)] /\ post' = [post EXCEPT ![p] = s]
    BY <1>1, <1>2, <1>6 DEF PostTypes
  <2>2. /\ s \in Job /\ s.pc = c /\ s.todo = S /\ s.body = r.body /\ s.doc = r.doc
        /\ s.alone = r.alone
    <3>1. S \in SUBSET Fields /\ c \in {"assign", "check", "write"}
      BY <1>1
    <3> HIDE DEF S, c
    <3>2. r \in Job /\ s = [[r EXCEPT !.todo = S] EXCEPT !.pc = c]
      BY <1>1
    <3> HIDE DEF r, s
    <3>3. QED
      BY <3>1, <3>2 DEF Job
  <2>3. S \subseteq DOMAIN r.body /\ c \in {"assign", "check"}
    BY <1>1
  <2> HIDE DEF s, S, c
  <2>4. PostTypes' /\ Others(p) /\ post'[p] = s
    BY <1>1, <2>1, <2>2, <2>3, OneReplaced
  <2>5. Stored(v) \in Values(f)
    BY <1>1, <1>3, <1>6, StoredValue
  <2>6. IsConfig(mem') /\ mem'[f] = Stored(v) /\ \A g \in Fields : g # f => mem'[g] = mem[g]
    <3> DEFINE w == Stored(v)
    <3>1. mem' = [mem EXCEPT ![f] = w] /\ w \in Values(f)
      BY <2>1, <2>5
    <3> HIDE DEF w
    <3>2. \A g \in Fields : mem[g] \in Values(g)
      BY <1>1 DEF IsConfig
    <3>3. mem' = [g \in Fields |-> IF g = f THEN w ELSE mem[g]]
      BY <1>1, <3>1 DEF IsConfig
    <3>4. \A g \in Fields : mem'[g] \in Values(g)
      BY <3>1, <3>2, <3>3
    <3>5. IsConfig(mem')
      BY <3>3, <3>4 DEF IsConfig
    <3>6. QED
      BY <1>3, <3>3, <3>5 DEF w
  <2>7. v # "blank" /\ mem["key"] = "set" => mem'["key"] = "set"
    <3>1. CASE f = "key"
      <4>1. v \in {"set", "blank", "bad"}
        BY <1>1, <1>3, <3>1, ConfigAssumption DEF IsBody, Inputs
      <4>2. QED
        BY <1>6, <2>6, <3>1, <4>1 DEF Stored, Refuses
    <3>2. QED
      BY <2>6, <3>1, FieldNames
  <2>8. QED
    BY <1>1, <1>2, <1>4, <2>2, <2>3, <2>4, <2>6, <2>7
<1>7. QED
  BY <1>5, <1>6

\* A check, or the end of a request.
LEMMA DoneEffect ==
  ASSUME Types, NEW p \in Posts, post[p] \in Job, post' = [post EXCEPT ![p] = Done]
  PROVE  PostTypes' /\ Others(p) /\ post'[p] = Done /\ Done \notin Job
<1>1. Done \notin Job
  BY JobFacts DEF Done
<1>2. QED
  BY <1>1, OneReplaced DEF Types

\* A request goes on in another state; what it has read stays.
LEMMA GoesOnEffect ==
  ASSUME Types, NEW p \in Posts, post[p] \in Job, NEW c \in {"assign", "check", "write"},
         post' = [post EXCEPT ![p] = [post[p] EXCEPT !.pc = c]]
  PROVE  /\ PostTypes' /\ Others(p)
         /\ post'[p] \in Job /\ post'[p].pc = c /\ post'[p].todo = post[p].todo
         /\ post'[p].doc = post[p].doc /\ post'[p].alone = post[p].alone
<1> DEFINE r == post[p]
           s == [r EXCEPT !.pc = c]
<1>1. r \in Job /\ r.todo \subseteq DOMAIN r.body
  BY DEF Types, PostTypes
<1>2. s = [r EXCEPT !.pc = c] /\ post' = [post EXCEPT ![p] = s]
  OBVIOUS
<1>3. /\ s \in Job /\ s.pc = c /\ s.todo = r.todo
      /\ s.body = r.body /\ s.doc = r.doc /\ s.alone = r.alone
  <2> HIDE DEF r, s
  <2>1. QED
    BY <1>1, <1>2, JobGoesOn
<1> HIDE DEF s
<1>4. PostTypes' /\ Others(p) /\ post'[p] = s
  <2>1. s.todo \subseteq DOMAIN s.body
    BY <1>1, <1>3
  <2>2. QED
    BY <1>2, <1>3, <2>1, OneReplaced DEF Types
<1>5. QED
  BY <1>3, <1>4

LEMMA CheckEffect ==
  ASSUME Types, NEW p \in Posts, PostCheck(p)
  PROVE  /\ PostTypes' /\ Others(p) /\ post[p] \in Job /\ post[p].pc = "check"
         /\ \/ post'[p] = Done
            \/ /\ post'[p] \in Job /\ post'[p].pc = "assign"
               /\ post'[p].doc = post[p].doc /\ post'[p].alone = post[p].alone
<1>1. post[p] \in Job /\ post[p].pc = "check"
  BY RunningIsJob DEF Types, PostTypes, PostCheck
<1>2. post' = [post EXCEPT ![p] = Done] \/ post' = [post EXCEPT ![p] = [post[p] EXCEPT !.pc = "assign"]]
  BY DEF PostCheck, Done, Types, PostTypes
<1>3. QED
  BY <1>1, <1>2, DoneEffect, GoesOnEffect

\* One more field is read, the backend before the key.
LEMMA ReadEffect ==
  ASSUME Types, NEW p \in Posts, PostRead(p)
  PROVE  /\ PostTypes' /\ Others(p)
         /\ post[p] \in Job /\ post[p].pc = "assign" /\ post[p].todo = {}
         /\ post'[p] \in Job /\ post'[p].pc = "assign" /\ post'[p].todo = {}
         /\ post'[p].alone = post[p].alone
         /\ \E f \in Fields \ DOMAIN post[p].doc :
               /\ post'[p].doc = Extended(post[p].doc, f, mem[f])
               /\ f = "key" => "backend" \in DOMAIN post[p].doc
<1> DEFINE r == post[p]
<1>1. /\ r \in Job /\ r.pc = "assign" /\ r.todo = {} /\ r.doc \in Parts /\ IsConfig(mem)
  BY RunningIsJob, JobFacts DEF Types, PostTypes, PostRead
<1>2. PICK f \in NextOf(SavedFields \ DOMAIN r.doc, SaveOrder) :
         post' = [post EXCEPT ![p] = [r EXCEPT !.doc = Extended(r.doc, f, mem[f])]]
  BY DEF PostRead, Types, PostTypes
<1>3. /\ f \in Fields \ DOMAIN r.doc
      /\ f = "key" => "backend" \in DOMAIN r.doc
  BY FieldNames DEF NextOf, SaveOrder
<1> DEFINE d == Extended(r.doc, f, mem[f])
           s == [r EXCEPT !.doc = d]
<1>4. d \in Parts
  BY <1>1, <1>3, ExtendedPart DEF IsConfig
<1>5. s = [r EXCEPT !.doc = d] /\ post' = [post EXCEPT ![p] = s]
  BY <1>2
<1>6. /\ s \in Job /\ s.doc = d
      /\ s.pc = r.pc /\ s.body = r.body /\ s.todo = r.todo /\ s.alone = r.alone
  <2> HIDE DEF r, s, d
  <2>1. QED
    BY <1>1, <1>4, <1>5, JobReads
<1> HIDE DEF s
<1>7. PostTypes' /\ Others(p) /\ post'[p] = s
  <2>1. s.todo \subseteq DOMAIN s.body
    BY <1>1, <1>6
  <2>2. QED
    BY <1>5, <1>6, <2>1, OneReplaced DEF Types
<1>8. QED
  BY <1>1, <1>3, <1>6, <1>7

LEMMA OpenEffect ==
  ASSUME Types, NEW p \in Posts, PostOpen(p)
  PROVE  /\ PostTypes' /\ Others(p)
         /\ post[p] \in Job /\ post[p].pc = "assign" /\ DOMAIN post[p].doc = Fields
         /\ post'[p] \in Job /\ post'[p].pc = "write" /\ post'[p].todo = {}
         /\ post'[p].doc = post[p].doc /\ post'[p].alone = post[p].alone
<1>1. /\ post[p] \in Job /\ post[p].pc = "assign" /\ post[p].todo = {}
      /\ DOMAIN post[p].doc = Fields
  BY RunningIsJob, FieldNames DEF Types, PostTypes, PostOpen
<1>2. post' = [post EXCEPT ![p] = [post[p] EXCEPT !.pc = "write"]]
  BY DEF PostOpen, Types, PostTypes
<1>3. QED
  BY <1>1, <1>2, GoesOnEffect

\* The file is written or it is not: the request is answered.
LEMMA AnsweredEffect ==
  ASSUME Types, NEW p \in Posts, PostWrite(p) \/ PostSaveFails(p)
  PROVE  /\ PostTypes' /\ Others(p) /\ post'[p] = Done /\ Done \notin Job
         /\ post[p] \in Job
<1>1. post[p] \in Job
  BY RunningIsJob DEF Types, PostTypes, PostWrite, PostSaveFails, Saving
<1>2. post' = [post EXCEPT ![p] = Done]
  BY DEF PostWrite, PostSaveFails, Done
<1>3. QED
  BY <1>1, <1>2, DoneEffect

\* A crash ends every request and every construction.
LEMMA CrashEffect ==
  ASSUME Types, Crash
  PROVE  /\ PostTypes' /\ \A p \in Posts : post'[p] \notin Job
         /\ build' \in [Builders -> {Idle, Gone} \cup Construction]
         /\ \A b \in Builders : build'[b] \in {Idle, Gone}
<1>1. Done \notin Job
  BY JobFacts DEF Done
<1>2. ASSUME NEW p \in Posts
      PROVE  post'[p] \in {Idle, Done} \cup Job /\ post'[p] \notin Job
  <2>1. post[p] \in {Idle, Done} \cup Job /\ (Running(p) <=> post[p] \in Job)
    BY RunningIsJob DEF Types, PostTypes, Running
  <2>2. post'[p] = IF Running(p) THEN Done ELSE post[p]
    BY DEF Crash, Done
  <2>3. QED
    BY <1>1, <2>1, <2>2
<1>3. post' \in [Posts -> {Idle, Done} \cup Job]
  BY <1>2 DEF Crash
<1>4. /\ build' \in [Builders -> {Idle, Gone} \cup Construction]
      /\ \A b \in Builders : build'[b] \in {Idle, Gone}
  BY DEF Crash, Gone
<1>5. QED
  BY <1>2, <1>3, <1>4 DEF PostTypes

\* What the steps of a construction do to the constructions.
BuildTypes == build \in [Builders -> {Idle, Gone} \cup Construction]

LEMMA BuildPc ==
  ASSUME NEW r \in {Idle, Gone} \cup Construction
  PROVE  r.pc \in {"read", "built", "failed"} <=> r \in Construction
<1>1. r = Idle \/ r = Gone \/ r \in Construction
  OBVIOUS
<1>2. Idle.pc = "idle" /\ Gone.pc = "gone"
  BY DEF Idle, Gone
<1>3. r \in Construction => r.pc \in {"read", "built", "failed"}
  BY DEF Construction
<1>4. QED
  BY <1>1, <1>2, <1>3

LEMMA BuildStartEffect ==
  ASSUME Types, NEW b \in Builders, BuildStart(b)
  PROVE  /\ BuildTypes' /\ \A c \in Builders : c # b => build'[c] = build[c]
         /\ build'[b] \in Construction /\ build'[b].got = NothingRead
<1> DEFINE r == [pc |-> "read", got |-> NothingRead]
<1>1. r \in Construction /\ r.got = NothingRead
  BY NothingReadPart DEF Construction
<1>2. build' = [build EXCEPT ![b] = r]
  BY DEF BuildStart
<1> HIDE DEF r
<1>3. QED
  BY <1>1, <1>2 DEF Types, BuildTypes

LEMMA BuildReadEffect ==
  ASSUME Types, NEW b \in Builders, BuildRead(b)
  PROVE  /\ BuildTypes' /\ \A c \in Builders : c # b => build'[c] = build[c]
         /\ build[b] \in Construction /\ build'[b] \in Construction
         /\ \E f \in Fields \ DOMAIN build[b].got :
               /\ build'[b].got = Extended(build[b].got, f, mem[f])
               /\ f = "key" => "backend" \in DOMAIN build[b].got
<1> DEFINE r == build[b]
<1>1. r \in Construction /\ r.got \in Parts /\ IsConfig(mem)
  <2>1. r \in Construction
    BY BuildPc DEF Types, BuildRead
  <2>2. QED
    BY <2>1 DEF Construction, Types
<1>2. PICK f \in NextOf(Fields \ DOMAIN r.got, BuildOrder) :
         build' = [build EXCEPT ![b] = [r EXCEPT !.got = Extended(r.got, f, mem[f])]]
  BY DEF BuildRead, Types
<1>3. /\ f \in Fields \ DOMAIN r.got
      /\ f = "key" => "backend" \in DOMAIN r.got
  BY FieldNames DEF NextOf, BuildOrder
<1> DEFINE d == Extended(r.got, f, mem[f])
           s == [r EXCEPT !.got = d]
<1>4. d \in Parts
  BY <1>1, <1>3, ExtendedPart DEF IsConfig
<1>5. build' = [build EXCEPT ![b] = s]
  BY <1>2
<1>6. s \in Construction /\ s.got = d
  <2> HIDE DEF r, d
  <2>1. QED
    BY <1>1, <1>4 DEF Construction
<1> HIDE DEF s
<1>7. BuildTypes' /\ build'[b] = s /\ \A c \in Builders : c # b => build'[c] = build[c]
  BY <1>5, <1>6 DEF Types, BuildTypes
<1>8. QED
  BY <1>1, <1>3, <1>6, <1>7

LEMMA BuildEndEffect ==
  ASSUME Types, NEW b \in Builders, BuildEnd(b)
  PROVE  /\ BuildTypes' /\ \A c \in Builders : c # b => build'[c] = build[c]
         /\ build[b] \in Construction /\ build'[b] \in Construction
         /\ build'[b].got = build[b].got
<1> DEFINE r == build[b]
<1>1. r \in Construction
  BY BuildPc DEF Types, BuildEnd
<1>2. PICK c \in {"failed", "built"} : build' = [build EXCEPT ![b] = [r EXCEPT !.pc = c]]
  BY DEF BuildEnd, Types
<1> DEFINE s == [r EXCEPT !.pc = c]
<1>3. s \in Construction /\ s.got = r.got
  <2> HIDE DEF r
  <2>1. QED
    BY <1>1 DEF Construction
<1>4. build' = [build EXCEPT ![b] = s]
  BY <1>2
<1> HIDE DEF s
<1>5. QED
  BY <1>1, <1>3, <1>4 DEF Types, BuildTypes

-----------------------------------------------------------------------------
\* A document in the file is a configuration.
LEMMA DocOfConfig ==
  ASSUME NEW c, IsConfig(c)
  PROVE  Doc(c) \in Docs /\ Doc(c).kind = "doc" /\ Doc(c).of = c
BY ConfigIsPart DEF Doc, Docs

LEMMA FileKinds ==
  /\ NoFile.kind = "absent" /\ Empty.kind = "empty" /\ Mixed.kind = "mixed"
  /\ Nothing.kind = "nothing"
  /\ \A d \in Docs : d.kind = "doc" /\ IsConfig(d.of) /\ d = Doc(d.of)
BY ConfigIsPart DEF NoFile, Empty, Mixed, Nothing, Docs, Doc

\* What a start loads, and what the answer to a request promises.
LEMMA LoadedConfig ==
  ASSUME NEW f \in {NoFile, Empty, Mixed} \cup Docs, NEW flags \in Flags
  PROVE  IsConfig(Loaded(f, flags)) /\ (f \in Docs => Loaded(f, flags) = f.of)
BY FileKinds, ConfigAssumption DEF Loaded

LEMMA FirstFile ==
  ASSUME ConfigInit
  PROVE  /\ file \in {NoFile} \cup Docs /\ IsConfig(mem) /\ ~NeedsKey(mem)
         /\ file \in Docs => mem = file.of
<1>1. file \in {NoFile} \cup Docs
  BY DocOfConfig, ConfigAssumption DEF ConfigInit
<1>2. PICK flags \in Flags : mem = Loaded(file, flags) /\ ~NeedsKey(mem)
  BY DEF ConfigInit
<1>3. QED
  BY <1>1, <1>2, LoadedConfig

LEMMA AnsweredPromise ==
  ASSUME Types, NEW p \in Posts, NEW written \in BOOLEAN, Answered(p, written)
  PROVE  /\ promise' \in {Nothing} \cup Promises
         /\ ~post[p].alone => promise' = Nothing
         /\ post[p].alone => promise' # Nothing /\ promise'.of = mem
                             /\ promise'.written = written /\ promise'.life = crashes
<1> DEFINE r == [kind |-> "promise", of |-> mem, written |-> written, life |-> crashes]
<1>1. mem \in Configs /\ crashes \in Nat
  BY ConfigIsPart DEF Types
<1>2. /\ r \in Promises /\ r.kind = "promise" /\ r.of = mem
      /\ r.written = written /\ r.life = crashes
  BY <1>1 DEF Promises
<1>3. promise' = IF post[p].alone THEN r ELSE Nothing
  BY DEF Answered
<1> HIDE DEF r
<1>4. r # Nothing
  BY <1>2, FileKinds
<1>5. QED
  BY <1>2, <1>3, <1>4

LEMMA TypesInit == ConfigInit => Types
<1> SUFFICES ASSUME ConfigInit
             PROVE  Types
  OBVIOUS
<1>1. Idle \notin Job
  BY JobFacts DEF Idle
<1>2. PostTypes
  BY <1>1 DEF ConfigInit, PostTypes
<1>3. QED
  BY <1>2, FirstFile DEF ConfigInit, Types

LEMMA TypesStep == Types /\ [ConfigNext]_configVars => Types'
<1> SUFFICES ASSUME Types, [ConfigNext]_configVars
             PROVE  Types'
  OBVIOUS
<1>1. ASSUME NEW p \in Posts, PostStart(p) PROVE Types'
  BY <1>1, StartEffect DEF Types, PostStart, diskVars
<1>2. ASSUME NEW p \in Posts, PostAssign(p) PROVE Types'
  BY <1>2, AssignEffect DEF Types, PostAssign, diskVars
<1>3. ASSUME NEW p \in Posts, PostCheck(p) PROVE Types'
  BY <1>3, CheckEffect DEF Types, PostCheck, diskVars
<1>4. ASSUME NEW p \in Posts, PostRead(p) PROVE Types'
  BY <1>4, ReadEffect DEF Types, PostRead, diskVars
<1>5. ASSUME NEW p \in Posts, PostOpen(p) PROVE Types'
  <2>1. torn' \in BOOLEAN /\ file' = Empty
    BY <1>5 DEF PostOpen, Opened, Types
  <2>2. QED
    BY <1>5, <2>1, OpenEffect DEF Types, PostOpen
<1>6. ASSUME NEW p \in Posts, PostWrite(p) PROVE Types'
  <2>1. post[p].doc \in Parts
    BY <1>6, AnsweredEffect, JobFacts
  <2>2. Doc(Document(post[p].doc)) \in Docs
    BY <2>1, DocumentConfig, DocOfConfig
  <2>3. file' \in {Mixed} \cup Docs /\ promise' \in {Nothing} \cup Promises
    BY <1>6, <2>2, AnsweredPromise DEF PostWrite
  <2>4. QED
    BY <1>6, <2>3, AnsweredEffect DEF Types, PostWrite
<1>7. ASSUME NEW p \in Posts, PostSaveFails(p) PROVE Types'
  <2>1. torn' \in BOOLEAN /\ promise' \in {Nothing} \cup Promises
    BY <1>7, AnsweredPromise DEF PostSaveFails, Types
  <2>2. QED
    BY <1>7, <2>1, AnsweredEffect DEF Types, PostSaveFails
<1>8. ASSUME NEW b \in Builders, BuildStart(b) \/ BuildRead(b) \/ BuildEnd(b) PROVE Types'
  <2>1. BuildTypes'
    BY <1>8, BuildStartEffect, BuildReadEffect, BuildEndEffect
  <2>2. UNCHANGED <<server, mem, file, torn, post, promise, unkeyed>>
    BY <1>8 DEF BuildStart, BuildRead, BuildEnd, diskVars
  <2>3. crashes' = crashes
    BY <1>8 DEF BuildStart, BuildRead, BuildEnd
  <2>4. QED
    BY <2>1, <2>2, <2>3 DEF Types, PostTypes, BuildTypes
<1>9. CASE Crash
  <2>1. torn' \in BOOLEAN /\ server' = "down" /\ crashes' \in Nat
    BY <1>9 DEF Crash, Types
  <2>2. QED
    BY <1>9, <2>1, CrashEffect DEF Types, Crash
<1>10. CASE Restart
  <2>1. IsConfig(mem') /\ server' \in {"up", "refused"}
    BY <1>10, LoadedConfig DEF Restart, Types, diskVars
  <2>2. QED
    BY <1>10, <2>1 DEF Types, PostTypes, Restart, diskVars
<1>11. CASE UNCHANGED configVars
  BY <1>11 DEF Types, PostTypes, configVars, diskVars
<1>12. QED
  BY <1>1, <1>2, <1>3, <1>4, <1>5, <1>6, <1>7, <1>8, <1>9, <1>10, <1>11 DEF ConfigNext

\* Type correctness of the configuration, its file and its threads; no value that
\* fails a check of its own in POST /v1/config is ever in memory or in the file.
THEOREM ConfigTypes == ConfigSpec => []ConfigTypeOK
<1>1. ASSUME Types
      PROVE  ConfigTypeOK
  <2>1. ASSUME NEW p \in Posts
        PROVE  /\ post[p].pc \in {"idle", "assign", "check", "write", "done"}
               /\ Running(p) => post[p].body \in Bodies
    <3>1. post[p] \in {Idle, Done} \cup Job /\ (Running(p) <=> post[p] \in Job)
      BY <1>1, RunningIsJob DEF Types, PostTypes, Running
    <3>2. Idle.pc = "idle" /\ Done.pc = "done"
      BY DEF Idle, Done
    <3>3. QED
      BY <3>1, <3>2, JobFacts
  <2>2. ASSUME NEW b \in Builders
        PROVE  build[b].pc \in {"idle", "read", "built", "failed", "gone"}
    <3>1. build[b] \in {Idle, Gone} \cup Construction
      BY <1>1 DEF Types
    <3>2. Idle.pc = "idle" /\ Gone.pc = "gone"
      BY DEF Idle, Gone
    <3>3. QED
      BY <3>1, <3>2 DEF Construction
  <2>3. file \in {NoFile, Empty, Mixed} \/ (file.kind = "doc" /\ IsConfig(file.of))
    BY <1>1, FileKinds DEF Types
  <2>4. promise = Nothing \/ (promise.kind = "promise" /\ IsConfig(promise.of))
    BY <1>1, ConfigIsPart DEF Types, Promises
  <2>5. QED
    BY <1>1, <2>1, <2>2, <2>3, <2>4 DEF Types, ConfigTypeOK
<1>2. QED
  BY <1>1, TypesInit, TypesStep, PTL DEF ConfigSpec

-----------------------------------------------------------------------------
\* As long as nothing was torn, a save that has truncated the file is alone with
\* it; without a save at work there is a document in it, or no file at all.
FileIInv ==
    ~torn =>
        /\ \A p \in Posts : post[p].pc = "write" =>
              file = Empty /\ \A q \in Posts : post[q].pc = "write" => q = p
        /\ file \in {Empty, Mixed} => \E p \in Posts : post[p].pc = "write"

LEMMA FileInit == ConfigInit => FileIInv
<1> SUFFICES ASSUME ConfigInit
             PROVE  FileIInv
  OBVIOUS
<1>1. \A p \in Posts : post[p].pc = "idle"
  BY DEF ConfigInit, Idle
<1>2. file.kind \in {"absent", "doc"}
  BY FirstFile, FileKinds
<1>3. file \notin {Empty, Mixed}
  BY <1>2, FileKinds
<1>4. QED
  BY <1>1, <1>3 DEF FileIInv

LEMMA FileStep ==
  ASSUME Types, FileIInv, [ConfigNext]_configVars
  PROVE  FileIInv'
<1>1. Idle.pc # "write" /\ Done.pc # "write" /\ \A q \in Posts : post[q].pc = "write" <=> Saving(q)
  BY DEF Idle, Done, Saving
<1>2. ASSUME NEW p \in Posts, PostStart(p) PROVE FileIInv'
  <2>1. post[p].pc # "write"
    BY <1>2 DEF PostStart
  <2>2. \A q \in Posts : post'[q].pc = "write" <=> post[q].pc = "write"
    BY <1>2, <2>1, StartEffect
  <2>3. QED
    BY <1>2, <2>2 DEF FileIInv, PostStart, diskVars
<1>3. ASSUME NEW p \in Posts, PostAssign(p) \/ PostCheck(p) \/ PostRead(p) PROVE FileIInv'
  <2>1. /\ post[p].pc # "write" /\ post'[p].pc # "write"
        /\ \A q \in Posts : q # p => post'[q] = post[q]
    BY <1>1, <1>3, AssignEffect, CheckEffect, ReadEffect DEF Others
  <2>2. \A q \in Posts : post'[q].pc = "write" <=> post[q].pc = "write"
    BY <2>1
  <2>3. UNCHANGED <<file, torn>>
    BY <1>3 DEF PostAssign, PostCheck, PostRead, diskVars
  <2>4. QED
    BY <2>2, <2>3 DEF FileIInv
<1>4. ASSUME NEW p \in Posts, PostOpen(p) PROVE FileIInv'
  <2>1. /\ post[p].pc # "write" /\ post'[p].pc = "write"
        /\ \A q \in Posts : q # p => post'[q] = post[q]
    BY <1>4, OpenEffect DEF Others
  <2>2. file' = Empty /\ (~torn' => ~torn /\ \A q \in Posts : post[q].pc # "write")
    BY <1>1, <1>4 DEF PostOpen, Opened, Types
  <2>3. QED
    BY <2>1, <2>2 DEF FileIInv
<1>5. ASSUME NEW p \in Posts, PostWrite(p) PROVE FileIInv'
  <2>1. /\ post[p].pc = "write" /\ post'[p].pc # "write"
        /\ \A q \in Posts : q # p => post'[q] = post[q]
    BY <1>1, <1>5, AnsweredEffect DEF Others, PostWrite
  <2> DEFINE d == Doc(Document(post[p].doc))
  <2>2. torn' = torn /\ (file = Empty => file' = d)
    BY <1>5 DEF PostWrite
  <2>3. d \notin {Empty, Mixed}
    <3>1. d.kind = "doc"
      BY DEF Doc
    <3>2. QED
      BY <3>1, FileKinds
  <2> HIDE DEF d
  <2>4. QED
    BY <2>1, <2>2, <2>3 DEF FileIInv
<1>6. ASSUME NEW p \in Posts, PostSaveFails(p) PROVE FileIInv'
  <2>1. /\ post'[p].pc # "write"
        /\ \A q \in Posts : q # p => post'[q] = post[q]
    BY <1>1, <1>6, AnsweredEffect DEF Others
  <2>2. file' = file /\ (~torn' => ~torn /\ post[p].pc # "write")
    BY <1>6 DEF PostSaveFails, Saving, Types
  <2>3. QED
    BY <2>1, <2>2 DEF FileIInv
<1>7. ASSUME NEW b \in Builders, BuildStart(b) \/ BuildRead(b) \/ BuildEnd(b) PROVE FileIInv'
  BY <1>7 DEF BuildStart, BuildRead, BuildEnd, diskVars, FileIInv
<1>8. CASE Crash
  <2>1. file' = file /\ (~torn' => ~torn /\ \A q \in Posts : post[q].pc # "write")
    BY <1>1, <1>8 DEF Crash, Types
  <2>2. \A q \in Posts : post[q].pc # "write" => post'[q].pc # "write"
    BY <1>8 DEF Crash
  <2>3. QED
    BY <2>1, <2>2 DEF FileIInv
<1>9. CASE Restart \/ UNCHANGED configVars
  BY <1>9 DEF Restart, configVars, diskVars, FileIInv
<1>10. QED
  BY <1>2, <1>3, <1>4, <1>5, <1>6, <1>7, <1>8, <1>9 DEF ConfigNext

\* The file can be read unless a save was cut off, failed, or overlapped
\* with another.
THEOREM ConfigFileReadable == ConfigSpec => []FileReadable
<1>1. FileIInv => FileReadable
  BY DEF FileIInv, FileReadable, Saving
<1>2. QED
  BY <1>1, FileInit, TypesInit, TypesStep, FileStep, PTL DEF ConfigSpec

-----------------------------------------------------------------------------
\* Nothing runs in a server that is down.
DownIInv ==
    server # "up" => /\ \A p \in Posts : post[p] \notin Job
                     /\ \A b \in Builders : build[b] \notin Construction

LEMMA DownStep ==
  ASSUME Types, DownIInv, [ConfigNext]_configVars
  PROVE  DownIInv'
<1>1. CASE Crash
  <2>1. Idle \notin Construction /\ Gone \notin Construction
    BY BuildPc DEF Idle, Gone
  <2>2. QED
    BY <1>1, <2>1, CrashEffect DEF DownIInv
<1>2. CASE Restart \/ UNCHANGED configVars
  BY <1>2 DEF Restart, configVars, DownIInv
<1>3. ASSUME server = "up", server' = server PROVE DownIInv'
  BY <1>3 DEF DownIInv
<1>4. QED
  BY <1>1, <1>2, <1>3 DEF ConfigNext, PostStart, PostAssign, PostCheck, PostRead, PostOpen,
     PostWrite, PostSaveFails, BuildStart, BuildRead, BuildEnd

\* A request that is alone has read what is in memory, and the file it truncated is
\* as it left it; once a promise is given nobody runs, and what was written is in the
\* file; what was not is of no worth once the server has stopped.
AloneIInv ==
    /\ \A p \in Posts : post[p] \in Job =>
          /\ promise = Nothing
          /\ DOMAIN post[p].doc # {} => post[p].pc # "check" /\ post[p].todo = {}
          /\ post[p].pc = "write" => DOMAIN post[p].doc = Fields
          /\ post[p].alone =>
                /\ \A q \in Posts : post[q] \in Job => q = p
                /\ \A f \in DOMAIN post[p].doc : post[p].doc[f] = mem[f]
                /\ post[p].pc = "write" => file = Empty
    /\ promise # Nothing =>
          /\ promise.written => file = Doc(promise.of)
          /\ promise.life <= crashes
          /\ server # "up" => promise.life < crashes
          /\ server = "up" /\ (promise.written \/ promise.life = crashes) => promise.of = mem

LEMMA AloneStep ==
  ASSUME Types, AloneIInv, DownIInv, [ConfigNext]_configVars
  PROVE  AloneIInv'
<1>1. Done \notin Job
  BY JobFacts DEF Done
<1>2. ASSUME NEW p \in Posts, PostStart(p) PROVE AloneIInv'
  <2>1. promise' = Nothing /\ UNCHANGED <<mem, file>>
    BY <1>2 DEF PostStart, diskVars
  <2>2. /\ DOMAIN post'[p].doc = {} /\ post'[p].pc = "assign"
        /\ post'[p].alone => \A q \in Posts : post'[q] \in Job => q = p
    BY <1>2, StartEffect, NothingReadPart
  <2>3. \A q \in Posts : q # p /\ post'[q] \in Job =>
           /\ post[q] \in Job /\ ~post'[q].alone
           /\ post'[q].pc = post[q].pc /\ post'[q].doc = post[q].doc /\ post'[q].todo = post[q].todo
    BY <1>2, StartEffect
  <2>4. QED
    BY <2>1, <2>2, <2>3 DEF AloneIInv
<1>3. ASSUME NEW p \in Posts, PostAssign(p) PROVE AloneIInv'
  <2>1. /\ post[p] \in Job /\ post[p].todo # {} /\ Others(p) /\ UNCHANGED <<file, promise>>
        /\ post'[p] \in Job => /\ post'[p].pc \in {"assign", "check"}
                               /\ post'[p].doc = post[p].doc /\ post'[p].alone = post[p].alone
    BY <1>1, <1>3, AssignEffect DEF PostAssign, diskVars
  <2>2. DOMAIN post[p].doc = {} /\ promise = Nothing
    BY <2>1 DEF AloneIInv
  <2>3. \A q \in Posts : q # p => post'[q] = post[q]
    BY <2>1 DEF Others
  <2>4. \A q \in Posts : q # p /\ post[q] \in Job => ~post[q].alone
    BY <2>1, JobFacts DEF AloneIInv
  <2>5. QED
    BY <2>1, <2>2, <2>3, <2>4 DEF AloneIInv
<1>4. ASSUME NEW p \in Posts, PostCheck(p) PROVE AloneIInv'
  <2>1. /\ post[p] \in Job /\ post[p].pc = "check" /\ UNCHANGED <<mem, file, promise>>
        /\ \A q \in Posts : q # p => post'[q] = post[q]
        /\ post'[p] \in Job => /\ post'[p].pc = "assign"
                               /\ post'[p].doc = post[p].doc /\ post'[p].alone = post[p].alone
    BY <1>1, <1>4, CheckEffect DEF PostCheck, diskVars, Others
  <2>2. DOMAIN post[p].doc = {} /\ promise = Nothing
    BY <2>1 DEF AloneIInv
  <2>3. QED
    BY <2>1, <2>2 DEF AloneIInv
<1>5. ASSUME NEW p \in Posts, PostRead(p) PROVE AloneIInv'
  <2>1. /\ post[p] \in Job /\ UNCHANGED <<mem, file, promise>>
        /\ \A q \in Posts : q # p => post'[q] = post[q]
        /\ post'[p] \in Job /\ post'[p].pc = "assign" /\ post'[p].todo = {}
        /\ post'[p].alone = post[p].alone
    BY <1>5, ReadEffect DEF PostRead, diskVars, Others
  <2>2. PICK f \in Fields : post'[p].doc = Extended(post[p].doc, f, mem[f])
    BY <1>5, ReadEffect
  <2>3. /\ DOMAIN post'[p].doc = DOMAIN post[p].doc \cup {f} /\ post'[p].doc[f] = mem[f]
        /\ \A g \in DOMAIN post[p].doc : g # f => post'[p].doc[g] = post[p].doc[g]
    <3> DEFINE d == post[p].doc
               w == mem[f]
               e == post'[p].doc
    <3>1. d \in Parts /\ w \in Values(f) /\ e = Extended(d, f, w)
      BY <2>1, <2>2, JobFacts DEF Types, IsConfig
    <3> HIDE DEF d, w, e
    <3>2. /\ DOMAIN Extended(d, f, w) = DOMAIN d \cup {f}
          /\ Extended(d, f, w)[f] = w
          /\ \A g \in DOMAIN d : g # f => Extended(d, f, w)[g] = d[g]
      BY <3>1, ExtendedPart
    <3>3. DOMAIN e = DOMAIN d \cup {f} /\ e[f] = w /\ \A g \in DOMAIN d : g # f => e[g] = d[g]
      BY <3>1, <3>2
    <3>4. QED
      BY <3>3 DEF d, w, e
  <2>4. post'[p].alone => \A g \in DOMAIN post'[p].doc : post'[p].doc[g] = mem[g]
    BY <2>1, <2>3 DEF AloneIInv
  <2>5. QED
    BY <2>1, <2>4 DEF AloneIInv
<1>6. ASSUME NEW p \in Posts, PostOpen(p) PROVE AloneIInv'
  <2>1. /\ post[p] \in Job /\ UNCHANGED <<mem, promise>> /\ file' = Empty
        /\ \A q \in Posts : q # p => post'[q] = post[q]
        /\ post'[p] \in Job /\ post'[p].pc = "write" /\ post'[p].todo = {}
        /\ post'[p].doc = post[p].doc /\ DOMAIN post[p].doc = Fields
        /\ post'[p].alone = post[p].alone
    BY <1>6, OpenEffect DEF PostOpen, Opened, Others
  <2>2. QED
    BY <2>1 DEF AloneIInv
<1>7. ASSUME NEW p \in Posts, PostWrite(p) PROVE AloneIInv'
  <2>1. /\ post[p] \in Job /\ post[p].pc = "write" /\ post'[p] \notin Job /\ mem' = mem
        /\ \A q \in Posts : q # p => post'[q] = post[q]
        /\ file = Empty => file' = Doc(Document(post[p].doc))
        /\ server = "up" /\ UNCHANGED <<server, crashes>> /\ Answered(p, TRUE)
    BY <1>7, AnsweredEffect DEF PostWrite, Saving, Others
  <2>2. CASE ~post[p].alone
    <3>1. promise' = Nothing
      BY <2>1, <2>2, AnsweredPromise
    <3>2. \A q \in Posts : q # p /\ post[q] \in Job => ~post[q].alone
      BY <2>1, JobFacts DEF AloneIInv
    <3>3. QED
      BY <2>1, <3>1, <3>2 DEF AloneIInv
  <2>3. CASE post[p].alone
    <3>1. \A q \in Posts : post'[q] \notin Job
      BY <2>1, <2>3 DEF AloneIInv
    <3>2. /\ DOMAIN post[p].doc = Fields /\ \A f \in Fields : post[p].doc[f] = mem[f]
          /\ file = Empty
      BY <2>1, <2>3 DEF AloneIInv
    <3>3. Document(post[p].doc) = mem
      <4>1. Document(post[p].doc) = [f \in Fields |-> mem[f]]
        BY <3>2 DEF Document
      <4>2. QED
        BY <4>1, ConfigIsPart DEF Types
    <3>4. promise'.of = mem /\ promise'.life = crashes /\ crashes \in Nat
      BY <2>1, <2>3, AnsweredPromise DEF Types
    <3>5. QED
      BY <2>1, <3>1, <3>2, <3>3, <3>4 DEF AloneIInv
  <2>4. QED
    BY <2>2, <2>3
<1>8. ASSUME NEW p \in Posts, PostSaveFails(p) PROVE AloneIInv'
  <2>1. /\ post[p] \in Job /\ post'[p] \notin Job /\ UNCHANGED <<server, mem, file, crashes>>
        /\ \A q \in Posts : q # p => post'[q] = post[q]
        /\ server = "up" /\ Answered(p, FALSE)
    BY <1>8, AnsweredEffect DEF PostSaveFails, Others
  <2>2. CASE ~post[p].alone
    <3>1. promise' = Nothing
      BY <2>1, <2>2, AnsweredPromise
    <3>2. \A q \in Posts : q # p /\ post[q] \in Job => ~post[q].alone
      BY <2>1, JobFacts DEF AloneIInv
    <3>3. QED
      BY <2>1, <3>1, <3>2 DEF AloneIInv
  <2>3. CASE post[p].alone
    <3>1. \A q \in Posts : post'[q] \notin Job
      BY <2>1, <2>3 DEF AloneIInv
    <3>2. /\ promise'.of = mem /\ ~promise'.written /\ promise'.life = crashes
          /\ crashes \in Nat
      BY <2>1, <2>3, AnsweredPromise DEF Types
    <3>3. QED
      BY <2>1, <3>1, <3>2 DEF AloneIInv
  <2>4. QED
    BY <2>2, <2>3
<1>9. ASSUME NEW b \in Builders, BuildStart(b) \/ BuildRead(b) \/ BuildEnd(b) PROVE AloneIInv'
  BY <1>9 DEF BuildStart, BuildRead, BuildEnd, diskVars, AloneIInv
<1>10. CASE Crash
  <2>1. /\ UNCHANGED <<mem, file, promise>> /\ server' = "down" /\ crashes' = crashes + 1
        /\ \A p \in Posts : post'[p] \notin Job
    BY <1>10, CrashEffect DEF Crash
  <2>2. promise # Nothing => promise.life \in Nat /\ crashes \in Nat
    BY DEF Types, Promises
  <2>3. QED
    BY <2>1, <2>2 DEF AloneIInv
<1>11. CASE Restart
  <2>1. /\ UNCHANGED <<file, post, promise, crashes>> /\ server # "up"
        /\ \A p \in Posts : post[p] \notin Job
    BY <1>11 DEF Restart, DownIInv, diskVars
  <2>2. promise # Nothing /\ promise.written => promise.of = mem'
    BY <1>11, <2>1 DEF AloneIInv, Restart, Loaded, Doc
  <2>3. promise # Nothing => promise.life < crashes /\ promise.life \in Nat /\ crashes \in Nat
    BY <2>1 DEF AloneIInv, Types, Promises
  <2>4. QED
    BY <2>1, <2>2, <2>3 DEF AloneIInv
<1>12. CASE UNCHANGED configVars
  BY <1>12 DEF configVars, diskVars, AloneIInv
<1>13. QED
  BY <1>2, <1>3, <1>4, <1>5, <1>6, <1>7, <1>8, <1>9, <1>10, <1>11, <1>12 DEF ConfigNext

\* What a POST that ran alone was told is saved is what the server works with until
\* the next POST: across crashes and restarts if the write did not fail, and until
\* the server stops if it did (the client is told the same).
THEOREM ConfigAcknowledgedSurvives == ConfigSpec => []AcknowledgedSurvives
<1>1. ConfigInit => DownIInv /\ AloneIInv
  <2>1. Idle \notin Job
    BY JobFacts DEF Idle
  <2>2. QED
    BY <2>1 DEF ConfigInit, DownIInv, AloneIInv
<1>2. AloneIInv => AcknowledgedSurvives
  BY DEF AloneIInv, AcknowledgedSurvives
<1>3. QED
  BY <1>1, <1>2, TypesInit, TypesStep, DownStep, AloneStep, PTL DEF ConfigSpec

-----------------------------------------------------------------------------
\* Of what was read with a remote backend, the key that is read after it is there,
\* and will be: nothing but blanks takes it away again.
HasKey(d, c) ==
    /\ "key" \in DOMAIN d => "backend" \in DOMAIN d
    /\ ~EnvKey /\ "backend" \in DOMAIN d /\ d["backend"] = "remote" =>
          /\ c["key"] = "set"
          /\ "key" \in DOMAIN d => d["key"] = "set"

\* Unless the object in memory has been without a key, neither that of a server
\* that runs nor the file nor what is being read is; flags may be, and with them a
\* server is refused that has no document to load.
KeyIInv ==
    /\ ~unkeyed =>
          /\ server = "up" => ~NeedsKey(mem)
          /\ file \in Docs => ~NeedsKey(file.of)
          /\ \A p \in Posts : post[p] \in Job => HasKey(post[p].doc, mem)
          /\ \A b \in Builders : build[b] \in Construction => HasKey(build[b].got, mem)
    /\ server = "refused" => unkeyed \/ file \notin Docs
    /\ \A p \in Posts : post[p] \in Job /\ post[p].pc = "write" => DOMAIN post[p].doc = Fields

\* A key in memory stays good for what has been read.
LEMMA HasKeyKept ==
  ASSUME NEW d, NEW c, NEW e, HasKey(d, c), c["key"] = "set" => e["key"] = "set"
  PROVE  HasKey(d, e)
BY DEF HasKey

LEMMA HasKeyRead ==
  ASSUME NEW d \in Parts, NEW c, IsConfig(c), ~NeedsKey(c), HasKey(d, c),
         NEW f \in Fields \ DOMAIN d, f = "key" => "backend" \in DOMAIN d,
         NEW e, e = Extended(d, f, c[f])
  PROVE  HasKey(e, c)
<1> DEFINE w == c[f]
<1>1. w \in Values(f) /\ w = c[f] /\ e = Extended(d, f, w)
  BY DEF IsConfig
<1> HIDE DEF w
<1>2. /\ DOMAIN e = DOMAIN d \cup {f} /\ e[f] = w
      /\ \A g \in DOMAIN d : g # f => e[g] = d[g]
  <2>1. /\ DOMAIN Extended(d, f, w) = DOMAIN d \cup {f}
        /\ Extended(d, f, w)[f] = w
        /\ \A g \in DOMAIN d : g # f => Extended(d, f, w)[g] = d[g]
    BY <1>1, ExtendedPart
  <2>2. QED
    BY <1>1, <2>1
<1>3. c["key"] \in {"set", "unset"}
  BY FieldNames DEF IsConfig, Values
<1>4. "key" \in DOMAIN e => "backend" \in DOMAIN e
  BY <1>2 DEF HasKey
<1>5. ASSUME ~EnvKey, "backend" \in DOMAIN e, e["backend"] = "remote"
      PROVE  c["key"] = "set" /\ ("key" \in DOMAIN e => e["key"] = "set")
  <2>1. CASE f = "backend"
    <3>1. "key" \notin DOMAIN e
      BY <1>2, <2>1 DEF HasKey
    <3>2. c["backend"] = "remote"
      BY <1>1, <1>2, <1>5, <2>1
    <3>3. QED
      BY <1>3, <1>5, <3>1, <3>2 DEF NeedsKey
  <2>2. CASE f # "backend"
    <3>1. "backend" \in DOMAIN d /\ d["backend"] = "remote"
      BY <1>2, <1>5, <2>2
    <3>2. c["key"] = "set" /\ ("key" \in DOMAIN d => d["key"] = "set")
      BY <1>5, <3>1 DEF HasKey
    <3>3. QED
      BY <1>1, <1>2, <3>2
  <2>3. QED
    BY <2>1, <2>2
<1>6. QED
  BY <1>4, <1>5 DEF HasKey

LEMMA KeyStep ==
  ASSUME Types, KeyIInv, DownIInv, [ConfigNext]_configVars
  PROVE  KeyIInv'
<1>1. Done \notin Job
  BY JobFacts DEF Done
<1>2. ASSUME NEW p \in Posts, PostStart(p) PROVE KeyIInv'
  <2>1. UNCHANGED <<server, mem, file, build, unkeyed>>
    BY <1>2 DEF PostStart, diskVars
  <2>2. HasKey(post'[p].doc, mem) /\ post'[p].pc = "assign"
    BY <1>2, StartEffect, NothingReadPart DEF HasKey
  <2>3. \A q \in Posts : q # p /\ post'[q] \in Job =>
           post[q] \in Job /\ post'[q].pc = post[q].pc /\ post'[q].doc = post[q].doc
    BY <1>2, StartEffect
  <2>4. QED
    BY <2>1, <2>2, <2>3 DEF KeyIInv
<1>3. ASSUME NEW p \in Posts, PostAssign(p) PROVE KeyIInv'
  <2>1. UNCHANGED <<server, file, build>> /\ server = "up"
    BY <1>3 DEF PostAssign, diskVars
  <2>2. \A q \in Posts : post'[q] \in Job =>
           post[q] \in Job /\ post'[q].doc = post[q].doc /\ (post'[q].pc = "write" => post[q].pc = "write")
    BY <1>1, <1>3, AssignEffect DEF Others
  <2>3. ~unkeyed' => /\ ~unkeyed /\ ~NeedsKey(mem')
                     /\ mem["key"] = "set" => mem'["key"] = "set"
    BY <1>3, AssignEffect
  <2>4. ASSUME ~unkeyed', NEW d, HasKey(d, mem)
        PROVE  HasKey(d, mem')
    BY <2>3, <2>4, HasKeyKept
  <2>5. QED
    BY <2>1, <2>2, <2>3, <2>4 DEF KeyIInv, NeedsKey
<1>4. ASSUME NEW p \in Posts, PostCheck(p) PROVE KeyIInv'
  <2>1. UNCHANGED <<server, mem, file, build, unkeyed>>
    BY <1>4 DEF PostCheck, diskVars
  <2>2. \A q \in Posts : post'[q] \in Job =>
           post[q] \in Job /\ post'[q].doc = post[q].doc /\ (post'[q].pc = "write" => post[q].pc = "write")
    BY <1>1, <1>4, CheckEffect DEF Others
  <2>3. QED
    BY <2>1, <2>2 DEF KeyIInv
<1>5. ASSUME NEW p \in Posts, PostRead(p) PROVE KeyIInv'
  <2>1. /\ UNCHANGED <<server, mem, file, build, unkeyed>> /\ post[p] \in Job /\ server = "up"
        /\ post'[p].pc = "assign" /\ \A q \in Posts : q # p => post'[q] = post[q]
    BY <1>5, ReadEffect DEF PostRead, diskVars, Others
  <2>2. ASSUME ~unkeyed PROVE HasKey(post'[p].doc, mem)
    <3> DEFINE d == post[p].doc
               e == post'[p].doc
    <3>1. PICK f \in Fields \ DOMAIN d : e = Extended(d, f, mem[f]) /\ (f = "key" => "backend" \in DOMAIN d)
      BY <1>5, ReadEffect
    <3>2. d \in Parts /\ HasKey(d, mem) /\ IsConfig(mem) /\ ~NeedsKey(mem)
      BY <2>1, <2>2, JobFacts DEF KeyIInv, Types
    <3> HIDE DEF d, e
    <3>3. HasKey(e, mem)
      BY <3>1, <3>2, HasKeyRead
    <3>4. QED
      BY <3>3 DEF e
  <2>3. QED
    BY <2>1, <2>2 DEF KeyIInv
<1>6. ASSUME NEW p \in Posts, PostOpen(p) PROVE KeyIInv'
  <2>1. /\ UNCHANGED <<server, mem, build, unkeyed>> /\ server = "up"
        /\ file' = Empty /\ Empty \notin Docs
    BY <1>6, FileKinds DEF PostOpen, Opened
  <2>2. /\ post[p] \in Job /\ post'[p].doc = post[p].doc /\ DOMAIN post[p].doc = Fields
        /\ \A q \in Posts : q # p => post'[q] = post[q]
    BY <1>6, OpenEffect DEF Others
  <2>3. QED
    BY <2>1, <2>2 DEF KeyIInv
<1>7. ASSUME NEW p \in Posts, PostWrite(p) PROVE KeyIInv'
  <2> DEFINE d == post[p].doc
  <2>1. /\ UNCHANGED <<server, mem, build, unkeyed>> /\ server = "up"
        /\ post[p] \in Job /\ post[p].pc = "write"
        /\ file' \in {Doc(Document(d)), Mixed}
    BY <1>7, AnsweredEffect DEF PostWrite, Saving
  <2>2. post'[p] \notin Job /\ \A q \in Posts : q # p => post'[q] = post[q]
    BY <1>7, AnsweredEffect DEF Others
  <2>3. ASSUME ~unkeyed PROVE ~NeedsKey(Document(d))
    <3>1. d \in Parts /\ HasKey(d, mem) /\ DOMAIN d = Fields
      BY <2>1, <2>3, JobFacts DEF KeyIInv
    <3> HIDE DEF d
    <3>2. Document(d)["key"] = d["key"] /\ Document(d)["backend"] = d["backend"]
      BY <3>1, DocumentConfig, FieldNames
    <3>3. QED
      BY <3>1, <3>2, FieldNames DEF HasKey, NeedsKey
  <2>4. file' \in Docs => file'.of = Document(d)
    BY <2>1, FileKinds DEF Doc
  <2> HIDE DEF d
  <2>5. QED
    BY <2>1, <2>2, <2>3, <2>4 DEF KeyIInv
<1>8. ASSUME NEW p \in Posts, PostSaveFails(p) PROVE KeyIInv'
  <2>1. UNCHANGED <<server, mem, file, build, unkeyed>>
    BY <1>8 DEF PostSaveFails
  <2>2. post'[p] \notin Job /\ \A q \in Posts : q # p => post'[q] = post[q]
    BY <1>8, AnsweredEffect DEF Others
  <2>3. QED
    BY <2>1, <2>2 DEF KeyIInv
<1>9. ASSUME NEW b \in Builders, BuildStart(b) \/ BuildRead(b) \/ BuildEnd(b) PROVE KeyIInv'
  <2>1. UNCHANGED <<server, mem, file, post, unkeyed>> /\ server = "up"
    BY <1>9 DEF BuildStart, BuildRead, BuildEnd, diskVars
  <2>2. \A c \in Builders : c # b => build'[c] = build[c]
    BY <1>9, BuildStartEffect, BuildReadEffect, BuildEndEffect
  <2>3. ASSUME ~unkeyed PROVE HasKey(build'[b].got, mem)
    <3>1. CASE BuildStart(b)
      BY <3>1, BuildStartEffect, NothingReadPart DEF HasKey
    <3>2. CASE BuildRead(b)
      <4> DEFINE d == build[b].got
                 e == build'[b].got
      <4>1. PICK f \in Fields \ DOMAIN d : e = Extended(d, f, mem[f]) /\ (f = "key" => "backend" \in DOMAIN d)
        BY <3>2, BuildReadEffect
      <4>2. d \in Parts /\ HasKey(d, mem) /\ IsConfig(mem) /\ ~NeedsKey(mem)
        <5>1. build[b] \in Construction
          BY <3>2, BuildReadEffect
        <5>2. QED
          BY <2>1, <2>3, <5>1 DEF KeyIInv, Types, Construction
      <4> HIDE DEF d, e
      <4>3. HasKey(e, mem)
        BY <4>1, <4>2, HasKeyRead
      <4>4. QED
        BY <4>3 DEF e
    <3>3. CASE BuildEnd(b)
      BY <2>3, <3>3, BuildEndEffect DEF KeyIInv
    <3>4. QED
      BY <1>9, <3>1, <3>2, <3>3
  <2>4. QED
    BY <2>1, <2>2, <2>3 DEF KeyIInv
<1>10. CASE Crash
  <2>1. /\ UNCHANGED <<mem, file, unkeyed>> /\ server' = "down"
        /\ \A p \in Posts : post'[p] \notin Job
    BY <1>10, CrashEffect DEF Crash
  <2>2. \A b \in Builders : build'[b] \notin Construction
    <3>1. Idle \notin Construction /\ Gone \notin Construction
      BY BuildPc DEF Idle, Gone
    <3>2. QED
      BY <1>10, <3>1, CrashEffect
  <2>3. QED
    BY <2>1, <2>2 DEF KeyIInv
<1>11. CASE Restart
  <2>1. /\ UNCHANGED <<file, post, build, unkeyed>>
        /\ server' = IF NeedsKey(mem') THEN "refused" ELSE "up"
        /\ \A p \in Posts : post[p] \notin Job
        /\ \A b \in Builders : build[b] \notin Construction
    BY <1>11 DEF Restart, DownIInv, diskVars
  <2>2. ~unkeyed /\ file \in Docs => ~NeedsKey(mem')
    BY <1>11, FileKinds DEF Restart, Loaded, KeyIInv
  <2>3. QED
    BY <2>1, <2>2 DEF KeyIInv, Types
<1>12. CASE UNCHANGED configVars
  BY <1>12 DEF configVars, diskVars, KeyIInv
<1>13. QED
  BY <1>2, <1>3, <1>4, <1>5, <1>6, <1>7, <1>8, <1>9, <1>10, <1>11, <1>12 DEF ConfigNext

LEMMA KeyInit == ConfigInit => DownIInv /\ KeyIInv
<1> SUFFICES ASSUME ConfigInit
             PROVE  DownIInv /\ KeyIInv
  OBVIOUS
<1>1. (\A p \in Posts : post[p] \notin Job) /\ (\A b \in Builders : build[b] \notin Construction)
  <2>1. Idle \notin Job /\ Idle \notin Construction
    BY JobFacts, BuildPc DEF Idle
  <2>2. QED
    BY <2>1 DEF ConfigInit
<1>2. ~NeedsKey(mem) /\ (file \in Docs => ~NeedsKey(file.of)) /\ server = "up"
  BY FirstFile DEF ConfigInit
<1>3. QED
  BY <1>1, <1>2 DEF DownIInv, KeyIInv

\* A session's LLM handler has the key its remote backend needs, however the
\* construction and requests interleave, and whatever was loaded from the file,
\* unless the object in memory itself has been without one.
THEOREM ConfigSessionHasKey == ConfigSpec => []SessionHasKey
<1>1. ASSUME Types, KeyIInv, NEW b \in Builders,
             build[b].pc = "built", Got(b, "backend", "remote"), Got(b, "key", "unset")
      PROVE  EnvKey \/ unkeyed
  <2>1. build[b] \in Construction
    BY <1>1, BuildPc DEF Types
  <2>2. ~unkeyed => HasKey(build[b].got, mem)
    BY <1>1, <2>1 DEF KeyIInv
  <2>3. QED
    BY <1>1, <2>2 DEF HasKey, Got
<1>2. Types /\ KeyIInv => SessionHasKey
  BY <1>1 DEF SessionHasKey
<1>3. QED
  BY <1>2, TypesInit, TypesStep, KeyInit, DownStep, KeyStep, PTL DEF ConfigSpec

\* The server starts again after a crash at any moment, unless a refused backend or
\* a blanked key has been in memory, or no file can be read, because there is none
\* or because a save was torn, and the flags lack a key.
THEOREM ConfigRestarts == ConfigSpec => []RestartRefusedOnlyUnkeyed
<1>1. ASSUME Types, FileIInv, DownIInv, KeyIInv, server = "refused", ~unkeyed
      PROVE  file = NoFile \/ (torn /\ file.kind # "doc")
  <2>1. file \in {NoFile, Empty, Mixed}
    BY <1>1 DEF KeyIInv, Types
  <2>2. \A p \in Posts : post[p].pc # "write"
    BY <1>1, RunningIsJob DEF DownIInv, Types, PostTypes
  <2>3. file \in {Empty, Mixed} => torn
    BY <1>1, <2>2 DEF FileIInv
  <2>4. QED
    BY <2>1, <2>3, FileKinds
<1>2. Types /\ FileIInv /\ DownIInv /\ KeyIInv => RestartRefusedOnlyUnkeyed
  BY <1>1 DEF RestartRefusedOnlyUnkeyed
<1>3. QED
  BY <1>2, TypesInit, TypesStep, FileInit, FileStep, KeyInit, DownStep, KeyStep, PTL DEF ConfigSpec
=============================================================================
