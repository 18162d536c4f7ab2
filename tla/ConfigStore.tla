----------------------------- MODULE ConfigStore -----------------------------
(***************************************************************************)
(* The configuration of the server: one PipelineConfig object in memory,   *)
(* assigned field by field by POST /v1/config (a sync def, so every        *)
(* request has a thread of its own), read field by field when a session,   *)
(* a proxy request or a self-test builds its handlers, and saved to a file *)
(* which the next start of the server reads.                               *)
(*                                                                         *)
(* A field stands for a group of settings that are treated alike: "key"    *)
(* for llm_api_key, "set" or "unset"; "backend", which is remote (needs a  *)
(* key), local (needs none) or unknown (POST does not validate it); plain  *)
(* fields, "old" or "new", and "bad" in a request that validation refuses. *)
(*                                                                         *)
(* Ghosts, which no code reads: promise is the configuration of the last   *)
(* POST if it was answered 200 and ran alone, whether it was written, and  *)
(* in which life of the server; unkeyed says that the object in memory has *)
(* had a remote backend without a key, or a key was replaced by blanks;    *)
(* torn that a save was cut off, failed half-way or overlapped.            *)
(***************************************************************************)
EXTENDS Naturals

CONSTANTS
    Posts,       \* POST /v1/config requests; each is sent at most once
    Bodies,      \* what they may contain: partial functions on Fields
    Builders,    \* sessions that are opened; each at most once
    Plain,       \* plain fields of the instance
    EnvKey,      \* the environment has the provider's key
    Files,       \* configurations that config.json may hold at the first start
    Flags,       \* configurations the command line flags of a start may give
    MaxCrashes,  \* bound: times the server is killed
    MaxErrors    \* bound: writes of the file that fail

PlainFields == {"llm", "tts", "vad", "stt", "live"}
Fields == {"key", "backend"} \cup Plain
Backends == {"remote", "local", "unknown"}
Values(f) == CASE f = "key" -> {"set", "unset"}
               [] f = "backend" -> Backends
               [] OTHER -> {"old", "new"}
Inputs(f) == CASE f = "key" -> {"set", "blank", "bad"}
               [] f = "backend" -> Backends
               [] OTHER -> {"new", "bad"}
IsConfig(c) ==
    /\ c \in [Fields -> UNION {Values(f) : f \in Fields}]
    /\ \A f \in Fields : c[f] \in Values(f)
IsBody(b) == DOMAIN b \subseteq Fields /\ \A f \in DOMAIN b : b[f] \in Inputs(f)

NeedsKey(c) == c["backend"] = "remote" /\ c["key"] = "unset" /\ ~EnvKey

\* What PipelineConfig has without arguments: "openai" and no key.
Default == [f \in Fields |-> CASE f = "key" -> "unset" [] f = "backend" -> "remote" [] OTHER -> "old"]

ASSUME ConfigAssumption ==
    /\ Plain \subseteq PlainFields
    /\ \A b \in Bodies : IsBody(b)
    /\ \A c \in Files \cup Flags : IsConfig(c)
    /\ EnvKey \in BOOLEAN
    /\ {MaxCrashes, MaxErrors} \subseteq Nat

VARIABLES
    server,   \* "up", "down" after a crash, "refused" when main exits with 1
    mem,      \* app.state.pipeline_config
    file,     \* config.json: kind "absent", "empty", "mixed" (no JSON) or "doc"
    post,     \* threads of the requests
    build,    \* constructions of a session's handlers
    crashes, errors, \* counters for the bounds
    promise, unkeyed, torn

diskVars == <<file, torn>>
configVars == <<server, mem, diskVars, post, build, crashes, errors, promise, unkeyed>>

NoFile == [kind |-> "absent"]
Empty == [kind |-> "empty"]
Mixed == [kind |-> "mixed"]
Doc(c) == [kind |-> "doc", of |-> c]
Nothing == [kind |-> "nothing"]

\* The order in which update_config assigns, in which save_config reads
\* (_GROUP_MAP) and in which _make_handlers reads: a rank for every field.
AssignOrder == [key |-> 1, backend |-> 2, llm |-> 3, tts |-> 4, vad |-> 5, stt |-> 6, live |-> 7]

\* Mutant: the key is read before the backend it belongs to.
SaveKeyFirst == [stt |-> 1, key |-> 2, backend |-> 3, llm |-> 4, tts |-> 5, vad |-> 6, live |-> 7]

SaveOrder == [stt |-> 1, backend |-> 2, key |-> 3, llm |-> 4, tts |-> 5, vad |-> 6, live |-> 7]

\* Mutant: the same in the construction of the LLM handler.
BuildKeyFirst == [vad |-> 1, stt |-> 2, live |-> 3, key |-> 4, backend |-> 5, llm |-> 6, tts |-> 7]

BuildOrder == [vad |-> 1, stt |-> 2, live |-> 3, backend |-> 4, key |-> 5, llm |-> 6, tts |-> 7]

\* Mutant: the key is not saved at all.
SavedWithoutKey == Fields \ {"key"}

SavedFields == Fields

\* Which of the fields in S comes next; what has been read, with one more field.
NextOf(S, order) == {f \in S : \A g \in S : order[f] <= order[g]}
Extended(read, f, v) == [g \in DOMAIN read \cup {f} |-> IF g = f THEN v ELSE read[g]]
NothingRead == [f \in {} |-> "old"]

Idle == [pc |-> "idle"]
Running(p) == post[p].pc \notin {"idle", "done"}
Saving(p) == post[p].pc = "write"

\* load_config, and the flags of this start if it gives None.
Loaded(f, flags) == IF f.kind = "doc" THEN f.of ELSE flags

\* The server has been started, with a config.json or without: main has let it pass.
ConfigInit ==
    /\ server = "up"
    /\ file \in {NoFile} \cup {Doc(c) : c \in Files}
    /\ \E flags \in Flags : mem = Loaded(file, flags) /\ ~NeedsKey(mem)
    /\ post = [p \in Posts |-> Idle]
    /\ build = [b \in Builders |-> Idle]
    /\ crashes = 0 /\ errors = 0
    /\ promise = Nothing /\ unkeyed = FALSE /\ torn = FALSE

-----------------------------------------------------------------------------
\* POST /v1/config.  todo: the fields of the body not yet assigned; alone: no
\* other request has run at the same time.
PostStart(p) ==
    /\ server = "up" /\ post[p].pc = "idle"
    /\ \E b \in Bodies :
        post' = [q \in Posts |->
                    IF q = p THEN [pc |-> "assign", body |-> b, doc |-> NothingRead,
                                   todo |-> DOMAIN b,
                                   alone |-> \A r \in Posts \ {p} : ~Running(r)]
                    ELSE IF Running(q) THEN [post[q] EXCEPT !.alone = FALSE] ELSE post[q]]
    /\ promise' = Nothing
    /\ UNCHANGED <<server, mem, diskVars, build, crashes, errors, unkeyed>>

\* What a field becomes: a key is stripped, a backend taken as it is.
Stored(v) == IF v = "blank" THEN "unset" ELSE v

\* Mutant: a value is assigned before it is validated.
RefusesNothing(v) == FALSE

\* Validation, as the fields with a check in update_config have it.
Refuses(v) == v = "bad"

\* One field is validated and assigned; a backend is assigned and then checked.
PostAssign(p) ==
    /\ server = "up" /\ post[p].pc = "assign"
    /\ \E f \in NextOf(post[p].todo, AssignOrder) :
        LET v == post[p].body[f]
        IN /\ IF Refuses(v)
              THEN mem' = mem /\ post' = [post EXCEPT ![p] = [pc |-> "done"]]
              ELSE /\ mem' = [mem EXCEPT ![f] = Stored(v)]
                   /\ post' = [post EXCEPT ![p].todo = @ \ {f},
                                           ![p].pc = IF f = "backend" THEN "check" ELSE "assign"]
           /\ unkeyed' = (unkeyed \/ v = "blank" \/ NeedsKey(mem'))
    /\ UNCHANGED <<server, diskVars, build, crashes, errors, promise>>

\* A remote backend without a key is refused, but stays in memory.
PostCheck(p) ==
    /\ server = "up" /\ post[p].pc = "check"
    /\ post' = [post EXCEPT ![p] = IF NeedsKey(mem) THEN [pc |-> "done"]
                                   ELSE [@ EXCEPT !.pc = "assign"]]
    /\ UNCHANGED <<server, mem, diskVars, build, crashes, errors, promise, unkeyed>>

\* save_config reads the live object, one field at a time ...
PostRead(p) ==
    /\ server = "up" /\ post[p].pc = "assign" /\ post[p].todo = {}
    /\ \E f \in NextOf(SavedFields \ DOMAIN post[p].doc, SaveOrder) :
        post' = [post EXCEPT ![p].doc = Extended(@, f, mem[f])]
    /\ UNCHANGED <<server, mem, diskVars, build, crashes, errors, promise, unkeyed>>

\* What load_config makes of it: a field that is missing has its default.
Document(doc) == [f \in Fields |-> IF f \in DOMAIN doc THEN doc[f] ELSE Default[f]]

\* Mutant: the file is opened without being truncated.
OpenUntruncated(f) == f

\* ... and then truncates the file.
Opened(f) == Empty

PostOpen(p) ==
    /\ server = "up" /\ post[p].pc = "assign" /\ post[p].todo = {}
    /\ DOMAIN post[p].doc = SavedFields
    /\ file' = Opened(file)
    /\ post' = [post EXCEPT ![p].pc = "write"]
    /\ torn' = (torn \/ \E q \in Posts : Saving(q))
    /\ UNCHANGED <<server, mem, build, crashes, errors, promise, unkeyed>>

\* What the client is told when nothing was refused: "saved for the next runs".
Answered(p, written) ==
    promise' = IF post[p].alone
               THEN [kind |-> "promise", of |-> mem, written |-> written, life |-> crashes]
               ELSE Nothing

\* The buffered text reaches the file when it is closed, at the position at
\* which this file object was opened: over whatever another save has written
\* since, of which a longer end remains.
PostWrite(p) ==
    /\ server = "up" /\ Saving(p)
    /\ LET doc == Doc(Document(post[p].doc)) IN
       file' \in {doc} \cup (IF file \in {NoFile, Empty, doc} THEN {} ELSE {Mixed})
    /\ Answered(p, TRUE)
    /\ post' = [post EXCEPT ![p] = [pc |-> "done"]]
    /\ UNCHANGED <<server, mem, torn, build, crashes, errors, unkeyed>>

\* The save fails, before or after the truncation; it is only logged, and the
\* answer is the same.
PostSaveFails(p) ==
    /\ server = "up" /\ errors < MaxErrors
    /\ \/ post[p].pc = "assign" /\ post[p].todo = {} /\ DOMAIN post[p].doc = SavedFields
          /\ UNCHANGED torn
       \/ Saving(p) /\ torn' = TRUE
    /\ errors' = errors + 1
    /\ Answered(p, FALSE)
    /\ post' = [post EXCEPT ![p] = [pc |-> "done"]]
    /\ UNCHANGED <<server, mem, file, build, crashes, unkeyed>>

-----------------------------------------------------------------------------
\* A session's handlers are built on the event loop, one at a time.
BuildStart(b) ==
    /\ server = "up" /\ build[b].pc = "idle"
    /\ \A c \in Builders : build[c].pc # "read"
    /\ build' = [build EXCEPT ![b] = [pc |-> "read", got |-> NothingRead]]
    /\ UNCHANGED <<server, mem, diskVars, post, crashes, errors, promise, unkeyed>>

\* What a construction has read of a field, if it has got there.
Got(b, f, v) == f \in DOMAIN build[b].got /\ build[b].got[f] = v

BuildRead(b) ==
    /\ server = "up" /\ build[b].pc = "read"
    /\ \E f \in NextOf(Fields \ DOMAIN build[b].got, BuildOrder) :
        build' = [build EXCEPT ![b].got = Extended(@, f, mem[f])]
    /\ UNCHANGED <<server, mem, diskVars, post, crashes, errors, promise, unkeyed>>

\* get_llm_handler raises for a backend it does not know: no session.
BuildEnd(b) ==
    /\ server = "up" /\ build[b].pc = "read" /\ DOMAIN build[b].got = Fields
    /\ build' = [build EXCEPT ![b].pc = IF Got(b, "backend", "unknown") THEN "failed" ELSE "built"]
    /\ UNCHANGED <<server, mem, diskVars, post, crashes, errors, promise, unkeyed>>

-----------------------------------------------------------------------------
\* The process is killed: threads, sessions and memory are gone.
Crash ==
    /\ server = "up" /\ crashes < MaxCrashes
    /\ server' = "down"
    /\ crashes' = crashes + 1
    /\ torn' = (torn \/ \E p \in Posts : Saving(p))
    /\ post' = [p \in Posts |-> IF Running(p) THEN [pc |-> "done"] ELSE post[p]]
    /\ build' = [b \in Builders |-> IF build[b].pc = "idle" THEN Idle ELSE [pc |-> "gone"]]
    /\ UNCHANGED <<mem, file, errors, promise, unkeyed>>

\* main: a remote backend without a key does not start, until it is tried again
\* with other flags.
Restart ==
    /\ server # "up"
    /\ \E flags \in Flags : mem' = Loaded(file, flags)
    /\ server' = IF NeedsKey(mem') THEN "refused" ELSE "up"
    /\ UNCHANGED <<diskVars, post, build, crashes, errors, promise, unkeyed>>

ConfigNext ==
    \/ \E p \in Posts : \/ PostStart(p) \/ PostAssign(p) \/ PostCheck(p) \/ PostRead(p)
                        \/ PostOpen(p) \/ PostWrite(p) \/ PostSaveFails(p)
    \/ \E b \in Builders : BuildStart(b) \/ BuildRead(b) \/ BuildEnd(b)
    \/ Crash \/ Restart

-----------------------------------------------------------------------------
\* Type correctness; no value that fails a check of its own in POST /v1/config is
\* ever in memory or in the file (a remote backend that is refused for want of a
\* key does stay, in both).
ConfigTypeOK ==
    /\ server \in {"up", "down", "refused"}
    /\ IsConfig(mem)
    /\ file \in {NoFile, Empty, Mixed} \/ (file.kind = "doc" /\ IsConfig(file.of))
    /\ \A p \in Posts : /\ post[p].pc \in {"idle", "assign", "check", "write", "done"}
                        /\ Running(p) => post[p].body \in Bodies
    /\ \A b \in Builders : build[b].pc \in {"idle", "read", "built", "failed", "gone"}
    /\ promise = Nothing \/ (promise.kind = "promise" /\ IsConfig(promise.of))
    /\ {unkeyed, torn} \subseteq BOOLEAN

\* A session's LLM handler has the key its remote backend needs, however the
\* construction (which reads backend before key) and requests (which assign
\* key before backend) interleave, and whatever was loaded from the file,
\* unless the object in memory itself has been without one (a remote backend
\* is assigned before it is refused) or a key has been blanked.
SessionHasKey ==
    \A b \in Builders :
        build[b].pc = "built" /\ Got(b, "backend", "remote") /\ Got(b, "key", "unset")
            => EnvKey \/ unkeyed

\* What a POST that ran alone was told is saved is what the server works with
\* until the next POST: also after it was killed and started again, if the file
\* could be written.  When the write fails the client is told the same, and all
\* that is left of the promise holds until the server stops: the next start works
\* with the file before, or with its flags if the failed save had truncated it.
AcknowledgedSurvives ==
    promise # Nothing /\ server = "up" /\ (promise.written \/ promise.life = crashes)
        => promise.of = mem

\* The server starts again after a crash at any moment, from its file or from any
\* flags, with three exceptions: a refused backend that stays in memory, or a blanked
\* key, may be in the file; there is no file yet; or a torn save has left none that
\* can be read.  In the last two the flags count, which nobody looked at while a
\* good file was there, and they may lack a key.
RestartRefusedOnlyUnkeyed ==
    server = "refused" => unkeyed \/ file = NoFile \/ (torn /\ file.kind # "doc")

\* The file can be read unless a save was cut off, failed, or overlapped
\* with another.
FileReadable ==
    file \in {Empty, Mixed} => torn \/ \E p \in Posts : Saving(p)

ConfigSpec == ConfigInit /\ [][ConfigNext]_configVars
=============================================================================
