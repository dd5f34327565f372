------------------------------- MODULE Plugin -------------------------------
(***************************************************************************)
(* The plugin as a whole: the hooks of Engine, in which the rules of       *)
(* Checker, the guard store and the probe store now make the decisions     *)
(* that Engine leaves open, and are told what Engine says they are told.   *)
(*                                                                         *)
(* Each step is a step of Engine, of a store, or of Engine and one store   *)
(* where the code runs from one to the other without a shared section in   *)
(* between.  The variable hook says what a hook call does next between two *)
(* sections.  Here the disk works, error bodies are JSON, clocks are read  *)
(* under the lock and no request lives an hour: those are matters of the   *)
(* single components.                                                      *)
(*                                                                         *)
(* The body of an error, and the text of a reply, is the request it was    *)
(* the answer to, which tells where anything the plugin says comes from.   *)
(***************************************************************************)
EXTENDS Checker, FiniteSets, Functions

CONSTANTS
    Req, Delivery, Original, FrameLen, Cap, Cutoff, MaxFrames,    \* of Engine
    Session, Input, MaxEvents,                            \* of GuardStore
    Hash, MinSamples, MaxEntries, MaxHits,                \* of ProbeStore
    MaxNow,             \* bound: the clock stops here
    MaxTime,            \* bound: and here, per configuration
    MaxOpen,            \* bound: requests under way at a time, per configuration
    MaxBusy,            \* bound: hook calls time passes under, per configuration
    Item,               \* reasoning item ids
    Config,             \* configurations the plugin may be built with
    ItemTTL, CircuitTTL, ProbeTTL,                        \* configured durations
    DefaultTTL,         \* stands for 24h, 3h and 72h
    ThresholdNum, ThresholdDen,                           \* configured threshold
    MaxInputBytes,      \* size up to which a request is fit for the probe cache
    Request,            \* bound: the requests clients make, per configuration
    Upstream,           \* the body the host sends upstream, for each of them
    Failure             \* HTTP status codes that are errors: no 2xx

Threshold == SimilarityThreshold(ThresholdNum, ThresholdDen)

\* The fields of a request and, of those a step hands on, the values.
IsRequest(b) ==
    /\ DOMAIN b = {"size", "json", "max_turns", "input", "reasoning", "header_keys",
                   "request_header_keys", "meta_keys", "lite", "stream", "probe"}
    /\ b.json => b.size # 0
    /\ b.stream \in BOOLEAN
    /\ SessionKeys(b) \cup CheckedKeys(b) \subseteq Session
    /\ InputHashes(b) \in Input
    /\ ItemIds(b) \in Seq(Item)
    /\ b.probe \in Hash \cup {"none"}

ASSUME PluginAssumption ==
    /\ Original \subseteq BOOLEAN
    /\ FrameLen \subseteq Nat \ {0}
    /\ {Cap, MinSamples, MaxEntries, DefaultTTL, ThresholdDen} \subseteq Nat \ {0}
    /\ {Cutoff, MaxFrames, MaxEvents, MaxHits, MaxNow} \subseteq Nat
    /\ {ItemTTL, CircuitTTL, ProbeTTL, ThresholdNum} \subseteq Int
    /\ Failure \subseteq Nat \ ({0} \cup 200..299)
    /\ \A in \in Input : in \in Seq(Range(in))
    /\ \A c \in Config : \A b \in Request[c] :
          IsRequest(b) /\ IsRequest(Upstream[b]) /\ IsRequest(Upstream[Fixed(b)])

VARIABLES
    cfg,        \* Engine.cfg: never changed, register ignores what it is sent
    asked,      \* the request each client made
    hook,       \* what the hook call of each request does next
    result,     \* how the upstream, or the host, ended each request
    made,       \* history: the answer the plugin itself made to a request
    before,     \* history: what was done and recorded when a request was made
    told_at,    \* history: when an outcome was recorded
    \* Engine
    pending, leaked, host, call, comp, told, evicted,
    \* the guard store
    items, circuits, guardDirty, guardFile, pc, guardSave, guardLog,
    \* the probe store
    entries, probeDirty, lastErr, probeFile, given, probeSave, probeLog,
    \* the clock
    now

engineVars == <<pending, leaked, host, call, comp, told, evicted>>
guardVars == <<items, circuits, guardDirty, guardFile, pc, guardSave, guardLog>>
probeVars == <<entries, probeDirty, lastErr, probeFile, given, probeSave, probeLog>>
pluginVars == <<asked, hook, result, made, before, told_at>>

vars == <<cfg, pluginVars, engineVars, guardVars, probeVars, now>>

E == INSTANCE Engine

G == INSTANCE GuardStore WITH
    ThresholdNum <- Threshold.num, ThresholdDen <- Threshold.den,
    Status <- Failure \cup {200}, Payload <- Req, JSONPayload <- Req, Thread <- Req,
    TTL <- ParseDuration(ItemTTL, DefaultTTL),
    CircuitTTL <- ParseDuration(CircuitTTL, DefaultTTL),
    Lag <- 0, DiskFaults <- FALSE,
    isDirty <- guardDirty, file <- guardFile, lastSave <- guardSave, log <- guardLog

P == INSTANCE ProbeStore WITH
    Reply <- Req, JSONReply <- Req, TTL <- ParseDuration(ProbeTTL, DefaultTTL),
    DiskFaults <- FALSE,
    isDirty <- probeDirty, file <- probeFile, answer <- given, lastSave <- probeSave,
    log <- probeLog

-----------------------------------------------------------------------------
NotAsked == [asked |-> "nothing"]
NotMade == [by |-> "nobody"]
NoResult == [status |-> 0, names |-> NoId]

Resting == [at |-> "idle"]
Examining(ids) == [at |-> "items", todo |-> ids]

\* newEngineWithConfig, on a host without state files.
Init ==
    /\ cfg \in Config
    /\ asked = [r \in Req |-> NotAsked]
    /\ hook = [r \in Req |-> Resting]
    /\ result = [r \in Req |-> NoResult]
    /\ made = [r \in Req |-> NotMade]
    /\ before = [r \in Req |-> [told |-> {}, done |-> {}]]
    /\ told_at = [r \in Req |-> 0]
    /\ E!Init
    /\ G!Init
    /\ P!Init

Then(r, step) == hook' = [hook EXCEPT ![r] = step]

Told(r) == told[r].oks + told[r].fails > 0

\* No hook call for r is under way.
Quiet(r) == hook[r] = Resting /\ pc[r] = G!Idle /\ ~E!Waiting(r)

\* The requests whose outcome was recorded and whose hooks have returned.
Done == {r \in Req : Told(r) /\ Quiet(r)}

\* The answer m is returned to the host, which sends nothing upstream.
Answer(r, stream, m) ==
    /\ E!Before(r, stream, "terminate")
    /\ made' = [made EXCEPT ![r] = m]
    /\ Then(r, Resting)

-----------------------------------------------------------------------------
(* intercept_before: CheckRequest *)

\* Nothing is left to be done for r.
Finished(r) == Quiet(r) /\ \A d \in Delivery : comp[r][d].at = "returned"

Open == {r \in Req : asked[r] # NotAsked /\ ~Finished(r)}

Asks(r, req) ==
    /\ asked[r] = NotAsked
    /\ Cardinality(Open) < MaxOpen[cfg]
    /\ asked' = [asked EXCEPT ![r] = req]
    /\ before' = [before EXCEPT ![r] = [told |-> {q \in Req : Told(q)}, done |-> Done]]
    /\ UNCHANGED <<cfg, result, told_at, guardVars, probeVars, now>>

AskRefused(r, req) ==
    /\ Asks(r, req)
    /\ \/ Overloaded(cfg, req)
          /\ Answer(r, req.stream, [by |-> "payload"])
       \/ ~Overloaded(cfg, req) /\ ~NotExamined(cfg, req) /\ HasMaxTurns(cfg, req)
          /\ Answer(r, req.stream, [by |-> "max_turns"])

\* A request the static rules let pass: the keys and ids the others look at.
KeysToCheck(req) == IF NotExamined(cfg, req) THEN {} ELSE BreakerKeys(cfg, req)
IdsToCheck(req) == IF NotExamined(cfg, req) THEN <<>> ELSE ExaminedIds(cfg, req)

Passes(req) ==
    ~Overloaded(cfg, req) /\ (NotExamined(cfg, req) \/ ~HasMaxTurns(cfg, req))

\* Which of several blocked keys answers depends on the order of the headers.
\* The defaults of the code for a circuit without a status or an error body are
\* never used here: no outcome with status 0 is recorded, and a body is JSON.
AskBlocked(r, req) ==
    /\ Asks(r, req)
    /\ Passes(req)
    /\ \E k \in KeysToCheck(req) :
          /\ G!Blocked(k, InputHashes(req))
          /\ Answer(r, req.stream,
                    [by |-> "breaker", of |-> circuits[k].payload,
                     status |-> circuits[k].status, at |-> now])

AskFurther(r, req) ==
    /\ Asks(r, req)
    /\ Passes(req)
    /\ \A k \in KeysToCheck(req) : ~G!Blocked(k, InputHashes(req))
    /\ Then(r, Examining(IdsToCheck(req)))
    /\ UNCHANGED <<made, engineVars>>

Examines(r) == hook[r].at = "items" /\ hook[r].todo # <<>>

ItemUnknown(r) ==
    /\ Examines(r)
    /\ Head(hook[r].todo) \notin DOMAIN items
    /\ Then(r, Examining(Tail(hook[r].todo)))
    /\ UNCHANGED <<cfg, asked, result, made, before, told_at, engineVars, guardVars, probeVars, now>>

ItemRead(r) ==
    /\ Examines(r)
    /\ G!IsInvalidRead(r, Head(hook[r].todo))
    /\ Then(r, [at |-> "item", todo |-> Tail(hook[r].todo),
                of |-> items[Head(hook[r].todo)].payload])
    /\ UNCHANGED <<cfg, asked, result, made, before, told_at, engineVars, probeVars>>

ItemKnown(r) ==
    /\ hook[r].at = "item"
    /\ G!IsInvalidHit(r)
    /\ Answer(r, asked[r].stream,
              [by |-> "signature", of |-> hook[r].of, status |-> 400, at |-> now])
    /\ UNCHANGED <<cfg, asked, result, before, told_at, probeVars>>

ItemExpired(r) ==
    /\ hook[r].at = "item"
    /\ G!IsInvalidDelete(r)
    /\ Then(r, Examining(hook[r].todo))
    /\ UNCHANGED <<cfg, asked, result, made, before, told_at, engineVars, probeVars>>

Examined(r) == hook[r].at = "items" /\ hook[r].todo = <<>>

Rewrites(req) == ~NotExamined(cfg, req) /\ NeedsFix(cfg, req)

\* A rewritten body is returned at once, past the probe cache.
Rewrite(r) ==
    /\ Examined(r)
    /\ Rewrites(asked[r])
    /\ E!Before(r, asked[r].stream, "rewrite")
    /\ Then(r, Resting)
    /\ UNCHANGED <<cfg, asked, result, made, before, told_at, guardVars, probeVars, now>>

-----------------------------------------------------------------------------
(* intercept_before: the probe cache *)

\* ComputeInputHash finds the request fit for the cache.
Eligible(req) == req.size \in 1..MaxInputBytes /\ req.json /\ req.probe # "none"

Cacheable(req) == IsOn(cfg.probe_cache_enabled) /\ Eligible(req)

LooksUp(r) == Examined(r) /\ ~Rewrites(asked[r]) /\ Cacheable(asked[r])

Skip(r) ==
    /\ Examined(r)
    /\ ~Rewrites(asked[r])
    /\ ~Cacheable(asked[r])
    /\ E!Before(r, asked[r].stream, "skip")
    /\ Then(r, Resting)
    /\ UNCHANGED <<cfg, asked, result, made, before, told_at, guardVars, probeVars, now>>

Replay(r) ==
    /\ LooksUp(r)
    /\ P!GetHit(asked[r].probe)
    /\ Answer(r, asked[r].stream, [by |-> "cache", of |-> given'.reply, at |-> now])
    /\ UNCHANGED <<cfg, asked, result, before, told_at, guardVars>>

Miss(r) ==
    /\ LooksUp(r)
    /\ \/ P!GetExpired(asked[r].probe)
       \/ ~P!Replayable(asked[r].probe) /\ UNCHANGED <<probeVars, now>>
    /\ E!Before(r, asked[r].stream, "track")
    /\ Then(r, Resting)
    /\ UNCHANGED <<cfg, asked, result, made, before, told_at, guardVars>>

\* The next section of Engine runs, and nothing else.
EngineOnly == UNCHANGED <<cfg, pluginVars, guardVars, probeVars, now>>

-----------------------------------------------------------------------------
(* The upstream, and what the hooks make of it *)

\* What the host sends upstream: the rewritten body, in the upstream's form.
Sent(r) ==
    Upstream[IF host[r].verdict = "rewrite" THEN Fixed(asked[r]) ELSE asked[r]]

HeaderInit(r) ==
    /\ E!HeaderInit(r, Cacheable(Sent(r)))
    /\ EngineOnly

\* What an outcome does to the breaker.
RecordSuccess(req) ==
    IF RecordedKeys(cfg, SessionKeys(req)) # {}
    THEN G!RecordSuccess(SessionKeys(req), 200) ELSE UNCHANGED <<guardVars, now>>

RecordFailure(r, req, status) ==
    IF RecordedKeys(cfg, SessionKeys(req)) # {}
    THEN G!RecordFailure(SessionKeys(req), InputHashes(req), status, r)
    ELSE UNCHANGED <<guardVars, now>>

\* Mutant of CollectBody: the body sent upstream, always.
CollectBody_Upstream(r, original) == Sent(r)

\* "The hash must be based on the client's original request", which the host
\* may leave out: then it is based on the body sent upstream.
CollectBody(r, original) == IF original THEN asked[r] ELSE Sent(r)

\* handleResponseInterceptAfter: the breaker hears of the request that was
\* sent upstream.
Response(r, original, fit) ==
    LET body == CollectBody(r, original)
        collect == fit /\ Cacheable(body)
    IN  /\ E!Response(r, original, collect)
        /\ RecordSuccess(Sent(r))
        /\ result' = [result EXCEPT ![r] = [status |-> 200, names |-> NoId]]
        /\ told_at' = [told_at EXCEPT ![r] = now]
        /\ Then(r, IF collect THEN [at |-> "sample", hash |-> body.probe] ELSE Resting)
        /\ UNCHANGED <<cfg, asked, made, before, probeVars>>

AddSample(r) ==
    /\ hook[r].at = "sample"
    /\ P!AddSample(hook[r].hash, r) \/ P!AddRefused(hook[r].hash)
    /\ Then(r, Resting)
    /\ UNCHANGED <<cfg, asked, result, made, before, told_at, engineVars, guardVars>>

ResponseDelete(r) ==
    /\ hook[r] = Resting
    /\ E!ResponseDelete(r)
    /\ EngineOnly

\* The ways a request ends other than by a response: as its upstream says, or
\* with the answer the plugin made.
UpstreamResults(req) ==
    [status : {0, 200} \cup Failure, names : {NoId}]
    \cup [status : Failure \cap {400}, names : Item \cap Range(ItemIds(req))]

Results(r) ==
    CASE made[r].by = "nobody" -> UpstreamResults(asked[r])
      [] made[r].by = "payload" -> {[status |-> 502, names |-> NoId]}
      [] made[r].by = "max_turns" -> {[status |-> 400, names |-> NoId]}
      [] made[r].by = "cache" -> {[status |-> 200, names |-> NoId]}
      [] OTHER -> {[status |-> made[r].status, names |-> result[made[r].of].names]}

\* The outcomes the host may report: a stream that broke off has failed with
\* the 2xx status of its headers, and an outcome nothing is made of (canceled,
\* or a failure that never had a status) is one without a status here.
OutcomesOf(res) ==
    IF res.status = 200 THEN {"succeeded", "broken"}
    ELSE IF res.status = 0 THEN {"other"} ELSE {"failed"}

End(r) ==
    /\ asked[r] # NotAsked
    /\ \E res \in Results(r) : \E o \in OutcomesOf(res) :
          /\ E!End(r, o)
          /\ result' = [result EXCEPT ![r] = res]
    /\ UNCHANGED <<cfg, asked, hook, made, before, told_at, guardVars, probeVars, now>>

\* handleRequestComplete: keys, input and hash are those of the pending entry.
EntryBody(r, p) == IF p.basis = "original" THEN asked[r] ELSE Sent(r)

\* RecordOutcome tells the breaker, for which a 2xx status is a success whatever
\* the outcome, and captures the item after that.
\* A text the probe cache does not take is here that of a stream without
\* frames.
CompleteRecord(r, d) ==
    /\ E!CompleteRecord(r, d, TRUE)
    /\ LET req == EntryBody(r, comp[r][d].info)
           ok == told'[r].oks # told[r].oks
           failed == told'[r].fails # told[r].fails
           sampled == told'[r].samples # told[r].samples
       IN  /\ \/ ok /\ RecordSuccess(req)
              \/ failed /\ RecordFailure(r, req, result[r].status)
              \/ ~ok /\ ~failed /\ UNCHANGED <<guardVars, now>>
           /\ Then(r, IF sampled THEN [at |-> "sample", hash |-> req.probe]
                      ELSE IF failed /\ NamesInvalidItem(result[r])
                      THEN [at |-> "mark", item |-> result[r].names]
                      ELSE Resting)
    /\ told_at' = [told_at EXCEPT ![r] = now]
    /\ UNCHANGED <<cfg, asked, result, made, before, probeVars>>

Mark(r) ==
    /\ hook[r].at = "mark"
    /\ G!MarkInvalidSet(r, hook[r].item, r)
    /\ Then(r, Resting)
    /\ UNCHANGED <<cfg, asked, result, made, before, told_at, engineVars, probeVars>>

SaveMark(r) ==
    /\ G!MarkInvalidSave(r)
    /\ UNCHANGED <<cfg, pluginVars, engineVars, probeVars>>

-----------------------------------------------------------------------------
\* The janitor and the lock of the state files aside, nothing waits for time.
Tick ==
    /\ now < MaxNow /\ now < MaxTime[cfg]
    /\ Cardinality({r \in Req : ~Quiet(r)}) <= MaxBusy[cfg]
    /\ now' = now + 1
    /\ UNCHANGED <<cfg, pluginVars, engineVars, guardVars, probeVars>>

InterceptBefore(r) ==
    \/ \E req \in Request[cfg] : AskRefused(r, req) \/ AskBlocked(r, req) \/ AskFurther(r, req)
    \/ ItemUnknown(r) \/ ItemRead(r) \/ ItemKnown(r) \/ ItemExpired(r)
    \/ Rewrite(r) \/ Skip(r) \/ Replay(r) \/ Miss(r)
    \/ E!BeforeInsert(r) /\ EngineOnly

Streaming(r) ==
    \/ HeaderInit(r)
    \/ E!HeaderInitInsert(r) /\ EngineOnly
    \/ \E n \in FrameLen : E!Chunk(r, n) /\ EngineOnly
    \/ E!ChunkAccumulate(r) /\ EngineOnly

Responding(r) ==
    \/ \E original \in Original, fit \in BOOLEAN : Response(r, original, fit)
    \/ ResponseDelete(r)

Completing(r) ==
    \/ End(r)
    \/ \E d \in Delivery :
          \/ E!Deliver(r, d) /\ EngineOnly
          \/ E!CompleteTake(r, d) /\ EngineOnly
          \/ CompleteRecord(r, d)

Next ==
    \/ \E r \in Req :
          \/ InterceptBefore(r) \/ Streaming(r) \/ Responding(r) \/ Completing(r)
          \/ AddSample(r) \/ Mark(r) \/ SaveMark(r)
    \/ Tick

Spec == Init /\ [][Next]_vars

-----------------------------------------------------------------------------
(* Properties *)

Hooks ==
    {Resting} \cup [at : {"items"}, todo : Seq(Item \cup {NoId})]
    \cup [at : {"item"}, todo : Seq(Item \cup {NoId}), of : Req]
    \cup [at : {"sample"}, hash : Hash] \cup [at : {"mark"}, item : Item]

Answers ==
    {NotMade} \cup [by : {"payload", "max_turns"}] \cup [by : {"cache"}, of : Req, at : Nat]
    \cup [by : {"breaker", "signature"}, of : Req, status : Failure \cup {400}, at : Nat]

\* Every variable of the plugin and of its parts has its type.
TypeOK ==
    /\ cfg \in Config
    /\ \A r \in Req : asked[r] \in Request[cfg] \cup {NotAsked}
    /\ hook \in [Req -> Hooks]
    /\ made \in [Req -> Answers]
    /\ E!TypeOK
    /\ G!TypeOK
    /\ P!TypeOK

SentUpstream(r) == host[r].verdict \in {"rewrite", "track", "skip"}

Failed(r) == SentUpstream(r) /\ told[r].fails = 1

\* The two forms of a request whose outcome may have been recorded.
Forms(r) == {asked[r], Sent(r)}

\* The hash a sample of r is collected under: the one r was looked up with,
\* unless r was not filed by intercept_before, or came without its original.
KeyOf(r) ==
    IF \/ asked[r].stream /\ host[r].verdict = "track"
       \/ ~asked[r].stream /\ host[r].original
    THEN asked[r].probe ELSE Sent(r).probe

\* An earlier failure of a similar request, no older than CircuitTTL, that is
\* not the first of this session key.
BreakerJustified(r, m) ==
    /\ IsOn(cfg.fuzzy_circuit_breaker)
    /\ \E k \in CheckedKeys(asked[r]) : \E q \in Req \ {r, m.of} :
          /\ Failed(m.of) /\ result[m.of].status = m.status
          /\ m.at < told_at[m.of] + ParseDuration(CircuitTTL, DefaultTTL)
          /\ \E last \in Forms(m.of) :
                k \in SessionKeys(last) /\ G!Similar(InputHashes(asked[r]), InputHashes(last))
          /\ Failed(q) /\ \E first \in Forms(q) : k \in SessionKeys(first)

SignatureJustified(r, m) ==
    /\ IsOn(cfg.block_invalid_signatures)
    /\ m.of # r /\ Failed(m.of) /\ result[m.of].status = 400
    /\ result[m.of].names \in Range(ItemIds(asked[r]))

\* Enough earlier successes of requests with the same hash, one of them the
\* reply that is replayed.
CacheJustified(r, m) ==
    /\ IsOn(cfg.probe_cache_enabled)
    /\ LET alike == {q \in Req \ {r} : /\ SentUpstream(q) /\ host[q].outcome = "succeeded"
                                       /\ told[q].samples # <<>>
                                       /\ KeyOf(q) = asked[r].probe}
       IN  m.of \in alike /\ Cardinality(alike) >= MinSamples

\* Every answer the plugin makes itself (checker.go:53-123, engine.go:246) goes
\* back to what the upstream answered to other requests: of the same session
\* and similar, with the same dead item, or with the same hash.  An answer the
\* plugin made is never taken for one of the upstream's, so a breaker does not
\* keep itself tripped; and a rule that is off answers nothing.
AnswersJustified ==
    \A r \in Req :
        LET m == made[r]
        IN  /\ m.by = "payload" => asked[r].size > GetMaxPayloadBytes(cfg)
            /\ m.by = "max_turns" => IsOn(cfg.block_max_turns) /\ asked[r].max_turns
            /\ m.by = "breaker" => BreakerJustified(r, m)
            /\ m.by = "signature" => SignatureJustified(r, m)
            /\ m.by = "cache" => CacheJustified(r, m)

\* The session k of request r has been failing with the very input of r, and
\* with nothing else, when r was made.
KeepsFailing(r, k) ==
    LET others == {q \in before[r].told : \E form \in Forms(q) : k \in SessionKeys(form)}
    IN  /\ Cardinality(others) >= 2
        /\ \A q \in others :
              /\ Failed(q)
              /\ now < told_at[q] + ParseDuration(CircuitTTL, DefaultTTL)
              /\ \A form \in Forms(q) :
                    k \in SessionKeys(form) /\ InputHashes(form) = InputHashes(asked[r])

\* Item i was named by one failure, whose hooks had returned when r was made.
KnownDead(r, i) ==
    \E q \in before[r].done :
        /\ {x \in Req : Failed(x) /\ NamesInvalidItem(result[x]) /\ result[x].names = i} = {q}
        /\ now < told_at[q] + ParseDuration(ItemTTL, DefaultTTL)

\* What is known to fail is not sent upstream (README.md:16-18, 25): a request
\* of a session that failed twice with its input, and one with an item that the
\* upstream could not verify, by whatever way the failures became known.
RefusesKnownBad ==
    \A r \in Req : SentUpstream(r) /\ asked[r].json =>
        /\ IsOn(cfg.fuzzy_circuit_breaker) /\ InputHashes(asked[r]) # <<>>
              => \A k \in CheckedKeys(asked[r]) : ~KeepsFailing(r, k)
        /\ IsOn(cfg.block_invalid_signatures)
              => \A i \in Range(ItemIds(asked[r])) : ~KnownDead(r, i)

\* The replies the pool took for hash h: their places in its log.
Accepted(h) == {n \in DOMAIN probeLog : probeLog[n].kind = "add" /\ KeyOf(probeLog[n].reply) = h}

\* Once MinSamples replies were taken under a question's hash, and while none
\* of them is old, nobody who asks that question is sent upstream
\* (engine.go:245-263), unless the request is rewritten first.  Which hash a
\* reply was taken under is KeyOf: a reply the host passed without the original
\* body does not count for the question it answered, when the body sent
\* upstream asks another.
WarmPoolAnswers ==
    \A r \in Req : SentUpstream(r) /\ host[r].verdict # "rewrite" /\ Cacheable(asked[r]) =>
        LET taken == {n \in Accepted(asked[r].probe) : probeLog[n].reply \in before[r].done}
        IN  ~ /\ Cardinality(taken) >= MinSamples
              /\ \A n \in Accepted(asked[r].probe) :
                    now < probeLog[n].at + ParseDuration(ProbeTTL, DefaultTTL)
=============================================================================
