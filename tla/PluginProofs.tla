---------------------------- MODULE PluginProofs ----------------------------
(***************************************************************************)
(* Theorems about Plugin, for every set of requests, configuration and     *)
(* bound: what the plugin does to the pending map and to the two stores    *)
(* are behaviours of Engine, GuardStore and ProbeStore, so what was proved *)
(* of these components holds inside the plugin; and its types.             *)
(*                                                                         *)
(* EP, GP and PP are the proof modules of the components, instantiated as  *)
(* Plugin instantiates the components.                                     *)
(***************************************************************************)
EXTENDS Plugin, TLAPS

EP == INSTANCE EngineProofs

GP == INSTANCE GuardStoreProofs WITH
    ThresholdNum <- Threshold.num, ThresholdDen <- Threshold.den,
    Status <- Failure \cup {200}, Payload <- Req, JSONPayload <- Req, Thread <- Req,
    TTL <- ParseDuration(ItemTTL, DefaultTTL),
    CircuitTTL <- ParseDuration(CircuitTTL, DefaultTTL),
    Lag <- 0, DiskFaults <- FALSE,
    isDirty <- guardDirty, file <- guardFile, lastSave <- guardSave, log <- guardLog

PP == INSTANCE ProbeStoreReplayProofs WITH
    Reply <- Req, JSONReply <- Req, TTL <- ParseDuration(ProbeTTL, DefaultTTL),
    DiskFaults <- FALSE,
    isDirty <- probeDirty, file <- probeFile, answer <- given, lastSave <- probeSave,
    log <- probeLog

-----------------------------------------------------------------------------
(* The constants of the components                                          *)

LEMMA Durations ==
    ASSUME NEW d \in {ItemTTL, CircuitTTL, ProbeTTL}
    PROVE  ParseDuration(d, DefaultTTL) \in Nat \ {0}
  <1>1. /\ {ItemTTL, CircuitTTL, ProbeTTL, ThresholdNum} \subseteq Int
        /\ {Cap, MinSamples, MaxEntries, DefaultTTL, ThresholdDen} \subseteq Nat \ {0}
    BY PluginAssumption, Zenon
  <1> QED BY <1>1 DEF ParseDuration

LEMMA SamplesPositive == MinSamples \in Nat \ {0}
  <1>1. {Cap, MinSamples, MaxEntries, DefaultTTL, ThresholdDen} \subseteq Nat \ {0}
    BY PluginAssumption, Zenon
  <1> QED BY <1>1

LEMMA ThresholdInRange ==
    Threshold.den \in Nat \ {0} /\ Threshold.num \in 1..Threshold.den
  <1>1. ThresholdNum \in Int /\ ThresholdDen \in Nat \ {0}
    BY PluginAssumption
  <1> QED BY <1>1 DEF Threshold, SimilarityThreshold

LEMMA EngineConstants == EP!EngineAssumption
  BY PluginAssumption DEF EP!EngineAssumption

LEMMA GuardStoreConstants == GP!GuardStoreAssumption /\ GP!ThresholdAssumption
  <1>1. Failure \subseteq Nat /\ {MaxNow, MaxEvents} \subseteq Nat
    BY PluginAssumption
  <1> QED
    BY <1>1, Durations, ThresholdInRange DEF GP!GuardStoreAssumption, GP!ThresholdAssumption

LEMMA ProbeStoreConstants == PP!ProbeStoreAssumption
  BY PluginAssumption, Durations DEF PP!ProbeStoreAssumption

-----------------------------------------------------------------------------
(* The steps of the plugin                                                  *)

\* The actions of one request that are more than a section of Engine.
OwnStep(r) ==
    \/ \E req \in Request[cfg] : AskRefused(r, req) \/ AskBlocked(r, req) \/ AskFurther(r, req)
    \/ ItemUnknown(r) \/ ItemRead(r) \/ ItemKnown(r) \/ ItemExpired(r)
    \/ Rewrite(r) \/ Skip(r) \/ Replay(r) \/ Miss(r)
    \/ HeaderInit(r)
    \/ \E original \in Original, fit \in BOOLEAN : Response(r, original, fit)
    \/ End(r) \/ \E d \in Delivery : CompleteRecord(r, d)
    \/ AddSample(r) \/ Mark(r) \/ SaveMark(r)

\* A section of Engine that the plugin adds nothing to.
BareStep(r) ==
    \/ E!BeforeInsert(r) \/ E!HeaderInitInsert(r) \/ E!ChunkAccumulate(r)
    \/ (hook[r] = Resting /\ E!ResponseDelete(r))
    \/ \E n \in FrameLen : E!Chunk(r, n)
    \/ \E d \in Delivery : E!Deliver(r, d) \/ E!CompleteTake(r, d)

LEMMA Steps ==
    ASSUME Next
    PROVE  \/ \E r \in Req : OwnStep(r)
           \/ EngineOnly /\ \E r \in Req : BareStep(r)
           \/ Tick
  BY DEF Next, InterceptBefore, Streaming, Responding, Completing, ResponseDelete,
         OwnStep, BareStep

\* g is the map f, or f with another value at r.
Only(f, g, r) == g = f \/ \E x : g = [f EXCEPT ![r] = x]

LEMMA OnlyAt ==
    ASSUME NEW f, NEW g, NEW r, Only(f, g, r)
    PROVE  DOMAIN g = DOMAIN f /\ \A q \in DOMAIN f \ {r} : g[q] = f[q]
  BY DEF Only

\* A step of one request changes what the plugin knows of that request.
LEMMA OwnChanges ==
    ASSUME NEW r \in Req, OwnStep(r)
    PROVE  /\ cfg' = cfg
           /\ Only(asked, asked', r) /\ Only(hook, hook', r) /\ Only(result, result', r)
           /\ Only(made, made', r) /\ Only(told_at, told_at', r)
  <1> USE DEF Only, Then, pluginVars
  <1>1. ASSUME NEW req \in Request[cfg],
               AskRefused(r, req) \/ AskBlocked(r, req) \/ AskFurther(r, req)
        PROVE  /\ cfg' = cfg /\ result' = result /\ told_at' = told_at
               /\ Only(asked, asked', r) /\ Only(hook, hook', r) /\ Only(made, made', r)
    <2>1. cfg' = cfg /\ result' = result /\ told_at' = told_at /\ Only(asked, asked', r)
      BY <1>1 DEF AskRefused, AskBlocked, AskFurther, Asks
    <2>2. Only(hook, hook', r)
      BY <1>1 DEF AskRefused, AskBlocked, AskFurther, Answer
    <2>3. Only(made, made', r)
      BY <1>1 DEF AskRefused, AskBlocked, AskFurther, Answer
    <2> QED BY <2>1, <2>2, <2>3
  <1>2. CASE ItemUnknown(r) \/ ItemRead(r) \/ ItemExpired(r) \/ ItemKnown(r)
    BY <1>2 DEF ItemUnknown, ItemRead, ItemExpired, ItemKnown, Answer
  <1>3. CASE Rewrite(r) \/ Skip(r) \/ Replay(r) \/ Miss(r)
    BY <1>3 DEF Rewrite, Skip, Replay, Miss, Answer
  <1>4. CASE HeaderInit(r) \/ SaveMark(r)
    BY <1>4 DEF HeaderInit, EngineOnly, SaveMark
  <1>5. ASSUME NEW original \in Original, NEW fit \in BOOLEAN, Response(r, original, fit)
        PROVE  /\ cfg' = cfg /\ asked' = asked /\ made' = made
               /\ Only(hook, hook', r) /\ Only(result, result', r)
               /\ Only(told_at, told_at', r)
    BY <1>5 DEF Response
  <1>6. CASE End(r)
    BY <1>6 DEF End
  <1>7. ASSUME NEW d \in Delivery, CompleteRecord(r, d)
        PROVE  /\ cfg' = cfg /\ asked' = asked /\ made' = made /\ result' = result
               /\ Only(hook, hook', r) /\ Only(told_at, told_at', r)
    BY <1>7 DEF CompleteRecord
  <1>8. CASE AddSample(r) \/ Mark(r)
    BY <1>8 DEF AddSample, Mark
  <1> QED BY <1>1, <1>2, <1>3, <1>4, <1>5, <1>6, <1>7, <1>8 DEF OwnStep

LEMMA BareEngineStep ==
    ASSUME NEW r \in Req, BareStep(r)
    PROVE  E!Next
  BY DEF BareStep, E!Next, E!HostStep, E!HookStep, E!CompleteStep

-----------------------------------------------------------------------------
(* The plugin does to the pending map what Engine does                      *)

\* A request whose items are looked at is one of those clients make.
Shape ==
    /\ cfg \in Config
    /\ asked \in [Req -> Request[cfg] \cup {NotAsked}]
    /\ <<DOMAIN hook, DOMAIN result, DOMAIN made, DOMAIN told_at>> = <<Req, Req, Req, Req>>
    /\ \A r \in Req : hook[r].at \in {"items", "item"} => asked[r] \in Request[cfg]

LEMMA Requests ==
    ASSUME cfg \in Config, NEW b \in Request[cfg]
    PROVE  IsRequest(b) /\ IsRequest(Upstream[b]) /\ IsRequest(Upstream[Fixed(b)])
  <1>1. \A c \in Config : \A x \in Request[c] :
           IsRequest(x) /\ IsRequest(Upstream[x]) /\ IsRequest(Upstream[Fixed(x)])
    BY PluginAssumption
  <1> QED BY <1>1

LEMMA OwnEngineStep ==
    ASSUME Shape, NEW r \in Req, OwnStep(r)
    PROVE  E!Next \/ UNCHANGED engineVars
  <1>1. ASSUME NEW stream \in BOOLEAN, NEW v \in E!Verdict, E!Before(r, stream, v)
        PROVE  E!Next
    BY <1>1 DEF E!Next, E!HostStep
  <1>2. ASSUME NEW stream \in BOOLEAN, NEW m, Answer(r, stream, m)
        PROVE  E!Next
    BY <1>1, <1>2 DEF Answer, E!Verdict
  <1>3. ASSUME NEW req \in Request[cfg],
               AskRefused(r, req) \/ AskBlocked(r, req) \/ AskFurther(r, req)
        PROVE  E!Next \/ UNCHANGED engineVars
    <2>1. req.stream \in BOOLEAN
      BY Requests DEF Shape, IsRequest
    <2> QED BY <1>2, <1>3, <2>1 DEF AskRefused, AskBlocked, AskFurther
  <1>4. hook[r].at \in {"items", "item"} => asked[r].stream \in BOOLEAN
    BY Requests DEF Shape, IsRequest
  <1>5. CASE ItemUnknown(r) \/ ItemRead(r) \/ ItemExpired(r)
    BY <1>5 DEF ItemUnknown, ItemRead, ItemExpired
  <1>6. CASE ItemKnown(r)
    BY <1>2, <1>4, <1>6 DEF ItemKnown
  <1>7. CASE Rewrite(r) \/ Skip(r)
    BY <1>1, <1>4, <1>7 DEF Rewrite, Skip, Examined, E!Verdict
  <1>8. CASE Replay(r)
    BY <1>2, <1>4, <1>8 DEF Replay, LooksUp, Examined
  <1>9. CASE Miss(r)
    BY <1>1, <1>4, <1>9 DEF Miss, LooksUp, Examined, E!Verdict
  <1>10. CASE HeaderInit(r)
    <2>1. Cacheable(Sent(r)) \in BOOLEAN
      BY DEF Cacheable
    <2> QED BY <1>10, <2>1 DEF HeaderInit, E!Next, E!HostStep
  <1>11. ASSUME NEW original \in Original, NEW fit \in BOOLEAN, Response(r, original, fit)
         PROVE  E!Next
    <2>1. (fit /\ Cacheable(CollectBody(r, original))) \in BOOLEAN
      OBVIOUS
    <2> QED BY <1>11, <2>1 DEF Response, E!Next, E!HostStep
  <1>12. CASE End(r)
    BY <1>12 DEF End, OutcomesOf, E!Outcome, E!Next, E!HostStep
  <1>13. ASSUME NEW d \in Delivery, CompleteRecord(r, d)
         PROVE  E!Next
    BY <1>13 DEF CompleteRecord, E!Next, E!CompleteStep
  <1>14. CASE AddSample(r) \/ Mark(r) \/ SaveMark(r)
    BY <1>14 DEF AddSample, Mark, SaveMark
  <1> QED
    BY <1>3, <1>5, <1>6, <1>7, <1>8, <1>9, <1>10, <1>11, <1>12, <1>13, <1>14
    DEF OwnStep

LEMMA ShapeStep == Shape /\ [Next]_vars => Shape'
  <1> SUFFICES ASSUME Shape, [Next]_vars PROVE Shape'
    OBVIOUS
  <1>1. CASE UNCHANGED vars \/ Tick \/ EngineOnly
    BY <1>1 DEF Shape, vars, pluginVars, Tick, EngineOnly
  <1>2. ASSUME NEW r \in Req, OwnStep(r)
        PROVE  Shape'
    <2>0. <<DOMAIN hook', DOMAIN result', DOMAIN made', DOMAIN told_at'>> = <<Req, Req, Req, Req>>
      BY <1>2, OwnChanges, OnlyAt DEF Shape
    <2>1. ASSUME NEW step, Then(r, step), cfg' = cfg, asked' = asked,
                 step.at \in {"items", "item"} => asked[r] \in Request[cfg]
          PROVE  Shape'
      BY <2>0, <2>1 DEF Shape, Then
    <2>2. ASSUME NEW req \in Request[cfg], NEW step, Then(r, step), Asks(r, req)
          PROVE  Shape'
      BY <2>0, <2>2 DEF Shape, Then, Asks
    <2>3. ASSUME NEW req \in Request[cfg],
                 AskRefused(r, req) \/ AskBlocked(r, req) \/ AskFurther(r, req)
          PROVE  Shape'
      BY <2>2, <2>3 DEF AskRefused, AskBlocked, AskFurther, Answer
    <2>4. Resting.at = "idle"
      BY DEF Resting
    <2>5. CASE ItemUnknown(r) \/ ItemRead(r) \/ ItemExpired(r)
      BY <2>1, <2>5 DEF ItemUnknown, ItemRead, ItemExpired, Examines, Shape
    <2>6. CASE ItemKnown(r) \/ Rewrite(r) \/ Skip(r) \/ Replay(r) \/ Miss(r)
      BY <2>1, <2>4, <2>6 DEF ItemKnown, Rewrite, Skip, Replay, Miss, Answer
    <2>7. ASSUME NEW original \in Original, NEW fit \in BOOLEAN, Response(r, original, fit)
          PROVE  Shape'
      BY <2>1, <2>4, <2>7 DEF Response
    <2>8. ASSUME NEW d \in Delivery, CompleteRecord(r, d)
          PROVE  Shape'
      BY <2>1, <2>4, <2>8 DEF CompleteRecord
    <2>9. CASE AddSample(r) \/ Mark(r)
      BY <2>1, <2>4, <2>9 DEF AddSample, Mark
    <2>10. CASE HeaderInit(r) \/ End(r) \/ SaveMark(r)
      BY <2>0, <2>10 DEF HeaderInit, EngineOnly, End, SaveMark, pluginVars, Shape
    <2> QED
      BY <1>2, <2>3, <2>5, <2>6, <2>7, <2>8, <2>9, <2>10 DEF OwnStep
  <1> QED BY <1>1, <1>2, Steps

LEMMA ShapeInit == Init => Shape
  BY DEF Init, Shape, Resting

LEMMA ShapeHolds == Spec => []Shape
  BY ShapeInit, ShapeStep, PTL DEF Spec

\* Whatever the checker and the stores decide, the hooks of the plugin make the
\* steps of Engine (engine.go), so its theorems hold in the plugin.
THEOREM ImplementsEngine == Spec => E!Spec
  <1>1. Init => E!Init
    BY DEF Init
  <1>2. Shape /\ [Next]_vars => [E!Next]_(E!vars)
    <2>1. UNCHANGED engineVars => UNCHANGED E!vars
      BY DEF engineVars, E!vars
    <2>2. UNCHANGED vars \/ Tick => UNCHANGED engineVars
      BY DEF vars, Tick
    <2>3. ASSUME Shape, Next PROVE E!Next \/ UNCHANGED engineVars
      BY <2>2, <2>3, Steps, BareEngineStep, OwnEngineStep
    <2> QED BY <2>1, <2>2, <2>3
  <1> QED BY <1>1, <1>2, ShapeHolds, PTL DEF Spec, E!Spec

\* Engine and EngineProofs name the same actions.
LEMMA SameEngine == E!Spec => EP!Spec
  <1> USE DEF E!Without, EP!Without, E!Idle, EP!Idle, E!Return, EP!Return
  <1>1. E!Init => EP!Init
    <2> SUFFICES ASSUME E!Init PROVE EP!Init
      BY Zenon
    <2> QED BY Zenon DEF E!Init, EP!Init
  <1>2. ASSUME NEW r \in Req, E!HostStep(r)
        PROVE  EP!HostStep(r)
    BY <1>2, Zenon
    DEF E!HostStep, EP!HostStep, E!Verdict, EP!Verdict, E!Outcome, EP!Outcome,
        E!Before, EP!Before, E!HeaderInit, EP!HeaderInit, E!Chunk, EP!Chunk,
        E!Response, EP!Response, E!ResponseBasis, EP!ResponseBasis, E!End, EP!End, E!Deliver, EP!Deliver, E!Ended, EP!Ended
  <1>3. ASSUME NEW r \in Req, E!HookStep(r)
        PROVE  EP!HookStep(r)
    BY <1>3, Zenon
    DEF E!HookStep, EP!HookStep, E!BeforeInsert, EP!BeforeInsert,
        E!HeaderInitInsert, EP!HeaderInitInsert, E!ChunkAccumulate, EP!ChunkAccumulate,
        E!ChunkPanic, EP!ChunkPanic, E!ResponseDelete, EP!ResponseDelete,
        E!PutIfAbsent, EP!PutIfAbsent, E!NewInfo, EP!NewInfo,
        E!Accumulated, EP!Accumulated, E!Panics, EP!Panics, E!Fits, EP!Fits
  <1>4. ASSUME NEW r \in Req, NEW d \in Delivery, E!CompleteStep(r, d)
        PROVE  EP!CompleteStep(r, d)
    BY <1>4, Zenon
    DEF E!CompleteStep, EP!CompleteStep, E!CompleteTake, EP!CompleteTake,
        E!CompleteRecord, EP!CompleteRecord, E!Taken, EP!Taken,
        E!TellFailure, EP!TellFailure, E!TellSuccess, EP!TellSuccess,
        E!StreamSamples, EP!StreamSamples
  <1>5. E!Sweep \/ E!Tick => EP!Sweep \/ EP!Tick
    BY DEF E!Sweep, EP!Sweep, E!Stale, EP!Stale, E!Tick, EP!Tick
  <1>6. [E!Next]_(E!vars) => [EP!Next]_(EP!vars)
    BY <1>2, <1>3, <1>4, <1>5 DEF E!Next, EP!Next, E!vars, EP!vars
  <1> QED BY <1>1, <1>6, PTL DEF E!Spec, EP!Spec

LEMMA EngineHolds == Spec => [](EP!TypeOK /\ EP!Inv)
  BY ImplementsEngine, SameEngine, EngineConstants, EP!TypeCorrect, EP!InvHolds, PTL
-----------------------------------------------------------------------------
(* What the steps of Engine do, request by request                          *)

\* The pending entry of q stays as it is.
SameEntry(q) ==
    /\ q \in DOMAIN pending' <=> q \in DOMAIN pending
    /\ q \in DOMAIN pending => pending'[q] = pending[q]

EngineSame(q) ==
    /\ host'[q] = host[q] /\ call'[q] = call[q] /\ comp'[q] = comp[q]
    /\ told'[q] = told[q] /\ SameEntry(q)

OthersSame(r) == \A q \in Req \ {r} : EngineSame(q)

LEMMA BeforeDoes ==
    ASSUME EP!TypeOK, NEW r \in Req, NEW stream, NEW v, E!Before(r, stream, v)
    PROVE  /\ host[r].stage = "new"
           /\ host'[r].stage = IF v = "terminate" THEN "answered" ELSE "sent"
           /\ host'[r].stream = stream /\ host'[r].verdict = v
           /\ host'[r].outcome = "none"
           /\ call'[r].at = IF v = "track" THEN "insert" ELSE "idle"
           /\ comp'[r] = comp[r] /\ told'[r] = told[r] /\ SameEntry(r)
           /\ evicted' = evicted /\ OthersSame(r)
  BY DEF E!Before, EP!TypeOK, SameEntry, OthersSame, EngineSame

LEMMA HeaderInitDoes ==
    ASSUME EP!TypeOK, NEW r \in Req, NEW eligible, E!HeaderInit(r, eligible)
    PROVE  /\ host[r].stage = "sent" /\ host[r].stream
           /\ host'[r].stage = "streaming"
           /\ host'[r].stream = host[r].stream /\ host'[r].verdict = host[r].verdict
           /\ host'[r].outcome = host[r].outcome /\ host'[r].original = host[r].original
           /\ call'[r].at = IF eligible THEN "init" ELSE "idle"
           /\ comp'[r] = comp[r] /\ told'[r] = told[r] /\ SameEntry(r)
           /\ evicted' = evicted /\ OthersSame(r)
  BY DEF E!HeaderInit, EP!TypeOK, EP!HostState, SameEntry, OthersSame, EngineSame

LEMMA EndedIs ==
    ASSUME NEW h \in EP!HostState, NEW o
    PROVE  /\ E!Ended(h, o).stage = "ended" /\ E!Ended(h, o).outcome = o
           /\ E!Ended(h, o).stream = h.stream /\ E!Ended(h, o).verdict = h.verdict
           /\ E!Ended(h, o).original = h.original
  BY DEF E!Ended, EP!HostState

LEMMA Appended ==
    ASSUME NEW S, NEW s \in Seq(S), NEW x \in S
    PROVE  Append(s, x) # <<>>
  <1>1. Len(Append(s, x)) = Len(s) + 1 /\ Len(s) \in Nat /\ Len(<<>>) = 0
    OBVIOUS
  <1> QED BY <1>1

LEMMA ResponseDoes ==
    ASSUME EP!TypeOK, NEW r \in Req, NEW original, NEW collect,
           E!Response(r, original, collect)
    PROVE  /\ host[r].stage = "sent" /\ ~host[r].stream
           /\ host'[r].stage = "ended" /\ host'[r].outcome = "succeeded"
           /\ host'[r].stream = host[r].stream /\ host'[r].verdict = host[r].verdict
           /\ host'[r].original = original
           /\ call[r].at = "idle" /\ call'[r].at = "delete"
           /\ told'[r].oks = told[r].oks + 1 /\ told'[r].fails = told[r].fails
           /\ collect => told'[r].samples # <<>>
           /\ ~collect => told'[r].samples = told[r].samples
           /\ comp'[r] = comp[r] /\ SameEntry(r)
           /\ evicted' = evicted /\ OthersSame(r)
  <1> DEFINE sample == [basis |-> E!ResponseBasis(original), whole |-> 0, cut |-> FALSE]
  <1> USE DEF E!Response, EP!TypeOK, E!Idle
  <1>1. host[r] \in EP!HostState /\ told[r] \in EP!Heard
    OBVIOUS
  <1>2. /\ host'[r] = [E!Ended(host[r], "succeeded") EXCEPT !.original = original]
        /\ call'[r].at = "delete"
    OBVIOUS
  <1>3. /\ told'[r].oks = told[r].oks + 1 /\ told'[r].fails = told[r].fails
        /\ told'[r].samples = IF collect
                THEN Append(told[r].samples, sample)
                ELSE told[r].samples
    OBVIOUS
  <1>4. collect => told'[r].samples # <<>>
    <2>1. sample \in EP!SampleRecord
      BY DEF EP!SampleRecord, E!ResponseBasis
    <2>2. told[r].samples \in Seq(EP!SampleRecord)
      BY <1>1 DEF EP!Heard
    <2> QED BY <1>3, <2>1, <2>2, Appended
  <1>5. OthersSame(r) /\ SameEntry(r) /\ comp'[r] = comp[r] /\ evicted' = evicted
    BY DEF OthersSame, EngineSame, SameEntry
  <1>6. host[r].stage = "sent" /\ ~host[r].stream /\ call[r].at = "idle"
    OBVIOUS
  <1>7. /\ host'[r].stage = "ended" /\ host'[r].outcome = "succeeded"
        /\ host'[r].stream = host[r].stream /\ host'[r].verdict = host[r].verdict
        /\ host'[r].original = original
    <2>1. PICK g : g = [E!Ended(host[r], "succeeded") EXCEPT !.original = original]
      OBVIOUS
    <2>0. host'[r] = g
      BY <1>2, <2>1, Zenon
    <2> HIDE DEF E!Response, EP!TypeOK
    <2>2. /\ g.stage = "ended" /\ g.outcome = "succeeded"
          /\ g.stream = host[r].stream /\ g.verdict = host[r].verdict
          /\ g.original = original
      BY <1>1, <2>1 DEF E!Ended, EP!HostState
    <2> QED BY <2>0, <2>2
  <1> QED BY <1>2, <1>3, <1>4, <1>5, <1>6, <1>7

LEMMA EndDoes ==
    ASSUME EP!TypeOK, NEW r \in Req, NEW o, E!End(r, o)
    PROVE  /\ host[r].stage \in {"sent", "streaming", "answered"}
           /\ host[r].stage = "sent" => o # "succeeded"
           /\ host'[r].stage = "ended" /\ host'[r].outcome = o
           /\ host'[r].stream = host[r].stream /\ host'[r].verdict = host[r].verdict
           /\ host'[r].original = host[r].original
           /\ call[r].at = "idle" /\ call'[r] = call[r]
           /\ comp'[r] = comp[r] /\ told'[r] = told[r] /\ SameEntry(r)
           /\ evicted' = evicted /\ OthersSame(r)
  <1>1. host[r] \in EP!HostState
    BY DEF EP!TypeOK
  <1>2. host'[r] = E!Ended(host[r], o)
    BY DEF E!End, EP!TypeOK
  <1>3. OthersSame(r) /\ SameEntry(r) /\ comp'[r] = comp[r] /\ told'[r] = told[r]
        /\ call'[r] = call[r] /\ evicted' = evicted
    BY DEF E!End, EP!TypeOK, OthersSame, EngineSame, SameEntry
  <1> QED BY <1>1, <1>2, <1>3, EndedIs DEF E!End, E!Idle

\* What the last section of request.complete does to request r, and to no other.
RecordStep(r, d) ==
    /\ comp[r][d].at = "record"
    /\ comp'[r][d].at = "returned"
    /\ \A e \in Delivery \ {d} : comp'[r][e] = comp[r][e]
    /\ host'[r] = host[r] /\ call'[r] = call[r] /\ SameEntry(r)
    /\ told'[r].oks = IF host[r].outcome \in {"succeeded", "broken"} THEN told[r].oks + 1
                      ELSE told[r].oks
    /\ told'[r].fails = IF host[r].outcome = "failed" THEN told[r].fails + 1
                        ELSE told[r].fails
    /\ told'[r].samples # told[r].samples =>
          /\ host[r].outcome = "succeeded" /\ comp[r][d].info.stream
          /\ told'[r].samples # <<>>
    /\ evicted' = evicted /\ OthersSame(r)

LEMMA CompleteRecordDoes ==
    ASSUME EP!TypeOK, NEW r \in Req, NEW d \in Delivery, E!CompleteRecord(r, d, TRUE)
    PROVE  RecordStep(r, d)
  <1> USE DEF E!CompleteRecord, EP!TypeOK
  <1>1. /\ comp[r][d].at = "record"
        /\ comp'[r][d].at = "returned"
        /\ \A e \in Delivery \ {d} : comp'[r][e] = comp[r][e]
        /\ host'[r] = host[r] /\ call'[r] = call[r] /\ evicted' = evicted
    OBVIOUS
  <1>2. OthersSame(r) /\ SameEntry(r)
    BY DEF OthersSame, EngineSame, SameEntry
  <1>3. told[r] \in EP!Heard
    OBVIOUS
  <1>4. /\ told'[r].oks = IF host[r].outcome \in {"succeeded", "broken"} THEN told[r].oks + 1
                          ELSE told[r].oks
        /\ told'[r].fails = IF host[r].outcome = "failed" THEN told[r].fails + 1
                            ELSE told[r].fails
        /\ told'[r].samples = IF host[r].outcome = "succeeded"
                              THEN told[r].samples \o E!StreamSamples(comp[r][d].info, TRUE)
                              ELSE told[r].samples
    BY DEF E!TellFailure, E!TellSuccess
  <1>5. told'[r].samples # told[r].samples =>
            host[r].outcome = "succeeded" /\ E!StreamSamples(comp[r][d].info, TRUE) # <<>>
    <2>1. told[r].samples \in Seq(EP!SampleRecord)
      BY <1>3 DEF EP!Heard
    <2>2. told[r].samples \o <<>> = told[r].samples
      BY <2>1
    <2> QED BY <1>4, <2>2
  <1>6. E!StreamSamples(comp[r][d].info, TRUE) # <<>> =>
            /\ comp[r][d].info.stream
            /\ told[r].samples \o E!StreamSamples(comp[r][d].info, TRUE) # <<>>
    BY <1>3 DEF EP!Heard, E!StreamSamples
  <1> QED BY <1>1, <1>2, <1>4, <1>5, <1>6 DEF RecordStep

-----------------------------------------------------------------------------
(* The order of the steps of one request                                    *)

Asked(q) == asked[q] \in Request[cfg]

\* What the hook call of q does next, by what the host knows of q.
HookOrder(q) ==
    /\ hook[q] = Resting \/ hook[q].at \in {"items", "item", "sample", "mark"}
    /\ hook[q].at \in {"items", "item"} => host[q].stage = "new" /\ hook[q].todo \in Seq(Item)
    /\ hook[q].at \in {"sample", "mark"} => Told(q)
    /\ hook[q].at = "sample" => hook[q].hash \in Hash
    /\ hook[q].at = "mark" => hook[q].item \in Item

HostOrder(q) ==
    /\ host[q].stage = "new" => host[q].verdict = "none"
    /\ host[q].stage # "new" =>
          Asked(q) /\ host[q].stream = asked[q].stream /\ host[q].verdict # "none"
    /\ host[q].stage \in {"sent", "streaming"} => SentUpstream(q)

\* An answer of the plugin is not one of the upstream, and leaves no trace in
\* the pending map.
AnswerOrder(q) ==
    /\ host[q].verdict # "terminate" => made[q] = NotMade
    /\ host[q].verdict = "terminate" =>
          /\ host[q].stage \in {"answered", "ended"}
          /\ call[q].at = "idle" /\ q \notin DOMAIN pending /\ ~Told(q)
          /\ \A d \in Delivery : comp[q][d].at # "record"

ResultOrder(q) ==
    host[q].stage = "ended" =>
        /\ host[q].outcome \in OutcomesOf(result[q])
        /\ SentUpstream(q) => /\ result[q].status \in {0, 200} \cup Failure
                              /\ result[q].names \in Item \cup {NoId}

\* The body an entry was filed with is one the probe cache takes.
FiledAs(q, p) ==
    IF p.basis = "original" THEN host[q].verdict = "track"
    ELSE SentUpstream(q) /\ host[q].verdict # "track" /\ asked[q].stream /\ Sent(q).probe \in Hash

EntryOrder(q) ==
    /\ host[q].verdict = "track" => asked[q].probe \in Hash
    /\ call[q].at = "insert" => host[q].verdict = "track"
    /\ call[q].at = "init" => host[q].stream /\ Sent(q).probe \in Hash
    /\ q \in DOMAIN pending => FiledAs(q, pending[q])
    /\ \A d \in Delivery : comp[q][d].at = "record" => FiledAs(q, comp[q][d].info)

OrderOf(q) ==
    HookOrder(q) /\ HostOrder(q) /\ AnswerOrder(q) /\ ResultOrder(q) /\ EntryOrder(q)

Order == evicted = {} /\ \A q \in Req : OrderOf(q)

PluginSame(q) ==
    /\ asked'[q] = asked[q] /\ hook'[q] = hook[q] /\ result'[q] = result[q]
    /\ made'[q] = made[q] /\ told_at'[q] = told_at[q]

LEMMA OrderFrame ==
    ASSUME NEW q \in Req, OrderOf(q), cfg' = cfg, PluginSame(q), EngineSame(q)
    PROVE  OrderOf(q)'
  <1> USE DEF PluginSame, EngineSame
  <1>1. /\ Asked(q)' = Asked(q) /\ Sent(q)' = Sent(q) /\ Told(q)' = Told(q)
        /\ SentUpstream(q)' = SentUpstream(q)
    BY DEF Asked, Sent, Told, SentUpstream
  <1>2. HookOrder(q)' /\ HostOrder(q)'
    BY <1>1 DEF OrderOf, HookOrder, HostOrder
  <1>3. AnswerOrder(q)' /\ ResultOrder(q)'
    BY <1>1 DEF OrderOf, AnswerOrder, ResultOrder, SameEntry
  <1>4. ASSUME NEW p, FiledAs(q, p) PROVE FiledAs(q, p)'
    BY <1>1, <1>4 DEF FiledAs
  <1>5. EntryOrder(q)'
    BY <1>1, <1>4 DEF OrderOf, EntryOrder, SameEntry
  <1> QED BY <1>2, <1>3, <1>5 DEF OrderOf

LEMMA OthersPluginSame ==
    ASSUME Shape, NEW r \in Req, OwnStep(r), NEW q \in Req \ {r}
    PROVE  PluginSame(q)
  BY OwnChanges, OnlyAt DEF Shape, PluginSame

\* Entries are filed, kept and handed on as they are.
LEMMA FiledKept ==
    ASSUME NEW q \in Req, EntryOrder(q), Asked(q), cfg' = cfg, asked'[q] = asked[q],
           host'[q].verdict = host[q].verdict, host'[q].stream = host[q].stream,
           call'[q].at \in {"insert", "init"} => call'[q].at = call[q].at,
           q \in DOMAIN pending' =>
               \/ q \in DOMAIN pending /\ pending'[q].basis = pending[q].basis
               \/ FiledAs(q, pending'[q]),
           \A d \in Delivery : comp'[q][d].at = "record" =>
               \/ comp'[q][d] = comp[q][d]
               \/ FiledAs(q, comp'[q][d].info)
    PROVE  EntryOrder(q)'
  <1>1. Sent(q)' = Sent(q) /\ SentUpstream(q)' = SentUpstream(q)
    BY DEF Sent, SentUpstream
  <1>3. q \in DOMAIN pending' => FiledAs(q, pending[q])'
    BY <1>1 DEF EntryOrder, FiledAs
  <1>4. ASSUME NEW d \in Delivery, comp'[q][d].at = "record"
        PROVE  FiledAs(q, comp[q][d].info)'
    BY <1>1, <1>4 DEF EntryOrder, FiledAs
  <1> QED BY <1>1, <1>3, <1>4 DEF EntryOrder

LEMMA BareDoes ==
    ASSUME EP!TypeOK, NEW r \in Req, BareStep(r)
    PROVE  /\ OthersSame(r) /\ evicted' = evicted /\ told'[r] = told[r]
           /\ host'[r].stage = host[r].stage /\ host'[r].verdict = host[r].verdict
           /\ host'[r].stream = host[r].stream /\ host'[r].outcome = host[r].outcome
           /\ host'[r].original = host[r].original
  <1> DEFINE same == /\ OthersSame(r) /\ evicted' = evicted /\ told'[r] = told[r]
                     /\ host'[r].stage = host[r].stage /\ host'[r].verdict = host[r].verdict
                     /\ host'[r].stream = host[r].stream /\ host'[r].outcome = host[r].outcome
                     /\ host'[r].original = host[r].original
  <1> USE DEF EP!TypeOK, OthersSame, EngineSame, SameEntry, E!Return
  <1>1. ASSUME E!BeforeInsert(r) \/ E!HeaderInitInsert(r)
        PROVE  same
    BY <1>1 DEF E!BeforeInsert, E!HeaderInitInsert, E!PutIfAbsent
  <1>2. ASSUME E!ChunkAccumulate(r) PROVE same
    BY <1>2 DEF E!ChunkAccumulate
  <1>3. ASSUME E!ResponseDelete(r) PROVE same
    BY <1>3 DEF E!ResponseDelete, E!Without
  <1>4. ASSUME NEW n \in FrameLen, E!Chunk(r, n)
        PROVE  same
    BY <1>4 DEF E!Chunk, EP!HostState
  <1>5. ASSUME NEW d \in Delivery, E!Deliver(r, d) \/ E!CompleteTake(r, d)
        PROVE  same
    BY <1>5 DEF E!Deliver, E!CompleteTake, E!Without
  <1> HIDE DEF same, EP!TypeOK, OthersSame, EngineSame, SameEntry, E!Return
  <1>6. same
    BY <1>1, <1>2, <1>3, <1>4, <1>5 DEF BareStep
  <1> QED BY <1>6 DEF same

\* header-init files nothing anew that intercept_before tracked.
LEMMA InitNotTracked ==
    ASSUME EP!TypeOK, EP!Inv, Order, NEW r \in Req, call[r].at = "init", r \notin DOMAIN pending
    PROVE  host[r].verdict # "track" /\ SentUpstream(r) /\ Asked(r)
  <1>1. host[r].stage = "streaming" /\ EP!TrackedKept(r) /\ EP!InOrder(r)
    BY DEF EP!Inv, EP!InvOf, EP!InOrder
  <1>2. EP!NotTaken(r) /\ host[r].outcome = "none"
    BY <1>1 DEF EP!InOrder, EP!NotTaken
  <1>3. told[r].oks # 1
    BY <1>2 DEF EP!Inv, EP!InvOf, EP!OneTeller
  <1> QED BY <1>1, <1>2, <1>3 DEF EP!TrackedKept, Order, OrderOf, HostOrder

LEMMA BareOrderStep ==
    ASSUME EP!TypeOK, EP!Inv, Order, NEW r \in Req, BareStep(r), EngineOnly
    PROVE  Order'
  <1>1. cfg' = cfg /\ \A q \in Req : PluginSame(q)
    BY DEF EngineOnly, pluginVars, PluginSame
  <1>2. \A q \in Req \ {r} : OrderOf(q)'
    BY <1>1, BareDoes, OrderFrame DEF OthersSame, Order
  <1>3. /\ OrderOf(r) /\ EP!InOrder(r) /\ host[r] \in EP!HostState
        /\ PluginSame(r)
    BY <1>1 DEF Order, EP!Inv, EP!InvOf, EP!TypeOK
  <1>4. /\ Asked(r)' = Asked(r) /\ Sent(r)' = Sent(r) /\ Told(r)' = Told(r)
        /\ SentUpstream(r)' = SentUpstream(r)
    BY <1>1, <1>3, BareDoes DEF Asked, Sent, Told, SentUpstream, PluginSame
  <1>5. HookOrder(r)' /\ HostOrder(r)' /\ ResultOrder(r)'
    BY <1>1, <1>3, <1>4, BareDoes
    DEF OrderOf, HookOrder, HostOrder, ResultOrder, PluginSame
  <1>6. host[r].stage # "new"
    BY <1>3 DEF BareStep, E!BeforeInsert, E!HeaderInitInsert, E!ChunkAccumulate,
                E!ResponseDelete, E!Chunk, E!Deliver, E!CompleteTake, EP!InOrder
  <1> DEFINE CallKept == call'[r].at \in {"insert", "init"} => call'[r].at = call[r].at
             EntryFiled == r \in DOMAIN pending' =>
                               \/ r \in DOMAIN pending /\ pending'[r].basis = pending[r].basis
                               \/ FiledAs(r, pending'[r])
             CompFiled == \A d \in Delivery : comp'[r][d].at = "record" =>
                               \/ comp'[r][d] = comp[r][d]
                               \/ FiledAs(r, comp'[r][d].info)
             Answered == host[r].verdict = "terminate" =>
                            /\ call'[r].at = "idle" /\ r \notin DOMAIN pending'
                            /\ \A d \in Delivery : comp'[r][d].at # "record"
  <1>7. CallKept /\ EntryFiled /\ CompFiled /\ Answered
    <2> USE DEF EP!TypeOK, E!Return
    <2>0. Answered \/ host[r].verdict = "terminate"
      OBVIOUS
    <2>1. CASE E!BeforeInsert(r)
      <3>1. EntryFiled
        BY <1>3, <2>1 DEF E!BeforeInsert, E!PutIfAbsent, E!NewInfo, FiledAs, OrderOf, EntryOrder
      <3>2. CallKept /\ CompFiled /\ Answered
        BY <1>3, <2>1 DEF E!BeforeInsert, OrderOf, AnswerOrder
      <3> QED BY <3>1, <3>2
    <2>2. CASE E!HeaderInitInsert(r)
      <3>1. EntryFiled
        <4>1. r \notin DOMAIN pending =>
                /\ host[r].verdict # "track" /\ SentUpstream(r) /\ Asked(r)
                /\ host[r].stream /\ Sent(r).probe \in Hash /\ host[r].stream = asked[r].stream
          BY <1>3, <1>6, <2>2, InitNotTracked DEF E!HeaderInitInsert, OrderOf, EntryOrder, HostOrder
        <4> QED BY <1>3, <2>2, <4>1 DEF E!HeaderInitInsert, E!PutIfAbsent, E!NewInfo, FiledAs
      <3>2. CallKept /\ CompFiled /\ Answered
        BY <1>3, <2>2 DEF E!HeaderInitInsert, OrderOf, AnswerOrder
      <3> QED BY <3>1, <3>2
    <2>3. CASE E!ChunkAccumulate(r)
      <3>1. EntryFiled
        BY <1>3, <2>3 DEF E!ChunkAccumulate, E!Accumulated
      <3>2. CallKept /\ CompFiled /\ Answered
        BY <1>3, <2>3 DEF E!ChunkAccumulate, OrderOf, AnswerOrder
      <3> QED BY <3>1, <3>2
    <2>4. CASE E!ResponseDelete(r)
      <3>1. EntryFiled
        BY <1>3, <2>4 DEF E!ResponseDelete, E!Without
      <3>2. CallKept /\ CompFiled /\ Answered
        BY <1>3, <2>4 DEF E!ResponseDelete, OrderOf, AnswerOrder
      <3> QED BY <3>1, <3>2
    <2>5. ASSUME NEW n \in FrameLen, E!Chunk(r, n)
          PROVE  CallKept /\ EntryFiled /\ CompFiled /\ Answered
      <3>1. host[r].verdict # "terminate"
        BY <1>3, <2>5 DEF E!Chunk, OrderOf, HostOrder, SentUpstream
      <3> QED BY <2>5, <3>1 DEF E!Chunk
    <2>6. ASSUME NEW d \in Delivery, E!Deliver(r, d)
          PROVE  CallKept /\ EntryFiled /\ CompFiled /\ Answered
      <3>1. \A e \in Delivery : comp'[r][e].at = "record" => comp'[r][e] = comp[r][e]
        BY <2>6 DEF E!Deliver
      <3> QED BY <1>3, <2>6, <3>1 DEF E!Deliver, OrderOf, AnswerOrder
    <2>7. ASSUME NEW d \in Delivery, E!CompleteTake(r, d)
          PROVE  CallKept /\ EntryFiled /\ CompFiled /\ Answered
      <3>0. E!Taken(r) = EP!Taken(r)
        BY Zenon DEF E!Taken, EP!Taken
      <3>3. r \in DOMAIN pending => EP!Taken(r).info.basis = pending[r].basis
        BY <1>3, EngineConstants, EP!TakenEntry
      <3>1. \A e \in Delivery : comp'[r][e].at = "record" =>
               \/ comp'[r][e] = comp[r][e]
               \/ r \in DOMAIN pending /\ comp'[r][e].info.basis = pending[r].basis
        <4>1. comp' = [comp EXCEPT ![r][d] = EP!Taken(r)]
          BY <2>7, <3>0 DEF E!CompleteTake
        <4>2. r \notin DOMAIN pending => EP!Taken(r).at = "returned"
          BY DEF EP!Taken
        <4> QED BY <3>3, <4>1, <4>2
      <3>2. call' = call /\ r \notin DOMAIN pending'
        BY <2>7 DEF E!CompleteTake, E!Without
      <3>4. CompFiled
        BY <1>3, <3>1 DEF OrderOf, EntryOrder, FiledAs
      <3>5. CallKept /\ EntryFiled
        BY <3>2
      <3>6. Answered
        BY <1>3, <3>1, <3>2 DEF OrderOf, AnswerOrder
      <3> QED BY <3>4, <3>5, <3>6
    <2> QED BY <2>1, <2>2, <2>3, <2>4, <2>5, <2>6, <2>7 DEF BareStep
  <1>8. AnswerOrder(r)'
    BY <1>3, <1>4, <1>7, BareDoes DEF OrderOf, AnswerOrder, PluginSame
  <1>9. EntryOrder(r)'
    <2>1. EntryOrder(r) /\ Asked(r) /\ asked'[r] = asked[r]
      BY <1>3, <1>6 DEF OrderOf, HostOrder, PluginSame
    <2> QED BY <1>1, <1>7, <2>1, BareDoes, FiledKept
  <1> QED BY <1>2, <1>5, <1>8, <1>9, BareDoes DEF Order, OrderOf

\* A request that has not ended has left no trace.
LEMMA NotEnded ==
    ASSUME EP!TypeOK, EP!Inv, NEW r \in Req, host[r].stage # "ended"
    PROVE  /\ ~Told(r) /\ told[r].oks = 0 /\ told[r].fails = 0 /\ told[r].samples = <<>>
           /\ \A d \in Delivery : comp[r][d].at = "unsent"
           /\ host[r].stage = "new" => r \notin DOMAIN pending
  <1>1. EP!InOrder(r) /\ EP!OneTeller(r)
    BY DEF EP!Inv, EP!InvOf
  <1>2. told[r].oks = 0 /\ told[r].fails = 0 /\ told[r].samples = <<>>
    BY <1>1, EngineConstants, EP!NoSample
  <1> QED BY <1>1, <1>2 DEF EP!InOrder, Told

\* The last section of intercept_before.
LEMMA BeforeOrder ==
    ASSUME EP!TypeOK, EP!Inv, Order, NEW r \in Req, NEW v \in E!Verdict,
           E!Before(r, asked'[r].stream, v), cfg' = cfg, Asked(r)', hook'[r] = Resting,
           v # "terminate" => made'[r] = made[r],
           v = "track" => asked'[r].probe \in Hash
    PROVE  OrderOf(r)'
  <1>1. /\ host[r].stage = "new"
        /\ host'[r].stage = IF v = "terminate" THEN "answered" ELSE "sent"
        /\ host'[r].stream = asked'[r].stream /\ host'[r].verdict = v
        /\ call'[r].at = IF v = "track" THEN "insert" ELSE "idle"
        /\ comp'[r] = comp[r] /\ told'[r] = told[r] /\ SameEntry(r)
    BY BeforeDoes
  <1>2. /\ ~Told(r)' /\ r \notin DOMAIN pending'
        /\ \A d \in Delivery : comp'[r][d].at = "unsent"
    BY <1>1, NotEnded DEF SameEntry, Told
  <1>3. host[r].verdict = "none" /\ made[r] = NotMade
    BY <1>1 DEF Order, OrderOf, HostOrder, AnswerOrder
  <1>4. HookOrder(r)'
    BY DEF HookOrder, Resting
  <1>5. HostOrder(r)'
    BY <1>1 DEF HostOrder, SentUpstream, E!Verdict
  <1>6. AnswerOrder(r)' /\ ResultOrder(r)'
    BY <1>1, <1>2, <1>3 DEF AnswerOrder, ResultOrder
  <1>7. EntryOrder(r)'
    BY <1>1, <1>2 DEF EntryOrder
  <1> QED BY <1>4, <1>5, <1>6, <1>7 DEF OrderOf

LEMMA Probes ==
    ASSUME cfg \in Config, NEW b \in Request[cfg]
    PROVE  /\ Cacheable(b) => b.probe \in Hash
           /\ Cacheable(Upstream[b]) => Upstream[b].probe \in Hash
           /\ Cacheable(Upstream[Fixed(b)]) => Upstream[Fixed(b)].probe \in Hash
  BY Requests DEF Cacheable, Eligible, IsRequest

\* A step of intercept_before that ends it.
LEMMA InterceptOrder ==
    ASSUME EP!TypeOK, EP!Inv, Shape, Order, NEW r \in Req,
           \/ \E req \in Request[cfg] : AskRefused(r, req) \/ AskBlocked(r, req)
           \/ ItemKnown(r) \/ Rewrite(r) \/ Skip(r) \/ Replay(r) \/ Miss(r)
    PROVE  OthersSame(r) /\ evicted' = evicted /\ OrderOf(r)'
  <1> DEFINE Before(v) == /\ E!Before(r, asked'[r].stream, v) /\ hook'[r] = Resting
                          /\ v # "terminate" => made'[r] = made[r]
                          /\ v = "track" => asked'[r].probe \in Hash
  <1>1. DOMAIN hook = Req /\ DOMAIN asked = Req /\ cfg \in Config
    BY DEF Shape
  <1>2. ASSUME NEW req \in Request[cfg], AskRefused(r, req) \/ AskBlocked(r, req)
        PROVE  cfg' = cfg /\ Asked(r)' /\ Before("terminate")
    BY <1>1, <1>2 DEF AskRefused, AskBlocked, Asks, Answer, Then, Asked
  <1>3. hook[r].at \in {"items", "item"} => Asked(r)
    BY DEF Shape, Asked
  <1>4. CASE ItemKnown(r)
    <2>1. cfg' = cfg /\ Asked(r)' /\ Before("terminate")
      BY <1>1, <1>3, <1>4 DEF ItemKnown, Answer, Then, Asked
    <2> QED BY <2>1, BeforeOrder, BeforeDoes DEF E!Verdict
  <1>5. CASE Rewrite(r)
    <2>1. cfg' = cfg /\ Asked(r)' /\ Before("rewrite")
      BY <1>1, <1>3, <1>5 DEF Rewrite, Examined, Then, Asked
    <2> QED BY <2>1, BeforeOrder, BeforeDoes DEF E!Verdict
  <1>6. CASE Skip(r)
    <2>1. cfg' = cfg /\ Asked(r)' /\ Before("skip")
      BY <1>1, <1>3, <1>6 DEF Skip, Examined, Then, Asked
    <2> QED BY <2>1, BeforeOrder, BeforeDoes DEF E!Verdict
  <1>7. CASE Replay(r)
    <2>1. cfg' = cfg /\ Asked(r)' /\ Before("terminate")
      BY <1>1, <1>3, <1>7 DEF Replay, LooksUp, Examined, Answer, Then, Asked
    <2> QED BY <2>1, BeforeOrder, BeforeDoes DEF E!Verdict
  <1>8. CASE Miss(r)
    <2>1. cfg' = cfg /\ Asked(r) /\ Cacheable(asked[r]) /\ asked' = asked
          /\ E!Before(r, asked[r].stream, "track") /\ hook'[r] = Resting /\ made' = made
      BY <1>1, <1>3, <1>8 DEF Miss, LooksUp, Examined, Then
    <2>2. Asked(r)' /\ Before("track")
      BY <1>1, <2>1, Probes DEF Asked
    <2> QED BY <2>1, <2>2, BeforeOrder, BeforeDoes DEF E!Verdict
  <1>9. ASSUME NEW req \in Request[cfg], AskRefused(r, req) \/ AskBlocked(r, req)
        PROVE  OthersSame(r) /\ evicted' = evicted /\ OrderOf(r)'
    BY <1>2, <1>9, BeforeOrder, BeforeDoes DEF E!Verdict
  <1> QED BY <1>4, <1>5, <1>6, <1>7, <1>8, <1>9

LEMMA TailIn ==
    ASSUME NEW S, NEW s \in Seq(S), s # <<>>
    PROVE  Head(s) \in S /\ Tail(s) \in Seq(S)
  OBVIOUS

LEMMA AskedFirst ==
    ASSUME Shape, Order, NEW r \in Req, asked[r] = NotAsked
    PROVE  host[r].stage = "new" /\ ~Asked(r)
  <1>1. ~Asked(r)
    BY Requests DEF Shape, Asked, IsRequest, NotAsked
  <1> QED BY <1>1 DEF Order, OrderOf, HostOrder

LEMMA IdsTyped ==
    ASSUME Shape, NEW req \in Request[cfg]
    PROVE  IdsToCheck(req) \in Seq(Item)
  BY Requests DEF Shape, IdsToCheck, ExaminedIds, IsRequest

\* A step of a request that the host waits for, or that no hook runs for any
\* more.
LEMMA HookOnlyOrder ==
    ASSUME EP!TypeOK, EP!Inv, Shape, Order, NEW r \in Req,
           \/ \E req \in Request[cfg] : AskFurther(r, req)
           \/ ItemUnknown(r) \/ ItemRead(r) \/ ItemExpired(r)
           \/ AddSample(r) \/ Mark(r) \/ SaveMark(r)
    PROVE  OthersSame(r) /\ evicted' = evicted /\ OrderOf(r)'
  <1>1. UNCHANGED engineVars /\ cfg' = cfg /\ result' = result /\ made' = made
    BY DEF AskFurther, Asks, ItemUnknown, ItemRead, ItemExpired, AddSample, Mark, SaveMark,
           pluginVars
  <1>2. OthersSame(r) /\ evicted' = evicted
    BY <1>1 DEF engineVars, OthersSame, EngineSame, SameEntry
  <1>3. OrderOf(r) /\ DOMAIN hook = Req /\ DOMAIN asked = Req
    BY DEF Order, Shape
  <1>4. ASSUME asked' = asked, HookOrder(r)' PROVE OrderOf(r)'
    <2>1. AnswerOrder(r)' /\ HostOrder(r)' /\ ResultOrder(r)'
      BY <1>1, <1>3, <1>4
      DEF OrderOf, AnswerOrder, HostOrder, ResultOrder, engineVars, SentUpstream, Told, Asked
    <2>2. EntryOrder(r)'
      BY <1>1, <1>3, <1>4 DEF OrderOf, EntryOrder, FiledAs, engineVars, Sent, SentUpstream
    <2> QED BY <1>4, <2>1, <2>2 DEF OrderOf
  <1>5. ASSUME hook'[r] = Resting PROVE HookOrder(r)'
    BY <1>5 DEF HookOrder, Resting
  <1>6. ASSUME NEW req \in Request[cfg], AskFurther(r, req)
        PROVE  OrderOf(r)'
    <2>1. host[r].stage = "new" /\ host'[r] = host[r]
      BY <1>1, <1>6, AskedFirst DEF AskFurther, Asks, engineVars
    <2>2. asked'[r] = req /\ hook'[r] = [at |-> "items", todo |-> IdsToCheck(req)]
      BY <1>3, <1>6 DEF AskFurther, Asks, Then, Examining
    <2>3. HookOrder(r)'
      BY <2>1, <2>2, IdsTyped DEF HookOrder
    <2>4. host[r].verdict = "none" /\ host'[r] = host[r]
      BY <1>3, <2>1 DEF OrderOf, HostOrder
    <2>5. AnswerOrder(r)' /\ HostOrder(r)' /\ ResultOrder(r)'
      BY <1>1, <1>3, <2>1, <2>4 DEF OrderOf, AnswerOrder, HostOrder, ResultOrder
    <2>6. /\ call'[r].at \notin {"insert", "init"} /\ r \notin DOMAIN pending'
          /\ \A d \in Delivery : comp'[r][d].at # "record"
      BY <1>1, <2>1, NotEnded DEF engineVars, EP!Inv, EP!InvOf, EP!InOrder
    <2>7. EntryOrder(r)'
      BY <2>4, <2>6 DEF EntryOrder
    <2> QED BY <2>3, <2>5, <2>7 DEF OrderOf
  <1>7. CASE ItemUnknown(r) \/ ItemRead(r) \/ ItemExpired(r)
    <2>1. hook[r].at \in {"items", "item"} /\ asked' = asked
      BY <1>7 DEF ItemUnknown, ItemRead, ItemExpired, Examines
    <2>2. host[r].stage = "new" /\ hook[r].todo \in Seq(Item)
      BY <1>3, <2>1 DEF OrderOf, HookOrder
    <2>3. /\ hook'[r].at \in {"items", "item"}
          /\ \/ hook'[r].todo = hook[r].todo
             \/ hook[r].todo # <<>> /\ hook'[r].todo = Tail(hook[r].todo)
      <3>1. CASE ItemUnknown(r)
        BY <1>3, <3>1 DEF ItemUnknown, Examines, Then, Examining
      <3>2. CASE ItemRead(r)
        BY <1>3, <3>2 DEF ItemRead, Examines, Then
      <3>3. CASE ItemExpired(r)
        BY <1>3, <3>3 DEF ItemExpired, Then, Examining
      <3> QED BY <1>7, <3>1, <3>2, <3>3
    <2>4. hook'[r].todo \in Seq(Item)
      BY <2>2, <2>3, TailIn
    <2>5. HookOrder(r)'
      BY <1>1, <2>2, <2>3, <2>4 DEF HookOrder, engineVars
    <2> QED BY <1>2, <1>4, <2>1, <2>5
  <1>8. CASE AddSample(r) \/ Mark(r)
    <2>1. asked' = asked /\ hook'[r] = Resting
      BY <1>3, <1>8 DEF AddSample, Mark, Then
    <2> QED BY <1>2, <1>4, <1>5, <2>1
  <1>9. CASE SaveMark(r)
    <2>1. asked' = asked /\ hook' = hook
      BY <1>9 DEF SaveMark, pluginVars
    <2>2. HookOrder(r)'
      BY <1>1, <1>3, <2>1 DEF OrderOf, HookOrder, engineVars, Told
    <2> QED BY <1>2, <1>4, <2>1, <2>2
  <1> QED BY <1>2, <1>6, <1>7, <1>8, <1>9

LEMMA HeaderInitOrder ==
    ASSUME EP!TypeOK, EP!Inv, Shape, Order, NEW r \in Req, HeaderInit(r)
    PROVE  OthersSame(r) /\ evicted' = evicted /\ OrderOf(r)'
  <1>1. E!HeaderInit(r, Cacheable(Sent(r))) /\ cfg' = cfg /\ PluginSame(r)
    BY DEF HeaderInit, EngineOnly, pluginVars, PluginSame
  <1>2. /\ host[r].stage = "sent" /\ host[r].stream
        /\ host'[r].stage = "streaming"
        /\ host'[r].stream = host[r].stream /\ host'[r].verdict = host[r].verdict
        /\ host'[r].outcome = host[r].outcome
        /\ call'[r].at = IF Cacheable(Sent(r)) THEN "init" ELSE "idle"
        /\ comp'[r] = comp[r] /\ told'[r] = told[r] /\ SameEntry(r)
        /\ evicted' = evicted /\ OthersSame(r)
    BY <1>1, HeaderInitDoes
  <1>3. OrderOf(r) /\ Asked(r) /\ SentUpstream(r)
    BY <1>2 DEF Order, OrderOf, HostOrder
  <1>4. /\ Asked(r)' = Asked(r) /\ Sent(r)' = Sent(r) /\ Told(r)' = Told(r)
        /\ SentUpstream(r)' = SentUpstream(r)
    BY <1>1, <1>2 DEF Asked, Sent, Told, SentUpstream, PluginSame
  <1>5. HookOrder(r)' /\ HostOrder(r)' /\ AnswerOrder(r)' /\ ResultOrder(r)'
    <2>1. HookOrder(r)'
      BY <1>1, <1>2, <1>3, <1>4 DEF OrderOf, HookOrder, PluginSame
    <2>2. HostOrder(r)'
      BY <1>1, <1>2, <1>3, <1>4 DEF OrderOf, HostOrder, PluginSame
    <2>3. AnswerOrder(r)'
      BY <1>1, <1>2, <1>3, <1>4 DEF OrderOf, AnswerOrder, PluginSame, SentUpstream
    <2>4. ResultOrder(r)'
      BY <1>1, <1>2, <1>3 DEF OrderOf, ResultOrder, PluginSame
    <2> QED BY <2>1, <2>2, <2>3, <2>4
  <1>6. Cacheable(Sent(r)) => Sent(r).probe \in Hash
    BY <1>3, Probes DEF Sent, Asked, Shape
  <1>7. EntryOrder(r)'
    BY <1>1, <1>2, <1>3, <1>4, <1>6 DEF OrderOf, EntryOrder, FiledAs, SameEntry, PluginSame
  <1> QED BY <1>2, <1>5, <1>7 DEF OrderOf

LEMMA ResponseOrder ==
    ASSUME EP!TypeOK, EP!Inv, Shape, Order, NEW r \in Req, NEW original \in Original,
           NEW fit \in BOOLEAN, Response(r, original, fit)
    PROVE  OthersSame(r) /\ evicted' = evicted /\ OrderOf(r)'
  <1> DEFINE body == CollectBody(r, original)
             collect == fit /\ Cacheable(body)
  <1>1. /\ E!Response(r, original, collect) /\ UNCHANGED <<cfg, asked, made>>
        /\ result'[r] = [status |-> 200, names |-> NoId]
        /\ hook'[r] = IF collect THEN [at |-> "sample", hash |-> body.probe] ELSE Resting
    BY DEF Response, Then, Shape
  <1> HIDE DEF collect, body
  <1>2. /\ host[r].stage = "sent" /\ ~host[r].stream
        /\ host'[r].stage = "ended" /\ host'[r].outcome = "succeeded"
        /\ host'[r].stream = host[r].stream /\ host'[r].verdict = host[r].verdict
        /\ call[r].at = "idle" /\ call'[r].at = "delete"
        /\ told'[r].oks = told[r].oks + 1 /\ told'[r].fails = told[r].fails
        /\ comp'[r] = comp[r] /\ SameEntry(r)
        /\ evicted' = evicted /\ OthersSame(r)
    BY <1>1, ResponseDoes
  <1>3. /\ OrderOf(r) /\ Asked(r) /\ SentUpstream(r)
        /\ told[r].oks = 0 /\ told[r].fails = 0
    BY <1>2, NotEnded DEF Order, OrderOf, HostOrder
  <1>4. Asked(r)' /\ Told(r)' /\ SentUpstream(r)' /\ Sent(r)' = Sent(r)
    BY <1>1, <1>2, <1>3 DEF Asked, Told, SentUpstream, Sent
  <1>5. collect => body.probe \in Hash
    BY <1>3, Probes DEF Asked, Shape, CollectBody, Sent, body, collect
  <1>6. HookOrder(r)'
    BY <1>1, <1>2, <1>4, <1>5 DEF HookOrder, Resting
  <1>7. HostOrder(r)' /\ AnswerOrder(r)'
    BY <1>1, <1>2, <1>3, <1>4 DEF OrderOf, HostOrder, AnswerOrder, SentUpstream
  <1>8. ResultOrder(r)'
    BY <1>1, <1>2 DEF ResultOrder, OutcomesOf
  <1>9. EntryOrder(r)'
    BY <1>1, <1>2, <1>3, FiledKept DEF OrderOf, SameEntry
  <1> QED BY <1>2, <1>6, <1>7, <1>8, <1>9 DEF OrderOf

LEMMA EndOrder ==
    ASSUME EP!TypeOK, EP!Inv, Shape, Order, NEW r \in Req, End(r)
    PROVE  OthersSame(r) /\ evicted' = evicted /\ OrderOf(r)'
  <1>0. PICK res \in Results(r) : \E o \in OutcomesOf(res) :
            E!End(r, o) /\ result' = [result EXCEPT ![r] = res]
    BY DEF End
  <1>1. PICK o \in OutcomesOf(res) : E!End(r, o) /\ result' = [result EXCEPT ![r] = res]
    BY <1>0
  <1>2. UNCHANGED <<cfg, asked, hook, made>> /\ result'[r] = res
    BY <1>1 DEF End, Shape
  <1>3. /\ host[r].stage \in {"sent", "streaming", "answered"}
        /\ host'[r].stage = "ended" /\ host'[r].outcome = o
        /\ host'[r].stream = host[r].stream /\ host'[r].verdict = host[r].verdict
        /\ call'[r] = call[r] /\ call[r].at = "idle"
        /\ comp'[r] = comp[r] /\ told'[r] = told[r] /\ SameEntry(r)
        /\ evicted' = evicted /\ OthersSame(r)
    BY <1>1, EndDoes
  <1>4. OrderOf(r) /\ Asked(r)
    BY <1>3 DEF Order, OrderOf, HostOrder
  <1>5. /\ Asked(r)' = Asked(r) /\ Sent(r)' = Sent(r) /\ Told(r)' = Told(r)
        /\ SentUpstream(r)' = SentUpstream(r)
    BY <1>2, <1>3 DEF Asked, Sent, Told, SentUpstream
  <1>6. SentUpstream(r) => res \in UpstreamResults(asked[r])
    BY <1>1, <1>4 DEF OrderOf, AnswerOrder, SentUpstream, Results, NotMade
  <1>7. SentUpstream(r) => res.status \in {0, 200} \cup Failure /\ res.names \in Item \cup {NoId}
    BY <1>6 DEF UpstreamResults
  <1>8. ResultOrder(r)'
    BY <1>2, <1>3, <1>5, <1>7 DEF ResultOrder
  <1>9. HookOrder(r)' /\ HostOrder(r)' /\ AnswerOrder(r)'
    BY <1>2, <1>3, <1>4, <1>5
    DEF OrderOf, HookOrder, HostOrder, AnswerOrder, SentUpstream, SameEntry
  <1>10. EntryOrder(r)'
    BY <1>2, <1>3, <1>4, FiledKept DEF OrderOf, SameEntry
  <1> QED BY <1>3, <1>8, <1>9, <1>10 DEF OrderOf

\* A delivery that has taken an entry knows the body it was filed with.
LEMMA Recording ==
    ASSUME EP!TypeOK, EP!Inv, Shape, Order, NEW r \in Req, NEW d \in Delivery,
           comp[r][d].at = "record"
    PROVE  /\ host[r].stage = "ended" /\ call[r].at = "idle" /\ Asked(r)
           /\ host[r].verdict # "terminate" /\ SentUpstream(r) /\ ~Told(r)
           /\ told[r].oks = 0 /\ told[r].fails = 0 /\ told[r].samples = <<>>
           /\ FiledAs(r, comp[r][d].info)
           /\ IsRequest(EntryBody(r, comp[r][d].info))
           /\ EntryBody(r, comp[r][d].info).probe \in Hash
  <1>1. OrderOf(r) /\ EP!InOrder(r) /\ EP!OneTeller(r) /\ EP!Recording(r)
    BY DEF Order, EP!Inv, EP!InvOf, EP!Recording
  <1>2. host[r].stage = "ended" /\ call[r].at = "idle"
    BY <1>1 DEF EP!InOrder, EP!Idle
  <1>3. told[r].oks = 0 /\ told[r].fails = 0 /\ told[r].samples = <<>>
    BY <1>1, EngineConstants, EP!NoSample
  <1>4. Asked(r) /\ host[r].verdict \notin {"terminate", "none"}
    BY <1>1, <1>2 DEF OrderOf, HostOrder, AnswerOrder
  <1>5. SentUpstream(r)
    BY <1>4 DEF SentUpstream, EP!TypeOK, EP!HostState, EP!Verdict
  <1>6. FiledAs(r, comp[r][d].info)
    BY <1>1 DEF OrderOf, EntryOrder
  <1>7. IsRequest(asked[r]) /\ IsRequest(Sent(r))
    BY <1>4, Requests DEF Asked, Shape, Sent
  <1>8. EntryBody(r, comp[r][d].info).probe \in Hash
    BY <1>1, <1>6 DEF FiledAs, EntryBody, OrderOf, EntryOrder
  <1> QED BY <1>2, <1>3, <1>4, <1>5, <1>6, <1>7, <1>8 DEF EntryBody, Told

LEMMA CompleteRecordOrder ==
    ASSUME EP!TypeOK, EP!Inv, Shape, Order, NEW r \in Req, NEW d \in Delivery,
           CompleteRecord(r, d)
    PROVE  OthersSame(r) /\ evicted' = evicted /\ OrderOf(r)'
  <1> DEFINE req == EntryBody(r, comp[r][d].info)
             failed == told'[r].fails # told[r].fails
             sampled == told'[r].samples # told[r].samples
  <1>1. /\ E!CompleteRecord(r, d, TRUE) /\ UNCHANGED <<cfg, asked, result, made>>
        /\ hook'[r] = IF sampled THEN [at |-> "sample", hash |-> req.probe]
                      ELSE IF failed /\ NamesInvalidItem(result[r])
                      THEN [at |-> "mark", item |-> result[r].names]
                      ELSE Resting
    BY DEF CompleteRecord, Then, Shape
  <1>2. /\ comp[r][d].at = "record"
        /\ comp'[r][d].at = "returned"
        /\ \A e \in Delivery \ {d} : comp'[r][e] = comp[r][e]
        /\ host'[r] = host[r] /\ call'[r] = call[r] /\ SameEntry(r)
        /\ told'[r].oks = IF host[r].outcome \in {"succeeded", "broken"} THEN told[r].oks + 1
                          ELSE told[r].oks
        /\ told'[r].fails = IF host[r].outcome = "failed" THEN told[r].fails + 1
                            ELSE told[r].fails
        /\ sampled => host[r].outcome = "succeeded"
        /\ evicted' = evicted /\ OthersSame(r)
    <2>1. RecordStep(r, d)
      BY <1>1, CompleteRecordDoes
    <2> QED BY <2>1 DEF RecordStep
  <1>3. /\ OrderOf(r) /\ host[r].stage = "ended" /\ call[r].at = "idle" /\ Asked(r)
        /\ SentUpstream(r) /\ told[r].oks = 0 /\ told[r].fails = 0 /\ req.probe \in Hash
        /\ host[r].verdict # "terminate"
    BY <1>2, Recording DEF Order
  <1> HIDE DEF req
  <1>4. sampled \/ failed => Told(r)'
    BY <1>2, <1>3 DEF Told
  <1>5. Asked(r)' /\ SentUpstream(r)' /\ Sent(r)' = Sent(r)
    BY <1>1, <1>2, <1>3 DEF Asked, SentUpstream, Sent
  <1>6. result[r].names \in Item \cup {NoId}
    BY <1>3 DEF OrderOf, ResultOrder
  <1>7. HookOrder(r)'
    BY <1>1, <1>3, <1>4, <1>6 DEF HookOrder, NamesInvalidItem, Resting
  <1>8. HostOrder(r)' /\ AnswerOrder(r)' /\ ResultOrder(r)'
    BY <1>1, <1>2, <1>3, <1>5
    DEF OrderOf, HostOrder, AnswerOrder, ResultOrder, SentUpstream
  <1>9. EntryOrder(r)'
    BY <1>1, <1>2, <1>3, FiledKept DEF OrderOf, SameEntry
  <1> QED BY <1>2, <1>7, <1>8, <1>9 DEF OrderOf

LEMMA OwnOrder ==
    ASSUME EP!TypeOK, EP!Inv, Shape, Order, NEW r \in Req, OwnStep(r)
    PROVE  OthersSame(r) /\ evicted' = evicted /\ OrderOf(r)'
  BY InterceptOrder, HookOnlyOrder, HeaderInitOrder, ResponseOrder, EndOrder,
     CompleteRecordOrder DEF OwnStep

LEMMA OrderStep == EP!TypeOK /\ EP!Inv /\ Shape /\ Order /\ [Next]_vars => Order'
  <1> SUFFICES ASSUME EP!TypeOK, EP!Inv, Shape, Order, [Next]_vars
               PROVE  Order'
    OBVIOUS
  <1>1. CASE UNCHANGED vars \/ Tick
    <2>1. UNCHANGED <<cfg, pluginVars, engineVars>>
      BY <1>1 DEF vars, Tick
    <2>2. /\ cfg' = cfg /\ evicted' = evicted
          /\ \A q \in Req : PluginSame(q) /\ EngineSame(q)
      BY <2>1 DEF pluginVars, engineVars, PluginSame, EngineSame, SameEntry
    <2> QED BY <2>2, OrderFrame DEF Order
  <1>2. ASSUME NEW r \in Req, OwnStep(r)
        PROVE  Order'
    <2>1. cfg' = cfg /\ \A q \in Req \ {r} : PluginSame(q)
      BY <1>2, OwnChanges, OthersPluginSame
    <2>2. OthersSame(r) /\ evicted' = evicted /\ OrderOf(r)'
      BY <1>2, OwnOrder
    <2>3. \A q \in Req \ {r} : OrderOf(q)'
      BY <2>1, <2>2, OrderFrame DEF Order, OthersSame
    <2> QED BY <2>2, <2>3 DEF Order
  <1> QED BY <1>1, <1>2, Steps, BareOrderStep

LEMMA OrderInit == Init => Order
  <1> SUFFICES ASSUME Init PROVE Order
    OBVIOUS
  <1> USE DEF Init, E!Init
  <1>1. \A q \in Req : HookOrder(q) /\ HostOrder(q)
    BY DEF HookOrder, HostOrder, Resting
  <1>2. \A q \in Req : AnswerOrder(q) /\ ResultOrder(q)
    BY DEF AnswerOrder, ResultOrder
  <1>3. \A q \in Req : EntryOrder(q)
    BY DEF EntryOrder
  <1> QED BY <1>1, <1>2, <1>3 DEF Order, OrderOf

LEMMA OrderHolds == Spec => []Order
  BY OrderInit, OrderStep, EngineHolds, ShapeHolds, PTL DEF Spec

-----------------------------------------------------------------------------
(* The plugin does to the guard store what GuardStore does                  *)

\* What a request adds to the keys, inputs and outcomes of the store.
LEMMA SuccessRecorded ==
    ASSUME NEW req, IsRequest(req), RecordSuccess(req)
    PROVE  [G!Next]_(G!vars) /\ now' = now
  <1>1. CASE RecordedKeys(cfg, SessionKeys(req)) # {}
    <2>1. SessionKeys(req) \in G!KeySets
      BY <1>1 DEF RecordedKeys, IsRequest, G!KeySets
    <2>2. G!RecordSuccess(SessionKeys(req), 200)
      BY <1>1 DEF RecordSuccess
    <2> QED BY <2>1, <2>2 DEF G!Next, G!RecordResponseOutcome, G!RecordSuccess
  <1>2. CASE RecordedKeys(cfg, SessionKeys(req)) = {}
    BY <1>2 DEF RecordSuccess, guardVars, G!vars
  <1> QED BY <1>1, <1>2

LEMMA FailureRecorded ==
    ASSUME NEW r \in Req, NEW req, IsRequest(req), NEW status \in Failure,
           RecordFailure(r, req, status)
    PROVE  [G!Next]_(G!vars) /\ now' = now
  <1>1. CASE RecordedKeys(cfg, SessionKeys(req)) # {}
    <2>1. SessionKeys(req) \in G!KeySets /\ InputHashes(req) \in Input
      BY <1>1 DEF RecordedKeys, IsRequest, G!KeySets
    <2>2. G!RecordFailure(SessionKeys(req), InputHashes(req), status, r)
      BY <1>1 DEF RecordFailure
    <2> QED BY <2>1, <2>2 DEF G!Next, G!RecordResponseOutcome, G!RecordFailure
  <1>2. CASE RecordedKeys(cfg, SessionKeys(req)) = {}
    BY <1>2 DEF RecordFailure, guardVars, G!vars
  <1> QED BY <1>1, <1>2

\* The status of a failure that is recorded is one of the upstream's.
LEMMA FailureStatus ==
    ASSUME EP!TypeOK, EP!Inv, Shape, Order, NEW r \in Req, NEW d \in Delivery,
           CompleteRecord(r, d), told'[r].fails # told[r].fails
    PROVE  result[r].status \in Failure /\ host[r].outcome = "failed"
  <1>1. comp[r][d].at = "record" /\ host[r].outcome = "failed"
    <2>1. E!CompleteRecord(r, d, TRUE)
      BY DEF CompleteRecord
    <2>2. RecordStep(r, d)
      BY <2>1, CompleteRecordDoes
    <2> QED BY <2>2 DEF RecordStep
  <1>2. "failed" \in OutcomesOf(result[r]) /\ result[r].status \in {0, 200} \cup Failure
    BY <1>1, Recording DEF Order, OrderOf, ResultOrder
  <1> QED BY <1>1, <1>2 DEF OutcomesOf

LEMMA OwnGuardStep ==
    ASSUME EP!TypeOK, EP!Inv, Shape, Order, NEW r \in Req, OwnStep(r)
    PROVE  [G!Next]_(G!vars) /\ now' = now
  <1>1. ASSUME UNCHANGED <<guardVars, now>>
        PROVE  [G!Next]_(G!vars) /\ now' = now
    BY <1>1 DEF guardVars, G!vars
  <1>2. ASSUME NEW req \in Request[cfg],
               AskRefused(r, req) \/ AskBlocked(r, req) \/ AskFurther(r, req)
        PROVE  [G!Next]_(G!vars) /\ now' = now
    BY <1>1, <1>2 DEF AskRefused, AskBlocked, AskFurther, Asks
  <1>3. CASE ItemUnknown(r) \/ Rewrite(r) \/ Skip(r) \/ HeaderInit(r) \/ End(r)
    BY <1>1, <1>3 DEF ItemUnknown, Rewrite, Skip, HeaderInit, EngineOnly, End
  <1>4. CASE ItemRead(r)
    <2>1. hook[r].todo \in Seq(Item) /\ hook[r].todo # <<>>
      BY <1>4 DEF Order, OrderOf, HookOrder, ItemRead, Examines
    <2>2. Head(hook[r].todo) \in Item
      BY <2>1, TailIn
    <2> QED BY <1>4, <2>2 DEF ItemRead, G!Next, G!ThreadStep, G!IsInvalidRead
  <1>5. CASE ItemKnown(r)
    BY <1>5 DEF ItemKnown, G!Next, G!ThreadStep, G!IsInvalidHit
  <1>6. CASE ItemExpired(r)
    BY <1>6 DEF ItemExpired, G!Next, G!ThreadStep, G!IsInvalidDelete
  <1>7. CASE Replay(r) \/ Miss(r) \/ AddSample(r)
    <2>1. UNCHANGED guardVars
      BY <1>7, Zenon DEF Replay, Miss, AddSample
    <2>2. now' = now
      <3>1. CASE Replay(r)
        BY <3>1 DEF Replay, P!GetHit
      <3>2. CASE Miss(r)
        BY <3>2 DEF Miss, P!GetExpired
      <3>3. CASE AddSample(r)
        BY <3>3 DEF AddSample, P!AddSample, P!AddRefused
      <3> QED BY <1>7, <3>1, <3>2, <3>3, Zenon
    <2> QED BY <1>1, <2>1, <2>2
  <1>8. ASSUME NEW original \in Original, NEW fit \in BOOLEAN, Response(r, original, fit)
        PROVE  [G!Next]_(G!vars) /\ now' = now
    <2>1. RecordSuccess(Sent(r)) /\ host[r].stage = "sent"
      BY <1>8, ResponseDoes DEF Response
    <2>2. IsRequest(Sent(r))
      BY <2>1, Requests DEF Order, OrderOf, HostOrder, Asked, Shape, Sent
    <2> QED BY <2>1, <2>2, SuccessRecorded
  <1>9. ASSUME NEW d \in Delivery, CompleteRecord(r, d)
        PROVE  [G!Next]_(G!vars) /\ now' = now
    <2> DEFINE req == EntryBody(r, comp[r][d].info)
    <2>1. \/ RecordSuccess(req)
          \/ told'[r].fails # told[r].fails /\ RecordFailure(r, req, result[r].status)
          \/ UNCHANGED <<guardVars, now>>
      BY <1>9, Zenon DEF CompleteRecord
    <2>2. IsRequest(req)
      <3>1. comp[r][d].at = "record"
        BY <1>9, Zenon DEF CompleteRecord, E!CompleteRecord
      <3> QED BY <3>1, Recording
    <2> HIDE DEF req
    <2> QED BY <1>1, <1>9, <2>1, <2>2, SuccessRecorded, FailureRecorded, FailureStatus
  <1>10. CASE Mark(r)
    <2>1. hook[r].item \in Item
      BY <1>10 DEF Mark, Order, OrderOf, HookOrder
    <2> QED BY <1>10, <2>1 DEF Mark, G!Next, G!ThreadStep, G!MarkInvalidSet
  <1>11. CASE SaveMark(r)
    BY <1>11 DEF SaveMark, G!Next, G!ThreadStep, G!MarkInvalidSave
  <1> QED
    BY <1>2, <1>3, <1>4, <1>5, <1>6, <1>7, <1>8, <1>9, <1>10, <1>11 DEF OwnStep

\* What the hooks make of the rules and of outcomes are the steps of the guard
\* store (state/store.go), with the arguments it expects.
THEOREM ImplementsGuardStore == Spec => G!Spec
  <1>1. Init => G!Init
    BY DEF Init
  <1>2. EP!TypeOK /\ EP!Inv /\ Shape /\ Order /\ [Next]_vars => [G!Next]_(G!vars)
    <2> SUFFICES ASSUME EP!TypeOK, EP!Inv, Shape, Order, [Next]_vars
                 PROVE  [G!Next]_(G!vars)
      OBVIOUS
    <2>1. CASE UNCHANGED vars \/ EngineOnly
      BY <2>1 DEF vars, EngineOnly, guardVars, G!vars
    <2>2. CASE Tick
      BY <2>2 DEF Tick, guardVars, G!Next, G!Tick
    <2> QED BY <2>1, <2>2, Steps, OwnGuardStep
  <1> QED BY <1>1, <1>2, EngineHolds, ShapeHolds, OrderHolds, PTL DEF Spec, G!Spec

\* Each instance of the library's FiniteSets has a Cardinality of its own.
LEMMA GuardCardinality ==
    ASSUME NEW S
    PROVE  G!Cardinality(S) = Cardinality(S) /\ GP!Cardinality(S) = Cardinality(S)
  BY DEF G!Cardinality, G!IsFiniteSet, GP!Cardinality, GP!IsFiniteSet, Cardinality, IsFiniteSet

LEMMA ProbeCardinality ==
    ASSUME NEW S
    PROVE  P!Cardinality(S) = Cardinality(S) /\ PP!Cardinality(S) = Cardinality(S)
  BY DEF P!Cardinality, P!IsFiniteSet, PP!Cardinality, PP!IsFiniteSet, Cardinality, IsFiniteSet

LEMMA SameGuard == G!Spec => GP!Spec
  <1> USE DEF G!Keep, GP!Keep, G!Put, GP!Put, G!NoEntries, GP!NoEntries, G!Idle, GP!Idle
  <1>1. G!Init => GP!Init
    <2> SUFFICES ASSUME G!Init PROVE GP!Init
      BY Zenon
    <2> QED BY Zenon DEF G!Init, GP!Init
  <1>2. ASSUME NEW its, NEW cs, G!SaveLocked(its, cs)
        PROVE  GP!SaveLocked(its, cs)
    BY <1>2, Zenon
    DEF G!SaveLocked, GP!SaveLocked, G!LiveItems, GP!LiveItems, G!LiveCircuits,
        GP!LiveCircuits, G!Encodable, GP!Encodable
  <1>3. ASSUME NEW t \in Req, G!ThreadStep(t)
        PROVE  GP!ThreadStep(t)
    <2>1. G!MarkInvalidSave(t) => GP!MarkInvalidSave(t)
      BY <1>2 DEF G!MarkInvalidSave, GP!MarkInvalidSave
    <2> QED
      BY <1>3, <2>1
      DEF G!ThreadStep, GP!ThreadStep, G!IsInvalidRead, GP!IsInvalidRead,
          G!IsInvalidDelete, GP!IsInvalidDelete, G!IsInvalidHit, GP!IsInvalidHit,
          G!MarkInvalidSet, GP!MarkInvalidSet, G!ClockReads, GP!ClockReads,
          G!ItemExpiry, GP!ItemExpiry
  <1>4. ASSUME NEW ks, NEW st, G!RecordSuccess(ks, st)
        PROVE  GP!RecordSuccess(ks, st)
    BY <1>4
    DEF G!RecordSuccess, GP!RecordSuccess, G!Succeeded, GP!Succeeded, G!Reset, GP!Reset,
        G!DirtyAfterSuccess, GP!DirtyAfterSuccess
  <1>5. ASSUME NEW k, NEW in, NEW st, NEW p, NEW c
        PROVE  G!FailedCircuit(k, in, st, p, c) = GP!FailedCircuit(k, in, st, p, c)
    <2>1. ASSUME NEW last PROVE G!Similar(in, last) = GP!Similar(in, last)
      BY GuardCardinality
      DEF G!Similar, GP!Similar, G!Shared, GP!Shared, G!Occurs, GP!Occurs
    <2>2. G!CountWith(k, in) = GP!CountWith(k, in)
      BY <2>1 DEF G!CountWith, GP!CountWith
    <2> QED
      BY <2>2 DEF G!FailedCircuit, GP!FailedCircuit, G!CircuitExpiry, GP!CircuitExpiry,
                  G!Trips, GP!Trips
  <1>6. ASSUME NEW ks, NEW in, NEW st, NEW p, G!RecordFailure(ks, in, st, p)
        PROVE  GP!RecordFailure(ks, in, st, p)
    BY <1>2, <1>5, <1>6
    DEF G!RecordFailure, GP!RecordFailure, G!Succeeded, GP!Succeeded,
        G!ClockReads, GP!ClockReads
  <1>7. G!RecordResponseOutcome => GP!RecordResponseOutcome
    BY <1>4, <1>6
    DEF G!RecordResponseOutcome, GP!RecordResponseOutcome, G!KeySets, GP!KeySets
  <1>8. G!Tick \/ G!Restart => GP!Tick \/ GP!Restart
    BY DEF G!Tick, GP!Tick, G!Restart, GP!Restart, G!LiveItems, GP!LiveItems,
           G!LiveCircuits, GP!LiveCircuits
  <1>9. [G!Next]_(G!vars) => [GP!Next]_(GP!vars)
    BY <1>3, <1>7, <1>8 DEF G!Next, GP!Next, G!vars, GP!vars
  <1> QED BY <1>1, <1>9, PTL DEF G!Spec, GP!Spec

LEMMA GuardHolds == Spec => [](GP!TypeOK /\ GP!CircuitsExplained /\ GP!RepeatsTrip)
  BY ImplementsGuardStore, SameGuard, GuardStoreConstants, GP!TypeCorrect,
     GP!AlwaysExplained, GP!RepeatsAlwaysTrip, PTL

-----------------------------------------------------------------------------
(* The plugin does to the pool what ProbeStore does                         *)

LEMMA OwnProbeStep ==
    ASSUME EP!TypeOK, EP!Inv, Shape, Order, NEW r \in Req, OwnStep(r)
    PROVE  [P!Next]_(P!vars)
  <1>1. UNCHANGED probeVars => [P!Next]_(P!vars)
    BY OwnGuardStep DEF probeVars, P!vars
  <1>2. ASSUME NEW req \in Request[cfg],
               AskRefused(r, req) \/ AskBlocked(r, req) \/ AskFurther(r, req)
        PROVE  UNCHANGED probeVars
    BY <1>2 DEF AskRefused, AskBlocked, AskFurther, Asks
  <1>3. CASE ItemUnknown(r) \/ ItemRead(r) \/ ItemKnown(r) \/ ItemExpired(r)
    BY <1>1, <1>3 DEF ItemUnknown, ItemRead, ItemKnown, ItemExpired
  <1>4. CASE Rewrite(r) \/ Skip(r) \/ HeaderInit(r) \/ End(r) \/ Mark(r) \/ SaveMark(r)
    BY <1>1, <1>4 DEF Rewrite, Skip, HeaderInit, EngineOnly, End, Mark, SaveMark
  <1>5. ASSUME NEW original \in Original, NEW fit \in BOOLEAN, Response(r, original, fit)
        PROVE  UNCHANGED probeVars
    BY <1>5 DEF Response
  <1>6. ASSUME NEW d \in Delivery, CompleteRecord(r, d)
        PROVE  UNCHANGED probeVars
    BY <1>6 DEF CompleteRecord
  <1>7. LooksUp(r) => asked[r].probe \in Hash
    BY Probes DEF LooksUp, Examined, Shape
  <1>8. CASE Replay(r)
    BY <1>7, <1>8 DEF Replay, P!Next
  <1>9. CASE Miss(r)
    BY <1>1, <1>7, <1>9 DEF Miss, P!Next
  <1>10. CASE AddSample(r)
    <2>1. hook[r].hash \in Hash
      BY <1>10 DEF AddSample, Order, OrderOf, HookOrder
    <2> QED BY <1>10, <2>1 DEF AddSample, P!Next
  <1> QED
    BY <1>1, <1>2, <1>3, <1>4, <1>5, <1>6, <1>8, <1>9, <1>10 DEF OwnStep

\* What the hooks look up and collect are the steps of the probe store
\* (probecache/store.go), under hashes of bodies that are fit for it.
THEOREM ImplementsProbeStore == Spec => P!Spec
  <1>1. Init => P!Init
    BY DEF Init
  <1>2. EP!TypeOK /\ EP!Inv /\ Shape /\ Order /\ [Next]_vars => [P!Next]_(P!vars)
    <2> SUFFICES ASSUME EP!TypeOK, EP!Inv, Shape, Order, [Next]_vars
                 PROVE  [P!Next]_(P!vars)
      OBVIOUS
    <2>1. CASE UNCHANGED vars \/ EngineOnly
      BY <2>1 DEF vars, EngineOnly, probeVars, P!vars
    <2>2. CASE Tick
      BY <2>2 DEF Tick, probeVars, P!Next, P!Tick
    <2> QED BY <2>1, <2>2, Steps, OwnProbeStep
  <1> QED BY <1>1, <1>2, EngineHolds, ShapeHolds, OrderHolds, PTL DEF Spec, P!Spec

LEMMA SameProbe == P!Spec => PP!Spec
  <1> USE DEF P!Live, PP!Live, P!NoEntries, PP!NoEntries
  <1>1. P!Init => PP!Init
    <2> SUFFICES ASSUME P!Init PROVE PP!Init
      BY Zenon
    <2> QED BY Zenon DEF P!Init, PP!Init
  <1>2. ASSUME NEW m, P!SaveLocked(m)
        PROVE  PP!SaveLocked(m)
    BY <1>2, Zenon DEF P!SaveLocked, PP!SaveLocked, P!Encodable, PP!Encodable
  <1>3. ASSUME NEW h, NEW r, P!AddSample(h, r)
        PROVE  PP!AddSample(h, r)
    <2>1. \A e : P!Extended(e, r) = PP!Extended(e, r)
      BY DEF P!Extended, PP!Extended, P!Sampled, PP!Sampled, P!Storable, PP!Storable,
             P!Enough, PP!Enough
    <2>2. P!NewEntry = PP!NewEntry /\ P!Full = PP!Full
      BY ProbeCardinality DEF P!NewEntry, PP!NewEntry, P!Expiry, PP!Expiry, P!Full, PP!Full
    <2>3. \A e : P!Put(entries, h, e) = PP!Put(entries, h, e)
      BY DEF P!Put, PP!Put
    <2> QED BY <1>2, <1>3, <2>1, <2>2, <2>3 DEF P!AddSample, PP!AddSample
  <1>4. ASSUME NEW h, P!AddRefused(h) \/ P!GetExpired(h)
        PROVE  PP!AddRefused(h) \/ PP!GetExpired(h)
    BY <1>4, ProbeCardinality
            DEF P!AddRefused, PP!AddRefused, P!Full, PP!Full, P!GetExpired, PP!GetExpired,
                P!Replayable, PP!Replayable, P!Without, PP!Without
  <1>5. ASSUME NEW h, P!GetHit(h)
        PROVE  PP!GetHit(h)
    BY <1>2, <1>5 DEF P!GetHit, PP!GetHit, P!Replayable, PP!Replayable
  <1>6. P!Tick \/ P!Restart => PP!Tick \/ PP!Restart
    BY DEF P!Tick, PP!Tick, P!Restart, PP!Restart
  <1>7. [P!Next]_(P!vars) => [PP!Next]_(PP!vars)
    BY <1>3, <1>4, <1>5, <1>6 DEF P!Next, PP!Next, P!vars, PP!vars
  <1> QED BY <1>1, <1>7, PTL DEF P!Spec, PP!Spec

LEMMA ProbeHolds ==
    Spec => [](PP!TypeOK /\ PP!ReplaysCollectedReplies /\ PP!WarmEntryAnswers)
  BY ImplementsProbeStore, SameProbe, ProbeStoreConstants, PP!TypeCorrect,
     PP!AlwaysReplaysCollectedReplies, PP!WarmEntriesAlwaysAnswer, PTL
=============================================================================
