-------------------------- MODULE PluginDutyProofs --------------------------
(***************************************************************************)
(* What the plugin has to answer itself is never sent upstream, for every  *)
(* set of requests, configuration and bound: the theorems that follow an   *)
(* outcome from the hook that was told of it to the store that was, and    *)
(* from there to the request that the store decides about later.           *)
(***************************************************************************)
EXTENDS PluginAnswerProofs

-----------------------------------------------------------------------------
(* What was done and recorded when a request was made                       *)

Past ==
    /\ DOMAIN before = Req
    /\ \A r \in Req :
          /\ before[r].told \subseteq {q \in Req : Told(q)}
          /\ before[r].done \subseteq {q \in Req : Told(q) /\ hook[q] = Resting}

\* It is written down when the request is made, and not again.
LEMMA BeforeChanges ==
    ASSUME NEW r \in Req, OwnStep(r)
    PROVE  \/ before' = before
           \/ \E req \in Request[cfg] :
                 /\ Asks(r, req)
                 /\ AskRefused(r, req) \/ AskBlocked(r, req) \/ AskFurther(r, req)
  <1>1. CASE ItemUnknown(r) \/ ItemRead(r) \/ ItemExpired(r) \/ ItemKnown(r)
    BY <1>1 DEF ItemUnknown, ItemRead, ItemExpired, ItemKnown
  <1>2. CASE Rewrite(r) \/ Skip(r) \/ Replay(r) \/ Miss(r)
    BY <1>2 DEF Rewrite, Skip, Replay, Miss
  <1>3. CASE HeaderInit(r) \/ SaveMark(r) \/ End(r) \/ AddSample(r) \/ Mark(r)
    BY <1>3 DEF HeaderInit, EngineOnly, SaveMark, End, AddSample, Mark, pluginVars
  <1>4. ASSUME NEW original \in Original, NEW fit \in BOOLEAN, Response(r, original, fit)
        PROVE  before' = before
    BY <1>4 DEF Response
  <1>5. ASSUME NEW d \in Delivery, CompleteRecord(r, d)
        PROVE  before' = before
    BY <1>5 DEF CompleteRecord
  <1> QED BY <1>1, <1>2, <1>3, <1>4, <1>5 DEF OwnStep, AskRefused, AskBlocked, AskFurther

LEMMA MadeOnce ==
    ASSUME Base, Past, [Next]_vars, NEW q \in Req, asked[q] # NotAsked
    PROVE  before'[q] = before[q] /\ asked'[q] = asked[q] /\ cfg' = cfg
  <1>1. CASE UNCHANGED vars \/ Tick \/ EngineOnly
    BY <1>1 DEF vars, Tick, EngineOnly, pluginVars
  <1>2. ASSUME NEW r \in Req, OwnStep(r)
        PROVE  before'[q] = before[q] /\ asked'[q] = asked[q] /\ cfg' = cfg
    <2>1. ASSUME NEW req \in Request[cfg], Asks(r, req)
          PROVE  before'[q] = before[q] /\ asked'[q] = asked[q] /\ cfg' = cfg
      <3>1. r # q
        BY <2>1 DEF Asks
      <3> QED BY <2>1, <3>1 DEF Asks, Past, Base, Shape
    <2>2. CASE before' = before /\ r # q
      BY <1>2, <2>2, OwnChanges, OthersPluginSame DEF Base, PluginSame
    <2>3. CASE before' = before /\ r = q
      <3>1. \A req : ~AskRefused(q, req) /\ ~AskBlocked(q, req) /\ ~AskFurther(q, req)
        BY DEF AskRefused, AskBlocked, AskFurther, Asks
      <3>2. OwnStep(q)
        BY <1>2, <2>3
      <3>3. asked' = asked
        <4>1. CASE ItemUnknown(q) \/ ItemRead(q) \/ ItemExpired(q) \/ ItemKnown(q)
          BY <4>1 DEF ItemUnknown, ItemRead, ItemExpired, ItemKnown
        <4>2. CASE Rewrite(q) \/ Skip(q) \/ Replay(q) \/ Miss(q)
          BY <4>2 DEF Rewrite, Skip, Replay, Miss
        <4>3. CASE HeaderInit(q) \/ SaveMark(q) \/ End(q) \/ AddSample(q) \/ Mark(q)
          BY <4>3 DEF HeaderInit, EngineOnly, SaveMark, End, AddSample, Mark, pluginVars
        <4>4. ASSUME NEW original \in Original, NEW fit \in BOOLEAN, Response(q, original, fit)
              PROVE  asked' = asked
          BY <4>4 DEF Response
        <4>5. ASSUME NEW d \in Delivery, CompleteRecord(q, d)
              PROVE  asked' = asked
          BY <4>5 DEF CompleteRecord
        <4> QED BY <3>1, <3>2, <4>1, <4>2, <4>3, <4>4, <4>5 DEF OwnStep
      <3> QED BY <1>2, <2>3, <3>3, OwnChanges
    <2> QED BY <1>2, <2>1, <2>2, <2>3, BeforeChanges
  <1> QED BY <1>1, <1>2, Steps

\* The hook calls of a request are over for good once its outcome was told.
LEMMA RestsForGood ==
    ASSUME Base, [Next]_vars, NEW q \in Req, Told(q), hook[q] = Resting
    PROVE  Told(q)' /\ hook'[q] = Resting
  <1>1. Told(q)'
    BY ToldLasts DEF Told
  <1>2. CASE UNCHANGED vars \/ Tick \/ EngineOnly
    BY <1>1, <1>2 DEF vars, Tick, EngineOnly, pluginVars
  <1>3. ASSUME NEW r \in Req, OwnStep(r), r # q
        PROVE  hook'[q] = Resting
    BY <1>3, OthersPluginSame DEF Base, PluginSame
  <1>4. ASSUME OwnStep(q)
        PROVE  hook'[q] = Resting
    <2>1. SaveMark(q)
      BY <1>4, ToldSteps DEF AddSample, Mark, Resting
    <2> QED BY <2>1 DEF SaveMark, pluginVars
  <1> QED BY <1>1, <1>2, <1>3, <1>4, Steps

LEMMA PastStep ==
    ASSUME Base, Past, [Next]_vars
    PROVE  Past'
  <1>1. \A q \in Req : Told(q) => Told(q)'
    BY ToldLasts DEF Told
  <1>2. \A q \in Req : Told(q) /\ hook[q] = Resting => Told(q)' /\ hook'[q] = Resting
    BY RestsForGood
  <1>3. CASE before' = before
    BY <1>1, <1>2, <1>3 DEF Past
  <1>4. CASE UNCHANGED vars \/ Tick \/ EngineOnly
    BY <1>3, <1>4 DEF vars, Tick, EngineOnly, pluginVars
  <1>5. ASSUME NEW r \in Req, NEW req \in Request[cfg], Asks(r, req)
        PROVE  Past'
    <2>1. /\ DOMAIN before' = Req
          /\ before'[r] = [told |-> {q \in Req : Told(q)}, done |-> Done]
          /\ \A q \in Req \ {r} : before'[q] = before[q]
      BY <1>5 DEF Asks, Past
    <2>2. \A q \in Done : Told(q) /\ hook[q] = Resting /\ q \in Req
      BY DEF Done, Quiet
    <2> QED BY <1>1, <1>2, <2>1, <2>2 DEF Past
  <1> QED BY <1>3, <1>4, <1>5, BeforeChanges, Steps

LEMMA PastInit == Init => Past
  BY DEF Init, Past

LEMMA PastHolds == Spec => []Past
  <1>1. Known /\ Past /\ [Next]_vars => Past'
    BY PastStep DEF Known
  <1> QED BY <1>1, PastInit, KnownHolds, PTL DEF Spec

\* The steps that send a request upstream.
LEMMA Decision ==
    ASSUME Base, [Next]_vars, NEW q \in Req, host[q].stage = "new", SentUpstream(q)'
    PROVE  Rewrite(q) \/ Skip(q) \/ Miss(q)
  <1> USE DEF Base
  <1>1. host[q].verdict = "none"
    BY DEF Order, OrderOf, HostOrder
  <1>2. host'[q].verdict # host[q].verdict /\ host'[q].verdict # "terminate"
    BY <1>1 DEF SentUpstream
  <1>3. CASE UNCHANGED vars \/ Tick
    BY <1>2, <1>3 DEF vars, Tick, engineVars
  <1>4. ASSUME NEW r \in Req, BareStep(r)
        PROVE  FALSE
    BY <1>2, <1>4, BareDoes DEF OthersSame, EngineSame
  <1>5. ASSUME NEW r \in Req, OwnStep(r), r # q
        PROVE  FALSE
    BY <1>2, <1>5, OwnOrder DEF OthersSame, EngineSame
  <1>6. ASSUME OwnStep(q)
        PROVE  Rewrite(q) \/ Skip(q) \/ Miss(q)
    <2>1. \A stream, m : ~Answer(q, stream, m)
      BY <1>2, BeforeDoes DEF Answer
    <2>2. \A req : ~AskRefused(q, req) /\ ~AskBlocked(q, req)
      BY <2>1 DEF AskRefused, AskBlocked
    <2>3. ~ItemKnown(q) /\ ~Replay(q)
      BY <2>1 DEF ItemKnown, Replay
    <2>4. UNCHANGED engineVars => FALSE
      BY <1>2 DEF engineVars
    <2>5. \A req : ~AskFurther(q, req)
      BY <2>4 DEF AskFurther
    <2>6. ~ItemUnknown(q) /\ ~ItemRead(q) /\ ~ItemExpired(q)
      BY <2>4 DEF ItemUnknown, ItemRead, ItemExpired
    <2>7. ~AddSample(q) /\ ~Mark(q) /\ ~SaveMark(q)
      BY <2>4 DEF AddSample, Mark, SaveMark
    <2>8. /\ ~HeaderInit(q) /\ ~End(q)
          /\ \A original \in Original, fit \in BOOLEAN : ~Response(q, original, fit)
      BY <1>2, HeaderInitDoes, EndDoes, ResponseDoes DEF HeaderInit, End, Response
    <2>9. \A d \in Delivery : ~CompleteRecord(q, d)
      <3>1. \A d \in Delivery : E!CompleteRecord(q, d, TRUE) => RecordStep(q, d)
        BY CompleteRecordDoes
      <3> QED BY <1>2, <3>1 DEF CompleteRecord, RecordStep
    <2> QED BY <1>6, <2>2, <2>3, <2>5, <2>6, <2>7, <2>8, <2>9 DEF OwnStep
  <1> QED BY <1>3, <1>4, <1>5, <1>6, Steps

\* The clock never goes back.
LEMMA ClockSteps ==
    ASSUME Base, now \in Nat, [Next]_vars
    PROVE  now' \in Nat /\ now' >= now
  <1>1. CASE UNCHANGED vars \/ EngineOnly
    BY <1>1 DEF vars, EngineOnly
  <1>2. CASE Tick
    BY <1>2 DEF Tick
  <1>3. ASSUME NEW r \in Req, OwnStep(r)
        PROVE  now' = now
    BY <1>3, OwnGuardStep DEF Base
  <1> QED BY <1>1, <1>2, <1>3, Steps

-----------------------------------------------------------------------------
(* The warm pool                                                            *)

\* The replies to the question of r that requests gave which were done when r
\* was made.
TakenBefore(r) ==
    {n \in Accepted(asked[r].probe) : probeLog[n].reply \in before[r].done}

\* The pool owed r an answer.
Owed(r) ==
    /\ Cardinality(TakenBefore(r)) >= MinSamples
    /\ \A n \in Accepted(asked[r].probe) :
          now < probeLog[n].at + ParseDuration(ProbeTTL, DefaultTTL)

Cached(r) == SentUpstream(r) /\ host[r].verdict # "rewrite" /\ Cacheable(asked[r])

Paid == \A r \in Req : Cached(r) => ~Owed(r)

\* The history is in the order of its places.
LEMMA ProbeLogPlaces ==
    ASSUME Known
    PROVE  /\ DOMAIN probeLog = 1..Len(probeLog) /\ Len(probeLog) \in Nat
           /\ IsFiniteSet(DOMAIN probeLog)
           /\ \A n \in DOMAIN probeLog :
                 probeLog[n].at \in Nat /\ KeyOf(probeLog[n].reply) = probeLog[n].hash
  <1>1. probeLog \in Seq(PP!Events)
    BY DEF Known, PP!TypeOK
  <1>2. DOMAIN probeLog = 1..Len(probeLog) /\ Len(probeLog) \in Nat
    BY <1>1
  <1>3. IsFiniteSet(DOMAIN probeLog)
    <2>1. Len(probeLog) \in Int /\ 1 \in Int
      BY <1>2
    <2>2. IsFiniteSet(1..Len(probeLog))
      BY <2>1, FS_Interval
    <2> QED BY <1>2, <2>2
  <1>4. ASSUME NEW n \in DOMAIN probeLog
        PROVE  probeLog[n].at \in Nat /\ KeyOf(probeLog[n].reply) = probeLog[n].hash
    <2>1. probeLog[n] \in PP!Events
      BY <1>1, <1>4
    <2>2. probeLog[n].kind = "add" /\ Taught(probeLog[n].reply, probeLog[n].hash)
      BY DEF Known, Links, ProbeLink
    <2>3. probeLog[n].at \in Nat
      BY <2>1, <2>2 DEF PP!Events
    <2> QED BY <2>2, <2>3 DEF Taught
  <1> QED BY <1>2, <1>3, <1>4

\* What a step adds to the history is no reply of a request that was done.
LEMMA ProbeLogGrows ==
    ASSUME Known, [Next]_vars
    PROVE  /\ DOMAIN probeLog \subseteq DOMAIN probeLog'
           /\ \A n \in DOMAIN probeLog :
                 /\ probeLog'[n] = probeLog[n]
                 /\ KeyOf(probeLog[n].reply)' = KeyOf(probeLog[n].reply)
           /\ \A n \in DOMAIN probeLog' \ DOMAIN probeLog : \A q \in Req :
                 Told(q) /\ hook[q] = Resting => probeLog'[n].reply # q
  <1>1. ASSUME NEW n \in DOMAIN probeLog, probeLog'[n] = probeLog[n], n \in DOMAIN probeLog'
        PROVE  KeyOf(probeLog[n].reply)' = KeyOf(probeLog[n].reply)
    <2>1. PICK e : e = probeLog[n]
      OBVIOUS
    <2>2. Taught(e.reply, e.hash)
      BY <2>1 DEF Known, Links, ProbeLink
    <2>3. Taught(e.reply, e.hash)'
      BY <2>2, TaughtLasts DEF Known
    <2>4. KeyOf(e.reply) = e.hash /\ KeyOf(e.reply)' = e.hash
      BY <2>2, <2>3 DEF Taught
    <2> QED BY <1>1, <2>1, <2>4
  <1>2. CASE probeLog' = probeLog
    BY <1>1, <1>2
  <1>3. CASE UNCHANGED vars \/ Tick \/ EngineOnly
    BY <1>2, <1>3 DEF vars, Tick, EngineOnly, probeVars
  <1>4. ASSUME NEW r \in Req, OwnStep(r), probeLog' # probeLog
        PROVE  /\ DOMAIN probeLog' = DOMAIN probeLog \cup {Len(probeLog) + 1}
               /\ \A n \in DOMAIN probeLog : probeLog'[n] = probeLog[n]
               /\ probeLog'[Len(probeLog) + 1].reply = r /\ hook[r].at = "sample"
    <2>1. /\ hook[r].at = "sample"
          /\ probeLog' = Append(probeLog, SampleEvent(hook[r].hash, r))
      BY <1>4, ProbeChanges
    <2>2. probeLog \in Seq(PP!Events)
      BY DEF Known, PP!TypeOK
    <2>3. /\ DOMAIN probeLog' = DOMAIN probeLog \cup {Len(probeLog) + 1}
          /\ \A n \in DOMAIN probeLog : probeLog'[n] = probeLog[n]
          /\ probeLog'[Len(probeLog) + 1] = SampleEvent(hook[r].hash, r)
      BY <2>1, <2>2, Longer
    <2> QED BY <2>1, <2>3 DEF SampleEvent
  <1>5. ASSUME NEW r \in Req, OwnStep(r), probeLog' # probeLog
        PROVE  /\ DOMAIN probeLog \subseteq DOMAIN probeLog'
               /\ \A n \in DOMAIN probeLog : probeLog'[n] = probeLog[n]
               /\ \A n \in DOMAIN probeLog' \ DOMAIN probeLog : \A q \in Req :
                     Told(q) /\ hook[q] = Resting => probeLog'[n].reply # q
    BY <1>4, <1>5 DEF Resting
  <1>6. /\ DOMAIN probeLog \subseteq DOMAIN probeLog'
        /\ \A n \in DOMAIN probeLog : probeLog'[n] = probeLog[n]
        /\ \A n \in DOMAIN probeLog' \ DOMAIN probeLog : \A q \in Req :
              Told(q) /\ hook[q] = Resting => probeLog'[n].reply # q
    BY <1>2, <1>3, <1>5, Steps
  <1> QED BY <1>1, <1>6

\* What the pool did not owe when it was asked, it never owes: time only passes,
\* and requests that were done hand over nothing more.
LEMMA OwedLasts ==
    ASSUME Known, Past, [Next]_vars, NEW r \in Req, asked[r] # NotAsked, Owed(r)'
    PROVE  Owed(r)
  <1>1. PICK h, done : h = asked[r].probe /\ done = before[r].done
    OBVIOUS
  <1>2. asked'[r].probe = h /\ before'[r].done = done
    BY <1>1, MadeOnce DEF Known, Base
  <1>3. \A q \in done : q \in Req /\ Told(q) /\ hook[q] = Resting
    BY <1>1 DEF Past
  <1>4. Accepted(h) = Accepted(h)' \cap DOMAIN probeLog
    BY ProbeLogGrows DEF Accepted
  <1>5. TakenBefore(r)' = TakenBefore(r)
    <2>1. TakenBefore(r)' = {n \in Accepted(h)' : probeLog'[n].reply \in done}
      BY <1>2 DEF TakenBefore, Accepted
    <2>2. TakenBefore(r) = {n \in Accepted(h) : probeLog[n].reply \in done}
      BY <1>1 DEF TakenBefore
    <2>3. Accepted(h)' \subseteq DOMAIN probeLog'
      BY DEF Accepted
    <2> QED BY <1>3, <1>4, <2>1, <2>2, <2>3, ProbeLogGrows
  <1>6. ASSUME NEW n \in Accepted(h)
        PROVE  now < probeLog[n].at + ParseDuration(ProbeTTL, DefaultTTL)
    <2>1. n \in Accepted(h)' /\ n \in DOMAIN probeLog /\ probeLog'[n] = probeLog[n]
      BY <1>4, <1>6, ProbeLogGrows DEF Accepted
    <2>2. now' < probeLog'[n].at + ParseDuration(ProbeTTL, DefaultTTL)
      <3>1. Accepted(asked[r].probe)' = Accepted(h)'
        BY <1>2 DEF Accepted
      <3> QED BY <2>1, <3>1 DEF Owed
    <2>3. now \in Nat /\ now' \in Nat /\ now' >= now
      BY ClockSteps DEF Known, GP!TypeOK
    <2>4. probeLog[n].at \in Nat /\ ParseDuration(ProbeTTL, DefaultTTL) \in Nat
      BY <2>1, ProbeLogPlaces, Durations
    <2> QED BY <2>1, <2>2, <2>3, <2>4
  <1>7. Cardinality(TakenBefore(r)) >= MinSamples
    BY <1>5 DEF Owed
  <1> QED BY <1>1, <1>6, <1>7 DEF Owed

\* A request that is looked up and missed was owed no answer.
LEMMA MissOwesNothing ==
    ASSUME Known, NEW r \in Req, Miss(r)
    PROVE  ~Owed(r)
  <1> SUFFICES ASSUME Owed(r) PROVE FALSE
    OBVIOUS
  <1>1. PICK h : h = asked[r].probe
    OBVIOUS
  <1>2. h \in Hash
    BY <1>1, Probes DEF Miss, LooksUp, Examined, Known, Base, Shape
  <1>3. 0 \in PP!OfProcess(probeLog)
    BY DEF Known, Links, ProbeLink, PP!OfProcess
  <1>4. PP!AddsOf(probeLog, h, 0) = Accepted(h)
    BY ProbeLogPlaces DEF PP!AddsOf, Accepted
  <1>5. PP!AllYoung(probeLog, h, now)
    BY <1>1, <1>4 DEF Owed, PP!AllYoung
  <1>6. PP!Cardinality(PP!AddsOf(probeLog, h, 0)) >= MinSamples
    <2>1. Accepted(h) \subseteq DOMAIN probeLog /\ TakenBefore(r) \subseteq Accepted(h)
      BY <1>1 DEF Accepted, TakenBefore
    <2>2. IsFiniteSet(Accepted(h))
      BY <2>1, ProbeLogPlaces, FS_Subset
    <2>3. /\ Cardinality(TakenBefore(r)) <= Cardinality(Accepted(h))
          /\ IsFiniteSet(TakenBefore(r))
      BY <2>1, <2>2, FS_Subset
    <2>4. Cardinality(TakenBefore(r)) \in Nat /\ Cardinality(Accepted(h)) \in Nat
      BY <2>2, <2>3, FS_CardinalityType
    <2>5. Cardinality(TakenBefore(r)) >= MinSamples /\ MinSamples \in Nat
      BY SamplesPositive DEF Owed
    <2>6. Cardinality(Accepted(h)) >= MinSamples
      BY <2>3, <2>4, <2>5
    <2> QED BY <1>4, <2>6, ProbeCardinality
  <1>7. PP!Replayable(h) /\ now <= entries[h].expire
    BY <1>2, <1>3, <1>5, <1>6 DEF Known, PP!WarmEntryAnswers
  <1>8. \/ P!GetExpired(h)
        \/ ~P!Replayable(h)
    BY <1>1 DEF Miss
  <1>9. P!GetExpired(h)
    BY <1>7, <1>8 DEF P!Replayable, PP!Replayable
  <1>10. now > entries[h].expire
    BY <1>9 DEF P!GetExpired
  <1>11. now \in Nat /\ entries[h].expire \in Nat
    BY <1>2, <1>7 DEF PP!Replayable, Known, PP!TypeOK, PP!IsMap, PP!ProbeEntry
  <1> QED BY <1>7, <1>10, <1>11

LEMMA PaidStep ==
    ASSUME Known, Past, Paid, [Next]_vars
    PROVE  Paid'
  <1>0. Base
    BY DEF Known
  <1> SUFFICES ASSUME NEW r \in Req, Cached(r)' PROVE ~Owed(r)'
    BY DEF Paid
  <1>1. CASE host[r].stage # "new"
    <2>1. /\ cfg' = cfg /\ asked'[r] = asked[r] /\ host'[r].verdict = host[r].verdict
      BY <1>0, <1>1, StageLasts
    <2>2. Cached(r)
      BY <2>1 DEF Cached, SentUpstream, Cacheable
    <2>3. asked[r] # NotAsked
      BY <1>0, <1>1, AskedFirst DEF Base
    <2> QED BY <2>2, <2>3, OwedLasts DEF Paid
  <1>2. CASE host[r].stage = "new"
    <2>1. Rewrite(r) \/ Skip(r) \/ Miss(r)
      BY <1>0, <1>2, Decision DEF Cached
    <2>2. ~Rewrite(r)
      BY <1>0, BeforeDoes DEF Rewrite, Cached, Base
    <2>3. ~Skip(r)
      BY DEF Skip, Cached, Cacheable
    <2>4. Miss(r)
      BY <2>1, <2>2, <2>3
    <2>5. asked[r] # NotAsked
      BY <1>0, <2>4, Requests DEF Miss, LooksUp, Examined, Base, Shape, IsRequest, NotAsked
    <2> QED BY <2>4, <2>5, MissOwesNothing, OwedLasts
  <1> QED BY <1>1, <1>2

\* Once MinSamples replies to a question were taken, and while none of them is
\* old, nobody who asks it again is sent upstream (engine.go:240-262,
\* probecache/store.go:76-178), however the hooks of other requests run in
\* between: for every pool, size, lifetime and configuration.
THEOREM WarmPoolAlwaysAnswers == Spec => []WarmPoolAnswers
  <1>1. Init => Paid
    BY DEF Init, E!Init, Paid, Cached, SentUpstream
  <1>2. Spec => []Paid
    BY <1>1, PaidStep, KnownHolds, PastHolds, PTL DEF Spec
  <1>3. Paid => WarmPoolAnswers
    BY DEF Paid, Cached, Owed, TakenBefore, WarmPoolAnswers
  <1> QED BY <1>2, <1>3, PTL
-----------------------------------------------------------------------------
(* What the history of the guard store holds                                *)

\* A success in the history is one that a request was told.
LoggedSuccess(ev) ==
    /\ ev.kind = "ok"
    /\ \E q \in Req : /\ Told(q) /\ told[q].fails = 0
                      /\ \E form \in Forms(q) : ev.keys = SessionKeys(form)

InHistory(q) == \E n \in DOMAIN guardLog : IsFail(guardLog[n]) /\ guardLog[n].payload = q

OutcomeLink ==
    /\ \A n \in DOMAIN guardLog : IsFail(guardLog[n]) \/ LoggedSuccess(guardLog[n])
    /\ IsOn(cfg.fuzzy_circuit_breaker) =>
          \A q \in Req :
              Failed(q) /\ (\A form \in Forms(q) : SessionKeys(form) # {}) => InHistory(q)

SuccessEvent(req) == [kind |-> "ok", keys |-> SessionKeys(req)]

\* What was told of a request goes into the history, unless the breaker is off
\* or the body that was recorded has no session key.
LogsOutcome(r) ==
    \/ guardLog' = guardLog /\ told'[r].fails = told[r].fails
    \/ guardLog' = guardLog /\ \E form \in Forms(r) : RecordedKeys(cfg, SessionKeys(form)) = {}
    \/ \E d \in Delivery : RecordsFailure(r, d)
    \/ \E form \in Forms(r) :
          guardLog' = Append(guardLog, SuccessEvent(form)) /\ Told(r)' /\ told'[r].fails = 0

LEMMA ToldTyped ==
    ASSUME Base, NEW r \in Req
    PROVE  told[r].oks \in Nat /\ told[r].fails \in Nat
  BY DEF Base, EP!TypeOK, EP!Heard

LEMMA SuccessLogs ==
    ASSUME Base, NEW r \in Req, NEW form \in Forms(r), RecordSuccess(form),
           told[r].oks = 0, told[r].fails = 0, told'[r].oks = 1, told'[r].fails = 0
    PROVE  LogsOutcome(r)
  <1>1. Told(r)'
    BY DEF Told
  <1>2. CASE RecordedKeys(cfg, SessionKeys(form)) # {}
    <2>1. guardLog' = Append(guardLog, SuccessEvent(form))
      BY <1>2 DEF RecordSuccess, G!RecordSuccess, SuccessEvent
    <2> QED BY <1>1, <2>1 DEF LogsOutcome
  <1>3. CASE RecordedKeys(cfg, SessionKeys(form)) = {}
    <2>1. guardLog' = guardLog
      BY <1>3 DEF RecordSuccess, guardVars
    <2> QED BY <1>3, <2>1 DEF LogsOutcome
  <1> QED BY <1>2, <1>3

LEMMA OutcomeLogged ==
    ASSUME Base, NEW r \in Req, OwnStep(r)
    PROVE  LogsOutcome(r)
  <1> USE DEF Base
  <1>1. ASSUME guardLog' = guardLog, told'[r] = told[r]
        PROVE  LogsOutcome(r)
    BY <1>1 DEF LogsOutcome
  <1>2. UNCHANGED guardVars => guardLog' = guardLog
    BY DEF guardVars
  <1>3. UNCHANGED engineVars => told' = told
    BY DEF engineVars
  <1>4. \A stream, m : Answer(r, stream, m) => told'[r] = told[r]
    BY BeforeDoes DEF Answer
  <1>5. ASSUME NEW req \in Request[cfg],
               AskRefused(r, req) \/ AskBlocked(r, req) \/ AskFurther(r, req)
        PROVE  LogsOutcome(r)
    <2>1. guardLog' = guardLog
      BY <1>2, <1>5 DEF AskRefused, AskBlocked, AskFurther, Asks
    <2>2. told'[r] = told[r]
      BY <1>3, <1>4, <1>5 DEF AskRefused, AskBlocked, AskFurther
    <2> QED BY <1>1, <2>1, <2>2
  <1>6. CASE ItemUnknown(r) \/ ItemRead(r) \/ ItemExpired(r) \/ ItemKnown(r)
    <2>1. guardLog' = guardLog
      BY <1>2, <1>6 DEF ItemUnknown, ItemRead, ItemExpired, ItemKnown, G!IsInvalidRead,
                        G!IsInvalidHit, G!IsInvalidDelete
    <2>2. told'[r] = told[r]
      BY <1>3, <1>4, <1>6 DEF ItemUnknown, ItemRead, ItemExpired, ItemKnown
    <2> QED BY <1>1, <2>1, <2>2
  <1>7. CASE Rewrite(r) \/ Skip(r) \/ Replay(r) \/ Miss(r)
    <2>1. guardLog' = guardLog
      BY <1>2, <1>7 DEF Rewrite, Skip, Replay, Miss
    <2>2. told'[r] = told[r]
      BY <1>4, <1>7, BeforeDoes DEF Rewrite, Skip, Replay, Miss
    <2> QED BY <1>1, <2>1, <2>2
  <1>8. CASE HeaderInit(r) \/ End(r)
    <2>1. guardLog' = guardLog
      BY <1>2, <1>8 DEF HeaderInit, EngineOnly, End
    <2>2. told'[r] = told[r]
      BY <1>8, HeaderInitDoes, EndDoes DEF HeaderInit, End
    <2> QED BY <1>1, <2>1, <2>2
  <1>9. CASE AddSample(r) \/ Mark(r) \/ SaveMark(r)
    <2>1. guardLog' = guardLog
      BY <1>2, <1>9 DEF AddSample, Mark, SaveMark, G!MarkInvalidSet, G!MarkInvalidSave
    <2>2. told'[r] = told[r]
      BY <1>3, <1>9 DEF AddSample, Mark, SaveMark
    <2> QED BY <1>1, <2>1, <2>2
  <1>10. ASSUME NEW original \in Original, NEW fit \in BOOLEAN, Response(r, original, fit)
         PROVE  LogsOutcome(r)
    <2>1. /\ E!Response(r, original, fit /\ Cacheable(CollectBody(r, original)))
          /\ RecordSuccess(Sent(r))
      BY <1>10 DEF Response
    <2>2. /\ host[r].stage = "sent" /\ told'[r].oks = told[r].oks + 1
          /\ told'[r].fails = told[r].fails
      BY <2>1, ResponseDoes
    <2>3. told[r].oks = 0 /\ told[r].fails = 0
      BY <2>2, NotEnded
    <2>4. told'[r].oks = 1 /\ told'[r].fails = 0
      BY <2>2, <2>3
    <2>5. Sent(r) \in Forms(r)
      BY DEF Forms
    <2> QED BY <2>1, <2>3, <2>4, <2>5, SuccessLogs
  <1>11. ASSUME NEW d \in Delivery, CompleteRecord(r, d)
         PROVE  LogsOutcome(r)
    <2> DEFINE req == EntryBody(r, comp[r][d].info)
    <2>1. E!CompleteRecord(r, d, TRUE)
      BY <1>11 DEF CompleteRecord
    <2>2. /\ comp[r][d].at = "record"
          /\ told'[r].oks = told[r].oks \/ told'[r].oks = told[r].oks + 1
          /\ told'[r].oks # told[r].oks => told'[r].fails = told[r].fails
      <3>1. RecordStep(r, d)
        BY <2>1, CompleteRecordDoes
      <3> QED BY <3>1 DEF RecordStep
    <2>3. told[r].oks = 0 /\ told[r].fails = 0
      BY <2>2, Recording
    <2>4. req \in Forms(r)
      BY DEF EntryBody, Forms
    <2>5. \/ told'[r].oks # told[r].oks /\ RecordSuccess(req)
          \/ told'[r].fails # told[r].fails /\ RecordFailure(r, req, result[r].status)
          \/ told'[r].fails = told[r].fails /\ UNCHANGED guardVars
      BY <1>11 DEF CompleteRecord
    <2>6. CASE /\ told'[r].fails # told[r].fails
               /\ G!RecordFailure(SessionKeys(req), InputHashes(req), result[r].status, r)
      <3>1. guardLog' = Append(guardLog, FailureEvent(r, req))
        BY <2>6 DEF G!RecordFailure, FailureEvent
      <3> QED BY <1>11, <2>6, <3>1 DEF RecordsFailure, LogsOutcome
    <2> HIDE DEF req
    <2>7. CASE told'[r].oks # told[r].oks /\ RecordSuccess(req)
      BY <2>2, <2>3, <2>4, <2>7, SuccessLogs
    <2>8. CASE told'[r].fails # told[r].fails /\ RecordFailure(r, req, result[r].status)
      <3>1. CASE RecordedKeys(cfg, SessionKeys(req)) # {}
        BY <2>6, <2>8, <3>1 DEF RecordFailure
      <3>2. CASE RecordedKeys(cfg, SessionKeys(req)) = {}
        BY <1>2, <2>4, <2>8, <3>2 DEF RecordFailure, LogsOutcome
      <3> QED BY <3>1, <3>2
    <2>9. CASE told'[r].fails = told[r].fails /\ UNCHANGED guardVars
      BY <1>2, <2>9 DEF LogsOutcome
    <2> QED BY <2>5, <2>7, <2>8, <2>9
  <1> QED BY <1>5, <1>6, <1>7, <1>8, <1>9, <1>10, <1>11 DEF OwnStep

\* Nothing is told of a request that is new to the host.
LEMMA TellsEnded ==
    ASSUME Base, NEW r \in Req, OwnStep(r), host[r].stage = "new"
    PROVE  told'[r] = told[r] /\ ~Told(r)'
  <1> USE DEF Base
  <1>1. ~Told(r)
    BY NotEnded
  <1>2. UNCHANGED engineVars => told' = told
    BY DEF engineVars
  <1>3. \A stream, m : Answer(r, stream, m) => told'[r] = told[r]
    BY BeforeDoes DEF Answer
  <1>4. ASSUME NEW req \in Request[cfg],
               AskRefused(r, req) \/ AskBlocked(r, req) \/ AskFurther(r, req)
        PROVE  told'[r] = told[r]
    BY <1>2, <1>3, <1>4 DEF AskRefused, AskBlocked, AskFurther
  <1>5. CASE ItemUnknown(r) \/ ItemRead(r) \/ ItemExpired(r) \/ ItemKnown(r)
    BY <1>1, <1>2, <1>3, <1>5 DEF ItemUnknown, ItemRead, ItemExpired, ItemKnown, Told
  <1>6. CASE Rewrite(r) \/ Skip(r) \/ Replay(r) \/ Miss(r)
    <2>1. told'[r] = told[r]
      BY <1>3, <1>6, BeforeDoes DEF Rewrite, Skip, Replay, Miss
    <2> QED BY <1>1, <2>1 DEF Told
  <1>7. CASE HeaderInit(r) \/ End(r)
    BY <1>7, HeaderInitDoes, EndDoes DEF HeaderInit, End
  <1>8. CASE AddSample(r) \/ Mark(r) \/ SaveMark(r)
    <2>1. told'[r] = told[r]
      BY <1>2, <1>8 DEF AddSample, Mark, SaveMark
    <2> QED BY <1>1, <2>1 DEF Told
  <1>9. ASSUME NEW original \in Original, NEW fit \in BOOLEAN, Response(r, original, fit)
        PROVE  FALSE
    BY <1>9, ResponseDoes DEF Response
  <1>10. ASSUME NEW d \in Delivery, CompleteRecord(r, d)
         PROVE  FALSE
    <2>1. E!CompleteRecord(r, d, TRUE)
      BY <1>10 DEF CompleteRecord
    <2>2. comp[r][d].at = "record"
      <3>1. RecordStep(r, d)
        BY <2>1, CompleteRecordDoes
      <3> QED BY <3>1 DEF RecordStep
    <2> QED BY <2>2, Recording
  <1>11. told'[r] = told[r] => ~Told(r)'
    BY <1>1 DEF Told
  <1>12. told'[r] = told[r]
    BY <1>4, <1>5, <1>6, <1>7, <1>8, <1>9, <1>10 DEF OwnStep
  <1> QED BY <1>11, <1>12

LEMMA SuccessLasts ==
    ASSUME Base, [Next]_vars, NEW ev, LoggedSuccess(ev)
    PROVE  LoggedSuccess(ev)'
  <1>1. PICK q \in Req : /\ Told(q) /\ told[q].fails = 0
                         /\ \E form \in Forms(q) : ev.keys = SessionKeys(form)
    BY DEF LoggedSuccess
  <1>2. told'[q] = told[q] /\ Forms(q)' = Forms(q)
    BY <1>1, ToldLasts DEF Forms, Sent
  <1>3. Told(q)' /\ told'[q].fails = 0
    BY <1>1, <1>2 DEF Told
  <1> QED BY <1>1, <1>2, <1>3 DEF LoggedSuccess

\* The history only grows, by what was told of the request that takes the step.
LEMMA HistoryGrows ==
    ASSUME Base, GP!TypeOK, [Next]_vars
    PROVE  /\ DOMAIN guardLog \subseteq DOMAIN guardLog'
           /\ \A n \in DOMAIN guardLog : guardLog'[n] = guardLog[n]
           /\ \A n \in DOMAIN guardLog' \ DOMAIN guardLog :
                 \/ LoggedFailure(guardLog[n])' /\ IsFail(guardLog'[n])
                 \/ LoggedSuccess(guardLog[n])'
  <1> DEFINE Extended ==
               /\ DOMAIN guardLog \subseteq DOMAIN guardLog'
               /\ \A n \in DOMAIN guardLog : guardLog'[n] = guardLog[n]
               /\ \A n \in DOMAIN guardLog' \ DOMAIN guardLog :
                     \/ LoggedFailure(guardLog[n])' /\ IsFail(guardLog'[n])
                     \/ LoggedSuccess(guardLog[n])'
  <1>1. CASE guardLog' = guardLog
    BY <1>1
  <1>2. CASE UNCHANGED vars \/ Tick \/ EngineOnly
    BY <1>1, <1>2 DEF vars, Tick, EngineOnly, guardVars
  <1>3. ASSUME NEW ev, guardLog' = Append(guardLog, ev),
               \/ LoggedFailure(ev)' /\ IsFail(ev)
               \/ LoggedSuccess(ev)'
        PROVE  Extended
    <2>1. guardLog \in Seq(GP!Events)
      BY DEF GP!TypeOK
    <2>2. /\ DOMAIN guardLog' = DOMAIN guardLog \cup {Len(guardLog) + 1}
          /\ \A n \in DOMAIN guardLog : guardLog'[n] = guardLog[n]
          /\ guardLog'[Len(guardLog) + 1] = ev
      BY <1>3, <2>1, Longer
    <2> QED BY <1>3, <2>2
  <1>4. ASSUME NEW r \in Req, OwnStep(r), NEW d \in Delivery, RecordsFailure(r, d)
        PROVE  Extended
    <2>1. PICK ev : ev = FailureEvent(r, EntryBody(r, comp[r][d].info))
      OBVIOUS
    <2>2. LoggedFailure(ev)'
      BY <1>4, <2>1, FailureLogged
    <2>3. guardLog' = Append(guardLog, ev) /\ IsFail(ev)
      BY <1>4, <2>1 DEF RecordsFailure, IsFail, FailureEvent
    <2> QED BY <1>3, <2>2, <2>3
  <1>5. ASSUME NEW r \in Req, OwnStep(r), NEW form \in Forms(r),
               guardLog' = Append(guardLog, SuccessEvent(form)), Told(r)', told'[r].fails = 0
        PROVE  Extended
    <2>1. PICK ev : ev = SuccessEvent(form)
      OBVIOUS
    <2>2. Forms(r)' = Forms(r)
      <3>1. host[r].stage # "new"
        <4>1. host[r].stage = "new" => ~Told(r)'
          BY <1>5, TellsEnded
        <4> QED BY <1>5, <4>1
      <3> QED BY <3>1, StageLasts DEF Forms, Sent
    <2>3. ev.kind = "ok" /\ ev.keys = SessionKeys(form)
      BY <2>1 DEF SuccessEvent
    <2>4. LoggedSuccess(ev)'
      BY <1>5, <2>2, <2>3 DEF LoggedSuccess
    <2> QED BY <1>3, <1>5, <2>1, <2>4
  <1>6. ASSUME NEW r \in Req, OwnStep(r)
        PROVE  Extended
    BY <1>1, <1>4, <1>5, <1>6, OutcomeLogged DEF LogsOutcome
  <1> QED BY <1>2, <1>6, Steps

\* What is told of a request is told by its own step.
LEMMA ToldByOwn ==
    ASSUME Base, [Next]_vars, NEW q \in Req, told'[q] # told[q]
    PROVE  OwnStep(q)
  <1> USE DEF Base
  <1>1. ~(UNCHANGED vars \/ Tick)
    BY DEF vars, Tick, engineVars
  <1>2. ASSUME NEW r \in Req, BareStep(r)
        PROVE  FALSE
    BY <1>2, BareDoes DEF OthersSame, EngineSame
  <1>3. ASSUME NEW r \in Req, OwnStep(r), r # q
        PROVE  FALSE
    BY <1>3, OwnOrder DEF OthersSame, EngineSame
  <1> QED BY <1>1, <1>2, <1>3, Steps

\* A request that has now failed was told so by this very step.
LEMMA FailsByOwn ==
    ASSUME Base, [Next]_vars, NEW q \in Req, Failed(q)', ~Failed(q)
    PROVE  OwnStep(q) /\ told'[q].fails # told[q].fails
  <1>1. told[q].oks \in Nat /\ told[q].fails \in Nat
    BY ToldTyped
  <1>2. told[q].fails # 1
    <2>1. SUFFICES ASSUME told[q].fails = 1 PROVE FALSE
      OBVIOUS
    <2>2. Told(q)
      BY <1>1, <2>1 DEF Told
    <2>3. host'[q].verdict = host[q].verdict
      BY <2>2, ToldLasts
    <2> QED BY <2>1, <2>3 DEF Failed, SentUpstream
  <1>3. told'[q].fails = 1
    BY DEF Failed
  <1> QED BY <1>2, <1>3, ToldByOwn

LEMMA OutcomeLinkStep ==
    ASSUME Base, GP!TypeOK, OutcomeLink, [Next]_vars
    PROVE  OutcomeLink'
  <1>1. ASSUME NEW n \in DOMAIN guardLog'
        PROVE  IsFail(guardLog'[n]) \/ LoggedSuccess(guardLog[n])'
    <2>1. CASE n \in DOMAIN guardLog
      <3>1. PICK ev : ev = guardLog[n]
        OBVIOUS
      <3>2. guardLog'[n] = ev
        BY <2>1, <3>1, HistoryGrows
      <3>3. IsFail(ev) \/ LoggedSuccess(ev)'
        BY <2>1, <3>1, SuccessLasts DEF OutcomeLink
      <3> QED BY <3>2, <3>3
    <2>2. CASE n \notin DOMAIN guardLog
      BY <1>1, <2>2, HistoryGrows
    <2> QED BY <2>1, <2>2
  <1>2. ASSUME NEW q \in Req, InHistory(q)
        PROVE  InHistory(q)'
    BY <1>2, HistoryGrows DEF InHistory, IsFail
  <1>3. ASSUME IsOn(cfg'.fuzzy_circuit_breaker), NEW q \in Req, Failed(q)',
               \A form \in Forms(q)' : SessionKeys(form) # {}
        PROVE  InHistory(q)'
    <2>1. CASE Failed(q)
      <3>1. Forms(q)' = Forms(q) /\ cfg' = cfg
        BY <2>1, FailedLasts, FailedTold, ToldLasts
      <3> QED BY <1>2, <1>3, <2>1, <3>1 DEF OutcomeLink
    <2>2. CASE ~Failed(q)
      <3>1. OwnStep(q) /\ told'[q].fails # told[q].fails /\ told'[q].fails = 1
        BY <1>3, <2>2, FailsByOwn DEF Failed
      <3>2. Forms(q)' = Forms(q) /\ cfg' = cfg
        <4>1. host[q].stage # "new"
          BY <3>1, TellsEnded
        <4> QED BY <4>1, StageLasts DEF Forms, Sent
      <3>3. \A form \in Forms(q) : RecordedKeys(cfg, SessionKeys(form)) # {}
        BY <1>3, <3>2 DEF RecordedKeys
      <3>4. PICK d \in Delivery : RecordsFailure(q, d)
        <4>1. LogsOutcome(q)
          BY <3>1, OutcomeLogged
        <4> QED BY <3>1, <3>3, <4>1 DEF LogsOutcome
      <3>5. PICK ev : ev = FailureEvent(q, EntryBody(q, comp[q][d].info))
        OBVIOUS
      <3>6. IsFail(ev) /\ ev.payload = q /\ guardLog' = Append(guardLog, ev)
        BY <3>4, <3>5 DEF RecordsFailure, IsFail, FailureEvent
      <3>7. Len(guardLog) + 1 \in DOMAIN guardLog' /\ guardLog'[Len(guardLog) + 1] = ev
        <4>1. guardLog \in Seq(GP!Events)
          BY DEF GP!TypeOK
        <4> QED BY <3>6, <4>1, Longer
      <3> QED BY <3>6, <3>7 DEF InHistory, IsFail
    <2> QED BY <2>1, <2>2
  <1> QED BY <1>1, <1>3 DEF OutcomeLink, IsFail

LEMMA OutcomeLinkHolds == Spec => []OutcomeLink
  <1>1. Init => OutcomeLink
    BY DEF Init, G!Init, E!Init, OutcomeLink, Failed
  <1>2. Known /\ OutcomeLink /\ [Next]_vars => OutcomeLink'
    BY OutcomeLinkStep DEF Known
  <1> QED BY <1>1, <1>2, KnownHolds, PTL DEF Spec

-----------------------------------------------------------------------------
(* The breaker                                                              *)

\* A request that was not answered, and whose body the checker can read.
Listed(r) == asked[r] # NotAsked /\ host[r].verdict # "terminate" /\ asked[r].json

BreakerPaid ==
    \A r \in Req :
        Listed(r) /\ IsOn(cfg.fuzzy_circuit_breaker) /\ InputHashes(asked[r]) # <<>> =>
            \A k \in CheckedKeys(asked[r]) : ~KeepsFailing(r, k)

\* The requests of session k among those of S.
OfSession(S, k) == {q \in S : \E form \in Forms(q) : k \in SessionKeys(form)}

LEMMA Products ==
    ASSUME NEW a \in Nat, NEW b \in Nat, NEW c \in Nat, b <= c
    PROVE  a * c >= b * a
  <1>1. PICK x \in Nat : c = b + x
    <2>1. c - b \in Nat /\ c = b + (c - b)
      OBVIOUS
    <2> QED BY <2>1
  <1>2. a * c = b * a + a * x
    BY <1>1
  <1>3. a * x \in Nat /\ b * a \in Nat
    OBVIOUS
  <1>4. \A y \in Nat, z \in Nat : y + z >= y
    OBVIOUS
  <1> QED BY <1>2, <1>3, <1>4

\* However the threshold is set, an input is similar to itself.
LEMMA SimilarToItself ==
    ASSUME NEW in \in Input, in # <<>>
    PROVE  GP!Similar(in, in)
  <1>1. in \in Seq(Range(in))
    BY PluginAssumption
  <1>2. DOMAIN in = 1..Len(in) /\ Len(in) \in Nat
    BY <1>1
  <1>3. {n \in DOMAIN in : GP!Occurs(in[n], in)} = 1..Len(in)
    BY <1>2 DEF GP!Occurs
  <1>4. Cardinality(1..Len(in)) = Len(in)
    <2>1. 1 \in Int /\ Len(in) \in Int
      BY <1>2
    <2>2. Cardinality(1..Len(in)) = IF 1 > Len(in) THEN 0 ELSE Len(in) - 1 + 1
      BY <2>1, FS_Interval
    <2> QED BY <1>2, <2>2
  <1>5. GP!Shared(in, in) = Len(in)
    BY <1>3, <1>4, GuardCardinality DEF GP!Shared
  <1>6. Len(in) * Threshold.den >= Threshold.num * Len(in)
    <2>1. /\ Threshold.den \in Nat /\ Threshold.num \in Nat
          /\ Threshold.num <= Threshold.den
      BY ThresholdInRange
    <2> QED BY <1>2, <2>1, Products
  <1> QED BY <1>5, <1>6 DEF GP!Similar

LEMMA SameBlocked ==
    ASSUME NEW k, NEW current, GP!Blocked(k, current)
    PROVE  G!Blocked(k, current)
  <1>1. \A last : GP!Similar(current, last) => G!Similar(current, last)
    BY GuardCardinality DEF GP!Similar, G!Similar, GP!Shared, G!Shared, GP!Occurs, G!Occurs
  <1> QED BY <1>1 DEF GP!Blocked, G!Blocked

\* Only finitely many requests were told anything, so two of them are two.
LEMMA TwoOf ==
    ASSUME Known, NEW S, S \subseteq {q \in Req : Told(q)}, Cardinality(S) >= 2
    PROVE  \E a, b \in S : a # b
  <1>1. S \subseteq {q \in Req : asked[q] # NotAsked}
    <2>1. \A q \in Req : Told(q) => asked[q] # NotAsked
      BY AskedFirst, NotEnded DEF Known, Base
    <2> QED BY <2>1
  <1>2. IsFiniteSet(S)
    BY <1>1, FS_Subset DEF Known, Links, FiniteAsked
  <1>3. S # {}
    BY FS_EmptySet
  <1>4. PICK a \in S : TRUE
    BY <1>3
  <1>5. S # {a}
    <2>1. Cardinality({a}) = 1
      BY FS_Singleton
    <2> QED BY <2>1
  <1> QED BY <1>4, <1>5

\* All that the session k was told are failures of the input in, and they are
\* young.
FailsWith(q, k, in) ==
    /\ Failed(q)
    /\ now < told_at[q] + ParseDuration(CircuitTTL, DefaultTTL)
    /\ \A form \in Forms(q) : k \in SessionKeys(form) /\ InputHashes(form) = in

\* What the history then says of the session.
LEMMA RunOf ==
    ASSUME Known, OutcomeLink, NEW k, NEW in, NEW others,
           others = OfSession({q \in Req : Told(q)}, k),
           \A q \in others : FailsWith(q, k, in),
           NEW n \in DOMAIN guardLog, k \in guardLog[n].keys
    PROVE  /\ IsFail(guardLog[n]) /\ guardLog[n].input = in
           /\ now < guardLog[n].at + ParseDuration(CircuitTTL, DefaultTTL)
  <1>1. PICK ev : ev = guardLog[n]
    OBVIOUS
  <1>2. k \in ev.keys /\ (IsFail(ev) \/ LoggedSuccess(ev))
    BY <1>1 DEF OutcomeLink
  <1>3. ~LoggedSuccess(ev)
    <2>1. SUFFICES ASSUME LoggedSuccess(ev) PROVE FALSE
      OBVIOUS
    <2>2. PICK q \in Req : /\ Told(q) /\ told[q].fails = 0
                           /\ \E form \in Forms(q) : ev.keys = SessionKeys(form)
      BY <2>1 DEF LoggedSuccess
    <2>3. q \in others
      BY <1>2, <2>2 DEF OfSession
    <2> QED BY <2>2, <2>3 DEF FailsWith, Failed
  <1>4. IsFail(ev) /\ LoggedFailure(ev)
    BY <1>1, <1>2, <1>3 DEF Known, Links, GuardLink
  <1>5. PICK q : q = ev.payload
    OBVIOUS
  <1>6. PICK form \in Forms(q) : ev.keys = SessionKeys(form) /\ ev.input = InputHashes(form)
    BY <1>4, <1>5 DEF LoggedFailure
  <1>7. q \in Req /\ Failed(q) /\ ev.at = told_at[q]
    BY <1>4, <1>5 DEF LoggedFailure
  <1>8. q \in others
    BY <1>2, <1>6, <1>7, FailedTold DEF OfSession, Known
  <1>9. FailsWith(q, k, in)
    BY <1>8
  <1> QED BY <1>1, <1>4, <1>6, <1>7, <1>9 DEF FailsWith

LEMMA PlaceOf ==
    ASSUME Known, OutcomeLink, NEW k, NEW in, NEW q \in Req, FailsWith(q, k, in),
           IsOn(cfg.fuzzy_circuit_breaker)
    PROVE  \E n \in DOMAIN guardLog : guardLog[n].payload = q /\ k \in guardLog[n].keys
  <1>1. Failed(q) /\ \A form \in Forms(q) : SessionKeys(form) # {}
    BY DEF FailsWith
  <1>2. PICK n \in DOMAIN guardLog : IsFail(guardLog[n]) /\ guardLog[n].payload = q
    BY <1>1 DEF OutcomeLink, InHistory
  <1>3. LoggedFailure(guardLog[n])
    BY <1>2 DEF Known, Links, GuardLink
  <1>4. \E form \in Forms(q) : guardLog[n].keys = SessionKeys(form)
    BY <1>2, <1>3 DEF LoggedFailure
  <1> QED BY <1>2, <1>4 DEF FailsWith

\* The breaker has tripped for a session that keeps failing with an input.
LEMMA KeepsFailingBlocks ==
    ASSUME Known, OutcomeLink, IsOn(cfg.fuzzy_circuit_breaker),
           NEW k \in Session, NEW in \in Input, in # <<>>, NEW others,
           others = OfSession({q \in Req : Told(q)}, k),
           \A q \in others : FailsWith(q, k, in),
           Cardinality(others) >= 2
    PROVE  G!Blocked(k, in)
  <1>1. others \subseteq {q \in Req : Told(q)}
    BY DEF OfSession
  <1>2. PICK a, b \in others : a # b
    BY <1>1, TwoOf
  <1>3. PICK n \in DOMAIN guardLog : guardLog[n].payload = a /\ k \in guardLog[n].keys
    BY <1>1, <1>2, PlaceOf
  <1>4. PICK m \in DOMAIN guardLog : guardLog[m].payload = b /\ k \in guardLog[m].keys
    BY <1>1, <1>2, PlaceOf
  <1>5. \A x \in DOMAIN guardLog : k \in guardLog[x].keys =>
            /\ guardLog[x].kind = "fail" /\ guardLog[x].input = in
            /\ now < guardLog[x].at + ParseDuration(CircuitTTL, DefaultTTL)
    BY RunOf DEF IsFail
  <1>6. DOMAIN guardLog = 1..Len(guardLog) /\ Len(guardLog) \in Nat
    <2>1. guardLog \in Seq(GP!Events)
      BY DEF Known, GP!TypeOK
    <2> QED BY <2>1
  <1> DEFINE run == GP!After(guardLog, k, 0)
  <1>7. n \in run /\ m \in run /\ n # m /\ n \in Nat /\ m \in Nat
    BY <1>2, <1>3, <1>4, <1>6 DEF GP!After
  <1>8. now \in Nat
    BY DEF Known, GP!TypeOK
  <1>9. GP!OnlyFailed(guardLog, k, 0)
    BY <1>5, <1>8 DEF GP!OnlyFailed, GP!After
  <1>10. \A x \in run : guardLog[x].input = in
    BY <1>5 DEF GP!After
  <1>11. PICK i, j \in run : i < j
    BY <1>7
  <1>12. GP!Similar(in, in)
    BY SimilarToItself
  <1> HIDE DEF run
  <1>13. \A p, q \in run : (/\ p < q
                            /\ \A x \in run : p <= x => GP!Similar(in, guardLog[x].input)
                            /\ \A x, y \in run : p <= x /\ x < y =>
                                  GP!Similar(guardLog[y].input, guardLog[x].input))
                           => GP!Blocked(k, in)
    BY <1>9 DEF Known, GP!RepeatsTrip, run
  <1>14. GP!Blocked(k, in)
    BY <1>10, <1>11, <1>12, <1>13
  <1> QED BY <1>14, SameBlocked

LEMMA KeepsFailingMeans ==
    ASSUME NEW r \in Req, NEW k
    PROVE  KeepsFailing(r, k) <=>
              /\ Cardinality(OfSession(before[r].told, k)) >= 2
              /\ \A q \in OfSession(before[r].told, k) :
                    FailsWith(q, k, InputHashes(asked[r]))
  BY DEF KeepsFailing, OfSession, FailsWith

\* The times at which outcomes were recorded are read from the clock.
Timed == \A q \in Req : told_at[q] \in Nat

LEMMA TimedStep ==
    ASSUME Base, now \in Nat, Timed, [Next]_vars
    PROVE  Timed'
  <1>1. CASE told_at' = told_at
    BY <1>1 DEF Timed
  <1>2. CASE UNCHANGED vars \/ Tick \/ EngineOnly
    BY <1>1, <1>2 DEF vars, Tick, EngineOnly, pluginVars
  <1>3. ASSUME NEW r \in Req, told_at' = [told_at EXCEPT ![r] = now]
        PROVE  Timed'
    BY <1>3 DEF Timed, Base, Shape
  <1>4. ASSUME NEW r \in Req, OwnStep(r)
        PROVE  told_at' = told_at \/ told_at' = [told_at EXCEPT ![r] = now]
    <2>1. \A req : AskRefused(r, req) \/ AskBlocked(r, req) \/ AskFurther(r, req) =>
                   told_at' = told_at
      BY DEF AskRefused, AskBlocked, AskFurther, Asks
    <2>2. ItemUnknown(r) \/ ItemRead(r) \/ ItemExpired(r) \/ ItemKnown(r) => told_at' = told_at
      BY DEF ItemUnknown, ItemRead, ItemExpired, ItemKnown
    <2>3. Rewrite(r) \/ Skip(r) \/ Replay(r) \/ Miss(r) => told_at' = told_at
      BY DEF Rewrite, Skip, Replay, Miss
    <2>4. HeaderInit(r) \/ SaveMark(r) \/ End(r) \/ AddSample(r) \/ Mark(r) => told_at' = told_at
      BY DEF HeaderInit, EngineOnly, SaveMark, End, AddSample, Mark, pluginVars
    <2>5. \A original \in Original, fit \in BOOLEAN :
             Response(r, original, fit) => told_at' = [told_at EXCEPT ![r] = now]
      BY DEF Response
    <2>6. \A d \in Delivery : CompleteRecord(r, d) => told_at' = [told_at EXCEPT ![r] = now]
      BY DEF CompleteRecord
    <2> QED BY <1>4, <2>1, <2>2, <2>3, <2>4, <2>5, <2>6 DEF OwnStep
  <1> QED BY <1>1, <1>2, <1>3, <1>4, Steps

LEMMA TimedHolds == Spec => []Timed
  <1>1. Init => Timed
    BY DEF Init, Timed
  <1>2. Known /\ Timed /\ [Next]_vars => Timed'
    BY TimedStep DEF Known, GP!TypeOK
  <1> QED BY <1>1, <1>2, KnownHolds, PTL DEF Spec

\* A session that keeps failing after a step kept failing before it: what was
\* told is told for good, and time only passes.
LEMMA FailedWith ==
    ASSUME Known, Timed, [Next]_vars, NEW k, NEW in, NEW q \in Req, Told(q), FailsWith(q, k, in)'
    PROVE  FailsWith(q, k, in)
  <1>1. /\ told'[q] = told[q] /\ told_at'[q] = told_at[q]
        /\ host'[q].verdict = host[q].verdict /\ Forms(q)' = Forms(q)
    BY ToldLasts DEF Known, Forms, Sent
  <1>2. Failed(q)
    BY <1>1 DEF FailsWith, Failed, SentUpstream
  <1>3. now < told_at[q] + ParseDuration(CircuitTTL, DefaultTTL)
    <2>1. now \in Nat /\ now' \in Nat /\ now' >= now
      BY ClockSteps DEF Known, GP!TypeOK
    <2>2. told_at[q] \in Nat
      BY DEF Timed
    <2>3. ParseDuration(CircuitTTL, DefaultTTL) \in Nat
      BY Durations
    <2>4. now' < told_at[q] + ParseDuration(CircuitTTL, DefaultTTL)
      BY <1>1 DEF FailsWith
    <2> QED BY <2>1, <2>2, <2>3, <2>4
  <1> QED BY <1>1, <1>2, <1>3 DEF FailsWith

LEMMA OfSessionLasts ==
    ASSUME Known, [Next]_vars, NEW k, NEW S, S \subseteq {q \in Req : Told(q)}
    PROVE  OfSession(S, k)' = OfSession(S, k)
  <1>1. \A q \in S : Forms(q)' = Forms(q)
    BY ToldLasts DEF Known, Forms, Sent
  <1> QED BY <1>1 DEF OfSession

\* A request is made by one of three steps.
LEMMA AskedBy ==
    ASSUME Base, [Next]_vars, NEW q \in Req, asked[q] = NotAsked, asked'[q] # NotAsked
    PROVE  \E req \in Request[cfg] : AskRefused(q, req) \/ AskBlocked(q, req) \/ AskFurther(q, req)
  <1>1. ~(UNCHANGED vars \/ Tick \/ EngineOnly)
    BY DEF vars, Tick, EngineOnly, pluginVars
  <1>2. ASSUME NEW r \in Req, OwnStep(r), r # q
        PROVE  FALSE
    BY <1>2, OthersPluginSame DEF Base, PluginSame
  <1>3. ASSUME OwnStep(q)
        PROVE  \E req \in Request[cfg] :
                  AskRefused(q, req) \/ AskBlocked(q, req) \/ AskFurther(q, req)
    <2>1. ~(ItemUnknown(q) \/ ItemRead(q) \/ ItemExpired(q) \/ ItemKnown(q))
      BY DEF ItemUnknown, ItemRead, ItemExpired, ItemKnown
    <2>2. ~(Rewrite(q) \/ Skip(q) \/ Replay(q) \/ Miss(q))
      BY DEF Rewrite, Skip, Replay, Miss
    <2>3. ~(HeaderInit(q) \/ SaveMark(q) \/ End(q) \/ AddSample(q) \/ Mark(q))
      BY DEF HeaderInit, EngineOnly, SaveMark, End, AddSample, Mark, pluginVars
    <2>4. \A original \in Original, fit \in BOOLEAN : ~Response(q, original, fit)
      BY DEF Response
    <2>5. \A d \in Delivery : ~CompleteRecord(q, d)
      BY DEF CompleteRecord
    <2> QED BY <1>3, <2>1, <2>2, <2>3, <2>4, <2>5 DEF OwnStep
  <1> QED BY <1>1, <1>2, <1>3, Steps

\* A request that the rules let go on is one that no circuit blocks.
LEMMA NotBlocked ==
    ASSUME Known, Past, Timed, OutcomeLink, [Next]_vars, NEW r \in Req, NEW req \in Request[cfg],
           AskFurther(r, req), req.json, InputHashes(req) # <<>>,
           IsOn(cfg.fuzzy_circuit_breaker), NEW k \in CheckedKeys(req)
    PROVE  ~KeepsFailing(r, k)'
  <1>1. PICK S : S = {q \in Req : Told(q)}
    OBVIOUS
  <1>2. PICK in : in = InputHashes(req)
    OBVIOUS
  <1>3. asked'[r] = req /\ before'[r].told = S
    <2>1. r \in DOMAIN asked /\ r \in DOMAIN before
      BY DEF Known, Base, Shape, Past
    <2> QED BY <1>1, <2>1 DEF AskFurther, Asks
  <1>4. IsRequest(req)
    BY Requests DEF Known, Base, Shape
  <1>5. k \in KeysToCheck(req) /\ k \in Session /\ in \in Input /\ in # <<>>
    BY <1>2, <1>4 DEF IsRequest, KeysToCheck, NotExamined, FastPass, BreakerKeys
  <1>6. ~G!Blocked(k, in)
    BY <1>2, <1>5 DEF AskFurther
  <1>7. SUFFICES ASSUME KeepsFailing(r, k)' PROVE FALSE
    OBVIOUS
  <1>8. /\ Cardinality(OfSession(before[r].told, k)') >= 2
        /\ \A q \in OfSession(before[r].told, k)' :
              FailsWith(q, k, InputHashes(asked[r]))'
    BY <1>7 DEF KeepsFailing, OfSession, FailsWith
  <1>9. PICK others : others = OfSession(S, k)
    OBVIOUS
  <1>10. OfSession(before[r].told, k)' = others
    <2>1. OfSession(before[r].told, k)' = OfSession(S, k)'
      BY <1>3 DEF OfSession
    <2> QED BY <1>1, <1>9, <2>1, OfSessionLasts
  <1>11. ASSUME NEW q \in others
         PROVE  FailsWith(q, k, in)
    <2>1. q \in Req /\ Told(q)
      BY <1>1, <1>9 DEF OfSession
    <2>2. FailsWith(q, k, InputHashes(asked[r]))'
      BY <1>8, <1>10
    <2>3. FailsWith(q, k, in)'
      BY <1>2, <1>3, <2>2 DEF FailsWith
    <2> QED BY <2>1, <2>3, FailedWith
  <1>12. Cardinality(others) >= 2
    BY <1>8, <1>10
  <1>13. G!Blocked(k, in)
    BY <1>1, <1>5, <1>9, <1>11, <1>12, KeepsFailingBlocks
  <1> QED BY <1>6, <1>13

\* A request that was made and is listed after a step was listed before it.
LEMMA ListedBefore ==
    ASSUME Base, [Next]_vars, NEW r \in Req, asked[r] # NotAsked, asked'[r] = asked[r],
           Listed(r)'
    PROVE  Listed(r)
  <1>1. host[r].verdict = "terminate" => host[r].stage # "new"
    BY DEF Base, Order, OrderOf, HostOrder
  <1>2. host[r].verdict = "terminate" => host'[r].verdict = "terminate"
    BY <1>1, StageLasts
  <1> QED BY <1>2 DEF Listed

\* A new request is listed when neither the rules nor the breaker answered it.
LEMMA ListedNew ==
    ASSUME Base, [Next]_vars, NEW r \in Req, asked[r] = NotAsked, Listed(r)'
    PROVE  \E req \in Request[cfg] : AskFurther(r, req)
  <1>1. asked'[r] # NotAsked
    BY DEF Listed
  <1>2. PICK req \in Request[cfg] :
           AskRefused(r, req) \/ AskBlocked(r, req) \/ AskFurther(r, req)
    BY <1>1, AskedBy
  <1>3. host'[r].verdict # "terminate"
    BY DEF Listed
  <1>4. \A stream, m : ~Answer(r, stream, m)
    BY <1>3, BeforeDoes DEF Answer, Base
  <1> QED BY <1>2, <1>4 DEF AskRefused, AskBlocked

LEMMA BreakerPaidStep ==
    ASSUME Known, Past, Timed, OutcomeLink, BreakerPaid, [Next]_vars
    PROVE  BreakerPaid'
  <1>0. Base
    BY DEF Known
  <1> SUFFICES ASSUME NEW r \in Req, Listed(r)', IsOn(cfg'.fuzzy_circuit_breaker),
                      InputHashes(asked'[r]) # <<>>, NEW k \in CheckedKeys(asked'[r])
               PROVE  ~KeepsFailing(r, k)'
    BY DEF BreakerPaid
  <1>1. CASE asked[r] # NotAsked
    <2>1. /\ before'[r] = before[r] /\ asked'[r] = asked[r] /\ cfg' = cfg
      BY <1>0, <1>1, MadeOnce
    <2>2. Listed(r)
      BY <1>0, <1>1, <2>1, ListedBefore
    <2>3. ~KeepsFailing(r, k)
      BY <2>1, <2>2 DEF BreakerPaid
    <2>4. PICK S, in : S = before[r].told /\ in = InputHashes(asked[r])
      OBVIOUS
    <2>5. S \subseteq {q \in Req : Told(q)}
      BY <2>4 DEF Past
    <2>6. ASSUME KeepsFailing(r, k)'
          PROVE  KeepsFailing(r, k)
      <3>1. /\ Cardinality(OfSession(before[r].told, k)') >= 2
            /\ \A q \in OfSession(before[r].told, k)' :
                  FailsWith(q, k, InputHashes(asked[r]))'
        BY <2>6 DEF KeepsFailing, OfSession, FailsWith
      <3>2. OfSession(before[r].told, k)' = OfSession(S, k)
        <4>1. OfSession(before[r].told, k)' = OfSession(S, k)'
          BY <2>1, <2>4 DEF OfSession
        <4> QED BY <2>5, <4>1, OfSessionLasts
      <3>3. ASSUME NEW q \in OfSession(S, k)
            PROVE  FailsWith(q, k, in)
        <4>1. q \in Req /\ Told(q)
          BY <2>5 DEF OfSession
        <4>2. FailsWith(q, k, InputHashes(asked[r]))'
          BY <3>1, <3>2
        <4>3. FailsWith(q, k, in)'
          BY <2>1, <2>4, <4>2 DEF FailsWith
        <4> QED BY <4>1, <4>3, FailedWith
      <3> QED BY <2>4, <3>1, <3>2, <3>3, KeepsFailingMeans
    <2> QED BY <2>3, <2>6
  <1>2. CASE asked[r] = NotAsked
    <2>1. PICK req \in Request[cfg] : AskFurther(r, req)
      BY <1>0, <1>2, ListedNew
    <2>2. asked'[r] = req /\ cfg' = cfg
      <3>1. r \in DOMAIN asked
        BY <1>0 DEF Base, Shape
      <3> QED BY <2>1, <3>1 DEF AskFurther, Asks
    <2>3. req.json
      BY <2>2 DEF Listed
    <2> QED BY <2>1, <2>2, <2>3, NotBlocked
  <1> QED BY <1>1, <1>2

LEMMA BreakerPaidHolds == Spec => []BreakerPaid
  <1>1. Init => BreakerPaid
    BY DEF Init, BreakerPaid, Listed
  <1> QED
    BY <1>1, BreakerPaidStep, KnownHolds, PastHolds, TimedHolds, OutcomeLinkHolds, PTL DEF Spec

-----------------------------------------------------------------------------
(* The list of invalid items                                                *)

ItemLife == ParseDuration(ItemTTL, DefaultTTL)

OnlyDead(q, i) == \A x \in Req : Dead(x, i) => x = q

\* Request q alone was told that item i is invalid, and that is not long ago.
Names(q, i) ==
    /\ Failed(q) /\ NamesInvalidItem(result[q]) /\ result[q].names = i
    /\ OnlyDead(q, i)
    /\ now < told_at[q] + ItemLife

\* The list of items, and those who look at it, know times no earlier than those
\* that belong to the failures, as a mark is set some time after its failure was
\* told; and what one failure alone named is there once its mark was set.
ItemLink ==
    /\ \A i \in DOMAIN items : items[i].expire >= told_at[items[i].payload] + ItemLife
    /\ \A r \in Req : pc[r].at = "check" =>
          \E x \in Req : Dead(x, pc[r].item) /\ pc[r].expire >= told_at[x] + ItemLife
    /\ \A r \in Req : hook[r].at = "mark" => told_at[r] <= now
    /\ \A q \in Req : \A i : Names(q, i) /\ hook[q].at # "mark" => i \in DOMAIN items

\* What a step does to the second sections that are left to run.
LEMMA PcChanges ==
    ASSUME NEW r \in Req, OwnStep(r)
    PROVE  \/ pc' = pc \/ ItemRead(r)
           \/ pc' = [pc EXCEPT ![r] = G!Idle]
           \/ pc' = [pc EXCEPT ![r] = [at |-> "save"]]
  <1>1. UNCHANGED guardVars => pc' = pc
    BY DEF guardVars
  <1>2. \A req : AskRefused(r, req) \/ AskBlocked(r, req) \/ AskFurther(r, req) => pc' = pc
    BY <1>1 DEF AskRefused, AskBlocked, AskFurther, Asks
  <1>3. ItemUnknown(r) \/ Rewrite(r) \/ Skip(r) \/ Replay(r) \/ Miss(r) => pc' = pc
    BY <1>1 DEF ItemUnknown, Rewrite, Skip, Replay, Miss
  <1>4. HeaderInit(r) \/ End(r) \/ AddSample(r) => pc' = pc
    BY <1>1 DEF HeaderInit, EngineOnly, End, AddSample
  <1>5. ItemKnown(r) \/ ItemExpired(r) \/ SaveMark(r) => pc' = [pc EXCEPT ![r] = G!Idle]
    BY DEF ItemKnown, ItemExpired, SaveMark, G!IsInvalidHit, G!IsInvalidDelete,
           G!MarkInvalidSave
  <1>6. Mark(r) => pc' = [pc EXCEPT ![r] = [at |-> "save"]]
    BY DEF Mark, G!MarkInvalidSet
  <1>7. \A original \in Original, fit \in BOOLEAN : Response(r, original, fit) => pc' = pc
    BY <1>1 DEF Response, RecordSuccess, G!RecordSuccess
  <1>8. \A d \in Delivery : CompleteRecord(r, d) => pc' = pc
    BY <1>1 DEF CompleteRecord, RecordSuccess, RecordFailure, G!RecordSuccess, G!RecordFailure
  <1> QED BY <1>2, <1>3, <1>4, <1>5, <1>6, <1>7, <1>8 DEF OwnStep

\* An item leaves the list when it has expired, or when one who read it finds
\* that what was read has.
LEMMA ItemsKept ==
    ASSUME GP!TypeOK, NEW r \in Req, OwnStep(r), NEW i \in DOMAIN items, now < items[i].expire
    PROVE  i \in DOMAIN items' \/ (ItemExpired(r) /\ pc[r].item = i)
  <1>1. UNCHANGED guardVars => items' = items
    BY DEF guardVars
  <1>2. ASSUME NEW cs, G!SaveLocked(items, cs)
        PROVE  i \in DOMAIN items'
    BY <1>2 DEF G!SaveLocked, G!LiveItems, G!Keep
  <1>3. \A req : AskRefused(r, req) \/ AskBlocked(r, req) \/ AskFurther(r, req) => items' = items
    BY <1>1 DEF AskRefused, AskBlocked, AskFurther, Asks
  <1>4. ItemUnknown(r) \/ Rewrite(r) \/ Skip(r) \/ Replay(r) \/ Miss(r) => items' = items
    BY <1>1 DEF ItemUnknown, Rewrite, Skip, Replay, Miss
  <1>5. HeaderInit(r) \/ End(r) \/ AddSample(r) => items' = items
    BY <1>1 DEF HeaderInit, EngineOnly, End, AddSample
  <1>6. ItemRead(r) \/ ItemKnown(r) => items' = items
    BY DEF ItemRead, ItemKnown, G!IsInvalidRead, G!IsInvalidHit
  <1>7. ItemExpired(r) => i \in DOMAIN items' \/ pc[r].item = i
    <2>1. i \in Item
      BY DEF GP!TypeOK, GP!IsMap
    <2> QED BY <2>1 DEF ItemExpired, G!IsInvalidDelete, G!Keep
  <1>8. Mark(r) => i \in DOMAIN items'
    BY DEF Mark, G!MarkInvalidSet, G!Put
  <1>9. SaveMark(r) => i \in DOMAIN items'
    BY <1>2 DEF SaveMark, G!MarkInvalidSave
  <1>10. \A original \in Original, fit \in BOOLEAN : Response(r, original, fit) => items' = items
    BY SuccessLogged DEF Response
  <1>11. ASSUME NEW d \in Delivery, CompleteRecord(r, d)
         PROVE  i \in DOMAIN items'
    <2> DEFINE req == EntryBody(r, comp[r][d].info)
    <2>1. \/ RecordSuccess(req)
          \/ RecordFailure(r, req, result[r].status)
          \/ UNCHANGED guardVars
      BY <1>11 DEF CompleteRecord
    <2> HIDE DEF req
    <2>2. CASE RecordFailure(r, req, result[r].status)
      BY <1>1, <1>2, <2>2 DEF RecordFailure, G!RecordFailure
    <2> QED BY <1>1, <2>1, <2>2, SuccessLogged
  <1> QED
    BY <1>3, <1>4, <1>5, <1>6, <1>7, <1>8, <1>9, <1>10, <1>11 DEF OwnStep

\* A failure is told by request.complete, which then marks the item it names.
LEMMA FailsInRecord ==
    ASSUME Base, NEW r \in Req, OwnStep(r), told'[r].fails # told[r].fails
    PROVE  \E d \in Delivery : CompleteRecord(r, d)
  <1> USE DEF Base
  <1>1. UNCHANGED engineVars => FALSE
    BY DEF engineVars
  <1>2. \A stream, m : ~Answer(r, stream, m)
    BY BeforeDoes DEF Answer
  <1>3. \A req : ~AskRefused(r, req) /\ ~AskBlocked(r, req) /\ ~AskFurther(r, req)
    BY <1>1, <1>2 DEF AskRefused, AskBlocked, AskFurther
  <1>4. ~(ItemUnknown(r) \/ ItemRead(r) \/ ItemExpired(r) \/ ItemKnown(r))
    BY <1>1, <1>2 DEF ItemUnknown, ItemRead, ItemExpired, ItemKnown
  <1>5. ~(Rewrite(r) \/ Skip(r) \/ Replay(r) \/ Miss(r))
    BY <1>2, BeforeDoes DEF Rewrite, Skip, Replay, Miss
  <1>6. ~(HeaderInit(r) \/ End(r))
    BY HeaderInitDoes, EndDoes DEF HeaderInit, End
  <1>7. ~(AddSample(r) \/ Mark(r) \/ SaveMark(r))
    BY <1>1 DEF AddSample, Mark, SaveMark
  <1>8. \A original \in Original, fit \in BOOLEAN : ~Response(r, original, fit)
    BY ResponseDoes DEF Response
  <1> QED BY <1>3, <1>4, <1>5, <1>6, <1>7, <1>8 DEF OwnStep

LEMMA FailureMarks ==
    ASSUME Base, [Next]_vars, NEW q \in Req, Failed(q)', ~Failed(q),
           NamesInvalidItem(result'[q])
    PROVE  hook'[q].at = "mark"
  <1>1. OwnStep(q) /\ told'[q].fails # told[q].fails
    BY FailsByOwn
  <1>2. PICK d \in Delivery : CompleteRecord(q, d)
    BY <1>1, FailsInRecord
  <1>3. E!CompleteRecord(q, d, TRUE) /\ result' = result /\ q \in DOMAIN hook
    BY <1>2 DEF CompleteRecord, Base, Shape
  <1>4. told'[q].samples = told[q].samples
    <2>1. RecordStep(q, d)
      BY <1>3, CompleteRecordDoes DEF Base
    <2> QED BY <1>1, <2>1 DEF RecordStep
  <1> QED BY <1>1, <1>2, <1>3, <1>4 DEF CompleteRecord, Then

LEMMA DeadTimes ==
    ASSUME Base, [Next]_vars, NEW x, NEW i, Dead(x, i)
    PROVE  Dead(x, i)' /\ told_at'[x] = told_at[x]
  BY DeadLasts, FailedLasts DEF Dead

LEMMA ExpiryKept ==
    ASSUME Known, Timed, ItemLink, [Next]_vars, NEW i \in DOMAIN items'
    PROVE  items'[i].expire >= told_at'[items'[i].payload] + ItemLife
  <1>1. ASSUME Fewer(items, items')
        PROVE  items'[i].expire >= told_at'[items'[i].payload] + ItemLife
    <2>1. PICK x : x = items[i].payload
      OBVIOUS
    <2>2. i \in DOMAIN items /\ items'[i] = items[i]
      BY <1>1 DEF Fewer
    <2>3. told_at'[x] = told_at[x]
      BY <2>1, <2>2, DeadTimes DEF Known, Links, MarkLink
    <2>4. items[i].expire >= told_at[x] + ItemLife
      BY <2>1, <2>2 DEF ItemLink
    <2> QED BY <2>1, <2>2, <2>3, <2>4
  <1>2. ASSUME NEW r \in Req, Mark(r)
        PROVE  items'[i].expire >= told_at'[items'[i].payload] + ItemLife
    <2>1. /\ hook[r].at = "mark" /\ told_at' = told_at
          /\ G!MarkInvalidSet(r, hook[r].item, r)
      BY <1>2 DEF Mark
    <2>2. PICK c \in G!ClockReads :
             items' = G!Put(items, hook[r].item, [expire |-> G!ItemExpiry(c), payload |-> r])
      BY <2>1 DEF G!MarkInvalidSet
    <2>3. c = now
      <3>1. now \in Nat
        BY DEF Known, GP!TypeOK
      <3>2. c \in 0..now /\ now <= c + 0
        BY <2>2 DEF G!ClockReads
      <3> QED BY <3>1, <3>2
    <2>4. now + ItemLife >= told_at[r] + ItemLife
      <3>1. told_at[r] <= now
        BY <2>1 DEF ItemLink
      <3>2. told_at[r] \in Nat /\ now \in Nat /\ ItemLife \in Nat
        BY Durations DEF Known, GP!TypeOK, Timed, ItemLife
      <3> QED BY ONLY <3>1, <3>2
    <2>5. CASE i = hook[r].item
      <3>1. items'[i] = [expire |-> G!ItemExpiry(c), payload |-> r]
        BY <2>2, <2>5 DEF G!Put
      <3>2. items'[i].expire = now + ItemLife /\ items'[i].payload = r
        BY <2>3, <3>1 DEF G!ItemExpiry, ItemLife
      <3> QED BY <2>1, <2>4, <3>2
    <2>6. CASE i # hook[r].item
      <3>1. i \in DOMAIN items /\ items'[i] = items[i]
        BY <2>2, <2>6 DEF G!Put
      <3> QED BY <2>1, <3>1 DEF ItemLink
    <2> QED BY <2>5, <2>6
  <1>3. CASE UNCHANGED vars \/ Tick \/ EngineOnly
    <2>1. items' = items
      BY <1>3 DEF vars, Tick, EngineOnly, guardVars
    <2> QED BY <1>1, <2>1 DEF Fewer
  <1>4. ASSUME NEW r \in Req, OwnStep(r)
        PROVE  Fewer(items, items') \/ Mark(r)
    BY <1>4, GuardChanges DEF Known
  <1> QED BY <1>1, <1>2, <1>3, <1>4, Steps

ReadTime(i, e) == \E x \in Req : Dead(x, i) /\ e >= told_at[x] + ItemLife

LEMMA ReadTimeKept ==
    ASSUME Known, ItemLink, [Next]_vars, NEW r \in Req, pc'[r].at = "check"
    PROVE  ReadTime(pc[r].item, pc[r].expire)'
  <1>1. ASSUME NEW i, NEW e, ReadTime(i, e)
        PROVE  ReadTime(i, e)'
    BY <1>1, DeadTimes DEF ReadTime, Known
  <1>2. DOMAIN pc = Req
    BY DEF Known, GP!TypeOK
  <1>3. CASE pc'[r] = pc[r]
    <2>1. PICK i, e : i = pc[r].item /\ e = pc[r].expire
      OBVIOUS
    <2>2. ReadTime(i, e)
      BY <1>3, <2>1 DEF ItemLink, ReadTime
    <2>3. ReadTime(i, e)'
      BY <1>1, <2>2
    <2> QED BY <1>3, <2>1, <2>3 DEF ReadTime
  <1>4. CASE UNCHANGED vars \/ Tick \/ EngineOnly
    BY <1>3, <1>4 DEF vars, Tick, EngineOnly, guardVars
  <1>5. CASE ItemRead(r)
    <2>1. PICK i : i = Head(hook[r].todo)
      OBVIOUS
    <2>2. i \in DOMAIN items /\ pc'[r] = [at |-> "check", item |-> i, expire |-> items[i].expire]
      BY <1>2, <1>5, <2>1 DEF ItemRead, G!IsInvalidRead
    <2>3. PICK e : e = items[i].expire
      OBVIOUS
    <2>4. ReadTime(i, e)
      BY <2>2, <2>3 DEF ItemLink, ReadTime, Known, Links, MarkLink, Dead
    <2>5. ReadTime(i, e)' /\ pc'[r].item = i /\ pc'[r].expire = e
      BY <1>1, <2>2, <2>3, <2>4
    <2> QED BY <2>5 DEF ReadTime
  <1>6. ASSUME NEW q \in Req, OwnStep(q)
        PROVE  pc'[r] = pc[r] \/ ItemRead(r)
    <2>1. CASE pc' = pc
      BY <2>1
    <2>2. CASE ItemRead(q)
      BY <1>2, <2>2 DEF ItemRead, G!IsInvalidRead
    <2>3. CASE pc' = [pc EXCEPT ![q] = G!Idle] \/ pc' = [pc EXCEPT ![q] = [at |-> "save"]]
      BY <1>2, <2>3 DEF G!Idle
    <2> QED BY <1>6, <2>1, <2>2, <2>3, PcChanges
  <1> QED BY <1>3, <1>4, <1>5, <1>6, Steps

\* An item is marked no earlier than its failure was told.
LEMMA MarksLater ==
    ASSUME Known, Timed, ItemLink, [Next]_vars, NEW r \in Req, hook'[r].at = "mark"
    PROVE  told_at'[r] <= now'
  <1>0. Base
    BY DEF Known
  <1>1. CASE hook'[r] = hook[r]
    <2>1. Told(r)
      BY <1>0, <1>1 DEF Base, Order, OrderOf, HookOrder
    <2>2. told_at'[r] = told_at[r]
      BY <1>0, <2>1, ToldLasts
    <2>3. told_at[r] <= now
      BY <1>1 DEF ItemLink
    <2>4. told_at[r] \in Nat /\ now \in Nat /\ now' \in Nat /\ now' >= now
      BY <1>0, ClockSteps DEF Known, GP!TypeOK, Timed
    <2> QED BY <2>2, <2>3, <2>4
  <1>2. CASE UNCHANGED vars \/ Tick \/ EngineOnly
    BY <1>1, <1>2 DEF vars, Tick, EngineOnly, pluginVars
  <1>4. ASSUME NEW q \in Req, OwnStep(q)
        PROVE  now' = now /\ now \in Nat
    BY <1>0, <1>4, OwnGuardStep DEF Base, Known, GP!TypeOK
  <1>5. ASSUME NEW q \in Req, OwnStep(q), q # r
        PROVE  told_at'[r] <= now'
    BY <1>0, <1>1, <1>5, OthersPluginSame DEF Base, PluginSame
  <1>6. ASSUME OwnStep(r)
        PROVE  told_at'[r] <= now'
    <2>0. r \in DOMAIN hook /\ r \in DOMAIN told_at
      BY <1>0 DEF Base, Shape
    <2>1. \A req : ~(AskRefused(r, req) \/ AskBlocked(r, req) \/ AskFurther(r, req))
      BY <2>0 DEF AskRefused, AskBlocked, AskFurther, Answer, Then, Resting, Examining
    <2>2. ~(ItemUnknown(r) \/ ItemRead(r) \/ ItemExpired(r) \/ ItemKnown(r))
      BY <2>0 DEF ItemUnknown, ItemRead, ItemExpired, ItemKnown, Answer, Then, Resting, Examining
    <2>3. ~(Rewrite(r) \/ Skip(r) \/ Replay(r) \/ Miss(r))
      BY <2>0 DEF Rewrite, Skip, Replay, Miss, Answer, Then, Resting
    <2>4. ~(AddSample(r) \/ Mark(r))
      BY <2>0 DEF AddSample, Mark, Then, Resting
    <2>5. \A original \in Original, fit \in BOOLEAN : ~Response(r, original, fit)
      BY <2>0 DEF Response, Then, Resting
    <2>6. CASE HeaderInit(r) \/ End(r) \/ SaveMark(r)
      <3>1. hook' = hook
        BY <2>6 DEF HeaderInit, End, SaveMark, EngineOnly, pluginVars
      <3> QED BY <1>1, <3>1
    <2>7. ASSUME NEW d \in Delivery, CompleteRecord(r, d)
          PROVE  told_at'[r] = now
      BY <2>0, <2>7 DEF CompleteRecord
    <2> QED BY <1>4, <1>6, <2>1, <2>2, <2>3, <2>4, <2>5, <2>6, <2>7 DEF OwnStep
  <1> QED BY <1>2, <1>5, <1>6, Steps

LEMMA NamesBefore ==
    ASSUME Known, Timed, [Next]_vars, NEW q \in Req, Told(q), NEW i, Names(q, i)'
    PROVE  Names(q, i)
  <1>1. /\ told'[q] = told[q] /\ told_at'[q] = told_at[q] /\ result'[q] = result[q]
        /\ host'[q].verdict = host[q].verdict
    BY ToldLasts DEF Known
  <1>2. Failed(q) /\ NamesInvalidItem(result[q]) /\ result[q].names = i
    BY <1>1 DEF Names, Failed, SentUpstream
  <1>3. OnlyDead(q, i)
    <2>1. \A x \in Req : Dead(x, i) => Dead(x, i)'
      BY DeadLasts DEF Known
    <2> QED BY <2>1 DEF Names, OnlyDead
  <1>4. now < told_at[q] + ItemLife
    <2>1. now \in Nat /\ now' \in Nat /\ now' >= now
      BY ClockSteps DEF Known, GP!TypeOK
    <2>2. told_at[q] \in Nat /\ ItemLife \in Nat
      BY Durations DEF Timed, ItemLife
    <2>3. now' < told_at[q] + ItemLife
      BY <1>1 DEF Names
    <2> QED BY <2>1, <2>2, <2>3
  <1> QED BY <1>2, <1>3, <1>4 DEF Names

\* What expires later than a lifetime after the failure has not expired either.
LEMMA StillLater ==
    ASSUME GP!TypeOK, Timed, NEW q \in Req, now < told_at[q] + ItemLife,
           NEW e \in Nat, e >= told_at[q] + ItemLife
    PROVE  now < e
  BY Durations DEF GP!TypeOK, Timed, ItemLife

\* What one failure alone named, and not long ago, is neither dropped by a save
\* nor deleted by one who looked it up.
LEMMA NamedStays ==
    ASSUME Known, Timed, ItemLink, [Next]_vars, NEW q \in Req, NEW i, Names(q, i),
           i \in DOMAIN items
    PROVE  i \in DOMAIN items'
  <1>1. CASE UNCHANGED vars \/ Tick \/ EngineOnly
    BY <1>1 DEF vars, Tick, EngineOnly, guardVars
  <1>2. now < items[i].expire
    <2>1. Dead(items[i].payload, i)
      BY DEF Known, Links, MarkLink
    <2>2. items[i].payload = q
      BY <2>1 DEF Names, OnlyDead, Dead
    <2>3. items[i].expire \in Nat
      BY DEF Known, GP!TypeOK, GP!IsMap, GP!InvalidItem
    <2> QED BY <2>2, <2>3, StillLater DEF Names, ItemLink, Known
  <1>3. ASSUME NEW r \in Req, ItemExpired(r), pc[r].item = i
        PROVE  FALSE
    <2>1. pc[r].at = "check" /\ now > pc[r].expire
      BY <1>3 DEF ItemExpired, G!IsInvalidDelete
    <2>2. PICK x \in Req : Dead(x, i) /\ pc[r].expire >= told_at[x] + ItemLife
      BY <1>3, <2>1 DEF ItemLink
    <2>3. x = q
      BY <2>2 DEF Names, OnlyDead
    <2>4. pc[r].expire \in Nat /\ now \in Nat
      BY <2>1 DEF Known, GP!TypeOK, GP!PcStates, GP!Idle
    <2>5. now < pc[r].expire
      BY <2>2, <2>3, <2>4, StillLater DEF Names, Known
    <2> QED BY <2>1, <2>4, <2>5
  <1>4. ASSUME NEW r \in Req, OwnStep(r)
        PROVE  i \in DOMAIN items'
    BY <1>2, <1>3, <1>4, ItemsKept DEF Known
  <1> QED BY <1>1, <1>4, Steps

LEMMA NamedKept ==
    ASSUME Known, Timed, ItemLink, [Next]_vars, NEW q \in Req, NEW i, Names(q, i)',
           hook'[q].at # "mark"
    PROVE  i \in DOMAIN items'
  <1>0. Base
    BY DEF Known
  <1>1. CASE ~Failed(q)
    <2>1. Failed(q)' /\ NamesInvalidItem(result'[q])
      BY DEF Names
    <2> QED BY <1>0, <1>1, <2>1, FailureMarks
  <1>2. CASE Failed(q) /\ hook[q].at # "mark"
    <2>1. Names(q, i)
      BY <1>0, <1>2, FailedTold, NamesBefore
    <2>2. i \in DOMAIN items
      BY <1>2, <2>1 DEF ItemLink
    <2> QED BY <2>1, <2>2, NamedStays
  <1>3. CASE Failed(q) /\ hook[q].at = "mark"
    <2>1. Told(q)
      BY <1>0, <1>3, FailedTold
    <2>2. hook'[q] # hook[q]
      BY <1>3
    <2>3. ~(UNCHANGED vars \/ Tick \/ EngineOnly)
      BY <2>2 DEF vars, Tick, EngineOnly, pluginVars
    <2>4. \A r \in Req : OwnStep(r) => r = q
      BY <1>0, <2>2, OthersPluginSame DEF Base, PluginSame
    <2>5. OwnStep(q)
      BY <2>3, <2>4, Steps
    <2>6. Mark(q)
      <3>1. ~AddSample(q)
        BY <1>3 DEF AddSample
      <3>2. ~SaveMark(q)
        BY <2>2 DEF SaveMark, pluginVars
      <3> QED BY <1>0, <2>1, <2>5, <3>1, <3>2, ToldSteps
    <2>7. result[q].names = hook[q].item
      BY <1>3 DEF Known, Links, MarkLink, MarkOrder, Dead
    <2>8. result[q].names = i
      BY <2>6 DEF Names, Mark
    <2> QED BY <2>6, <2>7, <2>8 DEF Mark, G!MarkInvalidSet, G!Put
  <1> QED BY <1>1, <1>2, <1>3

LEMMA ItemLinkStep ==
    ASSUME Known, Timed, ItemLink, [Next]_vars
    PROVE  ItemLink'
  <1>1. \A i \in DOMAIN items' : items'[i].expire >= told_at'[items'[i].payload] + ItemLife
    BY ExpiryKept
  <1>2. \A r \in Req : pc'[r].at = "check" => ReadTime(pc[r].item, pc[r].expire)'
    BY ReadTimeKept
  <1>3. \A r \in Req : hook'[r].at = "mark" => told_at'[r] <= now'
    BY MarksLater
  <1>4. \A q \in Req : \A i : Names(q, i)' /\ hook'[q].at # "mark" => i \in DOMAIN items'
    BY NamedKept
  <1> QED BY <1>1, <1>2, <1>3, <1>4 DEF ItemLink, ReadTime

LEMMA ItemLinkHolds == Spec => []ItemLink
  <1>1. Init => ItemLink
    <2>1. ASSUME Init
          PROVE  ItemLink
      <3>1. /\ DOMAIN items = {} /\ \A r \in Req : pc[r] = G!Idle /\ hook[r] = Resting
            /\ \A q \in Req : ~Failed(q)
        BY <2>1 DEF Init, G!Init, G!NoEntries, E!Init, Failed
      <3> QED BY <3>1 DEF ItemLink, Names, G!Idle, Resting
    <2> QED BY <2>1
  <1>2. Known /\ Timed /\ ItemLink /\ [Next]_vars => ItemLink'
    BY ItemLinkStep
  <1> QED BY <1>1, <1>2, KnownHolds, TimedHolds, PTL DEF Spec

\* Request r has still to look at item i.
ToCheck(r, i) ==
    \/ hook[r].at \in {"items", "item"} /\ i \in Range(hook[r].todo)
    \/ hook[r].at = "item" /\ pc[r].at = "check" /\ pc[r].item = i

ItemsPaid ==
    \A r \in Req : Listed(r) /\ IsOn(cfg.block_invalid_signatures) =>
        \A i \in Range(ItemIds(asked[r])) : ToCheck(r, i) \/ ~KnownDead(r, i)

LEMMA KnownMeans ==
    ASSUME NEW r \in Req, NEW i, before[r].done \subseteq Req
    PROVE  KnownDead(r, i) <=> \E q \in before[r].done : Names(q, i)
  <1>1. ASSUME NEW q \in before[r].done,
               {x \in Req : Failed(x) /\ NamesInvalidItem(result[x]) /\ result[x].names = i} = {q}
        PROVE  /\ Failed(q) /\ NamesInvalidItem(result[q]) /\ result[q].names = i
               /\ OnlyDead(q, i)
    BY <1>1 DEF NamesInvalidItem, OnlyDead, Dead
  <1>2. ASSUME NEW q \in before[r].done, Failed(q), NamesInvalidItem(result[q]),
               result[q].names = i, OnlyDead(q, i)
        PROVE  {x \in Req : Failed(x) /\ NamesInvalidItem(result[x]) /\ result[x].names = i} = {q}
    BY <1>2 DEF NamesInvalidItem, OnlyDead, Dead
  <1> QED BY <1>1, <1>2 DEF KnownDead, Names, ItemLife

LEMMA KnownBefore ==
    ASSUME Known, Past, Timed, [Next]_vars, NEW r \in Req, asked[r] # NotAsked, NEW i,
           KnownDead(r, i)'
    PROVE  KnownDead(r, i)
  <1>1. PICK done : done = before[r].done
    OBVIOUS
  <1>2. before'[r].done = done
    BY <1>1, MadeOnce DEF Known
  <1>3. \A q \in done : q \in Req /\ Told(q)
    BY <1>1 DEF Past
  <1>4. \E q \in done : Names(q, i)'
    <2>1. before'[r].done \subseteq Req
      BY <1>2, <1>3
    <2>2. ASSUME NEW q \in done,
                 {x \in Req : Failed(x)' /\ NamesInvalidItem(result'[x])
                              /\ result'[x].names = i} = {q},
                 now' < told_at'[q] + ItemLife
          PROVE  Names(q, i)'
      BY <2>2 DEF NamesInvalidItem, OnlyDead, Dead, Names
    <2> QED BY <1>2, <2>1, <2>2 DEF KnownDead, ItemLife
  <1>5. \E q \in done : Names(q, i)
    BY <1>3, <1>4, NamesBefore
  <1> QED BY <1>1, <1>3, <1>5, KnownMeans

\* What is known to be dead is in the list.
LEMMA KnownListed ==
    ASSUME Past, ItemLink, NEW r \in Req, NEW i, KnownDead(r, i)
    PROVE  /\ i \in DOMAIN items
           /\ \E q \in Req : OnlyDead(q, i) /\ now < told_at[q] + ItemLife
  <1>1. PICK q \in before[r].done : Names(q, i)
    BY KnownMeans DEF Past
  <1>2. q \in Req /\ hook[q] = Resting
    BY DEF Past
  <1> QED BY <1>1, <1>2 DEF ItemLink, Names, Resting

LEMMA HeadOrTail ==
    ASSUME NEW S, NEW s \in Seq(S), s # <<>>, NEW i \in Range(s)
    PROVE  i = Head(s) \/ i \in Range(Tail(s))
  <1>1. PICK n \in 1..Len(s) : i = s[n]
    BY DEF Range
  <1>2. CASE n = 1
    BY <1>1, <1>2
  <1>3. CASE n # 1
    <2>1. n - 1 \in 1..Len(Tail(s)) /\ Tail(s)[n - 1] = s[n]
      BY <1>3
    <2>2. DOMAIN Tail(s) = 1..Len(Tail(s))
      OBVIOUS
    <2> QED BY <1>1, <2>1, <2>2 DEF Range
  <1> QED BY <1>2, <1>3

\* A request that looks at its items leaves none out that is known to be dead.
LEMMA ExaminesAll ==
    ASSUME Known, Past, Timed, ItemLink, [Next]_vars, NEW r \in Req, OwnStep(r),
           asked[r] # NotAsked, host'[r].verdict # "terminate",
           NEW i, ToCheck(r, i), KnownDead(r, i)
    PROVE  ToCheck(r, i)'
  <1>0. Base
    BY DEF Known
  <1> USE <1>0
  <1>1. /\ r \in DOMAIN hook /\ r \in DOMAIN pc
        /\ hook[r].at \in {"items", "item"} /\ hook[r].todo \in Seq(Item)
        /\ host[r].stage = "new"
    BY DEF ToCheck, Known, Base, Shape, Order, OrderOf, HookOrder, GP!TypeOK
  <1>2. \A stream, m : ~Answer(r, stream, m)
    BY BeforeDoes DEF Answer, Base
  <1>3. \A req : ~(AskRefused(r, req) \/ AskBlocked(r, req) \/ AskFurther(r, req))
    BY DEF AskRefused, AskBlocked, AskFurther, Asks
  <1>4. ~ItemKnown(r) /\ ~Replay(r)
    BY <1>2 DEF ItemKnown, Replay
  <1>5. ~Rewrite(r) /\ ~Skip(r) /\ ~Miss(r)
    <2>1. ~Examined(r)
      BY <1>1 DEF Examined, ToCheck, Range
    <2> QED BY <2>1 DEF Rewrite, Skip, Miss, LooksUp
  <1>6. ~AddSample(r) /\ ~Mark(r)
    BY <1>1 DEF AddSample, Mark
  <1>7. /\ ~HeaderInit(r) /\ ~End(r)
        /\ \A original \in Original, fit \in BOOLEAN : ~Response(r, original, fit)
    BY <1>1, HeaderInitDoes, EndDoes, ResponseDoes DEF HeaderInit, End, Response, Base
  <1>8. \A d \in Delivery : ~CompleteRecord(r, d)
    <2>1. \A d \in Delivery : E!CompleteRecord(r, d, TRUE) => comp[r][d].at = "record"
      <3>1. \A d \in Delivery : E!CompleteRecord(r, d, TRUE) => RecordStep(r, d)
        BY CompleteRecordDoes DEF Base
      <3> QED BY <3>1 DEF RecordStep
    <2>2. \A d \in Delivery : comp[r][d].at # "record"
      BY <1>1, Recording DEF Base
    <2> QED BY <2>1, <2>2 DEF CompleteRecord
  <1>9. CASE SaveMark(r)
    <2>1. hook' = hook /\ pc[r].at = "save"
      BY <1>9 DEF SaveMark, pluginVars, G!MarkInvalidSave
    <2> QED BY <2>1 DEF ToCheck
  <1>10. CASE ItemUnknown(r)
    <2>1. /\ hook[r].at = "items" /\ hook[r].todo # <<>>
          /\ Head(hook[r].todo) \notin DOMAIN items
          /\ hook'[r] = [at |-> "items", todo |-> Tail(hook[r].todo)]
      BY <1>1, <1>10 DEF ItemUnknown, Examines, Then, Examining
    <2>2. i \in Range(hook[r].todo)
      BY <2>1 DEF ToCheck
    <2>3. i \in DOMAIN items
      BY KnownListed
    <2>4. i \in Range(Tail(hook[r].todo))
      BY <1>1, <2>1, <2>2, <2>3, HeadOrTail
    <2> QED BY <2>1, <2>4 DEF ToCheck
  <1>11. CASE ItemRead(r)
    <2>1. /\ hook[r].at = "items" /\ hook[r].todo # <<>>
          /\ hook'[r].at = "item" /\ hook'[r].todo = Tail(hook[r].todo)
          /\ pc'[r].at = "check" /\ pc'[r].item = Head(hook[r].todo)
      BY <1>1, <1>11 DEF ItemRead, Examines, Then, G!IsInvalidRead
    <2>2. i \in Range(hook[r].todo)
      BY <2>1 DEF ToCheck
    <2>3. i = Head(hook[r].todo) \/ i \in Range(Tail(hook[r].todo))
      BY <1>1, <2>1, <2>2, HeadOrTail
    <2> QED BY <2>1, <2>3 DEF ToCheck
  <1>12. CASE ItemExpired(r)
    <2>1. /\ pc[r].at = "check" /\ now > pc[r].expire
          /\ hook'[r] = [at |-> "items", todo |-> hook[r].todo]
      BY <1>1, <1>12 DEF ItemExpired, Then, Examining, G!IsInvalidDelete
    <2>2. ASSUME pc[r].item = i
          PROVE  FALSE
      <3>1. PICK x \in Req : Dead(x, i) /\ pc[r].expire >= told_at[x] + ItemLife
        BY <2>1, <2>2 DEF ItemLink
      <3>2. PICK q \in Req : OnlyDead(q, i) /\ now < told_at[q] + ItemLife
        BY KnownListed
      <3>3. x = q
        BY <3>1, <3>2 DEF OnlyDead
      <3>4. pc[r].expire \in Nat /\ now \in Nat
        BY <2>1 DEF Known, GP!TypeOK, GP!PcStates, GP!Idle
      <3>5. now < pc[r].expire
        BY <3>1, <3>2, <3>3, <3>4, StillLater DEF Known
      <3> QED BY <2>1, <3>4, <3>5
    <2>3. i \in Range(hook[r].todo)
      BY <2>2 DEF ToCheck
    <2> QED BY <2>1, <2>3 DEF ToCheck
  <1> QED
    BY <1>3, <1>4, <1>5, <1>6, <1>7, <1>8, <1>9, <1>10, <1>11, <1>12 DEF OwnStep

LEMMA ItemsPaidStep ==
    ASSUME Known, Past, Timed, ItemLink, ItemsPaid, [Next]_vars
    PROVE  ItemsPaid'
  <1>0. Base
    BY DEF Known
  <1> SUFFICES ASSUME NEW r \in Req, Listed(r)', IsOn(cfg'.block_invalid_signatures),
                      NEW i \in Range(ItemIds(asked'[r])), KnownDead(r, i)'
               PROVE  ToCheck(r, i)'
    BY DEF ItemsPaid, Range
  <1>1. CASE asked[r] # NotAsked
    <2>1. asked'[r] = asked[r] /\ cfg' = cfg
      BY <1>0, <1>1, MadeOnce
    <2>2. Listed(r)
      BY <1>0, <1>1, <2>1, ListedBefore
    <2>3. KnownDead(r, i)
      BY <1>1, KnownBefore
    <2>4. ToCheck(r, i)
      <3>1. i \in Range(ItemIds(asked[r]))
        BY <2>1
      <3> QED BY <2>1, <2>2, <2>3, <3>1 DEF ItemsPaid
    <2>5. CASE hook'[r] = hook[r] /\ pc'[r] = pc[r]
      BY <2>4, <2>5 DEF ToCheck
    <2>6. CASE UNCHANGED vars \/ Tick \/ EngineOnly
      BY <2>5, <2>6 DEF vars, Tick, EngineOnly, guardVars, pluginVars
    <2>7. ASSUME NEW q \in Req, OwnStep(q), q # r
          PROVE  ToCheck(r, i)'
      <3>1. hook'[r] = hook[r]
        BY <1>0, <2>7, OthersPluginSame DEF Base, PluginSame
      <3>2. r \in DOMAIN pc
        BY DEF Known, GP!TypeOK
      <3>3. ItemRead(q) => pc'[r] = pc[r]
        BY <2>7, <3>2 DEF ItemRead, G!IsInvalidRead
      <3>4. pc'[r] = pc[r]
        BY <2>7, <3>2, <3>3, PcChanges
      <3> QED BY <2>5, <3>1, <3>4
    <2>8. ASSUME OwnStep(r)
          PROVE  ToCheck(r, i)'
      <3>1. host'[r].verdict # "terminate"
        BY DEF Listed
      <3> QED BY <1>1, <2>3, <2>4, <2>8, <3>1, ExaminesAll
    <2> QED BY <2>6, <2>7, <2>8, Steps
  <1>2. CASE asked[r] = NotAsked
    <2>1. PICK req \in Request[cfg] : AskFurther(r, req)
      BY <1>0, <1>2, ListedNew
    <2>2. /\ asked'[r] = req /\ cfg' = cfg
          /\ hook'[r] = [at |-> "items", todo |-> IdsToCheck(req)]
      <3>1. r \in DOMAIN asked /\ r \in DOMAIN hook
        BY <1>0 DEF Base, Shape
      <3> QED BY <2>1, <3>1 DEF AskFurther, Asks, Then, Examining
    <2>3. IsRequest(req)
      BY <1>0, Requests DEF Base, Shape
    <2>4. ItemIds(req) # <<>>
      <3>1. i \in Range(ItemIds(req))
        BY <2>2
      <3> QED BY <3>1 DEF Range
    <2>5. req.json /\ req.size # 0
      BY <2>2, <2>3 DEF Listed, IsRequest
    <2>6. IdsToCheck(req) = ItemIds(req)
      BY <2>2, <2>4, <2>5 DEF IdsToCheck, NotExamined, FastPass, ExaminedIds
    <2> QED BY <2>2, <2>6 DEF ToCheck
  <1> QED BY <1>1, <1>2

LEMMA ItemsPaidHolds == Spec => []ItemsPaid
  <1>1. Init => ItemsPaid
    BY DEF Init, ItemsPaid, Listed
  <1> QED
    BY <1>1, ItemsPaidStep, KnownHolds, PastHolds, TimedHolds, ItemLinkHolds, PTL DEF Spec

-----------------------------------------------------------------------------
\* What is known to fail is not sent upstream (checker.go:53-123,
\* state/store.go:65-196): a request of a session that failed twice with its
\* input, and one with an item the upstream could not verify, however hooks,
\* saves and the clock interleave: for every threshold, lifetime and
\* configuration.
THEOREM KnownBadAlwaysRefused == Spec => []RefusesKnownBad
  <1>1. Known /\ BreakerPaid /\ ItemsPaid => RefusesKnownBad
    <2> SUFFICES ASSUME Known, BreakerPaid, ItemsPaid,
                        NEW r \in Req, SentUpstream(r), asked[r].json
                 PROVE  /\ IsOn(cfg.fuzzy_circuit_breaker) /\ InputHashes(asked[r]) # <<>>
                              => \A k \in CheckedKeys(asked[r]) : ~KeepsFailing(r, k)
                        /\ IsOn(cfg.block_invalid_signatures)
                              => \A i \in Range(ItemIds(asked[r])) : ~KnownDead(r, i)
      BY DEF RefusesKnownBad
    <2>0. Base
      BY DEF Known
    <2>1. host[r].stage # "new"
      BY <2>0 DEF Base, Order, OrderOf, HostOrder, SentUpstream
    <2>2. asked[r] # NotAsked
      BY <2>0, <2>1, AskedFirst DEF Base
    <2>3. Listed(r)
      BY <2>2 DEF Listed, SentUpstream
    <2>4. \A i : ~ToCheck(r, i)
      BY <2>0, <2>1 DEF ToCheck, Base, Order, OrderOf, HookOrder
    <2> QED BY <2>3, <2>4 DEF BreakerPaid, ItemsPaid
  <1> QED BY <1>1, KnownHolds, BreakerPaidHolds, ItemsPaidHolds, PTL
=============================================================================
