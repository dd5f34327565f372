---------------------------- MODULE EngineProofs ----------------------------
(***************************************************************************)
(* Theorems about Engine, for every set of requests and deliveries, every  *)
(* frame length, cap and cutoff: its types, the bound of the stream text,  *)
(* and, from one inductive invariant per request, what the checker and the *)
(* probe cache are told of it.                                             *)
(***************************************************************************)
EXTENDS Engine, TLAPS

-----------------------------------------------------------------------------
(* The inductive invariant, for one request q                               *)

\* Which hook call of a request may be under way at which stage of it.
InOrder(q) ==
    /\ call[q].at = "insert" => host[q].stage = "sent"
    /\ call[q].at \in {"init", "chunk"} => host[q].stage = "streaming"
    /\ call[q].at = "init" => host[q].sent = 0
    /\ call[q].at = "delete" => host[q].stage = "ended" /\ told[q].oks = 1
    /\ \A d \in Delivery : comp[q][d].at # "unsent" => host[q].stage = "ended" /\ Idle(q)
    /\ host[q].stage \in {"new", "sent", "answered"} => host[q].sent = 0
    /\ host[q].stage # "ended" => host[q].outcome = "none"
    /\ host[q].stage = "new" => q \notin DOMAIN pending

Recording(q) == \E d \in Delivery : comp[q][d].at = "record"

\* No delivery of the completion of q has come to the pending map.
NotTaken(q) == \A d \in Delivery : comp[q][d].at \in {"unsent", "take"}

Outcomes(q) == told[q].oks + told[q].fails

\* Whoever holds the right to tell the outcome of q holds it alone: the
\* pending entry, one delivery that took it, or nobody once it was told.
OneTeller(q) ==
    /\ host[q].stage # "ended" => Outcomes(q) = 0
    /\ Outcomes(q) <= 1
    /\ told[q].oks = 1 => host[q].outcome \in {"succeeded", "broken"}
    /\ told[q].fails = 1 => host[q].outcome = "failed"
    /\ told[q].samples # <<>> => host[q].outcome = "succeeded"
    /\ ~NotTaken(q) => q \notin DOMAIN pending
    /\ Outcomes(q) = 1 /\ call[q].at # "delete" => q \notin DOMAIN pending
    /\ \A d, e \in Delivery :
          comp[q][d].at = "record" /\ comp[q][e].at = "record" => d = e
    /\ Recording(q) => Outcomes(q) = 0
    /\ Len(told[q].samples) <= told[q].oks

\* x, an entry or a sample, was cut or holds n frames.
Holds(x, n) == x.cut \/ x.whole = n

\* No frame of q is lost on the way from the host to a sample, unless the
\* entry says so; the frame of a waiting call counts as under way.
FramesKept(q) ==
    /\ ~leaked /\ q \in DOMAIN pending =>
          Holds(pending[q], host[q].sent - IF call[q].at = "chunk" THEN 1 ELSE 0)
    /\ \A d \in Delivery :
          comp[q][d].at = "record" => Holds(comp[q][d].info, host[q].sent)
    /\ \A n \in DOMAIN told[q].samples : Holds(told[q].samples[n], host[q].sent)

\* What was told of q is how it ended.
TellsHowEnded(q) ==
    /\ host[q].outcome = "failed" => told[q].fails = 1
    /\ host[q].outcome \in {"succeeded", "broken"} => told[q].oks = 1

\* A request that intercept_before tracked and the janitor spared has its
\* entry, or what became of it, under the hash of its original body.
TrackedKept(q) ==
    host[q].verdict = "track" /\ q \notin evicted =>
        /\ call[q].at # "insert" /\ NotTaken(q) => q \in DOMAIN pending \/ told[q].oks = 1
        /\ NotTaken(q) \/ Recording(q) \/ TellsHowEnded(q)
        /\ q \in DOMAIN pending => pending[q].basis = "original"
        /\ \A d \in Delivery :
              comp[q][d].at = "record" => comp[q][d].info.basis = "original"
        /\ host[q].stream =>
              \A n \in DOMAIN told[q].samples : told[q].samples[n].basis = "original"

\* The sample of a request that is not streamed is that of the response hook.
UnstreamedKept(q) ==
    /\ host[q].stage = "streaming" => host[q].stream
    /\ ~host[q].stream =>
        /\ q \in DOMAIN pending => ~pending[q].stream
        /\ \A d \in Delivery : comp[q][d].at = "record" => ~comp[q][d].info.stream
        /\ \A n \in DOMAIN told[q].samples :
              told[q].samples[n].basis = ResponseBasis(host[q].original)

InvOf(q) ==
    InOrder(q) /\ OneTeller(q) /\ FramesKept(q) /\ TrackedKept(q) /\ UnstreamedKept(q)

Inv == \A q \in Req : InvOf(q)

-----------------------------------------------------------------------------
(* Types *)

LEMMA NewInfoType ==
    ASSUME NEW basis \in {"original", "upstream"}, NEW stream \in BOOLEAN
    PROVE  NewInfo(basis, stream) \in PendingInfo
  BY EngineAssumption DEF NewInfo, PendingInfo

LEMMA AccumulatedType ==
    ASSUME NEW p \in PendingInfo, NEW n \in FrameLen
    PROVE  Accumulated(p, n) \in PendingInfo
  <1> DEFINE len   == IF Fits(p, n) THEN p.len + n + 2 ELSE Cap
             whole == IF Fits(p, n) THEN p.whole + 1 ELSE p.whole
             cut   == p.cut \/ ~Fits(p, n)
  <1>1. n \in Nat /\ Cap \in Nat /\ Cutoff \in Nat
    BY EngineAssumption
  <1>2. len \in Nat /\ whole \in Nat
    BY <1>1 DEF PendingInfo
  <1>3. cut \in BOOLEAN
    OBVIOUS
  <1>4. Accumulated(p, n) = [basis |-> p.basis, stream |-> p.stream, age |-> 0,
                             len |-> len, whole |-> whole, cut |-> cut]
    BY DEF Accumulated, PendingInfo
  <1> HIDE DEF len, whole, cut
  <1> QED BY <1>1, <1>2, <1>3, <1>4 DEF PendingInfo

\* EndedIs and SentIs spell out the records that the EXCEPTs of the model make.
LEMMA EndedIs ==
    ASSUME NEW h \in HostState, NEW o \in Outcome
    PROVE  /\ Ended(h, o) = [stage |-> "ended", stream |-> h.stream,
                             verdict |-> h.verdict, outcome |-> o,
                             original |-> h.original, sent |-> h.sent]
           /\ Ended(h, o) \in HostState
  <1> DEFINE g == [h EXCEPT !.stage = "ended"]
  <1>1. g = [stage |-> "ended", stream |-> h.stream, verdict |-> h.verdict,
             outcome |-> h.outcome, original |-> h.original, sent |-> h.sent]
    BY DEF HostState
  <1>2. g \in HostState
    BY <1>1 DEF HostState
  <1>3. Ended(h, o) = [g EXCEPT !.outcome = o]
    BY DEF Ended, HostState
  <1> HIDE DEF g
  <1>4. [g EXCEPT !.outcome = o]
           = [stage |-> g.stage, stream |-> g.stream, verdict |-> g.verdict,
              outcome |-> o, original |-> g.original, sent |-> g.sent]
    BY <1>2 DEF HostState
  <1>5. Ended(h, o) = [stage |-> "ended", stream |-> h.stream,
                       verdict |-> h.verdict, outcome |-> o,
                       original |-> h.original, sent |-> h.sent]
    BY <1>1, <1>3, <1>4
  <1> QED BY <1>5 DEF HostState

LEMMA RespondedIs ==
    ASSUME NEW h \in HostState, NEW original \in BOOLEAN
    PROVE  /\ [Ended(h, "succeeded") EXCEPT !.original = original]
                = [stage |-> "ended", stream |-> h.stream, verdict |-> h.verdict,
                   outcome |-> "succeeded", original |-> original, sent |-> h.sent]
           /\ [Ended(h, "succeeded") EXCEPT !.original = original] \in HostState
  <1> DEFINE g == Ended(h, "succeeded")
  <1>1. /\ g = [stage |-> "ended", stream |-> h.stream, verdict |-> h.verdict,
                outcome |-> "succeeded", original |-> h.original, sent |-> h.sent]
        /\ g \in HostState
    BY EndedIs DEF Outcome
  <1> HIDE DEF g
  <1>2. [g EXCEPT !.original = original]
           = [stage |-> g.stage, stream |-> g.stream, verdict |-> g.verdict,
              outcome |-> g.outcome, original |-> original, sent |-> g.sent]
    BY <1>1 DEF HostState
  <1>3. [g EXCEPT !.original = original]
           = [stage |-> "ended", stream |-> h.stream, verdict |-> h.verdict,
              outcome |-> "succeeded", original |-> original, sent |-> h.sent]
    BY <1>1, <1>2
  <1>4. [g EXCEPT !.original = original] \in HostState
    BY <1>3 DEF HostState, Outcome
  <1> QED BY <1>3, <1>4 DEF g

LEMMA SentIs ==
    ASSUME NEW h \in HostState
    PROVE  [h EXCEPT !.sent = @ + 1]
              = [stage |-> h.stage, stream |-> h.stream, verdict |-> h.verdict,
                 outcome |-> h.outcome, original |-> h.original, sent |-> h.sent + 1]
  BY DEF HostState

LEMMA HostStepType ==
    ASSUME TypeOK, NEW r \in Req, HostStep(r)
    PROVE  TypeOK'
  <1>1. ASSUME NEW stream \in BOOLEAN, NEW v \in Verdict, Before(r, stream, v)
        PROVE  TypeOK'
    <2>1. host' \in [Req -> HostState]
      <3> DEFINE stage == IF v = "terminate" THEN "answered" ELSE "sent"
      <3>1. stage \in {"answered", "sent"}
        OBVIOUS
      <3> HIDE DEF stage
      <3>2. [stage |-> stage, stream |-> stream, verdict |-> v, outcome |-> "none",
             original |-> FALSE, sent |-> 0] \in HostState
        BY <3>1 DEF HostState
      <3> QED BY <1>1, <3>2 DEF Before, TypeOK, stage
    <2>2. call' \in [Req -> CallState]
      BY <1>1 DEF Before, TypeOK, CallState
    <2> QED BY <1>1, <2>1, <2>2 DEF Before, TypeOK
  <1>2. ASSUME NEW eligible \in BOOLEAN, HeaderInit(r, eligible)
        PROVE  TypeOK'
    <2>1. host' \in [Req -> HostState]
      <3>1. host' = [host EXCEPT ![r].stage = "streaming"]
        BY <1>2 DEF HeaderInit
      <3>2. \A h \in HostState : [h EXCEPT !.stage = "streaming"] \in HostState
        BY DEF HostState
      <3> QED BY <3>1, <3>2 DEF TypeOK
    <2>2. call' \in [Req -> CallState]
      BY <1>2 DEF HeaderInit, TypeOK, CallState
    <2> QED BY <1>2, <2>1, <2>2 DEF HeaderInit, TypeOK
  <1>3. ASSUME NEW n \in FrameLen, Chunk(r, n)
        PROVE  TypeOK'
    <2>1. host' \in [Req -> HostState]
      <3>1. [host[r] EXCEPT !.sent = @ + 1] \in HostState
        <4>1. host[r] \in HostState
          BY DEF TypeOK
        <4> QED BY <4>1, SentIs DEF HostState
      <3>2. host' = [host EXCEPT ![r] = [host[r] EXCEPT !.sent = @ + 1]]
        BY <1>3 DEF Chunk
      <3> QED BY <3>1, <3>2 DEF TypeOK
    <2>2. call' \in [Req -> CallState]
      BY <1>3 DEF Chunk, TypeOK, CallState
    <2> QED BY <1>3, <2>1, <2>2 DEF Chunk, TypeOK
  <1>4. ASSUME NEW original \in Original, NEW collect \in BOOLEAN,
               Response(r, original, collect)
        PROVE  TypeOK'
    <2>1. host' \in [Req -> HostState]
      <3>1. [Ended(host[r], "succeeded") EXCEPT !.original = original] \in HostState
        BY RespondedIs, EngineAssumption DEF TypeOK
      <3> QED BY <1>4, <3>1 DEF Response, TypeOK
    <2>2. call' \in [Req -> CallState]
      BY <1>4 DEF Response, TypeOK, CallState
    <2>3. told' \in [Req -> Heard]
      <3> DEFINE sample == [basis |-> ResponseBasis(original), whole |-> 0, cut |-> FALSE]
      <3>1. told[r] \in Heard /\ sample \in SampleRecord
        BY DEF TypeOK, SampleRecord, ResponseBasis
      <3> HIDE DEF sample
      <3>2. (IF collect THEN Append(told[r].samples, sample) ELSE told[r].samples)
               \in Seq(SampleRecord)
        BY <3>1 DEF Heard
      <3>3. told[r].oks + 1 \in Nat /\ told[r].fails \in Nat
        BY <3>1 DEF Heard
      <3> QED BY <1>4, <3>2, <3>3 DEF Response, TypeOK, Heard, sample
    <2> QED BY <1>4, <2>1, <2>2, <2>3 DEF Response, TypeOK
  <1>5. ASSUME NEW o \in Outcome, End(r, o)
        PROVE  TypeOK'
    <2>1. host' \in [Req -> HostState]
      BY <1>5, EndedIs DEF End, TypeOK
    <2> QED BY <1>5, <2>1 DEF End, TypeOK
  <1>6. ASSUME NEW d \in Delivery, Deliver(r, d)
        PROVE  TypeOK'
    BY <1>6 DEF Deliver, TypeOK, CompState
  <1> QED BY <1>1, <1>2, <1>3, <1>4, <1>5, <1>6 DEF HostStep

LEMMA PutType ==
    ASSUME TypeOK, NEW r \in Req, NEW p \in PendingInfo
    PROVE  /\ DOMAIN PutIfAbsent(pending, r, p) \subseteq Req
           /\ \A x \in DOMAIN PutIfAbsent(pending, r, p) :
                 PutIfAbsent(pending, r, p)[x] \in PendingInfo
  BY DEF TypeOK, PutIfAbsent

LEMMA WithoutType ==
    ASSUME TypeOK, NEW S
    PROVE  /\ DOMAIN Without(pending, S) \subseteq Req
           /\ \A x \in DOMAIN Without(pending, S) : Without(pending, S)[x] \in PendingInfo
  BY DEF TypeOK, Without

LEMMA HookStepType ==
    ASSUME TypeOK, NEW r \in Req, HookStep(r)
    PROVE  TypeOK'
  <1>0. Return(r) => call' \in [Req -> CallState]
    BY DEF Return, TypeOK, CallState
  <1>1. CASE BeforeInsert(r)
    <2>1. NewInfo("original", host[r].stream) \in PendingInfo
      BY NewInfoType DEF TypeOK, HostState
    <2> QED BY <1>0, <1>1, <2>1, PutType DEF BeforeInsert, TypeOK
  <1>2. CASE HeaderInitInsert(r)
    <2>1. NewInfo("upstream", TRUE) \in PendingInfo
      BY NewInfoType
    <2> QED BY <1>0, <1>2, <2>1, PutType DEF HeaderInitInsert, TypeOK
  <1>3. CASE ChunkAccumulate(r)
    <2>1. call[r].len \in FrameLen
      BY <1>3 DEF ChunkAccumulate, TypeOK, CallState
    <2>2. r \in DOMAIN pending => Accumulated(pending[r], call[r].len) \in PendingInfo
      BY <2>1, AccumulatedType DEF TypeOK
    <2> QED BY <1>0, <1>3, <2>2 DEF ChunkAccumulate, TypeOK
  <1>4. CASE ChunkPanic(r)
    BY <1>0, <1>4 DEF ChunkPanic, TypeOK
  <1>5. CASE ResponseDelete(r)
    BY <1>0, <1>5, WithoutType DEF ResponseDelete, TypeOK
  <1> QED BY <1>1, <1>2, <1>3, <1>4, <1>5 DEF HookStep

\* What a delivery takes is the entry, but for its age.
LEMMA TakenEntry ==
    ASSUME TypeOK, NEW r \in DOMAIN pending
    PROVE  /\ Taken(r).at = "record" /\ Taken(r) \in CompState
           /\ Taken(r).info.basis = pending[r].basis
           /\ Taken(r).info.stream = pending[r].stream
           /\ Taken(r).info.whole = pending[r].whole
           /\ Taken(r).info.cut = pending[r].cut
  <1> DEFINE p == pending[r]
  <1>1. p \in PendingInfo /\ 0 \in 0..Cutoff+1
    BY EngineAssumption DEF TypeOK
  <1>2. [p EXCEPT !.age = 0] \in PendingInfo
    BY <1>1 DEF PendingInfo
  <1>3. /\ [p EXCEPT !.age = 0].basis = p.basis
        /\ [p EXCEPT !.age = 0].stream = p.stream
        /\ [p EXCEPT !.age = 0].whole = p.whole
        /\ [p EXCEPT !.age = 0].cut = p.cut
    BY <1>1 DEF PendingInfo
  <1>4. Taken(r) = [at |-> "record", info |-> [p EXCEPT !.age = 0]]
    BY DEF Taken
  <1>5. Taken(r) \in CompState
    BY <1>2, <1>4 DEF CompState
  <1> HIDE DEF p
  <1>6. Taken(r).at = "record" /\ Taken(r).info = [p EXCEPT !.age = 0]
    BY <1>4
  <1> QED BY <1>3, <1>5, <1>6 DEF p

LEMMA CompleteStepType ==
    ASSUME TypeOK, NEW r \in Req, NEW d \in Delivery, CompleteStep(r, d)
    PROVE  TypeOK'
  <1>1. CASE CompleteTake(r, d)
    <2>1. Taken(r) \in CompState
      BY TakenEntry DEF Taken, CompState
    <2> QED BY <1>1, <2>1, WithoutType DEF CompleteTake, TypeOK
  <1>2. ASSUME NEW fit \in BOOLEAN, CompleteRecord(r, d, fit)
        PROVE  TypeOK'
    <2>1. comp[r][d].info \in PendingInfo
      BY <1>2 DEF CompleteRecord, TypeOK, CompState
    <2>2. StreamSamples(comp[r][d].info, fit) \in Seq(SampleRecord)
      <3>1. [basis |-> comp[r][d].info.basis, whole |-> comp[r][d].info.whole,
             cut |-> comp[r][d].info.cut] \in SampleRecord
        BY <2>1 DEF PendingInfo, SampleRecord
      <3> QED BY <3>1 DEF StreamSamples
    <2>3. told[r].samples \o StreamSamples(comp[r][d].info, fit) \in Seq(SampleRecord)
      BY <2>2 DEF TypeOK, Heard
    <2>4. told' \in [Req -> Heard]
      <3> DEFINE ok == host[r].outcome = "succeeded"
                 p  == comp[r][d].info
                 heard == [oks |-> IF TellSuccess(r) THEN told[r].oks + 1
                                   ELSE told[r].oks,
                           fails |-> IF TellFailure(r, p) THEN told[r].fails + 1
                                     ELSE told[r].fails,
                           samples |-> IF ok THEN told[r].samples \o StreamSamples(p, fit)
                                       ELSE told[r].samples]
      <3>1. told[r] \in Heard
        BY DEF TypeOK
      <3>2. heard \in Heard
        BY <2>3, <3>1 DEF Heard
      <3>3. told' = [told EXCEPT ![r] = heard]
        BY <1>2 DEF CompleteRecord
      <3> HIDE DEF heard
      <3> QED BY <3>2, <3>3 DEF TypeOK
    <2>5. comp' \in [Req -> [Delivery -> CompState]]
      BY <1>2 DEF CompleteRecord, TypeOK, CompState
    <2> QED BY <1>2, <2>4, <2>5 DEF CompleteRecord, TypeOK
  <1> QED BY <1>1, <1>2 DEF CompleteStep

LEMMA JanitorType ==
    ASSUME TypeOK, Sweep \/ Tick
    PROVE  TypeOK'
  <1>1. CASE Sweep
    <2>1. evicted' \subseteq Req
      BY <1>1 DEF Sweep, Stale, TypeOK
    <2> QED BY <1>1, <2>1, WithoutType DEF Sweep, TypeOK
  <1>2. CASE Tick
    <2>1. ASSUME NEW p \in PendingInfo
          PROVE  [p EXCEPT !.age = IF @ > Cutoff THEN @ ELSE @ + 1] \in PendingInfo
      <3> DEFINE age == IF p.age > Cutoff THEN p.age ELSE p.age + 1
      <3>1. age \in 0..Cutoff+1
        BY EngineAssumption DEF PendingInfo
      <3> HIDE DEF age
      <3>2. [p EXCEPT !.age = age] \in PendingInfo
        BY <3>1 DEF PendingInfo
      <3> QED BY <3>2 DEF age
    <2> QED BY <1>2, <2>1 DEF Tick, TypeOK
  <1> QED BY <1>1, <1>2

\* Every reachable state has the shape of Engine and pendingInfo.
THEOREM TypeCorrect == Spec => []TypeOK
  <1>1. Init => TypeOK
    <2> SUFFICES ASSUME Init PROVE TypeOK
      OBVIOUS
    <2>1. host \in [Req -> HostState]
      BY DEF Init, HostState
    <2>2. call \in [Req -> CallState]
      BY DEF Init, CallState
    <2>3. comp \in [Req -> [Delivery -> CompState]]
      BY DEF Init, CompState
    <2>4. told \in [Req -> Heard]
      BY DEF Init, Heard
    <2> QED BY <2>1, <2>2, <2>3, <2>4 DEF Init, TypeOK
  <1>2. TypeOK /\ [Next]_vars => TypeOK'
    <2> SUFFICES ASSUME TypeOK, [Next]_vars PROVE TypeOK'
      OBVIOUS
    <2>1. CASE UNCHANGED vars
      BY <2>1 DEF vars, TypeOK
    <2>2. CASE Next
      BY <2>2, HostStepType, HookStepType, CompleteStepType, JanitorType DEF Next
    <2> QED BY <2>1, <2>2
  <1> QED BY <1>1, <1>2, PTL DEF Spec

-----------------------------------------------------------------------------
(* Steps that leave a request alone *)

SameEntry(q) ==
    /\ (q \in DOMAIN pending') <=> (q \in DOMAIN pending)
    /\ q \in DOMAIN pending =>
          /\ pending'[q].basis = pending[q].basis
          /\ pending'[q].whole = pending[q].whole
          /\ pending'[q].cut = pending[q].cut
          /\ pending'[q].stream = pending[q].stream

Undisturbed(q) ==
    /\ leaked => leaked'
    /\ host'[q] = host[q]
    /\ call'[q] = call[q]
    /\ comp'[q] = comp[q]
    /\ told'[q] = told[q]
    /\ q \in evicted => q \in evicted'
    /\ SameEntry(q)

LEMMA TrackedSame ==
    ASSUME NEW q \in Req, TrackedKept(q),
           host'[q].verdict = host[q].verdict, host'[q].outcome = host[q].outcome,
           host'[q].stream = host[q].stream,
           call'[q].at # "insert" => call[q].at # "insert",
           comp'[q] = comp[q], told'[q] = told[q],
           q \in evicted => q \in evicted', SameEntry(q)
    PROVE  TrackedKept(q)'
  <1>1. /\ NotTaken(q)' <=> NotTaken(q)
        /\ Recording(q)' <=> Recording(q)
    BY DEF NotTaken, Recording
  <1> SUFFICES ASSUME host[q].verdict = "track", q \notin evicted
               PROVE  TrackedKept(q)'
    BY DEF TrackedKept
  <1>2. ASSUME call'[q].at # "insert", NotTaken(q)'
        PROVE  q \in DOMAIN pending' \/ told'[q].oks = 1
    BY <1>1, <1>2 DEF TrackedKept, SameEntry
  <1>3. NotTaken(q)' \/ Recording(q)' \/ TellsHowEnded(q)'
    BY <1>1 DEF TrackedKept, TellsHowEnded
  <1>4. /\ q \in DOMAIN pending' => pending'[q].basis = "original"
        /\ \A d \in Delivery :
              comp'[q][d].at = "record" => comp'[q][d].info.basis = "original"
        /\ host'[q].stream =>
              \A n \in DOMAIN told'[q].samples : told'[q].samples[n].basis = "original"
    BY DEF TrackedKept, SameEntry
  <1> QED BY <1>2, <1>3, <1>4 DEF TrackedKept

LEMMA UnstreamedSame ==
    ASSUME NEW q \in Req, UnstreamedKept(q),
           host'[q].stream = host[q].stream, host'[q].original = host[q].original,
           host'[q].stage = "streaming" => host[q].stream,
           \A d \in Delivery :
              comp'[q][d].at = "record" =>
                 \/ comp'[q][d] = comp[q][d]
                 \/ q \in DOMAIN pending /\ comp'[q][d].info.stream = pending[q].stream,
           told'[q].samples = told[q].samples,
           q \in DOMAIN pending' =>
              q \in DOMAIN pending /\ pending'[q].stream = pending[q].stream
    PROVE  UnstreamedKept(q)'
  BY DEF UnstreamedKept

LEMMA Frame ==
    ASSUME NEW q \in Req, InvOf(q), Undisturbed(q)
    PROVE  InvOf(q)'
  <1>1. InOrder(q)'
    BY DEF InvOf, Undisturbed, SameEntry, InOrder, Idle
  <1>2. OneTeller(q)'
    BY DEF InvOf, Undisturbed, SameEntry, OneTeller, Outcomes, NotTaken, Recording
  <1>3. FramesKept(q)'
    BY DEF InvOf, Undisturbed, SameEntry, FramesKept, Holds
  <1>4. TrackedKept(q)'
    BY TrackedSame DEF InvOf, Undisturbed
  <1>5. UnstreamedKept(q)'
    <2>1. UnstreamedKept(q)
      BY DEF InvOf
    <2> QED BY <2>1, UnstreamedSame DEF Undisturbed, SameEntry, UnstreamedKept
  <1> QED BY <1>1, <1>2, <1>3, <1>4, <1>5 DEF InvOf

\* A step of request r is checked at r alone.
LEMMA OfOne ==
    ASSUME Inv, NEW r \in Req, InvOf(r)', \A q \in Req \ {r} : Undisturbed(q)
    PROVE  Inv'
  <1> SUFFICES ASSUME NEW q \in Req PROVE InvOf(q)'
    BY DEF Inv
  <1>1. CASE q = r
    BY <1>1
  <1>2. CASE q # r
    BY <1>2, Frame DEF Inv
  <1> QED BY <1>1, <1>2

LEMMA AtMostOne ==
    ASSUME NEW x, NEW s, s = <<>> \/ s = <<x>>
    PROVE  Len(s) <= 1 /\ \A n \in DOMAIN s : s[n] = x
  <1>1. CASE s = <<>>
    BY <1>1
  <1>2. CASE s = <<x>>
    BY <1>2
  <1> QED BY <1>1, <1>2

LEMMA NoSample ==
    ASSUME TypeOK, NEW q \in Req, OneTeller(q), host[q].stage # "ended" \/ Recording(q)
    PROVE  /\ told[q].oks = 0 /\ told[q].fails = 0
           /\ told[q].samples = <<>> /\ DOMAIN told[q].samples = {}
  <1>1. told[q].oks \in Nat /\ told[q].fails \in Nat /\ told[q].samples \in Seq(SampleRecord)
    BY DEF TypeOK, Heard
  <1>2. told[q].oks + told[q].fails = 0 /\ Len(told[q].samples) <= told[q].oks
    BY DEF OneTeller, Outcomes
  <1>3. told[q].oks = 0 /\ told[q].fails = 0 /\ Len(told[q].samples) = 0
    BY <1>1, <1>2
  <1> QED BY <1>1, <1>3

-----------------------------------------------------------------------------
(* The calls of the host *)

LEMMA BeforeInv ==
    ASSUME TypeOK, Inv, NEW r \in Req, NEW stream \in BOOLEAN, NEW v \in Verdict,
           Before(r, stream, v)
    PROVE  Inv'
  <1> USE DEF Inv, InvOf
  <1>1. \A q \in Req \ {r} : Undisturbed(q)
    BY DEF Before, Undisturbed, SameEntry, TypeOK
  <1>2. /\ host[r].stage = "new"
        /\ host'[r] = [stage |-> IF v = "terminate" THEN "answered" ELSE "sent",
                       stream |-> stream, verdict |-> v, outcome |-> "none",
                       original |-> FALSE, sent |-> 0]
        /\ call'[r] = [at |-> IF v = "track" THEN "insert" ELSE "idle"]
        /\ UNCHANGED <<pending, leaked, comp, told, evicted>>
    BY DEF Before, TypeOK
  <1>3. InOrder(r)'
    BY <1>2 DEF InOrder, Idle
  <1>4. OneTeller(r)'
    <2>1. told[r].samples = <<>>
      BY <1>2, NoSample
    <2> QED BY <1>2, <2>1 DEF OneTeller, Outcomes, NotTaken, Recording, InOrder
  <1>5. FramesKept(r)'
    <2>1. host'[r].sent = host[r].sent /\ call[r].at # "chunk" /\ call'[r].at # "chunk"
      BY <1>2 DEF InOrder
    <2> QED BY <1>2, <2>1 DEF FramesKept, Holds
  <1>6. TrackedKept(r)'
    <2>1. DOMAIN told[r].samples = {}
      BY <1>2, NoSample DEF InOrder
    <2>2. NotTaken(r)'
      BY <1>2 DEF NotTaken, InOrder
    <2> QED BY <1>2, <2>1, <2>2 DEF TrackedKept, InOrder
  <1>7. UnstreamedKept(r)'
    <2>1. DOMAIN told[r].samples = {}
      BY <1>2, NoSample DEF InOrder
    <2> QED BY <1>2, <2>1 DEF UnstreamedKept, InOrder
  <1> QED BY <1>1, <1>3, <1>4, <1>5, <1>6, <1>7, OfOne

LEMMA HeaderInitInv ==
    ASSUME TypeOK, Inv, NEW r \in Req, NEW eligible \in BOOLEAN, HeaderInit(r, eligible)
    PROVE  Inv'
  <1> USE DEF Inv, InvOf
  <1>1. \A q \in Req \ {r} : Undisturbed(q)
    BY DEF HeaderInit, Undisturbed, SameEntry, TypeOK
  <1>2. /\ Idle(r) /\ host[r].stage = "sent"
        /\ host'[r].stage = "streaming"
        /\ host'[r].verdict = host[r].verdict /\ host'[r].outcome = host[r].outcome
        /\ host'[r].sent = host[r].sent /\ host[r].stream
        /\ host'[r].stream = host[r].stream /\ host'[r].original = host[r].original
        /\ call'[r] = [at |-> IF eligible THEN "init" ELSE "idle"]
        /\ UNCHANGED <<pending, leaked, comp, told, evicted>>
    BY DEF HeaderInit, TypeOK, HostState
  <1>3. InOrder(r)'
    BY <1>2 DEF InOrder, Idle
  <1>4. OneTeller(r)'
    BY <1>2 DEF OneTeller, Outcomes, NotTaken, Recording, InOrder
  <1>5. FramesKept(r)'
    BY <1>2 DEF FramesKept, Holds, Idle
  <1>6. TrackedKept(r)'
    BY <1>2, TrackedSame DEF SameEntry, Idle
  <1>7. UnstreamedKept(r)'
    BY <1>2, UnstreamedSame DEF UnstreamedKept
  <1> QED BY <1>1, <1>3, <1>4, <1>5, <1>6, <1>7, OfOne

LEMMA ChunkInv ==
    ASSUME TypeOK, Inv, NEW r \in Req, NEW n \in FrameLen, Chunk(r, n)
    PROVE  Inv'
  <1> USE DEF Inv, InvOf
  <1>1. \A q \in Req \ {r} : Undisturbed(q)
    BY DEF Chunk, Undisturbed, SameEntry, TypeOK
  <1>2. /\ Idle(r) /\ host[r].stage = "streaming"
        /\ host'[r].stage = "streaming"
        /\ host'[r].verdict = host[r].verdict /\ host'[r].outcome = host[r].outcome
        /\ host'[r].sent = host[r].sent + 1 /\ host[r].sent \in Nat
        /\ host'[r].stream = host[r].stream /\ host'[r].original = host[r].original
        /\ call'[r].at = "chunk"
        /\ UNCHANGED <<pending, leaked, comp, told, evicted>>
    BY DEF Chunk, TypeOK, HostState
  <1>3. InOrder(r)'
    BY <1>2 DEF InOrder, Idle
  <1>4. OneTeller(r)'
    BY <1>2 DEF OneTeller, Outcomes, NotTaken, Recording, InOrder
  <1>5. FramesKept(r)'
    <2>1. DOMAIN told[r].samples = {}
      BY <1>2, NoSample
    <2>2. \A d \in Delivery : comp[r][d].at = "unsent"
      BY <1>2 DEF InOrder
    <2>3. host'[r].sent - 1 = host[r].sent - 0
      BY <1>2
    <2> QED BY <1>2, <2>1, <2>2, <2>3 DEF FramesKept, Holds, Idle
  <1>6. TrackedKept(r)'
    BY <1>2, TrackedSame DEF SameEntry, Idle
  <1>7. UnstreamedKept(r)'
    BY <1>2, UnstreamedSame DEF UnstreamedKept
  <1> QED BY <1>1, <1>3, <1>4, <1>5, <1>6, <1>7, OfOne

LEMMA ResponseInv ==
    ASSUME TypeOK, Inv, NEW r \in Req, NEW original \in Original,
           NEW collect \in BOOLEAN, Response(r, original, collect)
    PROVE  Inv'
  <1> USE DEF Inv, InvOf
  <1> DEFINE sample == [basis |-> ResponseBasis(original), whole |-> 0, cut |-> FALSE]
  <1>1. \A q \in Req \ {r} : Undisturbed(q)
    BY DEF Response, Undisturbed, SameEntry, TypeOK
  <1>2. Idle(r) /\ host[r].stage = "sent" /\ ~host[r].stream
    BY DEF Response
  <1>3. /\ host'[r].stage = "ended" /\ host'[r].outcome = "succeeded"
        /\ host'[r].verdict = host[r].verdict /\ host'[r].sent = host[r].sent
        /\ host'[r].stream = host[r].stream /\ host'[r].original = original
    <2>1. host[r] \in HostState /\ original \in BOOLEAN
      BY EngineAssumption DEF TypeOK
    <2>2. host'[r] = [Ended(host[r], "succeeded") EXCEPT !.original = original]
      BY DEF Response, TypeOK
    <2>3. host'[r] = [stage |-> "ended", stream |-> host[r].stream,
                      verdict |-> host[r].verdict, outcome |-> "succeeded",
                      original |-> original, sent |-> host[r].sent]
      BY <2>1, <2>2, RespondedIs, Zenon
    <2> QED BY <2>3
  <1>4. /\ told[r].oks = 0 /\ told[r].fails = 0 /\ told[r].samples = <<>>
    BY <1>2, NoSample
  <1>5. /\ told'[r].oks = 1 /\ told'[r].fails = 0
        /\ told'[r].samples = <<>> \/ told'[r].samples = <<sample>>
    <2>1. told' = [told EXCEPT ![r] =
                     [oks |-> told[r].oks + 1, fails |-> told[r].fails,
                      samples |-> IF collect THEN Append(told[r].samples, sample)
                                  ELSE told[r].samples]]
      BY DEF Response
    <2>2. Append(<<>>, sample) = <<sample>>
      OBVIOUS
    <2> HIDE DEF sample
    <2> QED BY <1>4, <2>1, <2>2 DEF TypeOK
  <1>6. call'[r].at = "delete" /\ UNCHANGED <<pending, leaked, comp, evicted>>
    BY DEF Response, TypeOK
  <1>7. \A d \in Delivery : comp[r][d].at = "unsent"
    BY <1>2 DEF InOrder
  <1>8. host[r].sent = 0
    BY <1>2 DEF InOrder
  <1>9. \A n \in DOMAIN told'[r].samples : told'[r].samples[n] = sample
    BY <1>5, AtMostOne
  <1>10. InOrder(r)'
    BY <1>3, <1>5, <1>6, <1>7 DEF InOrder
  <1>11. OneTeller(r)'
    <2>1. Len(told'[r].samples) <= 1
      BY <1>5, AtMostOne
    <2> QED BY <1>3, <1>5, <1>6, <1>7, <2>1 DEF OneTeller, Outcomes, NotTaken, Recording
  <1>12. FramesKept(r)'
    BY <1>2, <1>3, <1>6, <1>7, <1>8, <1>9 DEF FramesKept, Holds, Idle
  <1>13. TrackedKept(r)'
    <2>1. SameEntry(r) /\ TrackedKept(r)
      BY <1>6 DEF SameEntry
    <2>2. r \in DOMAIN pending => (host[r].verdict = "track" /\ r \notin evicted =>
             pending[r].basis = "original")
      BY <2>1 DEF TrackedKept
    <2>3. TellsHowEnded(r)'
      BY <1>3, <1>5 DEF TellsHowEnded
    <2> QED BY <1>2, <1>3, <1>5, <1>6, <1>7, <2>2, <2>3 DEF TrackedKept
  <1>14. UnstreamedKept(r)'
    <2>1. \A n \in DOMAIN told'[r].samples :
             told'[r].samples[n].basis = ResponseBasis(original)
      BY <1>9
    <2>2. UnstreamedKept(r)
      OBVIOUS
    <2> QED BY <1>2, <1>3, <1>6, <1>7, <2>1, <2>2 DEF UnstreamedKept
  <1> QED BY <1>1, <1>10, <1>11, <1>12, <1>13, <1>14, OfOne

LEMMA EndInv ==
    ASSUME TypeOK, Inv, NEW r \in Req, NEW o \in Outcome, End(r, o)
    PROVE  Inv'
  <1> USE DEF Inv, InvOf
  <1>1. \A q \in Req \ {r} : Undisturbed(q)
    BY DEF End, Undisturbed, SameEntry, TypeOK
  <1>2. /\ Idle(r) /\ host[r].stage \in {"sent", "streaming", "answered"}
        /\ UNCHANGED <<pending, leaked, call, comp, told, evicted>>
    BY DEF End
  <1>3. /\ host'[r].stage = "ended" /\ host'[r].outcome = o
        /\ host'[r].verdict = host[r].verdict /\ host'[r].sent = host[r].sent
        /\ host'[r].stream = host[r].stream /\ host'[r].original = host[r].original
    BY EndedIs DEF End, TypeOK
  <1>4. /\ told[r].oks = 0 /\ told[r].fails = 0 /\ told[r].samples = <<>>
        /\ DOMAIN told[r].samples = {}
    BY <1>2, NoSample
  <1>5. \A d \in Delivery : comp[r][d].at = "unsent"
    BY <1>2 DEF InOrder
  <1>6. host[r].outcome = "none"
    BY <1>2 DEF InOrder
  <1>7. InOrder(r)'
    BY <1>2, <1>3, <1>5 DEF InOrder, Idle
  <1>8. OneTeller(r)'
    BY <1>2, <1>3, <1>4, <1>5 DEF OneTeller, Outcomes, NotTaken, Recording
  <1>9. FramesKept(r)'
    BY <1>2, <1>3 DEF FramesKept, Holds
  <1>10. TrackedKept(r)'
    <2>1. NotTaken(r) /\ NotTaken(r)'
      BY <1>2, <1>5 DEF NotTaken
    <2> QED BY <1>2, <1>3, <1>4, <1>5, <2>1 DEF TrackedKept, Idle
  <1>11. UnstreamedKept(r)'
    BY <1>2, <1>3, <1>5, UnstreamedSame
  <1> QED BY <1>1, <1>7, <1>8, <1>9, <1>10, <1>11, OfOne

LEMMA DeliverInv ==
    ASSUME TypeOK, Inv, NEW r \in Req, NEW d \in Delivery, Deliver(r, d)
    PROVE  Inv'
  <1> USE DEF Inv, InvOf
  <1>1. \A q \in Req \ {r} : Undisturbed(q)
    BY DEF Deliver, Undisturbed, SameEntry, TypeOK
  <1>2. /\ Idle(r) /\ host[r].stage = "ended"
        /\ comp[r][d].at = "unsent" /\ comp'[r][d].at = "take"
        /\ \A e \in Delivery \ {d} : comp'[r][e] = comp[r][e]
        /\ UNCHANGED <<pending, leaked, host, call, told, evicted>>
    BY DEF Deliver, TypeOK
  <1>3. NotTaken(r)' <=> NotTaken(r)
    BY <1>2 DEF NotTaken
  <1>4. \A e \in Delivery : comp'[r][e].at = "record" =>
           comp[r][e].at = "record" /\ comp'[r][e] = comp[r][e]
    BY <1>2
  <1>5. Recording(r)' <=> Recording(r)
    BY <1>2 DEF Recording
  <1>6. InOrder(r)'
    BY <1>2 DEF InOrder, Idle
  <1>7. OneTeller(r)'
    BY <1>2, <1>3, <1>4, <1>5 DEF OneTeller, Outcomes
  <1>8. FramesKept(r)'
    BY <1>2, <1>4 DEF FramesKept, Holds
  <1>9. TrackedKept(r)'
    BY <1>2, <1>3, <1>4, <1>5 DEF TrackedKept, TellsHowEnded
  <1>10. UnstreamedKept(r)'
    BY <1>2, <1>4, UnstreamedSame
  <1> QED BY <1>1, <1>6, <1>7, <1>8, <1>9, <1>10, OfOne

-----------------------------------------------------------------------------
(* The critical sections of the hooks *)

LEMMA BeforeInsertInv ==
    ASSUME TypeOK, Inv, NEW r \in Req, BeforeInsert(r)
    PROVE  Inv'
  <1> USE DEF Inv, InvOf
  <1>1. \A q \in Req \ {r} : Undisturbed(q)
    BY DEF BeforeInsert, Return, PutIfAbsent, Undisturbed, SameEntry, TypeOK
  <1>2. /\ call[r].at = "insert" /\ call'[r].at = "idle"
        /\ r \in DOMAIN pending'
        /\ r \in DOMAIN pending => pending'[r] = pending[r]
        /\ r \notin DOMAIN pending => pending'[r] = NewInfo("original", host[r].stream)
        /\ UNCHANGED <<leaked, host, comp, told, evicted>>
    BY DEF BeforeInsert, Return, PutIfAbsent, TypeOK
  <1>3. host[r].stage = "sent" /\ host[r].sent = 0
    BY <1>2 DEF InOrder
  <1>4. /\ told[r].oks = 0 /\ told[r].fails = 0 /\ DOMAIN told[r].samples = {}
    BY <1>3, NoSample
  <1>5. \A d \in Delivery : comp[r][d].at = "unsent"
    BY <1>3 DEF InOrder
  <1>6. InOrder(r)'
    BY <1>2, <1>3, <1>5 DEF InOrder
  <1>7. OneTeller(r)'
    BY <1>2, <1>3, <1>4, <1>5 DEF OneTeller, Outcomes, NotTaken, Recording
  <1>8. FramesKept(r)'
    BY <1>2, <1>3, <1>4, <1>5 DEF FramesKept, Holds, NewInfo
  <1>9. host[r].outcome = "none"
    BY <1>3 DEF InOrder
  <1>10. TrackedKept(r)'
    <2>1. NotTaken(r)'
      BY <1>2, <1>5 DEF NotTaken
    <2> QED BY <1>2, <1>4, <1>5, <2>1 DEF TrackedKept, NewInfo
  <1>11. UnstreamedKept(r)'
    BY <1>2, <1>3, <1>4, <1>5 DEF UnstreamedKept, NewInfo
  <1> QED BY <1>1, <1>6, <1>7, <1>8, <1>10, <1>11, OfOne

LEMMA HeaderInitInsertInv ==
    ASSUME TypeOK, Inv, NEW r \in Req, HeaderInitInsert(r)
    PROVE  Inv'
  <1> USE DEF Inv, InvOf
  <1>1. \A q \in Req \ {r} : Undisturbed(q)
    BY DEF HeaderInitInsert, Return, PutIfAbsent, Undisturbed, SameEntry, TypeOK
  <1>2. /\ call[r].at = "init" /\ call'[r].at = "idle"
        /\ r \in DOMAIN pending'
        /\ r \in DOMAIN pending => pending'[r] = pending[r]
        /\ r \notin DOMAIN pending => pending'[r] = NewInfo("upstream", TRUE)
        /\ UNCHANGED <<leaked, host, comp, told, evicted>>
    BY DEF HeaderInitInsert, Return, PutIfAbsent, TypeOK
  <1>3. host[r].stage = "streaming" /\ host[r].sent = 0
    BY <1>2 DEF InOrder
  <1>4. /\ told[r].oks = 0 /\ told[r].fails = 0 /\ DOMAIN told[r].samples = {}
    BY <1>3, NoSample
  <1>5. \A d \in Delivery : comp[r][d].at = "unsent"
    BY <1>3 DEF InOrder
  <1>6. InOrder(r)'
    BY <1>2, <1>3, <1>5 DEF InOrder
  <1>7. OneTeller(r)'
    BY <1>2, <1>3, <1>4, <1>5 DEF OneTeller, Outcomes, NotTaken, Recording
  <1>8. FramesKept(r)'
    BY <1>2, <1>3, <1>4, <1>5 DEF FramesKept, Holds, NewInfo
  <1>9. host[r].outcome = "none"
    BY <1>3 DEF InOrder
  <1>10. host[r].verdict = "track" /\ r \notin evicted => r \in DOMAIN pending
    BY <1>2, <1>4, <1>5 DEF TrackedKept, NotTaken
  <1>11. TrackedKept(r)'
    <2>1. NotTaken(r)'
      BY <1>2, <1>5 DEF NotTaken
    <2> QED BY <1>2, <1>4, <1>5, <1>10, <2>1 DEF TrackedKept
  <1>12. UnstreamedKept(r)'
    BY <1>2, <1>3, <1>4, <1>5 DEF UnstreamedKept
  <1> QED BY <1>1, <1>6, <1>7, <1>8, <1>11, <1>12, OfOne

LEMMA AccumulatedHolds ==
    ASSUME NEW p \in PendingInfo, NEW n, NEW k \in Nat, Holds(p, k - 1)
    PROVE  Holds(Accumulated(p, n), k)
  <1>1. CASE p.cut
    BY <1>1 DEF Accumulated, Holds
  <1>2. CASE ~Fits(p, n)
    BY <1>2 DEF Accumulated, Holds
  <1>3. CASE p.whole = k - 1 /\ Fits(p, n)
    <2>1. Accumulated(p, n).whole = p.whole + 1
      BY <1>3 DEF Accumulated
    <2> QED BY <1>3, <2>1 DEF Holds
  <1> QED BY <1>1, <1>2, <1>3 DEF Holds

LEMMA ChunkAccumulateInv ==
    ASSUME TypeOK, Inv, NEW r \in Req, ChunkAccumulate(r)
    PROVE  Inv'
  <1> USE DEF Inv, InvOf
  <1>1. \A q \in Req \ {r} : Undisturbed(q)
    BY DEF ChunkAccumulate, Return, Undisturbed, SameEntry, TypeOK
  <1>2. /\ call[r].at = "chunk" /\ call'[r].at = "idle" /\ ~leaked
        /\ DOMAIN pending' = DOMAIN pending
        /\ r \in DOMAIN pending => pending'[r] = Accumulated(pending[r], call[r].len)
        /\ UNCHANGED <<leaked, host, comp, told, evicted>>
    BY DEF ChunkAccumulate, Return, TypeOK
  <1>3. host[r].sent \in Nat
    BY DEF TypeOK, HostState
  <1>4. host[r].stage = "streaming"
    BY <1>2 DEF InOrder
  <1>5. ASSUME r \in DOMAIN pending
        PROVE  Holds(pending'[r], host[r].sent)
    <2>1. Holds(pending[r], host[r].sent - 1)
      BY <1>2, <1>5 DEF FramesKept
    <2>2. pending[r] \in PendingInfo
      BY <1>5 DEF TypeOK
    <2> QED BY <1>2, <1>3, <1>5, <2>1, <2>2, AccumulatedHolds
  <1>6. InOrder(r)'
    BY <1>2, <1>4 DEF InOrder, Idle
  <1>7. OneTeller(r)'
    BY <1>2, <1>4 DEF OneTeller, Outcomes, NotTaken, Recording
  <1>8. FramesKept(r)'
    <2>1. host'[r].sent - 0 = host[r].sent
      BY <1>2, <1>3
    <2> QED BY <1>2, <1>5, <2>1 DEF FramesKept, Holds
  <1>9. TrackedKept(r)'
    <2>1. r \in DOMAIN pending => pending'[r].basis = pending[r].basis
      BY <1>2 DEF Accumulated
    <2>2. \A d \in Delivery : comp[r][d].at = "unsent"
      BY <1>4 DEF InOrder
    <2> QED BY <1>2, <2>1, <2>2 DEF TrackedKept, NotTaken
  <1>10. UnstreamedKept(r)'
    <2>1. r \in DOMAIN pending => pending'[r].stream = pending[r].stream
      BY <1>2 DEF Accumulated
    <2>2. UnstreamedKept(r)
      OBVIOUS
    <2> QED BY <1>2, <1>4, <2>1, <2>2, UnstreamedSame DEF UnstreamedKept
  <1> QED BY <1>1, <1>6, <1>7, <1>8, <1>9, <1>10, OfOne

LEMMA ChunkPanicInv ==
    ASSUME TypeOK, Inv, NEW r \in Req, ChunkPanic(r)
    PROVE  Inv'
  <1> USE DEF Inv, InvOf
  <1>1. \A q \in Req \ {r} : Undisturbed(q)
    BY DEF ChunkPanic, Return, Undisturbed, SameEntry, TypeOK
  <1>2. /\ call[r].at = "chunk" /\ call'[r].at = "idle" /\ leaked'
        /\ UNCHANGED <<pending, host, comp, told, evicted>>
    BY DEF ChunkPanic, Return, TypeOK
  <1>3. InOrder(r)'
    BY <1>2 DEF InOrder, Idle
  <1>4. OneTeller(r)'
    BY <1>2 DEF OneTeller, Outcomes, NotTaken, Recording
  <1>5. FramesKept(r)'
    BY <1>2 DEF FramesKept, Holds
  <1>6. TrackedKept(r)'
    BY <1>2, TrackedSame DEF SameEntry
  <1>7. UnstreamedKept(r)'
    BY <1>2 DEF UnstreamedKept
  <1> QED BY <1>1, <1>3, <1>4, <1>5, <1>6, <1>7, OfOne

LEMMA ResponseDeleteInv ==
    ASSUME TypeOK, Inv, NEW r \in Req, ResponseDelete(r)
    PROVE  Inv'
  <1> USE DEF Inv, InvOf
  <1>1. \A q \in Req \ {r} : Undisturbed(q)
    BY DEF ResponseDelete, Return, Without, Undisturbed, SameEntry, TypeOK
  <1>2. /\ call[r].at = "delete" /\ call'[r].at = "idle"
        /\ r \notin DOMAIN pending'
        /\ UNCHANGED <<leaked, host, comp, told, evicted>>
    BY DEF ResponseDelete, Return, Without, TypeOK
  <1>3. told[r].oks = 1
    BY <1>2 DEF InOrder
  <1>4. InOrder(r)'
    BY <1>2 DEF InOrder, Idle
  <1>5. OneTeller(r)'
    BY <1>2 DEF OneTeller, Outcomes, NotTaken, Recording
  <1>6. FramesKept(r)'
    BY <1>2 DEF FramesKept, Holds
  <1>7. TrackedKept(r)'
    <2>1. NotTaken(r)' <=> NotTaken(r)
      BY <1>2 DEF NotTaken
    <2>2. Recording(r)' <=> Recording(r)
      BY <1>2 DEF Recording
    <2> QED BY <1>2, <1>3, <2>1, <2>2 DEF TrackedKept, TellsHowEnded
  <1>8. UnstreamedKept(r)'
    BY <1>2 DEF UnstreamedKept
  <1> QED BY <1>1, <1>4, <1>5, <1>6, <1>7, <1>8, OfOne

-----------------------------------------------------------------------------
(* request.complete *)

LEMMA CompleteTakeInv ==
    ASSUME TypeOK, Inv, NEW r \in Req, NEW d \in Delivery, CompleteTake(r, d)
    PROVE  Inv'
  <1> USE DEF Inv, InvOf
  <1>1. \A q \in Req \ {r} : Undisturbed(q)
    BY DEF CompleteTake, Without, Undisturbed, SameEntry, TypeOK
  <1>2. /\ comp[r][d].at = "take" /\ comp'[r][d] = Taken(r) /\ ~leaked
        /\ \A e \in Delivery \ {d} : comp'[r][e] = comp[r][e]
        /\ r \notin DOMAIN pending'
        /\ UNCHANGED <<leaked, host, call, told, evicted>>
    BY DEF CompleteTake, Without, TypeOK
  <1>3. host[r].stage = "ended" /\ call[r].at = "idle"
    BY <1>2 DEF InOrder, Idle
  <1>4. InOrder(r)'
    BY <1>2, <1>3 DEF InOrder, Idle
  <1>0. UnstreamedKept(r)'
    <2>1. \A e \in Delivery : comp'[r][e].at = "record" =>
             \/ comp'[r][e] = comp[r][e]
             \/ r \in DOMAIN pending /\ comp'[r][e].info.stream = pending[r].stream
      BY <1>2, TakenEntry DEF Taken
    <2> QED BY <1>2, <1>3, <2>1, UnstreamedSame
  <1>5. CASE r \in DOMAIN pending
    <2>1. /\ comp'[r][d].at = "record"
          /\ comp'[r][d].info.basis = pending[r].basis
          /\ comp'[r][d].info.whole = pending[r].whole
          /\ comp'[r][d].info.cut = pending[r].cut
      BY <1>2, <1>5, TakenEntry
    <2>2. /\ \A e \in Delivery : comp[r][e].at # "record"
          /\ Outcomes(r) # 1 /\ Outcomes(r) <= 1
      BY <1>3, <1>5 DEF OneTeller, NotTaken
    <2>3. Outcomes(r) = 0
      BY <2>2 DEF Outcomes, TypeOK, Heard
    <2>4. \A e \in Delivery : comp'[r][e].at = "record" => e = d
      BY <1>2, <2>2
    <2>5. OneTeller(r)'
      BY <1>2, <2>3, <2>4 DEF OneTeller, Outcomes
    <2>6. FramesKept(r)'
      <3>1. Holds(pending[r], host[r].sent - 0)
        BY <1>2, <1>3, <1>5 DEF FramesKept
      <3>2. host[r].sent - 0 = host[r].sent
        BY DEF TypeOK, HostState
      <3> QED BY <1>2, <2>1, <2>4, <3>1, <3>2 DEF FramesKept, Holds
    <2>7. TrackedKept(r)'
      <3>1. Recording(r)' /\ ~NotTaken(r)'
        BY <2>1 DEF Recording, NotTaken
      <3> QED BY <1>2, <1>5, <2>1, <2>4, <3>1 DEF TrackedKept
    <2> QED BY <1>0, <1>1, <1>4, <2>5, <2>6, <2>7, OfOne
  <1>6. CASE r \notin DOMAIN pending
    <2>1. comp'[r][d].at = "returned"
      BY <1>2, <1>6 DEF Taken
    <2>2. \A e \in Delivery : comp'[r][e].at = "record" =>
             comp[r][e].at = "record" /\ comp'[r][e] = comp[r][e]
      BY <1>2, <2>1
    <2>3. (Recording(r)' <=> Recording(r)) /\ ~NotTaken(r)'
      BY <1>2, <2>1, <2>2 DEF Recording, NotTaken
    <2>4. OneTeller(r)'
      BY <1>2, <2>2, <2>3 DEF OneTeller, Outcomes
    <2>5. FramesKept(r)'
      BY <1>2, <2>2 DEF FramesKept, Holds
    <2>6. TrackedKept(r)'
      <3>1. ASSUME host[r].verdict = "track", r \notin evicted
            PROVE  Recording(r) \/ TellsHowEnded(r)
        <4>1. CASE NotTaken(r)
          <5>1. told[r].oks = 1
            BY <1>3, <1>6, <3>1, <4>1 DEF TrackedKept
          <5> QED BY <5>1 DEF OneTeller, TellsHowEnded
        <4>2. CASE ~NotTaken(r)
          BY <3>1, <4>2 DEF TrackedKept
        <4> QED BY <4>1, <4>2
      <3>2. TellsHowEnded(r)' <=> TellsHowEnded(r)
        BY <1>2 DEF TellsHowEnded
      <3> QED BY <1>2, <2>2, <2>3, <3>1, <3>2 DEF TrackedKept
    <2> QED BY <1>0, <1>1, <1>4, <2>4, <2>5, <2>6, OfOne
  <1> QED BY <1>5, <1>6

LEMMA CompleteRecordInv ==
    ASSUME TypeOK, Inv, NEW r \in Req, NEW d \in Delivery, NEW fit \in BOOLEAN,
           CompleteRecord(r, d, fit)
    PROVE  Inv'
  <1> USE DEF Inv, InvOf
  <1> DEFINE p      == comp[r][d].info
             ok     == host[r].outcome = "succeeded"
             sample == [basis |-> p.basis, whole |-> p.whole, cut |-> p.cut]
  <1>1. \A q \in Req \ {r} : Undisturbed(q)
    BY DEF CompleteRecord, Undisturbed, SameEntry, TypeOK
  <1>2. /\ comp[r][d].at = "record" /\ comp'[r][d].at = "returned"
        /\ \A e \in Delivery \ {d} : comp'[r][e] = comp[r][e]
        /\ UNCHANGED <<pending, leaked, host, call, evicted>>
    BY DEF CompleteRecord, TypeOK
  <1>3. host[r].stage = "ended" /\ call[r].at = "idle"
    BY <1>2 DEF InOrder, Idle
  <1>4. /\ Recording(r) /\ ~NotTaken(r) /\ r \notin DOMAIN pending
        /\ \A e \in Delivery \ {d} : comp[r][e].at # "record"
    BY <1>2 DEF OneTeller, Recording, NotTaken
  <1>5. \A e \in Delivery : comp'[r][e].at # "record"
    BY <1>2, <1>4
  <1>6. told[r].oks = 0 /\ told[r].fails = 0 /\ told[r].samples = <<>>
    BY <1>4, NoSample
  <1>7. told' = [told EXCEPT ![r] =
                  [oks |-> IF TellSuccess(r) THEN told[r].oks + 1 ELSE told[r].oks,
                   fails |-> IF TellFailure(r, p) THEN told[r].fails + 1
                             ELSE told[r].fails,
                   samples |-> IF ok THEN told[r].samples \o StreamSamples(p, fit)
                               ELSE told[r].samples]]
    BY DEF CompleteRecord
  <1>8. /\ told'[r].oks = IF TellSuccess(r) THEN 1 ELSE 0
        /\ told'[r].fails = IF TellFailure(r, p) THEN 1 ELSE 0
        /\ told'[r].samples = IF ok THEN <<>> \o StreamSamples(p, fit) ELSE <<>>
    BY <1>6, <1>7 DEF TypeOK
  <1>9. told'[r].samples = <<>> \/ (ok /\ told'[r].samples = <<sample>>)
    <2>1. StreamSamples(p, fit) = <<>> \/ StreamSamples(p, fit) = <<sample>>
      BY DEF StreamSamples
    <2>2. (<<>> \o <<>> = <<>>) /\ (<<>> \o <<sample>> = <<sample>>)
      OBVIOUS
    <2> HIDE DEF p, sample
    <2> QED BY <1>8, <2>1, <2>2
  <1>10. \A n \in DOMAIN told'[r].samples : told'[r].samples[n] = sample
    BY <1>9, AtMostOne
  <1>11. InOrder(r)'
    BY <1>2, <1>3 DEF InOrder, Idle
  <1>12. OneTeller(r)'
    <2>1. Len(told'[r].samples) <= told'[r].oks
      <3>0. ok => TellSuccess(r)
        BY DEF TellSuccess
      <3> HIDE DEF ok, sample
      <3>1. CASE told'[r].samples = <<>>
        BY <1>8, <3>1
      <3>2. CASE ok /\ told'[r].samples = <<sample>>
        <4>1. told'[r].oks = 1
          <5>1. told'[r].oks = IF TellSuccess(r) THEN 1 ELSE 0
            BY <1>8
          <5> QED BY <3>0, <3>2, <5>1
        <4>2. Len(<<sample>>) = 1
          OBVIOUS
        <4> QED BY <3>2, <4>1, <4>2
      <3> QED BY <1>9, <3>1, <3>2
    <2>2. told'[r].samples # <<>> => host[r].outcome = "succeeded"
      BY <1>9
    <2> QED BY <1>2, <1>3, <1>4, <1>5, <1>8, <2>1, <2>2
            DEF OneTeller, Outcomes, Recording, NotTaken, TellFailure, TellSuccess
  <1>13. FramesKept(r)'
    <2>1. Holds(p, host[r].sent)
      BY <1>2 DEF FramesKept
    <2>2. Holds(sample, host[r].sent)
      BY <2>1 DEF Holds
    <2> HIDE DEF sample
    <2> QED BY <1>2, <1>4, <1>5, <1>10, <2>2 DEF FramesKept
  <1>14. TrackedKept(r)'
    <2>1. host[r].verdict = "track" /\ r \notin evicted => sample.basis = "original"
      BY <1>2 DEF TrackedKept
    <2>2. TellsHowEnded(r)'
      BY <1>2, <1>8 DEF TellsHowEnded, TellFailure, TellSuccess
    <2>3. ~NotTaken(r)'
      BY <1>2 DEF NotTaken
    <2> HIDE DEF sample
    <2> QED BY <1>2, <1>4, <1>5, <1>10, <2>1, <2>2, <2>3 DEF TrackedKept
  <1>15. UnstreamedKept(r)'
    <2>1. ~host[r].stream => ~p.stream
      BY <1>2 DEF UnstreamedKept
    <2>2. ~p.stream => told'[r].samples = <<>>
      <3>1. ~p.stream => StreamSamples(p, fit) = <<>>
        BY DEF StreamSamples
      <3>2. <<>> \o <<>> = <<>>
        OBVIOUS
      <3> HIDE DEF p, ok
      <3> QED BY <1>8, <3>1, <3>2
    <2>3. ~host[r].stream => DOMAIN told'[r].samples = {}
      BY <2>1, <2>2
    <2> HIDE DEF p
    <2> QED BY <1>2, <1>3, <1>4, <1>5, <2>3 DEF UnstreamedKept
  <1> QED BY <1>1, <1>11, <1>12, <1>13, <1>14, <1>15, OfOne

-----------------------------------------------------------------------------
(* The janitor and the passing of time *)

LEMMA SweepInv ==
    ASSUME TypeOK, Inv, Sweep
    PROVE  Inv'
  <1> USE DEF Inv, InvOf
  <1> SUFFICES ASSUME NEW q \in Req PROVE InvOf(q)'
    OBVIOUS
  <1>1. UNCHANGED <<leaked, host, call, comp, told>>
    BY DEF Sweep
  <1>2. CASE q \notin Stale
    <2>1. Undisturbed(q)
      BY <1>2 DEF Sweep, Without, Undisturbed, SameEntry
    <2> QED BY <2>1, Frame
  <1>3. CASE q \in Stale
    <2>1. q \notin DOMAIN pending' /\ q \in evicted'
      BY <1>3 DEF Sweep, Without
    <2>2. InOrder(q)'
      BY <1>1, <2>1 DEF InOrder, Idle
    <2>3. OneTeller(q)'
      BY <1>1, <2>1 DEF OneTeller, Outcomes, NotTaken, Recording
    <2>4. FramesKept(q)'
      BY <1>1, <2>1 DEF FramesKept, Holds
    <2>5. TrackedKept(q)'
      BY <2>1 DEF TrackedKept
    <2>6. UnstreamedKept(q)'
      BY <1>1, <2>1 DEF UnstreamedKept
    <2> QED BY <2>2, <2>3, <2>4, <2>5, <2>6
  <1> QED BY <1>2, <1>3

LEMMA TickInv ==
    ASSUME TypeOK, Inv, Tick
    PROVE  Inv'
  <1>1. \A q \in Req : SameEntry(q)
    BY DEF Tick, SameEntry, TypeOK, PendingInfo
  <1>2. \A q \in Req : Undisturbed(q)
    BY <1>1 DEF Tick, Undisturbed
  <1> QED BY <1>2, Frame DEF Inv

-----------------------------------------------------------------------------
(* Theorems *)

LEMMA InitInv == Init => Inv
  <1> SUFFICES ASSUME Init, NEW q \in Req PROVE InvOf(q)
    BY DEF Inv
  <1>1. /\ q \notin DOMAIN pending
        /\ host[q].stage = "new" /\ host[q].outcome = "none"
        /\ host[q].verdict = "none" /\ host[q].sent = 0
        /\ call[q].at = "idle"
        /\ told[q].oks = 0 /\ told[q].fails = 0 /\ told[q].samples = <<>>
        /\ \A d \in Delivery : comp[q][d].at = "unsent"
    BY DEF Init
  <1>2. InOrder(q)
    BY <1>1 DEF InOrder
  <1>3. OneTeller(q)
    BY <1>1 DEF OneTeller, Outcomes, NotTaken, Recording
  <1>4. FramesKept(q)
    BY <1>1 DEF FramesKept
  <1>5. TrackedKept(q)
    BY <1>1 DEF TrackedKept, NotTaken
  <1>6. UnstreamedKept(q)
    BY <1>1 DEF UnstreamedKept
  <1> QED BY <1>2, <1>3, <1>4, <1>5, <1>6 DEF InvOf

LEMMA StepInv ==
    ASSUME TypeOK, Inv, [Next]_vars
    PROVE  Inv'
  <1>1. ASSUME NEW r \in Req, HostStep(r)
        PROVE  Inv'
    BY <1>1, BeforeInv, HeaderInitInv, ChunkInv, ResponseInv, EndInv, DeliverInv DEF HostStep
  <1>2. ASSUME NEW r \in Req, HookStep(r)
        PROVE  Inv'
    BY <1>2, BeforeInsertInv, HeaderInitInsertInv, ChunkAccumulateInv, ChunkPanicInv,
       ResponseDeleteInv DEF HookStep
  <1>3. ASSUME NEW r \in Req, NEW d \in Delivery, CompleteStep(r, d)
        PROVE  Inv'
    BY <1>3, CompleteTakeInv, CompleteRecordInv DEF CompleteStep
  <1>4. CASE UNCHANGED vars
    <2>1. \A q \in Req : Undisturbed(q)
      BY <1>4 DEF vars, Undisturbed, SameEntry
    <2> QED BY <2>1, Frame DEF Inv
  <1> QED BY <1>1, <1>2, <1>3, <1>4, SweepInv, TickInv DEF Next

LEMMA InvHolds == Spec => []Inv
  <1>1. TypeOK /\ Inv /\ [Next]_vars => Inv'
    BY StepInv
  <1> QED BY InitInv, <1>1, TypeCorrect, PTL DEF Spec

\* The accumulated text of a stream stays within maxStreamAccumBytes, for
\* every cap and every length of frame (engine.go:447-456).
THEOREM TextAlwaysBounded == Spec => []TextBounded
  <1>1. Init => TextBounded
    BY DEF Init, TextBounded
  <1>2. TypeOK /\ TextBounded /\ [Next]_vars => TextBounded'
    <2> SUFFICES ASSUME TypeOK, TextBounded, [Next]_vars PROVE TextBounded'
      OBVIOUS
    <2> USE DEF TextBounded
    <2>1. Cap \in Nat /\ FrameLen \subseteq Nat
      BY EngineAssumption
    <2>2. ASSUME NEW r \in Req, NEW p, p.len <= Cap, pending' = PutIfAbsent(pending, r, p)
          PROVE  TextBounded'
      BY <2>2 DEF PutIfAbsent
    <2>3. ASSUME NEW S, pending' = Without(pending, S)
          PROVE  TextBounded'
      BY <2>3 DEF Without
    <2>4. ASSUME NEW r \in Req, ChunkAccumulate(r), r \in DOMAIN pending
          PROVE  TextBounded'
      <3>1. pending' = [pending EXCEPT ![r] = Accumulated(pending[r], call[r].len)]
        BY <2>4 DEF ChunkAccumulate
      <3>2. pending[r].len \in Nat /\ call[r].len \in Nat
        BY <2>1, <2>4 DEF ChunkAccumulate, TypeOK, PendingInfo, CallState
      <3>3. Accumulated(pending[r], call[r].len).len <= Cap
        BY <2>1, <3>2 DEF Accumulated, Fits
      <3> QED BY <3>1, <3>3
    <2>5. CASE UNCHANGED pending
      BY <2>5
    <2>6. \A basis, stream : NewInfo(basis, stream).len <= Cap
      BY <2>1 DEF NewInfo
    <2>7. ASSUME NEW r \in Req, HostStep(r) PROVE TextBounded'
      BY <2>5, <2>7 DEF HostStep, Before, HeaderInit, Chunk, Response, End, Deliver
    <2>8. ASSUME NEW r \in Req, HookStep(r) PROVE TextBounded'
      <3>1. CASE BeforeInsert(r) \/ HeaderInitInsert(r)
        BY <2>2, <2>6, <3>1 DEF BeforeInsert, HeaderInitInsert
      <3>2. CASE ChunkAccumulate(r)
        BY <2>4, <2>5, <3>2 DEF ChunkAccumulate
      <3>3. CASE ChunkPanic(r)
        BY <2>5, <3>3 DEF ChunkPanic
      <3>4. CASE ResponseDelete(r)
        BY <2>3, <3>4 DEF ResponseDelete
      <3> QED BY <2>8, <3>1, <3>2, <3>3, <3>4 DEF HookStep
    <2>9. ASSUME NEW r \in Req, NEW d \in Delivery, CompleteStep(r, d) PROVE TextBounded'
      BY <2>3, <2>5, <2>9 DEF CompleteStep, CompleteTake, CompleteRecord
    <2>10. CASE Sweep
      BY <2>3, <2>10 DEF Sweep
    <2>11. CASE Tick
      <3>1. \A q \in DOMAIN pending : pending[q] \in PendingInfo
        BY DEF TypeOK
      <3>2. ASSUME NEW p \in PendingInfo, NEW age
            PROVE  [p EXCEPT !.age = age].len = p.len
        <4>1. DOMAIN p = {"basis", "stream", "age", "len", "whole", "cut"}
          BY DEF PendingInfo
        <4> QED BY <4>1
      <3>3. DOMAIN pending' = DOMAIN pending
        BY <2>11 DEF Tick
      <3>4. ASSUME NEW q \in DOMAIN pending
            PROVE  pending'[q].len = pending[q].len
        <4>1. PICK age : pending'[q] = [pending[q] EXCEPT !.age = age]
          BY <2>11 DEF Tick
        <4> QED BY <3>1, <3>2, <4>1
      <3> QED BY <3>3, <3>4
    <2>12. CASE UNCHANGED vars
      BY <2>5, <2>12 DEF vars
    <2> QED BY <2>7, <2>8, <2>9, <2>10, <2>11, <2>12 DEF Next
  <1> QED BY <1>1, <1>2, TypeCorrect, PTL DEF Spec

\* The breaker hears of the outcome of a request at most once, and as the
\* status of its completion has it: the take-and-delete of request.complete and the delete of the
\* response hook share it out (engine.go:338-342, 366-369).
THEOREM OutcomeAlwaysToldOnce == Spec => []OutcomeToldOnce
  <1>1. Inv => OutcomeToldOnce
    BY DEF Inv, InvOf, OneTeller, Outcomes, OutcomeToldOnce
  <1> QED BY <1>1, InvHolds, PTL

\* What became of a request intercept_before tracked reaches the breaker once
\* its completion was handled, if the janitor spared it (engine.go:363-415).
THEOREM TrackedOutcomeAlwaysTold == Spec => []TrackedOutcomeTold
  <1>1. Inv => TrackedOutcomeTold
    <2> SUFFICES ASSUME Inv, NEW r \in Req, Completed(r), host[r].verdict = "track",
                        r \notin evicted
                 PROVE  TellsHowEnded(r)
      BY DEF TrackedOutcomeTold, TellsHowEnded
    <2>1. ~NotTaken(r) /\ ~Recording(r)
      BY DEF Completed, NotTaken, Recording
    <2> QED BY <2>1 DEF Inv, InvOf, TrackedKept
  <1> QED BY <1>1, InvHolds, PTL

\* At most one sample of a request, of a success only, that was cut or holds
\* every frame the host sent (engine.go:443-460, 481-496).
THEOREM SamplesAlwaysComplete == Spec => []SamplesComplete
  <1>1. TypeOK /\ Inv => SamplesComplete
    <2> SUFFICES ASSUME TypeOK, Inv, NEW r \in Req
                 PROVE  /\ Len(told[r].samples) <= 1
                        /\ \A n \in DOMAIN told[r].samples :
                              /\ host[r].outcome = "succeeded"
                              /\ Holds(told[r].samples[n], host[r].sent)
      BY DEF SamplesComplete, Holds
    <2>1. /\ told[r].oks \in Nat /\ told[r].fails \in Nat
          /\ told[r].samples \in Seq(SampleRecord)
      BY DEF TypeOK, Heard
    <2>2. /\ told[r].oks + told[r].fails <= 1 /\ Len(told[r].samples) <= told[r].oks
          /\ told[r].samples # <<>> => host[r].outcome = "succeeded"
      BY DEF Inv, InvOf, OneTeller, Outcomes
    <2>3. Len(told[r].samples) <= 1
      BY <2>1, <2>2
    <2>4. ASSUME NEW n \in DOMAIN told[r].samples
          PROVE  host[r].outcome = "succeeded"
      <3>1. told[r].samples # <<>>
        BY <2>4
      <3> QED BY <2>2, <3>1
    <2> QED BY <2>3, <2>4 DEF Inv, InvOf, FramesKept
  <1> QED BY <1>1, InvHolds, TypeCorrect, PTL

\* What is collected is collected under the hash of the client's original
\* request, if the response hook was given it, or if the stream was tracked by
\* intercept_before and not evicted since (engine.go:313-318, 415-435).
THEOREM SamplesAlwaysKeyedAsLookedUp == Spec => []SamplesKeyedAsLookedUp
  <1>1. Inv => SamplesKeyedAsLookedUp
    BY DEF Inv, InvOf, TrackedKept, UnstreamedKept, ResponseBasis, SamplesKeyedAsLookedUp
  <1> QED BY <1>1, InvHolds, PTL

\* A request whose completion was handled has no entry in the pending map and
\* gets none again (engine_test.go:113-114).
THEOREM CompletedNeverPending == Spec => []CompletedNotPending
  <1>1. Inv => CompletedNotPending
    BY DEF Inv, InvOf, OneTeller, NotTaken, Completed, CompletedNotPending
  <1> QED BY <1>1, InvHolds, PTL
=============================================================================
