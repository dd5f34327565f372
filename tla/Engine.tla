------------------------------- MODULE Engine -------------------------------
(***************************************************************************)
(* internal/plugin/engine.go: the hooks of the plugin and the map of       *)
(* pending requests they share.                                            *)
(*                                                                         *)
(* The host calls the hooks of one request one after the other, and those  *)
(* of different requests concurrently; this host is external and modelled  *)
(* from the way the hooks are used.  It asks intercept_before, sends the   *)
(* request upstream, hands over the stream frame by frame or the whole     *)
(* response, and announces the end with request.complete, which may be     *)
(* lost or delivered more than once.                                       *)
(*                                                                         *)
(* A hook runs without shared state up to its critical section on          *)
(* pendingMu, which is one action.  The panic of handleStreamChunk leaves  *)
(* that section without an Unlock: leaked says so, and no section starts   *)
(* again.  What the checker and the probe cache decide is a choice of the  *)
(* action; what they are told is kept in the history told.                 *)
(***************************************************************************)
EXTENDS Integers, FiniteSets, Sequences

CONSTANTS
    Req,        \* requests, by RequestID
    Delivery,   \* deliveries of one request's request.complete
    Original,   \* whether the host hands the original body to the response hook
    FrameLen,   \* lengths of SSE frames (len(req.Body), not 0)
    Cap,        \* maxStreamAccumBytes
    Cutoff,     \* age at which the janitor evicts: one hour
    MaxFrames   \* bound: frames of one stream

ASSUME EngineAssumption ==
    /\ Original \subseteq BOOLEAN
    /\ FrameLen \subseteq Nat \ {0}
    /\ Cap \in Nat \ {0}
    /\ Cutoff \in Nat
    /\ MaxFrames \in Nat

VARIABLES
    pending,  \* Engine.pending: a map from requests to pendingInfo
    leaked,   \* pendingMu is locked and nobody will unlock it
    host,     \* the host's side of each request
    call,     \* the hook call of each request that waits for pendingMu
    comp,     \* the request.complete calls of each request
    told,     \* history: what checker and probe cache were told of a request
    evicted   \* history: the requests the janitor evicted

vars == <<pending, leaked, host, call, comp, told, evicted>>

-----------------------------------------------------------------------------
\* basis: the body the hash was computed from; age: time since seenAt, which
\* stops counting past Cutoff; len: bytes in streamText; whole: the frames
\* streamText holds entirely; cut: a frame was truncated or left out.
NewInfo(basis, stream) ==
    [basis |-> basis, stream |-> stream, age |-> 0, len |-> 0, whole |-> 0,
     cut |-> FALSE]

Without(m, S) == [r \in DOMAIN m \ S |-> m[r]]

\* Mutant of PutIfAbsent: an entry that exists is replaced.
PutIfAbsent_Replace(m, r, p) ==
    [x \in DOMAIN m \cup {r} |-> IF x = r THEN p ELSE m[x]]

PutIfAbsent(m, r, p) ==
    [x \in DOMAIN m \cup {r} |-> IF x \in DOMAIN m THEN m[x] ELSE p]

Verdict == {"terminate", "rewrite", "track", "skip"}

\* How a request ends: with a success and a 2xx status, with a failure and an
\* error status, with a failure that still has a 2xx status since the answer
\* broke off after it had begun, or in a way request.complete ignores.
Outcome == {"succeeded", "failed", "broken", "other"}

Init ==
    /\ pending = [r \in {} |-> r]
    /\ leaked = FALSE
    /\ host = [r \in Req |-> [stage |-> "new", stream |-> FALSE, verdict |-> "none",
                              outcome |-> "none", original |-> FALSE, sent |-> 0]]
    /\ call = [r \in Req |-> [at |-> "idle"]]
    /\ comp = [r \in Req |-> [d \in Delivery |-> [at |-> "unsent"]]]
    /\ told = [r \in Req |-> [oks |-> 0, fails |-> 0, samples |-> <<>>]]
    /\ evicted = {}

\* The host's side of a request that ended with outcome o.
Ended(h, o) == [h EXCEPT !.stage = "ended", !.outcome = o]

Idle(r) == call[r].at = "idle"

Return(r) == call' = [call EXCEPT ![r] = [at |-> "idle"]]

-----------------------------------------------------------------------------
(* handleInterceptBefore.  The checker short-circuits the request or the    *)
(* probe cache answers it ("terminate"); the checker rewrites its body and  *)
(* the hook returns at once ("rewrite"); the probe cache may collect it     *)
(* ("track"); or it is of no interest to the probe cache ("skip").          *)

\* Mutant of Before: a request that is answered at once is tracked too.
Before_TracksAll(r, stream, v) ==
    /\ host[r].stage = "new"
    /\ host' = [host EXCEPT ![r] =
                   [stage |-> IF v = "terminate" THEN "answered" ELSE "sent",
                    stream |-> stream, verdict |-> v, outcome |-> "none",
                    original |-> FALSE, sent |-> 0]]
    /\ call' = [call EXCEPT ![r] =
                   [at |-> IF v \in {"track", "terminate"} THEN "insert" ELSE "idle"]]
    /\ UNCHANGED <<pending, leaked, comp, told, evicted>>

Before(r, stream, v) ==
    /\ host[r].stage = "new"
    /\ host' = [host EXCEPT ![r] =
                   [stage |-> IF v = "terminate" THEN "answered" ELSE "sent",
                    stream |-> stream, verdict |-> v, outcome |-> "none",
                    original |-> FALSE, sent |-> 0]]
    /\ call' = [call EXCEPT ![r] = [at |-> IF v = "track" THEN "insert" ELSE "idle"]]
    /\ UNCHANGED <<pending, leaked, comp, told, evicted>>

BeforeInsert(r) ==
    /\ call[r].at = "insert"
    /\ ~leaked
    /\ pending' = PutIfAbsent(pending, r, NewInfo("original", host[r].stream))
    /\ Return(r)
    /\ UNCHANGED <<leaked, host, comp, told, evicted>>

-----------------------------------------------------------------------------
(* handleStreamChunk *)

\* The header-init call at the start of a stream: the body it carries is the
\* one sent upstream, which may or may not be fit for the probe cache.
HeaderInit(r, eligible) ==
    /\ Idle(r)
    /\ host[r].stage = "sent" /\ host[r].stream
    /\ host' = [host EXCEPT ![r].stage = "streaming"]
    /\ call' = [call EXCEPT ![r] = [at |-> IF eligible THEN "init" ELSE "idle"]]
    /\ UNCHANGED <<pending, leaked, comp, told, evicted>>

HeaderInitInsert(r) ==
    /\ call[r].at = "init"
    /\ ~leaked
    /\ pending' = PutIfAbsent(pending, r, NewInfo("upstream", TRUE))
    /\ Return(r)
    /\ UNCHANGED <<leaked, host, comp, told, evicted>>

Chunk(r, n) ==
    /\ Idle(r)
    /\ host[r].stage = "streaming"
    /\ host[r].sent < MaxFrames
    /\ host' = [host EXCEPT ![r].sent = @ + 1]
    /\ call' = [call EXCEPT ![r] = [at |-> "chunk", len |-> n]]
    /\ UNCHANGED <<pending, leaked, comp, told, evicted>>

\* Mutant of Fits: the blank line is forgotten.
Fits_Bare(p, n) == n <= Cap - p.len

\* A frame and the blank line after it are two bytes longer than the frame;
\* one that does not fit is cut to the room left, or left out when there is
\* none.  The result is the entry with the frame.
Fits(p, n) == n + 2 <= Cap - p.len

Accumulated(p, n) ==
    [basis |-> p.basis, stream |-> p.stream, age |-> 0,
     len |-> IF Fits(p, n) THEN p.len + n + 2 ELSE Cap,
     whole |-> IF Fits(p, n) THEN p.whole + 1 ELSE p.whole,
     cut |-> p.cut \/ ~Fits(p, n)]

\* chunk[:room-2] with one byte of room: a negative slice bound.
Panics(p, n) == p.len < Cap /\ ~Fits(p, n) /\ Cap - p.len < 2

\* Mutant of ChunkAccumulate: an entry that is missing is put back.
ChunkAccumulate_PutBack(r) ==
    /\ call[r].at = "chunk"
    /\ ~leaked
    /\ LET p == IF r \in DOMAIN pending THEN pending[r] ELSE NewInfo("upstream", TRUE)
       IN  /\ ~Panics(p, call[r].len)
           /\ pending' = [PutIfAbsent(pending, r, p) EXCEPT ![r] = Accumulated(@, call[r].len)]
    /\ Return(r)
    /\ UNCHANGED <<leaked, host, comp, told, evicted>>

ChunkAccumulate(r) ==
    /\ call[r].at = "chunk"
    /\ ~leaked
    /\ \/ /\ r \notin DOMAIN pending
          /\ UNCHANGED pending
       \/ /\ r \in DOMAIN pending
          /\ ~Panics(pending[r], call[r].len)
          /\ pending' = [pending EXCEPT ![r] = Accumulated(@, call[r].len)]
    /\ Return(r)
    /\ UNCHANGED <<leaked, host, comp, told, evicted>>

\* HandleMethod recovers the panic and the call returns an error envelope;
\* the Unlock after the slice was not reached and is not deferred.
ChunkPanic(r) ==
    /\ call[r].at = "chunk"
    /\ ~leaked
    /\ r \in DOMAIN pending
    /\ Panics(pending[r], call[r].len)
    /\ leaked' = TRUE
    /\ Return(r)
    /\ UNCHANGED <<pending, host, comp, told, evicted>>

-----------------------------------------------------------------------------
(* handleResponseInterceptAfter: a non-streaming request succeeded.  The    *)
(* checker observes it, the probe cache gets a sample when input and output *)
(* are fit for it, and the entry is deleted under pendingMu.                *)

\* The host hands over the client's original body, or leaves it out: then the
\* hash is computed from the body sent upstream.
ResponseBasis(original) == IF original THEN "original" ELSE "upstream"

Response(r, original, collect) ==
    /\ Idle(r)
    /\ host[r].stage = "sent" /\ ~host[r].stream
    /\ host' = [host EXCEPT ![r] = [Ended(@, "succeeded") EXCEPT !.original = original]]
    /\ told' = [told EXCEPT ![r] =
                  [oks |-> @.oks + 1, fails |-> @.fails,
                   samples |-> IF collect
                               THEN Append(@.samples, [basis |-> ResponseBasis(original),
                                                       whole |-> 0, cut |-> FALSE])
                               ELSE @.samples]]
    /\ call' = [call EXCEPT ![r] = [at |-> "delete"]]
    /\ UNCHANGED <<pending, leaked, comp, evicted>>

ResponseDelete(r) ==
    /\ call[r].at = "delete"
    /\ ~leaked
    /\ pending' = Without(pending, {r})
    /\ Return(r)
    /\ UNCHANGED <<leaked, host, comp, told, evicted>>

-----------------------------------------------------------------------------
(* handleRequestComplete *)

\* The host sees the request end: without an answer, with the end of its
\* stream, or with the answer intercept_before gave.
End(r, o) ==
    /\ Idle(r)
    /\ \/ host[r].stage = "sent" /\ o # "succeeded"
       \/ host[r].stage \in {"streaming", "answered"}
    /\ host' = [host EXCEPT ![r] = Ended(@, o)]
    /\ UNCHANGED <<pending, leaked, call, comp, told, evicted>>

Deliver(r, d) ==
    /\ Idle(r)
    /\ host[r].stage = "ended"
    /\ comp[r][d].at = "unsent"
    /\ comp' = [comp EXCEPT ![r][d] = [at |-> "take"]]
    /\ UNCHANGED <<pending, leaked, host, call, told, evicted>>

\* Mutant of Taken: it goes on with an empty entry when there is none.
Taken_Empty(r) ==
    [at |-> "record",
     info |-> IF r \in DOMAIN pending THEN pending[r] ELSE NewInfo("none", FALSE)]

\* What a delivery goes on with: the entry it took, whose age no longer matters,
\* or nothing.
Taken(r) ==
    IF r \in DOMAIN pending THEN [at |-> "record", info |-> [pending[r] EXCEPT !.age = 0]]
    ELSE [at |-> "returned"]

\* Mutant of CompleteTake: the entry is looked up and not deleted.
CompleteTake_Kept(r, d) ==
    /\ comp[r][d].at = "take"
    /\ ~leaked
    /\ comp' = [comp EXCEPT ![r][d] = Taken(r)]
    /\ UNCHANGED <<pending, leaked, host, call, told, evicted>>

\* Mutant of CompleteTake: only the entry of a success is deleted.
CompleteTake_FailedKept(r, d) ==
    /\ comp[r][d].at = "take"
    /\ ~leaked
    /\ comp' = [comp EXCEPT ![r][d] = Taken(r)]
    /\ pending' = Without(pending, IF host[r].outcome = "succeeded" THEN {r} ELSE {})
    /\ UNCHANGED <<leaked, host, call, told, evicted>>

\* Mutant of CompleteTake: the early return for a request that is not pending
\* comes before the Unlock.
CompleteTake_NoUnlock(r, d) ==
    /\ comp[r][d].at = "take"
    /\ ~leaked
    /\ leaked' = (r \notin DOMAIN pending)
    /\ comp' = [comp EXCEPT ![r][d] = Taken(r)]
    /\ pending' = Without(pending, {r})
    /\ UNCHANGED <<host, call, told, evicted>>

CompleteTake(r, d) ==
    /\ comp[r][d].at = "take"
    /\ ~leaked
    /\ comp' = [comp EXCEPT ![r][d] = Taken(r)]
    /\ pending' = Without(pending, {r})
    /\ UNCHANGED <<leaked, host, call, told, evicted>>

\* Mutant of TellFailure: only failures of streams are recorded.
TellFailure_StreamsOnly(r, p) == host[r].outcome = "failed" /\ p.stream

\* RecordOutcome is called for every failure that has a status, and goes by the
\* status alone: one with a 2xx status is a success to the breaker, which it
\* resets.
TellFailure(r, p) == host[r].outcome = "failed"

TellSuccess(r) == host[r].outcome \in {"succeeded", "broken"}

\* collectStreamSample: what the probe cache gets when the text of the stream
\* is fit for it, which no text at all never is.
StreamSamples(p, fit) ==
    IF p.stream /\ p.len > 0 /\ fit
    THEN <<[basis |-> p.basis, whole |-> p.whole, cut |-> p.cut]>>
    ELSE <<>>

CompleteRecord(r, d, fit) ==
    /\ comp[r][d].at = "record"
    /\ LET p == comp[r][d].info
       IN  told' = [told EXCEPT ![r] =
                      [oks |-> IF TellSuccess(r) THEN @.oks + 1 ELSE @.oks,
                       fails |-> IF TellFailure(r, p) THEN @.fails + 1 ELSE @.fails,
                       samples |-> IF host[r].outcome = "succeeded"
                                   THEN @.samples \o StreamSamples(p, fit)
                                   ELSE @.samples]]
    /\ comp' = [comp EXCEPT ![r][d] = [at |-> "returned"]]
    /\ UNCHANGED <<pending, leaked, host, call, evicted>>

-----------------------------------------------------------------------------
(* pendingJanitor *)

\* Mutant of Stale: the comparison is turned round.
Stale_Young == {r \in DOMAIN pending : pending[r].age <= Cutoff}

Stale == {r \in DOMAIN pending : pending[r].age > Cutoff}

Sweep ==
    /\ ~leaked
    /\ Stale # {}
    /\ pending' = Without(pending, Stale)
    /\ evicted' = evicted \cup Stale
    /\ UNCHANGED <<leaked, host, call, comp, told>>

Tick ==
    /\ \E r \in DOMAIN pending : pending[r].age <= Cutoff
    /\ pending' = [r \in DOMAIN pending |->
                     [pending[r] EXCEPT !.age = IF @ > Cutoff THEN @ ELSE @ + 1]]
    /\ UNCHANGED <<leaked, host, call, comp, told, evicted>>

-----------------------------------------------------------------------------
\* The host's next call for request r.
HostStep(r) ==
    \/ \E stream \in BOOLEAN, v \in Verdict : Before(r, stream, v)
    \/ \E eligible \in BOOLEAN : HeaderInit(r, eligible)
    \/ \E n \in FrameLen : Chunk(r, n)
    \/ \E original \in Original, collect \in BOOLEAN : Response(r, original, collect)
    \/ \E o \in Outcome : End(r, o)
    \/ \E d \in Delivery : Deliver(r, d)

\* The critical section the hook call of r waits for.
HookStep(r) ==
    \/ BeforeInsert(r)
    \/ HeaderInitInsert(r)
    \/ ChunkAccumulate(r)
    \/ ChunkPanic(r)
    \/ ResponseDelete(r)

CompleteStep(r, d) ==
    \/ CompleteTake(r, d)
    \/ \E fit \in BOOLEAN : CompleteRecord(r, d, fit)

Next ==
    \/ \E r \in Req : HostStep(r) \/ HookStep(r)
    \/ \E r \in Req, d \in Delivery : CompleteStep(r, d)
    \/ Sweep
    \/ Tick

\* Go runs a goroutine that can run, the janitor's ticker fires and time
\* passes.  Nothing is assumed of the host or of the upstream.
Fairness ==
    /\ \A r \in Req : WF_vars(HookStep(r))
    /\ \A r \in Req, d \in Delivery : WF_vars(CompleteStep(r, d))
    /\ WF_vars(Sweep)
    /\ WF_vars(Tick)

Spec == Init /\ [][Next]_vars

FairSpec == Spec /\ Fairness

-----------------------------------------------------------------------------
(* Properties *)

PendingInfo ==
    [basis : {"original", "upstream"}, stream : BOOLEAN, age : 0..Cutoff+1,
     len : Nat, whole : Nat, cut : BOOLEAN]

HostState ==
    [stage : {"new", "sent", "answered", "streaming", "ended"}, stream : BOOLEAN,
     verdict : Verdict \cup {"none"}, outcome : Outcome \cup {"none"},
     original : BOOLEAN, sent : Nat]

CallState ==
    [at : {"idle", "insert", "init", "delete"}] \cup [at : {"chunk"}, len : FrameLen]

CompState ==
    [at : {"unsent", "take", "returned"}] \cup [at : {"record"}, info : PendingInfo]

SampleRecord ==
    [basis : {"original", "upstream"}, whole : Nat, cut : BOOLEAN]

Heard == [oks : Nat, fails : Nat, samples : Seq(SampleRecord)]

\* Every variable has its type (the shape of Engine and pendingInfo).
TypeOK ==
    /\ DOMAIN pending \subseteq Req
    /\ \A r \in DOMAIN pending : pending[r] \in PendingInfo
    /\ leaked \in BOOLEAN
    /\ host \in [Req -> HostState]
    /\ call \in [Req -> CallState]
    /\ comp \in [Req -> [Delivery -> CompState]]
    /\ told \in [Req -> Heard]
    /\ evicted \subseteq Req

\* The accumulated text of a stream never exceeds maxStreamAccumBytes
\* (engine.go:447-456), separators included, wherever the frames end.
TextBounded == \A r \in DOMAIN pending : pending[r].len <= Cap

\* Some request.complete of r was handled, and none is being handled.
Completed(r) ==
    /\ \E d \in Delivery : comp[r][d].at = "returned"
    /\ \A d \in Delivery : comp[r][d].at \in {"unsent", "returned"}

\* The take-and-delete of request.complete (engine.go:366-369) and the delete
\* of the response hook (engine.go:338-342) share the outcome of a request
\* out to exactly one of them: the breaker never counts one request twice,
\* however often its completion is delivered.  It hears of a failure only of a
\* request that failed with an error status, and of a success only of one that
\* succeeded or, since it goes by the status (engine.go:387, store.go:147), of
\* one that failed with a 2xx status.
OutcomeToldOnce ==
    \A r \in Req :
        /\ told[r].oks + told[r].fails <= 1
        /\ told[r].oks = 1 => host[r].outcome \in {"succeeded", "broken"}
        /\ told[r].fails = 1 => host[r].outcome = "failed"

\* What became of a request intercept_before tracked is told to the breaker
\* once its completion was handled, unless the janitor evicted the request:
\* that it failed, when it has an error status, and that it succeeded, when it
\* has a 2xx status, be it that of a failure.
TrackedOutcomeTold ==
    \A r \in Req :
        Completed(r) /\ host[r].verdict = "track" /\ r \notin evicted =>
            /\ host[r].outcome = "failed" => told[r].fails = 1
            /\ host[r].outcome \in {"succeeded", "broken"} => told[r].oks = 1

\* A request gives at most one sample, only when it succeeded, and one that
\* was not cut holds every frame of the stream: nothing is collected of a
\* stream that was evicted half way (engine.go:443-460, 481-496).
SamplesComplete ==
    \A r \in Req :
        /\ Len(told[r].samples) <= 1
        /\ \A n \in DOMAIN told[r].samples :
              /\ host[r].outcome = "succeeded"
              /\ told[r].samples[n].cut \/ told[r].samples[n].whole = host[r].sent

\* "The hash must be based on the client's original request", the basis of
\* the lookup in intercept_before (engine.go:313-318), whenever the hook that
\* collects can know that request.  The response hook can when the host hands
\* it over; a stream's samples have the entry of intercept_before, since
\* header-init, which has the upstream body, does not file a request anew that
\* intercept_before tracked.  It does when the janitor evicted the request in
\* between.
SamplesKeyedAsLookedUp ==
    \A r \in Req :
        \/ host[r].stream /\ host[r].verdict = "track" /\ r \notin evicted
        \/ ~host[r].stream /\ host[r].original
        => \A n \in DOMAIN told[r].samples : told[r].samples[n].basis = "original"

\* "so the map cannot leak" (engine_test.go:113-114): a request whose
\* completion was handled has no entry, and gets none again.
CompletedNotPending == \A r \in Req : Completed(r) => r \notin DOMAIN pending

\* pendingJanitor, engine.go:115-116: every entry leaves the map, be the
\* completion of its request lost and its stream never ended.
EntriesLeave == \A r \in Req : r \in DOMAIN pending ~> r \notin DOMAIN pending

Waiting(r) == ~Idle(r) \/ \E d \in Delivery : comp[r][d].at \in {"take", "record"}

\* Every hook call returns.  The hooks are synchronous calls of the host
\* (engine.go:135-152 turns even a panic into an answer).
CallsReturn == \A r \in Req : Waiting(r) ~> ~Waiting(r)

-----------------------------------------------------------------------------
(* Statements of the repository that the code does not meet: the properties *)
(* of runs that must find them violated.                                    *)

\* README.md:25, "automatically tracks consecutive failures": the failure of
\* any request sent upstream is told to the breaker.
FailuresTold ==
    \A r \in Req :
        /\ Completed(r) /\ host[r].outcome = "failed"
        /\ host[r].verdict # "terminate" /\ r \notin evicted
        => told[r].fails = 1
=============================================================================
