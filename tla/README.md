# Verification of cpa-codex-guard

TLA+ models of the plugin `cpa-codex-guard` (Go, `src/`), their model-checking
configurations for TLC, and proofs checked by TLAPS.  The plugin is loaded by
the proxy CLIProxyAPI (the *host*, not part of this repository).  The host
calls its hooks around every request to a language model; the plugin refuses
requests it knows will fail, trips a circuit breaker for sessions that keep
failing, and answers repeated probe requests from a cache.

## 1. The system

| Part | Source | State | Operations |
|---|---|---|---|
| Guard store | `internal/state/store.go` | `items` (reasoning ids known invalid, with expiry), `circuits` (per session key: error count, last input, last status and body, expiry), `isDirty`, one JSON file | `IsInvalid`, `MarkInvalid`, `CheckFuzzyCircuit`, `RecordResponseOutcome`, `load`, `saveLocked` |
| Checker | `internal/guard/checker.go` | none of its own; the guard store | `CheckRequest` (a chain of early returns: payload size, `max_turns`, breaker, invalid item, Responses-Lite rewrite), `RecordOutcome` |
| Probe store | `internal/probecache/store.go` | `entries` (per input hash: samples, activation, hits, expiry), `isDirty`, `lastErr`, one JSON file | `AddSample`, `GetRandomSample`, `LastError`, `load`, `saveLocked` |
| Probe engine | `internal/probecache/engine.go` | none | `ComputeInputHash`, `ExtractOutputText`, `ExtractStreamText`, `FormatResponse`, `SynthesizeRawResponse` |
| Plugin engine | `internal/plugin/engine.go` | `pending` (per request id: what `request.complete` will need), under `pendingMu`; the debug log's cap | `HandleMethod` and one handler per hook, `pendingJanitor` |
| Configuration | `internal/plugin/config.go` | none after construction: `register` and `reconfigure` ignore what they are sent (engine.go:181) | defaults of switches, sizes, durations and the threshold |
| ABI types | `internal/types/types.go` | none | getters that fall back from one field to another |
| C-ABI bridge | `cmd/cpa-codex-guard/main.go` | the engine pointer | copies buffers, calls `HandleMethod` |

**Interactions.**  The host calls the hooks of one request one after the other
and those of different requests concurrently, each on its own goroutine.

    host --intercept_before--> Engine --CheckRequest--> Checker --IsInvalid, CheckFuzzyCircuit--> guard store
                                  |----GetRandomSample--------------------------------------------> probe store
                                  |----insert--> pending
    host --stream_chunk(-1)----> Engine --insert if absent--> pending
    host --stream_chunk(n)-----> Engine --append the frame--> pending
    host --response.after------> Engine --ObserveResponse--> Checker --RecordResponseOutcome, MarkInvalid--> guard store
                                  |----AddSample--------------------------------------------------> probe store
                                  |----delete--> pending
    host --request.complete----> Engine --take and delete--> pending, then as above
    janitor (every 10 min) -----> Engine --delete what is silent for 1 h--> pending

**What is hard in it.**

- *Several critical sections per call.*  `IsInvalid` reads under one lock and
  deletes under another; `MarkInvalid` sets under one and saves under another;
  `request.complete` takes the entry under `pendingMu` and records after it.
- *Persistence.*  The whole state is rewritten at each save; the dirty flag is
  cleared before the write; a write, or the JSON encoding itself, can fail; the
  process can die at any point; some changes are deliberately not saved; what
  was saved may have expired when it is loaded.
- *Lifecycle events.*  `request.complete` can be lost or come twice; the janitor
  can evict a request in flight; streams are cut at 1 MB.
- *A panic* in a handler is recovered by `HandleMethod`, whatever mutex the
  handler held.
- *Decisions spread over calls.*  What a request is answered depends on what the
  hooks of others recorded, and when; the body the client sent, the one the
  plugin rewrote and the one the host sent upstream are three different bodies,
  and each hook sees another of them; so it is with the headers.
- *Text found by its looks.*  Streams are read back as text, by marks and field
  names alone, after they were cut anywhere.
- *Boundaries.*  One byte of room in the stream buffer; an entry exactly at its
  expiry; a pool exactly at its limit.

**What makes each part correct.**

- Guard store: a session is short-circuited only because of its own, recent,
  similar failures, and gets the answer of one of them; a success disarms the
  breaker; what is recorded is persisted or known to be unsaved.
- Probe store: what is replayed was really answered to that input, recently and
  often enough; the pool is bounded; the file is never anything but an earlier
  stage of the pool; no reply can poison the file.
- Engine: each request's outcome is told to the breaker at most once, and, for a
  request it tracks, at least once; samples come only from successful
  requests, hold every frame that was not cut, and are filed under the hash that
  is looked up wherever it can be known; the map does not leak; no hook hangs.
- Probe engine: the text collected is what the upstream said, once, as far as it
  does not look like a mark of the stream; a request is
  answered from a sample exactly when it asks the same question.
- Plugin: each answer it makes goes back to answers of the upstream, never to
  one of its own; what is known to fail is refused; a warm pool answers; a rule
  that is off does nothing.

## 2. Modules

| Module | Models | Built on |
|---|---|---|
| `InputOverlap` | `computeOverlap` and its comparison with the threshold | |
| `GuardStore` | the guard store | `InputOverlap` |
| `ProbeStore` | the probe store | `SampleCache` |
| `SampleCache` | what the probe store promises: the abstract specification it implements | |
| `ProbeText` | the pure functions of the probe engine | |
| `ProbeReplay` | the way of one sample through them | `ProbeText` |
| `Engine` | the hooks around `pending`, the janitor | |
| `Configuration` | the getters of the configuration | |
| `Checker` | what each rule of the guard looks at | `Configuration` |
| `Plugin` | all of them together | `Checker`, and instances of `Engine`, `GuardStore`, `ProbeStore` |
| `GuardStoreProofs` | theorems about `GuardStore`, its circuits and its file | `GuardStore` |
| `ProbeStoreProofs` | theorems about `ProbeStore` | `ProbeStore` |
| `ProbeStoreReplayProofs` | that it replays what was collected, does so once it is warm, and implements `SampleCache` | `ProbeStoreProofs` |
| `ProbeReplayProofs` | theorems about `ProbeReplay`, and about the functions of `ProbeText` on sequences of any length | `ProbeReplay` |
| `EngineProofs` | theorems about `Engine` | `Engine` |
| `PluginProofs` | that `Plugin` is `Engine`, `GuardStore` and `ProbeStore` at once, and the order of its steps | `Plugin`, and instances of the proof modules of the three |
| `PluginAnswerProofs` | theorems about what `Plugin` answers | `PluginProofs` |
| `PluginDutyProofs` | theorems about what `Plugin` must not send upstream | `PluginAnswerProofs` |
| `MCGuardStore`, `MCProbeStore`, `MCEngine`, `MCProbeReplay`, `MCPlugin` | values of the constants for TLC | |

Definitions named `X_Y` that stand before a definition `X` and are introduced
as "Mutant of X" are plausible bugs in the code `X` models.  Each property of a
passing run is violated when one of them takes the place of `X`, which shows
that the property depends on that code.  No specification uses them.

### GuardStore

One action per critical section; `pc[t]` holds what a goroutine has to carry
from the first section of `IsInvalid` or `MarkInvalid` to the second.

| Code | Model |
|---|---|
| `Store.items`, `Store.circuits` | `items`, `circuits`: functions whose domain is the set of keys present |
| `CircuitExpireAt.IsZero()` | `expire = 0` |
| `time.Now()` before `mu.Lock()` | a value of `ClockReads`: at most `Lag` older than `now` |
| `IsInvalid` | `IsInvalidRead`, then `IsInvalidHit` or `IsInvalidDelete` |
| `MarkInvalid` | `MarkInvalidSet`, then `MarkInvalidSave` |
| `RecordResponseOutcome` | `RecordSuccess` (returns without a save), `RecordFailure` (ends with `saveLocked`) |
| `CheckFuzzyCircuit` | `Blocked`, a state predicate: the call changes nothing |
| `saveLocked` | `SaveLocked`: prune, clear the flag, then encode and write or fail |
| `NewStore` and `load` after a crash | `Restart`; an unreadable file is ignored, as by `_ = s.load()` |

The temporary file of `saveLocked` is not a variable.  It is written and
renamed under the lock, nobody reads it, and a crash before the rename leaves
the file alone, so a save either replaces the file or does nothing to it.  A
save that a crash interrupts is a `Restart` without the save.  Hash lists are
sequences of abstract hashes; error bodies are members of `Payload`, of which
`JSONPayload` can be encoded.

`Restart` may find the file unreadable, or corrupted by something else, when
`DiskFaults` is set; the next save then overwrites it.

### ProbeStore

Each method is one critical section, disk write included, hence one action:
`AddSample`, `AddRefused` (its early return), `GetExpired`, `GetHit`, `Restart`.
Comparisons are those of the code: at `now = expire` an entry is still replayed
(`now.After`) and is pruned by the save of that very hit (`now.Before`).
`AddSample` counts expired entries against the limit, extends them, and its own
save prunes them.  A reply is an abstract value; the wrapping of a raw response
that is not valid JSON is modelled by the field `raw`.

### SampleCache

The promise of the store to the rest of the plugin, without clock, counters and
failures.  Three variables: the replies `kept` per input, a snapshot `saved` of
them that outlives the process, and what the last call has `given`.  The cache
may forget *all* replies of an input at any time; it may not invent one, move it
to another input, reorder, replace, or forget some and keep later ones; it
replays from full collections only; a new process starts from the snapshot,
which is the cache as it once was.  `ProbeStore` maps to it by
`kept <- Replies(entries)`, `saved <- Replies(file)` (the replies of the samples
of each entry, the empty sequence for an input without one) and `given <- Given`
(a hit, without its time).  Every save of the store is then a `Forgets` (the
pruning) and a `Snapshot` (the write, or its failure), and `Restart` is the
cache's.

### ProbeText and ProbeReplay

`ProbeText` has one operator per function of `probecache/engine.go`.  A body or a
stream is a sequence of tokens: characters, line ends, the opening and closing
of a JSON document, and the marks `DATA` and `EVENT`, because `ExtractStreamText`
starts a new line wherever it finds `data:` or `event:`, in the middle of a string
too.  A text may hold both marks anywhere; `Legible` says that it holds none.
(That two texts without a mark spell one together is not modelled.)

| Code | Model |
|---|---|
| `ComputeInputHash` | `Eligible`, `Format`, and `InputHash`: what is hashed, with SHA-256 taken to be injective |
| `ExtractOutputText` | `ExtractOutputText` |
| `ExtractStreamText` | `ExtractStreamText`, a scan of the tokens that ends each line with `AbsorbLine` and adds an event's text with `Absorb` |
| the limit on the output | `Fits`, in characters: `data:` has five, `event:` six |
| `FormatResponse` | `Replayed` for streams, `SynthesizeRawResponse` for objects |

`ProbeReplay` takes one request through them: the upstream (external) emits
events or responds with an object; `CollectStream(n)` collects what the first `n`
tokens of a stream say, for every `n`, so a stream is cut anywhere, in the middle
of a frame too; `CollectResponse` collects from an object; `AskAgain` is another
request that is answered from the sample, or not.  `spaced` tells whether the
host keeps the line end between an event's name and its data.  Two histories say
what an answer is compared with: `said` is the text of the reply, `plain` what of
it came in deltas without a mark.

### Engine

Each hook runs without shared state up to its section on `pendingMu`, so it is
split into the call (`Before`, `HeaderInit`, `Chunk`, `Response`, `Deliver`) and
the section (`BeforeInsert`, `HeaderInitInsert`, `ChunkAccumulate`,
`ResponseDelete`, `CompleteTake`), with `CompleteRecord` after the last.
`leaked` says that a panic left `pendingMu` locked; no section starts then.
What checker and probe cache would decide is a choice of the action (the
verdict of `Before`, the booleans `eligible`, `collect` and `fit`); what they
are told is the history `told`.  A frame is its length, and `streamText` is its
length, the number of frames it holds entirely and whether something was cut.

Two things the host decides matter to what is told.  A request may fail with the
2xx status of headers that were sent before the answer broke off (the outcome
`broken`): `RecordOutcome` is called as for any failure and goes by the status, so
the breaker hears a success (`TellSuccess`).  And the host may hand the client's
original body to the response hook or leave it out (`Original`): without it the
hash is that of the body sent upstream (`ResponseBasis`, engine.go:315-318).

**The host is external.**  It is modelled from the way the hooks use it: hooks
of one request come in sequence; a stream starts with the header-init call;
`response.intercept_after` fires only for successful non-streaming requests
(comment at engine.go:291-294); `request.complete` comes after the other hooks
(comment at engine.go:347-351) and is delivered never, once or, concurrently,
up to `Delivery` times.  The host may stop calling at any point.

### Configuration, Checker and Plugin

`Configuration` has the getters: a switch is off only if it was switched off, and
a size, duration or threshold that is missing or makes no sense has its default.

`Checker` says what each rule looks at in a request, a record of what the rules
can tell apart: size, validity, `max_turns`, the input items with hash and id,
`reasoning`, session keys from headers and from `client_metadata`, the
Responses-Lite header, and the hash the probe cache knows it by.  There are two
sources of headers: `CheckRequest` reads `Headers` (`CheckedKeys`), while outcomes
are recorded under what `GetHeaders` returns, `RequestHeaders` if the host has them
(`SessionKeys`).  Nothing relates the two in the model.

`Plugin` composes the components.  `E`, `G` and `P` are instances of `Engine`,
`GuardStore` and `ProbeStore` over the variables of `Plugin`; what those modules
leave open (the verdict on a request, the outcomes that come in, the samples) is
now decided by the rules and the stores.  `hook[r]` says what the hook call of
request `r` does next between two critical sections.

| Code | Model |
|---|---|
| `handleInterceptBefore`, up to the static rules of `CheckRequest` | `AskRefused`, or the first conjuncts of the next two |
| the breaker in `CheckRequest` | `AskBlocked` (the answer of a blocked key), `AskFurther` |
| the loop over item ids | `ItemUnknown`, `ItemRead`, `ItemKnown`, `ItemExpired`: one per section of `IsInvalid` |
| the Responses-Lite rewrite | `Rewrite` |
| the probe cache | `Skip`, `Replay`, `Miss`, then `E!BeforeInsert` |
| `handleStreamChunk` | `HeaderInit` with the upstream's body, `E!HeaderInitInsert`, `E!Chunk`, `E!ChunkAccumulate` |
| `handleResponseInterceptAfter` | `Response` (with `CollectBody` and `RecordSuccess`), `AddSample`, `ResponseDelete` |
| `handleRequestComplete` | `E!Deliver`, `E!CompleteTake`, `CompleteRecord` (with `RecordSuccess` or `RecordFailure`), `Mark` and `SaveMark`, or `AddSample` |
| the upstream, and the host's conversion of bodies (external) | `UpstreamResults`, `Upstream` |

The body of an error and the text of a reply are the request they were the answer
to.  So every answer the plugin makes names where it comes from, and the host
reports those answers back through `request.complete` as it does with any other
(`Results`), with the outcome `OutcomesOf` allows: a 2xx status is that of a success
or of an answer that broke off.  Time may pass between any two steps; how far it goes,
and under how many hook calls, is bounded for TLC only (`MaxTime`, `MaxBusy`).
Left to the single components are failing disks and restarts,
payloads that are not JSON, late clock reads and the
janitor's eviction.

## 3. Runs

| Run | Instance | Question | Result |
|---|---|---|---|
| `guard_circuits` | 2 sessions, 2 inputs one of which extends the other, `CircuitTTL` 2, `Lag` 1, clock to 3, 4 outcomes or restarts, failing disk | May a session be blocked that should not be, or with a foreign answer, or pass that should be blocked? | holds, 1.2 M states |
| `guard_items` | 2 items, 2 goroutines, JSON and other payloads, `TTL` 1, `Lag` 1, clock to 2, 1 outcome or restart, failing disk | Is anything lost from the file that the store takes for saved? | holds, 76 k states |
| `probe_pool` | 2 hashes, a pool of 1, 2 samples to activate, JSON and other replies, `TTL` 2, clock to 3, 4 samples or restarts, failing disk | What is replayed, kept and persisted, and is it the cache of `SampleCache`? | holds, 125 k states |
| `engine_safety` | 2 requests, 2 deliveries each, frames of 1 and 3 bytes, a cap of 6, 2 frames, original bodies or none | What are breaker and cache told? | holds, 1.8 M states |
| `engine_live` | 2 requests, 1 delivery, one frame of 2 bytes, a cap of 2 | Do entries leave the map, do calls return? | holds, 223 k states |
| `probe_text` | all pairs of 15 bodies, streams of 3 events and objects of 3 texts, 5 texts of which two hold a mark, a limit of 6 characters | What text is collected, who is answered with it? | holds, 105 k states |
| `plugin` | 3 requests under 5 configurations, 6 kinds of request, 2 sessions, 1 item, 2 hashes, a pool of 1, 2 samples to activate | Where do the plugin's answers come from, and is what it knows used? | holds, 627 k states |
| `guard_recheck` | 1 item, 2 goroutines | Does a live mark stay? | violated |
| `guard_nonjson` | 1 item, 1 goroutine, a body that is not JSON, a disk that works | Is a mark that returned on file? | violated |
| `engine_panic` | 1 request, odd frames | Do calls return? | violated |
| `engine_untracked` | 1 request | Does each failure reach the breaker? | violated |
| `probe_plain` | the streams of `probe_text` | Is a sample the text the stream said? | violated |

**Properties.**  Guard: `BlockedByOwnFailures` (two failures of that very
session, the answer that of a recent failure of a similar request),
`SuccessDisarms` (within a process), `RepeatsTrip` (the converse: a session that
failed twice in a row is blocked), with the inductive forms
`CircuitsExplained` and `CountsSinceSuccess`; `CleanMeansSaved` and
`ReturnedMarksSaved` with its inductive form
`MarksAccountedFor` (whatever other goroutines save, delete or reset between
the two sections of `MarkInvalid`).  Pool: `ReplaysCollectedReplies`
and its converse `WarmEntryAnswers` (what was collected often enough is replayed),
`PoolBounded`, `FileIsEarlierStage`, `CleanMeansSaved`, `SavesFailOnlyOnDisk`,
`SamplesOnlyGrow`, `IsSampleCache`.  Engine: `TextBounded`, `OutcomeToldOnce`,
`TrackedOutcomeTold`, `SamplesComplete`, `SamplesKeyedAsLookedUp`,
`CompletedNotPending`, and the liveness properties `EntriesLeave` and
`CallsReturn`.  `OutcomeToldOnce` and `TrackedOutcomeTold` speak of what the breaker
hears, which goes by the status: that a failure with a 2xx status is heard as a
success is part of them, and a finding (section 4).
Probe engine: `ReadsWhatWasSaid` (an object is read as the text
it says, a stream as its deltas without those that hold a mark, once, a cut one as
the beginning of that, and the raw response kept with a sample
says the same; the lost deltas are a finding, section 4), `ReplayAnswersTheQuestion` (a request is answered from a sample
exactly when it asks the same question, in whatever protocol, and its client
reads the text once).  Plugin: `AnswersJustified` (soundness: each answer goes
back to the answers of the upstream that its rule requires), `RefusesKnownBad`
and `WarmPoolAnswers` (completeness: nothing goes upstream that should have been
answered).  Each is explained where it is defined.

**Bounds, and why they are enough.**

- `MaxNow`, `TTL`, `CircuitTTL`: the clock runs past an expiry, and a second
  entry can be made and expire or stay after the first.
- `Lag` 1: a goroutine that read the clock before a tick writes after one that
  read it after the tick.
- `MaxEvents` 4: two failures, a restart or a success and another failure: the
  shortest histories that trip, disarm and trip again.  In `guard_items` the
  circuits matter only through the dirty flag and the shared save, for which
  one outcome (or one restart) is enough.
- Two sessions share failures by the key set of the call; a third adds nothing
  since no rule relates more than two.
- Two inputs: similarity is not symmetric (a conversation that grew is similar
  to the shorter one, not the reverse), which `GrowingInputs` exercises.
- A pool of 1 with 2 hashes: each is refused, evicted by expiry and readmitted.
  `MaxHits` 1 is enough to tell a counted hit from a saved one.
- `Cap` 6 with frames of 1 and 3: 3 + 2 leaves one byte of room (the panic), 1 + 2
  twice leaves none, 3 after 1 is cut.  For `engine_live`, `Cap` 2 with a frame
  of 2 bytes and its separator is cut at once and never leaves one byte, the
  condition under which calls return; the violating runs need one request.
- `Cutoff` 0: the janitor may evict after one tick, so also in mid-stream.
- `probe_text`: 5 + 1 characters are exactly the limit, one more is too long; a
  character with `data:` behind it is 6, and so is `event:`, so texts that hold a
  mark are collected from objects.  Three events are two deltas and the response
  object that repeats them; two would not tell the order.  The bodies differ in one
  thing each: protocol, streaming, how the text is split into parts, the role, the
  model, the number of messages, a separator spelled in a text or a role, an image,
  a size beyond the limit, no messages, no JSON.
- `plugin`: three requests are two that fail, or fill the pool, and one that
  is answered.  Each configuration has a few kinds of request of its own
  (`RequestsOf`), chosen so that the rule it switches matters; with the defaults
  two requests are under way at a time, so that the rules read breaker and list
  between the steps of another request, otherwise one (`MaxOpen`).  The clock
  ticks twice: circuits expire with the first tick, while items and samples are still
  used after it and are past their expiry after the second.  With two requests under
  way it ticks once (`MaxTime`).  It ticks within hook calls too where items are
  looked up and replies replayed (`OnlySignatures`, `MaxBusy` 1), elsewhere between
  them; the proofs have no such bound.  Failures have status 400, the one that may
  name an item; answers that break off have 200.  Requests come with the same session
  keys in both sources of headers, in one of them, and with different ones.
- Symmetry is used for sessions, goroutines, hashes, requests and deliveries,
  in runs without liveness properties only; nothing distinguishes them.

`CHECK_DEADLOCK FALSE` everywhere: a store that nobody calls and a host that
sends no request are idle, the bounded clock and histories end, and so does the
way of one sample.

**Fairness** (`FairSpec` of `Engine`): weak fairness of each hook's section and
of the completion steps (a goroutine that can run is run; a Go mutex does not
starve its waiters), of the janitor's sweep (its ticker runs as long as the
process) and of time.  Nothing is assumed of host and upstream: a request may
never be sent, a stream may stop in the middle, a completion may be lost.

## 4. Findings

- **`engine_panic`** (engine.go:451).  `chunk[:room-2]` with one byte of room has
  a negative bound.  The panic is recovered, but `pendingMu` stays locked:
  every later hook that needs it hangs, and the janitor with it.
- **`guard_nonjson`** (store.go:299).  A failure body that is not JSON, such as
  the plain error text of `request.complete`, is kept as a `json.RawMessage` and
  makes every save of the guard store fail while it is there; no error is seen.
  The probe store protects itself against this (`SavesFailOnlyOnDisk`).
- **`guard_recheck`** (store.go:76).  `IsInvalid` deletes what the key holds when
  it gets the lock, not what it read: a mark renewed in between is lost.
- **`engine_untracked`** (engine.go:371).  Only failures of requests the probe
  cache may collect reach the breaker: not those above 20 KB, nor those whose
  body the checker rewrote.
- **`probe_plain`** (probecache/engine.go:199).  Any string named `delta` counts as
  output text.  A Responses stream that ends in a tool call leaves the arguments
  of the call as the sample, unless a `response.completed` with output text
  replaces them.

Seen in the models, without a run of their own:

- A request that failed is recorded with whatever status it has (engine.go:387).
  With a 2xx status, that of a stream that broke off after its headers, it is a
  success to the guard store (store.go:147), which resets the circuits of its
  session: consecutive failures are then not counted as the README says
  (README.md:25; `TellSuccess`, stated by `TrackedOutcomeTold`).
- A delta that holds `data:` or `event:` is torn apart by the split that is to repair
  frames (probecache/engine.go:170), and its text is missing from the sample.
  `response.completed` does not bring it back, since it repeats the mark
  (`ReadsWhatWasSaid` says exactly what is lost).
- A dissimilar failure replaces the input of a tripped circuit and keeps its
  expiry, so the new input is blocked after one error (store.go:188).
- A success is not saved, so a process that starts from the file may trip on its
  first failure (`SuccessDisarms` is limited to one process for that reason).
- A failed save of the guard store leaves no trace (`lastSave` occurs in
  `CleanMeansSaved` for that reason).
- Without the original body, a response is collected under the hash of the body
  sent upstream, which nobody asks if the host converts requests (engine.go:316;
  `KeyOf`).
- A session is checked under keys of `Headers` and recorded under keys of
  `RequestHeaders`; if the host fills them differently, it may be checked under keys
  nothing is recorded under (checker.go:82, engine.go:273; `CheckedKeys`).
- A pool full of expired entries turns new inputs away: only a save prunes, and
  the refusal returns before it (probecache/store.go:96).
- `AddSample` may report an activation that its own save prunes.
- A stream that was cut at the cap is collected all the same (engine.go:484).
- A request that the janitor evicted may be filed anew by header-init under the
  hash of the upstream body (`SamplesKeyedAsLookedUp` excludes it).
- The success of a request that is not streamed is recorded under the session
  keys of the body sent upstream.  If the host's conversion drops
  `client_metadata`, keys found only there keep their failures
  (`KeepsFailing` of `Plugin` asks for both forms for that reason).
- A request in the form of chat completions has no input hashes, so the breaker
  never answers it (`BreakerKeys`).
- A rewritten request is returned before the probe cache is asked, and is tracked
  by header-init only, that is, when it is streamed and then under the upstream's
  hash (`Forms` and `KeyOf` of `Plugin`).
- Items are recorded as invalid also when the rule that looks them up is off.
- Two questions whose texts spell the separator `|` and a role may share a hash, and
  so may two of which one has a role with `:` in it; images are left out of the hash
  (`TextBody` in `ReplayAnswersTheQuestion`).
- The configuration `register` and `reconfigure` are sent is ignored, so the
  documented options have no effect: `cfg` of `Plugin` never changes.

## 5. Proofs

All theorems are of the form `Spec => []P`, or `Spec => P` for a temporal `P`,
proved for every value of the constants: any sets of sessions, items, inputs,
payloads, hashes, replies, requests, deliveries and goroutines, any threshold,
TTL, limit, cap, frame length and lag, any length of history.

| Module | Theorem | Property of the runs |
|---|---|---|
| `GuardStoreProofs` | `TypeCorrect` | `TypeOK` |
| | `AlwaysExplained` | `CircuitsExplained` |
| | `BlockedOnlyByOwnFailures` | `BlockedByOwnFailures` |
| | `CountsAlwaysSinceSuccess` | `CountsSinceSuccess` |
| | `SuccessAlwaysDisarms` | `SuccessDisarms` |
| | `RepeatsAlwaysTrip` | `RepeatsTrip` |
| | `CleanAlwaysSaved` | `CleanMeansSaved` |
| | `MarksAlwaysAccountedFor` | `MarksAccountedFor` |
| | `MarksAlwaysSaved` | `ReturnedMarksSaved` |
| `ProbeStoreProofs` | `TypeCorrect` | `TypeOK` |
| | `SamplesAlwaysGrow` | `SamplesOnlyGrow` |
| | `FileAlwaysEarlierStage` | `FileIsEarlierStage` |
| | `CleanAlwaysSaved` | `CleanMeansSaved` |
| | `SavesAlwaysFailOnlyOnDisk` | `SavesFailOnlyOnDisk` |
| | `PoolAlwaysBounded` | `PoolBounded` |
| `ProbeStoreReplayProofs` | `AlwaysReplaysCollectedReplies` | `ReplaysCollectedReplies` |
| | `WarmEntriesAlwaysAnswer` | `WarmEntryAnswers` |
| | `ImplementsSampleCache` | `IsSampleCache` |
| `ProbeReplayProofs` | `TypeCorrect` | `TypeOK` |
| | `ReadsAlwaysWhatWasSaid` | `ReadsWhatWasSaid` |
| | `AlwaysAnswersTheQuestion` | `ReplayAnswersTheQuestion` |
| `EngineProofs` | `TypeCorrect` | `TypeOK` |
| | `TextAlwaysBounded` | `TextBounded` |
| | `OutcomeAlwaysToldOnce` | `OutcomeToldOnce` |
| | `TrackedOutcomeAlwaysTold` | `TrackedOutcomeTold` |
| | `SamplesAlwaysComplete` | `SamplesComplete` |
| | `SamplesAlwaysKeyedAsLookedUp` | `SamplesKeyedAsLookedUp` |
| | `CompletedNeverPending` | `CompletedNotPending` |
| `PluginProofs` | `ImplementsEngine` | that `Plugin` implements `Engine` |
| | `ImplementsGuardStore` | that it implements `GuardStore` |
| | `ImplementsProbeStore` | that it implements `ProbeStore` |
| `PluginAnswerProofs` | `TypeCorrect` | `TypeOK` |
| | `AnswersAlwaysJustified` | `AnswersJustified` |
| `PluginDutyProofs` | `WarmPoolAlwaysAnswers` | `WarmPoolAnswers` |
| | `KnownBadAlwaysRefused` | `RefusesKnownBad` |

The assumptions are those named in the modules: `ThresholdAssumption` (the
threshold is in (0, 1], as `NewChecker` makes it) and `GuardStoreAssumption`
(the TTLs are positive, as `NewStore` makes them, the rest are types),
`ProbeStoreAssumption` (limit, activation count and TTL are positive),
`ProbeTextAssumption` (the limits are positive, as `NewEngine` makes them) and
`ProbeReplayAssumption` (types: the messages of a body, their roles, the parts of a
content and the texts of parts are sequences, what the upstream says at once is a text),
`EngineAssumption` (types; cap and frame lengths are positive) and
`PluginAssumption` (types; `Failure` names the statuses that are errors, so none that
is 2xx, by which `RecordResponseOutcome` tells a success, nor 0, with which it does
nothing; a completion that failed may have a 2xx status all the same, by `OutcomesOf`;
requests, and what the host makes of them, are requests;
a JSON body is not empty, and the inputs are lists).
The configured TTLs and the threshold of `Plugin` may be any integers: that the
values the stores get satisfy the assumptions of the stores is proved
(`GuardStoreConstants`, `ProbeStoreConstants`).

*Guard store, circuits.*  `BlockedByOwnFailures` is not inductive.  It speaks of
circuits that are tripped and similar to some request, while a step can trip a
circuit that was not, and `Restart` replaces all circuits by those of the file.
`CircuitsExplained` says of *every* circuit, in memory *and on file*, that some
failure of its session has its input, status and body, that it expires no later
than `CircuitTTL` after that failure, and that an earlier failure exists if it is
tripped or counts two.  `RecordFailure` makes the newest failure the witness; a
success, a save and a restart keep the old one, or drop the circuit; appending
to the history keeps witnesses (`ExplainedPersists`).  That clocks are read late
costs nothing here: a late read only makes the expiry earlier.

`SuccessDisarms` needs `CountsSinceSuccess`: after a success of this process a
count of 1 needs a later failure, and a count of 2 or an expiry needs two.  The
zero count that `Reset` leaves is what makes the first later failure count 1.
Restart satisfies it vacuously, since no earlier event is of the same process.

*Guard store, runs of failures.*  The properties above say that what the circuits hold
is true; `RepeatsTrip` that they forget nothing that matters.  `RunsRemembered` says,
for each session and each place of the history after which it did nothing but fail
(its last success, or the beginning), that its circuit holds the input of the last
failure, counts at least one, counts two once two failures in a row were similar, and
expires no earlier than `CircuitTTL` after a failure of the run that is not its first.
The expiry is the point: a save prunes by it whichever session the save is for, so a
circuit whose later failures are young is never dropped.  A restart ends a run, since a
success may be lost with the process and the file may be lost altogether; and clocks that
are read late make a failure old by up to `Lag` earlier, which `OnlyFailed` allows for.

*Guard store, file.*  `CleanMeansSaved` is inductive with the type invariant: each step either leaves
`isDirty` set, or leaves the maps and the file alone, or saves, and pruning
twice is pruning once.  Time passing prunes both sides alike.
`ReturnedMarksSaved` speaks of the states in which no `MarkInvalid` is in
progress, and needs `MarksAccountedFor` for the others: a live mark that is not
on file has a goroutine that will save, and `isDirty`, without which that save
would do nothing, stays raised until then.  It is the flag, shared by marks and
circuits, that a success must not lower and that a foreign save may clear only
with the mark written.

*Probe store.*  `AddSample` and `GetHit`, the actions that write, end in the same save,
so the proofs rest on two lemmas: what a save of a grown pool does to pool, flag and
file, and that an entry that gains a sample or a hit has grown.
`FileIsEarlierStage` is inductive because it also compares the expiry of the two
entries: without that, an entry could be live on file and pruned in memory.
`SavesFailOnlyOnDisk` needs that everything in the pool *and on file* can be
encoded, since a restart brings the file back; `PoolBounded` needs that both are
finite and that a save only removes.

*Probe store, what is replayed.*  `ReplaysCollectedReplies` speaks of the answer just
given; `ReplayInv` of every answer the pool, or one loaded from the file, could
give.  `BackedMap` says of each entry, in memory and on file, that it expires
`TTL` after it was made, that there are at least as many accepted replies for its
hash since then as it has samples, and that each sample goes back to one of
them; `FullCollections` that an activated entry has `MinSamples` of them.  A hit
is served at or before the expiry, so whatever was accepted since the entry was
made is at most `TTL` old.  An entry that expired and is extended before it is
pruned is why the replies are counted from the time it was made and not from the
time it is looked at.

*Probe store, warm entries.*  `WarmEntryAnswers` speaks of inputs with enough replies;
`WarmInv` counts from the first: for each place of the history within the running
process, an input that had replies accepted after it, none of them old, has an entry
that is replayed or holds at least as many samples.  It rests on every entry, in
memory and on file, expiring `TTL` after a reply that was accepted for it (`Stamped`):
an entry that is pruned, or dropped by a miss, while a reply of the process is young
must stem from an old one, which the property excludes.  And on `FullReplayed`: an
entry loaded from the file that is full takes no more samples, so it must be replayed
already.

*Probe store, refinement.*  `Init` maps to `Init`, and every step to a step or a
stutter, given the three invariants (`CacheStep`).  A save is one lemma,
`SavedSnapshot`: it forgets, and it leaves a snapshot of the result or the old
one.  `AddSample` is `Collect`, because the replies of a list of samples with one
appended are the replies with one appended (`RepliesOfAppend`), and because the
inputs with replies are the keys of the pool (`HeldAreEntries`: no entry is
empty), so the limit on one is the limit on the other.  `GetHit` is `Replay`
because of `FullCollections`; `GetExpired` and `AddRefused` are `Miss`; `Tick` is a
stutter; the counters and the clock do not occur in the mapping.

*Probe engine, sequences of any length.*  What `Joined` and the scan of
`ExtractStreamText` compute is recursive, so their lemmas are inductions, which the
library's theorems with an operator parameter do not give here.  `Induction` states
the principle for a *set* of numbers instead, and follows from the well-foundedness of
the natural numbers (`WFMin`): what is to be shown of every `n` is membership in
`{n \in Nat : ...}`.  A recursive function is a `CHOOSE` to the prover; that one
exists and that it is determined as far as its arguments agree (`FlatExists`,
`FlatUnique`; `ScanExists`, `ScanUnique`) makes the equations of the recursion
available: `JoinedAppend`, and `ScanAppend`, after which everything is shown by
appending one token at a time.

*Probe engine, the question.*  `HashTellsQuestion`: what is hashed is the model, and
each prompt behind a separator.  If no prompt contains the separator, the last one in
the joined text tells where the last prompt starts (`SplitLast`), so the joined text
tells all prompts (`MarkedInjective`), by induction over their number; a prompt whose
role has no `:` tells its role and its content (`SplitFirst`).  `TextBody` is needed for
exactly that: it excludes `|` from texts and roles, and `:` from roles.

*Probe engine, what is read.*  `StandsFrame` is the heart: from a place where the line
so far adds nothing, a scan over one frame ends where a line starts, has absorbed the
frame's text once, and on the way has found nothing but the text before or after, so
that a cut in the middle of a frame is harmless.  A document that is not closed does
not unmarshal (`OpenedAbsorbed`), and a text without a mark starts no line.  A mark in
it does: the line so far is then an opened document, which adds nothing, and the line
after the mark is dead, since it does not start with an opened document and nothing
appended to it makes it one (`Dead`, `DeadAppend`); so the text of the frame is lost,
and only that (`StandsText`).  A name before the frame, with or without its line end,
changes nothing (`StandsHanded`).  `SampleInv` says that a scan of the stream stands at
the start of a line with the text of the deltas that have no mark, `plain`
(`StreamSays`), and that object, sample and answer agree with
it.  It must also speak of streams with deltas of something else, about which the
property says nothing before the end: they too stand at the start of a line, which is
why a last response object without a mark still sets them right.  What a client reads from a replayed
stream (`AnswerReads`) is shown the other way around: exactly one of the documents in
it is of a kind that is read.

*Engine.*  The invariant `Inv` speaks of one request at a time, so a step of a
request is checked at that request and all others fall under one lemma
(`Frame`).  Its five parts:

- `InOrder`: which hook call may be under way at which stage of the request;
  deliveries come only when it ended and no other hook is under way.
- `OneTeller`: the right to tell the outcome is the pending entry, or the one
  delivery that took it, or spent.  An entry exists only while no delivery has
  taken and, but for the delete a successful response still owes, while nothing
  was told.  This is what rules out a second count by a late duplicate, and an
  entry after completion.
- `FramesKept`: entry, taken entry and sample hold every frame the host sent,
  but for that of a waiting call, or say that they were cut.  A request that was
  evicted half way can be filed anew by nobody: header-init comes before the
  first frame.  After the panic of `handleStreamChunk` the entry lacks a frame,
  but no section starts any more, so it is never collected; the entry is
  therefore constrained only while the mutex is free.
- `TrackedKept`: a tracked request the janitor spared still has its entry, under
  the hash of its original body, or what became of the entry.
- `UnstreamedKept`: no entry of a request that is not streamed, pending or taken, is one
  of a stream, so `request.complete` collects nothing for it, and the sample it gives in
  the response hook has the basis `ResponseBasis` says.

*Plugin, its parts.*  Every step of `Plugin` is a step of each component or leaves its
variables alone, so `Plugin` implements all three, and what was proved of them
holds in it.  For `Engine` this needs that rule and store decisions are choices
Engine leaves open; for the stores, that a goroutine is in one call of the store at
a time, with the arguments of that call, and that what is recorded has the types
of the store.  `Order` is the invariant behind it: which hook call may be under way
at which stage of a request, what is known of the request by then, and under which
body its pending entry was filed.  With deliveries that race, as the constant
`Delivery` allows, it rests on `OneTeller` of the engine.

*Plugin, answers.*  `AnswersJustified` looks back from an answer to requests that ended
long before; the stores know nothing of requests, and their histories are lists of
events.  The links between the two are invariants:

- `GuardLink`: each failure in the log of the guard store is the one failure a
  request was told, with its status, under the recorded keys of one of the two forms
  of its body, and
  at its time; different events are different requests.  Without the last clause
  a single failure that counted twice would trip the breaker.
- `MarkLink`: each item in the list, and each hook call that is about to record,
  save or answer with an item, goes back to a 400 of the upstream that named it.
- `ProbeLink`: each sample in the log is a request that succeeded, under the hash
  `KeyOf` says, and different samples are different requests.
- `FiniteAsked`: requests come one by one, so the sets whose cardinality the
  property compares are finite.

`CircuitsExplained` and `ReplaysCollectedReplies`, transferred from the components,
then say which events an answer goes back to, the links which requests these are,
and an answer stays justified because stage, outcome and result of a request do not
change once they were told (`ToldLasts`, `JustifiedLasts`).  That an answer the plugin
made is never taken for one of the upstream's is in `LoggedFailure`: a request that
was answered by the plugin has no entry, so nothing is recorded for it.

*Plugin, duties.*  `RefusesKnownBad` and `WarmPoolAnswers` are the converse: no request
is sent upstream that the stores had reason to answer.  Both speak of what was told
and done when the request was made, which `Past` ties to the present: what was told
then is told for good, and the hooks that had returned then never run again.  Both
become inductive in the same way, by a statement about every request that was not
answered, wherever its hook call stands (`Paid`, `BreakerPaid`, `ItemsPaid`): what it
was not owed when it was decided about, it is never owed later, because time only
passes and the requests of its past add nothing (`OwedLasts`, `FailedWith`,
`NamesBefore`).  What is left is the step that decides.

- The pool: a miss means that the entry is not replayed or has expired, and
  `WarmEntryAnswers` of the store, read through `ProbeLink`, says that the pool owed
  nothing (`MissOwesNothing`).
- The breaker: `GuardLink` says only that the history is true; that it is also
  complete is `OutcomeLink`: a failure of a request whose forms both have session
  keys is in it, and all it holds are failures and successes that requests were
  told.  A session that was told nothing but two or more young failures of one input
  then is a run of failures in the sense of `RepeatsTrip`, so its circuit is tripped
  (`KeepsFailingBlocks`; the threshold is at most 1, so an input is similar to itself),
  and `AskFurther` is not enabled for it.
- The list of items: `ItemLink` follows a mark from the failure that named the item
  to the list, where it expires no earlier than its lifetime after the outcome was
  recorded (time may pass before it is marked), and says that what one failure alone
  named stays until then.  The case that needs it is the goroutine that read an entry and
  deletes by key later: what it read has the expiry of a failure that named the item,
  and there is only one.  With two of them a mark can be lost, which is what
  `guard_recheck` finds, and is why `KnownDead` asks for one.  A hook call looks at the
  ids one by one; until it has, the item is one it has yet to check (`ToCheck`).

*Left to TLC.*  Liveness (`EntriesLeave`, `CallsReturn`) is beyond the prover, and so
are the runs that must find a violation.  All invariants and action properties of the
passing runs are proved.

## 6. Not modelled, and why

- The debug log (`debugLog`): pure output; its cap is a size test before a write.
- `cmd/`: buffer copying between C and Go, no state.
- `simulate_runner.go`: a test driver.
- The registration text, the wording of the responses, ids, time stamps and usage
  counts in synthesised answers.
- Collisions of SHA-256.
- The paths of the state files and the debug switch of the configuration.
- Requests without an id, which header-init files under the empty id, where
  nothing ever looks.
- Two instances of the plugin over the same files after a hot upgrade: whether the
  host runs two at once cannot be told from this repository.

## 7. Plan

Done: the components one by one, the abstract cache and its refinement, the text
functions, the composition, and proofs of every safety invariant of the components
and of the composition.  Left, in order of importance:

1. An abstract specification of the guard store's file, with the temporary file
   explicit, and the refinement.
2. `Plugin` with failing disks and restarts, which the components have.
3. Two instances over the same files, once the host's behaviour is known.
