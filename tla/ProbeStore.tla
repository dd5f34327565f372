----------------------------- MODULE ProbeStore -----------------------------
(***************************************************************************)
(* internal/probecache/store.go: the pool of probe samples and its JSON    *)
(* state file.                                                             *)
(*                                                                         *)
(* An entry collects the first MinSamples replies seen for one input hash, *)
(* and then answers that input with one of them until it expires.  Each    *)
(* method is one critical section under Store.mu, disk write included, and *)
(* so one action; a call that returns without touching the store (an empty *)
(* argument, a miss) is a stutter.                                         *)
(*                                                                         *)
(* answer, lastSave and log are history variables: no action reads them,   *)
(* except that the length of log bounds the model.                         *)
(***************************************************************************)
EXTENDS Integers, FiniteSets, Sequences

CONSTANTS
    Hash,        \* input hashes (ComputeInputHash)
    Reply,       \* what AddSample is given to keep: text and raw response
    JSONReply,   \* the replies whose raw response is valid JSON
    TTL,         \* life of an entry
    MinSamples,  \* samples an entry needs before it is replayed
    MaxEntries,  \* maxProbeEntries
    DiskFaults,  \* TRUE when reading or writing the file may fail
    MaxNow,      \* bound: the clock stops here
    MaxHits,     \* bound: hits counted per entry
    MaxEvents    \* bound: samples accepted plus restarts

ASSUME ProbeStoreAssumption ==
    /\ JSONReply \subseteq Reply
    /\ TTL \in Nat \ {0}
    /\ MinSamples \in Nat \ {0}
    /\ MaxEntries \in Nat \ {0}
    /\ DiskFaults \in BOOLEAN
    /\ {MaxNow, MaxHits, MaxEvents} \subseteq Nat

VARIABLES
    entries,   \* Store.entries: a map from hashes to ProbeEntry
    isDirty,   \* Store.isDirty
    lastErr,   \* Store.lastErr # nil
    file,      \* the entries in the state file
    now,       \* the clock
    answer,    \* history: what the last call returned
    lastSave,  \* history: how this process's load, or its last save, ended
    log        \* history: the samples accepted and the restarts

vars == <<entries, isDirty, lastErr, file, now, answer, lastSave, log>>

-----------------------------------------------------------------------------
\* raw says which RawResponse a sample holds: the reply's own, or the JSON
\* object AddSample wraps the text in.
Sample == [reply : Reply, raw : {"own", "wrapped"}, at : Nat]

ProbeEntry == [created : Nat, expire : Nat, activated : BOOLEAN, hits : Nat,
               samples : Seq(Sample)]

NoEntries == [h \in {} |-> h]

Live(m) == [h \in {g \in DOMAIN m : now < m[g].expire} |-> m[h]]

Put(m, h, e) == [g \in DOMAIN m \cup {h} |-> IF g = h THEN e ELSE m[g]]

Without(m, h) == [g \in DOMAIN m \ {h} |-> m[g]]

\* json.MarshalIndent fails on the whole pool when one RawMessage in it is
\* not valid JSON.
Encodable(m) ==
    \A h \in DOMAIN m : \A n \in DOMAIN m[h].samples :
        m[h].samples[n].raw = "own" => m[h].samples[n].reply \in JSONReply

\* Mutant of Storable: nothing is wrapped.
Storable_Raw(r) == [reply |-> r, raw |-> "own", at |-> now]

\* AddSample wraps a raw response that is not valid JSON.
Storable(r) ==
    [reply |-> r, raw |-> IF r \in JSONReply THEN "own" ELSE "wrapped", at |-> now]

\* saveLocked on the dirty pool m, and the caller's note of its error.  The
\* pruned map and the cleared flag stay even when the write fails.
SaveLocked(m) ==
    /\ entries' = Live(m)
    /\ isDirty' = FALSE
    /\ \/ /\ Encodable(Live(m))
          /\ file' = Live(m)
          /\ lastSave' = "ok"
          /\ UNCHANGED lastErr
       \/ /\ DiskFaults \/ ~Encodable(Live(m))
          /\ UNCHANGED file
          /\ lastSave' = IF lastSave = "unread" THEN "unread" ELSE "failed"
          /\ lastErr' = TRUE

-----------------------------------------------------------------------------
Init ==
    /\ entries = NoEntries
    /\ isDirty = FALSE
    /\ lastErr = FALSE
    /\ file = NoEntries
    /\ now = 0
    /\ answer = [call |-> "none"]
    /\ lastSave = "none"
    /\ log = <<>>

Expiry == now + TTL

NewEntry == [created |-> now, expire |-> Expiry, activated |-> FALSE,
             hits |-> 0, samples |-> <<>>]

\* Mutant of Sampled: the newest sample replaces the oldest.
Sampled_Rolling(ss, r) ==
    Append(IF Len(ss) < MinSamples THEN ss ELSE Tail(ss), Storable(r))

\* Mutant of Sampled: one sample too many.
Sampled_OneMore(ss, r) == IF Len(ss) <= MinSamples THEN Append(ss, Storable(r)) ELSE ss

\* Samples are collected until there are enough of them.
Sampled(ss, r) == IF Len(ss) < MinSamples THEN Append(ss, Storable(r)) ELSE ss

\* Mutant of Enough: one sample too early.
Enough_OneLess(ss) == Len(ss) >= MinSamples - 1

\* Mutant of Enough: one sample too late.
Enough_OneMore(ss) == Len(ss) > MinSamples

Enough(ss) == Len(ss) >= MinSamples

\* The entry with one more sample.  An entry that expired and was not pruned
\* yet is extended like any other.
Extended(e, r) ==
    [e EXCEPT !.samples = Sampled(@, r),
              !.activated = @ \/ Enough(Sampled(e.samples, r))]

\* Mutant of Full: one entry too many.
Full_OneMore == Cardinality(DOMAIN entries) > MaxEntries

Full == Cardinality(DOMAIN entries) >= MaxEntries

AddSample(h, r) ==
    /\ h \in DOMAIN entries \/ ~Full
    /\ Len(log) < MaxEvents
    /\ LET e == Extended(IF h \in DOMAIN entries THEN entries[h] ELSE NewEntry, r)
       IN  /\ SaveLocked(Put(entries, h, e))
           /\ answer' = [call |-> "add", hash |-> h, activated |-> e.activated]
    /\ log' = Append(log, [kind |-> "add", hash |-> h, reply |-> r, at |-> now])
    /\ UNCHANGED now

\* A new hash is turned away when the pool is full.
AddRefused(h) ==
    /\ h \notin DOMAIN entries
    /\ Full
    /\ answer' = [call |-> "refused", hash |-> h]
    /\ UNCHANGED <<entries, isDirty, lastErr, file, now, lastSave, log>>

\* Mutant of Replayable: activation is not looked at.
Replayable_Any(h) == h \in DOMAIN entries

Replayable(h) == h \in DOMAIN entries /\ entries[h].activated

\* Mutant of GetExpired: the expiry is not looked at.
GetExpired_AnyAge(h) ==
    /\ Replayable(h)
    /\ entries' = Without(entries, h)
    /\ isDirty' = TRUE
    /\ answer' = [call |-> "miss", hash |-> h]
    /\ UNCHANGED <<lastErr, file, now, lastSave, log>>

\* GetRandomSample finds an entry that expired: it forgets it, without a save.
GetExpired(h) ==
    /\ Replayable(h)
    /\ now > entries[h].expire
    /\ entries' = Without(entries, h)
    /\ isDirty' = TRUE
    /\ answer' = [call |-> "miss", hash |-> h]
    /\ UNCHANGED <<lastErr, file, now, lastSave, log>>

\* Mutant of GetHit: the hit is counted and the store not marked dirty.
GetHit_NotSaved(h) ==
    /\ Replayable(h)
    /\ now <= entries[h].expire
    /\ entries[h].hits < MaxHits
    /\ entries' = [entries EXCEPT ![h].hits = @ + 1]
    /\ \E n \in DOMAIN entries[h].samples :
          answer' = [call |-> "hit", hash |-> h, at |-> now,
                     reply |-> entries[h].samples[n].reply]
    /\ UNCHANGED <<isDirty, lastErr, file, now, lastSave, log>>

\* GetRandomSample replays one of the samples, each with some probability.
GetHit(h) ==
    /\ Replayable(h)
    /\ now <= entries[h].expire
    /\ entries[h].hits < MaxHits
    /\ SaveLocked([entries EXCEPT ![h].hits = @ + 1])
    /\ \E n \in DOMAIN entries[h].samples :
          answer' = [call |-> "hit", hash |-> h, at |-> now,
                     reply |-> entries[h].samples[n].reply]
    /\ UNCHANGED <<now, log>>

-----------------------------------------------------------------------------
Tick ==
    /\ now < MaxNow
    /\ now' = now + 1
    /\ UNCHANGED <<entries, isDirty, lastErr, file, answer, lastSave, log>>

\* The host process dies and a new one builds its store: NewStore and load,
\* whose error nobody looks at.
Restart ==
    /\ Len(log) < MaxEvents
    /\ \/ /\ entries' = Live(file)
          /\ lastSave' = "none"
       \/ /\ DiskFaults
          /\ entries' = NoEntries
          /\ lastSave' = "unread"
    /\ isDirty' = FALSE
    /\ lastErr' = FALSE
    /\ answer' = [call |-> "none"]
    /\ log' = Append(log, [kind |-> "restart"])
    /\ UNCHANGED <<file, now>>

Next ==
    \/ \E h \in Hash :
          \/ \E r \in Reply : AddSample(h, r)
          \/ AddRefused(h)
          \/ GetExpired(h)
          \/ GetHit(h)
    \/ Tick
    \/ Restart

Spec == Init /\ [][Next]_vars

-----------------------------------------------------------------------------
(* Properties *)

IsMap(m) ==
    /\ DOMAIN m \subseteq Hash
    /\ \A h \in DOMAIN m : m[h] \in ProbeEntry /\ Len(m[h].samples) \in 1..MinSamples

Answers ==
    [call : {"none"}] \cup [call : {"refused", "miss"}, hash : Hash]
    \cup [call : {"add"}, hash : Hash, activated : BOOLEAN]
    \cup [call : {"hit"}, hash : Hash, at : Nat, reply : Reply]

Events ==
    [kind : {"restart"}]
    \cup [kind : {"add"}, hash : Hash, reply : Reply, at : Nat]

\* Every variable has its type (the shape of Store, ProbeEntry and Sample).
TypeOK ==
    /\ IsMap(entries)
    /\ IsMap(file)
    /\ isDirty \in BOOLEAN
    /\ lastErr \in BOOLEAN
    /\ now \in Nat
    /\ answer \in Answers
    /\ lastSave \in {"none", "unread", "ok", "failed"}
    /\ log \in Seq(Events)

\* The replies collected for hash h that were at most TTL old at time t.
Collected(h, t) ==
    {n \in DOMAIN log : log[n].kind = "add" /\ log[n].hash = h /\ t <= log[n].at + TTL}

\* What is replayed (store.go:145-178) was really answered to that very
\* input, no longer than TTL ago, and only once MinSamples answers were
\* collected in that time; through expiry, failed saves and restarts.
ReplaysCollectedReplies ==
    answer.call = "hit" =>
        LET own == Collected(answer.hash, answer.at)
        IN  /\ Cardinality(own) >= MinSamples
            /\ \E n \in own : log[n].reply = answer.reply

\* The replies accepted for hash h after place o of the history.
AddsOf(l, h, o) == {n \in DOMAIN l : o < n /\ l[n].kind = "add" /\ l[n].hash = h}

\* The places of the history that the running process was there after.
OfProcess(l) ==
    {o \in {0} \cup DOMAIN l : \A n \in DOMAIN l : l[n].kind = "restart" => n <= o}

\* At time t every reply ever accepted for hash h is younger than TTL.
AllYoung(l, h, t) == \A n \in AddsOf(l, h, 0) : t < l[n].at + TTL

\* Once a process accepted MinSamples replies to an input, and while none that
\* was ever accepted for it is old, it answers that input itself
\* (store.go:76-130, 145-178): whatever the file brought, and whatever was
\* added, pruned, hit, missed or refused in between, nothing of them is lost.
WarmEntryAnswers ==
    \A h \in Hash : \A o \in OfProcess(log) :
        Cardinality(AddsOf(log, h, o)) >= MinSamples /\ AllYoung(log, h, now)
        => Replayable(h) /\ now <= entries[h].expire

\* The pool and the file never outgrow maxProbeEntries (store.go:37-40),
\* also when a pool is loaded and filled up again.
PoolBounded ==
    /\ Cardinality(DOMAIN entries) <= MaxEntries
    /\ Cardinality(DOMAIN file) <= MaxEntries

StartsWith(s, p) == Len(p) <= Len(s) /\ \A n \in DOMAIN p : s[n] = p[n]

\* A crash loses the latest samples and hits and nothing else: what load
\* would keep of the file is what the pool holds or an earlier stage of it,
\* unless the pool started without being able to read the file.
FileIsEarlierStage ==
    lastSave # "unread" =>
        \A h \in DOMAIN Live(file) :
            /\ h \in DOMAIN entries
            /\ file[h].created = entries[h].created
            /\ file[h].expire = entries[h].expire
            /\ file[h].hits <= entries[h].hits
            /\ StartsWith(entries[h].samples, file[h].samples)

\* A pool that is not dirty and whose last load or save did not fail has
\* nothing a restart would lose (store.go:125, 173).
CleanMeansSaved ==
    ~isDirty /\ lastSave \in {"none", "ok"} => Live(file) = Live(entries)

\* No stored reply can make the save of the pool fail (store.go:80-88), and
\* a save that fails is not forgotten (store.go:125-127, 173-175).
SavesFailOnlyOnDisk ==
    /\ Encodable(entries)
    /\ lastErr => DiskFaults
    /\ lastSave = "failed" => lastErr

\* While the process runs, an entry only gains samples; it is dropped, or
\* started again, only once it expired (store.go:94-117, 155, 218).
SamplesOnlyGrow ==
    [][\/ Restart
       \/ \A h \in DOMAIN entries :
             \/ now >= entries[h].expire
             \/ /\ h \in DOMAIN entries'
                /\ entries'[h].created = entries[h].created
                /\ StartsWith(entries'[h].samples, entries[h].samples)]_vars

-----------------------------------------------------------------------------
(* The abstract cache this store implements. *)

\* The replies a pool holds for each input.
RepliesOf(ss) == [n \in DOMAIN ss |-> ss[n].reply]

Replies(m) ==
    [h \in Hash |-> IF h \in DOMAIN m THEN RepliesOf(m[h].samples) ELSE <<>>]

\* What the last call replayed.
Given ==
    IF answer.call = "hit"
    THEN [call |-> "hit", hash |-> answer.hash, reply |-> answer.reply]
    ELSE [call |-> "none"]

Cache == INSTANCE SampleCache WITH
    kept <- Replies(entries), saved <- Replies(file), given <- Given

\* Seen through its replies the store is the cache of SampleCache: expiry,
\* pruning saves, failing saves, a full pool and crashes only ever make it
\* forget all replies of an input, or go back to a pool it once saved
\* (probecache/store.go:76-249).
IsSampleCache == Cache!Spec

=============================================================================
