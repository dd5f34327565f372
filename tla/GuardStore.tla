----------------------------- MODULE GuardStore -----------------------------
(***************************************************************************)
(* internal/state/store.go: the guard's store of invalid reasoning items   *)
(* and of per-session circuits, with its JSON state file.                  *)
(*                                                                         *)
(* Every method runs its critical sections under Store.mu, so a critical   *)
(* section is one action.  IsInvalid and MarkInvalid have two of them: pc  *)
(* says which second section a goroutine still has to run.  The writers    *)
(* read the clock before they take the lock, so what they read may be up   *)
(* to Lag old when they hold it.  saveLocked writes a temporary file and   *)
(* renames it while the lock is held; only a crash can fall between the    *)
(* two, and it leaves the file as it was, so a save either replaces the    *)
(* file or leaves it alone.                                                *)
(*                                                                         *)
(* lastSave and log are history variables: no action reads them, except    *)
(* that the length of log bounds the model.                                *)
(***************************************************************************)
EXTENDS InputOverlap

CONSTANTS
    Item,        \* reasoning item ids ("rs_...")
    Session,     \* session keys: session id, root turn id, window id
    Input,       \* the input-hash lists requests carry
    Status,      \* the HTTP status codes outcomes carry
    Payload,     \* error bodies
    JSONPayload, \* the error bodies that are valid JSON
    Thread,      \* goroutines of the host that call the store
    TTL,         \* life of an invalid item
    CircuitTTL,  \* life of a tripped circuit
    Lag,         \* bound: how long a writer waits for the lock
    DiskFaults,  \* TRUE when reading or writing the file may fail
    MaxNow,      \* bound: the clock stops here
    MaxEvents    \* bound: outcomes recorded plus restarts

ASSUME GuardStoreAssumption ==
    /\ TTL \in Nat \ {0}
    /\ CircuitTTL \in Nat \ {0}
    /\ Status \subseteq Nat
    /\ JSONPayload \subseteq Payload
    /\ Lag \in Nat
    /\ DiskFaults \in BOOLEAN
    /\ MaxNow \in Nat
    /\ MaxEvents \in Nat

VARIABLES
    items,     \* Store.items: a map from items to InvalidItem
    circuits,  \* Store.circuits: a map from session keys to SessionCircuit
    isDirty,   \* Store.isDirty
    file,      \* the content of the state file
    pc,        \* what each goroutine still has to do in the store
    now,       \* the clock
    lastSave,  \* history: how this process's load, or its last save, ended
    log        \* history: the outcomes recorded and the restarts

vars == <<items, circuits, isDirty, file, pc, now, lastSave, log>>

-----------------------------------------------------------------------------
InvalidItem == [expire : Nat, payload : Payload]

\* expire = 0 stands for the zero time.Time: a circuit that is not tripped.
SessionCircuit == [count : Nat, input : Input, status : Nat,
                   payload : Payload, expire : Nat]

NoEntries == [x \in {} |-> x]

\* m without the entries whose key fails the test.
Keep(m, S) == [x \in DOMAIN m \cap S |-> m[x]]

Put(m, x, v) == [y \in DOMAIN m \cup {x} |-> IF y = x THEN v ELSE m[y]]

\* The entries saveLocked and load keep.
LiveItems(m) == Keep(m, {i \in DOMAIN m : now < m[i].expire})

LiveCircuits(m) ==
    Keep(m, {k \in DOMAIN m : /\ m[k].expire = 0 \/ now < m[k].expire
                              /\ m[k].status # 0})

\* json.MarshalIndent fails on the whole state when one RawMessage in it is
\* not valid JSON.
Encodable(its, cs) ==
    /\ \A i \in DOMAIN its : its[i].payload \in JSONPayload
    /\ \A k \in DOMAIN cs : cs[k].payload \in JSONPayload

\* saveLocked on a dirty store whose maps are its and cs.  The pruned maps
\* and the cleared flag stay even when the write fails.
SaveLocked(its, cs) ==
    LET keptItems == LiveItems(its)
        keptCircuits == LiveCircuits(cs)
    IN  /\ items' = keptItems
        /\ circuits' = keptCircuits
        /\ isDirty' = FALSE
        /\ \/ /\ Encodable(keptItems, keptCircuits)
              /\ file' = [items |-> keptItems, circuits |-> keptCircuits]
              /\ lastSave' = "ok"
           \/ /\ DiskFaults \/ ~Encodable(keptItems, keptCircuits)
              /\ file' = file
              /\ lastSave' = "failed"

-----------------------------------------------------------------------------
Idle == [at |-> "idle"]

\* NewStore on a host with no state file yet.
Init ==
    /\ items = NoEntries
    /\ circuits = NoEntries
    /\ isDirty = FALSE
    /\ file = [items |-> NoEntries, circuits |-> NoEntries]
    /\ pc = [t \in Thread |-> Idle]
    /\ now = 0
    /\ lastSave = "none"
    /\ log = <<>>

-----------------------------------------------------------------------------
(* IsInvalid: a read under RLock; then, the lock being free, a look at the  *)
(* clock, and a delete under Lock when the entry READ has expired.          *)

IsInvalidRead(t, i) ==
    /\ pc[t] = Idle
    /\ i \in DOMAIN items
    /\ pc' = [pc EXCEPT ![t] = [at |-> "check", item |-> i,
                                expire |-> items[i].expire]]
    /\ UNCHANGED <<items, circuits, isDirty, file, now, lastSave, log>>

IsInvalidDelete(t) ==
    /\ pc[t].at = "check"
    /\ now > pc[t].expire
    /\ items' = Keep(items, Item \ {pc[t].item})
    /\ isDirty' = TRUE
    /\ pc' = [pc EXCEPT ![t] = Idle]
    /\ UNCHANGED <<circuits, file, now, lastSave, log>>

IsInvalidHit(t) ==
    /\ pc[t].at = "check"
    /\ now <= pc[t].expire
    /\ pc' = [pc EXCEPT ![t] = Idle]
    /\ UNCHANGED <<items, circuits, isDirty, file, now, lastSave, log>>

\* What a writer that holds the lock now may have read from the clock.
ClockReads == {c \in 0..now : now <= c + Lag}

(* MarkInvalid: the entry is set under one Lock, saved under another.       *)

\* Mutant of ItemExpiry: the TTL is subtracted.
ItemExpiry_Backwards(c) == c - TTL

ItemExpiry(c) == c + TTL

\* Mutant of MarkInvalidSet: the store is not marked dirty.
MarkInvalidSet_Clean(t, i, p) ==
    /\ pc[t] = Idle
    /\ \E c \in ClockReads :
          items' = Put(items, i, [expire |-> ItemExpiry(c), payload |-> p])
    /\ pc' = [pc EXCEPT ![t] = [at |-> "save"]]
    /\ UNCHANGED <<circuits, isDirty, file, now, lastSave, log>>

MarkInvalidSet(t, i, p) ==
    /\ pc[t] = Idle
    /\ \E c \in ClockReads :
          items' = Put(items, i, [expire |-> ItemExpiry(c), payload |-> p])
    /\ isDirty' = TRUE
    /\ pc' = [pc EXCEPT ![t] = [at |-> "save"]]
    /\ UNCHANGED <<circuits, file, now, lastSave, log>>

MarkInvalidSave(t) ==
    /\ pc[t].at = "save"
    /\ \/ isDirty /\ SaveLocked(items, circuits)
       \/ ~isDirty /\ UNCHANGED <<items, circuits, isDirty, file, lastSave>>
    /\ pc' = [pc EXCEPT ![t] = Idle]
    /\ UNCHANGED <<now, log>>

-----------------------------------------------------------------------------
(* RecordResponseOutcome: one critical section.                             *)

Succeeded(st) == st >= 200 /\ st < 300

\* Mutants of Reset: the count is lowered, or only one field is reset.
Reset_Decrement(c) == [c EXCEPT !.count = @ - 1, !.expire = 0]
Reset_CountOnly(c) == [c EXCEPT !.count = 0]
Reset_ExpiryOnly(c) == [c EXCEPT !.expire = 0]

Reset(c) == [c EXCEPT !.count = 0, !.expire = 0]

\* Mutant of DirtyAfterSuccess: the flag is assigned, not raised.
DirtyAfterSuccess_Assigned(ks) == ks \cap DOMAIN circuits # {}

DirtyAfterSuccess(ks) == isDirty \/ ks \cap DOMAIN circuits # {}

\* A success resets the circuits that exist and does not save them.
RecordSuccess(ks, st) ==
    /\ Succeeded(st)
    /\ Len(log) < MaxEvents
    /\ circuits' = [k \in DOMAIN circuits |->
                      IF k \in ks THEN Reset(circuits[k]) ELSE circuits[k]]
    /\ isDirty' = DirtyAfterSuccess(ks)
    /\ log' = Append(log, [kind |-> "ok", keys |-> ks])
    /\ UNCHANGED <<items, file, pc, now, lastSave>>

\* Mutant of Trips: the first failure trips the breaker.
Trips_AtOnce(count) == count >= 1

\* Mutant of Trips: it takes a third failure.
Trips_Late(count) == count >= 3

Trips(count) == count >= 2

\* A session not seen before has the zero SessionCircuit, whose empty input
\* nothing is similar to.
CountWith(k, in) ==
    IF k \in DOMAIN circuits /\ Similar(in, circuits[k].input)
    THEN circuits[k].count + 1 ELSE 1

\* The entry that a failure whose clock read c leaves for session k.
CircuitExpiry(k, in, c) ==
    IF Trips(CountWith(k, in)) THEN c + CircuitTTL
    ELSE IF k \in DOMAIN circuits THEN circuits[k].expire ELSE 0

\* Mutant of FailedCircuit: a session's first input is kept.
FailedCircuit_OldInput(k, in, st, p, c) ==
    [count |-> CountWith(k, in),
     input |-> IF k \in DOMAIN circuits THEN circuits[k].input ELSE in,
     status |-> st, payload |-> p, expire |-> CircuitExpiry(k, in, c)]

FailedCircuit(k, in, st, p, c) ==
    [count |-> CountWith(k, in), input |-> in, status |-> st, payload |-> p,
     expire |-> CircuitExpiry(k, in, c)]

RecordFailure(ks, in, st, p) ==
    /\ st # 0 /\ ~Succeeded(st)
    /\ Len(log) < MaxEvents
    /\ \E c \in ClockReads :
          SaveLocked(items, [k \in DOMAIN circuits \cup ks |->
                               IF k \in ks THEN FailedCircuit(k, in, st, p, c)
                               ELSE circuits[k]])
    /\ log' = Append(log, [kind |-> "fail", keys |-> ks, input |-> in,
                           status |-> st, payload |-> p, at |-> now])
    /\ UNCHANGED <<pc, now>>

\* CheckFuzzyCircuit for one of the request's keys: a similar input meets a
\* tripped circuit.  The code answers with the first key that is blocked.
Blocked(k, current) ==
    /\ current # <<>>
    /\ k \in DOMAIN circuits
    /\ circuits[k].expire # 0
    /\ now < circuits[k].expire
    /\ Similar(current, circuits[k].input)

-----------------------------------------------------------------------------
Tick ==
    /\ now < MaxNow
    /\ now' = now + 1
    /\ UNCHANGED <<items, circuits, isDirty, file, pc, lastSave, log>>

\* The host process dies at any point, calls in progress included, and a new
\* one builds its store: NewStore and load, whose error nobody looks at.
Restart ==
    /\ Len(log) < MaxEvents
    /\ \/ /\ items' = LiveItems(file.items)
          /\ circuits' = LiveCircuits(file.circuits)
          /\ lastSave' = "none"
       \/ /\ DiskFaults
          /\ items' = NoEntries
          /\ circuits' = NoEntries
          /\ lastSave' = "unread"
    /\ isDirty' = FALSE
    /\ pc' = [t \in Thread |-> Idle]
    /\ log' = Append(log, [kind |-> "restart", keys |-> Session])
    /\ UNCHANGED <<file, now>>

KeySets == (SUBSET Session) \ {{}}

ThreadStep(t) ==
    \/ \E i \in Item : IsInvalidRead(t, i)
    \/ IsInvalidDelete(t)
    \/ IsInvalidHit(t)
    \/ \E i \in Item, p \in Payload : MarkInvalidSet(t, i, p)
    \/ MarkInvalidSave(t)

RecordResponseOutcome ==
    \E ks \in KeySets, st \in Status :
        \/ RecordSuccess(ks, st)
        \/ \E in \in Input, p \in Payload : RecordFailure(ks, in, st, p)

Next ==
    \/ \E t \in Thread : ThreadStep(t)
    \/ RecordResponseOutcome
    \/ Tick
    \/ Restart

Spec == Init /\ [][Next]_vars
-----------------------------------------------------------------------------
(* Properties *)

IsMap(m, K, V) == DOMAIN m \subseteq K /\ \A x \in DOMAIN m : m[x] \in V

PcStates ==
    {Idle, [at |-> "save"]} \cup [at : {"check"}, item : Item, expire : Nat]

Events ==
    [kind : {"ok", "restart"}, keys : SUBSET Session]
    \cup [kind : {"fail"}, keys : SUBSET Session, input : Input,
          status : Status, payload : Payload, at : Nat]

\* Every variable has its type (the shape of Store, StateData and their
\* entries).
TypeOK ==
    /\ IsMap(items, Item, InvalidItem)
    /\ IsMap(circuits, Session, SessionCircuit)
    /\ isDirty \in BOOLEAN
    /\ IsMap(file.items, Item, InvalidItem)
    /\ IsMap(file.circuits, Session, SessionCircuit)
    /\ pc \in [Thread -> PcStates]
    /\ now \in Nat
    /\ lastSave \in {"none", "unread", "ok", "failed"}
    /\ log \in Seq(Events)

\* The failures, and the successes, of session k in the history l.
Fails(l, k) == {n \in DOMAIN l : l[n].kind = "fail" /\ k \in l[n].keys}
Oks(l, k) == {n \in DOMAIN l : l[n].kind = "ok" /\ k \in l[n].keys}

\* Failure j of session k explains the answer CheckFuzzyCircuit gives now to
\* a request with input cur: it is a failure of a similar request, the
\* replayed status and body are its own, and it is at most CircuitTTL old.
Explains(j, k, cur) ==
    /\ Similar(cur, log[j].input)
    /\ circuits[k].status = log[j].status
    /\ circuits[k].payload = log[j].payload
    /\ now < log[j].at + CircuitTTL

\* Failure j of session k explains the entry c: the last failure c describes
\* is j, c trips no longer than CircuitTTL after j, and c is tripped, or about
\* to be, only if j is not the first failure of the session.
ExplainedBy(l, j, k, c) ==
    /\ c.input = l[j].input
    /\ c.status = l[j].status
    /\ c.payload = l[j].payload
    /\ c.expire <= l[j].at + CircuitTTL
    /\ c.count >= 2 \/ c.expire # 0 => \E i \in Fails(l, k) : i < j

AllExplained(l, cs) ==
    \A k \in DOMAIN cs : \E j \in Fails(l, k) : ExplainedBy(l, j, k, cs[k])

\* Every circuit, in memory and on file, is explained by failures recorded
\* for its session: what makes BlockedByOwnFailures inductive (the file must
\* be included, since a later process loads it).
CircuitsExplained ==
    /\ AllExplained(log, circuits)
    /\ AllExplained(log, file.circuits)
    /\ \A n \in DOMAIN log : log[n].kind = "fail" => log[n].at <= now

\* A session is short-circuited only after two failures recorded for that
\* very session, and the status and body replayed (store.go:128) are those
\* of a recent failure of a similar request.  It covers circuits that were
\* saved, lost in part by a failed save, and loaded by a later process.
BlockedByOwnFailures ==
    \A k \in Session, cur \in Input :
        Blocked(k, cur) =>
            \E i, j \in Fails(log, k) : i < j /\ Explains(j, k, cur)

\* No process started after event o.
SameProcess(l, o) == \A r \in o..Len(l) : l[r].kind # "restart"

\* In the life of one process a success disarms the breaker
\* (store.go:146-158): once it is recorded, the session is blocked again
\* only after two failures that came later.
SuccessDisarms ==
    \A k \in Session, cur \in Input :
        Blocked(k, cur) =>
            \A o \in Oks(log, k) :
                \/ ~SameProcess(log, o)
                \/ \E i, j \in Fails(log, k) : o < i /\ i < j

\* What makes SuccessDisarms inductive: after a success a circuit of this
\* process counts only later failures, and trips only on two of them.
CountsSince(l, k, c) ==
    \A o \in Oks(l, k) :
        SameProcess(l, o) =>
            /\ c.count >= 1 => \E j \in Fails(l, k) : o < j
            /\ c.count >= 2 \/ c.expire # 0 =>
                  \E i, j \in Fails(l, k) : o < i /\ i < j

CountsSinceSuccess == \A k \in DOMAIN circuits : CountsSince(log, k, circuits[k])

\* What was recorded for session k after place o of the history.
After(l, k, o) == {n \in DOMAIN l : o < n /\ k \in l[n].keys}

\* After o session k did nothing but fail, and all but the first of these
\* failures are young.
OnlyFailed(l, k, o) ==
    \A n \in After(l, k, o) :
        /\ l[n].kind = "fail"
        /\ \/ \A m \in After(l, k, o) : n <= m
           \/ now + Lag < l[n].at + CircuitTTL

\* A session that failed twice in a row with similar inputs is blocked for
\* whatever is similar to them (store.go:163-196), however old the first of
\* these failures is and whatever else was recorded, saved, pruned or lost in
\* between, if since its last success, or the very beginning, no process died
\* and no other failure is old.
RepeatsTrip ==
    \A k \in Session, cur \in Input \ {<<>>} : \A o \in {0} \cup Oks(log, k) :
        LET run == After(log, k, o)
        IN  OnlyFailed(log, k, o) =>
              \A i, j \in run :
                 /\ i < j
                 /\ \A n \in run : i <= n => Similar(cur, log[n].input)
                 /\ \A m, n \in run : i <= m /\ m < n => Similar(log[n].input, log[m].input)
                 => Blocked(k, cur)

\* A store that is not dirty and whose last load or save did not fail has
\* nothing a restart would lose: what load would keep of the file is what the
\* store holds.  Every path that changes a map must save it or leave isDirty
\* set.
CleanMeansSaved ==
    ~isDirty /\ lastSave \in {"none", "ok"} =>
        /\ LiveItems(file.items) = LiveItems(items)
        /\ LiveCircuits(file.circuits) = LiveCircuits(circuits)

OnFile(i) == i \in DOMAIN file.items /\ file.items[i] = items[i]

NoMarkInProgress == \A t \in Thread : pc[t].at # "save"

\* The two critical sections of MarkInvalid (store.go:92-102): whatever other
\* goroutines save, delete or reset between them, once every MarkInvalid has
\* returned each live mark is on file, unless the last save failed.
ReturnedMarksSaved ==
    NoMarkInProgress /\ lastSave # "failed" =>
        \A i \in DOMAIN LiveItems(items) : OnFile(i)

\* What makes ReturnedMarksSaved inductive: a live mark that is not on file
\* has a goroutine that will save, and isDirty, without which that save does
\* nothing, stays raised until then.
MarksAccountedFor ==
    lastSave # "failed" =>
        \A i \in DOMAIN LiveItems(items) :
            OnFile(i) \/ (isDirty /\ ~NoMarkInProgress)

-----------------------------------------------------------------------------
(* Statements of the documentation that the code does not meet.  Each is    *)
(* the property of one run that must find it violated.                      *)

\* README.md:16-17, a recorded item has a 24h TTL and short-circuits
\* subsequent retries: a mark that has not expired stays in the store of a
\* process that goes on.
LiveMarkKept ==
    [][\/ Restart
       \/ \A i \in DOMAIN items :
             now < items[i].expire => i \in DOMAIN items']_vars

\* README.md:16, invalid items are recorded in a persistent state file: when
\* the disk never fails, a live mark whose MarkInvalid returned is on file.
ReturnedMarksPersist ==
    NoMarkInProgress => \A i \in DOMAIN LiveItems(items) : OnFile(i)
=============================================================================
