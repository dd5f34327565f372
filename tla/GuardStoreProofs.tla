-------------------------- MODULE GuardStoreProofs --------------------------
(***************************************************************************)
(* What TLAPS proves of GuardStore, for every set of items, sessions,      *)
(* inputs, status codes, payloads and goroutines, every TTL and every      *)
(* bound.                                                                  *)
(***************************************************************************)
EXTENDS GuardStore, TLAPS

-----------------------------------------------------------------------------
(* Maps *)

LEMMA KeepIsMap ==
    ASSUME NEW m, NEW K, NEW V, NEW S, IsMap(m, K, V)
    PROVE  /\ IsMap(Keep(m, S), K, V)
           /\ DOMAIN Keep(m, S) = DOMAIN m \cap S
           /\ \A x \in DOMAIN Keep(m, S) : Keep(m, S)[x] = m[x]
  BY DEF IsMap, Keep

LEMMA PutIsMap ==
    ASSUME NEW m, NEW K, NEW V, NEW x \in K, NEW v \in V, IsMap(m, K, V)
    PROVE  IsMap(Put(m, x, v), K, V)
  BY DEF IsMap, Put

LEMMA NoEntriesIsMap ==
    ASSUME NEW K, NEW V
    PROVE  IsMap(NoEntries, K, V) /\ DOMAIN NoEntries = {}
  BY DEF IsMap, NoEntries

\* Pruning keeps a map's type, and its entries as they are.
LEMMA LiveItemsIsMap ==
    ASSUME NEW m, NEW K, NEW V, IsMap(m, K, V)
    PROVE  IsMap(LiveItems(m), K, V)
  BY KeepIsMap DEF LiveItems

LEMMA LiveCircuitsIsMap ==
    ASSUME NEW m, NEW K, NEW V, IsMap(m, K, V)
    PROVE  IsMap(LiveCircuits(m), K, V)
  BY KeepIsMap DEF LiveCircuits

LEMMA LiveCircuitsEntries ==
    ASSUME NEW m
    PROVE  /\ DOMAIN LiveCircuits(m) \subseteq DOMAIN m
           /\ \A x \in DOMAIN LiveCircuits(m) : LiveCircuits(m)[x] = m[x]
  BY DEF LiveCircuits, Keep

-----------------------------------------------------------------------------
(* Times *)

\* A circuit that outlives the latest failure it stands for, up to the clock's
\* lag, is tripped as long as that failure is recent.
LEMMA RecentMeansTripped ==
    ASSUME NEW t \in Nat, NEW at \in Nat, NEW expire \in Nat,
           t + Lag < at + CircuitTTL, at + CircuitTTL <= expire + Lag
    PROVE  t < expire
  <1>1. Lag \in Nat /\ CircuitTTL \in Nat
    BY GuardStoreAssumption
  <1> QED BY <1>1

\* What is recent was recent before.
LEMMA RecentBefore ==
    ASSUME NEW t \in Nat, NEW t1, t1 = t \/ t1 = t + 1, NEW at \in Nat,
           t1 + Lag < at + CircuitTTL
    PROVE  t + Lag < at + CircuitTTL
  <1>1. Lag \in Nat /\ CircuitTTL \in Nat
    BY GuardStoreAssumption
  <1> QED BY <1>1

\* An expiry set by a failure of the past is at most a lifetime ahead.
LEMMA ExpiryBounded ==
    ASSUME NEW t \in Nat, NEW at \in Nat, at <= t, NEW expire \in Nat,
           expire <= at + CircuitTTL
    PROVE  expire <= t + CircuitTTL
  <1>1. CircuitTTL \in Nat
    BY GuardStoreAssumption
  <1> QED BY <1>1

-----------------------------------------------------------------------------
(* Type correctness *)

LEMMA ClockReadsNat == ASSUME TypeOK PROVE ClockReads \subseteq Nat
  BY DEF TypeOK, ClockReads

LEMMA FailedCircuitType ==
    ASSUME TypeOK, NEW k \in Session, NEW in \in Input, NEW st \in Status,
           NEW p \in Payload, NEW c \in Nat
    PROVE  FailedCircuit(k, in, st, p, c) \in SessionCircuit
  <1>1. k \in DOMAIN circuits => circuits[k].count \in Nat /\ circuits[k].expire \in Nat
    BY DEF TypeOK, IsMap, SessionCircuit
  <1>2. CountWith(k, in) \in Nat
    BY <1>1 DEF CountWith
  <1>3. CircuitExpiry(k, in, c) \in Nat
    BY <1>1, GuardStoreAssumption DEF CircuitExpiry
  <1>4. st \in Nat
    BY GuardStoreAssumption
  <1> QED
    BY <1>2, <1>3, <1>4 DEF FailedCircuit, SessionCircuit

LEMMA SaveLockedType ==
    ASSUME NEW its, NEW cs, SaveLocked(its, cs), TypeOK,
           IsMap(its, Item, InvalidItem), IsMap(cs, Session, SessionCircuit)
    PROVE  /\ IsMap(items', Item, InvalidItem)
           /\ IsMap(circuits', Session, SessionCircuit)
           /\ isDirty' \in BOOLEAN
           /\ IsMap(file'.items, Item, InvalidItem)
           /\ IsMap(file'.circuits, Session, SessionCircuit)
           /\ lastSave' \in {"none", "unread", "ok", "failed"}
  <1>1. IsMap(LiveItems(its), Item, InvalidItem)
    BY LiveItemsIsMap
  <1>2. IsMap(LiveCircuits(cs), Session, SessionCircuit)
    BY LiveCircuitsIsMap
  <1>3. items' = LiveItems(its) /\ circuits' = LiveCircuits(cs) /\ isDirty' = FALSE
    BY DEF SaveLocked
  <1>4. CASE file' = [items |-> LiveItems(its), circuits |-> LiveCircuits(cs)]
             /\ lastSave' = "ok"
    <2>1. file'.items = LiveItems(its) /\ file'.circuits = LiveCircuits(cs)
      BY <1>4
    <2> QED BY <1>1, <1>2, <1>3, <1>4, <2>1
  <1>5. CASE file' = file /\ lastSave' = "failed"
    BY <1>1, <1>2, <1>3, <1>5 DEF TypeOK
  <1> QED
    <2>1. \/ file' = [items |-> LiveItems(its), circuits |-> LiveCircuits(cs)]
             /\ lastSave' = "ok"
          \/ file' = file /\ lastSave' = "failed"
      BY Zenon DEF SaveLocked
    <2> QED BY <1>4, <1>5, <2>1

\* What appending an event does to the history.
LEMMA LogAppend ==
    ASSUME NEW l \in Seq(Events), NEW ev \in Events
    PROVE  /\ Append(l, ev) \in Seq(Events)
           /\ DOMAIN l = 1..Len(l) /\ Len(l) \in Nat
           /\ DOMAIN Append(l, ev) = 1..(Len(l) + 1)
           /\ Len(Append(l, ev)) = Len(l) + 1
           /\ \A n \in DOMAIN l : Append(l, ev)[n] = l[n]
           /\ Append(l, ev)[Len(l) + 1] = ev
  <1> HIDE DEF Events
  <1> QED OBVIOUS

LEMMA TypeOKInit == Init => TypeOK
  <1> SUFFICES ASSUME Init PROVE TypeOK
    OBVIOUS
  <1>1. IsMap(items, Item, InvalidItem) /\ IsMap(circuits, Session, SessionCircuit)
    BY NoEntriesIsMap DEF Init
  <1>2. file.items = NoEntries /\ file.circuits = NoEntries
    BY DEF Init
  <1>3. IsMap(file.items, Item, InvalidItem) /\ IsMap(file.circuits, Session, SessionCircuit)
    BY <1>2, NoEntriesIsMap
  <1>4. pc \in [Thread -> PcStates]
    BY DEF Init, PcStates, Idle
  <1>5. log \in Seq(Events)
    BY DEF Init
  <1>6. isDirty \in BOOLEAN /\ now \in Nat /\ lastSave \in {"none", "unread", "ok", "failed"}
    BY DEF Init
  <1> QED
    BY <1>1, <1>3, <1>4, <1>5, <1>6 DEF TypeOK

LEMMA TypeOKStep == TypeOK /\ [Next]_vars => TypeOK'
  <1> SUFFICES ASSUME TypeOK, [Next]_vars PROVE TypeOK'
    OBVIOUS
  <1> USE DEF TypeOK
  <1>1. ASSUME NEW t \in Thread, NEW i \in Item, IsInvalidRead(t, i)
        PROVE  TypeOK'
    <2>1. items[i].expire \in Nat
      BY <1>1 DEF IsInvalidRead, IsMap, InvalidItem
    <2>2. [at |-> "check", item |-> i, expire |-> items[i].expire] \in PcStates
      BY <2>1 DEF PcStates
    <2>3. pc' \in [Thread -> PcStates]
      BY <1>1, <2>2 DEF IsInvalidRead
    <2> QED BY <1>1, <2>3 DEF IsInvalidRead
  <1>2. ASSUME NEW t \in Thread, IsInvalidDelete(t)
        PROVE  TypeOK'
    <2>1. IsMap(items', Item, InvalidItem)
      BY <1>2, KeepIsMap DEF IsInvalidDelete
    <2>2. pc' \in [Thread -> PcStates]
      BY <1>2 DEF IsInvalidDelete, PcStates
    <2> QED BY <1>2, <2>1, <2>2 DEF IsInvalidDelete
  <1>3. ASSUME NEW t \in Thread, IsInvalidHit(t)
        PROVE  TypeOK'
    BY <1>3 DEF IsInvalidHit, PcStates
  <1>4. ASSUME NEW t \in Thread, NEW i \in Item, NEW p \in Payload,
               MarkInvalidSet(t, i, p)
        PROVE  TypeOK'
    <2>1. PICK c \in ClockReads :
                 items' = Put(items, i, [expire |-> ItemExpiry(c), payload |-> p])
      BY <1>4 DEF MarkInvalidSet
    <2>2. [expire |-> ItemExpiry(c), payload |-> p] \in InvalidItem
      BY ClockReadsNat, GuardStoreAssumption DEF InvalidItem, ItemExpiry
    <2>3. IsMap(items', Item, InvalidItem)
      BY <2>1, <2>2, PutIsMap
    <2>4. pc' \in [Thread -> PcStates]
      BY <1>4 DEF MarkInvalidSet, PcStates
    <2> QED BY <1>4, <2>3, <2>4 DEF MarkInvalidSet
  <1>5. ASSUME NEW t \in Thread, MarkInvalidSave(t)
        PROVE  TypeOK'
    <2>1. pc' \in [Thread -> PcStates]
      BY <1>5 DEF MarkInvalidSave, PcStates
    <2>2. CASE SaveLocked(items, circuits)
      BY <1>5, <2>1, <2>2, SaveLockedType DEF MarkInvalidSave
    <2>3. CASE UNCHANGED <<items, circuits, isDirty, file, lastSave>>
      BY <1>5, <2>1, <2>3 DEF MarkInvalidSave
    <2> QED BY <1>5, <2>2, <2>3, Zenon DEF MarkInvalidSave
  <1>6. ASSUME NEW ks \in KeySets, NEW st \in Status, RecordSuccess(ks, st)
        PROVE  TypeOK'
    <2>1. IsMap(circuits', Session, SessionCircuit)
      <3>1. IsMap(circuits, Session, SessionCircuit)
        OBVIOUS
      <3>2. \A x \in SessionCircuit : Reset(x) \in SessionCircuit
        BY DEF Reset, SessionCircuit
      <3>3. circuits' = [k \in DOMAIN circuits |->
                           IF k \in ks THEN Reset(circuits[k]) ELSE circuits[k]]
        BY <1>6 DEF RecordSuccess
      <3> QED BY <3>1, <3>2, <3>3, SMT DEF IsMap
    <2>2. [kind |-> "ok", keys |-> ks] \in Events
      BY DEF Events, KeySets
    <2>3. log' \in Seq(Events)
      <3>1. log' = Append(log, [kind |-> "ok", keys |-> ks])
        BY <1>6 DEF RecordSuccess
      <3> QED BY <2>2, <3>1, LogAppend
    <2> QED BY <1>6, <2>1, <2>3 DEF RecordSuccess, DirtyAfterSuccess
  <1>7. ASSUME NEW ks \in KeySets, NEW st \in Status, NEW in \in Input,
               NEW p \in Payload, RecordFailure(ks, in, st, p)
        PROVE  TypeOK'
    <2>1. PICK c \in ClockReads :
             SaveLocked(items, [k \in DOMAIN circuits \cup ks |->
                                 IF k \in ks THEN FailedCircuit(k, in, st, p, c)
                                 ELSE circuits[k]])
      BY <1>7 DEF RecordFailure
    <2> DEFINE cs == [k \in DOMAIN circuits \cup ks |->
                        IF k \in ks THEN FailedCircuit(k, in, st, p, c)
                        ELSE circuits[k]]
    <2>2. c \in Nat
      BY ClockReadsNat
    <2>3. \A k \in ks : FailedCircuit(k, in, st, p, c) \in SessionCircuit
      BY <2>2, FailedCircuitType DEF KeySets
    <2>4. IsMap(cs, Session, SessionCircuit)
      BY <2>3 DEF IsMap, KeySets
    <2>5. [kind |-> "fail", keys |-> ks, input |-> in, status |-> st,
           payload |-> p, at |-> now] \in Events
      BY DEF Events, KeySets
    <2>6. log' \in Seq(Events)
      BY <1>7, <2>5 DEF RecordFailure
    <2> HIDE DEF cs
    <2>7. SaveLocked(items, cs)
      BY <2>1 DEF cs
    <2> QED BY <1>7, <2>4, <2>6, <2>7, SaveLockedType DEF RecordFailure
  <1>8. CASE Tick
    BY <1>8 DEF Tick
  <1>9. CASE Restart
    <2>1. IsMap(items', Item, InvalidItem)
      BY <1>9, LiveItemsIsMap, NoEntriesIsMap DEF Restart
    <2>2. IsMap(circuits', Session, SessionCircuit)
      BY <1>9, LiveCircuitsIsMap, NoEntriesIsMap DEF Restart
    <2>3. pc' \in [Thread -> PcStates]
      BY <1>9 DEF Restart, PcStates
    <2>4. [kind |-> "restart", keys |-> Session] \in Events
      BY DEF Events
    <2>5. log' \in Seq(Events)
      BY <1>9, <2>4 DEF Restart
    <2> QED BY <1>9, <2>1, <2>2, <2>3, <2>5 DEF Restart
  <1>10. CASE UNCHANGED vars
    BY <1>10 DEF vars
  <1> QED
    BY <1>1, <1>2, <1>3, <1>4, <1>5, <1>6, <1>7, <1>8, <1>9, <1>10
       DEF Next, ThreadStep, RecordResponseOutcome

\* The maps, the file and the history have their types in every reachable
\* state of the guard store.
THEOREM TypeCorrect == Spec => []TypeOK
  BY TypeOKInit, TypeOKStep, PTL DEF Spec
-----------------------------------------------------------------------------
(* Every circuit is explained by failures of its session                    *)

\* An explanation outlives what is recorded later.
LEMMA ExplainedPersists ==
    ASSUME NEW l \in Seq(Events), NEW ev \in Events, NEW k, NEW c,
           NEW j \in Fails(l, k), ExplainedBy(l, j, k, c)
    PROVE  /\ j \in Fails(Append(l, ev), k)
           /\ ExplainedBy(Append(l, ev), j, k, c)
  <1> DEFINE m == Append(l, ev)
  <1>1. /\ DOMAIN l = 1..Len(l) /\ Len(l) \in Nat
        /\ DOMAIN m = 1..(Len(l) + 1)
        /\ \A n \in DOMAIN l : n \in DOMAIN m /\ m[n] = l[n]
    BY LogAppend
  <1>2. j \in DOMAIN l
    BY DEF Fails
  <1>3. \A i \in Fails(l, k) : i \in Fails(m, k)
    BY <1>1 DEF Fails
  <1> HIDE DEF m
  <1>4. ExplainedBy(m, j, k, c)
    BY <1>1, <1>2, <1>3 DEF ExplainedBy
  <1> QED
    BY <1>3, <1>4 DEF m

LEMMA AllExplainedPersists ==
    ASSUME NEW l \in Seq(Events), NEW ev \in Events, NEW cs,
           AllExplained(l, cs)
    PROVE  AllExplained(Append(l, ev), cs)
  BY ExplainedPersists DEF AllExplained

LEMMA LiveExplained ==
    ASSUME NEW l, NEW cs, AllExplained(l, cs)
    PROVE  AllExplained(l, LiveCircuits(cs))
  BY LiveCircuitsEntries DEF AllExplained

\* A success only zeroes fields, so the explanations stand.
LEMMA SuccessExplained ==
    ASSUME TypeOK, CircuitsExplained, NEW ks \in KeySets, NEW st \in Status,
           RecordSuccess(ks, st)
    PROVE  AllExplained(log', circuits')
  <1> SUFFICES ASSUME NEW k \in DOMAIN circuits'
               PROVE  \E j \in Fails(log', k) : ExplainedBy(log', j, k, circuits'[k])
    BY DEF AllExplained
  <1> DEFINE ev == [kind |-> "ok", keys |-> ks]
  <1>1. k \in DOMAIN circuits /\ log' = Append(log, ev)
    BY DEF RecordSuccess
  <1>2. ev \in Events
    BY DEF Events, KeySets
  <1>3. PICK j \in Fails(log, k) : ExplainedBy(log, j, k, circuits[k])
    BY <1>1 DEF CircuitsExplained, AllExplained
  <1>4. /\ circuits[k].count \in Nat /\ circuits[k].expire \in Nat
        /\ circuits[k] \in SessionCircuit
    BY <1>1 DEF TypeOK, IsMap, SessionCircuit
  <1>5. j \in DOMAIN log /\ log[j].kind = "fail" /\ log[j] \in Events
    BY DEF Fails, TypeOK
  <1>6. log[j].at \in Nat
    BY <1>5 DEF Events
  <1> DEFINE c == circuits'[k]
  <1>7. /\ c.input = circuits[k].input /\ c.status = circuits[k].status
        /\ c.payload = circuits[k].payload
        /\ \/ c.count = circuits[k].count /\ c.expire = circuits[k].expire
           \/ c.count = 0 /\ c.expire = 0
    BY <1>1, <1>4 DEF RecordSuccess, SessionCircuit, Reset
  <1> HIDE DEF c
  <1>8. ExplainedBy(log, j, k, c)
    BY <1>3, <1>4, <1>6, <1>7, GuardStoreAssumption DEF ExplainedBy
  <1> HIDE DEF ev
  <1>9. log \in Seq(Events)
    BY DEF TypeOK
  <1> QED
    BY <1>1, <1>2, <1>8, <1>9, ExplainedPersists DEF c

\* A failure becomes the explanation of the entries it writes.
LEMMA FailureExplained ==
    ASSUME TypeOK, CircuitsExplained, NEW ks \in KeySets, NEW in \in Input,
           NEW st \in Status, NEW p \in Payload, NEW c \in ClockReads,
           NEW k \in ks,
           log' = Append(log, [kind |-> "fail", keys |-> ks, input |-> in,
                               status |-> st, payload |-> p, at |-> now])
    PROVE  \E j \in Fails(log', k) :
               ExplainedBy(log', j, k, FailedCircuit(k, in, st, p, c))
  <1> DEFINE ev == [kind |-> "fail", keys |-> ks, input |-> in,
                    status |-> st, payload |-> p, at |-> now]
             last == Len(log) + 1
             d == FailedCircuit(k, in, st, p, c)
             seen == k \in DOMAIN circuits
  <1>1. ev \in Events
    BY DEF Events, KeySets, TypeOK
  <1>2. log \in Seq(Events) /\ now \in Nat
    BY DEF TypeOK
  <1>3. /\ DOMAIN log = 1..Len(log) /\ Len(log) \in Nat
        /\ last \in DOMAIN log' /\ log'[last] = ev
        /\ \A n \in DOMAIN log : n \in DOMAIN log' /\ log'[n] = log[n]
    <2> HIDE DEF ev
    <2>1. log' = Append(log, ev)
      BY DEF ev
    <2> QED BY <1>1, <1>2, <2>1, LogAppend
  <1>4. last \in Fails(log', k)
    BY <1>3 DEF Fails
  <1>5. /\ d.input = in /\ d.status = st /\ d.payload = p
    BY DEF FailedCircuit
  <1>6. c \in Nat /\ c <= now
    BY <1>2 DEF ClockReads
  <1>7. CASE ~seen
    <2>1. d.count = 1 /\ d.expire = 0
      BY <1>7 DEF FailedCircuit, CountWith, CircuitExpiry, Trips
    <2>2. d.expire <= now + CircuitTTL
      BY <2>1, <1>2, GuardStoreAssumption
    <2>3. ExplainedBy(log', last, k, d)
      <3> HIDE DEF d, last
      <3> QED BY <1>3, <1>5, <2>1, <2>2 DEF ExplainedBy
    <2> QED BY <1>4, <2>3
  <1>8. CASE seen
    <2>1. PICK j \in Fails(log, k) : ExplainedBy(log, j, k, circuits[k])
      BY <1>8 DEF CircuitsExplained, AllExplained
    <2>2. j \in DOMAIN log /\ log[j].kind = "fail" /\ log[j] \in Events
      BY <1>2 DEF Fails
    <2>3. log[j].at \in Nat /\ log[j].at <= now
      BY <2>2 DEF Events, CircuitsExplained
    <2>4. circuits[k].expire \in Nat /\ circuits[k].expire <= now + CircuitTTL
      <3>1. circuits[k].expire \in Nat
        BY <1>8 DEF TypeOK, IsMap, SessionCircuit
      <3>2. circuits[k].expire <= log[j].at + CircuitTTL
        BY <2>1 DEF ExplainedBy
      <3> QED BY <1>2, <2>3, <3>1, <3>2, ExpiryBounded
    <2>5. d.expire \in {c + CircuitTTL, circuits[k].expire}
      BY <1>8 DEF FailedCircuit, CircuitExpiry
    <2>6. d.expire <= now + CircuitTTL
      <3> HIDE DEF d
      <3> QED BY <1>2, <1>6, <2>4, <2>5, GuardStoreAssumption
    <2>7. j \in Fails(log', k) /\ j < last
      BY <1>3, <2>2 DEF Fails
    <2>8. ExplainedBy(log', last, k, d)
      <3> HIDE DEF d, last
      <3> QED BY <1>3, <1>5, <2>6, <2>7 DEF ExplainedBy
    <2> QED BY <1>4, <2>8
  <1> QED
    BY <1>7, <1>8

\* The circuits RecordFailure hands to saveLocked are explained.
LEMMA FailuresExplained ==
    ASSUME TypeOK, CircuitsExplained, NEW ks \in KeySets, NEW in \in Input,
           NEW st \in Status, NEW p \in Payload, NEW c \in ClockReads,
           log' = Append(log, [kind |-> "fail", keys |-> ks, input |-> in,
                               status |-> st, payload |-> p, at |-> now])
    PROVE  AllExplained(log', [k \in DOMAIN circuits \cup ks |->
                                 IF k \in ks THEN FailedCircuit(k, in, st, p, c)
                                 ELSE circuits[k]])
  <1> DEFINE ev == [kind |-> "fail", keys |-> ks, input |-> in,
                    status |-> st, payload |-> p, at |-> now]
             cs == [k \in DOMAIN circuits \cup ks |->
                      IF k \in ks THEN FailedCircuit(k, in, st, p, c)
                      ELSE circuits[k]]
  <1> SUFFICES ASSUME NEW k \in DOMAIN cs
               PROVE  \E j \in Fails(log', k) : ExplainedBy(log', j, k, cs[k])
    BY DEF AllExplained
  <1>1. CASE k \in ks
    <2>1. \E j \in Fails(log', k) :
             ExplainedBy(log', j, k, FailedCircuit(k, in, st, p, c))
      BY <1>1, FailureExplained
    <2>2. cs[k] = FailedCircuit(k, in, st, p, c)
      BY <1>1
    <2> QED BY <2>1, <2>2
  <1>2. CASE k \notin ks
    <2>1. k \in DOMAIN circuits /\ cs[k] = circuits[k]
      BY <1>2
    <2>2. PICK j \in Fails(log, k) : ExplainedBy(log, j, k, circuits[k])
      BY <2>1 DEF CircuitsExplained, AllExplained
    <2>3. ev \in Events /\ log \in Seq(Events) /\ log' = Append(log, ev)
      BY DEF Events, KeySets, TypeOK
    <2> HIDE DEF ev, cs
    <2> QED BY <2>1, <2>2, <2>3, ExplainedPersists
  <1> QED
    BY <1>1, <1>2

LEMMA SaveExplained ==
    ASSUME NEW its, NEW cs, NEW l, SaveLocked(its, cs), AllExplained(l, cs),
           AllExplained(l, file.circuits)
    PROVE  AllExplained(l, circuits') /\ AllExplained(l, file'.circuits)
  <1>1. AllExplained(l, LiveCircuits(cs))
    BY LiveExplained
  <1>2. circuits' = LiveCircuits(cs)
    BY DEF SaveLocked
  <1>3. \/ file' = [items |-> LiveItems(its), circuits |-> LiveCircuits(cs)]
        \/ file' = file
    BY Zenon DEF SaveLocked
  <1>4. file'.circuits = LiveCircuits(cs) \/ file' = file
    BY <1>3
  <1> QED
    BY <1>1, <1>2, <1>4

LEMMA CircuitsExplainedStep ==
    TypeOK /\ CircuitsExplained /\ [Next]_vars => CircuitsExplained'
  <1> SUFFICES ASSUME TypeOK, CircuitsExplained, [Next]_vars
               PROVE  CircuitsExplained'
    OBVIOUS
  <1> DEFINE Past(l, t) == \A n \in DOMAIN l : l[n].kind = "fail" => l[n].at <= t
  <1>1. /\ AllExplained(log, circuits) /\ AllExplained(log, file.circuits)
        /\ Past(log, now)
    BY DEF CircuitsExplained
  <1>2. SUFFICES /\ AllExplained(log', circuits')
                 /\ AllExplained(log', file'.circuits)
                 /\ Past(log', now')
    BY DEF CircuitsExplained
  <1>3. log \in Seq(Events) /\ now \in Nat
    BY DEF TypeOK
  <1>4. ASSUME NEW ev \in Events, ev.kind = "fail" => ev.at <= now,
               log' = Append(log, ev), now' = now
        PROVE  Past(log', now')
    <2>1. /\ DOMAIN log' = 1..(Len(log) + 1) /\ Len(log) \in Nat
          /\ DOMAIN log = 1..Len(log)
          /\ \A n \in DOMAIN log : log'[n] = log[n]
          /\ log'[Len(log) + 1] = ev
      BY <1>3, <1>4, LogAppend
    <2>2. ASSUME NEW n \in DOMAIN log' PROVE n \in DOMAIN log \/ n = Len(log) + 1
      BY <2>1
    <2> QED BY <1>1, <1>4, <2>1, <2>2
  <1>5. ASSUME NEW ev \in Events, log' = Append(log, ev)
        PROVE  AllExplained(log', circuits) /\ AllExplained(log', file.circuits)
    BY <1>1, <1>3, <1>5, AllExplainedPersists
  <1> HIDE DEF Past
  <1>6. CASE \E t \in Thread : ThreadStep(t)
    <2>1. PICK t \in Thread : ThreadStep(t)
      BY <1>6
    <2>2. log' = log /\ now' = now
      BY <2>1 DEF ThreadStep, IsInvalidRead, IsInvalidDelete, IsInvalidHit,
                  MarkInvalidSet, MarkInvalidSave
    <2>3. \/ circuits' = circuits /\ file' = file
          \/ SaveLocked(items, circuits)
      BY <2>1 DEF ThreadStep, IsInvalidRead, IsInvalidDelete, IsInvalidHit,
                  MarkInvalidSet, MarkInvalidSave
    <2> QED BY <1>1, <2>2, <2>3, SaveExplained
  <1>7. ASSUME NEW ks \in KeySets, NEW st \in Status, RecordSuccess(ks, st)
        PROVE  /\ AllExplained(log', circuits')
               /\ AllExplained(log', file'.circuits)
               /\ Past(log', now')
    <2> DEFINE ev == [kind |-> "ok", keys |-> ks]
    <2>1. ev \in Events /\ ev.kind # "fail"
      BY DEF Events, KeySets
    <2>2. log' = Append(log, ev) /\ now' = now /\ file' = file
      BY <1>7 DEF RecordSuccess
    <2> HIDE DEF ev
    <2> QED BY <1>4, <1>5, <1>7, <2>1, <2>2, SuccessExplained
  <1>8. ASSUME NEW ks \in KeySets, NEW st \in Status, NEW in \in Input,
               NEW p \in Payload, RecordFailure(ks, in, st, p)
        PROVE  /\ AllExplained(log', circuits')
               /\ AllExplained(log', file'.circuits)
               /\ Past(log', now')
    <2> DEFINE ev == [kind |-> "fail", keys |-> ks, input |-> in,
                      status |-> st, payload |-> p, at |-> now]
    <2>1. ev \in Events /\ ev.at = now
      BY <1>3 DEF Events, KeySets
    <2>2. log' = Append(log, ev) /\ now' = now
      BY <1>8 DEF RecordFailure
    <2>3. PICK c \in ClockReads :
             SaveLocked(items, [k \in DOMAIN circuits \cup ks |->
                                 IF k \in ks THEN FailedCircuit(k, in, st, p, c)
                                 ELSE circuits[k]])
      BY <1>8 DEF RecordFailure
    <2> DEFINE cs == [k \in DOMAIN circuits \cup ks |->
                        IF k \in ks THEN FailedCircuit(k, in, st, p, c)
                        ELSE circuits[k]]
    <2>4. AllExplained(log', cs)
      BY <2>2, FailuresExplained, Zenon
    <2> HIDE DEF ev, cs
    <2>5. SaveLocked(items, cs)
      BY <2>3 DEF cs
    <2>6. ev.at <= now
      BY <1>3, <2>1
    <2>7. Past(log', now')
      BY <1>4, <2>1, <2>2, <2>6
    <2>8. AllExplained(log', file.circuits)
      BY <1>5, <2>1, <2>2
    <2> QED BY <2>4, <2>5, <2>7, <2>8, SaveExplained
  <1>9. CASE Tick
    <2>1. Past(log', now')
      BY <1>1, <1>3, <1>9 DEF Tick, Past, TypeOK, Events
    <2> QED BY <1>1, <1>9, <2>1 DEF Tick
  <1>10. CASE Restart
    <2> DEFINE ev == [kind |-> "restart", keys |-> Session]
    <2>1. ev \in Events /\ ev.kind # "fail"
      BY DEF Events
    <2>2. log' = Append(log, ev) /\ now' = now /\ file' = file
      BY <1>10 DEF Restart
    <2>3. circuits' = LiveCircuits(file.circuits) \/ circuits' = NoEntries
      BY <1>10 DEF Restart
    <2> HIDE DEF ev
    <2>4. AllExplained(log', NoEntries)
      BY NoEntriesIsMap DEF AllExplained
    <2> QED BY <1>4, <1>5, <2>1, <2>2, <2>3, <2>4, LiveExplained
  <1>11. CASE UNCHANGED vars
    BY <1>1, <1>11 DEF vars
  <1> QED
    BY <1>6, <1>7, <1>8, <1>9, <1>10, <1>11 DEF Next, RecordResponseOutcome

LEMMA CircuitsExplainedInit == Init => CircuitsExplained
  <1> SUFFICES ASSUME Init PROVE CircuitsExplained
    OBVIOUS
  <1>1. file.circuits = NoEntries /\ circuits = NoEntries /\ log = <<>>
    BY DEF Init
  <1>2. AllExplained(log, NoEntries)
    BY NoEntriesIsMap DEF AllExplained
  <1> QED
    BY <1>1, <1>2 DEF CircuitsExplained

\* In every reachable state each circuit, in memory and on file, describes
\* the last failure recorded for its session that it has seen.
THEOREM AlwaysExplained == Spec => []CircuitsExplained
  BY CircuitsExplainedInit, CircuitsExplainedStep, TypeOKInit, TypeOKStep, PTL DEF Spec

LEMMA ExplainedMeansOwnFailures ==
    TypeOK /\ CircuitsExplained => BlockedByOwnFailures
  <1> SUFFICES ASSUME TypeOK, CircuitsExplained, NEW k \in Session,
                      NEW cur \in Input, Blocked(k, cur)
               PROVE  \E i, j \in Fails(log, k) : i < j /\ Explains(j, k, cur)
    BY DEF BlockedByOwnFailures
  <1>1. k \in DOMAIN circuits
    BY DEF Blocked
  <1>2. PICK j \in Fails(log, k) : ExplainedBy(log, j, k, circuits[k])
    BY <1>1 DEF CircuitsExplained, AllExplained
  <1>3. PICK i \in Fails(log, k) : i < j
    BY <1>2 DEF ExplainedBy, Blocked
  <1>4. now \in Nat /\ circuits[k].expire \in Nat /\ log[j].at \in Nat
    <2>1. log[j] \in Events /\ log[j].kind = "fail"
      BY DEF Fails, TypeOK
    <2>2. log[j].at \in Nat
      BY <2>1 DEF Events
    <2> QED BY <1>1, <2>2 DEF TypeOK, IsMap, SessionCircuit
  <1>5. now < log[j].at + CircuitTTL
    BY <1>2, <1>4, GuardStoreAssumption DEF ExplainedBy, Blocked
  <1>6. Explains(j, k, cur)
    BY <1>2, <1>5 DEF Explains, ExplainedBy, Blocked
  <1> QED
    BY <1>3, <1>6

\* A session is short-circuited only because of failures recorded for it, the
\* last of which is what is replayed, whatever is saved, lost or loaded.
THEOREM BlockedOnlyByOwnFailures == Spec => []BlockedByOwnFailures
  BY TypeCorrect, AlwaysExplained, ExplainedMeansOwnFailures, PTL
-----------------------------------------------------------------------------
(* A success disarms the breaker                                            *)

\* An event that is not a success of session k keeps what a circuit counts.
LEMMA CountsPersist ==
    ASSUME NEW l \in Seq(Events), NEW ev \in Events, NEW k, NEW c,
           CountsSince(l, k, c), ~(ev.kind = "ok" /\ k \in ev.keys)
    PROVE  CountsSince(Append(l, ev), k, c)
  <1> DEFINE m == Append(l, ev)
  <1>1. /\ DOMAIN l = 1..Len(l) /\ Len(l) \in Nat
        /\ DOMAIN m = 1..(Len(l) + 1) /\ Len(m) = Len(l) + 1
        /\ \A n \in DOMAIN l : n \in DOMAIN m /\ m[n] = l[n]
        /\ m[Len(l) + 1] = ev
    BY LogAppend
  <1> HIDE DEF m
  <1> SUFFICES ASSUME NEW o \in Oks(m, k), SameProcess(m, o)
               PROVE  /\ c.count >= 1 => \E j \in Fails(m, k) : o < j
                      /\ c.count >= 2 \/ c.expire # 0 =>
                            \E i, j \in Fails(m, k) : o < i /\ i < j
    BY DEF CountsSince, m
  <1>2. o \in Oks(l, k)
    <2>1. o \in 1..(Len(l) + 1) /\ o # Len(l) + 1
      BY <1>1 DEF Oks
    <2>2. o \in DOMAIN l
      BY <1>1, <2>1
    <2> QED BY <1>1, <2>2 DEF Oks
  <1>3. SameProcess(l, o)
    BY <1>1, <1>2 DEF SameProcess, Oks
  <1>4. \A i \in Fails(l, k) : i \in Fails(m, k)
    BY <1>1 DEF Fails
  <1> QED
    BY <1>2, <1>3, <1>4 DEF CountsSince

\* What FailedCircuit counts came after the last success.
LEMMA FailureCounts ==
    ASSUME TypeOK, CountsSinceSuccess, NEW ks \in KeySets, NEW in \in Input,
           NEW st \in Status, NEW p \in Payload, NEW c \in ClockReads,
           NEW k \in ks,
           log' = Append(log, [kind |-> "fail", keys |-> ks, input |-> in,
                               status |-> st, payload |-> p, at |-> now])
    PROVE  CountsSince(log', k, FailedCircuit(k, in, st, p, c))
  <1> DEFINE ev == [kind |-> "fail", keys |-> ks, input |-> in,
                    status |-> st, payload |-> p, at |-> now]
             last == Len(log) + 1
             d == FailedCircuit(k, in, st, p, c)
             seen == k \in DOMAIN circuits
  <1>1. ev \in Events /\ log \in Seq(Events) /\ log' = Append(log, ev)
    BY DEF Events, KeySets, TypeOK
  <1>2. /\ DOMAIN log = 1..Len(log) /\ Len(log) \in Nat
        /\ DOMAIN log' = 1..last /\ Len(log') = last /\ log'[last] = ev
        /\ \A n \in DOMAIN log : n \in DOMAIN log' /\ log'[n] = log[n]
    <2> HIDE DEF ev
    <2> QED BY <1>1, LogAppend
  <1>3. last \in Fails(log', k)
    BY <1>2 DEF Fails
  <1>4. \A i \in Fails(log, k) : i \in Fails(log', k) /\ i < last
    BY <1>2 DEF Fails
  <1> SUFFICES ASSUME NEW o \in Oks(log', k), SameProcess(log', o)
               PROVE  /\ d.count >= 1 => \E j \in Fails(log', k) : o < j
                      /\ d.count >= 2 \/ d.expire # 0 =>
                            \E i, j \in Fails(log', k) : o < i /\ i < j
    BY DEF CountsSince
  <1>5. o \in DOMAIN log /\ o < last
    <2>1. o \in 1..last /\ o # last
      BY <1>2 DEF Oks
    <2> QED BY <1>2, <2>1
  <1>6. o \in Oks(log, k) /\ SameProcess(log, o)
    BY <1>2, <1>5 DEF Oks, SameProcess
  <1>7. CASE ~seen
    <2>1. d.count = 1 /\ d.expire = 0
      BY <1>7 DEF FailedCircuit, CountWith, CircuitExpiry, Trips
    <2> HIDE DEF d, last
    <2> QED BY <1>3, <1>5, <2>1
  <1>8. CASE seen
    <2>1. circuits[k].count \in Nat /\ circuits[k].expire \in Nat
      BY <1>8 DEF TypeOK, IsMap, SessionCircuit
    <2>2. /\ circuits[k].count >= 1 => \E j \in Fails(log, k) : o < j
          /\ circuits[k].count >= 2 \/ circuits[k].expire # 0 =>
                \E i, j \in Fails(log, k) : o < i /\ i < j
      BY <1>6, <1>8 DEF CountsSinceSuccess, CountsSince
    <2>3. /\ d.count \in {1, circuits[k].count + 1}
          /\ d.count >= 2 \/ d.expire = circuits[k].expire
      BY <1>8 DEF FailedCircuit, CountWith, CircuitExpiry, Trips
    <2> HIDE DEF d, last
    <2>4. CASE d.count >= 2
      <3>1. circuits[k].count >= 1
        BY <2>1, <2>3, <2>4
      <3>2. PICK j \in Fails(log, k) : o < j
        BY <2>2, <3>1
      <3> QED BY <1>3, <1>4, <1>5, <3>2
    <2>5. CASE ~(d.count >= 2)
      BY <1>3, <1>4, <1>5, <2>2, <2>3, <2>5
    <2> QED BY <2>4, <2>5
  <1> QED
    BY <1>7, <1>8

LEMMA CountsStep ==
    TypeOK /\ CountsSinceSuccess /\ [Next]_vars => CountsSinceSuccess'
  <1> SUFFICES ASSUME TypeOK, CountsSinceSuccess, [Next]_vars,
                      NEW k \in DOMAIN circuits'
               PROVE  CountsSince(log', k, circuits'[k])
    BY DEF CountsSinceSuccess
  <1>1. log \in Seq(Events)
    BY DEF TypeOK
  <1>2. ASSUME NEW its, NEW cs, SaveLocked(its, cs)
        PROVE  k \in DOMAIN cs /\ circuits'[k] = cs[k]
    BY <1>2, LiveCircuitsEntries DEF SaveLocked
  <1>3. CASE \E t \in Thread : ThreadStep(t)
    <2>1. log' = log /\ (circuits' = circuits \/ SaveLocked(items, circuits))
      BY <1>3 DEF ThreadStep, IsInvalidRead, IsInvalidDelete, IsInvalidHit,
                  MarkInvalidSet, MarkInvalidSave
    <2>2. k \in DOMAIN circuits /\ circuits'[k] = circuits[k]
      BY <1>2, <2>1
    <2> QED BY <2>1, <2>2 DEF CountsSinceSuccess
  <1>4. ASSUME NEW ks \in KeySets, NEW st \in Status, RecordSuccess(ks, st)
        PROVE  CountsSince(log', k, circuits'[k])
    <2> DEFINE ev == [kind |-> "ok", keys |-> ks]
    <2>1. ev \in Events /\ log' = Append(log, ev) /\ k \in DOMAIN circuits
      BY <1>4 DEF RecordSuccess, Events, KeySets
    <2>2. CASE k \in ks
      <3>1. circuits[k] \in SessionCircuit
        BY <2>1 DEF TypeOK, IsMap
      <3>2. circuits'[k].count = 0 /\ circuits'[k].expire = 0
        BY <1>4, <2>1, <2>2, <3>1 DEF RecordSuccess, SessionCircuit, Reset
      <3> QED BY <3>2 DEF CountsSince
    <2>3. CASE k \notin ks
      <3>1. circuits'[k] = circuits[k]
        BY <1>4, <2>1, <2>3 DEF RecordSuccess
      <3>2. CountsSince(log, k, circuits[k]) /\ k \notin ev.keys
        BY <2>1, <2>3 DEF CountsSinceSuccess
      <3> HIDE DEF ev
      <3> QED BY <1>1, <2>1, <3>1, <3>2, CountsPersist
    <2> QED BY <2>2, <2>3
  <1>5. ASSUME NEW ks \in KeySets, NEW st \in Status, NEW in \in Input,
               NEW p \in Payload, RecordFailure(ks, in, st, p)
        PROVE  CountsSince(log', k, circuits'[k])
    <2> DEFINE ev == [kind |-> "fail", keys |-> ks, input |-> in,
                      status |-> st, payload |-> p, at |-> now]
    <2>1. ev \in Events /\ ev.kind # "ok"
      BY DEF Events, KeySets, TypeOK
    <2>2. log' = Append(log, ev)
      BY <1>5 DEF RecordFailure
    <2>3. PICK c \in ClockReads :
             SaveLocked(items, [j \in DOMAIN circuits \cup ks |->
                                 IF j \in ks THEN FailedCircuit(j, in, st, p, c)
                                 ELSE circuits[j]])
      BY <1>5 DEF RecordFailure
    <2> DEFINE cs == [j \in DOMAIN circuits \cup ks |->
                        IF j \in ks THEN FailedCircuit(j, in, st, p, c)
                        ELSE circuits[j]]
    <2>4. k \in DOMAIN cs /\ circuits'[k] = cs[k]
      <3> HIDE DEF cs
      <3>1. SaveLocked(items, cs)
        BY <2>3 DEF cs
      <3> QED BY <1>2, <3>1
    <2>5. CASE k \in ks
      <3>1. circuits'[k] = FailedCircuit(k, in, st, p, c)
        BY <2>4, <2>5
      <3> QED BY <2>2, <2>5, <3>1, FailureCounts
    <2>6. CASE k \notin ks
      <3>1. k \in DOMAIN circuits /\ circuits'[k] = circuits[k]
        BY <2>4, <2>6
      <3> HIDE DEF ev, cs
      <3> QED BY <1>1, <2>1, <2>2, <3>1, CountsPersist DEF CountsSinceSuccess
    <2> QED BY <2>5, <2>6
  <1>6. CASE Tick
    BY <1>6 DEF Tick, CountsSinceSuccess
  <1>7. CASE Restart
    <2> DEFINE ev == [kind |-> "restart", keys |-> Session]
    <2>1. ev \in Events
      BY DEF Events
    <2>2. log' = Append(log, ev)
      BY <1>7 DEF Restart
    <2>3. /\ DOMAIN log' = 1..(Len(log) + 1) /\ Len(log) \in Nat
          /\ log'[Len(log) + 1].kind = "restart"
          /\ Len(log') = Len(log) + 1
      <3>1. ev.kind = "restart"
        OBVIOUS
      <3> HIDE DEF ev
      <3> QED BY <1>1, <2>1, <2>2, <3>1, LogAppend
    <2>4. \A o \in Oks(log', k) : ~SameProcess(log', o)
      BY <2>3 DEF Oks, SameProcess
    <2> QED BY <2>4 DEF CountsSince
  <1>8. CASE UNCHANGED vars
    BY <1>8 DEF vars, CountsSinceSuccess
  <1> QED
    BY <1>3, <1>4, <1>5, <1>6, <1>7, <1>8 DEF Next, RecordResponseOutcome

LEMMA CountsInit == Init => CountsSinceSuccess
  BY NoEntriesIsMap DEF Init, CountsSinceSuccess

LEMMA CountsMeansDisarms == CountsSinceSuccess => SuccessDisarms
  <1> SUFFICES ASSUME CountsSinceSuccess, NEW k \in Session, NEW cur \in Input,
                      Blocked(k, cur), NEW o \in Oks(log, k), SameProcess(log, o)
               PROVE  \E i, j \in Fails(log, k) : o < i /\ i < j
    BY DEF SuccessDisarms
  <1> QED
    BY DEF CountsSinceSuccess, CountsSince, Blocked

\* The counts and expiries of RecordResponseOutcome (store.go:147-196) stand
\* for failures since the last success of this process.
THEOREM CountsAlwaysSinceSuccess == Spec => []CountsSinceSuccess
  BY TypeOKInit, TypeOKStep, CountsInit, CountsStep, PTL DEF Spec

\* Within one process, a recorded success of a session disarms its breaker
\* until two later failures of that session.
THEOREM SuccessAlwaysDisarms == Spec => []SuccessDisarms
  BY CountsAlwaysSinceSuccess, CountsMeansDisarms, PTL
-----------------------------------------------------------------------------
(* Repeated failures trip the breaker                                       *)

\* The circuits cs say of session k what happened to it after o: a circuit
\* that was reset, or counts that reach back to the first failure of the run
\* and an expiry that a later one has set.
Remembers(l, k, o, cs) ==
    LET run == After(l, k, o)
    IN  IF run = {} THEN k \in DOMAIN cs => cs[k].count = 0 /\ cs[k].expire = 0
        ELSE /\ k \in DOMAIN cs
             /\ cs[k].status # 0 /\ cs[k].count >= 1
             /\ \E j \in run : cs[k].input = l[j].input /\ \A n \in run : n <= j
             /\ \A i, j \in run :
                   /\ i < j
                   /\ \A m, n \in run : i <= m /\ m < n => Similar(l[n].input, l[m].input)
                   => cs[k].count >= 2
             /\ cs[k].count >= 2 => cs[k].expire # 0
             /\ cs[k].expire # 0 =>
                   \E m, n \in run : m < n /\ l[n].at + CircuitTTL <= cs[k].expire + Lag

\* What makes RepeatsTrip inductive.
RunsRemembered ==
    \A k \in Session : \A o \in {0} \cup Oks(log, k) :
        OnlyFailed(log, k, o) => Remembers(log, k, o, circuits)

LEMMA AfterAppend ==
    ASSUME NEW l \in Seq(Events), NEW ev \in Events, NEW k, NEW o
    PROVE  /\ After(l, k, o) \subseteq 1..Len(l) /\ Len(l) \in Nat
           /\ k \in ev.keys /\ o < Len(l) + 1 =>
                 After(Append(l, ev), k, o) = After(l, k, o) \cup {Len(l) + 1}
           /\ k \notin ev.keys => After(Append(l, ev), k, o) = After(l, k, o)
           /\ \A n \in After(l, k, o) : n \in DOMAIN l /\ Append(l, ev)[n] = l[n]
           /\ Append(l, ev)[Len(l) + 1] = ev
  <1> DEFINE m == Append(l, ev)
  <1>1. /\ DOMAIN l = 1..Len(l) /\ Len(l) \in Nat
        /\ DOMAIN m = 1..(Len(l) + 1)
        /\ \A n \in DOMAIN l : m[n] = l[n]
        /\ m[Len(l) + 1] = ev
    BY LogAppend
  <1> HIDE DEF m
  <1>2. /\ DOMAIN m = DOMAIN l \cup {Len(l) + 1}
    BY <1>1
  <1>3. After(l, k, o) \subseteq DOMAIN l
    BY DEF After
  <1>4. ASSUME k \in ev.keys, o < Len(l) + 1
        PROVE  After(m, k, o) = After(l, k, o) \cup {Len(l) + 1}
    BY <1>1, <1>2, <1>4 DEF After
  <1>5. ASSUME k \notin ev.keys
        PROVE  After(m, k, o) = After(l, k, o)
    BY <1>1, <1>2, <1>5 DEF After
  <1> QED BY <1>1, <1>3, <1>4, <1>5 DEF m

\* A run that is still one after more was recorded, or time passed, was one
\* before.
LEMMA RunBefore ==
    ASSUME TypeOK, NEW k, NEW o \in 0..Len(log), now' = now \/ now' = now + 1,
           log' = log \/ \E ev \in Events : log' = Append(log, ev),
           OnlyFailed(log, k, o)'
    PROVE  OnlyFailed(log, k, o)
  <1>1. log \in Seq(Events) /\ now \in Nat /\ now <= now'
    BY DEF TypeOK
  <1>2. After(log, k, o) \subseteq After(log', k, o)
    <2>1. CASE log' = log
      BY <2>1
    <2>2. ASSUME NEW ev \in Events, log' = Append(log, ev)
          PROVE  After(log, k, o) \subseteq After(log', k, o)
      <3>1. o < Len(log) + 1
        BY <1>1
      <3>2. CASE k \in ev.keys
        BY <1>1, <2>2, <3>1, <3>2, AfterAppend
      <3>3. CASE k \notin ev.keys
        BY <1>1, <2>2, <3>3, AfterAppend
      <3> QED BY <3>2, <3>3
    <2> QED BY <2>1, <2>2
  <1>3. \A n \in After(log, k, o) : log'[n] = log[n] /\ log[n] \in Events
    <2>1. \A n \in After(log, k, o) : n \in DOMAIN log
      BY DEF After
    <2> QED BY <1>1, <2>1, AfterAppend
  <1>4. ASSUME NEW n \in After(log, k, o)
        PROVE  /\ log[n].kind = "fail"
               /\ \/ \A m \in After(log, k, o) : n <= m
                  \/ now + Lag < log[n].at + CircuitTTL
    <2>1. /\ log[n].kind = "fail"
          /\ \/ \A m \in After(log', k, o) : n <= m
             \/ now' + Lag < log[n].at + CircuitTTL
      BY <1>2, <1>3 DEF OnlyFailed
    <2>2. log[n].at \in Nat
      BY <1>3, <2>1 DEF Events
    <2>3. CASE \A m \in After(log', k, o) : n <= m
      BY <1>2, <2>1, <2>3
    <2>4. CASE now' + Lag < log[n].at + CircuitTTL
      BY <1>1, <2>1, <2>2, <2>4, RecentBefore
    <2> QED BY <2>1, <2>3, <2>4
  <1> QED BY <1>4 DEF OnlyFailed

\* A save drops no circuit that remembers a run.
LEMMA RememberedLive ==
    ASSUME now \in Nat, NEW l \in Seq(Events), NEW cs, IsMap(cs, Session, SessionCircuit),
           NEW k, NEW o, OnlyFailed(l, k, o), Remembers(l, k, o, cs)
    PROVE  Remembers(l, k, o, LiveCircuits(cs))
  <1> DEFINE run == After(l, k, o)
  <1>1. /\ DOMAIN LiveCircuits(cs) \subseteq DOMAIN cs
        /\ \A x \in DOMAIN LiveCircuits(cs) : LiveCircuits(cs)[x] = cs[x]
    BY DEF LiveCircuits, Keep
  <1>2. CASE run = {}
    BY <1>1, <1>2 DEF Remembers
  <1>3. CASE run # {}
    <2>1. /\ k \in DOMAIN cs /\ cs[k].status # 0
          /\ cs[k].expire # 0 =>
               \E m, n \in run : m < n /\ l[n].at + CircuitTTL <= cs[k].expire + Lag
      BY <1>3 DEF Remembers
    <2>2. cs[k].expire \in Nat
      BY <2>1 DEF IsMap, SessionCircuit
    <2>3. ASSUME cs[k].expire # 0
          PROVE  now < cs[k].expire
      <3>1. PICK m, n \in run : m < n /\ l[n].at + CircuitTTL <= cs[k].expire + Lag
        BY <2>1, <2>3
      <3>2. n \in DOMAIN l /\ m \in DOMAIN l /\ l[n] \in Events
        BY DEF After
      <3>3. ~(n <= m)
        <4>1. n \in Nat /\ m \in Nat
          BY <3>2
        <4> QED BY <3>1, <4>1
      <3>4. l[n].kind = "fail" /\ now + Lag < l[n].at + CircuitTTL
        BY <3>3 DEF OnlyFailed
      <3>5. l[n].at \in Nat
        BY <3>2, <3>4 DEF Events
      <3> HIDE DEF run
      <3> QED BY <2>2, <3>1, <3>4, <3>5, RecentMeansTripped
    <2>4. k \in DOMAIN LiveCircuits(cs) /\ LiveCircuits(cs)[k] = cs[k]
      BY <2>1, <2>3 DEF LiveCircuits, Keep
    <2> QED BY <1>3, <2>4 DEF Remembers
  <1> QED BY <1>2, <1>3

\* What is recorded for other sessions changes no run.
LEMMA RememberedElsewhere ==
    ASSUME NEW l \in Seq(Events), NEW ev \in Events, NEW k, k \notin ev.keys, NEW o, NEW cs,
           Remembers(l, k, o, cs)
    PROVE  Remembers(Append(l, ev), k, o, cs)
  <1>1. PICK m : m = Append(l, ev)
    OBVIOUS
  <1>2. After(m, k, o) = After(l, k, o) /\ \A n \in After(l, k, o) : m[n] = l[n]
    BY <1>1, AfterAppend
  <1>3. Remembers(m, k, o, cs)
    BY <1>2 DEF Remembers
  <1> QED BY <1>1, <1>3

\* The circuit a failure of the session leaves.
LEMMA FailureRemembered ==
    ASSUME TypeOK, NEW k \in Session, NEW o \in 0..Len(log), Remembers(log, k, o, circuits),
           NEW ev \in Events, ev.kind = "fail", k \in ev.keys, ev.at = now,
           NEW c \in ClockReads, NEW cs, k \in DOMAIN cs, ev.status # 0,
           cs[k] = FailedCircuit(k, ev.input, ev.status, ev.payload, c)
    PROVE  Remembers(Append(log, ev), k, o, cs)
  <1> DEFINE run == After(log, k, o)
             last == Len(log) + 1
  <1>1. PICK l : l = Append(log, ev)
    OBVIOUS
  <1>2. /\ run \subseteq 1..Len(log) /\ Len(log) \in Nat
        /\ After(l, k, o) = run \cup {last}
        /\ \A n \in run : l[n] = log[n]
        /\ l[last] = ev
    <2>1. log \in Seq(Events) /\ o < last
      BY DEF TypeOK
    <2> QED BY <1>1, <2>1, AfterAppend
  <1>3. \A n \in run : n < last /\ n \in Nat
    BY <1>2
  <1>4. /\ cs[k].count = CountWith(k, ev.input) /\ cs[k].input = ev.input
        /\ cs[k].status # 0 /\ cs[k].expire = CircuitExpiry(k, ev.input, c)
    BY DEF FailedCircuit
  <1>5. k \in DOMAIN circuits => circuits[k].count \in Nat /\ circuits[k].expire \in Nat
    BY DEF TypeOK, IsMap, SessionCircuit
  <1>6. cs[k].count >= 1
    BY <1>4, <1>5 DEF CountWith
  <1>7. \E j \in run \cup {last} : cs[k].input = l[j].input /\ \A n \in run \cup {last} : n <= j
    BY <1>2, <1>3, <1>4
  <1>8. c \in Nat /\ now <= c + Lag /\ c + CircuitTTL # 0
    BY GuardStoreAssumption DEF ClockReads, TypeOK
  <1>9. cs[k].count >= 2 => cs[k].expire # 0 /\ cs[k].expire = c + CircuitTTL
    BY <1>4, <1>8 DEF CircuitExpiry, Trips
  <1>10. CASE run = {}
    <2>1. cs[k].count = 1 /\ cs[k].expire = 0
      <3>1. k \in DOMAIN circuits => circuits[k].count = 0 /\ circuits[k].expire = 0
        BY <1>10 DEF Remembers
      <3>2. CountWith(k, ev.input) = 1
        BY <3>1 DEF CountWith
      <3> QED BY <1>4, <3>1, <3>2 DEF CircuitExpiry, Trips
    <2>2. \A i, j \in run \cup {last} : ~(i < j)
      BY <1>2, <1>10
    <2>3. Remembers(l, k, o, cs)
      BY <1>2, <1>4, <1>6, <1>7, <2>1, <2>2 DEF Remembers
    <2> QED BY <1>1, <2>3
  <1>11. CASE run # {}
    <2>1. /\ k \in DOMAIN circuits /\ circuits[k].count >= 1
          /\ circuits[k].expire # 0 =>
               \E m, n \in run : m < n /\ log[n].at + CircuitTTL <= circuits[k].expire + Lag
      BY <1>11 DEF Remembers
    <2>2. PICK j \in run : circuits[k].input = log[j].input /\ \A n \in run : n <= j
      BY <1>11 DEF Remembers
    <2>3. ASSUME NEW i \in run \cup {last}, NEW i2 \in run \cup {last}, i < i2,
                 \A m, n \in run \cup {last} :
                    i <= m /\ m < n => Similar(l[n].input, l[m].input)
          PROVE  cs[k].count >= 2
      <3>1. i \in run
        BY <1>2, <1>3, <2>3
      <3>2. i <= j /\ j < last /\ Similar(l[last].input, l[j].input)
        BY <1>3, <2>2, <2>3, <3>1
      <3>3. Similar(ev.input, circuits[k].input)
        BY <1>2, <2>2, <3>2
      <3> QED BY <1>4, <1>5, <2>1, <3>3 DEF CountWith
    <2>4. ASSUME cs[k].expire # 0
          PROVE  \E m, n \in run \cup {last} :
                    m < n /\ l[n].at + CircuitTTL <= cs[k].expire + Lag
      <3>1. CASE cs[k].count >= 2
        <4>1. l[last].at + CircuitTTL <= cs[k].expire + Lag
          <5>1. l[last].at = now /\ cs[k].expire = c + CircuitTTL
            BY <1>2, <1>9, <3>1
          <5>2. now \in Nat /\ Lag \in Nat /\ CircuitTTL \in Nat
            BY GuardStoreAssumption DEF TypeOK
          <5> QED BY <1>8, <5>1, <5>2
        <4>2. j \in run \cup {last} /\ last \in run \cup {last} /\ j < last
          BY <1>3, <2>2
        <4> QED BY <4>1, <4>2
      <3>2. CASE ~(cs[k].count >= 2)
        <4>1. cs[k].expire = circuits[k].expire
          BY <1>4, <2>1, <3>2 DEF CircuitExpiry, Trips
        <4>2. PICK m, n \in run : m < n /\ log[n].at + CircuitTTL <= circuits[k].expire + Lag
          BY <2>1, <2>4, <4>1
        <4> QED BY <1>2, <4>1, <4>2
      <3> QED BY <3>1, <3>2
    <2>5. Remembers(l, k, o, cs)
      BY <1>2, <1>4, <1>6, <1>7, <1>9, <2>3, <2>4 DEF Remembers
    <2> QED BY <1>1, <2>5
  <1> QED BY <1>10, <1>11

\* Remembers looks at one circuit only.
LEMMA RememberedSame ==
    ASSUME NEW l, NEW k, NEW o, NEW cs, NEW ds, Remembers(l, k, o, cs),
           k \in DOMAIN cs <=> k \in DOMAIN ds, k \in DOMAIN cs => ds[k] = cs[k]
    PROVE  Remembers(l, k, o, ds)
  BY DEF Remembers

LEMMA RunsRememberedStep ==
    TypeOK /\ RunsRemembered /\ [Next]_vars => RunsRemembered'
  <1> SUFFICES ASSUME TypeOK, RunsRemembered, [Next]_vars,
                      NEW k \in Session, NEW o \in {0} \cup Oks(log', k),
                      OnlyFailed(log, k, o)'
               PROVE  Remembers(log', k, o, circuits')
    BY DEF RunsRemembered
  <1> DEFINE last == Len(log) + 1
  <1>1. /\ log \in Seq(Events) /\ DOMAIN log = 1..Len(log) /\ Len(log) \in Nat
        /\ now \in Nat /\ IsMap(circuits, Session, SessionCircuit)
    BY DEF TypeOK
  <1>2. ASSUME NEW r \in {0} \cup Oks(log, k), OnlyFailed(log, k, r)
        PROVE  Remembers(log, k, r, circuits)
    BY <1>2 DEF RunsRemembered
  <1>3. ASSUME NEW ev \in Events, log' = Append(log, ev), now' = now,
               o # last \/ ev.kind # "ok" \/ k \notin ev.keys
        PROVE  /\ o \in 0..Len(log)
               /\ k \in ev.keys => ev.kind = "fail"
               /\ Remembers(log, k, o, circuits)
    <2>1. /\ DOMAIN log' = 1..last /\ log'[last] = ev
          /\ \A n \in DOMAIN log : log'[n] = log[n]
      BY <1>1, <1>3, LogAppend
    <2>2. o \in {0} \cup Oks(log, k) /\ o \in 0..Len(log)
      <3>1. o # last
        BY <1>3, <2>1 DEF Oks
      <3>2. o = 0 \/ o \in DOMAIN log
        BY <1>1, <2>1, <3>1 DEF Oks
      <3> QED BY <1>1, <2>1, <3>2 DEF Oks
    <2>3. ASSUME k \in ev.keys
          PROVE  ev.kind = "fail"
      <3>1. last \in After(log', k, o)
        BY <1>1, <2>1, <2>2, <2>3 DEF After
      <3> QED BY <2>1, <3>1 DEF OnlyFailed
    <2>4. OnlyFailed(log, k, o)
      BY <1>3, <2>2, RunBefore
    <2> QED BY <1>2, <2>2, <2>3, <2>4
  <1>4. ASSUME log' = log, now' = now \/ now' = now + 1
        PROVE  Remembers(log', k, o, circuits) /\ OnlyFailed(log, k, o)
    <2>1. o \in {0} \cup Oks(log, k) /\ o \in 0..Len(log)
      BY <1>1, <1>4 DEF Oks
    <2>2. OnlyFailed(log, k, o)
      BY <1>4, <2>1, RunBefore
    <2> QED BY <1>2, <1>4, <2>1, <2>2
  <1>5. CASE \E t \in Thread : ThreadStep(t)
    <2>1. /\ log' = log /\ now' = now
          /\ circuits' = circuits \/ circuits' = LiveCircuits(circuits)
      BY <1>5 DEF ThreadStep, IsInvalidRead, IsInvalidDelete, IsInvalidHit,
                  MarkInvalidSet, MarkInvalidSave, SaveLocked
    <2>2. Remembers(log, k, o, circuits) /\ OnlyFailed(log, k, o)
      BY <1>4, <2>1
    <2>3. Remembers(log, k, o, LiveCircuits(circuits))
      BY <1>1, <2>2, RememberedLive
    <2> QED BY <2>1, <2>2, <2>3
  <1>6. ASSUME NEW ks \in KeySets, NEW st \in Status, RecordSuccess(ks, st)
        PROVE  Remembers(log', k, o, circuits')
    <2>1. PICK ev \in Events : /\ ev.kind = "ok" /\ ev.keys = ks
                               /\ log' = Append(log, ev)
      BY <1>6 DEF RecordSuccess, Events, KeySets
    <2>2. /\ now' = now /\ DOMAIN circuits' = DOMAIN circuits
          /\ k \notin ks /\ k \in DOMAIN circuits => circuits'[k] = circuits[k]
      BY <1>6 DEF RecordSuccess
    <2>3. CASE k \in ks
      <3>1. o = last
        BY <1>3, <2>1, <2>2, <2>3
      <3>2. After(log', k, o) = {}
        <4>1. DOMAIN log' = 1..last
          BY <1>1, <2>1, LogAppend
        <4> QED BY <1>1, <3>1, <4>1 DEF After
      <3>3. k \in DOMAIN circuits =>
               circuits'[k].count = 0 /\ circuits'[k].expire = 0
        <4>1. k \in DOMAIN circuits => circuits[k] \in SessionCircuit
          BY <1>1 DEF IsMap
        <4>2. k \in DOMAIN circuits => circuits'[k] = Reset(circuits[k])
          BY <1>6, <2>3 DEF RecordSuccess
        <4> QED BY <4>1, <4>2 DEF Reset, SessionCircuit
      <3> QED BY <2>2, <3>2, <3>3 DEF Remembers
    <2>4. CASE k \notin ks
      <3>1. Remembers(log, k, o, circuits)
        BY <1>3, <2>1, <2>2, <2>4
      <3>2. Remembers(log', k, o, circuits)
        BY <1>1, <2>1, <2>4, <3>1, RememberedElsewhere
      <3> QED BY <2>2, <2>4, <3>2, RememberedSame
    <2> QED BY <2>3, <2>4
  <1>7. ASSUME NEW ks \in KeySets, NEW st \in Status, NEW in \in Input,
               NEW p \in Payload, RecordFailure(ks, in, st, p)
        PROVE  Remembers(log', k, o, circuits')
    <2>1. PICK ev \in Events : /\ ev = [kind |-> "fail", keys |-> ks, input |-> in,
                                        status |-> st, payload |-> p, at |-> now]
                               /\ log' = Append(log, ev)
      <3>1. [kind |-> "fail", keys |-> ks, input |-> in,
             status |-> st, payload |-> p, at |-> now] \in Events
        BY <1>1 DEF Events, KeySets
      <3> QED BY <1>7, <3>1 DEF RecordFailure
    <2>2. /\ ev.kind = "fail" /\ ev.keys = ks /\ ev.input = in /\ ev.status = st
          /\ ev.payload = p /\ ev.at = now /\ st # 0 /\ now' = now
      BY <1>7, <2>1 DEF RecordFailure
    <2>3. PICK c \in ClockReads :
             circuits' = LiveCircuits([j \in DOMAIN circuits \cup ks |->
                                         IF j \in ks THEN FailedCircuit(j, in, st, p, c)
                                         ELSE circuits[j]])
      BY <1>7 DEF RecordFailure, SaveLocked
    <2> DEFINE cs == [j \in DOMAIN circuits \cup ks |->
                        IF j \in ks THEN FailedCircuit(j, in, st, p, c)
                        ELSE circuits[j]]
    <2>4. IsMap(cs, Session, SessionCircuit)
      <3>1. c \in Nat /\ ks \subseteq Session
        BY ClockReadsNat DEF KeySets
      <3>2. \A j \in ks : FailedCircuit(j, in, st, p, c) \in SessionCircuit
        BY <3>1, FailedCircuitType
      <3> QED BY <1>1, <3>1, <3>2 DEF IsMap
    <2>5. o \in 0..Len(log) /\ Remembers(log, k, o, circuits)
      BY <1>3, <2>1, <2>2
    <2>6. Remembers(log', k, o, cs)
      <3>1. CASE k \in ks
        <4>1. k \in DOMAIN cs /\ cs[k] = FailedCircuit(k, ev.input, ev.status, ev.payload, c)
          BY <2>2, <3>1
        <4> HIDE DEF cs
        <4> QED BY <2>1, <2>2, <2>5, <3>1, <4>1, FailureRemembered
      <3>2. CASE k \notin ks
        <4>1. (k \in DOMAIN circuits <=> k \in DOMAIN cs)
              /\ (k \in DOMAIN circuits => cs[k] = circuits[k])
          BY <3>2
        <4> HIDE DEF cs
        <4>2. Remembers(log', k, o, circuits)
          BY <1>1, <2>1, <2>2, <2>5, <3>2, RememberedElsewhere
        <4> QED BY <4>1, <4>2, RememberedSame
      <3> QED BY <3>1, <3>2
    <2>7. OnlyFailed(log', k, o)
      BY <2>2 DEF OnlyFailed
    <2>8. log' \in Seq(Events)
      BY <1>1, <2>1
    <2>9. circuits' = LiveCircuits(cs)
      BY <2>3
    <2> HIDE DEF cs
    <2> QED BY <1>1, <2>4, <2>6, <2>7, <2>8, <2>9, RememberedLive
  <1>8. CASE Tick
    <2>1. log' = log /\ circuits' = circuits /\ now' = now + 1
      BY <1>8 DEF Tick
    <2> QED BY <1>4, <2>1
  <1>9. CASE Restart
    <2>1. PICK ev \in Events : /\ ev.kind = "restart" /\ ev.keys = Session
                               /\ log' = Append(log, ev)
      BY <1>9 DEF Restart, Events
    <2>2. now' = now
      BY <1>9 DEF Restart
    <2> QED BY <1>3, <2>1, <2>2
  <1>10. CASE UNCHANGED vars
    <2>1. log' = log /\ circuits' = circuits /\ now' = now
      BY <1>10 DEF vars
    <2> QED BY <1>4, <2>1
  <1> QED
    BY <1>5, <1>6, <1>7, <1>8, <1>9, <1>10 DEF Next, RecordResponseOutcome

LEMMA RunsRememberedInit == Init => RunsRemembered
  <1> SUFFICES ASSUME Init, NEW k \in Session, NEW o
               PROVE  Remembers(log, k, o, circuits)
    BY DEF RunsRemembered
  <1>1. After(log, k, o) = {} /\ DOMAIN circuits = {}
    BY NoEntriesIsMap DEF Init, After, NoEntries
  <1> QED BY <1>1 DEF Remembers

LEMMA RunsMeanTrip == TypeOK /\ RunsRemembered => RepeatsTrip
  <1> SUFFICES ASSUME TypeOK, RunsRemembered,
                      NEW k \in Session, NEW cur \in Input \ {<<>>},
                      NEW o \in {0} \cup Oks(log, k), OnlyFailed(log, k, o),
                      NEW i \in After(log, k, o), NEW j \in After(log, k, o), i < j,
                      \A n \in After(log, k, o) : i <= n => Similar(cur, log[n].input),
                      \A m, n \in After(log, k, o) :
                         i <= m /\ m < n => Similar(log[n].input, log[m].input)
               PROVE  Blocked(k, cur)
    BY DEF RepeatsTrip
  <1> DEFINE run == After(log, k, o)
  <1>1. \A n \in run : n \in Nat /\ log[n] \in Events
    BY DEF TypeOK, After
  <1>2. Remembers(log, k, o, circuits)
    BY DEF RunsRemembered
  <1>3. k \in DOMAIN circuits /\ circuits[k].expire # 0
    BY <1>2 DEF Remembers
  <1>4. circuits[k].expire \in Nat /\ now \in Nat
    BY <1>3 DEF TypeOK, IsMap, SessionCircuit
  <1>5. PICK e \in run : circuits[k].input = log[e].input /\ \A n \in run : n <= e
    BY <1>2 DEF Remembers
  <1>6. Similar(cur, circuits[k].input)
    <2>1. i <= e
      BY <1>5
    <2> QED BY <1>5, <2>1
  <1>7. now < circuits[k].expire
    <2>1. PICK m, n \in run : m < n /\ log[n].at + CircuitTTL <= circuits[k].expire + Lag
      BY <1>2, <1>3 DEF Remembers
    <2>2. log[n].kind = "fail" /\ now + Lag < log[n].at + CircuitTTL
      BY <1>1, <2>1 DEF OnlyFailed
    <2>3. log[n].at \in Nat
      BY <1>1, <2>2 DEF Events
    <2> HIDE DEF run
    <2> QED BY <1>4, <2>1, <2>2, <2>3, RecentMeansTripped
  <1> QED BY <1>3, <1>6, <1>7 DEF Blocked

\* The circuits remember every run of failures (store.go:163-196).
THEOREM RunsAlwaysRemembered == Spec => []RunsRemembered
  BY TypeOKInit, TypeOKStep, RunsRememberedInit, RunsRememberedStep, PTL DEF Spec

\* Two similar failures of a session in a row trip its breaker, and nothing
\* that is recorded, saved or pruned meanwhile loses that.
THEOREM RepeatsAlwaysTrip == Spec => []RepeatsTrip
  BY TypeCorrect, RunsAlwaysRemembered, RunsMeanTrip, PTL
-----------------------------------------------------------------------------
(* Pruning                                                                  *)

\* Two maps agree on parts of them when the keys and their values do.
LEMMA KeepSame ==
    ASSUME NEW f, NEW m, NEW F, NEW M
    PROVE  Keep(f, F) = Keep(m, M) <=>
             /\ DOMAIN f \cap F = DOMAIN m \cap M
             /\ \A x \in DOMAIN f \cap F : f[x] = m[x]
  <1>1. /\ DOMAIN Keep(f, F) = DOMAIN f \cap F
        /\ DOMAIN Keep(m, M) = DOMAIN m \cap M
        /\ \A x \in DOMAIN f \cap F : Keep(f, F)[x] = f[x]
        /\ \A x \in DOMAIN m \cap M : Keep(m, M)[x] = m[x]
    BY DEF Keep
  <1>2. ASSUME Keep(f, F) = Keep(m, M)
        PROVE  /\ DOMAIN f \cap F = DOMAIN m \cap M
               /\ \A x \in DOMAIN f \cap F : f[x] = m[x]
    BY <1>1, <1>2
  <1>3. ASSUME DOMAIN f \cap F = DOMAIN m \cap M,
               \A x \in DOMAIN f \cap F : f[x] = m[x]
        PROVE  Keep(f, F) = Keep(m, M)
    BY <1>3 DEF Keep
  <1> QED BY <1>2, <1>3

\* A process that loads what a save pruned keeps all of it.
LEMMA PruneTwice ==
    ASSUME NEW its, NEW cs
    PROVE  /\ LiveItems(LiveItems(its)) = LiveItems(its)
           /\ LiveCircuits(LiveCircuits(cs)) = LiveCircuits(cs)
  BY DEF LiveItems, LiveCircuits, Keep

\* Maps that agree on the live items still agree after time passed.
LEMMA LiveItemsLater ==
    ASSUME NEW f, NEW m, IsMap(f, Item, InvalidItem), IsMap(m, Item, InvalidItem),
           now \in Nat, now' = now + 1, LiveItems(f) = LiveItems(m)
    PROVE  Keep(f, {i \in DOMAIN f : now' < f[i].expire})
             = Keep(m, {i \in DOMAIN m : now' < m[i].expire})
  <1>1. /\ \A i \in DOMAIN f : f[i].expire \in Nat
        /\ \A i \in DOMAIN m : m[i].expire \in Nat
    BY DEF IsMap, InvalidItem
  <1>2. /\ {i \in DOMAIN f : now < f[i].expire} = {i \in DOMAIN m : now < m[i].expire}
        /\ \A i \in DOMAIN f : now < f[i].expire => f[i] = m[i]
    BY KeepSame DEF LiveItems
  <1>3. /\ {i \in DOMAIN f : now' < f[i].expire} = {i \in DOMAIN m : now' < m[i].expire}
        /\ \A i \in DOMAIN f : now' < f[i].expire => f[i] = m[i]
    BY <1>1, <1>2
  <1> QED BY <1>3, KeepSame

\* The same for circuits.
LEMMA LiveCircuitsLater ==
    ASSUME NEW f, NEW m,
           IsMap(f, Session, SessionCircuit), IsMap(m, Session, SessionCircuit),
           now \in Nat, now' = now + 1, LiveCircuits(f) = LiveCircuits(m)
    PROVE  Keep(f, {k \in DOMAIN f : /\ f[k].expire = 0 \/ now' < f[k].expire
                                     /\ f[k].status # 0})
             = Keep(m, {k \in DOMAIN m : /\ m[k].expire = 0 \/ now' < m[k].expire
                                         /\ m[k].status # 0})
  <1> DEFINE Live(c, t) == (c.expire = 0 \/ t < c.expire) /\ c.status # 0
  <1>1. /\ \A k \in DOMAIN f : f[k].expire \in Nat
        /\ \A k \in DOMAIN m : m[k].expire \in Nat
    BY DEF IsMap, SessionCircuit
  <1>2. /\ {k \in DOMAIN f : Live(f[k], now)} = {k \in DOMAIN m : Live(m[k], now)}
        /\ \A k \in DOMAIN f : Live(f[k], now) => f[k] = m[k]
    BY KeepSame DEF LiveCircuits
  <1>3. /\ \A k \in DOMAIN f : Live(f[k], now') => Live(f[k], now)
        /\ \A k \in DOMAIN m : Live(m[k], now') => Live(m[k], now)
    BY <1>1
  <1> HIDE DEF Live
  <1>4. /\ {k \in DOMAIN f : Live(f[k], now')} = {k \in DOMAIN m : Live(m[k], now')}
        /\ \A k \in DOMAIN f : Live(f[k], now') => f[k] = m[k]
    BY <1>2, <1>3
  <1> QED BY <1>4, KeepSame DEF Live

-----------------------------------------------------------------------------
(* A clean store has nothing a restart would lose                           *)

\* A save that succeeds leaves on file what the store holds.
LEMMA SaveIsSaved ==
    ASSUME NEW its, NEW cs, SaveLocked(its, cs), lastSave' # "failed"
    PROVE  file'.items = items' /\ file'.circuits = circuits'
  BY DEF SaveLocked

LEMMA CleanStep == TypeOK /\ CleanMeansSaved /\ [Next]_vars => CleanMeansSaved'
  <1> SUFFICES ASSUME TypeOK, CleanMeansSaved, [Next]_vars,
                      ~isDirty', lastSave' \in {"none", "ok"}
               PROVE  /\ LiveItems(file.items)' = LiveItems(items)'
                      /\ LiveCircuits(file.circuits)' = LiveCircuits(circuits)'
    BY DEF CleanMeansSaved
  <1> DEFINE Saved == /\ LiveItems(file.items)' = LiveItems(items)'
                      /\ LiveCircuits(file.circuits)' = LiveCircuits(circuits)'
  <1>1. ASSUME UNCHANGED <<items, circuits, isDirty, file, now, lastSave>>
        PROVE  Saved
    BY <1>1 DEF CleanMeansSaved, LiveItems, LiveCircuits
  <1>2. ASSUME NEW its, NEW cs, SaveLocked(its, cs)
        PROVE  Saved
    BY <1>2, SaveIsSaved
  <1> SUFFICES Saved
    OBVIOUS
  <1> HIDE DEF Saved
  <1>3. CASE \E t \in Thread : ThreadStep(t)
    <2> PICK t \in Thread : ThreadStep(t)
      BY <1>3
    <2>1. CASE \E i \in Item : IsInvalidRead(t, i)
      BY <1>1, <2>1 DEF IsInvalidRead
    <2>2. CASE IsInvalidDelete(t)
      BY <2>2 DEF IsInvalidDelete
    <2>3. CASE IsInvalidHit(t)
      BY <1>1, <2>3 DEF IsInvalidHit
    <2>4. CASE \E i \in Item, p \in Payload : MarkInvalidSet(t, i, p)
      BY <2>4 DEF MarkInvalidSet
    <2>5. CASE MarkInvalidSave(t)
      <3>1. CASE SaveLocked(items, circuits)
        BY <1>2, <3>1
      <3>2. CASE UNCHANGED <<items, circuits, isDirty, file, lastSave>>
        BY <1>1, <2>5, <3>2 DEF MarkInvalidSave
      <3> QED BY <2>5, <3>1, <3>2 DEF MarkInvalidSave
    <2> QED BY <2>1, <2>2, <2>3, <2>4, <2>5 DEF ThreadStep
  <1>4. ASSUME NEW ks \in KeySets, NEW st \in Status, RecordSuccess(ks, st)
        PROVE  Saved
    <2>1. ~isDirty /\ ks \cap DOMAIN circuits = {}
      BY <1>4 DEF RecordSuccess, DirtyAfterSuccess
    <2>2. /\ DOMAIN circuits' = DOMAIN circuits
          /\ \A k \in DOMAIN circuits : circuits'[k] = circuits[k]
      BY <1>4, <2>1 DEF RecordSuccess
    <2>3. UNCHANGED <<items, file, now, lastSave>>
      BY <1>4 DEF RecordSuccess
    <2>4. LiveCircuits(circuits)' = LiveCircuits(circuits)
      BY <2>2, <2>3 DEF LiveCircuits, Keep
    <2>5. /\ LiveItems(items)' = LiveItems(items)
          /\ LiveItems(file.items)' = LiveItems(file.items)
          /\ LiveCircuits(file.circuits)' = LiveCircuits(file.circuits)
      BY <2>3 DEF LiveItems, LiveCircuits
    <2> QED BY <2>1, <2>3, <2>4, <2>5 DEF CleanMeansSaved, Saved
  <1>5. ASSUME NEW ks \in KeySets, NEW st \in Status, NEW in \in Input,
               NEW p \in Payload, RecordFailure(ks, in, st, p)
        PROVE  Saved
    BY <1>2, <1>5 DEF RecordFailure
  <1>6. CASE Tick
    <2>1. /\ now' = now + 1 /\ now \in Nat
          /\ UNCHANGED <<items, circuits, isDirty, file, lastSave>>
      BY <1>6 DEF Tick, TypeOK
    <2>2. /\ LiveItems(file.items) = LiveItems(items)
          /\ LiveCircuits(file.circuits) = LiveCircuits(circuits)
      BY <2>1 DEF CleanMeansSaved
    <2>3. LiveItems(file.items)' = LiveItems(items)'
      BY <2>1, <2>2, LiveItemsLater DEF TypeOK, LiveItems
    <2>4. LiveCircuits(file.circuits)' = LiveCircuits(circuits)'
      BY <2>1, <2>2, LiveCircuitsLater DEF TypeOK, LiveCircuits
    <2> QED BY <2>3, <2>4 DEF Saved
  <1>7. CASE Restart
    <2>1. /\ items' = LiveItems(file.items)
          /\ circuits' = LiveCircuits(file.circuits)
          /\ UNCHANGED <<file, now>>
      BY <1>7 DEF Restart
    <2>2. /\ LiveItems(file.items)' = LiveItems(file.items)
          /\ LiveItems(items)' = LiveItems(LiveItems(file.items))
      BY <2>1 DEF LiveItems
    <2>3. /\ LiveCircuits(file.circuits)' = LiveCircuits(file.circuits)
          /\ LiveCircuits(circuits)' = LiveCircuits(LiveCircuits(file.circuits))
      BY <2>1 DEF LiveCircuits
    <2> QED BY <2>2, <2>3, PruneTwice DEF Saved
  <1>8. CASE UNCHANGED vars
    BY <1>1, <1>8 DEF vars
  <1> QED
    BY <1>3, <1>4, <1>5, <1>6, <1>7, <1>8 DEF Next, RecordResponseOutcome

LEMMA CleanInit == Init => CleanMeansSaved
  BY DEF Init, CleanMeansSaved

\* A store that is not dirty and whose last load or save did not fail holds
\* just what a restart would load.
THEOREM CleanAlwaysSaved == Spec => []CleanMeansSaved
  BY TypeOKInit, TypeOKStep, CleanInit, CleanStep, PTL DEF Spec

-----------------------------------------------------------------------------
(* Marks that returned are on file                                          *)

\* A step that leaves the marks and their file alone and loses neither the
\* flag nor a goroutine that will save keeps every mark accounted for.
LEMMA MarksKept ==
    ASSUME MarksAccountedFor, UNCHANGED <<file, now>>, lastSave' = lastSave,
           DOMAIN items' \subseteq DOMAIN items,
           \A i \in DOMAIN items' : items'[i] = items[i],
           isDirty => isDirty', ~NoMarkInProgress => ~NoMarkInProgress'
    PROVE  MarksAccountedFor'
  <1> SUFFICES ASSUME lastSave' # "failed", NEW i \in DOMAIN LiveItems(items)'
               PROVE  OnFile(i)' \/ (isDirty' /\ ~NoMarkInProgress')
    BY DEF MarksAccountedFor
  <1>1. i \in DOMAIN LiveItems(items) /\ i \in DOMAIN items'
    BY DEF LiveItems, Keep
  <1>2. OnFile(i) => OnFile(i)'
    BY <1>1 DEF OnFile
  <1> QED BY <1>1, <1>2 DEF MarksAccountedFor

LEMMA MarksStep ==
    TypeOK /\ MarksAccountedFor /\ [Next]_vars => MarksAccountedFor'
  <1> SUFFICES ASSUME TypeOK, MarksAccountedFor, [Next]_vars
               PROVE  MarksAccountedFor'
    OBVIOUS
  <1>1. ASSUME NEW its, NEW cs, SaveLocked(its, cs)
        PROVE  MarksAccountedFor'
    <2> SUFFICES ASSUME lastSave' # "failed", NEW i \in DOMAIN LiveItems(items)'
                 PROVE  OnFile(i)'
      BY DEF MarksAccountedFor
    <2>1. i \in DOMAIN items'
      BY DEF LiveItems, Keep
    <2> QED BY <1>1, <2>1, SaveIsSaved DEF OnFile
  <1>2. CASE \E t \in Thread : ThreadStep(t)
    <2> PICK t \in Thread : ThreadStep(t)
      BY <1>2
    <2>1. ASSUME pc[t].at # "save", pc' = [pc EXCEPT ![t] = pc'[t]],
                 ~NoMarkInProgress
          PROVE  ~NoMarkInProgress'
      BY <2>1 DEF NoMarkInProgress, TypeOK
    <2>2. CASE \E i \in Item : IsInvalidRead(t, i)
      <3>1. pc[t].at # "save" /\ pc' = [pc EXCEPT ![t] = pc'[t]]
        BY <2>2 DEF IsInvalidRead, Idle, TypeOK
      <3> QED BY <2>1, <2>2, <3>1, MarksKept DEF IsInvalidRead
    <2>3. CASE IsInvalidDelete(t)
      <3>1. pc[t].at # "save" /\ pc' = [pc EXCEPT ![t] = pc'[t]]
        BY <2>3 DEF IsInvalidDelete, TypeOK
      <3>2. /\ DOMAIN items' \subseteq DOMAIN items
            /\ \A i \in DOMAIN items' : items'[i] = items[i]
        BY <2>3 DEF IsInvalidDelete, Keep
      <3> QED BY <2>1, <2>3, <3>1, <3>2, MarksKept DEF IsInvalidDelete
    <2>4. CASE IsInvalidHit(t)
      <3>1. pc[t].at # "save" /\ pc' = [pc EXCEPT ![t] = pc'[t]]
        BY <2>4 DEF IsInvalidHit, TypeOK
      <3> QED BY <2>1, <2>4, <3>1, MarksKept DEF IsInvalidHit
    <2>5. CASE \E i \in Item, p \in Payload : MarkInvalidSet(t, i, p)
      <3>1. isDirty' /\ pc'[t].at = "save"
        BY <2>5 DEF MarkInvalidSet, TypeOK
      <3> QED BY <3>1 DEF MarksAccountedFor, NoMarkInProgress
    <2>6. CASE MarkInvalidSave(t)
      <3>1. CASE SaveLocked(items, circuits)
        BY <1>1, <3>1
      <3>2. CASE ~isDirty /\ UNCHANGED <<items, circuits, isDirty, file, lastSave>>
        <4>1. now' = now
          BY <2>6 DEF MarkInvalidSave
        <4>2. /\ LiveItems(items)' = LiveItems(items)
              /\ \A i : OnFile(i)' <=> OnFile(i)
          BY <3>2, <4>1 DEF LiveItems, OnFile
        <4> QED BY <3>2, <4>2 DEF MarksAccountedFor
      <3> QED BY <2>6, <3>1, <3>2 DEF MarkInvalidSave
    <2> QED BY <2>2, <2>3, <2>4, <2>5, <2>6 DEF ThreadStep
  <1>3. ASSUME NEW ks \in KeySets, NEW st \in Status, RecordSuccess(ks, st)
        PROVE  MarksAccountedFor'
    <2>1. isDirty => isDirty'
      BY <1>3 DEF RecordSuccess, DirtyAfterSuccess
    <2>2. UNCHANGED <<items, file, pc, now, lastSave>>
      BY <1>3 DEF RecordSuccess
    <2> QED BY <2>1, <2>2, MarksKept DEF NoMarkInProgress
  <1>4. ASSUME NEW ks \in KeySets, NEW st \in Status, NEW in \in Input,
               NEW p \in Payload, RecordFailure(ks, in, st, p)
        PROVE  MarksAccountedFor'
    BY <1>1, <1>4 DEF RecordFailure
  <1>5. CASE Tick
    <2>1. \A i \in DOMAIN LiveItems(items)' : i \in DOMAIN LiveItems(items)
      <3>1. \A i \in DOMAIN items : items[i].expire \in Nat
        BY DEF TypeOK, IsMap, InvalidItem
      <3> QED BY <1>5, <3>1 DEF Tick, LiveItems, Keep, TypeOK
    <2>2. UNCHANGED <<items, file, isDirty, pc, lastSave>>
      BY <1>5 DEF Tick
    <2> QED BY <2>1, <2>2 DEF MarksAccountedFor, OnFile, NoMarkInProgress
  <1>6. CASE Restart
    <2> SUFFICES ASSUME NEW i \in DOMAIN LiveItems(items)'
                 PROVE  OnFile(i)'
      BY DEF MarksAccountedFor
    <2>1. i \in DOMAIN items'
      BY DEF LiveItems, Keep
    <2>2. items' = LiveItems(file.items) /\ file' = file
      BY <1>6, <2>1 DEF Restart, NoEntries
    <2> QED BY <2>1, <2>2 DEF OnFile, LiveItems, Keep
  <1>7. CASE UNCHANGED vars
    BY <1>7, MarksKept DEF vars, NoMarkInProgress
  <1> QED
    BY <1>2, <1>3, <1>4, <1>5, <1>6, <1>7 DEF Next, RecordResponseOutcome

LEMMA MarksInit == Init => MarksAccountedFor
  <1> SUFFICES ASSUME Init PROVE MarksAccountedFor
    OBVIOUS
  <1>1. DOMAIN LiveItems(items) = {}
    BY DEF Init, NoEntries, LiveItems, Keep
  <1> QED BY <1>1 DEF MarksAccountedFor

\* A live mark that is not on file has a goroutine that will save it.
THEOREM MarksAlwaysAccountedFor == Spec => []MarksAccountedFor
  BY TypeOKInit, TypeOKStep, MarksInit, MarksStep, PTL DEF Spec

\* Once every MarkInvalid has returned each live mark is on file, unless the
\* last save failed.
THEOREM MarksAlwaysSaved == Spec => []ReturnedMarksSaved
  <1>1. MarksAccountedFor => ReturnedMarksSaved
    BY DEF MarksAccountedFor, ReturnedMarksSaved
  <1> QED BY <1>1, MarksAlwaysAccountedFor, PTL
=============================================================================
