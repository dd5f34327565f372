----------------------- MODULE ProbeStoreReplayProofs -----------------------
(***************************************************************************)
(* What ProbeStore replays was collected, the theorem that needs the       *)
(* history of the samples, and, in the second half, ProbeStore implements  *)
(* SampleCache: the replies of the pool, those of its file and what a call *)
(* replays take steps of the abstract cache only.                          *)
(***************************************************************************)
EXTENDS ProbeStoreProofs, SequenceTheorems

\* An entry is replayed from a full collection only.
FullCollections(m) ==
    \A h \in DOMAIN m : m[h].activated => Len(m[h].samples) >= MinSamples

\* The replies accepted for hash h since time t.
Since(l, h, t) ==
    {n \in DOMAIN l : l[n].kind = "add" /\ l[n].hash = h /\ t <= l[n].at}

\* The entry e of hash h was made at time t or before, and each of its samples
\* goes back to a reply of its own since the entry was made.
Backed(l, h, e, t) ==
    /\ e.created <= t
    /\ e.expire = e.created + TTL
    /\ Cardinality(Since(l, h, e.created)) >= Len(e.samples)
    /\ \A k \in DOMAIN e.samples :
          \E n \in Since(l, h, e.created) : l[n].reply = e.samples[k].reply

BackedMap(l, m, t) == \A h \in DOMAIN m : Backed(l, h, m[h], t)

\* ReplaysCollectedReplies speaks of the answer given; this, of all answers
\* the pool, or the one a restart would load, could give.
ReplayInv ==
    /\ ReplaysCollectedReplies
    /\ FullCollections(entries) /\ FullCollections(file)
    /\ BackedMap(log, entries, now) /\ BackedMap(log, file, now)

-----------------------------------------------------------------------------
(* The history only grows                                                   *)

LEMMA SinceFinite ==
    ASSUME NEW l \in Seq(Events), NEW h, NEW t
    PROVE  /\ IsFiniteSet(Since(l, h, t))
           /\ Cardinality(Since(l, h, t)) \in Nat
  <1>1. Len(l) \in Nat /\ DOMAIN l = 1..Len(l)
    <2> HIDE DEF Events
    <2> QED OBVIOUS
  <1>2. IsFiniteSet(1..Len(l))
    BY <1>1, FS_Interval
  <1>3. Since(l, h, t) \subseteq 1..Len(l)
    BY <1>1 DEF Since
  <1> QED BY <1>2, <1>3, FS_Subset, FS_CardinalityType

LEMMA LogGrows ==
    ASSUME NEW l \in Seq(Events), NEW ev \in Events
    PROVE  /\ Append(l, ev) \in Seq(Events)
           /\ DOMAIN l \subseteq DOMAIN Append(l, ev)
           /\ \A n \in DOMAIN l : Append(l, ev)[n] = l[n]
           /\ Len(l) + 1 \in DOMAIN Append(l, ev)
           /\ Append(l, ev)[Len(l) + 1] = ev
           /\ Len(l) + 1 \notin DOMAIN l
  <1> HIDE DEF Events
  <1> QED OBVIOUS

\* A set of replies accepted keeps its members.
LEMMA SinceGrows ==
    ASSUME NEW l \in Seq(Events), NEW ev \in Events, NEW h, NEW t
    PROVE  /\ Since(l, h, t) \subseteq Since(Append(l, ev), h, t)
           /\ Cardinality(Since(Append(l, ev), h, t)) >= Cardinality(Since(l, h, t))
  <1>1. Since(l, h, t) \subseteq Since(Append(l, ev), h, t)
    BY LogGrows DEF Since
  <1>2. Append(l, ev) \in Seq(Events)
    BY LogGrows
  <1> QED BY <1>1, <1>2, SinceFinite, FS_Subset

LEMMA BackedGrows ==
    ASSUME NEW l \in Seq(Events), NEW ev \in Events, NEW h, NEW e \in ProbeEntry,
           NEW t, Backed(l, h, e, t)
    PROVE  Backed(Append(l, ev), h, e, t)
  <1> DEFINE own == Since(l, h, e.created)
             more == Since(Append(l, ev), h, e.created)
  <1>1. own \subseteq more /\ Cardinality(more) >= Cardinality(own)
    BY SinceGrows
  <1>2. Cardinality(more) \in Nat /\ Cardinality(own) \in Nat
    BY LogGrows, SinceFinite
  <1>3. Len(e.samples) \in Nat
    BY DEF ProbeEntry
  <1>4. \A n \in own : Append(l, ev)[n] = l[n]
    BY LogGrows DEF Since
  <1>5. Cardinality(more) >= Len(e.samples)
    BY <1>1, <1>2, <1>3 DEF Backed
  <1>6. ASSUME NEW k \in DOMAIN e.samples
        PROVE  \E n \in more : Append(l, ev)[n].reply = e.samples[k].reply
    BY <1>1, <1>4 DEF Backed
  <1> QED BY <1>5, <1>6 DEF Backed

\* The reply added to the history backs the sample added to the entry.
LEMMA AddBacked ==
    ASSUME NEW l \in Seq(Events), NEW h \in Hash, NEW e \in ProbeEntry, NEW r \in Reply,
           now \in Nat, Backed(l, h, e, now), Len(e.samples) <= MinSamples
    PROVE  Backed(Append(l, [kind |-> "add", hash |-> h, reply |-> r, at |-> now]),
                  h, Extended(e, r), now)
  <1> DEFINE ev == [kind |-> "add", hash |-> h, reply |-> r, at |-> now]
             new == Append(l, ev)
             own == Since(l, h, e.created)
             more == Since(new, h, e.created)
             ss == e.samples
             tt == Sampled(ss, r)
  <1>1. ev \in Events
    BY DEF Events
  <1>2. /\ Extended(e, r).samples = tt
        /\ Extended(e, r).created = e.created
        /\ Extended(e, r).expire = e.expire
    BY ExtendedType
  <1>3. ss \in Seq(Sample) /\ e.created \in Nat /\ Len(ss) \in Nat
    BY DEF ProbeEntry
  <1>4. own \subseteq more /\ Cardinality(more) >= Cardinality(own)
    BY <1>1, SinceGrows
  <1>5. \A n \in own : new[n] = l[n]
    BY <1>1, LogGrows DEF Since
  <1>6. /\ Len(l) + 1 \in more
        /\ Len(l) + 1 \notin own
        /\ new[Len(l) + 1].reply = r
    <2>1. /\ Len(l) + 1 \in DOMAIN new
          /\ new[Len(l) + 1] = ev
          /\ Len(l) + 1 \notin DOMAIN l
      BY <1>1, LogGrows
    <2> QED BY <2>1, <1>3 DEF Since, Backed
  <1>7. /\ IsFiniteSet(own) /\ IsFiniteSet(more)
        /\ Cardinality(own) \in Nat /\ Cardinality(more) \in Nat
    <2>1. new \in Seq(Events)
      BY <1>1, LogGrows
    <2> HIDE DEF new
    <2>2. IsFiniteSet(own) /\ Cardinality(own) \in Nat
      BY SinceFinite
    <2>3. IsFiniteSet(more) /\ Cardinality(more) \in Nat
      BY <2>1, SinceFinite
    <2> QED BY <2>2, <2>3
  <1>8. Cardinality(more) >= Cardinality(own) + 1
    <2>1. own \cup {Len(l) + 1} \subseteq more
      BY <1>4, <1>6
    <2>2. /\ IsFiniteSet(own \cup {Len(l) + 1})
          /\ Cardinality(own \cup {Len(l) + 1}) = Cardinality(own) + 1
      BY <1>6, <1>7, FS_AddElement
    <2> HIDE DEF own, more
    <2>3. Cardinality(own \cup {Len(l) + 1}) <= Cardinality(more)
      BY <1>7, <2>1, FS_Subset
    <2> QED BY <1>7, <2>2, <2>3
  <1>9. Cardinality(own) >= Len(ss)
    BY DEF Backed
  <1>10. \A k \in DOMAIN ss : \E n \in own : l[n].reply = ss[k].reply
    BY DEF Backed
  <1>11. Storable(r) \in Sample /\ Storable(r).reply = r
    BY DEF Storable, Sample
  <1>12. e.created <= now /\ e.expire = e.created + TTL
    BY DEF Backed
  <1> HIDE DEF new, own, more, ss, ev
  <1>13. Cardinality(more) >= Len(tt)
    <2>1. Len(tt) \in {Len(ss), Len(ss) + 1}
      <3> HIDE DEF Sample
      <3> QED BY <1>3, <1>11 DEF Sampled
    <2> QED BY <1>3, <1>7, <1>8, <1>9, <2>1
  <1>14. \A k \in DOMAIN tt :
            \/ k \in DOMAIN ss /\ tt[k] = ss[k]
            \/ tt[k] = Storable(r)
    <2> HIDE DEF Sample
    <2> QED BY <1>3, <1>11 DEF Sampled
  <1>15. ASSUME NEW k \in DOMAIN tt
         PROVE  \E n \in more : new[n].reply = tt[k].reply
    <2>1. CASE k \in DOMAIN ss /\ tt[k] = ss[k]
      BY <1>4, <1>5, <1>10, <2>1
    <2>2. CASE tt[k] = Storable(r)
      BY <1>6, <1>11, <2>2
    <2> QED BY <1>14, <2>1, <2>2
  <1>16. Backed(new, h, Extended(e, r), now)
    BY <1>2, <1>12, <1>13, <1>15 DEF Backed, more
  <1> QED BY <1>16 DEF new, ev

-----------------------------------------------------------------------------
(* The pool and its file stay backed                                        *)

LEMMA BackedMapGrows ==
    ASSUME NEW m, IsMap(m), NEW l \in Seq(Events), NEW ev \in Events, NEW t,
           BackedMap(l, m, t)
    PROVE  BackedMap(Append(l, ev), m, t)
  <1> SUFFICES ASSUME NEW h \in DOMAIN m
               PROVE  Backed(Append(l, ev), h, m[h], t)
    BY DEF BackedMap
  <1>1. m[h] \in ProbeEntry /\ Backed(l, h, m[h], t)
    BY DEF IsMap, BackedMap
  <1> QED BY <1>1, BackedGrows

LEMMA LiveBacked ==
    ASSUME NEW m, NEW l, NEW t, BackedMap(l, m, t), FullCollections(m)
    PROVE  BackedMap(l, Live(m), t) /\ FullCollections(Live(m))
  <1>1. \A h \in DOMAIN Live(m) : h \in DOMAIN m /\ Live(m)[h] = m[h]
    BY DEF Live
  <1> QED BY <1>1 DEF BackedMap, FullCollections

\* What a save leaves, while the clock stands.
LEMMA SavedBacked ==
    ASSUME NEW m, SaveLocked(m), now' = now,
           BackedMap(log', m, now'), FullCollections(m),
           BackedMap(log', file, now'), FullCollections(file)
    PROVE  /\ FullCollections(entries') /\ FullCollections(file')
           /\ BackedMap(log', entries', now') /\ BackedMap(log', file', now')
  <1>1. BackedMap(log', Live(m), now') /\ FullCollections(Live(m))
    BY LiveBacked
  <1> QED BY <1>1, SaveLockedMaps

\* A collection is activated when it is full, and stays full.
LEMMA ExtendedFull ==
    ASSUME NEW e \in ProbeEntry, Len(e.samples) <= MinSamples, NEW r \in Reply,
           now \in Nat, e.activated => Len(e.samples) >= MinSamples
    PROVE  Extended(e, r).activated => Len(Extended(e, r).samples) >= MinSamples
  <1>1. Extended(e, r).samples = Sampled(e.samples, r)
    BY ExtendedType
  <1>2. Extended(e, r).activated = (e.activated \/ Enough(Sampled(e.samples, r)))
    BY DEF Extended, ProbeEntry
  <1>3. Len(e.samples) >= MinSamples => Sampled(e.samples, r) = e.samples
    BY Assumptions DEF Sampled, ProbeEntry
  <1> QED BY <1>1, <1>2, <1>3 DEF Enough

LEMMA AddReplayInv ==
    ASSUME TypeOK, ReplayInv, NEW h \in Hash, NEW r \in Reply, AddSample(h, r)
    PROVE  ReplayInv'
  <1> DEFINE ev == [kind |-> "add", hash |-> h, reply |-> r, at |-> now]
             e0 == IF h \in DOMAIN entries THEN entries[h] ELSE NewEntry
  <1>1. ev \in Events /\ log \in Seq(Events) /\ log' = Append(log, ev) /\ now' = now
    BY DEF AddSample, TypeOK, Events
  <1>2. PICK m : /\ Grown(m) /\ SaveLocked(m)
                 /\ DOMAIN m = DOMAIN entries \cup {h}
                 /\ \A g \in DOMAIN entries : g # h => m[g] = entries[g]
                 /\ m[h] = Extended(e0, r)
    BY AddGrown
  <1>3. BackedMap(log', entries, now') /\ BackedMap(log', file, now')
    <2> HIDE DEF ev
    <2> QED BY <1>1, BackedMapGrows DEF TypeOK, ReplayInv
  <1>4. now \in Nat
    BY DEF TypeOK
  <1>5. e0 \in ProbeEntry /\ Len(e0.samples) <= MinSamples
    BY <1>4, NewEntryType, Assumptions DEF TypeOK, IsMap
  <1>6. Backed(log, h, e0, now) /\ (e0.activated => Len(e0.samples) >= MinSamples)
    <2>1. CASE h \in DOMAIN entries
      BY <2>1 DEF ReplayInv, BackedMap, FullCollections
    <2>2. CASE h \notin DOMAIN entries
      <3>1. Cardinality(Since(log, h, now)) >= 0
        BY <1>1, SinceFinite
      <3>2. /\ NewEntry.created = now /\ NewEntry.expire = now + TTL
            /\ NewEntry.samples = <<>> /\ ~NewEntry.activated
        BY DEF NewEntry, Expiry
      <3> QED BY <1>4, <2>2, <3>1, <3>2 DEF Backed
    <2> QED BY <2>1, <2>2
  <1> HIDE DEF e0
  <1>7. Backed(log', h, Extended(e0, r), now')
    BY <1>1, <1>4, <1>5, <1>6, AddBacked
  <1>8. Extended(e0, r).activated => Len(Extended(e0, r).samples) >= MinSamples
    BY <1>4, <1>5, <1>6, ExtendedFull
  <1>9. BackedMap(log', m, now')
    BY <1>2, <1>3, <1>7 DEF BackedMap
  <1>10. FullCollections(m)
    BY <1>2, <1>8 DEF FullCollections, ReplayInv
  <1>11. /\ FullCollections(entries') /\ FullCollections(file')
         /\ BackedMap(log', entries', now') /\ BackedMap(log', file', now')
    BY <1>1, <1>2, <1>3, <1>9, <1>10, SavedBacked DEF ReplayInv
  <1>12. answer'.call # "hit"
    BY DEF AddSample
  <1> QED BY <1>11, <1>12 DEF ReplayInv, ReplaysCollectedReplies

\* Each reply since the entry was made is at most TTL old at a hit.
LEMMA HitCollected ==
    ASSUME TypeOK, ReplayInv, NEW h \in Hash, GetHit(h)
    PROVE  ReplaysCollectedReplies'
  <1> DEFINE e == entries[h]
             own == Since(log, h, e.created)
  <1>1. h \in DOMAIN entries /\ e.activated /\ now <= e.expire /\ log' = log
    BY DEF GetHit, Replayable
  <1>2. PICK k \in DOMAIN e.samples :
           answer' = [call |-> "hit", hash |-> h, at |-> now, reply |-> e.samples[k].reply]
    BY DEF GetHit
  <1>3. e \in ProbeEntry
    BY <1>1 DEF TypeOK, IsMap
  <1>4. Backed(log, h, e, now) /\ Len(e.samples) >= MinSamples
    BY <1>1 DEF ReplayInv, BackedMap, FullCollections
  <1>5. \A n \in DOMAIN log : log[n].kind = "add" => log[n].at \in Nat
    <2>1. \A n \in DOMAIN log : log[n] \in Events
      <3>1. log \in Seq(Events)
        BY DEF TypeOK
      <3> HIDE DEF Events
      <3> QED BY <3>1
    <2> QED BY <2>1 DEF Events
  <1>6. own \subseteq Collected(h, now)
    <2>1. e.created \in Nat /\ now \in Nat /\ TTL \in Nat
      BY <1>3, Assumptions DEF ProbeEntry, TypeOK
    <2>2. now <= e.created + TTL
      BY <1>1, <1>4 DEF Backed
    <2> HIDE DEF e
    <2>3. ASSUME NEW n \in own
          PROVE  n \in Collected(h, now)
      <3>1. n \in DOMAIN log /\ log[n].kind = "add" /\ log[n].hash = h
            /\ e.created <= log[n].at
        BY DEF Since
      <3>2. log[n].at \in Nat
        BY <1>5, <3>1
      <3> QED BY <2>1, <2>2, <3>1, <3>2 DEF Collected
    <2> QED BY <2>3
  <1>7. IsFiniteSet(Collected(h, now)) /\ log \in Seq(Events)
    <2>1. log \in Seq(Events)
      BY DEF TypeOK
    <2>2. Len(log) \in Nat /\ DOMAIN log = 1..Len(log)
      <3> HIDE DEF Events
      <3> QED BY <2>1
    <2>3. IsFiniteSet(1..Len(log)) /\ Collected(h, now) \subseteq 1..Len(log)
      BY <2>2, FS_Interval DEF Collected
    <2> QED BY <2>1, <2>3, FS_Subset
  <1>8. /\ Cardinality(Collected(h, now)) \in Nat /\ Cardinality(own) \in Nat
        /\ Len(e.samples) \in Nat
        /\ Cardinality(Collected(h, now)) >= Cardinality(own)
    BY <1>3, <1>6, <1>7, SinceFinite, FS_CardinalityType, FS_Subset DEF ProbeEntry
  <1>9. Cardinality(Collected(h, now)) >= MinSamples
    <2>1. Cardinality(own) >= Len(e.samples)
      BY <1>4 DEF Backed
    <2> HIDE DEF own, e
    <2> QED BY <1>4, <1>8, <2>1, Assumptions
  <1>10. \E n \in Collected(h, now) : log[n].reply = e.samples[k].reply
    BY <1>4, <1>6 DEF Backed
  <1>11. Collected(h, now)' = {n \in DOMAIN log' : /\ log'[n].kind = "add" /\ log'[n].hash = h
                                                /\ now' <= log'[n].at + TTL}
    BY DEF Collected
  <1>12. Collected(h, now)' = Collected(h, now)
    BY <1>1, <1>11 DEF Collected, GetHit
  <1>13. Collected(answer.hash, answer.at)' = Collected(h, now)
    BY <1>1, <1>2 DEF Collected
  <1> QED BY <1>1, <1>2, <1>9, <1>10, <1>13 DEF ReplaysCollectedReplies

LEMMA ReplayStep == TypeOK /\ ReplayInv /\ [Next]_vars => ReplayInv'
  <1> SUFFICES ASSUME TypeOK, ReplayInv, [Next]_vars PROVE ReplayInv'
    OBVIOUS
  <1>1. ASSUME NEW h \in Hash, NEW r \in Reply, AddSample(h, r)
        PROVE  ReplayInv'
    BY <1>1, AddReplayInv
  <1>2. ASSUME NEW h \in Hash, GetHit(h)
        PROVE  ReplayInv'
    <2> DEFINE m == [entries EXCEPT ![h].hits = @ + 1]
    <2>1. SaveLocked(m) /\ h \in DOMAIN entries /\ log' = log /\ now' = now
      BY <1>2 DEF GetHit, Replayable
    <2>2. /\ DOMAIN m = DOMAIN entries
          /\ \A g \in DOMAIN entries :
                /\ m[g].created = entries[g].created
                /\ m[g].expire = entries[g].expire
                /\ m[g].samples = entries[g].samples
      BY <2>1, HitIsMap DEF TypeOK
    <2>3. \A g \in DOMAIN entries : m[g].activated = entries[g].activated
      BY <2>1 DEF TypeOK, IsMap, ProbeEntry
    <2> HIDE DEF m
    <2>4. BackedMap(log', m, now') /\ FullCollections(m)
      BY <2>1, <2>2, <2>3 DEF ReplayInv, BackedMap, Backed, FullCollections
    <2>5. /\ FullCollections(entries') /\ FullCollections(file')
          /\ BackedMap(log', entries', now') /\ BackedMap(log', file', now')
      BY <2>1, <2>4, SavedBacked DEF ReplayInv
    <2> QED BY <1>2, <2>5, HitCollected DEF ReplayInv
  <1>3. ASSUME NEW h \in Hash, GetExpired(h)
        PROVE  ReplayInv'
    <2>1. /\ \A g \in DOMAIN entries' : g \in DOMAIN entries /\ entries'[g] = entries[g]
          /\ file' = file /\ log' = log /\ now' = now /\ answer'.call # "hit"
      BY <1>3 DEF GetExpired, Without
    <2>2. BackedMap(log', entries', now') /\ FullCollections(entries')
      BY <2>1 DEF ReplayInv, BackedMap, FullCollections
    <2> QED BY <2>1, <2>2 DEF ReplayInv, ReplaysCollectedReplies
  <1>4. ASSUME NEW h \in Hash, AddRefused(h)
        PROVE  ReplayInv'
    BY <1>4 DEF AddRefused, ReplayInv, ReplaysCollectedReplies
  <1>5. CASE Tick
    <2>1. /\ UNCHANGED <<entries, file, log, answer>> /\ now' = now + 1 /\ now \in Nat
      BY <1>5 DEF Tick, TypeOK
    <2>2. ASSUME NEW m, IsMap(m), BackedMap(log, m, now)
          PROVE  BackedMap(log, m, now + 1)
      <3>1. \A h \in DOMAIN m : m[h].created \in Nat
        BY <2>2 DEF IsMap, ProbeEntry
      <3> QED BY <2>1, <2>2, <3>1 DEF BackedMap, Backed
    <2>3. BackedMap(log', entries', now') /\ BackedMap(log', file', now')
      BY <2>1, <2>2 DEF ReplayInv, TypeOK
    <2>4. ReplaysCollectedReplies'
      BY <2>1 DEF ReplayInv, ReplaysCollectedReplies, Collected
    <2> QED BY <2>1, <2>3, <2>4 DEF ReplayInv, FullCollections
  <1>6. CASE Restart
    <2> DEFINE ev == [kind |-> "restart"]
    <2>1. ev \in Events /\ log' = Append(log, ev) /\ log \in Seq(Events)
          /\ file' = file /\ now' = now /\ answer'.call # "hit"
      BY <1>6 DEF Restart, Events, TypeOK
    <2>2. BackedMap(log', file, now')
      <3> HIDE DEF ev
      <3> QED BY <2>1, BackedMapGrows DEF TypeOK, ReplayInv
    <2>3. BackedMap(log', Live(file), now') /\ FullCollections(Live(file))
      BY <2>2, LiveBacked DEF ReplayInv
    <2>4. BackedMap(log', NoEntries, now') /\ FullCollections(NoEntries)
      BY DEF NoEntries, BackedMap, FullCollections
    <2>5. entries' = Live(file) \/ entries' = NoEntries
      BY <1>6 DEF Restart
    <2>6. BackedMap(log', entries', now') /\ FullCollections(entries')
      BY <2>3, <2>4, <2>5
    <2> HIDE DEF ev
    <2> QED
      BY <2>1, <2>2, <2>6 DEF ReplayInv, ReplaysCollectedReplies
  <1>7. CASE UNCHANGED vars
    <2>1. UNCHANGED <<entries, file, log, answer, now>>
      BY <1>7 DEF vars
    <2>2. ReplaysCollectedReplies'
      BY <2>1 DEF ReplayInv, ReplaysCollectedReplies, Collected
    <2> QED BY <2>1, <2>2 DEF ReplayInv
  <1> QED
    BY <1>1, <1>2, <1>3, <1>4, <1>5, <1>6, <1>7 DEF Next

LEMMA ReplayInit == Init => ReplayInv
  BY DEF Init, NoEntries, ReplayInv, BackedMap, FullCollections, ReplaysCollectedReplies

\* A reply is replayed only to the input it was collected for, no later than
\* TTL after, and only once MinSamples replies to that input were collected
\* in that time.
THEOREM AlwaysReplaysCollectedReplies == Spec => []ReplaysCollectedReplies
  <1>1. ReplayInv => ReplaysCollectedReplies
    BY DEF ReplayInv
  <1> QED BY <1>1, TypeOKInit, TypeOKStep, ReplayInit, ReplayStep, PTL DEF Spec

-----------------------------------------------------------------------------
(* A warm entry answers                                                     *)

\* Each entry expires TTL after a reply to its input was accepted.
Stamped(l, m) == \A h \in DOMAIN m : \E n \in AddsOf(l, h, 0) : m[h].expire = l[n].at + TTL

\* A full collection is replayed.
FullReplayed(m) ==
    \A h \in DOMAIN m : Len(m[h].samples) >= MinSamples => m[h].activated

\* The pool m has an entry for the replies accepted for h after o, which is
\* replayed or holds at least as many samples.
Holds(l, h, o, m) ==
    AddsOf(l, h, o) # {} =>
        /\ h \in DOMAIN m
        /\ m[h].activated \/ Len(m[h].samples) >= Cardinality(AddsOf(l, h, o))

\* What makes WarmEntryAnswers inductive: it counts replies before there are
\* enough of them, and says of the file what a restart makes it the pool for.
WarmInv ==
    /\ Stamped(log, entries) /\ Stamped(log, file)
    /\ FullReplayed(entries) /\ FullReplayed(file)
    /\ \A h \in Hash : \A o \in OfProcess(log) :
          AllYoung(log, h, now) => Holds(log, h, o, entries)

LEMMA AddsFinite ==
    ASSUME NEW l \in Seq(Events), NEW h, NEW o
    PROVE  /\ IsFiniteSet(AddsOf(l, h, o))
           /\ Cardinality(AddsOf(l, h, o)) \in Nat
           /\ Cardinality(AddsOf(l, h, o)) >= 1 => AddsOf(l, h, o) # {}
  <1>1. Len(l) \in Nat /\ DOMAIN l = 1..Len(l)
    <2> HIDE DEF Events
    <2> QED OBVIOUS
  <1>2. IsFiniteSet(1..Len(l)) /\ AddsOf(l, h, o) \subseteq 1..Len(l)
    BY <1>1, FS_Interval DEF AddsOf
  <1> QED BY <1>2, FS_Subset, FS_CardinalityType, FS_EmptySet

LEMMA AddsAppend ==
    ASSUME NEW l \in Seq(Events), NEW ev \in Events, NEW h, NEW o \in Nat
    PROVE  /\ \A n \in AddsOf(l, h, o) : n \in DOMAIN l /\ Append(l, ev)[n] = l[n]
           /\ ev.kind = "add" /\ ev.hash = h /\ o < Len(l) + 1 =>
                 AddsOf(Append(l, ev), h, o) = AddsOf(l, h, o) \cup {Len(l) + 1}
           /\ ~(ev.kind = "add" /\ ev.hash = h) =>
                 AddsOf(Append(l, ev), h, o) = AddsOf(l, h, o)
           /\ AddsOf(Append(l, ev), h, Len(l) + 1) = {}
           /\ AddsOf(l, h, o) \subseteq AddsOf(l, h, 0)
           /\ \A n \in AddsOf(l, h, o) : n \in AddsOf(Append(l, ev), h, o)
  <1>1. /\ Append(l, ev) \in Seq(Events)
        /\ Len(l) \in Nat /\ DOMAIN l = 1..Len(l)
        /\ DOMAIN Append(l, ev) = 1..(Len(l) + 1)
        /\ \A n \in 1..Len(l) : Append(l, ev)[n] = l[n]
        /\ Append(l, ev)[Len(l) + 1] = ev
    <2> HIDE DEF Events
    <2> QED OBVIOUS
  <1> DEFINE m == Append(l, ev)
  <1>2. DOMAIN m = DOMAIN l \cup {Len(l) + 1} /\ Len(l) + 1 \notin DOMAIN l
    BY <1>1
  <1>3. /\ \A n \in DOMAIN l : n \in Nat /\ n < Len(l) + 1 /\ m[n] = l[n]
        /\ m[Len(l) + 1] = ev
    BY <1>1
  <1> HIDE DEF m
  <1>4. AddsOf(m, h, Len(l) + 1) = {}
    BY <1>1, <1>2, <1>3 DEF AddsOf
  <1>5. AddsOf(l, h, o) \subseteq AddsOf(l, h, 0)
    BY <1>3 DEF AddsOf
  <1>6. \A n \in AddsOf(l, h, o) : n \in AddsOf(m, h, o)
    BY <1>2, <1>3 DEF AddsOf
  <1>7. ev.kind = "add" /\ ev.hash = h /\ o < Len(l) + 1 =>
           AddsOf(m, h, o) = AddsOf(l, h, o) \cup {Len(l) + 1}
    BY <1>2, <1>3 DEF AddsOf
  <1>8. ~(ev.kind = "add" /\ ev.hash = h) => AddsOf(m, h, o) = AddsOf(l, h, o)
    BY <1>2, <1>3 DEF AddsOf
  <1>9. \A n \in AddsOf(l, h, o) : n \in DOMAIN l /\ m[n] = l[n]
    BY <1>3 DEF AddsOf
  <1> QED BY <1>4, <1>5, <1>6, <1>7, <1>8, <1>9 DEF m

LEMMA OfProcessAppend ==
    ASSUME NEW l \in Seq(Events), NEW ev \in Events, NEW o \in OfProcess(Append(l, ev))
    PROVE  \/ o = Len(l) + 1
           \/ ev.kind # "restart" /\ o \in OfProcess(l) /\ o \in Nat /\ o < Len(l) + 1
  <1>1. /\ Len(l) \in Nat /\ DOMAIN l = 1..Len(l)
        /\ DOMAIN Append(l, ev) = 1..(Len(l) + 1)
        /\ \A n \in 1..Len(l) : Append(l, ev)[n] = l[n]
        /\ Append(l, ev)[Len(l) + 1] = ev
    <2> HIDE DEF Events
    <2> QED OBVIOUS
  <1>2. o \in 0..(Len(l) + 1)
    BY <1>1 DEF OfProcess
  <1>3. \A n \in 1..(Len(l) + 1) : Append(l, ev)[n].kind = "restart" => n <= o
    BY <1>1 DEF OfProcess
  <1>4. CASE o # Len(l) + 1
    <2>1. o \in 0..Len(l)
      BY <1>1, <1>2, <1>4
    <2>2. ev.kind # "restart"
      BY <1>1, <1>3, <2>1
    <2>3. \A n \in DOMAIN l : l[n].kind = "restart" => n <= o
      BY <1>1, <1>3
    <2> QED BY <1>1, <2>1, <2>2, <2>3 DEF OfProcess
  <1> QED BY <1>4

LEMMA StampedGrows ==
    ASSUME NEW l \in Seq(Events), NEW ev \in Events, NEW m, Stamped(l, m)
    PROVE  Stamped(Append(l, ev), m)
  BY AddsAppend DEF Stamped

LEMMA LiveWarm ==
    ASSUME NEW m, NEW l, Stamped(l, m), FullReplayed(m)
    PROVE  /\ Stamped(l, Live(m)) /\ FullReplayed(Live(m))
           /\ \A h \in DOMAIN m : AllYoung(l, h, now) => h \in DOMAIN Live(m) /\ Live(m)[h] = m[h]
  <1>1. \A h \in DOMAIN Live(m) : h \in DOMAIN m /\ Live(m)[h] = m[h]
    BY DEF Live
  <1>2. ASSUME NEW h \in DOMAIN m, AllYoung(l, h, now)
        PROVE  h \in DOMAIN Live(m) /\ Live(m)[h] = m[h]
    <2>1. now < m[h].expire
      BY <1>2 DEF Stamped, AllYoung
    <2> QED BY <2>1 DEF Live
  <1> QED BY <1>1, <1>2 DEF Stamped, FullReplayed

\* What a save leaves, while the clock stands.
LEMMA SavedWarm ==
    ASSUME NEW m, SaveLocked(m), now' = now,
           Stamped(log', m), FullReplayed(m), Stamped(log', file), FullReplayed(file),
           NEW h, NEW o, h \in Hash /\ AllYoung(log', h, now') => Holds(log', h, o, m)
    PROVE  /\ Stamped(log', entries') /\ Stamped(log', file')
           /\ FullReplayed(entries') /\ FullReplayed(file')
           /\ h \in Hash /\ AllYoung(log', h, now') => Holds(log', h, o, entries')
  <1>1. /\ Stamped(log', Live(m)) /\ FullReplayed(Live(m))
        /\ \A g \in DOMAIN m :
              AllYoung(log', g, now) => g \in DOMAIN Live(m) /\ Live(m)[g] = m[g]
    BY LiveWarm
  <1>2. AllYoung(log', h, now') <=> AllYoung(log', h, now)
    BY DEF AllYoung
  <1> QED BY <1>1, <1>2, SaveLockedMaps DEF Holds

LEMMA AddWarm ==
    ASSUME TypeOK, WarmInv, NEW g \in Hash, NEW r \in Reply, AddSample(g, r),
           NEW h, NEW o \in OfProcess(log')
    PROVE  /\ Stamped(log', entries') /\ Stamped(log', file')
           /\ FullReplayed(entries') /\ FullReplayed(file')
           /\ h \in Hash /\ AllYoung(log', h, now') => Holds(log', h, o, entries')
  <1> DEFINE ev == [kind |-> "add", hash |-> g, reply |-> r, at |-> now]
             e0 == IF g \in DOMAIN entries THEN entries[g] ELSE NewEntry
             end == Len(log) + 1
  <1>1. /\ ev \in Events /\ log \in Seq(Events) /\ log' = Append(log, ev) /\ now' = now
        /\ ev.kind = "add" /\ ev.hash = g /\ ev.at = now /\ now \in Nat
    BY DEF AddSample, TypeOK, Events
  <1>2. PICK m : /\ Grown(m) /\ SaveLocked(m)
                 /\ DOMAIN m = DOMAIN entries \cup {g}
                 /\ \A x \in DOMAIN entries : x # g => m[x] = entries[x]
                 /\ m[g] = Extended(e0, r)
    BY AddGrown
  <1>3. e0 \in ProbeEntry /\ Len(e0.samples) <= MinSamples
    BY <1>1, NewEntryType, Assumptions DEF TypeOK, IsMap
  <1>4. /\ g \in DOMAIN entries => e0 = entries[g]
        /\ g \notin DOMAIN entries => /\ e0.expire = now + TTL
                                      /\ ~e0.activated /\ Len(e0.samples) = 0
    BY <1>1, NewEntryType DEF NewEntry, Expiry
  <1>5. Len(log) \in Nat
    <2> HIDE DEF Events
    <2> QED BY <1>1
  <1>6. end \in AddsOf(log', g, 0) /\ log'[end] = ev
    <2> HIDE DEF ev
    <2>1. AddsOf(log', g, 0) = AddsOf(log, g, 0) \cup {end}
      BY <1>1, <1>5, AddsAppend
    <2> QED BY <1>1, <2>1, LogGrows
  <1> HIDE DEF ev, e0
  <1>7. /\ Extended(e0, r).samples = Sampled(e0.samples, r)
        /\ Extended(e0, r).expire = e0.expire
        /\ Extended(e0, r).activated = (e0.activated \/ Enough(Sampled(e0.samples, r)))
    <2>1. Extended(e0, r).activated = (e0.activated \/ Enough(Sampled(e0.samples, r)))
      BY <1>3 DEF Extended, ProbeEntry
    <2> QED BY <1>1, <1>3, <2>1, ExtendedType
  <1>8. /\ Len(e0.samples) \in Nat
        /\ Len(e0.samples) < MinSamples => Len(Sampled(e0.samples, r)) = Len(e0.samples) + 1
        /\ Len(e0.samples) >= MinSamples => Sampled(e0.samples, r) = e0.samples
    <2>1. e0.samples \in Seq(Sample)
      BY <1>3 DEF ProbeEntry
    <2>2. Storable(r) \in Sample
      BY <1>1 DEF Storable, Sample
    <2> HIDE DEF Sample
    <2> QED BY <2>1, <2>2, Assumptions DEF Sampled
  <1>9. Stamped(log', entries) /\ Stamped(log', file)
    BY <1>1, StampedGrows DEF WarmInv
  <1>10. Stamped(log', m)
    <2>1. \E n \in AddsOf(log', g, 0) : m[g].expire = log'[n].at + TTL
      <3>1. CASE g \in DOMAIN entries
        BY <1>2, <1>4, <1>7, <1>9, <3>1 DEF Stamped
      <3>2. CASE g \notin DOMAIN entries
        BY <1>1, <1>2, <1>4, <1>6, <1>7, <3>2
      <3> QED BY <3>1, <3>2
    <2> QED BY <1>2, <1>9, <2>1 DEF Stamped
  <1>11. FullReplayed(m)
    <2>1. Len(m[g].samples) >= MinSamples => m[g].activated
      BY <1>2, <1>7 DEF Enough
    <2> QED BY <1>2, <2>1 DEF FullReplayed, WarmInv
  <1>12. ASSUME h \in Hash, AllYoung(log', h, now')
         PROVE  Holds(log', h, o, m)
    <2>1. CASE o = end
      <3>1. AddsOf(log', h, o) = {}
        BY <1>1, <1>5, <2>1, AddsAppend
      <3> QED BY <3>1 DEF Holds
    <2>2. CASE o # end
      <3>1. o \in OfProcess(log) /\ o \in Nat /\ o < end
        BY <1>1, <2>2, OfProcessAppend
      <3>2. /\ \A n \in AddsOf(log, h, 0) : n \in AddsOf(log', h, 0) /\ log'[n] = log[n]
            /\ h # g => AddsOf(log', h, o) = AddsOf(log, h, o)
            /\ h = g => AddsOf(log', h, o) = AddsOf(log, h, o) \cup {end}
            /\ AddsOf(log, h, o) \subseteq DOMAIN log
        BY <1>1, <3>1, AddsAppend
      <3>3. AllYoung(log, h, now)
        BY <1>1, <1>12, <3>2 DEF AllYoung
      <3>4. Holds(log, h, o, entries)
        BY <1>12, <3>1, <3>3 DEF WarmInv
      <3>5. CASE h # g
        BY <1>2, <3>2, <3>4, <3>5 DEF Holds
      <3>6. CASE h = g
        <4> DEFINE old == AddsOf(log, h, o)
        <4>1. /\ IsFiniteSet(old) /\ Cardinality(old) \in Nat
              /\ end \notin old
          <5>1. end \notin DOMAIN log
            BY <1>1, LogGrows
          <5> QED BY <1>1, <3>2, <5>1, AddsFinite
        <4>2. Cardinality(AddsOf(log', h, o)) = Cardinality(old) + 1
          BY <3>2, <3>6, <4>1, FS_AddElement
        <4>3. h \in DOMAIN m
          BY <1>2, <3>6
        <4>4. m[h].activated \/ Len(m[h].samples) >= Cardinality(old) + 1
          <5>1. e0.activated \/ Len(e0.samples) >= Cardinality(old)
            <6>1. CASE old = {}
              BY <1>8, <6>1, FS_EmptySet
            <6>2. CASE old # {}
              BY <1>4, <3>4, <3>6, <6>2 DEF Holds
            <6> QED BY <6>1, <6>2
          <5> HIDE DEF old, end
          <5>2. CASE Len(e0.samples) < MinSamples
            <6>1. m[h].samples = Sampled(e0.samples, r) /\ (e0.activated => m[h].activated)
              BY <1>2, <1>7, <3>6
            <6>2. Len(e0.samples) >= Cardinality(old)
                  => Len(Sampled(e0.samples, r)) >= Cardinality(old) + 1
              BY <1>8, <4>1, <5>2
            <6> QED BY <5>1, <6>1, <6>2
          <5>3. CASE Len(e0.samples) >= MinSamples
            BY <1>2, <1>7, <1>8, <3>6, <5>3 DEF Enough
          <5> QED BY <1>8, <5>2, <5>3, Assumptions
        <4> QED BY <4>2, <4>3, <4>4 DEF Holds
      <3> QED BY <3>5, <3>6
    <2> QED BY <2>1, <2>2
  <1> QED BY <1>1, <1>2, <1>9, <1>10, <1>11, <1>12, SavedWarm DEF WarmInv

\* A step that leaves the history alone, and no entry of a young hash behind.
LEMMA QuietWarm ==
    ASSUME WarmInv, log' = log, now \in Nat, now' \in Nat, now <= now',
           TTL \in Nat, log \in Seq(Events),
           NEW h, NEW o \in OfProcess(log'),
           AllYoung(log, h, now) /\ h \in DOMAIN entries =>
              /\ h \in DOMAIN entries'
              /\ entries'[h].activated = entries[h].activated
              /\ entries'[h].samples = entries[h].samples
    PROVE  h \in Hash /\ AllYoung(log', h, now') => Holds(log', h, o, entries')
  <1> SUFFICES ASSUME h \in Hash, AllYoung(log', h, now')
               PROVE  Holds(log', h, o, entries')
    OBVIOUS
  <1>1. ASSUME NEW n \in AddsOf(log, h, 0)
        PROVE  log[n].at \in Nat
    <2>1. log[n] \in Events
      <3>1. n \in DOMAIN log
        BY DEF AddsOf
      <3> HIDE DEF Events
      <3> QED BY <3>1
    <2> QED BY <2>1 DEF Events, AddsOf
  <1>2. AllYoung(log, h, now)
    BY <1>1 DEF AllYoung
  <1>3. Holds(log, h, o, entries)
    BY <1>2 DEF WarmInv
  <1> QED BY <1>2, <1>3 DEF Holds

LEMMA WarmStep == TypeOK /\ WarmInv /\ [Next]_vars => WarmInv'
  <1> SUFFICES ASSUME TypeOK, WarmInv, [Next]_vars PROVE WarmInv'
    OBVIOUS
  <1> SUFFICES ASSUME NEW h, NEW o \in OfProcess(log')
               PROVE  /\ Stamped(log', entries') /\ Stamped(log', file')
                      /\ FullReplayed(entries') /\ FullReplayed(file')
                      /\ h \in Hash /\ AllYoung(log', h, now') => Holds(log', h, o, entries')
    <2>1. log' \in Seq(Events)
      BY TypeOKStep DEF TypeOK
    <2>2. Len(log') \in Nat /\ DOMAIN log' = 1..Len(log')
      <3> HIDE DEF Events
      <3> QED BY <2>1
    <2>3. Len(log') \in OfProcess(log')
      BY <2>2 DEF OfProcess
    <2> QED BY <2>3 DEF WarmInv
  <1>0. now \in Nat /\ TTL \in Nat /\ log \in Seq(Events)
    BY Assumptions DEF TypeOK
  <1>1. CASE \E g \in Hash, r \in Reply : AddSample(g, r)
    BY <1>1, AddWarm
  <1>2. ASSUME NEW g \in Hash, GetHit(g)
        PROVE  /\ Stamped(log', entries') /\ Stamped(log', file')
               /\ FullReplayed(entries') /\ FullReplayed(file')
               /\ h \in Hash /\ AllYoung(log', h, now') => Holds(log', h, o, entries')
    <2> DEFINE m == [entries EXCEPT ![g].hits = @ + 1]
    <2>1. SaveLocked(m) /\ g \in DOMAIN entries /\ log' = log /\ now' = now
      BY <1>2 DEF GetHit, Replayable
    <2>2. /\ DOMAIN m = DOMAIN entries
          /\ \A x \in DOMAIN entries : /\ m[x].expire = entries[x].expire
                                       /\ m[x].samples = entries[x].samples
      BY <2>1, HitIsMap DEF TypeOK
    <2>3. \A x \in DOMAIN entries : m[x].activated = entries[x].activated
      BY <2>1 DEF TypeOK, IsMap, ProbeEntry
    <2> HIDE DEF m
    <2>4. Stamped(log', m) /\ FullReplayed(m)
      BY <2>1, <2>2, <2>3 DEF WarmInv, Stamped, FullReplayed
    <2>5. h \in Hash /\ AllYoung(log', h, now') => Holds(log', h, o, m)
      BY <2>1, <2>2, <2>3 DEF WarmInv, Holds
    <2> QED BY <2>1, <2>4, <2>5, SavedWarm DEF WarmInv
  <1>3. ASSUME NEW g \in Hash, GetExpired(g)
        PROVE  /\ Stamped(log', entries') /\ Stamped(log', file')
               /\ FullReplayed(entries') /\ FullReplayed(file')
               /\ h \in Hash /\ AllYoung(log', h, now') => Holds(log', h, o, entries')
    <2>1. /\ \A x \in DOMAIN entries' : x \in DOMAIN entries /\ entries'[x] = entries[x]
          /\ DOMAIN entries' = DOMAIN entries \ {g}
          /\ file' = file /\ log' = log /\ now' = now
          /\ g \in DOMAIN entries /\ now > entries[g].expire
      BY <1>3 DEF GetExpired, Without, Replayable
    <2>2. ASSUME AllYoung(log, h, now)
          PROVE  h # g
      <3>1. CASE h = g
        <4>1. now < entries[g].expire
          BY <2>1, <2>2, <3>1 DEF WarmInv, Stamped, AllYoung
        <4>2. entries[g].expire \in Nat
          BY <2>1 DEF TypeOK, IsMap, ProbeEntry
        <4> QED BY <1>0, <2>1, <4>1, <4>2
      <3> QED BY <3>1
    <2>3. h \in Hash /\ AllYoung(log', h, now') => Holds(log', h, o, entries')
      BY <1>0, <2>1, <2>2, QuietWarm
    <2> QED BY <2>1, <2>3 DEF WarmInv, Stamped, FullReplayed
  <1>4. CASE \E g \in Hash : AddRefused(g)
    <2>1. /\ UNCHANGED <<entries, file, log, now>>
          /\ o \in OfProcess(log)
      BY <1>4 DEF AddRefused
    <2> QED BY <2>1 DEF WarmInv
  <1>5. CASE Tick
    <2>1. UNCHANGED <<entries, file, log>> /\ now' = now + 1
      BY <1>5 DEF Tick
    <2>2. h \in Hash /\ AllYoung(log', h, now') => Holds(log', h, o, entries')
      BY <1>0, <2>1, QuietWarm
    <2> QED BY <2>1, <2>2 DEF WarmInv
  <1>6. CASE Restart
    <2> DEFINE ev == [kind |-> "restart"]
    <2>1. ev \in Events /\ ev.kind = "restart" /\ log' = Append(log, ev) /\ file' = file
      BY <1>6 DEF Restart, Events
    <2>2. Len(log) + 1 \in Nat /\ o = Len(log) + 1
      <3>1. Len(log) \in Nat
        <4> HIDE DEF Events
        <4> QED BY <1>0
      <3> HIDE DEF ev
      <3> QED BY <1>0, <2>1, <3>1, OfProcessAppend
    <2> HIDE DEF ev
    <2>3. AddsOf(log', h, o) = {}
      BY <1>0, <2>1, <2>2, AddsAppend
    <2>4. Stamped(log', file) /\ FullReplayed(file)
      BY <1>0, <2>1, StampedGrows DEF WarmInv
    <2>5. Stamped(log', Live(file)) /\ FullReplayed(Live(file))
      BY <2>4, LiveWarm
    <2>6. Stamped(log', NoEntries) /\ FullReplayed(NoEntries)
      BY DEF NoEntries, Stamped, FullReplayed
    <2>7. entries' = Live(file) \/ entries' = NoEntries
      BY <1>6 DEF Restart
    <2>8. Stamped(log', entries') /\ FullReplayed(entries')
      BY <2>5, <2>6, <2>7
    <2> QED BY <2>1, <2>3, <2>4, <2>8 DEF Holds
  <1>7. CASE UNCHANGED vars
    <2>1. /\ UNCHANGED <<entries, file, log, now>>
          /\ o \in OfProcess(log)
      BY <1>7 DEF vars
    <2> QED BY <2>1 DEF WarmInv
  <1> QED
    BY <1>1, <1>2, <1>3, <1>4, <1>5, <1>6, <1>7 DEF Next

LEMMA WarmInit == Init => WarmInv
  <1> SUFFICES ASSUME Init PROVE WarmInv
    OBVIOUS
  <1>1. \A h, o : AddsOf(log, h, o) = {}
    BY DEF Init, AddsOf
  <1> QED BY <1>1 DEF Init, NoEntries, WarmInv, Stamped, FullReplayed, Holds

\* What was accepted often enough, and is not old, is answered by the pool.
THEOREM WarmEntriesAlwaysAnswer == Spec => []WarmEntryAnswers
  <1>1. TypeOK /\ WarmInv => WarmEntryAnswers
    <2> SUFFICES ASSUME TypeOK, WarmInv, NEW h \in Hash, NEW o \in OfProcess(log),
                        Cardinality(AddsOf(log, h, o)) >= MinSamples, AllYoung(log, h, now)
                 PROVE  Replayable(h) /\ now <= entries[h].expire
      BY DEF WarmEntryAnswers
    <2>1. log \in Seq(Events) /\ now \in Nat
      BY DEF TypeOK
    <2>2. Cardinality(AddsOf(log, h, o)) \in Nat /\ AddsOf(log, h, o) # {}
      BY <2>1, AddsFinite, Assumptions
    <2>3. /\ h \in DOMAIN entries
          /\ entries[h].activated \/ Len(entries[h].samples) >= Cardinality(AddsOf(log, h, o))
      BY <2>2 DEF WarmInv, Holds
    <2>4. entries[h] \in ProbeEntry
      BY <2>3 DEF TypeOK, IsMap
    <2>5. entries[h].activated
      <3>1. Len(entries[h].samples) \in Nat
        BY <2>4 DEF ProbeEntry
      <3>2. Len(entries[h].samples) >= MinSamples => entries[h].activated
        BY <2>3 DEF WarmInv, FullReplayed
      <3> QED BY <2>2, <2>3, <3>1, <3>2, Assumptions
    <2>6. now < entries[h].expire
      BY <2>3 DEF WarmInv, Stamped, AllYoung
    <2>7. entries[h].expire \in Nat
      BY <2>4 DEF ProbeEntry
    <2> QED BY <2>1, <2>3, <2>5, <2>6, <2>7 DEF Replayable
  <1> QED BY <1>1, TypeOKInit, TypeOKStep, WarmInit, WarmStep, PTL DEF Spec

-----------------------------------------------------------------------------
(* ProbeStore implements SampleCache                                        *)

\* What the refinement needs to know of the reachable states.
CacheInv == TypeOK /\ PoolInv /\ ReplayInv

-----------------------------------------------------------------------------
(* The replies of a pool                                                    *)

LEMMA RepliesOfType ==
    ASSUME NEW ss \in Seq(Sample)
    PROVE  /\ RepliesOf(ss) \in Seq(Reply)
           /\ Len(RepliesOf(ss)) = Len(ss)
           /\ DOMAIN RepliesOf(ss) = DOMAIN ss
           /\ \A n \in DOMAIN ss : RepliesOf(ss)[n] = ss[n].reply
  <1>1. Len(ss) \in Nat /\ DOMAIN ss = 1..Len(ss)
    <2> HIDE DEF Sample
    <2> QED BY LenProperties
  <1>2. \A n \in DOMAIN ss : ss[n].reply \in Reply
    <2>1. \A n \in 1..Len(ss) : ss[n] \in Sample
      <3> HIDE DEF Sample
      <3> QED BY ElementOfSeq
    <2> QED BY <1>1, <2>1 DEF Sample
  <1>3. RepliesOf(ss) \in [1..Len(ss) -> Reply]
    BY <1>1, <1>2 DEF RepliesOf
  <1>4. RepliesOf(ss) \in Seq(Reply)
    BY <1>1, <1>3, SeqDef
  <1>5. Len(RepliesOf(ss)) = Len(ss)
    BY <1>1, <1>3, <1>4, LenProperties
  <1> QED BY <1>1, <1>4, <1>5 DEF RepliesOf

LEMMA RepliesOfAppend ==
    ASSUME NEW ss \in Seq(Sample), NEW s \in Sample
    PROVE  RepliesOf(Append(ss, s)) = Append(RepliesOf(ss), s.reply)
  <1> DEFINE t == Append(ss, s)
             u == Append(RepliesOf(ss), s.reply)
  <1>1. s.reply \in Reply
    BY DEF Sample
  <1>2. /\ t \in Seq(Sample)
        /\ Len(t) = Len(ss) + 1
        /\ \A n \in 1..Len(ss) : t[n] = ss[n]
        /\ t[Len(ss) + 1] = s
        /\ Len(ss) \in Nat /\ DOMAIN ss = 1..Len(ss)
        /\ DOMAIN t = 1..Len(t)
    <2> HIDE DEF Sample
    <2> QED BY AppendProperties, LenProperties
  <1>3. /\ RepliesOf(ss) \in Seq(Reply) /\ Len(RepliesOf(ss)) = Len(ss)
        /\ \A n \in DOMAIN ss : RepliesOf(ss)[n] = ss[n].reply
    BY RepliesOfType
  <1>4. /\ u \in Seq(Reply) /\ Len(u) = Len(ss) + 1
        /\ \A n \in 1..Len(ss) : u[n] = RepliesOf(ss)[n]
        /\ u[Len(ss) + 1] = s.reply
    BY <1>1, <1>3, AppendProperties
  <1> HIDE DEF t, u
  <1>5. /\ RepliesOf(t) \in Seq(Reply) /\ Len(RepliesOf(t)) = Len(t)
        /\ \A n \in DOMAIN t : RepliesOf(t)[n] = t[n].reply
    BY <1>2, RepliesOfType
  <1>6. \A n \in 1..Len(t) : n \in 1..Len(ss) \/ n = Len(ss) + 1
    BY <1>2
  <1>7. \A n \in 1..Len(t) : RepliesOf(t)[n] = u[n]
    BY <1>2, <1>3, <1>4, <1>5, <1>6
  <1>8. RepliesOf(t) = u
    BY <1>2, <1>4, <1>5, <1>7, SeqEqual
  <1> QED BY <1>8 DEF t, u

\* A pool that lost some entries has forgotten their replies.
LEMMA SubmapForgets ==
    ASSUME NEW m, NEW n, DOMAIN n \subseteq DOMAIN m,
           \A h \in DOMAIN n : n[h].samples = m[h].samples
    PROVE  Cache!Forgets(Replies(m), Replies(n))
  <1> DEFINE S == {h \in Hash : h \in DOMAIN n}
  <1>1. Replies(n) = [h \in Hash |-> IF h \in S THEN Replies(m)[h] ELSE <<>>]
    BY DEF Replies
  <1>2. S \in SUBSET Hash
    OBVIOUS
  <1> HIDE DEF S
  <1> QED BY <1>1, <1>2 DEF Cache!Forgets

LEMMA LiveForgets ==
    ASSUME NEW m PROVE Cache!Forgets(Replies(m), Replies(Live(m)))
  <1>1. /\ DOMAIN Live(m) \subseteq DOMAIN m
        /\ \A h \in DOMAIN Live(m) : Live(m)[h].samples = m[h].samples
    BY DEF Live
  <1> QED BY <1>1, SubmapForgets

\* A save leaves a snapshot of the pool, or the one before.
LEMMA SavedSnapshot ==
    ASSUME NEW m, SaveLocked(m)
    PROVE  /\ Cache!Forgets(Replies(m), Replies(entries'))
           /\ Replies(file') \in {Replies(file), Replies(entries')}
  <1>1. entries' = Live(m) /\ (file' = Live(m) \/ file' = file)
    BY SaveLockedMaps
  <1> QED BY <1>1, LiveForgets

LEMMA RepliesPrimed ==
    /\ Replies(entries)' = Replies(entries')
    /\ Replies(file)' = Replies(file')
  BY DEF Replies, RepliesOf

\* The cache counts as the store does.
LEMMA SameCardinality ==
    ASSUME NEW S PROVE Cache!Cardinality(S) = Cardinality(S)
  BY DEF Cache!Cardinality, Cache!IsFiniteSet, Cardinality, IsFiniteSet

\* Inputs with replies are the inputs of the pool.
LEMMA HeldAreEntries ==
    ASSUME NEW m, IsMap(m)
    PROVE  Cache!HeldInputs(Replies(m)) = DOMAIN m
  <1>1. ASSUME NEW h \in DOMAIN m
        PROVE  Replies(m)[h] # <<>>
    <2>1. h \in Hash /\ m[h].samples \in Seq(Sample) /\ Len(m[h].samples) >= 1
      BY DEF IsMap, ProbeEntry
    <2>2. Replies(m)[h] = RepliesOf(m[h].samples)
      BY <2>1 DEF Replies
    <2>3. Len(Replies(m)[h]) >= 1
      BY <2>1, <2>2, RepliesOfType
    <2> QED BY <2>3
  <1>2. \A h \in Hash : h \notin DOMAIN m => Replies(m)[h] = <<>>
    BY DEF Replies
  <1>3. DOMAIN m \subseteq Hash
    BY DEF IsMap
  <1> QED BY <1>1, <1>2, <1>3 DEF Cache!HeldInputs

LEMMA ItselfForgets == ASSUME NEW m PROVE Cache!Forgets(Replies(m), Replies(m))
  BY SubmapForgets

LEMMA FilePrimed == UNCHANGED file => Replies(file)' = Replies(file)
  BY RepliesPrimed

\* A call that replays nothing.
LEMMA NotGivenWithoutHit == ASSUME answer'.call # "hit" PROVE Given' = Cache!NotGiven
  BY DEF Given, Cache!NotGiven

\* The pool AddSample saves has the replies of the cache with one more.
LEMMA AddWith ==
    ASSUME TypeOK, NEW h \in Hash, NEW r \in Reply, NEW m, IsMap(m),
           DOMAIN m = DOMAIN entries \cup {h},
           \A g \in DOMAIN entries : g # h => m[g] = entries[g],
           m[h] = Extended(IF h \in DOMAIN entries THEN entries[h] ELSE NewEntry, r)
    PROVE  Replies(m) = Cache!With(Replies(entries), h, r)
  <1> DEFINE e0 == IF h \in DOMAIN entries THEN entries[h] ELSE NewEntry
             old == Replies(entries)[h]
  <1>1. now \in Nat
    BY DEF TypeOK
  <1>2. e0 \in ProbeEntry /\ Len(e0.samples) <= MinSamples
    BY <1>1, NewEntryType, Assumptions DEF TypeOK, IsMap
  <1>3. e0.samples \in Seq(Sample)
    BY <1>2 DEF ProbeEntry
  <1>4. m[h].samples = Sampled(e0.samples, r)
    BY <1>1, <1>2, ExtendedType
  <1>5. old = RepliesOf(e0.samples)
    <2>1. CASE h \in DOMAIN entries
      BY <2>1 DEF Replies
    <2>2. CASE h \notin DOMAIN entries
      <3>1. e0.samples = <<>>
        BY <2>2 DEF NewEntry
      <3>2. RepliesOf(<<>>) = <<>>
        BY DEF RepliesOf
      <3> QED BY <2>2, <3>1, <3>2 DEF Replies
    <2> QED BY <2>1, <2>2
  <1> HIDE DEF e0
  <1>6. Len(old) = Len(e0.samples)
    BY <1>3, <1>5, RepliesOfType
  <1>7. RepliesOf(Sampled(e0.samples, r)) =
           IF Len(old) < MinSamples THEN Append(old, r) ELSE old
    <2>1. Storable(r) \in Sample /\ Storable(r).reply = r
      BY <1>1 DEF Storable, Sample
    <2> HIDE DEF old
    <2> QED BY <1>3, <1>5, <1>6, <2>1, RepliesOfAppend DEF Sampled
  <1>8. Replies(m)[h] = IF Len(old) < MinSamples THEN Append(old, r) ELSE old
    BY <1>4, <1>7 DEF Replies
  <1>9. \A g \in Hash : g # h => Replies(m)[g] = Replies(entries)[g]
    BY DEF Replies
  <1>10. Cache!With(Replies(entries), h, r) =
            [Replies(entries) EXCEPT ![h] = IF Len(old) < MinSamples
                                            THEN Append(old, r) ELSE old]
    BY DEF Cache!With
  <1>11. /\ Replies(m) = [g \in Hash |-> Replies(m)[g]]
         /\ Replies(entries) = [g \in Hash |-> Replies(entries)[g]]
    BY DEF Replies
  <1> HIDE DEF old
  <1> QED BY <1>8, <1>9, <1>10, <1>11

-----------------------------------------------------------------------------
(* Each step is a step of the cache                                         *)

LEMMA AddCollects ==
    ASSUME CacheInv, NEW h \in Hash, NEW r \in Reply, AddSample(h, r)
    PROVE  Cache!Collect(h, r)
  <1> USE DEF CacheInv
  <1>1. PICK m : /\ Grown(m) /\ SaveLocked(m)
                 /\ DOMAIN m = DOMAIN entries \cup {h}
                 /\ \A g \in DOMAIN entries : g # h => m[g] = entries[g]
                 /\ m[h] = Extended(IF h \in DOMAIN entries THEN entries[h] ELSE NewEntry, r)
    BY AddGrown
  <1>2. IsMap(m)
    BY <1>1 DEF Grown
  <1>3. Replies(m) = Cache!With(Replies(entries), h, r)
    BY <1>1, <1>2, AddWith
  <1>4. Cardinality(DOMAIN m) <= MaxEntries
    <2>1. IsFiniteSet(DOMAIN entries) /\ Cardinality(DOMAIN entries) <= MaxEntries
      BY DEF PoolInv, PoolBounded
    <2>2. CASE h \in DOMAIN entries
      <3>1. DOMAIN m = DOMAIN entries
        BY <1>1, <2>2
      <3> QED BY <2>1, <3>1
    <2>3. CASE h \notin DOMAIN entries
      <3>1. ~(Cardinality(DOMAIN entries) >= MaxEntries)
        BY <2>3 DEF AddSample, Full
      <3>2. /\ Cardinality(DOMAIN entries) \in Nat
            /\ Cardinality(DOMAIN entries \cup {h}) = Cardinality(DOMAIN entries) + 1
        BY <2>1, <2>3, FS_AddElement, FS_CardinalityType
      <3>3. MaxEntries \in Nat
        BY ProbeStoreAssumption
      <3> QED BY <1>1, <3>1, <3>2, <3>3
    <2> QED BY <2>2, <2>3
  <1>5. Cardinality(Cache!HeldInputs(Cache!With(Replies(entries), h, r))) <= MaxEntries
    BY <1>2, <1>3, <1>4, HeldAreEntries
  <1>6. /\ Cache!Forgets(Cache!With(Replies(entries), h, r), Replies(entries)')
        /\ Replies(file)' \in {Replies(file), Replies(entries)'}
    BY <1>1, <1>3, SavedSnapshot, RepliesPrimed
  <1>7. Given' = Cache!NotGiven
    BY NotGivenWithoutHit DEF AddSample
  <1> QED BY <1>5, <1>6, <1>7, SameCardinality DEF Cache!Collect, Cache!Snapshot

LEMMA HitReplays ==
    ASSUME CacheInv, NEW h \in Hash, GetHit(h)
    PROVE  Cache!Replay(h)
  <1> USE DEF CacheInv
  <1>1. PICK m : /\ SaveLocked(m)
                 /\ DOMAIN m = DOMAIN entries
                 /\ \A g \in DOMAIN entries : m[g].samples = entries[g].samples
    BY HitGrown
  <1>2. Replies(m) = Replies(entries)
    BY <1>1 DEF Replies
  <1>3. /\ Cache!Forgets(Replies(entries), Replies(entries)')
        /\ Replies(file)' \in {Replies(file), Replies(entries)'}
    BY <1>1, <1>2, SavedSnapshot, RepliesPrimed
  <1>4. h \in DOMAIN entries /\ entries[h].activated
    BY DEF GetHit, Replayable
  <1>5. entries[h].samples \in Seq(Sample) /\ Len(entries[h].samples) >= MinSamples
    BY <1>4 DEF TypeOK, IsMap, ProbeEntry, ReplayInv, FullCollections
  <1>6. Replies(entries)[h] = RepliesOf(entries[h].samples)
    BY <1>4 DEF Replies
  <1>7. Len(Replies(entries)[h]) >= MinSamples
    BY <1>5, <1>6, RepliesOfType
  <1>8. PICK n \in DOMAIN entries[h].samples :
           answer' = [call |-> "hit", hash |-> h, at |-> now,
                      reply |-> entries[h].samples[n].reply]
    BY DEF GetHit
  <1>9. /\ n \in DOMAIN Replies(entries)[h]
        /\ Replies(entries)[h][n] = entries[h].samples[n].reply
    BY <1>5, <1>6, RepliesOfType
  <1>10. Given' = [call |-> "hit", hash |-> h, reply |-> Replies(entries)[h][n]]
    BY <1>8, <1>9 DEF Given
  <1> QED BY <1>3, <1>7, <1>9, <1>10 DEF Cache!Replay, Cache!Snapshot

LEMMA CacheStep == CacheInv /\ [Next]_vars => [Cache!Next]_(Cache!vars)
  <1> SUFFICES ASSUME CacheInv, [Next]_vars
               PROVE  Cache!Next \/ UNCHANGED Cache!vars
    OBVIOUS
  <1>1. ASSUME NEW h \in Hash, NEW r \in Reply, AddSample(h, r)
        PROVE  Cache!Next
    BY <1>1, AddCollects DEF Cache!Next
  <1>2. ASSUME NEW h \in Hash, GetHit(h)
        PROVE  Cache!Next
    BY <1>2, HitReplays DEF Cache!Next
  <1>3. ASSUME NEW h \in Hash, GetExpired(h)
        PROVE  Cache!Next
    <2>1. /\ DOMAIN entries' \subseteq DOMAIN entries
          /\ \A g \in DOMAIN entries' : entries'[g].samples = entries[g].samples
      BY <1>3 DEF GetExpired, Without
    <2>2. Cache!Forgets(Replies(entries), Replies(entries)')
      BY <2>1, SubmapForgets, RepliesPrimed
    <2>3. Given' = Cache!NotGiven /\ Replies(file)' = Replies(file)
      BY <1>3, NotGivenWithoutHit, FilePrimed DEF GetExpired
    <2> QED BY <2>2, <2>3 DEF Cache!Next, Cache!Miss
  <1>4. ASSUME NEW h \in Hash, AddRefused(h)
        PROVE  Cache!Next
    <2>1. Cache!Forgets(Replies(entries), Replies(entries)')
      BY <1>4, ItselfForgets, RepliesPrimed DEF AddRefused
    <2>2. Given' = Cache!NotGiven /\ Replies(file)' = Replies(file)
      BY <1>4, NotGivenWithoutHit, FilePrimed DEF AddRefused
    <2> QED BY <2>1, <2>2 DEF Cache!Next, Cache!Miss
  <1>5. CASE Restart
    <2>1. Given' = Cache!NotGiven /\ Replies(file)' = Replies(file)
      BY <1>5, NotGivenWithoutHit, FilePrimed DEF Restart
    <2>2. Cache!Forgets(Replies(file), Replies(NoEntries))
      <3>1. DOMAIN NoEntries = {}
        BY DEF NoEntries
      <3> QED BY <3>1, SubmapForgets
    <2>3. Cache!Forgets(Replies(file), Replies(entries)')
      BY <1>5, <2>2, LiveForgets, RepliesPrimed DEF Restart
    <2> QED BY <2>1, <2>3 DEF Cache!Next, Cache!Restart
  <1>6. CASE UNCHANGED <<entries, file, answer>>
    <2>1. Replies(entries)' = Replies(entries) /\ Replies(file)' = Replies(file)
      BY <1>6, RepliesPrimed
    <2>2. Given' = Given
      BY <1>6 DEF Given
    <2> QED BY <2>1, <2>2 DEF Cache!vars
  <1> QED
    BY <1>1, <1>2, <1>3, <1>4, <1>5, <1>6 DEF Next, Tick, vars

LEMMA CacheInit == Init => Cache!Init
  <1> SUFFICES ASSUME Init PROVE Cache!Init
    OBVIOUS
  <1>1. Replies(NoEntries) = Cache!Nothing
    BY DEF Replies, NoEntries, Cache!Nothing
  <1>2. Given = Cache!NotGiven
    BY DEF Init, Given, Cache!NotGiven
  <1> QED BY <1>1, <1>2 DEF Init, Cache!Init

\* The store implements the abstract cache: every behaviour of it, expiry,
\* failing saves, crashes and restarts included, is one of SampleCache.
THEOREM ImplementsSampleCache == Spec => IsSampleCache
  <1>1. Init => CacheInv
    BY TypeOKInit, PoolInit, ReplayInit DEF CacheInv
  <1>2. CacheInv /\ [Next]_vars => CacheInv'
    BY TypeOKStep, PoolStep, ReplayStep DEF CacheInv
  <1> QED
    BY <1>1, <1>2, CacheInit, CacheStep, PTL DEF Spec, IsSampleCache, Cache!Spec
=============================================================================
