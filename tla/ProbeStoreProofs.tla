-------------------------- MODULE ProbeStoreProofs --------------------------
(***************************************************************************)
(* Proofs about ProbeStore.                                                *)
(***************************************************************************)
EXTENDS ProbeStore, FiniteSetTheorems, TLAPS

-----------------------------------------------------------------------------
(* Maps                                                                     *)

LEMMA LiveIsMap ==
    ASSUME NEW m, IsMap(m)
    PROVE  /\ IsMap(Live(m))
           /\ DOMAIN Live(m) = {h \in DOMAIN m : now < m[h].expire}
           /\ \A h \in DOMAIN Live(m) : Live(m)[h] = m[h]
  BY DEF IsMap, Live

\* A pool that was pruned keeps all its entries when it is pruned again.
LEMMA LiveTwice == ASSUME NEW m PROVE Live(Live(m)) = Live(m)
  BY DEF Live

LEMMA PutIsMap ==
    ASSUME NEW m, IsMap(m), NEW h \in Hash, NEW e \in ProbeEntry,
           Len(e.samples) \in 1..MinSamples
    PROVE  /\ IsMap(Put(m, h, e))
           /\ DOMAIN Put(m, h, e) = DOMAIN m \cup {h}
           /\ Put(m, h, e)[h] = e
           /\ \A g \in DOMAIN m : g # h => Put(m, h, e)[g] = m[g]
  BY DEF IsMap, Put

\* Entries that differ in the number of hits.
LEMMA HitIsMap ==
    ASSUME NEW m, IsMap(m), NEW h \in DOMAIN m
    PROVE  LET n == [m EXCEPT ![h].hits = @ + 1]
           IN  /\ IsMap(n)
               /\ DOMAIN n = DOMAIN m
               /\ \A g \in DOMAIN m :
                     /\ n[g].created = m[g].created
                     /\ n[g].expire = m[g].expire
                     /\ n[g].samples = m[g].samples
                     /\ n[g].hits >= m[g].hits
  BY DEF IsMap, ProbeEntry

LEMMA SaveLockedMaps ==
    ASSUME NEW m, SaveLocked(m)
    PROVE  /\ entries' = Live(m)
           /\ ~isDirty'
           /\ \/ file' = Live(m) /\ lastSave' = "ok"
              \/ file' = file /\ lastSave' \in {"unread", "failed"}
                 /\ (lastSave' = "unread" <=> lastSave = "unread")
  BY DEF SaveLocked

-----------------------------------------------------------------------------
(* Samples                                                                  *)

LEMMA Assumptions == MinSamples \in Nat /\ MinSamples >= 1 /\ TTL \in Nat
  BY ProbeStoreAssumption

\* Sampled keeps the samples collected so far, in their order.
LEMMA SampledType ==
    ASSUME NEW ss \in Seq(Sample), Len(ss) <= MinSamples, NEW r \in Reply,
           now \in Nat
    PROVE  /\ Sampled(ss, r) \in Seq(Sample)
           /\ Len(Sampled(ss, r)) \in 1..MinSamples
           /\ StartsWith(Sampled(ss, r), ss)
  <1>1. Storable(r) \in Sample
    BY DEF Storable, Sample
  <1>2. Len(ss) \in Nat /\ DOMAIN ss = 1..Len(ss)
    OBVIOUS
  <1> HIDE DEF Sample
  <1>3. CASE Len(ss) < MinSamples
    <2>1. Sampled(ss, r) = Append(ss, Storable(r))
      BY <1>3 DEF Sampled
    <2>2. /\ Append(ss, Storable(r)) \in Seq(Sample)
          /\ Len(Append(ss, Storable(r))) = Len(ss) + 1
          /\ \A n \in 1..Len(ss) : Append(ss, Storable(r))[n] = ss[n]
      BY <1>1
    <2> QED BY <1>2, <1>3, <2>1, <2>2, Assumptions DEF StartsWith
  <1>4. CASE ~(Len(ss) < MinSamples)
    BY <1>2, <1>4, Assumptions DEF Sampled, StartsWith
  <1> QED BY <1>3, <1>4

\* The entry AddSample stores.
LEMMA ExtendedType ==
    ASSUME NEW e \in ProbeEntry, Len(e.samples) <= MinSamples, NEW r \in Reply,
           now \in Nat
    PROVE  /\ Extended(e, r) \in ProbeEntry
           /\ Len(Extended(e, r).samples) \in 1..MinSamples
           /\ Extended(e, r).samples = Sampled(e.samples, r)
           /\ Extended(e, r).created = e.created
           /\ Extended(e, r).expire = e.expire
           /\ Extended(e, r).hits = e.hits
           /\ StartsWith(Extended(e, r).samples, e.samples)
  <1>1. e.samples \in Seq(Sample)
    BY DEF ProbeEntry
  <1>2. /\ Sampled(e.samples, r) \in Seq(Sample)
        /\ Len(Sampled(e.samples, r)) \in 1..MinSamples
        /\ StartsWith(Sampled(e.samples, r), e.samples)
    BY <1>1, SampledType
  <1>3. Extended(e, r) = [e EXCEPT !.samples = Sampled(@, r),
                                   !.activated = @ \/ Enough(Sampled(e.samples, r))]
    BY DEF Extended
  <1>4. Enough(Sampled(e.samples, r)) \in BOOLEAN
    BY DEF Enough
  <1> QED BY <1>2, <1>3, <1>4 DEF ProbeEntry

LEMMA NewEntryType ==
    ASSUME now \in Nat
    PROVE  NewEntry \in ProbeEntry /\ Len(NewEntry.samples) = 0
  <1>1. now + TTL \in Nat
    BY Assumptions
  <1>2. << >> \in Seq(Sample)
    OBVIOUS
  <1> QED BY <1>1, <1>2 DEF NewEntry, ProbeEntry, Expiry

\* The entry a call of AddSample starts from.
LEMMA AddedType ==
    ASSUME TypeOK, NEW h \in Hash, NEW r \in Reply
    PROVE  LET e == Extended(IF h \in DOMAIN entries THEN entries[h] ELSE NewEntry, r)
           IN  /\ e \in ProbeEntry
               /\ Len(e.samples) \in 1..MinSamples
               /\ h \in DOMAIN entries =>
                     /\ e.created = entries[h].created
                     /\ e.expire = entries[h].expire
                     /\ e.hits = entries[h].hits
                     /\ StartsWith(e.samples, entries[h].samples)
  <1>1. now \in Nat
    BY DEF TypeOK
  <1>2. CASE h \in DOMAIN entries
    <2>1. entries[h] \in ProbeEntry /\ Len(entries[h].samples) <= MinSamples
      BY <1>2, Assumptions DEF TypeOK, IsMap
    <2> QED BY <1>1, <1>2, <2>1, ExtendedType
  <1>3. CASE h \notin DOMAIN entries
    <2>1. NewEntry \in ProbeEntry /\ Len(NewEntry.samples) <= MinSamples
      BY <1>1, NewEntryType, Assumptions
    <2> QED BY <1>1, <1>3, <2>1, ExtendedType
  <1> QED BY <1>2, <1>3

-----------------------------------------------------------------------------
(* What the two calls that save hand to saveLocked                          *)

\* m holds every entry of the pool, with the same life, no fewer hits and at
\* least its samples.
Grown(m) ==
    /\ IsMap(m)
    /\ DOMAIN entries \subseteq DOMAIN m
    /\ \A g \in DOMAIN entries :
          /\ m[g].created = entries[g].created
          /\ m[g].expire = entries[g].expire
          /\ m[g].hits >= entries[g].hits
          /\ StartsWith(m[g].samples, entries[g].samples)

LEMMA StartsWithItself == ASSUME NEW s \in Seq(Sample) PROVE StartsWith(s, s)
  BY DEF StartsWith

LEMMA StartsWithTransitive ==
    ASSUME NEW r \in Seq(Sample), NEW s \in Seq(Sample), NEW t \in Seq(Sample),
           StartsWith(t, s), StartsWith(s, r)
    PROVE  StartsWith(t, r)
  <1>1. /\ Len(r) \in Nat /\ Len(s) \in Nat /\ Len(t) \in Nat
        /\ DOMAIN r = 1..Len(r) /\ DOMAIN s = 1..Len(s)
    OBVIOUS
  <1>2. \A n \in DOMAIN r : n \in DOMAIN s
    BY <1>1 DEF StartsWith
  <1> QED BY <1>1, <1>2 DEF StartsWith

LEMMA AddGrown ==
    ASSUME TypeOK, NEW h \in Hash, NEW r \in Reply, AddSample(h, r)
    PROVE  \E m : /\ Grown(m) /\ SaveLocked(m)
                  /\ DOMAIN m = DOMAIN entries \cup {h}
                  /\ \A g \in DOMAIN entries : g # h => m[g] = entries[g]
                  /\ m[h] = Extended(IF h \in DOMAIN entries THEN entries[h] ELSE NewEntry, r)
  <1> DEFINE e == Extended(IF h \in DOMAIN entries THEN entries[h] ELSE NewEntry, r)
             m == Put(entries, h, e)
  <1>1. SaveLocked(m)
    BY DEF AddSample
  <1>2. /\ e \in ProbeEntry
        /\ Len(e.samples) \in 1..MinSamples
        /\ h \in DOMAIN entries =>
              /\ e.created = entries[h].created
              /\ e.expire = entries[h].expire
              /\ e.hits = entries[h].hits
              /\ StartsWith(e.samples, entries[h].samples)
    BY AddedType
  <1>3. \A g \in DOMAIN entries : /\ entries[g].samples \in Seq(Sample)
                                  /\ entries[g].hits \in Nat
    BY DEF TypeOK, IsMap, ProbeEntry
  <1> HIDE DEF e
  <1>4. /\ IsMap(m)
        /\ DOMAIN m = DOMAIN entries \cup {h}
        /\ m[h] = e
        /\ \A g \in DOMAIN entries : g # h => m[g] = entries[g]
    BY <1>2, PutIsMap DEF TypeOK
  <1> HIDE DEF m
  <1>5. Grown(m)
    <2> SUFFICES ASSUME NEW g \in DOMAIN entries
                 PROVE  /\ m[g].created = entries[g].created
                        /\ m[g].expire = entries[g].expire
                        /\ m[g].hits >= entries[g].hits
                        /\ StartsWith(m[g].samples, entries[g].samples)
      BY <1>4 DEF Grown
    <2>1. CASE g = h
      BY <1>2, <1>3, <1>4, <2>1
    <2>2. CASE g # h
      BY <1>3, <1>4, <2>2, StartsWithItself
    <2> QED BY <2>1, <2>2
  <1> QED BY <1>1, <1>4, <1>5 DEF e

LEMMA HitGrown ==
    ASSUME TypeOK, NEW h \in Hash, GetHit(h)
    PROVE  \E m : /\ Grown(m) /\ SaveLocked(m)
                  /\ DOMAIN m = DOMAIN entries
                  /\ \A g \in DOMAIN entries : m[g].samples = entries[g].samples
  <1> DEFINE m == [entries EXCEPT ![h].hits = @ + 1]
  <1>1. SaveLocked(m) /\ h \in DOMAIN entries
    BY DEF GetHit, Replayable
  <1>2. \A g \in DOMAIN entries : entries[g].samples \in Seq(Sample)
    BY DEF TypeOK, IsMap, ProbeEntry
  <1>3. /\ IsMap(m)
        /\ DOMAIN m = DOMAIN entries
        /\ \A g \in DOMAIN entries :
              /\ m[g].created = entries[g].created
              /\ m[g].expire = entries[g].expire
              /\ m[g].samples = entries[g].samples
              /\ m[g].hits >= entries[g].hits
    BY <1>1, HitIsMap DEF TypeOK
  <1> HIDE DEF m
  <1>4. Grown(m)
    BY <1>2, <1>3, StartsWithItself DEF Grown
  <1> QED BY <1>1, <1>3, <1>4

-----------------------------------------------------------------------------
(* Types                                                                    *)

LEMMA LogAppend ==
    ASSUME NEW l \in Seq(Events), NEW ev \in Events
    PROVE  Append(l, ev) \in Seq(Events)
  <1> HIDE DEF Events
  <1> QED OBVIOUS

LEMMA TypeOKInit == Init => TypeOK
  <1> SUFFICES ASSUME Init PROVE TypeOK
    OBVIOUS
  <1>1. IsMap(entries) /\ IsMap(file)
    BY DEF Init, NoEntries, IsMap
  <1>2. answer \in Answers
    BY DEF Init, Answers
  <1>3. log \in Seq(Events)
    BY DEF Init
  <1> QED BY <1>1, <1>2, <1>3 DEF Init, TypeOK

LEMMA SaveLockedType ==
    ASSUME TypeOK, NEW m, Grown(m), SaveLocked(m)
    PROVE  /\ IsMap(entries') /\ IsMap(file')
           /\ isDirty' \in BOOLEAN /\ lastErr' \in BOOLEAN
           /\ lastSave' \in {"none", "unread", "ok", "failed"}
  <1>1. IsMap(Live(m))
    BY LiveIsMap DEF Grown
  <1> QED BY <1>1, SaveLockedMaps DEF SaveLocked, TypeOK

LEMMA TypeOKStep == TypeOK /\ [Next]_vars => TypeOK'
  <1> SUFFICES ASSUME TypeOK, [Next]_vars PROVE TypeOK'
    OBVIOUS
  <1>1. ASSUME NEW h \in Hash, NEW r \in Reply, AddSample(h, r)
        PROVE  TypeOK'
    <2>1. PICK m : Grown(m) /\ SaveLocked(m)
      BY <1>1, AddGrown
    <2> DEFINE e == Extended(IF h \in DOMAIN entries THEN entries[h] ELSE NewEntry, r)
    <2>2. e.activated \in BOOLEAN
      <3>1. e \in ProbeEntry
        BY AddedType
      <3> QED BY <3>1 DEF ProbeEntry
    <2>3. answer' = [call |-> "add", hash |-> h, activated |-> e.activated]
      BY <1>1 DEF AddSample
    <2> HIDE DEF e
    <2>4. answer' \in Answers
      BY <2>2, <2>3 DEF Answers
    <2>5. [kind |-> "add", hash |-> h, reply |-> r, at |-> now] \in Events
      BY DEF TypeOK, Events
    <2>6. log' \in Seq(Events)
      BY <1>1, <2>5, LogAppend DEF AddSample, TypeOK
    <2>7. now' \in Nat
      BY <1>1 DEF AddSample, TypeOK
    <2> QED BY <2>1, <2>4, <2>6, <2>7, SaveLockedType DEF TypeOK
  <1>2. ASSUME NEW h \in Hash, AddRefused(h)
        PROVE  TypeOK'
    BY <1>2 DEF AddRefused, TypeOK, Answers
  <1>3. ASSUME NEW h \in Hash, GetExpired(h)
        PROVE  TypeOK'
    <2>1. IsMap(entries')
      BY <1>3 DEF GetExpired, Without, TypeOK, IsMap
    <2>2. answer' \in Answers
      BY <1>3 DEF GetExpired, Answers
    <2> QED BY <1>3, <2>1, <2>2 DEF GetExpired, TypeOK
  <1>4. ASSUME NEW h \in Hash, GetHit(h)
        PROVE  TypeOK'
    <2>1. PICK m : Grown(m) /\ SaveLocked(m)
      BY <1>4, HitGrown
    <2>2. answer' \in Answers
      <3>1. PICK n \in DOMAIN entries[h].samples :
               answer' = [call |-> "hit", hash |-> h, at |-> now,
                          reply |-> entries[h].samples[n].reply]
        BY <1>4 DEF GetHit
      <3>2. entries[h].samples \in Seq(Sample)
        BY <1>4 DEF GetHit, Replayable, TypeOK, IsMap, ProbeEntry
      <3>3. entries[h].samples[n] \in Sample
        BY <3>2
      <3>4. entries[h].samples[n].reply \in Reply
        BY <3>3 DEF Sample
      <3> QED BY <3>1, <3>4 DEF Answers, TypeOK
    <2>3. log' = log /\ now' = now
      BY <1>4 DEF GetHit
    <2> QED BY <2>1, <2>2, <2>3, SaveLockedType DEF TypeOK
  <1>5. CASE Tick
    BY <1>5 DEF Tick, TypeOK
  <1>6. CASE Restart
    <2>1. IsMap(entries')
      BY <1>6, LiveIsMap DEF Restart, TypeOK, NoEntries, IsMap
    <2>2. [kind |-> "restart"] \in Events
      BY DEF Events
    <2>3. log' \in Seq(Events)
      BY <1>6, <2>2, LogAppend DEF Restart, TypeOK
    <2>4. answer' \in Answers
      BY <1>6 DEF Restart, Answers
    <2> QED BY <1>6, <2>1, <2>3, <2>4 DEF Restart, TypeOK
  <1>7. CASE UNCHANGED vars
    BY <1>7 DEF vars, TypeOK
  <1> QED
    BY <1>1, <1>2, <1>3, <1>4, <1>5, <1>6, <1>7 DEF Next

\* The pool, its file and the history have their types in every reachable
\* state; an entry holds between one and MinSamples samples.
THEOREM TypeCorrect == Spec => []TypeOK
  BY TypeOKInit, TypeOKStep, PTL DEF Spec

-----------------------------------------------------------------------------
(* While the process runs, samples only grow                                *)

\* What a save keeps of an entry that has not expired.
LEMMA GrownSaved ==
    ASSUME TypeOK, NEW m, Grown(m), SaveLocked(m), NEW g \in DOMAIN entries,
           now < entries[g].expire
    PROVE  /\ g \in DOMAIN entries'
           /\ entries'[g].created = entries[g].created
           /\ entries'[g].expire = entries[g].expire
           /\ entries'[g].hits >= entries[g].hits
           /\ StartsWith(entries'[g].samples, entries[g].samples)
  <1>1. entries' = Live(m)
    BY SaveLockedMaps
  <1>2. IsMap(m) /\ g \in DOMAIN m /\ m[g].expire = entries[g].expire
    BY DEF Grown
  <1>3. g \in DOMAIN Live(m) /\ Live(m)[g] = m[g]
    BY <1>2, LiveIsMap
  <1> QED BY <1>1, <1>3 DEF Grown

\* The step SamplesOnlyGrow describes.
SamplesGrow ==
    \/ Restart
    \/ \A h \in DOMAIN entries :
          \/ now >= entries[h].expire
          \/ /\ h \in DOMAIN entries'
             /\ entries'[h].created = entries[h].created
             /\ StartsWith(entries'[h].samples, entries[h].samples)

LEMMA GrowStep == TypeOK /\ [Next]_vars => SamplesGrow
  <1> SUFFICES ASSUME TypeOK, [Next]_vars, ~Restart, NEW g \in DOMAIN entries,
                      ~(now >= entries[g].expire)
               PROVE  /\ g \in DOMAIN entries'
                      /\ entries'[g].created = entries[g].created
                      /\ StartsWith(entries'[g].samples, entries[g].samples)
    BY DEF SamplesGrow
  <1>1. /\ entries[g].expire \in Nat /\ now \in Nat
        /\ entries[g].samples \in Seq(Sample)
    BY DEF TypeOK, IsMap, ProbeEntry
  <1>2. now < entries[g].expire
    BY <1>1
  <1>3. ASSUME NEW m, Grown(m), SaveLocked(m)
        PROVE  /\ g \in DOMAIN entries'
               /\ entries'[g].created = entries[g].created
               /\ StartsWith(entries'[g].samples, entries[g].samples)
    BY <1>2, <1>3, GrownSaved
  <1>4. ASSUME NEW h \in Hash, NEW r \in Reply, AddSample(h, r)
        PROVE  \E m : Grown(m) /\ SaveLocked(m)
    BY <1>4, AddGrown
  <1>5. ASSUME NEW h \in Hash, GetHit(h)
        PROVE  \E m : Grown(m) /\ SaveLocked(m)
    BY <1>5, HitGrown
  <1>6. ASSUME NEW h \in Hash, GetExpired(h)
        PROVE  g \in DOMAIN entries' /\ entries'[g] = entries[g]
    <2>1. g # h
      BY <1>1, <1>2, <1>6 DEF GetExpired, Replayable
    <2> QED BY <1>6, <2>1 DEF GetExpired, Without
  <1>7. ASSUME UNCHANGED entries
        PROVE  g \in DOMAIN entries' /\ entries'[g] = entries[g]
    BY <1>7
  <1>8. StartsWith(entries[g].samples, entries[g].samples)
    BY <1>1, StartsWithItself
  <1> QED
    BY <1>3, <1>4, <1>5, <1>6, <1>7, <1>8 DEF Next, AddRefused, Tick, vars

\* Unless its process dies, an entry that has not expired is kept, and only
\* gains samples.
THEOREM SamplesAlwaysGrow == Spec => SamplesOnlyGrow
  <1>1. TypeOK /\ [Next]_vars => [SamplesGrow]_vars
    BY GrowStep
  <1>2. Spec => [][SamplesGrow]_vars
    BY <1>1, TypeOKInit, TypeOKStep, PTL DEF Spec
  <1> QED BY <1>2 DEF SamplesOnlyGrow, SamplesGrow

-----------------------------------------------------------------------------
(* The file is an earlier stage of the pool                                 *)

LEMMA EarlierStep ==
    TypeOK /\ FileIsEarlierStage /\ [Next]_vars => FileIsEarlierStage'
  <1> DEFINE Earlier(g) == /\ g \in DOMAIN entries
                           /\ file[g].created = entries[g].created
                           /\ file[g].expire = entries[g].expire
                           /\ file[g].hits <= entries[g].hits
                           /\ StartsWith(entries[g].samples, file[g].samples)
  <1> SUFFICES ASSUME TypeOK, FileIsEarlierStage, [Next]_vars,
                      lastSave' # "unread", NEW g \in DOMAIN Live(file)'
               PROVE  Earlier(g)'
    BY DEF FileIsEarlierStage
  <1> HIDE DEF Earlier
  <1>1. /\ \A h \in DOMAIN entries : entries[h] \in ProbeEntry
        /\ \A h \in DOMAIN file : file[h] \in ProbeEntry
        /\ now \in Nat
    BY DEF TypeOK, IsMap
  <1>2. g \in DOMAIN file' /\ now' < file'[g].expire
    BY DEF Live
  <1>3. ASSUME file' = file, now' \in Nat, now' >= now, lastSave # "unread"
        PROVE  g \in DOMAIN file /\ now < file[g].expire /\ Earlier(g)
    <2>1. g \in DOMAIN file /\ file[g].expire \in Nat
      BY <1>1, <1>2, <1>3 DEF ProbeEntry
    <2>2. now < file[g].expire
      BY <1>1, <1>2, <1>3, <2>1
    <2>3. g \in DOMAIN Live(file)
      BY <2>1, <2>2 DEF Live
    <2> QED BY <1>3, <2>1, <2>2, <2>3 DEF FileIsEarlierStage, Earlier
  <1>4. ASSUME entries' = file', \A h \in DOMAIN file' : file'[h] \in ProbeEntry
        PROVE  Earlier(g)'
    <2>1. file'[g].samples \in Seq(Sample) /\ file'[g].hits \in Nat
      BY <1>2, <1>4 DEF ProbeEntry
    <2> QED BY <1>2, <1>4, <2>1, StartsWithItself DEF Earlier
  <1>5. ASSUME NEW m, Grown(m), SaveLocked(m), now' = now
        PROVE  Earlier(g)'
    <2>1. CASE file' = Live(m)
      <3>1. entries' = file'
        BY <1>5, <2>1, SaveLockedMaps
      <3>2. \A h \in DOMAIN file' : file'[h] \in ProbeEntry
        BY <1>5, <2>1, LiveIsMap DEF Grown, IsMap
      <3> QED BY <1>4, <3>1, <3>2
    <2>2. CASE file' = file /\ lastSave # "unread"
      <3>1. g \in DOMAIN file /\ now < file[g].expire /\ Earlier(g)
        BY <1>1, <1>3, <1>5, <2>2
      <3>2. g \in DOMAIN entries /\ now < entries[g].expire
        BY <3>1 DEF Earlier
      <3>3. /\ g \in DOMAIN entries'
            /\ entries'[g].created = entries[g].created
            /\ entries'[g].expire = entries[g].expire
            /\ entries'[g].hits >= entries[g].hits
            /\ StartsWith(entries'[g].samples, entries[g].samples)
        BY <1>5, <3>2, GrownSaved
      <3>4. entries'[g] \in ProbeEntry
        BY <1>5, <3>3, SaveLockedType DEF IsMap
      <3>5. /\ file[g].samples \in Seq(Sample) /\ file[g].hits \in Nat
            /\ entries[g].samples \in Seq(Sample) /\ entries[g].hits \in Nat
            /\ entries'[g].samples \in Seq(Sample) /\ entries'[g].hits \in Nat
        BY <1>1, <3>1, <3>2, <3>4 DEF ProbeEntry
      <3>6. StartsWith(entries'[g].samples, file[g].samples)
        BY <3>1, <3>3, <3>5, StartsWithTransitive DEF Earlier
      <3>7. file[g].hits <= entries'[g].hits
        BY <3>1, <3>3, <3>5 DEF Earlier
      <3> QED BY <2>2, <3>1, <3>3, <3>6, <3>7 DEF Earlier
    <2> QED BY <1>5, <2>1, <2>2, SaveLockedMaps
  <1>6. ASSUME NEW h \in Hash, NEW r \in Reply, AddSample(h, r)
        PROVE  Earlier(g)'
    <2>1. PICK m : Grown(m) /\ SaveLocked(m)
      BY <1>6, AddGrown
    <2>2. now' = now
      BY <1>6 DEF AddSample
    <2> QED BY <1>5, <2>1, <2>2
  <1>7. ASSUME NEW h \in Hash, GetHit(h)
        PROVE  Earlier(g)'
    <2>1. PICK m : Grown(m) /\ SaveLocked(m)
      BY <1>7, HitGrown
    <2>2. now' = now
      BY <1>7 DEF GetHit
    <2> QED BY <1>5, <2>1, <2>2
  <1>8. ASSUME NEW h \in Hash, GetExpired(h)
        PROVE  Earlier(g)'
    <2>1. /\ h \in DOMAIN entries /\ now > entries[h].expire
          /\ entries' = Without(entries, h)
          /\ UNCHANGED <<file, now, lastSave>>
      BY <1>8 DEF GetExpired, Replayable
    <2>2. g \in DOMAIN file /\ now < file[g].expire /\ Earlier(g)
      BY <1>1, <1>3, <2>1
    <2>3. g \in DOMAIN entries /\ entries[g].expire \in Nat /\ now < entries[g].expire
      BY <1>1, <2>2 DEF Earlier, ProbeEntry
    <2>4. g # h
      BY <1>1, <2>1, <2>3
    <2>5. g \in DOMAIN entries' /\ entries'[g] = entries[g]
      BY <2>1, <2>3, <2>4 DEF Without
    <2> QED BY <2>1, <2>2, <2>5 DEF Earlier
  <1>9. ASSUME UNCHANGED <<entries, file, lastSave>>, now' \in Nat, now' >= now
        PROVE  Earlier(g)'
    <2>1. Earlier(g)
      BY <1>3, <1>9
    <2> QED BY <1>9, <2>1 DEF Earlier
  <1>10. CASE Tick
    BY <1>1, <1>9, <1>10 DEF Tick
  <1>11. CASE Restart
    <2>1. entries' = Live(file) /\ UNCHANGED <<file, now>>
      BY <1>11 DEF Restart
    <2>2. g \in DOMAIN entries' /\ entries'[g] = file[g]
      BY <1>2, <2>1 DEF Live
    <2>3. file[g].samples \in Seq(Sample) /\ file[g].hits \in Nat
      BY <1>1, <1>2, <2>1 DEF ProbeEntry
    <2> QED BY <2>1, <2>2, <2>3, StartsWithItself DEF Earlier
  <1>12. CASE UNCHANGED vars \/ \E h \in Hash : AddRefused(h)
    <2>1. UNCHANGED <<entries, file, now, lastSave>>
      BY <1>12 DEF vars, AddRefused
    <2> QED BY <1>1, <1>9, <2>1
  <1> QED
    BY <1>6, <1>7, <1>8, <1>10, <1>11, <1>12 DEF Next

LEMMA EarlierInit == Init => FileIsEarlierStage
  BY DEF Init, FileIsEarlierStage, NoEntries, Live

\* Whatever writes failed, what a restart loads is an earlier stage of the
\* pool, unless the pool could not be read when the process started.
THEOREM FileAlwaysEarlierStage == Spec => []FileIsEarlierStage
  BY TypeOKInit, TypeOKStep, EarlierInit, EarlierStep, PTL DEF Spec

-----------------------------------------------------------------------------
(* A clean pool has nothing a restart would lose                            *)

\* Pools that agree on what is live still agree on it after time passed.
LEMMA LiveLater ==
    ASSUME NEW f, NEW m, IsMap(f), IsMap(m), now \in Nat, now' = now + 1,
           Live(f) = Live(m)
    PROVE  [h \in {g \in DOMAIN f : now' < f[g].expire} |-> f[h]]
             = [h \in {g \in DOMAIN m : now' < m[g].expire} |-> m[h]]
  <1>1. /\ \A h \in DOMAIN f : f[h].expire \in Nat
        /\ \A h \in DOMAIN m : m[h].expire \in Nat
    BY DEF IsMap, ProbeEntry
  <1>2. /\ {g \in DOMAIN f : now < f[g].expire} = {g \in DOMAIN m : now < m[g].expire}
        /\ \A h \in {g \in DOMAIN f : now < f[g].expire} : f[h] = m[h]
    <2>1. DOMAIN Live(f) = DOMAIN Live(m) /\ \A h \in DOMAIN Live(f) : f[h] = m[h]
      BY LiveIsMap
    <2> QED BY <2>1, LiveIsMap
  <1>3. /\ {g \in DOMAIN f : now' < f[g].expire} = {g \in DOMAIN m : now' < m[g].expire}
        /\ \A h \in {g \in DOMAIN f : now' < f[g].expire} : f[h] = m[h]
    BY <1>1, <1>2
  <1> QED BY <1>3

LEMMA CleanStep == TypeOK /\ CleanMeansSaved /\ [Next]_vars => CleanMeansSaved'
  <1> SUFFICES ASSUME TypeOK, CleanMeansSaved, [Next]_vars,
                      ~isDirty', lastSave' \in {"none", "ok"}
               PROVE  Live(file)' = Live(entries)'
    BY DEF CleanMeansSaved
  <1>1. ASSUME UNCHANGED <<entries, isDirty, file, now, lastSave>>
        PROVE  Live(file)' = Live(entries)'
    BY <1>1 DEF CleanMeansSaved, Live
  <1>2. ASSUME NEW m, SaveLocked(m)
        PROVE  Live(file)' = Live(entries)'
    <2>1. file' = entries'
      BY <1>2, SaveLockedMaps
    <2> QED BY <2>1
  <1>3. ASSUME NEW h \in Hash, NEW r \in Reply, AddSample(h, r)
        PROVE  Live(file)' = Live(entries)'
    BY <1>2, <1>3 DEF AddSample
  <1>4. ASSUME NEW h \in Hash, GetHit(h)
        PROVE  Live(file)' = Live(entries)'
    BY <1>2, <1>4 DEF GetHit
  <1>5. CASE Tick
    <2>1. /\ now' = now + 1 /\ now \in Nat
          /\ UNCHANGED <<entries, isDirty, file, lastSave>>
      BY <1>5 DEF Tick, TypeOK
    <2>2. Live(file) = Live(entries) /\ IsMap(file) /\ IsMap(entries)
      BY <2>1 DEF CleanMeansSaved, TypeOK
    <2> QED BY <2>1, <2>2, LiveLater DEF Live
  <1>6. CASE Restart
    <2>1. entries' = Live(file) /\ UNCHANGED <<file, now>>
      BY <1>6 DEF Restart
    <2>2. Live(file)' = Live(file) /\ Live(entries)' = Live(Live(file))
      BY <2>1 DEF Live
    <2> QED BY <2>2, LiveTwice
  <1> QED
    BY <1>1, <1>3, <1>4, <1>5, <1>6 DEF Next, AddRefused, GetExpired, vars

LEMMA CleanInit == Init => CleanMeansSaved
  BY DEF Init, CleanMeansSaved

\* A pool that is not dirty and whose last load or save did not fail holds
\* just what a restart would load.
THEOREM CleanAlwaysSaved == Spec => []CleanMeansSaved
  BY TypeOKInit, TypeOKStep, CleanInit, CleanStep, PTL DEF Spec

-----------------------------------------------------------------------------
(* Only the disk makes a save fail                                          *)

\* The file is a pool that was encoded once, and a later process loads it.
SavesInv == SavesFailOnlyOnDisk /\ Encodable(file)

LEMMA LiveEncodable == ASSUME NEW m, Encodable(m) PROVE Encodable(Live(m))
  BY DEF Encodable, Live

\* Extended adds a sample that AddSample wrapped where it had to.
LEMMA AddEncodable ==
    ASSUME TypeOK, Encodable(entries), NEW h \in Hash, NEW r \in Reply
    PROVE  Encodable(Put(entries, h,
             Extended(IF h \in DOMAIN entries THEN entries[h] ELSE NewEntry, r)))
  <1> DEFINE e0 == IF h \in DOMAIN entries THEN entries[h] ELSE NewEntry
             e == Extended(e0, r)
             Fine(ss) == \A n \in DOMAIN ss : ss[n].raw = "own" => ss[n].reply \in JSONReply
  <1>1. e0 \in ProbeEntry /\ Len(e0.samples) <= MinSamples
    BY NewEntryType, Assumptions DEF TypeOK, IsMap
  <1>2. Fine(e0.samples)
    BY DEF Encodable, NewEntry
  <1>3. e.samples = Sampled(e0.samples, r) /\ e0.samples \in Seq(Sample)
    BY <1>1, ExtendedType DEF TypeOK, ProbeEntry
  <1>4. Storable(r).raw = "own" => Storable(r).reply \in JSONReply
    BY DEF Storable
  <1> HIDE DEF e0, e
  <1>5. Fine(Sampled(e0.samples, r))
    <2>1. CASE Len(e0.samples) < MinSamples
      <3>1. Sampled(e0.samples, r) = Append(e0.samples, Storable(r))
        BY <2>1 DEF Sampled
      <3>2. Storable(r) \in Sample
        BY DEF Storable, Sample, TypeOK
      <3>3. \A n \in DOMAIN Append(e0.samples, Storable(r)) :
               \/ n \in DOMAIN e0.samples
                  /\ Append(e0.samples, Storable(r))[n] = e0.samples[n]
               \/ Append(e0.samples, Storable(r))[n] = Storable(r)
        <4> HIDE DEF Sample
        <4> QED BY <1>3, <3>2
      <3> QED BY <1>2, <1>4, <3>1, <3>3
    <2>2. CASE ~(Len(e0.samples) < MinSamples)
      BY <1>2, <2>2 DEF Sampled
    <2> QED BY <2>1, <2>2
  <1>6. Fine(e.samples)
    BY <1>3, <1>5
  <1> QED BY <1>6 DEF Encodable, Put, e, e0

LEMMA SavesStep == TypeOK /\ SavesInv /\ [Next]_vars => SavesInv'
  <1> SUFFICES ASSUME TypeOK, SavesInv, [Next]_vars
               PROVE  SavesInv'
    OBVIOUS
  <1> USE DEF SavesInv, SavesFailOnlyOnDisk
  <1>1. ASSUME NEW m, Encodable(m), SaveLocked(m)
        PROVE  SavesInv'
    <2>1. Encodable(Live(m))
      BY <1>1, LiveEncodable
    <2>2. Encodable(entries)' /\ Encodable(file)'
      BY <1>1, <2>1, SaveLockedMaps DEF Encodable
    <2> QED BY <1>1, <2>1, <2>2 DEF SaveLocked
  <1>2. ASSUME NEW h \in Hash, NEW r \in Reply, AddSample(h, r)
        PROVE  SavesInv'
    BY <1>1, <1>2, AddEncodable DEF AddSample
  <1>3. ASSUME NEW h \in Hash, GetHit(h)
        PROVE  SavesInv'
    <2>1. h \in DOMAIN entries
      BY <1>3 DEF GetHit, Replayable
    <2>2. Encodable([entries EXCEPT ![h].hits = @ + 1])
      <3>1. \A g \in DOMAIN entries :
               [entries EXCEPT ![h].hits = @ + 1][g].samples = entries[g].samples
        BY <2>1, HitIsMap DEF TypeOK
      <3> QED BY <3>1 DEF Encodable
    <2> QED BY <1>1, <1>3, <2>2 DEF GetHit
  <1>4. ASSUME NEW h \in Hash, GetExpired(h)
        PROVE  SavesInv'
    BY <1>4 DEF GetExpired, Encodable, Without
  <1>5. CASE Restart
    <2>1. Encodable(Live(file)) /\ Encodable(NoEntries)
      BY LiveEncodable DEF Encodable, NoEntries
    <2> QED BY <1>5, <2>1 DEF Restart, Encodable
  <1>6. CASE UNCHANGED <<entries, file, lastErr, lastSave>>
    BY <1>6 DEF Encodable
  <1> QED
    BY <1>2, <1>3, <1>4, <1>5, <1>6 DEF Next, AddRefused, Tick, vars

LEMMA SavesInit == Init => SavesInv
  BY DEF Init, SavesInv, SavesFailOnlyOnDisk, Encodable, NoEntries

\* No reply, JSON or not, can make the save of the pool fail, and a save that
\* fails leaves its error.
THEOREM SavesAlwaysFailOnlyOnDisk == Spec => []SavesFailOnlyOnDisk
  <1>1. SavesInv => SavesFailOnlyOnDisk
    BY DEF SavesInv
  <1> QED BY <1>1, TypeOKInit, TypeOKStep, SavesInit, SavesStep, PTL DEF Spec

-----------------------------------------------------------------------------
(* The pool is bounded                                                      *)

\* PoolBounded speaks of Cardinality, which says something of finite sets
\* only.
PoolInv ==
    /\ PoolBounded
    /\ IsFiniteSet(DOMAIN entries)
    /\ IsFiniteSet(DOMAIN file)

LEMMA PoolStep == TypeOK /\ PoolInv /\ [Next]_vars => PoolInv'
  <1> DEFINE Small(S) == IsFiniteSet(S) /\ Cardinality(S) <= MaxEntries
  <1> SUFFICES ASSUME TypeOK, PoolInv, [Next]_vars
               PROVE  Small(DOMAIN entries') /\ Small(DOMAIN file')
    BY DEF PoolInv, PoolBounded
  <1>1. Small(DOMAIN entries) /\ Small(DOMAIN file)
    BY DEF PoolInv, PoolBounded
  <1>2. MaxEntries \in Nat /\ MaxEntries >= 1
    BY ProbeStoreAssumption
  <1>3. ASSUME NEW S, NEW T \in SUBSET S, Small(S)
        PROVE  Small(T)
    <2>1. IsFiniteSet(T) /\ Cardinality(T) <= Cardinality(S)
      BY <1>3, FS_Subset
    <2>2. Cardinality(S) \in Nat /\ Cardinality(T) \in Nat
      BY <1>3, <2>1, FS_CardinalityType
    <2> QED BY <1>2, <1>3, <2>1, <2>2
  <1> HIDE DEF Small
  <1>4. \A m : DOMAIN Live(m) \subseteq DOMAIN m
    BY DEF Live
  <1>5. ASSUME NEW m, SaveLocked(m), Small(DOMAIN m)
        PROVE  Small(DOMAIN entries') /\ Small(DOMAIN file')
    <2>1. Small(DOMAIN Live(m))
      BY <1>3, <1>4, <1>5
    <2> QED BY <1>1, <1>5, <2>1, SaveLockedMaps
  <1>6. ASSUME NEW h \in Hash, NEW r \in Reply, AddSample(h, r)
        PROVE  Small(DOMAIN entries') /\ Small(DOMAIN file')
    <2>1. PICK m : SaveLocked(m) /\ DOMAIN m = DOMAIN entries \cup {h}
      BY <1>6, AddGrown
    <2>2. Small(DOMAIN entries \cup {h})
      <3>1. CASE h \in DOMAIN entries
        <4>1. DOMAIN entries \cup {h} = DOMAIN entries
          BY <3>1
        <4> QED BY <1>1, <4>1
      <3>2. CASE h \notin DOMAIN entries
        <4>1. ~(Cardinality(DOMAIN entries) >= MaxEntries)
          BY <1>6, <3>2 DEF AddSample, Full
        <4>2. IsFiniteSet(DOMAIN entries) /\ Cardinality(DOMAIN entries) \in Nat
          BY <1>1, FS_CardinalityType DEF Small
        <4>3. /\ IsFiniteSet(DOMAIN entries \cup {h})
              /\ Cardinality(DOMAIN entries \cup {h}) = Cardinality(DOMAIN entries) + 1
          BY <3>2, <4>2, FS_AddElement
        <4> QED BY <1>2, <4>1, <4>2, <4>3 DEF Small
      <3> QED BY <3>1, <3>2
    <2> QED BY <1>5, <2>1, <2>2
  <1>7. ASSUME NEW h \in Hash, GetHit(h)
        PROVE  Small(DOMAIN entries') /\ Small(DOMAIN file')
    <2>1. PICK m : SaveLocked(m) /\ DOMAIN m = DOMAIN entries
      BY <1>7, HitGrown
    <2> QED BY <1>1, <1>5, <2>1
  <1>8. ASSUME NEW h \in Hash, GetExpired(h)
        PROVE  Small(DOMAIN entries') /\ Small(DOMAIN file')
    <2>1. DOMAIN entries' \subseteq DOMAIN entries /\ file' = file
      BY <1>8 DEF GetExpired, Without
    <2> QED BY <1>1, <1>3, <2>1
  <1>9. CASE Restart
    <2>1. DOMAIN entries' \subseteq DOMAIN file /\ file' = file
      BY <1>4, <1>9 DEF Restart, NoEntries
    <2> QED BY <1>1, <1>3, <2>1
  <1>10. CASE UNCHANGED <<entries, file>>
    BY <1>1, <1>10
  <1> QED
    BY <1>6, <1>7, <1>8, <1>9, <1>10 DEF Next, AddRefused, Tick, vars

LEMMA PoolInit == Init => PoolInv
  <1> SUFFICES ASSUME Init PROVE PoolInv
    OBVIOUS
  <1>1. DOMAIN entries = {} /\ DOMAIN file = {}
    BY DEF Init, NoEntries
  <1>2. IsFiniteSet({}) /\ Cardinality({}) = 0
    BY FS_EmptySet
  <1> QED BY <1>1, <1>2, ProbeStoreAssumption DEF PoolInv, PoolBounded

\* The pool and its file never hold more than MaxEntries entries.
THEOREM PoolAlwaysBounded == Spec => []PoolBounded
  <1>1. PoolInv => PoolBounded
    BY DEF PoolInv
  <1> QED BY <1>1, TypeOKInit, TypeOKStep, PoolInit, PoolStep, PTL DEF Spec
=============================================================================
