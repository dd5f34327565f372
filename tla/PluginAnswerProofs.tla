------------------------- MODULE PluginAnswerProofs -------------------------
(***************************************************************************)
(* Every answer the plugin makes itself goes back to what the upstream     *)
(* answered, for every set of requests, configuration and bound: the       *)
(* theorem that follows an outcome from the hook that was told of it,      *)
(* through a store and its history, to the answer of a later request.      *)
(***************************************************************************)
EXTENDS PluginProofs, FiniteSetTheorems

Base == EP!TypeOK /\ EP!Inv /\ Shape /\ Order

-----------------------------------------------------------------------------
(* What lasts                                                               *)

LEMMA StageLasts ==
    ASSUME Base, [Next]_vars, NEW q \in Req, host[q].stage # "new"
    PROVE  /\ cfg' = cfg /\ asked'[q] = asked[q] /\ made'[q] = made[q]
           /\ host'[q].stage # "new" /\ host'[q].verdict = host[q].verdict
  <1> USE DEF Base
  <1>1. CASE UNCHANGED vars \/ Tick
    BY <1>1 DEF vars, Tick, pluginVars, engineVars
  <1>2. ASSUME NEW r \in Req, BareStep(r), EngineOnly
        PROVE  /\ cfg' = cfg /\ asked'[q] = asked[q] /\ made'[q] = made[q]
               /\ host'[q].stage # "new" /\ host'[q].verdict = host[q].verdict
    BY <1>2, BareDoes DEF EngineOnly, pluginVars, OthersSame, EngineSame
  <1>3. ASSUME NEW r \in Req, OwnStep(r), r # q
        PROVE  /\ cfg' = cfg /\ asked'[q] = asked[q] /\ made'[q] = made[q]
               /\ host'[q].stage # "new" /\ host'[q].verdict = host[q].verdict
    BY <1>3, OwnOrder, OwnChanges, OthersPluginSame DEF OthersSame, EngineSame, PluginSame
  <1>4. ASSUME OwnStep(q)
        PROVE  /\ cfg' = cfg /\ asked'[q] = asked[q] /\ made'[q] = made[q]
               /\ host'[q].stage # "new" /\ host'[q].verdict = host[q].verdict
    <2>1. asked[q] # NotAsked /\ hook[q].at \notin {"items", "item"}
      BY AskedFirst DEF Order, OrderOf, HookOrder
    <2>2. \A req : ~AskRefused(q, req) /\ ~AskBlocked(q, req) /\ ~AskFurther(q, req)
      BY <2>1 DEF AskRefused, AskBlocked, AskFurther, Asks
    <2>3. /\ ~ItemUnknown(q) /\ ~ItemRead(q) /\ ~ItemKnown(q) /\ ~ItemExpired(q)
          /\ ~Rewrite(q) /\ ~Skip(q) /\ ~Replay(q) /\ ~Miss(q)
      BY <2>1 DEF ItemUnknown, ItemRead, ItemKnown, ItemExpired, Examines, Rewrite, Skip,
                  Replay, Miss, LooksUp, Examined
    <2>4. CASE HeaderInit(q)
      BY <2>4, HeaderInitDoes DEF HeaderInit, EngineOnly, pluginVars
    <2>5. ASSUME NEW original \in Original, NEW fit \in BOOLEAN, Response(q, original, fit)
          PROVE  /\ cfg' = cfg /\ asked'[q] = asked[q] /\ made'[q] = made[q]
                 /\ host'[q].stage # "new" /\ host'[q].verdict = host[q].verdict
      BY <2>5, ResponseDoes DEF Response
    <2>6. CASE End(q)
      BY <2>6, EndDoes DEF End
    <2>7. ASSUME NEW d \in Delivery, CompleteRecord(q, d)
          PROVE  /\ cfg' = cfg /\ asked'[q] = asked[q] /\ made'[q] = made[q]
                 /\ host'[q].stage # "new" /\ host'[q].verdict = host[q].verdict
      <3>1. E!CompleteRecord(q, d, TRUE) /\ UNCHANGED <<cfg, asked, made>>
        BY <2>7 DEF CompleteRecord
      <3>2. RecordStep(q, d)
        BY <3>1, CompleteRecordDoes
      <3>3. host'[q] = host[q]
        BY <3>2 DEF RecordStep
      <3> QED BY <3>1, <3>3
    <2>8. CASE AddSample(q) \/ Mark(q) \/ SaveMark(q)
      BY <2>8 DEF AddSample, Mark, SaveMark, pluginVars, engineVars
    <2> QED BY <1>4, <2>2, <2>3, <2>4, <2>5, <2>6, <2>7, <2>8 DEF OwnStep
  <1> QED BY <1>1, <1>2, <1>3, <1>4, Steps

\* All that is left to do for a request whose outcome was told.
LEMMA ToldSteps ==
    ASSUME Base, NEW q \in Req, Told(q), OwnStep(q)
    PROVE  AddSample(q) \/ Mark(q) \/ SaveMark(q)
  <1> USE DEF Base
  <1>1. host[q].stage = "ended" /\ \A d \in Delivery : comp[q][d].at # "record"
    BY NotEnded, Recording
  <1>2. asked[q] # NotAsked /\ hook[q].at \notin {"items", "item"}
    BY <1>1, AskedFirst DEF Order, OrderOf, HookOrder
  <1>3. \A req : ~AskRefused(q, req) /\ ~AskBlocked(q, req) /\ ~AskFurther(q, req)
    BY <1>2 DEF AskRefused, AskBlocked, AskFurther, Asks
  <1>4. /\ ~ItemUnknown(q) /\ ~ItemRead(q) /\ ~ItemKnown(q) /\ ~ItemExpired(q)
        /\ ~Rewrite(q) /\ ~Skip(q) /\ ~Replay(q) /\ ~Miss(q)
    BY <1>2 DEF ItemUnknown, ItemRead, ItemKnown, ItemExpired, Examines, Rewrite, Skip,
                Replay, Miss, LooksUp, Examined
  <1>5. /\ ~HeaderInit(q) /\ ~End(q)
        /\ \A original \in Original, fit \in BOOLEAN : ~Response(q, original, fit)
    BY <1>1, HeaderInitDoes, EndDoes, ResponseDoes DEF HeaderInit, End, Response
  <1>6. \A d \in Delivery : ~CompleteRecord(q, d)
    BY <1>1 DEF CompleteRecord, E!CompleteRecord
  <1> QED BY <1>3, <1>4, <1>5, <1>6 DEF OwnStep

\* What was told of a request is told for good.
LEMMA ToldLasts ==
    ASSUME Base, [Next]_vars, NEW q \in Req, Told(q)
    PROVE  /\ told'[q] = told[q] /\ result'[q] = result[q] /\ told_at'[q] = told_at[q]
           /\ asked'[q] = asked[q] /\ host'[q].verdict = host[q].verdict /\ cfg' = cfg
           /\ host'[q].outcome = host[q].outcome /\ host'[q].original = host[q].original
  <1> USE DEF Base
  <1>1. host[q].stage = "ended" /\ \A d \in Delivery : comp[q][d].at # "record"
    BY NotEnded, Recording
  <1>2. asked'[q] = asked[q] /\ host'[q].verdict = host[q].verdict /\ cfg' = cfg
    BY <1>1, StageLasts
  <1>3. told'[q] = told[q] /\ result'[q] = result[q] /\ told_at'[q] = told_at[q]
    <2>1. CASE UNCHANGED vars \/ Tick
      BY <2>1 DEF vars, Tick, pluginVars, engineVars
    <2>2. ASSUME NEW r \in Req, BareStep(r), EngineOnly
          PROVE  told'[q] = told[q] /\ result'[q] = result[q] /\ told_at'[q] = told_at[q]
      BY <2>2, BareDoes DEF EngineOnly, pluginVars, OthersSame, EngineSame
    <2>3. ASSUME NEW r \in Req, OwnStep(r), r # q
          PROVE  told'[q] = told[q] /\ result'[q] = result[q] /\ told_at'[q] = told_at[q]
      BY <2>3, OwnOrder, OthersPluginSame DEF OthersSame, EngineSame, PluginSame
    <2>4. ASSUME OwnStep(q)
          PROVE  told'[q] = told[q] /\ result'[q] = result[q] /\ told_at'[q] = told_at[q]
      BY <2>4, ToldSteps DEF AddSample, Mark, SaveMark, pluginVars, engineVars
    <2> QED BY <2>1, <2>2, <2>3, <2>4, Steps
  <1>4. host'[q].outcome = host[q].outcome /\ host'[q].original = host[q].original
    <2>1. CASE UNCHANGED vars \/ Tick
      BY <2>1 DEF vars, Tick, engineVars
    <2>2. ASSUME NEW r \in Req, BareStep(r)
          PROVE  host'[q].outcome = host[q].outcome /\ host'[q].original = host[q].original
      BY <2>2, BareDoes DEF OthersSame, EngineSame
    <2>3. ASSUME NEW r \in Req, OwnStep(r), r # q
          PROVE  host'[q] = host[q]
      BY <2>3, OwnOrder DEF OthersSame, EngineSame
    <2>4. ASSUME OwnStep(q)
          PROVE  host' = host
      BY <2>4, ToldSteps DEF AddSample, Mark, SaveMark, engineVars
    <2> QED BY <2>1, <2>2, <2>3, <2>4, Steps
  <1> QED BY <1>2, <1>3, <1>4

-----------------------------------------------------------------------------
(* The history of the guard store                                           *)

\* A failure in the history is one that request ev.payload was told.
LoggedFailure(ev) ==
    LET q == ev.payload
    IN  /\ q \in Req /\ Failed(q) /\ result[q].status = ev.status
        /\ told_at[q] \in Nat /\ ev.at = told_at[q]
        /\ \E form \in Forms(q) : ev.keys = SessionKeys(form) /\ ev.input = InputHashes(form)

IsFail(ev) == ev.kind = "fail"

GuardLink ==
    /\ \A n \in DOMAIN guardLog : IsFail(guardLog[n]) => LoggedFailure(guardLog[n])
    /\ \A n, m \in DOMAIN guardLog :
          /\ IsFail(guardLog[n]) /\ IsFail(guardLog[m])
          /\ guardLog[n].payload = guardLog[m].payload
          => n = m

LEMMA FailedTold ==
    ASSUME Base, NEW q \in Req, Failed(q)
    PROVE  /\ Told(q) /\ host[q].stage = "ended" /\ host[q].outcome = "failed"
           /\ result[q].status \in Failure
  <1>1. /\ EP!OneTeller(q) /\ OrderOf(q) /\ told[q] \in EP!Heard
        /\ SentUpstream(q) /\ told[q].fails = 1
    BY DEF Base, EP!Inv, EP!InvOf, Order, EP!TypeOK, Failed
  <1>2. Told(q)
    BY <1>1 DEF Told, EP!Heard
  <1>3. host[q].stage = "ended" /\ host[q].outcome = "failed"
    BY <1>1, <1>2, NotEnded DEF EP!OneTeller, Base
  <1>4. "failed" \in OutcomesOf(result[q]) /\ result[q].status \in {0, 200} \cup Failure
    BY <1>1, <1>3 DEF OrderOf, ResultOrder
  <1> QED BY <1>2, <1>3, <1>4 DEF OutcomesOf

LEMMA FailedLasts ==
    ASSUME Base, [Next]_vars, NEW q \in Req, Failed(q)
    PROVE  /\ Failed(q)' /\ result'[q] = result[q] /\ told_at'[q] = told_at[q]
           /\ Forms(q)' = Forms(q) /\ asked'[q] = asked[q]
  BY FailedTold, ToldLasts DEF Failed, SentUpstream, Forms, Sent

LEMMA LoggedLasts ==
    ASSUME Base, [Next]_vars, NEW ev, LoggedFailure(ev)
    PROVE  LoggedFailure(ev)'
  BY FailedLasts DEF LoggedFailure

LEMMA Longer ==
    ASSUME NEW S, NEW s \in Seq(S), NEW x
    PROVE  /\ DOMAIN s = 1..Len(s) /\ Len(s) \in Nat
           /\ DOMAIN Append(s, x) = DOMAIN s \cup {Len(s) + 1}
           /\ \A n \in DOMAIN s : Append(s, x)[n] = s[n]
           /\ Append(s, x)[Len(s) + 1] = x
  <1>1. s \in Seq(S \cup {x})
    OBVIOUS
  <1> QED BY <1>1

\* m without some of its entries.
Fewer(m, n) == DOMAIN n \subseteq DOMAIN m /\ \A x \in DOMAIN n : n[x] = m[x]

LEMMA SaveDrops ==
    ASSUME NEW its, NEW cs, G!SaveLocked(its, cs)
    PROVE  Fewer(its, items')
  BY DEF G!SaveLocked, G!LiveItems, G!Keep, Fewer

\* The failure of r, as a delivery that knows the body req records it.
FailureEvent(r, req) ==
    [kind |-> "fail", keys |-> SessionKeys(req), input |-> InputHashes(req),
     status |-> result[r].status, payload |-> r, at |-> now]

RecordsFailure(r, d) ==
    /\ CompleteRecord(r, d)
    /\ told'[r].fails # told[r].fails
    /\ guardLog' = Append(guardLog, FailureEvent(r, EntryBody(r, comp[r][d].info)))

LEMMA SuccessLogged ==
    ASSUME NEW req, RecordSuccess(req)
    PROVE  /\ \/ guardLog' = guardLog
              \/ \E ev : ~IsFail(ev) /\ guardLog' = Append(guardLog, ev)
           /\ items' = items
  <1>1. CASE G!RecordSuccess(SessionKeys(req), 200)
    <2>1. ~IsFail([kind |-> "ok", keys |-> SessionKeys(req)])
      BY DEF IsFail
    <2> QED BY <1>1, <2>1 DEF G!RecordSuccess
  <1> QED BY <1>1 DEF RecordSuccess, guardVars

\* What a step of request r adds to the history, and does to the items.
LEMMA GuardChanges ==
    ASSUME Base, NEW r \in Req, OwnStep(r)
    PROVE  /\ \/ guardLog' = guardLog
              \/ \E ev : ~IsFail(ev) /\ guardLog' = Append(guardLog, ev)
              \/ \E d \in Delivery : RecordsFailure(r, d)
           /\ Fewer(items, items') \/ Mark(r)
  <1> DEFINE LogGrows == \/ guardLog' = guardLog
                         \/ \E ev : ~IsFail(ev) /\ guardLog' = Append(guardLog, ev)
                         \/ \E d \in Delivery : RecordsFailure(r, d)
  <1>1. Fewer(items, items) /\ (UNCHANGED guardVars => guardLog' = guardLog /\ items' = items)
    BY DEF Fewer, guardVars
  <1>2. ASSUME NEW req \in Request[cfg],
               AskRefused(r, req) \/ AskBlocked(r, req) \/ AskFurther(r, req)
        PROVE  UNCHANGED guardVars
    BY <1>2 DEF AskRefused, AskBlocked, AskFurther, Asks
  <1>3. CASE ItemUnknown(r) \/ Rewrite(r) \/ Skip(r) \/ HeaderInit(r) \/ End(r)
    BY <1>1, <1>3 DEF ItemUnknown, Rewrite, Skip, HeaderInit, EngineOnly, End
  <1>4. CASE Replay(r) \/ Miss(r) \/ AddSample(r)
    BY <1>1, <1>4 DEF Replay, Miss, AddSample
  <1>5. CASE ItemRead(r) \/ ItemKnown(r)
    BY <1>1, <1>5 DEF ItemRead, ItemKnown, G!IsInvalidRead, G!IsInvalidHit
  <1>6. CASE ItemExpired(r)
    BY <1>6 DEF ItemExpired, G!IsInvalidDelete, G!Keep, Fewer
  <1>7. ASSUME NEW original \in Original, NEW fit \in BOOLEAN, Response(r, original, fit)
        PROVE  LogGrows /\ items' = items
    BY <1>7, SuccessLogged DEF Response
  <1>8. ASSUME NEW d \in Delivery, CompleteRecord(r, d)
        PROVE  LogGrows /\ Fewer(items, items')
    <2> DEFINE req == EntryBody(r, comp[r][d].info)
    <2>1. \/ RecordSuccess(req)
          \/ told'[r].fails # told[r].fails /\ RecordFailure(r, req, result[r].status)
          \/ UNCHANGED guardVars
      BY <1>8 DEF CompleteRecord
    <2>2. CASE /\ told'[r].fails # told[r].fails
               /\ G!RecordFailure(SessionKeys(req), InputHashes(req), result[r].status, r)
      <3>1. guardLog' = Append(guardLog, FailureEvent(r, req))
        BY <2>2 DEF G!RecordFailure, FailureEvent
      <3>2. Fewer(items, items')
        BY <2>2, SaveDrops DEF G!RecordFailure
      <3> QED BY <1>8, <2>2, <3>1, <3>2 DEF RecordsFailure
    <2> HIDE DEF req
    <2>3. CASE told'[r].fails # told[r].fails /\ RecordFailure(r, req, result[r].status)
      BY <1>1, <2>2, <2>3 DEF RecordFailure
    <2> QED BY <1>1, <2>1, <2>3, SuccessLogged
  <1>9. CASE Mark(r)
    BY <1>9 DEF Mark, G!MarkInvalidSet
  <1>10. CASE SaveMark(r)
    BY <1>1, <1>10, SaveDrops DEF SaveMark, G!MarkInvalidSave
  <1> QED
    BY <1>1, <1>2, <1>3, <1>4, <1>5, <1>6, <1>7, <1>8, <1>9, <1>10 DEF OwnStep

LEMMA FailureLogged ==
    ASSUME Base, GP!TypeOK, NEW r \in Req, NEW d \in Delivery, RecordsFailure(r, d),
           NEW ev, ev = FailureEvent(r, EntryBody(r, comp[r][d].info))
    PROVE  ev.payload = r /\ ~Told(r) /\ LoggedFailure(ev)'
  <1> USE DEF Base
  <1>1. /\ CompleteRecord(r, d) /\ E!CompleteRecord(r, d, TRUE)
        /\ told'[r].fails # told[r].fails
        /\ result' = result /\ asked' = asked /\ cfg' = cfg
        /\ told_at'[r] = now
    BY DEF RecordsFailure, CompleteRecord, Shape
  <1>2. /\ comp[r][d].at = "record" /\ host'[r] = host[r]
        /\ told'[r].fails = told[r].fails + 1
    <2>1. RecordStep(r, d)
      BY <1>1, CompleteRecordDoes
    <2> QED BY <1>1, <2>1 DEF RecordStep
  <1>3. /\ ~Told(r) /\ told[r].fails = 0 /\ SentUpstream(r)
    BY <1>2, Recording
  <1>4. Failed(r)' /\ Forms(r)' = Forms(r)
    BY <1>1, <1>2, <1>3 DEF Failed, SentUpstream, Forms, Sent
  <1> DEFINE req == EntryBody(r, comp[r][d].info)
  <1>5. req \in Forms(r) /\ ev = FailureEvent(r, req)
    BY DEF EntryBody, Forms
  <1> HIDE DEF req
  <1>6. /\ ev.payload = r /\ ev.keys = SessionKeys(req) /\ ev.input = InputHashes(req)
        /\ ev.status = result[r].status /\ ev.at = now /\ now \in Nat
    BY <1>5 DEF FailureEvent, GP!TypeOK
  <1>7. result'[r].status = ev.status /\ told_at'[r] \in Nat /\ ev.at = told_at'[r]
    BY <1>1, <1>6
  <1>8. \E form \in Forms(r)' : ev.keys = SessionKeys(form) /\ ev.input = InputHashes(form)
    BY <1>4, <1>5, <1>6
  <1>9. LoggedFailure(ev)'
    BY <1>4, <1>6, <1>7, <1>8 DEF LoggedFailure
  <1> QED BY <1>3, <1>6, <1>9

LEMMA LinkExtended ==
    ASSUME Base, GP!TypeOK, GuardLink, [Next]_vars, NEW ev, guardLog' = Append(guardLog, ev),
           IsFail(ev) => LoggedFailure(ev)' /\ ~Told(ev.payload)
    PROVE  GuardLink'
  <1>1. /\ DOMAIN guardLog = 1..Len(guardLog) /\ Len(guardLog) \in Nat
        /\ DOMAIN guardLog' = DOMAIN guardLog \cup {Len(guardLog) + 1}
        /\ \A n \in DOMAIN guardLog : guardLog'[n] = guardLog[n]
        /\ guardLog'[Len(guardLog) + 1] = ev
    <2>1. guardLog \in Seq(GP!Events)
      BY DEF GP!TypeOK
    <2> QED BY <2>1, Longer
  <1>2. ASSUME NEW n \in DOMAIN guardLog, IsFail(guardLog[n])
        PROVE  LoggedFailure(guardLog[n])' /\ Told(guardLog[n].payload)
    <2>1. LoggedFailure(guardLog[n])
      BY <1>2 DEF GuardLink
    <2>2. \A e : LoggedFailure(e) => LoggedFailure(e)'
      BY LoggedLasts
    <2>3. \A e : LoggedFailure(e) => Told(e.payload)
      BY FailedTold DEF LoggedFailure
    <2> QED BY <2>1, <2>2, <2>3
  <1>3. ASSUME NEW n \in DOMAIN guardLog', IsFail(guardLog'[n])
        PROVE  LoggedFailure(guardLog[n])'
    <2>1. CASE n \in DOMAIN guardLog
      <3>1. \A e : e = guardLog[n] => IsFail(e) /\ LoggedFailure(e)
        BY <1>1, <1>3, <2>1 DEF GuardLink
      <3>2. \A e : LoggedFailure(e) => LoggedFailure(e)'
        BY LoggedLasts
      <3>3. guardLog'[n] = guardLog[n]
        BY <1>1, <2>1
      <3> QED BY <3>1, <3>2, <3>3
    <2>2. CASE n = Len(guardLog) + 1
      BY <1>1, <1>3, <2>2
    <2> QED BY <1>1, <2>1, <2>2
  <1>4. ASSUME NEW n \in DOMAIN guardLog', NEW m \in DOMAIN guardLog',
               IsFail(guardLog'[n]), IsFail(guardLog'[m]),
               guardLog'[n].payload = guardLog'[m].payload
        PROVE  n = m
    <2>1. CASE n \in DOMAIN guardLog /\ m \in DOMAIN guardLog
      BY <1>1, <1>4, <2>1 DEF GuardLink
    <2>2. ASSUME NEW i \in DOMAIN guardLog, IsFail(guardLog[i]), IsFail(ev),
                 guardLog[i].payload = ev.payload
          PROVE  FALSE
      BY <1>2, <2>2
    <2> QED BY <1>1, <1>4, <2>1, <2>2
  <1> QED BY <1>3, <1>4 DEF GuardLink, IsFail

LEMMA GuardLinkStep ==
    ASSUME Base, GP!TypeOK, GuardLink, [Next]_vars
    PROVE  GuardLink'
  <1>1. CASE guardLog' = guardLog
    <2>1. \A e : LoggedFailure(e) => LoggedFailure(e)'
      BY LoggedLasts
    <2> QED BY <1>1, <2>1 DEF GuardLink, IsFail
  <1>2. CASE UNCHANGED vars \/ Tick \/ EngineOnly
    BY <1>1, <1>2 DEF vars, Tick, EngineOnly, guardVars
  <1>3. ASSUME NEW r \in Req, OwnStep(r)
        PROVE  GuardLink'
    <2>1. ASSUME NEW d \in Delivery, RecordsFailure(r, d)
          PROVE  GuardLink'
      <3>1. PICK ev : ev = FailureEvent(r, EntryBody(r, comp[r][d].info))
        OBVIOUS
      <3>2. ev.payload = r /\ ~Told(r) /\ LoggedFailure(ev)'
        BY <2>1, <3>1, FailureLogged
      <3>3. guardLog' = Append(guardLog, ev)
        BY <2>1, <3>1 DEF RecordsFailure
      <3> QED BY <3>2, <3>3, LinkExtended
    <2>2. ASSUME NEW ev, ~IsFail(ev), guardLog' = Append(guardLog, ev)
          PROVE  GuardLink'
      BY <2>2, LinkExtended
    <2> QED BY <1>1, <1>3, <2>1, <2>2, GuardChanges
  <1> QED BY <1>2, <1>3, Steps

-----------------------------------------------------------------------------
(* The list of invalid items                                                *)

\* The upstream told request q that it could not verify item i.
Dead(q, i) ==
    q \in Req /\ Failed(q) /\ result[q].status = 400 /\ result[q].names = i

\* What a hook call that looks at items, or marks one, knows of them.
MarkOrder(r) ==
    /\ hook[r].at = "mark" => Dead(r, hook[r].item)
    /\ hook[r].at \in {"items", "item"} =>
          /\ Range(hook[r].todo) \subseteq Range(ItemIds(asked[r]))
          /\ hook[r].todo # <<>> => IsOn(cfg.block_invalid_signatures)
    /\ hook[r].at = "item" =>
          /\ IsOn(cfg.block_invalid_signatures)
          /\ \E i \in Range(ItemIds(asked[r])) : Dead(hook[r].of, i)

MarkLink ==
    /\ \A i \in DOMAIN items : Dead(items[i].payload, i)
    /\ \A r \in Req : MarkOrder(r)

LEMMA DeadLasts ==
    ASSUME Base, [Next]_vars, NEW q, NEW i, Dead(q, i)
    PROVE  Dead(q, i)'
  BY FailedLasts DEF Dead

LEMMA TailRange ==
    ASSUME NEW S, NEW s \in Seq(S), s # <<>>
    PROVE  Range(Tail(s)) \subseteq Range(s) /\ Head(s) \in Range(s)
  <1>1. /\ DOMAIN s = 1..Len(s) /\ Len(s) \in Nat \ {0} /\ Head(s) = s[1]
        /\ DOMAIN Tail(s) = 1..(Len(s) - 1)
        /\ \A n \in DOMAIN Tail(s) : Tail(s)[n] = s[n + 1] /\ n + 1 \in DOMAIN s
    OBVIOUS
  <1> QED BY <1>1 DEF Range

LEMMA MarkOrderFrame ==
    ASSUME Base, MarkLink, [Next]_vars, NEW q \in Req, cfg' = cfg, PluginSame(q)
    PROVE  MarkOrder(q)'
  <1>1. MarkOrder(q) /\ asked'[q] = asked[q] /\ hook'[q] = hook[q]
    BY DEF MarkLink, PluginSame
  <1>2. \A p, i : Dead(p, i) => Dead(p, i)'
    BY DeadLasts
  <1> QED BY <1>1, <1>2 DEF MarkOrder

LEMMA ItemsDead ==
    ASSUME Base, MarkLink, [Next]_vars, NEW r \in Req, Fewer(items, items') \/ Mark(r)
    PROVE  \A i \in DOMAIN items' : Dead(items[i].payload, i)'
  <1>1. \A p, i : Dead(p, i) => Dead(p, i)'
    BY DeadLasts
  <1>2. CASE Fewer(items, items')
    BY <1>1, <1>2 DEF Fewer, MarkLink
  <1>3. CASE Mark(r)
    <2>1. Dead(r, hook[r].item)
      BY <1>3 DEF Mark, MarkLink, MarkOrder
    <2>2. PICK c : items' = G!Put(items, hook[r].item,
                                  [expire |-> G!ItemExpiry(c), payload |-> r])
      BY <1>3 DEF Mark, G!MarkInvalidSet
    <2>3. /\ DOMAIN items' = DOMAIN items \cup {hook[r].item}
          /\ items'[hook[r].item].payload = r
          /\ \A i \in DOMAIN items \ {hook[r].item} : items'[i] = items[i]
      BY <2>2 DEF G!Put
    <2> QED BY <1>1, <2>1, <2>3 DEF MarkLink
  <1> QED BY <1>2, <1>3

LEMMA MarkOrderOwn ==
    ASSUME Base, MarkLink, [Next]_vars, NEW r \in Req, OwnStep(r)
    PROVE  MarkOrder(r)'
  <1>1. DOMAIN hook = Req /\ DOMAIN asked = Req /\ MarkOrder(r) /\ OrderOf(r)
    BY DEF Base, Shape, MarkLink, Order
  <1>2. cfg' = cfg
    BY OwnChanges
  <1>3. \A p, i : Dead(p, i) => Dead(p, i)'
    BY DeadLasts
  <1>4. ASSUME hook'[r].at \in {"idle", "sample"}
        PROVE  MarkOrder(r)'
    BY <1>4 DEF MarkOrder
  <1>5. ASSUME hook' = hook, asked' = asked
        PROVE  MarkOrder(r)'
    BY <1>1, <1>2, <1>3, <1>5 DEF MarkOrder
  <1>6. ASSUME NEW req \in Request[cfg], AskRefused(r, req) \/ AskBlocked(r, req)
        PROVE  MarkOrder(r)'
    BY <1>1, <1>4, <1>6 DEF AskRefused, AskBlocked, Answer, Then, Resting
  <1>7. ASSUME NEW req \in Request[cfg], AskFurther(r, req)
        PROVE  MarkOrder(r)'
    <2>1. asked'[r] = req /\ hook'[r] = [at |-> "items", todo |-> IdsToCheck(req)]
      BY <1>1, <1>7 DEF AskFurther, Asks, Then, Examining
    <2>2. \/ IdsToCheck(req) = <<>>
          \/ IdsToCheck(req) = ItemIds(req) /\ IsOn(cfg.block_invalid_signatures)
      BY DEF IdsToCheck, ExaminedIds
    <2>3. Range(IdsToCheck(req)) \subseteq Range(ItemIds(req))
      BY <2>2 DEF Range
    <2> QED BY <1>2, <2>1, <2>2, <2>3 DEF MarkOrder
  <1>8. CASE ItemUnknown(r) \/ ItemRead(r)
    <2>1. /\ hook[r].at = "items" /\ hook[r].todo # <<>> /\ hook[r].todo \in Seq(Item)
          /\ asked' = asked
      BY <1>1, <1>8 DEF ItemUnknown, ItemRead, Examines, OrderOf, HookOrder
    <2>2. /\ Range(Tail(hook[r].todo)) \subseteq Range(ItemIds(asked[r]))
          /\ Head(hook[r].todo) \in Range(ItemIds(asked[r]))
          /\ IsOn(cfg.block_invalid_signatures)
      BY <1>1, <2>1, TailRange DEF MarkOrder
    <2>3. CASE ItemUnknown(r)
      <3>1. hook'[r] = [at |-> "items", todo |-> Tail(hook[r].todo)]
        BY <1>1, <2>3 DEF ItemUnknown, Then, Examining
      <3> QED BY <1>2, <2>1, <2>2, <3>1 DEF MarkOrder
    <2>4. CASE ItemRead(r)
      <3>1. /\ hook'[r].at = "item" /\ hook'[r].todo = Tail(hook[r].todo)
            /\ hook'[r].of = items[Head(hook[r].todo)].payload
            /\ Head(hook[r].todo) \in DOMAIN items
        BY <1>1, <2>4 DEF ItemRead, Then, G!IsInvalidRead
      <3>2. Dead(hook'[r].of, Head(hook[r].todo))
        BY <3>1 DEF MarkLink
      <3>3. \A p : p = hook'[r].of => Dead(p, Head(hook[r].todo))
        BY <3>2
      <3>4. \E i \in Range(ItemIds(asked[r])) : Dead(hook[r].of, i)'
        BY <1>3, <2>2, <3>3
      <3>5. Range(ItemIds(asked[r]))' = Range(ItemIds(asked[r]))
        BY <2>1
      <3> QED BY <1>2, <2>2, <3>1, <3>4, <3>5 DEF MarkOrder
    <2> QED BY <1>8, <2>3, <2>4
  <1>9. CASE ItemExpired(r)
    <2>1. hook[r].at = "item" /\ asked' = asked
          /\ hook'[r] = [at |-> "items", todo |-> hook[r].todo]
      BY <1>1, <1>9 DEF ItemExpired, Then, Examining
    <2> QED BY <1>1, <1>2, <2>1 DEF MarkOrder
  <1>10. CASE ItemKnown(r) \/ Rewrite(r) \/ Skip(r) \/ Replay(r) \/ Miss(r)
    BY <1>1, <1>4, <1>10 DEF ItemKnown, Rewrite, Skip, Replay, Miss, Answer, Then, Resting
  <1>11. CASE HeaderInit(r) \/ SaveMark(r) \/ End(r)
    BY <1>5, <1>11 DEF HeaderInit, EngineOnly, SaveMark, End, pluginVars
  <1>12. ASSUME NEW original \in Original, NEW fit \in BOOLEAN, Response(r, original, fit)
         PROVE  MarkOrder(r)'
    BY <1>1, <1>4, <1>12 DEF Response, Then, Resting
  <1>13. CASE AddSample(r) \/ Mark(r)
    BY <1>1, <1>4, <1>13 DEF AddSample, Mark, Then, Resting
  <1>14. ASSUME NEW d \in Delivery, CompleteRecord(r, d)
         PROVE  MarkOrder(r)'
    <2>1. /\ comp[r][d].at = "record" /\ host'[r] = host[r] /\ result' = result
          /\ told'[r].fails # told[r].fails => told'[r].fails = told[r].fails + 1
      <3>1. E!CompleteRecord(r, d, TRUE) /\ result' = result
        BY <1>14 DEF CompleteRecord
      <3>2. RecordStep(r, d)
        BY <3>1, CompleteRecordDoes DEF Base
      <3> QED BY <3>1, <3>2 DEF RecordStep
    <2>2. told[r].fails = 0 /\ SentUpstream(r)
      BY <2>1, Recording DEF Base
    <2>3. \/ hook'[r].at \in {"idle", "sample"}
          \/ /\ hook'[r] = [at |-> "mark", item |-> result[r].names]
             /\ told'[r].fails # told[r].fails /\ NamesInvalidItem(result[r])
      BY <1>1, <1>14 DEF CompleteRecord, Then, Resting
    <2>4. CASE /\ hook'[r] = [at |-> "mark", item |-> result[r].names]
               /\ told'[r].fails # told[r].fails /\ NamesInvalidItem(result[r])
      <3>1. Failed(r)'
        BY <2>1, <2>2, <2>4 DEF Failed, SentUpstream
      <3>2. Dead(r, hook[r].item)'
        BY <2>1, <2>4, <3>1 DEF Dead, NamesInvalidItem
      <3> QED BY <2>4, <3>2 DEF MarkOrder
    <2> QED BY <1>4, <2>3, <2>4
  <1> QED
    BY <1>6, <1>7, <1>8, <1>9, <1>10, <1>11, <1>12, <1>13, <1>14 DEF OwnStep

LEMMA MarkLinkStep ==
    ASSUME Base, MarkLink, [Next]_vars
    PROVE  MarkLink'
  <1>1. CASE UNCHANGED vars \/ Tick \/ EngineOnly
    <2>1. cfg' = cfg /\ items' = items /\ \A q \in Req : PluginSame(q)
      BY <1>1 DEF vars, Tick, EngineOnly, guardVars, pluginVars, PluginSame
    <2>2. \A p, i : Dead(p, i) => Dead(p, i)'
      BY DeadLasts
    <2> QED BY <2>1, <2>2, MarkOrderFrame DEF MarkLink
  <1>2. ASSUME NEW r \in Req, OwnStep(r)
        PROVE  MarkLink'
    <2>1. \A q \in Req \ {r} : PluginSame(q)
      BY <1>2, OthersPluginSame DEF Base
    <2>2. \A q \in Req : MarkOrder(q)'
      BY <1>2, <2>1, OwnChanges, MarkOrderFrame, MarkOrderOwn
    <2>3. \A i \in DOMAIN items' : Dead(items[i].payload, i)'
      BY <1>2, GuardChanges, ItemsDead
    <2> QED BY <2>2, <2>3 DEF MarkLink
  <1> QED BY <1>1, <1>2, Steps

-----------------------------------------------------------------------------
(* The history of the probe store                                           *)

\* Request q succeeded, and a sample of it was collected under hash h.
Taught(q, h) ==
    /\ q \in Req /\ Told(q) /\ SentUpstream(q) /\ host[q].outcome = "succeeded"
    /\ told[q].samples # <<>> /\ KeyOf(q) = h

ProbeLink ==
    /\ \A n \in DOMAIN probeLog :
          probeLog[n].kind = "add" /\ Taught(probeLog[n].reply, probeLog[n].hash)
    /\ \A n, m \in DOMAIN probeLog : probeLog[n].reply = probeLog[m].reply => n = m
    /\ \A r \in Req : hook[r].at = "sample" =>
          Taught(r, hook[r].hash) /\ \A n \in DOMAIN probeLog : probeLog[n].reply # r

LEMMA TaughtLasts ==
    ASSUME Base, [Next]_vars, NEW q, NEW h, Taught(q, h)
    PROVE  Taught(q, h)'
  <1>1. /\ told'[q] = told[q] /\ asked'[q] = asked[q]
        /\ host'[q].verdict = host[q].verdict /\ host'[q].outcome = host[q].outcome
        /\ host'[q].original = host[q].original
    BY ToldLasts DEF Taught
  <1>2. Told(q)' /\ SentUpstream(q)' /\ KeyOf(q)' = KeyOf(q)
    BY <1>1 DEF Taught, Told, SentUpstream, KeyOf, Sent
  <1> QED BY <1>1, <1>2 DEF Taught

SampleEvent(h, r) == [kind |-> "add", hash |-> h, reply |-> r, at |-> now]

LEMMA ProbeChanges ==
    ASSUME NEW r \in Req, OwnStep(r)
    PROVE  \/ probeLog' = probeLog
           \/ /\ hook[r].at = "sample" /\ hook' = [hook EXCEPT ![r] = Resting]
              /\ probeLog' = Append(probeLog, SampleEvent(hook[r].hash, r))
  <1>1. UNCHANGED probeVars => probeLog' = probeLog
    BY DEF probeVars
  <1>2. ASSUME NEW req \in Request[cfg],
               AskRefused(r, req) \/ AskBlocked(r, req) \/ AskFurther(r, req)
        PROVE  UNCHANGED probeVars
    BY <1>2 DEF AskRefused, AskBlocked, AskFurther, Asks
  <1>3. CASE ItemUnknown(r) \/ ItemRead(r) \/ ItemKnown(r) \/ ItemExpired(r)
    BY <1>1, <1>3 DEF ItemUnknown, ItemRead, ItemKnown, ItemExpired
  <1>4. CASE Rewrite(r) \/ Skip(r) \/ HeaderInit(r) \/ End(r) \/ Mark(r) \/ SaveMark(r)
    BY <1>1, <1>4 DEF Rewrite, Skip, HeaderInit, EngineOnly, End, Mark, SaveMark
  <1>5. ASSUME NEW original \in Original, NEW fit \in BOOLEAN, Response(r, original, fit)
        PROVE  UNCHANGED probeVars
    BY <1>5 DEF Response
  <1>6. ASSUME NEW d \in Delivery, CompleteRecord(r, d)
        PROVE  UNCHANGED probeVars
    BY <1>6 DEF CompleteRecord
  <1>7. CASE Replay(r) \/ Miss(r)
    <2>1. CASE Replay(r)
      BY <1>1, <2>1, Zenon DEF Replay, P!GetHit
    <2>2. CASE Miss(r)
      BY <1>1, <2>2, Zenon DEF Miss, P!GetExpired
    <2> QED BY <1>7, <2>1, <2>2
  <1>8. CASE AddSample(r)
    BY <1>8 DEF AddSample, Then, P!AddSample, P!AddRefused, SampleEvent
  <1> QED BY <1>1, <1>2, <1>3, <1>4, <1>5, <1>6, <1>7, <1>8 DEF OwnStep

\* A hook call that is about to hand over a sample has just been told of it.
LEMMA SampleTaught ==
    ASSUME Base, NEW r \in Req, OwnStep(r), hook'[r].at = "sample", hook' # hook
    PROVE  ~Told(r) /\ Taught(r, hook[r].hash)'
  <1> USE DEF Base
  <1>1. DOMAIN hook = Req
    BY DEF Shape
  <1>2. ASSUME NEW req \in Request[cfg],
               AskRefused(r, req) \/ AskBlocked(r, req) \/ AskFurther(r, req)
        PROVE  FALSE
    BY <1>1, <1>2 DEF AskRefused, AskBlocked, AskFurther, Answer, Then, Resting, Examining
  <1>3. ~ItemUnknown(r) /\ ~ItemRead(r) /\ ~ItemExpired(r) /\ ~ItemKnown(r)
    BY <1>1 DEF ItemUnknown, ItemRead, ItemExpired, ItemKnown, Answer, Then, Resting, Examining
  <1>4. ~Rewrite(r) /\ ~Skip(r) /\ ~Replay(r) /\ ~Miss(r) /\ ~AddSample(r) /\ ~Mark(r)
    BY <1>1 DEF Rewrite, Skip, Replay, Miss, AddSample, Mark, Answer, Then, Resting
  <1>5. ~HeaderInit(r) /\ ~End(r) /\ ~SaveMark(r)
    BY DEF HeaderInit, EngineOnly, End, SaveMark, pluginVars
  <1>6. ASSUME NEW original \in Original, NEW fit \in BOOLEAN, Response(r, original, fit)
        PROVE  ~Told(r) /\ Taught(r, hook[r].hash)'
    <2> DEFINE body == CollectBody(r, original)
               collect == fit /\ Cacheable(body)
    <2>1. /\ E!Response(r, original, collect) /\ UNCHANGED <<cfg, asked>>
          /\ hook'[r] = IF collect THEN [at |-> "sample", hash |-> body.probe] ELSE Resting
      BY <1>1, <1>6 DEF Response, Then
    <2>2. collect /\ hook'[r].hash = body.probe
      BY <2>1 DEF Resting
    <2> HIDE DEF collect, body
    <2>3. /\ host[r].stage = "sent" /\ ~host[r].stream
          /\ host'[r].verdict = host[r].verdict
          /\ host'[r].outcome = "succeeded" /\ host'[r].original = original
          /\ told'[r].oks = told[r].oks + 1 /\ told'[r].fails = told[r].fails
          /\ told'[r].samples # <<>>
      <3>1. /\ host[r].stage = "sent" /\ ~host[r].stream
            /\ host'[r].stage = "ended" /\ host'[r].outcome = "succeeded"
            /\ host'[r].stream = host[r].stream /\ host'[r].verdict = host[r].verdict
            /\ host'[r].original = original
            /\ call[r].at = "idle" /\ call'[r].at = "delete"
            /\ told'[r].oks = told[r].oks + 1 /\ told'[r].fails = told[r].fails
            /\ collect => told'[r].samples # <<>>
            /\ ~collect => told'[r].samples = told[r].samples
            /\ comp'[r] = comp[r] /\ SameEntry(r)
            /\ evicted' = evicted /\ OthersSame(r)
        BY <2>1, ResponseDoes, Zenon
      <3> QED BY ONLY <2>2, <3>1
    <2>4. /\ ~Told(r) /\ told[r].oks = 0 /\ told[r].fails = 0
          /\ SentUpstream(r) /\ ~asked[r].stream
      BY <2>3, NotEnded DEF Order, OrderOf, HostOrder
    <2>5. Told(r)' /\ SentUpstream(r)' /\ KeyOf(r)' = body.probe
      BY <2>1, <2>3, <2>4 DEF Told, SentUpstream, KeyOf, Sent, CollectBody, body
    <2> QED BY <2>1, <2>2, <2>3, <2>4, <2>5 DEF Taught
  <1>7. ASSUME NEW d \in Delivery, CompleteRecord(r, d)
        PROVE  ~Told(r) /\ Taught(r, hook[r].hash)'
    <2> DEFINE req == EntryBody(r, comp[r][d].info)
    <2>1. /\ E!CompleteRecord(r, d, TRUE) /\ UNCHANGED <<cfg, asked, result>>
          /\ told'[r].samples # told[r].samples /\ hook'[r].hash = req.probe
      BY <1>1, <1>7 DEF CompleteRecord, Then, Resting
    <2> HIDE DEF req
    <2>2. /\ comp[r][d].at = "record" /\ host'[r] = host[r] /\ host[r].outcome = "succeeded"
          /\ told'[r].oks = told[r].oks + 1 /\ told'[r].fails = told[r].fails
          /\ told'[r].samples # <<>> /\ comp[r][d].info.stream
      <3> RecordStep(r, d)
        BY <2>1, CompleteRecordDoes
      <3>1. told'[r].samples # told[r].samples =>
              /\ host[r].outcome = "succeeded" /\ told'[r].samples # <<>>
              /\ comp[r][d].info.stream
        BY DEF RecordStep
      <3>2. /\ comp[r][d].at = "record" /\ host'[r] = host[r]
            /\ host[r].outcome = "succeeded" => told'[r].oks = told[r].oks + 1
            /\ host[r].outcome # "failed" => told'[r].fails = told[r].fails
        BY DEF RecordStep
      <3> QED BY <2>1, <3>1, <3>2
    <2>3. /\ ~Told(r) /\ told[r].oks = 0 /\ told[r].fails = 0 /\ SentUpstream(r)
          /\ host[r].stage = "ended" /\ FiledAs(r, comp[r][d].info)
      BY <2>2, Recording
    <2>4. asked[r].stream
      <3>1. EP!UnstreamedKept(r) /\ HostOrder(r)
        BY DEF EP!Inv, EP!InvOf, Order, OrderOf
      <3>2. host[r].stream
        BY <2>2, <3>1 DEF EP!UnstreamedKept
      <3> QED BY <2>3, <3>1, <3>2 DEF HostOrder
    <2>5. req.probe = KeyOf(r)
      BY <2>3, <2>4 DEF FiledAs, EntryBody, KeyOf, req
    <2>6. Told(r)' /\ SentUpstream(r)' /\ KeyOf(r)' = KeyOf(r)
      BY <2>1, <2>2, <2>3 DEF Told, SentUpstream, KeyOf, Sent
    <2> QED BY <2>1, <2>2, <2>3, <2>5, <2>6 DEF Taught
  <1> QED BY <1>2, <1>3, <1>4, <1>5, <1>6, <1>7 DEF OwnStep

LEMMA ProbeLinkSame ==
    ASSUME Base, ProbeLink, [Next]_vars, probeLog' = probeLog,
           \A q \in Req : hook'[q].at = "sample" =>
               \/ hook'[q] = hook[q]
               \/ ~Told(q) /\ Taught(q, hook[q].hash)'
    PROVE  ProbeLink'
  <1>1. \A q, h : Taught(q, h) => Taught(q, h)'
    BY TaughtLasts
  <1>2. ASSUME NEW q \in Req, hook'[q].at = "sample"
        PROVE  /\ Taught(q, hook[q].hash)'
               /\ \A n \in DOMAIN probeLog : probeLog[n].reply # q
    <2>1. CASE hook'[q] = hook[q]
      BY <1>1, <1>2, <2>1 DEF ProbeLink
    <2>2. CASE ~Told(q) /\ Taught(q, hook[q].hash)'
      BY <2>2 DEF ProbeLink, Taught
    <2> QED BY <1>2, <2>1, <2>2
  <1> QED BY <1>1, <1>2 DEF ProbeLink

LEMMA ProbeLinkAdds ==
    ASSUME Base, PP!TypeOK, ProbeLink, [Next]_vars, NEW r \in Req, hook[r].at = "sample",
           hook' = [hook EXCEPT ![r] = Resting],
           probeLog' = Append(probeLog, SampleEvent(hook[r].hash, r))
    PROVE  ProbeLink'
  <1>1. PICK ev : ev = SampleEvent(hook[r].hash, r)
    OBVIOUS
  <1>2. /\ DOMAIN probeLog = 1..Len(probeLog) /\ Len(probeLog) \in Nat
        /\ DOMAIN probeLog' = DOMAIN probeLog \cup {Len(probeLog) + 1}
        /\ \A n \in DOMAIN probeLog : probeLog'[n] = probeLog[n]
        /\ probeLog'[Len(probeLog) + 1] = ev
    <2>1. probeLog \in Seq(PP!Events)
      BY DEF PP!TypeOK
    <2> QED BY <1>1, <2>1, Longer
  <1>3. ev.kind = "add" /\ ev.hash = hook[r].hash /\ ev.reply = r
    BY <1>1 DEF SampleEvent
  <1>4. Taught(r, hook[r].hash) /\ \A n \in DOMAIN probeLog : probeLog[n].reply # r
    BY DEF ProbeLink
  <1>5. \A q, h : Taught(q, h) => Taught(q, h)'
    BY TaughtLasts
  <1>6. ASSUME NEW n \in DOMAIN probeLog'
        PROVE  probeLog'[n].kind = "add" /\ Taught(probeLog[n].reply, probeLog[n].hash)'
    <2>1. CASE n \in DOMAIN probeLog
      <3>1. \A q, h : /\ q = probeLog[n].reply /\ h = probeLog[n].hash
                      => Taught(q, h) /\ probeLog[n].kind = "add"
        BY <2>1 DEF ProbeLink
      <3> QED BY <1>2, <1>5, <2>1, <3>1
    <2>2. CASE n = Len(probeLog) + 1
      <3>1. \A q, h : q = ev.reply /\ h = ev.hash => Taught(q, h)'
        BY <1>3, <1>4, <1>5
      <3> QED BY <1>2, <1>3, <2>2, <3>1
    <2> QED BY <1>2, <1>6, <2>1, <2>2
  <1>7. \A n, m \in DOMAIN probeLog' : probeLog'[n].reply = probeLog'[m].reply => n = m
    BY <1>2, <1>3, <1>4 DEF ProbeLink
  <1>8. ASSUME NEW q \in Req, hook'[q].at = "sample"
        PROVE  /\ Taught(q, hook[q].hash)'
               /\ \A n \in DOMAIN probeLog' : probeLog'[n].reply # q
    <2>1. q # r /\ hook'[q] = hook[q]
      BY <1>8 DEF Base, Shape, Resting
    <2>2. Taught(q, hook[q].hash) /\ \A n \in DOMAIN probeLog : probeLog[n].reply # q
      BY <1>8, <2>1 DEF ProbeLink
    <2>3. Taught(q, hook[q].hash)'
      BY <1>5, <2>1, <2>2
    <2> QED BY <1>2, <1>3, <2>1, <2>2, <2>3
  <1> QED BY <1>6, <1>7, <1>8 DEF ProbeLink

LEMMA ProbeLinkStep ==
    ASSUME Base, PP!TypeOK, ProbeLink, [Next]_vars
    PROVE  ProbeLink'
  <1>1. CASE UNCHANGED vars \/ Tick \/ EngineOnly
    <2>1. hook' = hook /\ probeLog' = probeLog
      BY <1>1 DEF vars, Tick, EngineOnly, probeVars, pluginVars
    <2> QED BY <2>1, ProbeLinkSame
  <1>2. ASSUME NEW r \in Req, OwnStep(r)
        PROVE  ProbeLink'
    <2>1. \A q \in Req \ {r} : hook'[q] = hook[q]
      BY <1>2, OthersPluginSame DEF Base, PluginSame
    <2>2. \A q \in Req : hook'[q].at = "sample" =>
              \/ hook'[q] = hook[q]
              \/ ~Told(q) /\ Taught(q, hook[q].hash)'
      BY <1>2, <2>1, SampleTaught
    <2> QED BY <1>2, <2>2, ProbeChanges, ProbeLinkSame, ProbeLinkAdds
  <1> QED BY <1>1, <1>2, Steps

-----------------------------------------------------------------------------
(* The links hold                                                           *)

\* Requests are made one at a time, so only finitely many were ever made.
FiniteAsked == IsFiniteSet({q \in Req : asked[q] # NotAsked})

Links == GuardLink /\ MarkLink /\ ProbeLink /\ FiniteAsked

LEMMA FiniteAskedStep ==
    ASSUME Shape, FiniteAsked, [Next]_vars
    PROVE  FiniteAsked'
  <1>1. CASE asked' = asked
    BY <1>1 DEF FiniteAsked
  <1>2. ASSUME NEW r \in Req, OwnStep(r)
        PROVE  FiniteAsked'
    <2> DEFINE made_now == {q \in Req : asked'[q] # NotAsked}
               made_then == {q \in Req : asked[q] # NotAsked}
    <2>1. \A q \in Req \ {r} : asked'[q] = asked[q]
      BY <1>2, OwnChanges, OnlyAt DEF Shape
    <2>2. made_now \subseteq made_then \cup {r}
      BY <2>1
    <2>3. IsFiniteSet(made_then \cup {r})
      BY FS_AddElement DEF FiniteAsked
    <2>4. IsFiniteSet(made_now)
      BY <2>2, <2>3, FS_Subset
    <2> QED BY <2>4 DEF FiniteAsked
  <1>3. CASE UNCHANGED vars \/ Tick \/ EngineOnly
    BY <1>1, <1>3 DEF vars, Tick, EngineOnly, pluginVars
  <1> QED BY <1>2, <1>3, Steps

LEMMA LinksInit == Init => Links
  <1> SUFFICES ASSUME Init PROVE Links
    OBVIOUS
  <1> USE DEF Init
  <1>1. guardLog = <<>> /\ probeLog = <<>> /\ DOMAIN items = {}
    BY DEF G!Init, P!Init, G!NoEntries
  <1>2. GuardLink
    BY <1>1 DEF GuardLink
  <1>3. \A r \in Req : hook[r].at = "idle"
    BY DEF Resting
  <1>4. MarkLink
    BY <1>1, <1>3 DEF MarkLink, MarkOrder
  <1>5. ProbeLink
    BY <1>1, <1>3 DEF ProbeLink
  <1>6. FiniteAsked
    <2>1. {q \in Req : asked[q] # NotAsked} = {}
      OBVIOUS
    <2> QED BY <2>1, FS_EmptySet DEF FiniteAsked
  <1> QED BY <1>2, <1>4, <1>5, <1>6 DEF Links

\* What is known of every state, to follow an answer back to its origin.
Known ==
    /\ Base /\ Links
    /\ GP!TypeOK /\ GP!CircuitsExplained /\ GP!RepeatsTrip
    /\ PP!TypeOK /\ PP!ReplaysCollectedReplies /\ PP!WarmEntryAnswers

LEMMA KnownHolds == Spec => []Known
  <1>1. Spec => []Base
    BY EngineHolds, ShapeHolds, OrderHolds, PTL DEF Base
  <1>2. Spec => [](GP!TypeOK /\ PP!TypeOK)
    BY GuardHolds, ProbeHolds, PTL
  <1>3. Base /\ GP!TypeOK /\ PP!TypeOK /\ Links /\ [Next]_vars => Links'
    BY GuardLinkStep, MarkLinkStep, ProbeLinkStep, FiniteAskedStep DEF Links, Base
  <1>4. Spec => []Links
    BY <1>1, <1>2, <1>3, LinksInit, PTL DEF Spec
  <1> QED BY <1>1, <1>4, GuardHolds, ProbeHolds, PTL DEF Known

-----------------------------------------------------------------------------
(* Where an answer comes from                                               *)

\* The breaker answers with a failure of another request, after one of a third.
LEMMA BlockedBy ==
    ASSUME Known, NEW r \in Req, ~Told(r), NEW k \in Session, NEW current,
           G!Blocked(k, current)
    PROVE  \E last, first \in Req \ {r} :
              /\ last # first /\ last = circuits[k].payload
              /\ Failed(last) /\ result[last].status = circuits[k].status
              /\ circuits[k].status \in Failure
              /\ told_at[last] \in Nat
              /\ now < told_at[last] + ParseDuration(CircuitTTL, DefaultTTL)
              /\ \E form \in Forms(last) :
                    k \in SessionKeys(form) /\ G!Similar(current, InputHashes(form))
              /\ Failed(first) /\ \E form \in Forms(first) : k \in SessionKeys(form)
  <1>1. /\ k \in DOMAIN circuits /\ circuits[k].expire # 0 /\ now < circuits[k].expire
        /\ G!Similar(current, circuits[k].input)
    BY DEF G!Blocked
  <1>2. PICK j \in GP!Fails(guardLog, k) : GP!ExplainedBy(guardLog, j, k, circuits[k])
    BY <1>1 DEF Known, GP!CircuitsExplained, GP!AllExplained
  <1>3. PICK i \in GP!Fails(guardLog, k) : i < j
    BY <1>1, <1>2 DEF GP!ExplainedBy
  <1>4. /\ j \in DOMAIN guardLog /\ IsFail(guardLog[j]) /\ k \in guardLog[j].keys
        /\ i \in DOMAIN guardLog /\ IsFail(guardLog[i]) /\ k \in guardLog[i].keys
        /\ i # j
    <2>1. i \in Nat /\ j \in Nat
      <3>1. guardLog \in Seq(GP!Events)
        BY DEF Known, GP!TypeOK
      <3>2. DOMAIN guardLog \subseteq Nat
        BY <3>1
      <3> QED BY <3>2 DEF GP!Fails
    <2> QED BY <1>3, <2>1 DEF GP!Fails, IsFail
  <1>5. PICK last : last = guardLog[j].payload
    OBVIOUS
  <1>6. PICK first : first = guardLog[i].payload
    OBVIOUS
  <1>7. GuardLink /\ Base
    BY DEF Known, Links
  <1>8. LoggedFailure(guardLog[j]) /\ LoggedFailure(guardLog[i]) /\ first # last
    BY <1>4, <1>5, <1>6, <1>7 DEF GuardLink
  <1>9. /\ last \in Req /\ Failed(last) /\ result[last].status = guardLog[j].status
        /\ told_at[last] \in Nat /\ guardLog[j].at = told_at[last]
        /\ \E form \in Forms(last) :
              guardLog[j].keys = SessionKeys(form) /\ guardLog[j].input = InputHashes(form)
    BY <1>5, <1>8 DEF LoggedFailure
  <1>10. /\ first \in Req /\ Failed(first)
         /\ \E form \in Forms(first) : guardLog[i].keys = SessionKeys(form)
    BY <1>6, <1>8 DEF LoggedFailure
  <1>11. last # r /\ first # r /\ result[last].status \in Failure
    BY <1>7, <1>9, <1>10, FailedTold
  <1>12. /\ circuits[k].payload = last /\ circuits[k].status = guardLog[j].status
         /\ circuits[k].input = guardLog[j].input
         /\ circuits[k].expire <= guardLog[j].at + ParseDuration(CircuitTTL, DefaultTTL)
    BY <1>2, <1>5 DEF GP!ExplainedBy
  <1>13. now < told_at[last] + ParseDuration(CircuitTTL, DefaultTTL)
    <2>1. now \in Nat /\ circuits[k].expire \in Nat
      BY <1>1 DEF Known, GP!TypeOK, GP!IsMap, GP!SessionCircuit
    <2>2. guardLog[j].at \in Nat
      <3>1. guardLog[j] \in GP!Events
        BY <1>4 DEF Known, GP!TypeOK
      <3> QED BY <1>4, <3>1 DEF GP!Events, IsFail
    <2>3. ParseDuration(CircuitTTL, DefaultTTL) \in Nat
      BY Durations
    <2> QED BY <1>1, <1>9, <1>12, <2>1, <2>2, <2>3
  <1>14. \E form \in Forms(last) :
            k \in SessionKeys(form) /\ G!Similar(current, InputHashes(form))
    BY <1>1, <1>4, <1>9, <1>12
  <1> QED
    BY <1>4, <1>8, <1>9, <1>10, <1>11, <1>12, <1>13, <1>14

-----------------------------------------------------------------------------
(* Type correctness                                                         *)

Typed == hook \in [Req -> Hooks] /\ made \in [Req -> Answers]

LEMMA SeqWider ==
    ASSUME NEW s \in Seq(Item)
    PROVE  s \in Seq(Item \cup {NoId})
  OBVIOUS

LEMMA HookTyped ==
    ASSUME Known, Typed, NEW r \in Req, OwnStep(r)
    PROVE  hook' \in [Req -> Hooks]
  <1>1. OrderOf(r) /\ Shape /\ Base /\ GP!TypeOK
    BY DEF Known, Base, Order
  <1>2. ASSUME NEW step \in Hooks, Then(r, step)
        PROVE  hook' \in [Req -> Hooks]
    BY <1>2 DEF Then, Typed
  <1>3. Resting \in Hooks
    BY DEF Hooks
  <1>4. ASSUME NEW ids \in Seq(Item)
        PROVE  Examining(ids) \in Hooks
    BY <1>4, SeqWider DEF Examining, Hooks
  <1>5. ASSUME NEW req \in Request[cfg],
               AskRefused(r, req) \/ AskBlocked(r, req) \/ AskFurther(r, req)
        PROVE  hook' \in [Req -> Hooks]
    BY <1>1, <1>2, <1>3, <1>4, <1>5, IdsTyped DEF AskRefused, AskBlocked, AskFurther, Answer
  <1>6. hook[r].at \in {"items", "item"} => hook[r].todo \in Seq(Item)
    BY <1>1 DEF OrderOf, HookOrder
  <1>7. CASE ItemUnknown(r)
    <2>1. Tail(hook[r].todo) \in Seq(Item)
      BY <1>6, <1>7, TailIn DEF ItemUnknown, Examines
    <2> QED BY <1>2, <1>4, <1>7, <2>1 DEF ItemUnknown
  <1>8. CASE ItemRead(r)
    <2>1. Tail(hook[r].todo) \in Seq(Item \cup {NoId})
      BY <1>6, <1>8, TailIn, SeqWider DEF ItemRead, Examines
    <2>2. items[Head(hook[r].todo)].payload \in Req
      BY <1>1, <1>8 DEF ItemRead, G!IsInvalidRead, GP!TypeOK, GP!IsMap, GP!InvalidItem
    <2>3. [at |-> "item", todo |-> Tail(hook[r].todo),
           of |-> items[Head(hook[r].todo)].payload] \in Hooks
      BY <2>1, <2>2 DEF Hooks
    <2> QED BY <1>2, <1>8, <2>3 DEF ItemRead
  <1>9. CASE ItemExpired(r)
    BY <1>2, <1>4, <1>6, <1>9 DEF ItemExpired
  <1>10. CASE ItemKnown(r) \/ Rewrite(r) \/ Skip(r) \/ Replay(r) \/ Miss(r)
              \/ AddSample(r) \/ Mark(r)
    BY <1>2, <1>3, <1>10
    DEF ItemKnown, Rewrite, Skip, Replay, Miss, AddSample, Mark, Answer
  <1>11. CASE HeaderInit(r) \/ SaveMark(r) \/ End(r)
    BY <1>11 DEF HeaderInit, EngineOnly, SaveMark, End, pluginVars, Typed
  <1>12. ASSUME NEW h \in Hash
         PROVE  [at |-> "sample", hash |-> h] \in Hooks
    BY DEF Hooks
  <1>13. ASSUME NEW original \in Original, NEW fit \in BOOLEAN, Response(r, original, fit)
         PROVE  hook' \in [Req -> Hooks]
    <2>1. host[r].stage = "sent"
      BY <1>13, ResponseDoes DEF Response, Known, Base
    <2> DEFINE body == CollectBody(r, original)
    <2>2. Cacheable(body) => body.probe \in Hash
      BY <1>1, <2>1, Probes DEF OrderOf, HostOrder, Asked, Shape, CollectBody, Sent
    <2>3. Then(r, IF fit /\ Cacheable(body) THEN [at |-> "sample", hash |-> body.probe]
                  ELSE Resting)
      BY <1>13 DEF Response
    <2> HIDE DEF body
    <2> QED BY <1>2, <1>3, <1>12, <2>2, <2>3
  <1>14. ASSUME NEW d \in Delivery, CompleteRecord(r, d)
         PROVE  hook' \in [Req -> Hooks]
    <2> DEFINE req == EntryBody(r, comp[r][d].info)
    <2>1. \/ Then(r, Resting) \/ Then(r, [at |-> "sample", hash |-> req.probe])
          \/ /\ Then(r, [at |-> "mark", item |-> result[r].names])
             /\ NamesInvalidItem(result[r])
      BY <1>14 DEF CompleteRecord
    <2>2. req.probe \in Hash /\ host[r].stage = "ended" /\ SentUpstream(r)
      <3>1. comp[r][d].at = "record"
        BY <1>14, Zenon DEF CompleteRecord, E!CompleteRecord
      <3> QED BY <3>1, Recording DEF Known, Base
    <2>3. NamesInvalidItem(result[r]) => result[r].names \in Item
      BY <1>1, <2>2 DEF OrderOf, ResultOrder, NamesInvalidItem
    <2>4. result[r].names \in Item => [at |-> "mark", item |-> result[r].names] \in Hooks
      BY DEF Hooks
    <2> HIDE DEF req
    <2> QED BY <1>2, <1>3, <1>12, <2>1, <2>2, <2>3, <2>4
  <1> QED
    BY <1>5, <1>7, <1>8, <1>9, <1>10, <1>11, <1>13, <1>14 DEF OwnStep

\* What intercept_before answers, and on what it goes: the rules that made
\* the answer m to request r, asked as req.
LEMMA AnswersMade ==
    ASSUME Known, NEW r \in Req, OwnStep(r)
    PROVE  \/ made' = made
           \/ /\ host[r].stage = "new"
              /\ \/ \E req \in Request[cfg] : AskRefused(r, req) \/ AskBlocked(r, req)
                 \/ ItemKnown(r) \/ Replay(r)
  <1>1. ASSUME NEW stream, NEW m, Answer(r, stream, m)
        PROVE  host[r].stage = "new"
    BY <1>1, BeforeDoes DEF Answer, Known, Base
  <1>2. ASSUME NEW req \in Request[cfg], AskRefused(r, req) \/ AskBlocked(r, req)
        PROVE  host[r].stage = "new"
    BY <1>1, <1>2 DEF AskRefused, AskBlocked
  <1>3. CASE ItemKnown(r) \/ Replay(r)
    BY <1>1, <1>3 DEF ItemKnown, Replay
  <1>4. ASSUME NEW req \in Request[cfg], AskFurther(r, req)
        PROVE  made' = made
    BY <1>4 DEF AskFurther
  <1>5. CASE ItemUnknown(r) \/ ItemRead(r) \/ ItemExpired(r) \/ Rewrite(r) \/ Skip(r) \/ Miss(r)
    BY <1>5 DEF ItemUnknown, ItemRead, ItemExpired, Rewrite, Skip, Miss
  <1>6. CASE HeaderInit(r) \/ SaveMark(r) \/ End(r) \/ AddSample(r) \/ Mark(r)
    BY <1>6 DEF HeaderInit, EngineOnly, SaveMark, End, pluginVars, AddSample, Mark
  <1>7. ASSUME NEW original \in Original, NEW fit \in BOOLEAN, Response(r, original, fit)
        PROVE  made' = made
    BY <1>7 DEF Response
  <1>8. ASSUME NEW d \in Delivery, CompleteRecord(r, d)
        PROVE  made' = made
    BY <1>8 DEF CompleteRecord
  <1> QED BY <1>2, <1>3, <1>4, <1>5, <1>6, <1>7, <1>8 DEF OwnStep

LEMMA MadeTyped ==
    ASSUME Known, Known', Typed, NEW r \in Req, OwnStep(r)
    PROVE  made' \in [Req -> Answers]
  <1>1. ASSUME NEW m \in Answers, NEW stream, Answer(r, stream, m)
        PROVE  made' \in [Req -> Answers]
    BY <1>1 DEF Answer, Typed
  <1>2. now \in Nat /\ Shape /\ GP!TypeOK
    BY DEF Known, Base, GP!TypeOK
  <1>3. ASSUME NEW req \in Request[cfg], AskRefused(r, req)
        PROVE  made' \in [Req -> Answers]
    <2>1. [by |-> "payload"] \in Answers /\ [by |-> "max_turns"] \in Answers
      BY DEF Answers
    <2> QED BY <1>1, <1>3, <2>1 DEF AskRefused
  <1>4. ASSUME NEW req \in Request[cfg], AskBlocked(r, req), host[r].stage = "new"
        PROVE  made' \in [Req -> Answers]
    <2>1. PICK k \in KeysToCheck(req) :
             /\ G!Blocked(k, InputHashes(req))
             /\ Answer(r, req.stream, [by |-> "breaker", of |-> circuits[k].payload,
                                       status |-> circuits[k].status, at |-> now])
      BY <1>4 DEF AskBlocked
    <2>2. k \in Session
      BY <1>2, <2>1, Requests DEF Shape, KeysToCheck, BreakerKeys, IsRequest
    <2>3. ~Told(r)
      BY <1>4, NotEnded DEF Known, Base
    <2>4. circuits[k].payload \in Req /\ circuits[k].status \in Failure
      BY <2>1, <2>2, <2>3, BlockedBy
    <2>5. [by |-> "breaker", of |-> circuits[k].payload,
           status |-> circuits[k].status, at |-> now] \in Answers
      BY <1>2, <2>4 DEF Answers
    <2> QED BY <1>1, <2>1, <2>5
  <1>5. CASE ItemKnown(r)
    <2>1. hook[r] \in Hooks /\ hook[r].at = "item"
      BY <1>5 DEF Typed, ItemKnown
    <2>2. hook[r].of \in Req
      BY <2>1 DEF Hooks, Resting
    <2>3. [by |-> "signature", of |-> hook[r].of, status |-> 400, at |-> now] \in Answers
      BY <1>2, <2>2 DEF Answers
    <2> QED BY <1>1, <1>5, <2>3 DEF ItemKnown
  <1>6. CASE Replay(r)
    <2>1. given'.call = "hit" /\ given' \in PP!Answers
      <3>1. given'.call = "hit"
        BY <1>6, SMT DEF Replay, P!GetHit
      <3> QED BY <3>1 DEF Known, PP!TypeOK
    <2>2. given'.reply \in Req
      BY <2>1 DEF PP!Answers
    <2>3. [by |-> "cache", of |-> given'.reply, at |-> now] \in Answers
      BY <1>2, <2>2 DEF Answers
    <2> QED BY <1>1, <1>6, <2>3 DEF Replay
  <1> QED BY <1>3, <1>4, <1>5, <1>6, AnswersMade DEF Typed

LEMMA TypedStep ==
    ASSUME Known, Known', Typed, [Next]_vars
    PROVE  Typed'
  <1>1. CASE UNCHANGED vars \/ Tick \/ EngineOnly
    BY <1>1 DEF vars, Tick, EngineOnly, pluginVars, Typed
  <1>2. ASSUME NEW r \in Req, OwnStep(r)
        PROVE  Typed'
    BY <1>2, HookTyped, MadeTyped DEF Typed
  <1> QED BY <1>1, <1>2, Steps

LEMMA TypedHolds == Spec => []Typed
  <1>1. Init => Typed
    BY DEF Init, Typed, Hooks, Answers
  <1>2. Known /\ Known' /\ Typed /\ [Next]_vars => Typed'
    BY TypedStep
  <1> QED BY <1>1, <1>2, KnownHolds, PTL DEF Spec

\* Whatever the hooks and the stores do, every variable of the plugin and of its
\* parts keeps its type: no answer, mark or sample names anything but a request,
\* and the breaker replays no status but that of a failure
\* (checker.go:53-123, engine.go:214-470).
THEOREM TypeCorrect == Spec => []TypeOK
  <1>1. ASSUME EP!TypeOK PROVE E!TypeOK
    BY <1>1
    DEF EP!TypeOK, E!TypeOK, EP!HostState, E!HostState, EP!Verdict, E!Verdict,
        EP!Outcome, E!Outcome, EP!CallState, E!CallState, EP!CompState, E!CompState,
        EP!PendingInfo, E!PendingInfo, EP!Heard, E!Heard, EP!SampleRecord, E!SampleRecord
  <1>2. ASSUME GP!TypeOK PROVE G!TypeOK
    BY <1>2
    DEF GP!TypeOK, G!TypeOK, GP!IsMap, G!IsMap, GP!InvalidItem, G!InvalidItem,
        GP!SessionCircuit, G!SessionCircuit, GP!PcStates, G!PcStates, GP!Idle, G!Idle,
        GP!Events, G!Events
  <1>3. ASSUME PP!TypeOK PROVE P!TypeOK
    BY <1>3
    DEF PP!TypeOK, P!TypeOK, PP!IsMap, P!IsMap, PP!ProbeEntry, P!ProbeEntry,
        PP!Sample, P!Sample, PP!Answers, P!Answers, PP!Events, P!Events
  <1>4. Known /\ Typed => TypeOK
    <2> SUFFICES ASSUME Known, Typed PROVE TypeOK
      OBVIOUS
    <2>1. /\ cfg \in Config
          /\ \A r \in Req : asked[r] \in Request[cfg] \cup {NotAsked}
      BY DEF Known, Base, Shape
    <2>2. E!TypeOK /\ G!TypeOK /\ P!TypeOK
      BY <1>1, <1>2, <1>3 DEF Known, Base
    <2> QED BY <2>1, <2>2 DEF TypeOK, Typed
  <1> QED BY <1>4, KnownHolds, TypedHolds, PTL

-----------------------------------------------------------------------------
(* An answer stays justified                                                *)

JustifiedAs(r, m) ==
    /\ m.by = "payload" => asked[r].size > GetMaxPayloadBytes(cfg)
    /\ m.by = "max_turns" => IsOn(cfg.block_max_turns) /\ asked[r].max_turns
    /\ m.by = "breaker" => BreakerJustified(r, m)
    /\ m.by = "signature" => SignatureJustified(r, m)
    /\ m.by = "cache" => CacheJustified(r, m)

LEMMA AllJustified == AnswersJustified <=> \A r \in Req : JustifiedAs(r, made[r])
  BY DEF AnswersJustified, JustifiedAs

\* The other requests a sample was collected of under hash h.
Alike(r, h) == {q \in Req \ {r} : Taught(q, h)}

LEMMA CacheMeans ==
    ASSUME Known, NEW r \in Req, NEW m
    PROVE  CacheJustified(r, m) <=>
              /\ IsOn(cfg.probe_cache_enabled)
              /\ m.of \in Alike(r, asked[r].probe)
              /\ Cardinality(Alike(r, asked[r].probe)) >= MinSamples
  <1>1. \A q \in Req : told[q].samples # <<>> => Told(q)
    <2> SUFFICES ASSUME NEW q \in Req, ~Told(q)
                 PROVE  told[q].samples = <<>>
      OBVIOUS
    <2>1. EP!OneTeller(q) /\ told[q] \in EP!Heard
      BY DEF Known, Base, EP!Inv, EP!InvOf, EP!TypeOK
    <2>2. told[q].oks \in Nat /\ told[q].fails \in Nat /\ told[q].samples \in Seq(EP!SampleRecord)
      BY <2>1 DEF EP!Heard
    <2>3. told[q].oks = 0 /\ Len(told[q].samples) <= told[q].oks
      BY <2>1, <2>2 DEF EP!OneTeller, Told
    <2> QED BY <2>2, <2>3
  <1>2. {q \in Req \ {r} : /\ SentUpstream(q) /\ host[q].outcome = "succeeded"
                           /\ told[q].samples # <<>> /\ KeyOf(q) = asked[r].probe}
            = Alike(r, asked[r].probe)
    BY <1>1 DEF Alike, Taught
  <1> QED BY <1>2 DEF CacheJustified

LEMMA AlikeFinite ==
    ASSUME Known, NEW r \in Req, NEW h
    PROVE  IsFiniteSet(Alike(r, h)) /\ Cardinality(Alike(r, h)) \in Nat
  <1>1. Alike(r, h) \subseteq {q \in Req : asked[q] # NotAsked}
    <2> SUFFICES ASSUME NEW q \in Req, Taught(q, h) PROVE asked[q] # NotAsked
      BY DEF Alike
    <2>1. host[q].stage # "new"
      BY DEF Taught, SentUpstream, Known, Base, Order, OrderOf, HostOrder
    <2> QED BY <2>1, AskedFirst DEF Known, Base
  <1>2. IsFiniteSet(Alike(r, h))
    BY <1>1, FS_Subset DEF Known, Links, FiniteAsked
  <1> QED BY <1>2, FS_CardinalityType

LEMMA AlikeGrows ==
    ASSUME Known, Known', [Next]_vars, NEW r \in Req, NEW h
    PROVE  /\ Alike(r, h) \subseteq Alike(r, h)'
           /\ Cardinality(Alike(r, h)) >= MinSamples => Cardinality(Alike(r, h)') >= MinSamples
  <1>1. Alike(r, h) \subseteq Alike(r, h)'
    BY TaughtLasts DEF Known, Alike
  <1>2. IsFiniteSet(Alike(r, h)') /\ Cardinality(Alike(r, h)') \in Nat
    <2>1. (IsFiniteSet(Alike(r, h)) /\ Cardinality(Alike(r, h)) \in Nat)'
      BY AlikeFinite, PTL
    <2> QED BY <2>1
  <1>3. Cardinality(Alike(r, h)) <= Cardinality(Alike(r, h)')
    BY <1>1, <1>2, FS_Subset
  <1>4. MinSamples \in Nat /\ Cardinality(Alike(r, h)) \in Nat
    <2>1. MinSamples \in Nat
      BY SamplesPositive
    <2> QED BY <2>1, AlikeFinite
  <1> QED BY <1>1, <1>2, <1>3, <1>4

\* The same of the state after a step.
LEMMA CacheJustifiedAfter ==
    ASSUME Known', NEW r \in Req, NEW m,
           IsOn(cfg'.probe_cache_enabled),
           m.of \in Alike(r, asked[r].probe)',
           Cardinality(Alike(r, asked[r].probe)') >= MinSamples
    PROVE  CacheJustified(r, m)'
  <1>1. (CacheJustified(r, m) <=>
              /\ IsOn(cfg.probe_cache_enabled)
              /\ m.of \in Alike(r, asked[r].probe)
              /\ Cardinality(Alike(r, asked[r].probe)) >= MinSamples)'
    BY CacheMeans, PTL
  <1> QED BY <1>1

\* What the upstream was told, and by whom, is the same after every step.
LEMMA JustifiedLasts ==
    ASSUME Known, Known', [Next]_vars, NEW r \in Req, NEW m, JustifiedAs(r, m),
           m.by \in {"breaker", "signature"} => m.of \in Req,
           asked'[r] = asked[r], cfg' = cfg
    PROVE  JustifiedAs(r, m)'
  <1>0. Base
    BY DEF Known
  <1>1. CASE m.by \in {"payload", "max_turns"}
    BY <1>1 DEF JustifiedAs
  <1>2. CASE m.by = "breaker"
    <2>1. /\ IsOn(cfg.fuzzy_circuit_breaker) /\ m.of \in Req
          /\ Failed(m.of) /\ result[m.of].status = m.status
          /\ m.at < told_at[m.of] + ParseDuration(CircuitTTL, DefaultTTL)
      BY <1>2 DEF JustifiedAs, BreakerJustified
    <2>2. PICK k \in CheckedKeys(asked[r]), q \in Req \ {r, m.of} :
             /\ \E last \in Forms(m.of) :
                   /\ k \in SessionKeys(last)
                   /\ G!Similar(InputHashes(asked[r]), InputHashes(last))
             /\ Failed(q) /\ \E first \in Forms(q) : k \in SessionKeys(first)
      BY <1>2 DEF JustifiedAs, BreakerJustified
    <2>3. /\ Failed(m.of)' /\ result'[m.of] = result[m.of] /\ told_at'[m.of] = told_at[m.of]
          /\ Forms(m.of)' = Forms(m.of)
      BY <1>0, <2>1, FailedLasts
    <2>4. Failed(q)' /\ Forms(q)' = Forms(q)
      BY <1>0, <2>2, FailedLasts
    <2>5. BreakerJustified(r, m)'
      BY <2>1, <2>2, <2>3, <2>4 DEF BreakerJustified
    <2> QED BY <1>2, <2>5 DEF JustifiedAs
  <1>3. CASE m.by = "signature"
    <2>1. SignatureJustified(r, m) /\ m.of \in Req
      BY <1>3 DEF JustifiedAs
    <2>2. Failed(m.of)' /\ result'[m.of] = result[m.of]
      BY <1>0, <2>1, FailedLasts DEF SignatureJustified
    <2>3. SignatureJustified(r, m)'
      BY <2>1, <2>2 DEF SignatureJustified
    <2> QED BY <1>3, <2>3 DEF JustifiedAs
  <1>4. CASE m.by = "cache"
    <2>1. /\ IsOn(cfg.probe_cache_enabled)
          /\ m.of \in Alike(r, asked[r].probe)
          /\ Cardinality(Alike(r, asked[r].probe)) >= MinSamples
      BY <1>4, CacheMeans DEF JustifiedAs
    <2>2. PICK h : h = asked[r].probe
      OBVIOUS
    <2>3. m.of \in Alike(r, h)' /\ Cardinality(Alike(r, h)') >= MinSamples
      BY <2>1, <2>2, AlikeGrows
    <2>4. /\ m.of \in Alike(r, asked[r].probe)'
          /\ Cardinality(Alike(r, asked[r].probe)') >= MinSamples
      BY <2>2, <2>3 DEF Alike
    <2>5. CacheJustified(r, m)'
      BY <2>1, <2>4, CacheJustifiedAfter
    <2> QED BY <1>4, <2>5 DEF JustifiedAs
  <1>5. CASE m.by \notin {"payload", "max_turns", "breaker", "signature", "cache"}
    BY <1>5 DEF JustifiedAs
  <1> QED BY <1>1, <1>2, <1>3, <1>4, <1>5

-----------------------------------------------------------------------------
(* An answer is justified when it is made                                   *)

LEMMA RefusalJustified ==
    ASSUME Known, NEW r \in Req, NEW req \in Request[cfg], AskRefused(r, req),
           NEW m, m = made'[r]
    PROVE  JustifiedAs(r, m)'
  <1>1. cfg' = cfg /\ asked'[r] = req
    BY DEF AskRefused, Asks, Known, Base, Shape
  <1>2. \/ Overloaded(cfg, req) /\ m = [by |-> "payload"]
        \/ HasMaxTurns(cfg, req) /\ m = [by |-> "max_turns"]
    BY DEF AskRefused, Answer, Known, Base, Shape
  <1> QED BY <1>1, <1>2 DEF Overloaded, HasMaxTurns, JustifiedAs

LEMMA BlockJustified ==
    ASSUME Known, [Next]_vars, NEW r \in Req, NEW req \in Request[cfg], AskBlocked(r, req),
           host[r].stage = "new", NEW m, m = made'[r]
    PROVE  JustifiedAs(r, m)'
  <1>0. Base /\ DOMAIN made = Req /\ DOMAIN asked = Req /\ cfg \in Config
    BY DEF Known, Base, Shape
  <1>1. PICK k \in KeysToCheck(req) :
           /\ G!Blocked(k, InputHashes(req))
           /\ Answer(r, req.stream, [by |-> "breaker", of |-> circuits[k].payload,
                                     status |-> circuits[k].status, at |-> now])
    BY DEF AskBlocked
  <1>2. /\ m.by = "breaker" /\ m.of = circuits[k].payload
        /\ m.status = circuits[k].status /\ m.at = now
    BY <1>0, <1>1 DEF Answer
  <1>3. cfg' = cfg /\ asked'[r] = req
    BY <1>0 DEF AskBlocked, Asks
  <1>4. k \in CheckedKeys(req) /\ k \in Session /\ IsOn(cfg.fuzzy_circuit_breaker)
    BY <1>0, <1>1, Requests DEF KeysToCheck, BreakerKeys, IsRequest
  <1>5. ~Told(r)
    BY <1>0, NotEnded DEF Base
  <1>6. PICK last \in Req \ {r}, first \in Req \ {r} :
              /\ last # first /\ last = circuits[k].payload
              /\ Failed(last) /\ result[last].status = circuits[k].status
              /\ now < told_at[last] + ParseDuration(CircuitTTL, DefaultTTL)
              /\ \E form \in Forms(last) :
                    k \in SessionKeys(form) /\ G!Similar(InputHashes(req), InputHashes(form))
              /\ Failed(first) /\ \E form \in Forms(first) : k \in SessionKeys(form)
    BY <1>1, <1>4, <1>5, BlockedBy
  <1>7. /\ Failed(last)' /\ result'[last] = result[last] /\ told_at'[last] = told_at[last]
        /\ Forms(last)' = Forms(last)
    BY <1>0, <1>6, FailedLasts
  <1>8. Failed(first)' /\ Forms(first)' = Forms(first)
    BY <1>0, <1>6, FailedLasts
  <1>9. m.of = last
    BY <1>2, <1>6
  <1>10. BreakerJustified(r, m)'
    <2>1. /\ Failed(m.of)' /\ result'[m.of].status = m.status
          /\ m.at < told_at'[m.of] + ParseDuration(CircuitTTL, DefaultTTL)
      BY <1>2, <1>6, <1>7, <1>9
    <2>2. \E form \in Forms(m.of)' :
              k \in SessionKeys(form) /\ G!Similar(InputHashes(req), InputHashes(form))
      BY <1>6, <1>7, <1>9
    <2>3. first \in Req \ {r, m.of} /\ \E form \in Forms(first)' : k \in SessionKeys(form)
      BY <1>6, <1>8, <1>9
    <2> QED BY <1>3, <1>4, <1>8, <2>1, <2>2, <2>3 DEF BreakerJustified
  <1> QED BY <1>2, <1>10 DEF JustifiedAs

LEMMA SignatureJustifiedNow ==
    ASSUME Known, [Next]_vars, NEW r \in Req, ItemKnown(r), NEW m, m = made'[r]
    PROVE  JustifiedAs(r, m)'
  <1>0. Base /\ DOMAIN made = Req /\ MarkOrder(r) /\ OrderOf(r)
    BY DEF Known, Base, Shape, Links, MarkLink, Order
  <1>1. /\ m = [by |-> "signature", of |-> hook[r].of, status |-> 400, at |-> now]
        /\ hook[r].at = "item" /\ cfg' = cfg /\ asked' = asked
    BY <1>0 DEF ItemKnown, Answer
  <1>2. IsOn(cfg.block_invalid_signatures)
    BY <1>0, <1>1 DEF MarkOrder
  <1>3. PICK i \in Range(ItemIds(asked[r])) : Dead(hook[r].of, i)
    BY <1>0, <1>1 DEF MarkOrder
  <1>4. ~Told(r)
    BY <1>0, <1>1, NotEnded DEF OrderOf, HookOrder, Base
  <1>5. PICK q : q = m.of
    OBVIOUS
  <1>6. q \in Req /\ Failed(q) /\ result[q].status = 400 /\ result[q].names = i /\ q # r
    BY <1>0, <1>1, <1>3, <1>4, <1>5, FailedTold DEF Dead
  <1>7. Failed(q)' /\ result'[q] = result[q]
    BY <1>0, <1>6, FailedLasts
  <1>8. SignatureJustified(r, m)'
    BY <1>1, <1>2, <1>3, <1>5, <1>6, <1>7 DEF SignatureJustified
  <1>9. m.by = "signature"
    BY <1>1
  <1> QED BY <1>8, <1>9 DEF JustifiedAs

LEMMA ReplayJustified ==
    ASSUME Known, Known', [Next]_vars, NEW r \in Req, Replay(r), host[r].stage = "new",
           NEW m, m = made'[r]
    PROVE  JustifiedAs(r, m)'
  <1>0. DOMAIN made = Req
    BY DEF Known, Base, Shape
  <1>1. /\ m.by = "cache" /\ m.of = given'.reply
        /\ given'.call = "hit" /\ given'.hash = asked[r].probe
        /\ probeLog' = probeLog /\ cfg' = cfg /\ asked' = asked
        /\ IsOn(cfg.probe_cache_enabled)
    <2>1. P!GetHit(asked[r].probe) /\ UNCHANGED <<cfg, asked>>
          /\ made'[r] = [by |-> "cache", of |-> given'.reply, at |-> now]
          /\ IsOn(cfg.probe_cache_enabled)
      BY <1>0 DEF Replay, Answer, LooksUp, Cacheable
    <2>2. given'.call = "hit" /\ given'.hash = asked[r].probe /\ probeLog' = probeLog
      BY <2>1 DEF P!GetHit
    <2> QED BY <2>1, <2>2
  <1>2. PICK h, t : h = given'.hash /\ t = given'.at
    OBVIOUS
  <1> DEFINE own == PP!Collected(h, t)'
  <1>3. Cardinality(own) >= MinSamples /\ \E n \in own : probeLog'[n].reply = given'.reply
    <2>1. /\ PP!Cardinality(own) >= MinSamples
          /\ \E n \in own : probeLog'[n].reply = given'.reply
      BY <1>1, <1>2 DEF Known, PP!ReplaysCollectedReplies, PP!Collected
    <2> QED BY <2>1, ProbeCardinality
  <1>4. \A n \in own : n \in DOMAIN probeLog /\ probeLog[n].hash = h
    BY <1>1 DEF PP!Collected
  <1> HIDE DEF own
  <1>5. \A n \in own : /\ Taught(probeLog[n].reply, h) /\ probeLog[n].reply \in Req \ {r}
    <2> SUFFICES ASSUME NEW n \in own
                 PROVE  Taught(probeLog[n].reply, h) /\ probeLog[n].reply \in Req \ {r}
      OBVIOUS
    <2>1. Taught(probeLog[n].reply, h)
      BY <1>4 DEF Known, Links, ProbeLink
    <2>2. ~Told(r)
      BY NotEnded DEF Known, Base
    <2> QED BY <2>1, <2>2 DEF Taught
  <1>6. \A n \in own : probeLog[n].reply \in Alike(r, h)
    BY <1>5 DEF Alike
  <1>7. Cardinality(own) <= Cardinality(Alike(r, h))
    <2> DEFINE f == [n \in own |-> probeLog[n].reply]
    <2>1. \A n1, n2 \in own : f[n1] = f[n2] => n1 = n2
      BY <1>4 DEF Known, Links, ProbeLink
    <2>2. f \in Injection(own, Alike(r, h))
      BY <1>6, <2>1 DEF Injection, IsInjective
    <2> HIDE DEF f
    <2> QED BY <2>2, AlikeFinite, FS_Injection
  <1>8. m.of \in Alike(r, h)
    BY <1>1, <1>3, <1>6
  <1>9. Cardinality(Alike(r, h)) >= MinSamples
    <2>1. IsFiniteSet(own)
      <3>1. probeLog \in Seq(PP!Events)
        BY DEF Known, PP!TypeOK
      <3>2. DOMAIN probeLog = 1..Len(probeLog) /\ Len(probeLog) \in Int
        BY <3>1
      <3>3. IsFiniteSet(DOMAIN probeLog)
        BY <3>2, FS_Interval
      <3> QED BY <1>4, <3>3, FS_Subset
    <2>2. Cardinality(own) \in Nat /\ Cardinality(Alike(r, h)) \in Nat /\ MinSamples \in Nat
      <3>1. Cardinality(own) \in Nat
        BY <2>1, FS_CardinalityType
      <3>2. MinSamples \in Nat
        BY SamplesPositive
      <3> QED BY <3>1, <3>2, AlikeFinite
    <2> QED BY <1>3, <1>7, <2>2
  <1>10. m.of \in Alike(r, h)' /\ Cardinality(Alike(r, h)') >= MinSamples
    BY <1>8, <1>9, AlikeGrows
  <1>11. /\ m.of \in Alike(r, asked[r].probe)'
         /\ Cardinality(Alike(r, asked[r].probe)') >= MinSamples
    BY <1>1, <1>2, <1>10 DEF Alike
  <1>12. CacheJustified(r, m)'
    BY <1>1, <1>11, CacheJustifiedAfter
  <1> QED BY <1>1, <1>12 DEF JustifiedAs

LEMMA AnswerJustified ==
    ASSUME Known, Known', [Next]_vars, NEW r \in Req, OwnStep(r), made' # made,
           NEW m, m = made'[r]
    PROVE  JustifiedAs(r, m)'
  BY AnswersMade, RefusalJustified, BlockJustified, SignatureJustifiedNow, ReplayJustified

-----------------------------------------------------------------------------
LEMMA MadeOrNot ==
    ASSUME Known, Typed, NEW q \in Req, made[q].by # "nobody"
    PROVE  /\ host[q].stage # "new"
           /\ made[q].by \in {"breaker", "signature"} => made[q].of \in Req
  <1>1. OrderOf(q) /\ made[q] \in Answers
    BY DEF Known, Base, Order, Typed
  <1>2. host[q].verdict = "terminate" /\ host[q].stage # "new"
    BY <1>1 DEF OrderOf, AnswerOrder, HostOrder, NotMade
  <1> QED BY <1>1, <1>2 DEF Answers, NotMade

\* Every answer the plugin makes itself goes back to what the upstream answered
\* to other requests, and to a rule that is on (checker.go:53-123, engine.go:246),
\* whatever happened to the stores in between: for every set of requests,
\* configuration, threshold, lifetime and pool size.
THEOREM AnswersAlwaysJustified == Spec => []AnswersJustified
  <1>1. Init => AnswersJustified
    BY DEF Init, AllJustified, JustifiedAs, NotMade, AnswersJustified
  <1>2. ASSUME Known, Known', Typed, AnswersJustified, [Next]_vars
        PROVE  AnswersJustified'
    <2>1. ASSUME NEW q \in Req, made'[q] = made[q]
          PROVE  JustifiedAs(q, made[q])'
      <3>1. PICK m : m = made[q]
        OBVIOUS
      <3>2. CASE m.by = "nobody"
        BY <2>1, <3>1, <3>2 DEF JustifiedAs
      <3>3. CASE m.by # "nobody"
        <4>1. JustifiedAs(q, m)
          BY <1>2, <3>1, AllJustified
        <4>2. /\ host[q].stage # "new"
              /\ m.by \in {"breaker", "signature"} => m.of \in Req
          BY <1>2, <3>1, <3>3, MadeOrNot
        <4>3. cfg' = cfg /\ asked'[q] = asked[q]
          BY <1>2, <4>2, StageLasts DEF Known
        <4>4. JustifiedAs(q, m)'
          BY <1>2, <4>1, <4>2, <4>3, JustifiedLasts
        <4> QED BY <2>1, <3>1, <4>4 DEF JustifiedAs, BreakerJustified, SignatureJustified,
                                       CacheJustified
      <3> QED BY <3>2, <3>3
    <2>2. CASE made' = made
      <3>1. \A q \in Req : JustifiedAs(q, made[q])'
        BY <2>1, <2>2
      <3> QED BY <3>1, AllJustified DEF AnswersJustified, JustifiedAs
    <2>3. ASSUME NEW r \in Req, OwnStep(r), made' # made
          PROVE  AnswersJustified'
      <3>1. \A q \in Req \ {r} : made'[q] = made[q]
        BY <1>2, <2>3, OthersPluginSame DEF Known, Base, PluginSame
      <3>2. JustifiedAs(r, made[r])'
        <4>1. PICK m : m = made'[r]
          OBVIOUS
        <4>2. JustifiedAs(r, m)'
          BY <1>2, <2>3, <4>1, AnswerJustified
        <4> QED BY <4>1, <4>2 DEF JustifiedAs, BreakerJustified, SignatureJustified,
                                  CacheJustified
      <3>3. \A q \in Req : JustifiedAs(q, made[q])'
        BY <2>1, <3>1, <3>2
      <3> QED BY <3>3, AllJustified DEF AnswersJustified, JustifiedAs
    <2>4. CASE UNCHANGED vars \/ Tick \/ EngineOnly
      BY <2>2, <2>4 DEF vars, Tick, EngineOnly, pluginVars
    <2> QED BY <1>2, <2>2, <2>3, <2>4, Steps
  <1>3. Known /\ Known' /\ Typed /\ AnswersJustified /\ [Next]_vars => AnswersJustified'
    BY <1>2
  <1> QED BY <1>1, <1>3, KnownHolds, TypedHolds, PTL DEF Spec
=============================================================================
