------------------------------ MODULE Checker ------------------------------
(***************************************************************************)
(* internal/guard/checker.go: what the rules of the guard look at in a     *)
(* request, and in which order.  The rules that ask the guard store, the   *)
(* breaker and the list of invalid items, are steps of Plugin; the         *)
(* operators here are what a request contributes to them.                  *)
(*                                                                         *)
(* A request is a record:                                                  *)
(*   size       length of its body; 0 when there is none                   *)
(*   json       the body is a JSON object                                  *)
(*   max_turns  it has the parameter max_turns                             *)
(*   input      its input items, each [object, id, hash]; an item that is  *)
(*              no object has no id, and an id may be missing              *)
(*   reasoning  "absent" (or null), "all_turns", "other" (an object with   *)
(*              another context or none), or "opaque" (no object)          *)
(*   header_keys, request_header_keys, meta_keys                           *)
(*              session keys of Headers, of what GetHeaders returns        *)
(*              (RequestHeaders, or Headers where the host has none), and  *)
(*              of client_metadata                                         *)
(*   lite       it has the Responses-Lite header                           *)
(* and, for the probe cache, stream and probe, its input hash.             *)
(***************************************************************************)
EXTENDS Configuration, Sequences

NoId == "none"

\* extractSessionKeys: the keys an outcome is recorded under.
SessionKeys(req) == req.request_header_keys \cup (IF req.json THEN req.meta_keys ELSE {})

\* The keys a request is checked with: CheckRequest reads Headers itself.
CheckedKeys(req) == req.header_keys \cup (IF req.json THEN req.meta_keys ELSE {})

\* extractInputHashes.
InputHashes(req) ==
    IF req.json THEN [n \in DOMAIN req.input |-> req.input[n].hash] ELSE <<>>

\* The ids the list of invalid items is asked for, in their order.  One item
\* that is no object makes the decoding of all of them fail.
ItemIds(req) ==
    IF \A n \in DOMAIN req.input : req.input[n].object
    THEN SelectSeq([n \in DOMAIN req.input |-> req.input[n].id], LAMBDA i : i # NoId)
    ELSE <<>>

IsResponsesLite(cfg, req) == IsOn(cfg.autofix_responses_lite) /\ req.lite

(* The rules, in the order of CheckRequest. *)

\* The size is looked at before anything is decoded.
Overloaded(cfg, req) == req.size > GetMaxPayloadBytes(cfg)

\* Mutant of FastPass: an item id alone is no reason to look.
FastPass_NoIds(cfg, req) ==
    /\ ~(IsOn(cfg.block_max_turns) /\ req.max_turns)
    /\ ~(IsOn(cfg.block_invalid_signatures) /\ req.reasoning # "absent")
    /\ ~IsResponsesLite(cfg, req)
    /\ ~IsOn(cfg.fuzzy_circuit_breaker)

\* No rule has anything to look for.  The code searches the bytes for
\* "max_turns", "reasoning" and "rs_; a body that only quotes one of these
\* goes the long way, to the same end.
FastPass(cfg, req) ==
    /\ ~(IsOn(cfg.block_max_turns) /\ req.max_turns)
    /\ ~( /\ IsOn(cfg.block_invalid_signatures)
          /\ req.reasoning # "absent" \/ ItemIds(req) # <<>> )
    /\ ~IsResponsesLite(cfg, req)
    /\ ~IsOn(cfg.fuzzy_circuit_breaker)

\* CheckRequest returns without a look at the rules.
NotExamined(cfg, req) == req.size = 0 \/ FastPass(cfg, req) \/ ~req.json

HasMaxTurns(cfg, req) == IsOn(cfg.block_max_turns) /\ req.max_turns

\* The breaker is asked with these keys.
BreakerKeys(cfg, req) ==
    IF IsOn(cfg.fuzzy_circuit_breaker) /\ InputHashes(req) # <<>>
    THEN CheckedKeys(req) ELSE {}

\* The list of invalid items is asked for these.
ExaminedIds(cfg, req) ==
    IF IsOn(cfg.block_invalid_signatures) THEN ItemIds(req) ELSE <<>>

\* The last rule rewrites the body.
NeedsFix(cfg, req) ==
    IsResponsesLite(cfg, req) /\ req.reasoning \in {"absent", "other"}

Fixed(req) == [req EXCEPT !.reasoning = "all_turns"]

(* RecordOutcome of an outcome: its status, and the item its body names as  *)
(* one that could not be verified, or NoId.                                 *)

\* The breaker hears of it under these keys.
RecordedKeys(cfg, keys) == IF IsOn(cfg.fuzzy_circuit_breaker) THEN keys ELSE {}

NamesInvalidItem(outcome) == outcome.status = 400 /\ outcome.names # NoId
=============================================================================
