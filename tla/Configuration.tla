--------------------------- MODULE Configuration ---------------------------
(***************************************************************************)
(* internal/plugin/config.go: what the plugin makes of the configuration   *)
(* it is built with.  A configuration is a record                          *)
(*   [max_payload_bytes : Int,                                             *)
(*    block_max_turns, block_invalid_signatures, autofix_responses_lite,   *)
(*    fuzzy_circuit_breaker, probe_cache_enabled : Switch].                *)
(* Durations and the threshold, which the stores take as constants, are    *)
(* operators of their own.                                                 *)
(***************************************************************************)
EXTENDS Integers

CONSTANT DefaultMaxPayload   \* 15 MB

\* A pointer to a bool: nil, or to one of its values.
Switch == {"unset", "on", "off"}

\* IsBlockMaxTurns and the getters like it: a rule is off only when it was
\* switched off.
IsOn(switch) == switch # "off"

GetMaxPayloadBytes(cfg) ==
    IF cfg.max_payload_bytes <= 0 THEN DefaultMaxPayload ELSE cfg.max_payload_bytes

\* ParseTTL, ParseCircuitTTL and ParseProbeTTL: 0 stands for a text that is
\* missing or is no duration.
ParseDuration(d, default) == IF d <= 0 THEN default ELSE d

\* GetSimilarityThreshold of num/den, den positive.
SimilarityThreshold(num, den) ==
    IF num <= 0 \/ num > den THEN [num |-> 9, den |-> 10] ELSE [num |-> num, den |-> den]
=============================================================================
