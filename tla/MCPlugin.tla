------------------------------ MODULE MCPlugin ------------------------------
(***************************************************************************)
(* Plugin on a small instance: values of its constants for TLC.            *)
(***************************************************************************)
EXTENDS Plugin, TLC

Part(i, h) == [object |-> TRUE, id |-> i, hash |-> h]

\* A streamed turn of session "s" with a reasoning item.
Turn ==
    [size |-> 1, json |-> TRUE, max_turns |-> FALSE, input |-> <<Part("rs", "a")>>,
     reasoning |-> "absent", header_keys |-> {"s"}, request_header_keys |-> {"s"},
     meta_keys |-> {}, lite |-> FALSE, stream |-> TRUE, probe |-> "h"]

\* The same question in the other protocol, of another session; of its headers
\* the host hands on other ones with the body than with the call.
Chat ==
    [Turn EXCEPT !.input = <<>>, !.header_keys = {}, !.meta_keys = {"t"}, !.stream = FALSE]

\* A turn that will be rewritten, and requests that are refused.
Lite == [Turn EXCEPT !.lite = TRUE, !.max_turns = TRUE, !.request_header_keys = {"t"}]
Endless == [Turn EXCEPT !.size = 2, !.max_turns = TRUE]
Huge == [Turn EXCEPT !.size = 3]
Garbled == [Turn EXCEPT !.json = FALSE, !.probe = "none"]

Requests == {Turn, Chat, Lite, Endless, Huge, Garbled}

\* The host converts the other protocol and drops client_metadata.
UpstreamForms ==
    [b \in Requests \cup {Fixed(b) : b \in Requests} |->
        IF b = Chat THEN [Chat EXCEPT !.meta_keys = {}, !.probe = "g"] ELSE b]

Inputs == {InputHashes(b) : b \in Requests}

Defaults ==
    [max_payload_bytes |-> 0, block_max_turns |-> "unset", block_invalid_signatures |-> "unset",
     autofix_responses_lite |-> "unset", fuzzy_circuit_breaker |-> "unset",
     probe_cache_enabled |-> "unset"]

Explicit ==
    [max_payload_bytes |-> 2, block_max_turns |-> "on", block_invalid_signatures |-> "on",
     autofix_responses_lite |-> "on", fuzzy_circuit_breaker |-> "on", probe_cache_enabled |-> "on"]

OnlySignatures ==
    [Defaults EXCEPT !.block_max_turns = "off", !.autofix_responses_lite = "off",
     !.fuzzy_circuit_breaker = "off"]

NoSignatures ==
    [Defaults EXCEPT !.block_invalid_signatures = "off", !.probe_cache_enabled = "off"]

NoMaxTurns == [Defaults EXCEPT !.block_max_turns = "off"]

Configs == {Defaults, Explicit, OnlySignatures, NoSignatures, NoMaxTurns}

\* A few requests with each configuration; turns of one session that all share
\* their state are interleaved.
RequestsOf ==
    [c \in Configs |->
        CASE c = Defaults -> {Turn}
          [] c = Explicit -> {Turn, Chat}
          [] c = OnlySignatures -> {Turn, Huge}
          [] c = NoSignatures -> {Turn, Garbled, Endless}
          [] c = NoMaxTurns -> {Lite}]

OpenWith == [c \in Configs |-> IF c = Defaults THEN 2 ELSE 1]

\* With two requests under way the clock ticks once, and circuits expire then.
TimeWith == [c \in Configs |-> IF c = Defaults THEN 1 ELSE MaxNow]

\* Time passes within hook calls where items are looked up and replies replayed.
BusyWith == [c \in Configs |-> IF c = OnlySignatures THEN 1 ELSE 0]

OneLength == {1}
Failures == {400}
Symmetric == Permutations(Req)
=============================================================================
