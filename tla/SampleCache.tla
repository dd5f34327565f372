---------------------------- MODULE SampleCache ----------------------------
(***************************************************************************)
(* What internal/probecache/store.go promises to the plugin, without its   *)
(* clock, its counters and its ways of failing: a cache of replies per     *)
(* input, and a snapshot of it that outlives the process.                  *)
(*                                                                         *)
(* The cache may forget all replies of an input at any time.  It never     *)
(* invents one, moves one to another input, reorders or replaces them, or  *)
(* forgets some of them and keeps later ones; it replays only from a full  *)
(* collection; and a new process starts from the snapshot, which is the    *)
(* cache as it once was.                                                   *)
(***************************************************************************)
EXTENDS Integers, FiniteSets, Sequences

CONSTANTS
    Hash,        \* inputs
    Reply,       \* replies
    MinSamples,  \* replies of a full collection
    MaxEntries   \* inputs the cache may hold replies of

VARIABLES
    kept,   \* the replies kept for each input, in the order they came
    saved,  \* the snapshot
    given   \* what the last call replayed

vars == <<kept, saved, given>>

Nothing == [h \in Hash |-> <<>>]

NotGiven == [call |-> "none"]

\* n is m without the replies of some inputs.
Forgets(m, n) ==
    \E S \in SUBSET Hash : n = [h \in Hash |-> IF h \in S THEN m[h] ELSE <<>>]

\* m with one more reply for h, unless the collection is full.
With(m, h, r) ==
    [m EXCEPT ![h] = IF Len(@) < MinSamples THEN Append(@, r) ELSE @]

HeldInputs(m) == {h \in Hash : m[h] # <<>>}

Snapshot == saved' \in {saved, kept'}

Init ==
    /\ kept = Nothing
    /\ saved = Nothing
    /\ given = NotGiven

Collect(h, r) ==
    /\ Cardinality(HeldInputs(With(kept, h, r))) <= MaxEntries
    /\ Forgets(With(kept, h, r), kept')
    /\ Snapshot
    /\ given' = NotGiven

Replay(h) ==
    /\ Len(kept[h]) >= MinSamples
    /\ \E n \in DOMAIN kept[h] :
          given' = [call |-> "hit", hash |-> h, reply |-> kept[h][n]]
    /\ Forgets(kept, kept')
    /\ Snapshot

\* A call that finds nothing to replay, or has no room for a new input.
Miss ==
    /\ Forgets(kept, kept')
    /\ given' = NotGiven
    /\ UNCHANGED saved

Restart ==
    /\ Forgets(saved, kept')
    /\ given' = NotGiven
    /\ UNCHANGED saved

Next ==
    \/ \E h \in Hash :
          \/ \E r \in Reply : Collect(h, r)
          \/ Replay(h)
    \/ Miss
    \/ Restart

Spec == Init /\ [][Next]_vars
=============================================================================
