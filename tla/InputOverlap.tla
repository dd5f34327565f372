---------------------------- MODULE InputOverlap ----------------------------
(***************************************************************************)
(* The similarity test of the fuzzy circuit breaker: computeOverlap of     *)
(* internal/state/store.go together with the comparison its two callers    *)
(* make against the threshold.                                             *)
(*                                                                         *)
(* A request's input is the list of the hashes of its input items, in      *)
(* order and with repetitions (extractInputHashes of guard/checker.go).    *)
(* The code divides two integers into a float64 and compares with a        *)
(* threshold such as 0.90; for lists shorter than 2^50 items the rounded   *)
(* comparison agrees with the exact one, which is the one written here.    *)
(***************************************************************************)
EXTENDS Integers, FiniteSets, Sequences

CONSTANTS
    ThresholdNum,   \* the similarity threshold is ThresholdNum/ThresholdDen
    ThresholdDen

\* NewChecker replaces a threshold outside (0, 1] by 0.90, so it is in (0, 1].
ASSUME ThresholdAssumption ==
    /\ ThresholdDen \in Nat \ {0}
    /\ ThresholdNum \in 1..ThresholdDen

Occurs(h, list) == \E n \in DOMAIN list : list[n] = h

\* How many entries of "last" occur in "current"; a repeated entry of "last"
\* counts every time.
Shared(current, last) == Cardinality({n \in DOMAIN last : Occurs(last[n], current)})

\* computeOverlap(current, last) >= threshold.  An empty "last" has overlap 0.
Similar(current, last) ==
    /\ last # <<>>
    /\ Shared(current, last) * ThresholdDen >= ThresholdNum * Len(last)

=============================================================================
