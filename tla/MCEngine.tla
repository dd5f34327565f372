------------------------------ MODULE MCEngine ------------------------------
(***************************************************************************)
(* Engine on small instances: values of its constants for TLC.             *)
(***************************************************************************)
EXTENDS Engine, TLC

\* Frames of these lengths leave one byte of room of a Cap of 6: 3 + 2 = 5.
OddLengths == {1, 3}

\* With an even Cap, frames of even length never leave one byte of room.
EvenLength == {2}

Symmetric == Permutations(Req) \cup Permutations(Delivery)
=============================================================================
