---------------------------- MODULE MCGuardStore ----------------------------
(***************************************************************************)
(* GuardStore on small instances: values of its constants for TLC.         *)
(***************************************************************************)
EXTENDS GuardStore, TLC

\* Input lists.  A longer conversation is similar to the shorter one it
\* extends and not the other way round.
Short == <<"a", "b">>
Long == <<"a", "b", "c">>

GrowingInputs == {Short, Long}
OneInput == {Short}

OneFailureCode == {200, 400}
TwoFailureCodes == {0, 200, 400, 502}

SessionSymmetry == Permutations(Session)
ThreadSymmetry == Permutations(Thread)
=============================================================================
