---------------------------- MODULE MCProbeStore ----------------------------
(***************************************************************************)
(* ProbeStore on small instances: values of its constants for TLC.         *)
(***************************************************************************)
EXTENDS ProbeStore, TLC

HashSymmetry == Permutations(Hash)
=============================================================================
