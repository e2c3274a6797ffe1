---------------------------- MODULE MCReadLocks ----------------------------
(***************************************************************************)
(* Instances of ReadLocks for TLC.                                         *)
(***************************************************************************)
EXTENDS ReadLocks, TLC

\* The Reads are interchangeable.
Symmetry == Permutations(Readers)
=============================================================================
