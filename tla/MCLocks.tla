------------------------------ MODULE MCLocks ------------------------------
(***************************************************************************)
(* Instances of Locks for TLC.                                             *)
(***************************************************************************)
EXTENDS Locks, TLC

\* Requests are interchangeable.
MCSymmetry == Permutations(Requests)
=============================================================================
