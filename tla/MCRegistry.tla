----------------------------- MODULE MCRegistry -----------------------------
(***************************************************************************)
(* Instances of Registry for TLC.                                          *)
(***************************************************************************)
EXTENDS RegistryDocs, TLC

\* Suffixes are interchangeable, and so are requests.
MCSymmetry == Permutations(Suffixes) \cup Permutations(Requests)
=============================================================================
