---------------------------- MODULE MCTailhopper ----------------------------
(***************************************************************************)
(* Instances of Tailhopper for TLC.                                        *)
(***************************************************************************)
EXTENDS TailhopperDocs, TLC

\* Objects, suffixes, ports and requests are interchangeable.
MCSymmetry ==
  Permutations(Objects) \cup Permutations(Suffixes) \cup Permutations(Ports)
    \cup Permutations(Requests)
=============================================================================
