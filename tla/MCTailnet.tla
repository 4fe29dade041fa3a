----------------------------- MODULE MCTailnet -----------------------------
(***************************************************************************)
(* Instances of Tailnet for TLC.                                           *)
(***************************************************************************)
EXTENDS TailnetDocs, TLC

CONSTANTS s1, s2, h1, p1

\* One network map, for the instance with two sessions at a time.
MCOneMap == {[suffix |-> s1, host |-> h1, peers |-> p1]}

\* Network maps that name one suffix or another, for one session at a time.
MCTwoMaps ==
  {[suffix |-> s1, host |-> None, peers |-> p1], [suffix |-> s2, host |-> None, peers |-> p1]}

MCEntry(e, s, t) == [enabled |-> e, suffix |-> s, terminalError |-> t]

\* A new entry, as the registry adds it.
MCNew == {MCEntry(FALSE, None, None)}

\* Entries a registry may load: also of a tailnet that was on, that has a claim,
\* and of one that failed, whose disabling may not have been saved.
MCLoaded == MCNew \cup {MCEntry(TRUE, s1, None), MCEntry(TRUE, None, s1)}

\* A new entry, and one that failed and is loaded with its disabling unsaved.
MCNewOrFailed == MCNew \cup {MCEntry(TRUE, None, s1)}

\* Sessions are interchangeable.
MCSymmetry == Permutations(Sessions)
=============================================================================
