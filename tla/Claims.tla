------------------------------- MODULE Claims -------------------------------
(***************************************************************************)
(* What the registry promises about its tailnets and their MagicDNS        *)
(* suffixes, without entries, saves and callbacks.  Registry and           *)
(* Tailhopper implement it.                                                *)
(***************************************************************************)
CONSTANTS
  ID,       \* of tailnets
  Suffixes,
  None

VARIABLES
  process,    \* "up", "down", or "unreadable": down, with a file that cannot be read
  registered, \* the tailnets that are there
  granted     \* the suffix each tailnet may rely on

vars == <<process, registered, granted>>

\* No suffix is granted twice.
Exclusive(g) == \A i, j \in ID : g[i] = g[j] /\ g[i] # None => i = j

Init ==
  /\ process = "down"
  /\ registered = {}
  /\ granted = [i \in ID |-> None]

\* A start finds what there was.
Load ==
  /\ process = "down" /\ process' = "up"
  /\ UNCHANGED <<registered, granted>>

Add(i) ==
  /\ process = "up"
  /\ i \notin registered
  /\ registered' = registered \cup {i}
  /\ UNCHANGED <<process, granted>>

\* A tailnet without a suffix is granted one that nobody has.
Grant(i, s) ==
  /\ process = "up"
  /\ i \in registered /\ granted[i] = None
  /\ \A j \in ID : granted[j] # s
  /\ granted' = [granted EXCEPT ![i] = s]
  /\ UNCHANGED <<process, registered>>

\* Only with the tailnet itself does its claim go, while the process runs.
Delete(i) ==
  /\ process = "up"
  /\ i \in registered
  /\ registered' = registered \ {i}
  /\ granted' = [granted EXCEPT ![i] = None]
  /\ UNCHANGED process

(***************************************************************************)
(* A crash changes nothing if everything has been saved.  If not, it takes *)
(* away no claim, and no tailnet but perhaps the one that is being added,  *)
(* and may bring some back: tailnets whose deletion was not saved, and     *)
(* claims that were saved although they were reported as failed.           *)
(***************************************************************************)
Crash ==
  /\ process = "up" /\ process' = "down"
  /\ \/ UNCHANGED <<registered, granted>>
     \/ /\ \A i \in ID : granted[i] # None => granted'[i] = granted[i]
        /\ \A i, j \in registered \ registered' : i = j
        /\ registered' \subseteq ID
        /\ granted' \in [ID -> Suffixes \cup {None}]
        /\ \A i \in ID : granted'[i] # None => i \in registered'
        /\ Exclusive(granted')

\* A crash that leaves a half-written file takes them all, for good.
CrashInSave ==
  /\ process = "up" /\ process' = "unreadable"
  /\ registered' = {}
  /\ granted' = [i \in ID |-> None]

Next ==
  \/ Load \/ Crash \/ CrashInSave
  \/ \E i \in ID : Add(i) \/ Delete(i) \/ \E s \in Suffixes : Grant(i, s)

Spec == Init /\ [][Next]_vars
=============================================================================
