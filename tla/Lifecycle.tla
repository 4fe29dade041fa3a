----------------------------- MODULE Lifecycle -----------------------------
(***************************************************************************)
(* What a tailnet promises to its user and to the other tailnets, without  *)
(* locks, watchers, servers and listeners.  Tailnet implements it.         *)
(***************************************************************************)
EXTENDS States

CONSTANTS Suffixes, None

VARIABLES
  mode,  \* "off", "on", "stopping", "leaving" (logging out), "failed"
  wish,  \* what the user last asked for
  suffix \* the suffix other tailnets cannot have, once it is known

vars == <<mode, wish, suffix>>

Init ==
  /\ mode \in {"off", "failed"}
  /\ wish \in UserState /\ (mode = "failed" => wish = UserDisabled)
  /\ suffix \in Suffixes \cup {None}

\* Only the user switches a tailnet on, which may not work.
SwitchOn ==
  /\ mode = "off"
  /\ wish' = UserEnabled
  /\ mode' \in {"on", "off"}
  /\ UNCHANGED suffix

\* Only the user switches it off; it may take a while.
SwitchOff ==
  /\ mode = "on"
  /\ wish' = UserDisabled
  /\ mode' \in {"stopping", "off"}
  /\ UNCHANGED suffix

Stopped ==
  /\ mode = "stopping"
  /\ mode' = "off"
  /\ UNCHANGED <<wish, suffix>>

Leave ==
  /\ mode \in {"on", "off"}
  /\ wish' = UserDisabled
  /\ mode' = "leaving"
  /\ UNCHANGED suffix

Left ==
  /\ mode = "leaving"
  /\ mode' = "off"
  /\ UNCHANGED <<wish, suffix>>

\* A suffix is claimed once, while the tailnet is on.
Claim ==
  /\ mode = "on" /\ suffix = None
  /\ suffix' \in Suffixes
  /\ UNCHANGED <<mode, wish>>

\* It cannot be claimed: the tailnet is switched off, and has failed for good
\* unless a transition of the session hides that.
Refuse ==
  /\ mode = "on" /\ suffix = None
  /\ wish' = UserDisabled
  /\ mode' \in {"failed", "on"}
  /\ UNCHANGED suffix

Next == SwitchOn \/ SwitchOff \/ Stopped \/ Leave \/ Left \/ Claim \/ Refuse

Spec == Init /\ [][Next]_vars
=============================================================================
