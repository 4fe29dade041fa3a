-------------------------------- MODULE Page --------------------------------
(***************************************************************************)
(* What the broadcaster promises to a dashboard page, without channels,    *)
(* subscriptions and callers.  Broadcaster implements it for each page.    *)
(***************************************************************************)
CONSTANT Event \* what can change, and what can be rendered anew

VARIABLES
  open,   \* the page is shown and has a connection
  stale,  \* what has changed since it was rendered
  coming, \* what the events on their way to it will have rendered anew
  missed  \* what an event was to have rendered that never comes

vars == <<open, stale, coming, missed>>

Init == open = FALSE /\ stale = {} /\ coming = {} /\ missed = {}

\* The page may be older than any change; everything will be rendered anew.
Open ==
  /\ ~open /\ open' = TRUE
  /\ stale' = Event /\ coming' = Event /\ missed' = {}

Close ==
  /\ open /\ open' = FALSE
  /\ stale' = {} /\ coming' = {} /\ missed' = {}

\* Whatever changes is announced in the same step, perhaps with more.
Change(e) ==
  /\ open
  /\ stale' = stale \cup {e}
  /\ coming' \in SUBSET Event /\ coming \cup {e} \subseteq coming'
  /\ UNCHANGED <<open, missed>>

\* Only what has come is rendered; some of it may be on its way a second time.
Render(E) ==
  /\ open /\ E \subseteq coming
  /\ stale' = stale \ E
  /\ coming' \in SUBSET coming /\ coming \ E \subseteq coming'
  /\ missed' = missed \ E
  /\ UNCHANGED open

\* What will not come is known to be missed.
Miss(E) ==
  /\ open /\ E \subseteq coming
  /\ missed' = missed \cup E
  /\ coming' \in SUBSET coming /\ coming \ E \subseteq coming'
  /\ UNCHANGED <<open, stale>>

Next ==
  \/ Open \/ Close
  \/ \E e \in Event : Change(e)
  \/ \E E \in SUBSET Event : Render(E) \/ Miss(E)

Spec == Init /\ [][Next]_vars
=============================================================================
