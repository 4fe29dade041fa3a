-------------------------- MODULE BroadcasterDocs --------------------------
(***************************************************************************)
(* What the comments say of the broadcaster and the code does not do.      *)
(***************************************************************************)
EXTENDS Broadcaster

\* "Broadcast sends an event to all subscribers", and "Channel is full, skip this
\* subscriber" is the one exception (sse.go): a Broadcast does not end before it
\* has come to every client that is still subscribed.
SendsToAll ==
  [][\A p \in Callers :
       phase[p] = "send" /\ phase'[p] = "idle" => to[p] \cap subscribers = {}]_vars
=============================================================================
