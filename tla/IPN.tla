-------------------------------- MODULE IPN --------------------------------
(***************************************************************************)
(* What a watcher knows of its Tailscale node (internal/ts/watcher.go): an *)
(* IPNState accumulated from the notifications of the node's IPN bus, and  *)
(* how one notification refreshes it.                                      *)
(*                                                                         *)
(* A notification carries any subset of a state, a login URL and a network *)
(* map; what it does not carry keeps its earlier value.  ErrMessage and    *)
(* DisplayMessages are accumulated by the code but never read by it, and   *)
(* are left out.                                                           *)
(***************************************************************************)
CONSTANTS
  IpnStates, \* states of the bus that the instance distinguishes
  URLs,      \* login URLs the control plane may hand out, EmptyURL possibly one of them
  EmptyURL,  \* the empty string, sent as a login URL
  Suffixes,  \* MagicDNS suffixes
  Hosts,     \* names of this node as reported by Tailscale
  PeerLists, \* lists of peers
  NetMaps,   \* network maps the control plane may send
  None       \* a nil pointer, an empty string or an empty list

\* Every state of the bus besides these three is one the code never looks for.
NeedsLogin       == "NeedsLogin"
NeedsMachineAuth == "NeedsMachineAuth"
Running          == "Running"
Starting         == "Starting"

ASSUME IPNAssumption ==
  /\ IpnStates \subseteq {NeedsLogin, NeedsMachineAuth, Running, Starting}
  /\ None \notin IpnStates /\ None \notin URLs /\ None \notin Suffixes
  /\ None \notin Hosts /\ None \notin PeerLists /\ None \notin NetMaps
  /\ NetMaps \subseteq [suffix : Suffixes \cup {None},
                        host   : Hosts \cup {None},
                        peers  : PeerLists]

IPNState ==
  [state  : IpnStates \cup {None},
   url    : URLs \cup {None},
   suffix : Suffixes \cup {None},
   host   : Hosts \cup {None},
   peers  : PeerLists \cup {None}]

NoIPNState ==
  [state |-> None, url |-> None, suffix |-> None, host |-> None, peers |-> None]

\* A notification: None stands for a nil field.
Notify ==
  [state  : IpnStates \cup {None},
   url    : URLs \cup {None},
   netMap : NetMaps \cup {None}]

\* new if it is present, old otherwise.
OrElse(new, old) == IF new = None THEN old ELSE new

(***************************************************************************)
(* IPNState.refresh.  A network map replaces the node and its peers; it    *)
(* replaces the suffix only if the node's name holds one.                  *)
(***************************************************************************)
Refresh(s, n) ==
  [state  |-> OrElse(n.state, s.state),
   url    |-> OrElse(n.url, s.url),
   suffix |-> IF n.netMap = None THEN s.suffix ELSE OrElse(n.netMap.suffix, s.suffix),
   host   |-> IF n.netMap = None THEN s.host ELSE n.netMap.host,
   peers  |-> IF n.netMap = None THEN s.peers ELSE n.netMap.peers]

=============================================================================
