---------------------------- MODULE Broadcaster ----------------------------
(***************************************************************************)
(* The SSE broadcaster (internal/sse): every open dashboard page is a      *)
(* client with a buffered channel of events, and every change of a tailnet *)
(* or of the registry is followed by a Broadcast.                          *)
(*                                                                         *)
(* SSEBroadcaster.mu covers the set of subscribers but not the sends:      *)
(* Broadcast copies the set, releases mu and then sends to one channel     *)
(* after the other, while Unsubscribe closes channels.                     *)
(***************************************************************************)
EXTENDS Naturals, Sequences

CONSTANTS
  Tailnets,  \* tailnets whose changes are broadcast
  Clients,   \* BOUND: subscriptions at the same time
  Callers,   \* BOUND: goroutines that broadcast at the same time
  Requests,  \* those of them that serve a request, whose panics Recoverer catches
  Pages,     \* BOUND: the clients whose page is followed; they are all alike
  Capacity   \* of a subscriber's channel

\* The events: the change of one tailnet, or of the list of them.
Global == "global"
Event  == Tailnets \cup {Global}

ASSUME BroadcasterAssumption ==
  /\ Global \notin Tailnets
  /\ Requests \subseteq Callers
  /\ Pages \subseteq Clients
  /\ Capacity \in Nat \ {0}

VARIABLES
  subscribers, \* the map of subscribers
  closed,      \* the clients whose channel is closed
  channel,     \* the events in each channel
  pc,          \* ServeSSE: "none", "greet", "stream"
  canceled,    \* the clients whose request context is done
  cleaner,     \* the clients whose goroutine waits for that context
  phase,       \* a caller is "idle", has "changed" something, or is to "send"
  event,       \* what it broadcasts, Global while idle
  to,          \* the clients it has yet to send to
  outdated,    \* what changed since each client's page was last rendered
  lost,        \* changes for which a client's event was dropped
  exited       \* a panic has ended the process

connections == <<pc, canceled, cleaner>>
callers     == <<phase, event, to>>
pages       == <<outdated, lost>>
vars == <<subscribers, closed, channel, connections, callers, pages, exited>>

\* Every variable holds a value of its type, and no channel more than it can.
TypeOK ==
  /\ subscribers \subseteq Clients
  /\ closed \subseteq Clients
  /\ channel \in [Clients -> Seq(Event)]
  /\ \A c \in Clients : Len(channel[c]) <= Capacity
  /\ pc \in [Clients -> {"none", "greet", "stream"}]
  /\ canceled \subseteq Clients
  /\ cleaner \subseteq Clients
  /\ phase \in [Callers -> {"idle", "changed", "send"}]
  /\ event \in [Callers -> Event]
  /\ to \in [Callers -> SUBSET Clients]
  /\ outdated \in [Clients -> SUBSET Event]
  /\ lost \in [Clients -> SUBSET Event]
  /\ exited \in BOOLEAN

Init ==
  /\ subscribers = {} /\ closed = {}
  /\ channel = [c \in Clients |-> <<>>]
  /\ pc = [c \in Clients |-> "none"]
  /\ canceled = {} /\ cleaner = {}
  /\ phase = [p \in Callers |-> "idle"]
  /\ event = [p \in Callers |-> Global]
  /\ to = [p \in Callers |-> {}]
  /\ outdated = [c \in Clients |-> {}]
  /\ lost = [c \in Clients |-> {}]
  /\ exited = FALSE

\* What a page is rendered anew for when it hears of e (templates/dashboard.html):
\* the whole container, or the card of one tailnet.
Refreshed(e) == IF e = Global THEN Event ELSE {e}

\* What the events in c's channel will have rendered anew.
Waiting(c) == UNION {Refreshed(channel[c][i]) : i \in DOMAIN channel[c]}

\* The browser shows a page that is followed, and keeps c's connection open.
HasPage(c) == c \in Pages /\ pc[c] # "none" /\ c \notin canceled

-----------------------------------------------------------------------------
(* One SSE connection. *)

\* Subscribe; the page the client shows may be older than any change.
Subscribe(c) ==
  /\ ~exited
  /\ pc[c] = "none" /\ c \notin cleaner
  /\ \A p \in Callers : c \notin to[p]
  /\ subscribers' = subscribers \cup {c}
  /\ closed' = closed \ {c}
  /\ channel' = [channel EXCEPT ![c] = <<>>]
  /\ pc' = [pc EXCEPT ![c] = "greet"]
  /\ canceled' = canceled \ {c}
  /\ cleaner' = cleaner \cup {c}
  /\ outdated' = [outdated EXCEPT ![c] = IF c \in Pages THEN Event ELSE {}]
  /\ lost' = [lost EXCEPT ![c] = {}]
  /\ UNCHANGED <<callers, exited>>

\* The client hears of e and fetches its page.
Render(c, e) ==
  /\ outdated' = [outdated EXCEPT ![c] = @ \ Refreshed(e)]
  /\ lost' = [lost EXCEPT ![c] = @ \ Refreshed(e)]

\* Mutant: the client is told nothing when it connects.
GreetSilently(c) ==
  /\ ~exited
  /\ pc[c] = "greet"
  /\ pc' = [pc EXCEPT ![c] = "stream"]
  /\ UNCHANGED <<subscribers, closed, channel, canceled, cleaner, callers, pages, exited>>

\* ServeSSE forces a global refresh after it has subscribed.
Greet(c) ==
  /\ ~exited
  /\ pc[c] = "greet"
  /\ pc' = [pc EXCEPT ![c] = "stream"]
  /\ Render(c, Global)
  /\ UNCHANGED <<subscribers, closed, channel, canceled, cleaner, callers, exited>>

\* The select of the loop may take an event although the context is done.
Deliver(c) ==
  /\ ~exited
  /\ pc[c] = "stream"
  /\ channel[c] # <<>>
  /\ channel' = [channel EXCEPT ![c] = Tail(@)]
  /\ Render(c, Head(channel[c]))
  /\ UNCHANGED <<subscribers, closed, connections, callers, exited>>

\* The browser goes away, and its page with it.
Disconnect(c) ==
  /\ ~exited
  /\ pc[c] # "none" /\ c \notin canceled
  /\ canceled' = canceled \cup {c}
  /\ outdated' = [outdated EXCEPT ![c] = {}]
  /\ lost' = [lost EXCEPT ![c] = {}]
  /\ UNCHANGED <<subscribers, closed, channel, pc, cleaner, callers, exited>>

\* Mutant: the entry stays in the map.
UnsubscribeKeeps(c) ==
  /\ closed' = IF c \in subscribers THEN closed \cup {c} ELSE closed
  /\ UNCHANGED subscribers

Unsubscribe(c) ==
  /\ closed' = IF c \in subscribers THEN closed \cup {c} ELSE closed
  /\ subscribers' = subscribers \ {c}

\* ServeSSE returns: its context is done, or its channel closed and drained.
\* What is left in the channel is never read.
Leave(c) ==
  /\ ~exited
  /\ pc[c] = "stream"
  /\ c \in canceled \/ (c \in closed /\ channel[c] = <<>>)
  /\ Unsubscribe(c)
  /\ pc' = [pc EXCEPT ![c] = "none"]
  /\ channel' = [channel EXCEPT ![c] = <<>>]
  /\ UNCHANGED <<canceled, cleaner, callers, pages, exited>>

\* The goroutine Subscribe left behind sees the end of the context.
CleanUp(c) ==
  /\ ~exited
  /\ c \in cleaner /\ c \in canceled
  /\ Unsubscribe(c)
  /\ cleaner' = cleaner \ {c}
  /\ UNCHANGED <<channel, pc, canceled, callers, pages, exited>>

-----------------------------------------------------------------------------
(* One Broadcast. *)

\* Caller p changes what e is about, and is going to broadcast it.
Change(p, e) ==
  /\ ~exited
  /\ phase[p] = "idle"
  /\ phase' = [phase EXCEPT ![p] = "changed"]
  /\ event' = [event EXCEPT ![p] = e]
  /\ outdated' = [c \in Clients |-> IF HasPage(c) THEN outdated[c] \cup {e} ELSE {}]
  /\ UNCHANGED <<subscribers, closed, channel, connections, to, lost, exited>>

\* Broadcast copies the set of subscribers while it holds mu.
Snapshot(p) ==
  /\ ~exited
  /\ phase[p] = "changed"
  /\ phase' = [phase EXCEPT ![p] = "send"]
  /\ to' = [to EXCEPT ![p] = subscribers]
  /\ UNCHANGED <<subscribers, closed, channel, connections, event, pages, exited>>

\* Mutant: the channel is taken to have room always.
NeverFull(c) == FALSE

Full(c) == Len(channel[c]) = Capacity

\* Mutant: the loop returns where it should go on.
SendToFirst(p, c) ==
  /\ ~exited
  /\ phase[p] = "send" /\ c \in to[p]
  /\ c \notin closed
  /\ to' = [to EXCEPT ![p] = {}]
  /\ ~Full(c)
  /\ channel' = [channel EXCEPT ![c] = Append(@, event[p])]
  /\ UNCHANGED <<subscribers, closed, connections, phase, event, pages, exited>>

Send(p, c) ==
  /\ ~exited
  /\ phase[p] = "send" /\ c \in to[p]
  /\ c \notin closed
  /\ to' = [to EXCEPT ![p] = @ \ {c}]
  /\ ~Full(c)
  /\ channel' = [channel EXCEPT ![c] = Append(@, event[p])]
  /\ UNCHANGED <<subscribers, closed, connections, phase, event, pages, exited>>

\* A full channel is skipped; what its events cover anyway is not lost.
Skip(p, c) ==
  /\ ~exited
  /\ phase[p] = "send" /\ c \in to[p]
  /\ c \notin closed
  /\ to' = [to EXCEPT ![p] = @ \ {c}]
  /\ Full(c)
  /\ lost' = [lost EXCEPT ![c] =
       IF HasPage(c) THEN @ \cup (Refreshed(event[p]) \ Waiting(c)) ELSE {}]
  /\ UNCHANGED <<subscribers, closed, channel, connections, phase, event, outdated, exited>>

(***************************************************************************)
(* A send on a closed channel panics, also in a select with a default.     *)
(* Recoverer ends the request, and the clients still to be sent to get     *)
(* nothing; CatchPanic in a watcher's goroutine ends the process.          *)
(***************************************************************************)
Panic(p, c) ==
  /\ ~exited
  /\ phase[p] = "send" /\ c \in to[p]
  /\ c \in closed
  /\ phase' = [phase EXCEPT ![p] = "idle"]
  /\ event' = [event EXCEPT ![p] = Global]
  /\ to' = [to EXCEPT ![p] = {}]
  /\ exited' = (p \notin Requests)
  /\ lost' = [d \in Clients |->
       IF d \in to[p] /\ HasPage(d) THEN lost[d] \cup Refreshed(event[p]) ELSE lost[d]]
  /\ UNCHANGED <<subscribers, closed, channel, connections, outdated>>

Return(p) ==
  /\ ~exited
  /\ phase[p] = "send" /\ to[p] = {}
  /\ phase' = [phase EXCEPT ![p] = "idle"]
  /\ event' = [event EXCEPT ![p] = Global]
  /\ UNCHANGED <<subscribers, closed, channel, connections, to, pages, exited>>

-----------------------------------------------------------------------------

\* The goroutines: a request to /events, the one Subscribe leaves behind (CleanUp)
\* and a Broadcast under way.
Serve(c) == Greet(c) \/ Deliver(c) \/ Leave(c)

Broadcast(p) ==
  \/ Snapshot(p)
  \/ \E c \in Clients : Send(p, c) \/ Skip(p, c) \/ Panic(p, c)
  \/ Return(p)

Next ==
  \/ \E c \in Clients : Subscribe(c) \/ Serve(c) \/ Disconnect(c) \/ CleanUp(c)
  \/ \E p \in Callers : Broadcast(p) \/ \E e \in Event : Change(p, e)

Spec == Init /\ [][Next]_vars

(***************************************************************************)
(* Fairness.  Every goroutine that can go on gets to run; the browser need *)
(* not connect or go away, and nothing need change.                        *)
(***************************************************************************)
Fairness ==
  /\ \A c \in Clients : WF_vars(Serve(c)) /\ WF_vars(CleanUp(c))
  /\ \A p \in Callers : WF_vars(Broadcast(p))

FairSpec == Spec /\ Fairness

-----------------------------------------------------------------------------
(* Properties. *)

Connected(c) == pc[c] = "stream" /\ HasPage(c)

\* Broadcaster p is going to send c an event that renders e anew.
Announces(p, c, e) ==
  /\ e \in Refreshed(event[p])
  /\ phase[p] = "changed" \/ c \in to[p]

\* A page that shows something old will hear of it: there is an event for it in
\* its channel or on the way there, whatever subscribes, refreshes and breaks off
\* in between, unless that event was dropped.
UpdatesOnTheWay ==
  ~exited =>
    \A c \in Pages : Connected(c) =>
      \A e \in outdated[c] \ lost[c] :
        e \in Waiting(c) \/ \E p \in Callers : Announces(p, c, e)

\* Unsubscribe is called twice for each client, by its handler and by the goroutine
\* Subscribe left behind, and by either of them alone.  Who is subscribed has an open
\* channel, which is therefore closed once, a handler that reads it, and a goroutine
\* that will take it out; no open page is taken out by either; and no goroutine waits
\* for the context of a handler that has returned.
SubscriptionOwned ==
  \A c \in Clients :
    /\ c \in subscribers => c \notin closed /\ c \in cleaner /\ pc[c] # "none"
    /\ pc[c] # "none" /\ c \notin canceled => c \in subscribers
    /\ c \in cleaner => pc[c] # "none" \/ c \in canceled

\* A page that shows something old is rendered anew, unless the event for it was
\* dropped, the browser goes away or the process ends.
PagesRefreshed ==
  \A c \in Pages, e \in Event :
    Connected(c) /\ e \in outdated[c] ~>
      e \notin outdated[c] \/ e \in lost[c] \/ ~Connected(c) \/ exited

\* When the browser has gone away, its handler and the goroutine that waits for
\* the context both end, in either order, and it is no longer subscribed.
ConnectionsEnd ==
  \A c \in Clients :
    c \in canceled ~> (pc[c] = "none" /\ c \notin cleaner \cup subscribers) \/ exited

-----------------------------------------------------------------------------
(* The promise to each page. *)

\* What the greeting, the events in the channel and those that callers have yet to
\* send will have rendered anew.
Coming(c) ==
  {e \in Event :
     HasPage(c) /\ (pc[c] = "greet" \/ e \in Waiting(c) \/ \E p \in Callers : Announces(p, c, e))}

Client(c) == INSTANCE Page WITH
  open <- HasPage(c), stale <- outdated[c], coming <- Coming(c), missed <- lost[c]

\* To each page the broadcaster does what Page says and nothing else: between the
\* copy of the subscribers, full channels, clients that come and go and broadcasts
\* that panic, no announcement of a change gets lost without being counted as missed,
\* none is made up, and nothing but an event makes a page less out of date.
\* (Client(c)!Spec for each of them, as one initial condition and one box.)
PagesTold ==
  /\ \A c \in Pages : Client(c)!Init
  /\ [][\A c \in Pages : [Client(c)!Next]_(Client(c)!vars)]_vars

=============================================================================
