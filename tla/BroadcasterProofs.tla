------------------------- MODULE BroadcasterProofs -------------------------
(***************************************************************************)
(* Proofs about Broadcaster: its type invariant, that a subscription has   *)
(* one owner and its channel is closed once, that no update is lost on the *)
(* way to a page unless it was dropped, and that it implements Page for    *)
(* each page, for all numbers of clients, callers and tailnets and every   *)
(* capacity of a channel.                                                  *)
(***************************************************************************)
EXTENDS Broadcaster, TLAPS

-----------------------------------------------------------------------------
(* Type correctness. *)

\* The initial values have their types.
LEMMA TypeInit == Init => TypeOK
<1> SUFFICES ASSUME Init PROVE TypeOK
  OBVIOUS
<1>1. <<>> \in Seq(Event) /\ Len(<<>>) <= Capacity
  BY BroadcasterAssumption
<1>2. Global \in Event
  BY DEF Event
<1>3. QED  BY <1>1, <1>2 DEF Init, TypeOK

\* What a page is rendered for are events.
LEMMA RefreshedType == ASSUME NEW e \in Event PROVE Refreshed(e) \subseteq Event
BY DEF Refreshed

\* Every step keeps the types.
LEMMA TypeStep == TypeOK /\ [Next]_vars => TypeOK'
<1> SUFFICES ASSUME TypeOK, [Next]_vars PROVE TypeOK'
  OBVIOUS
<1> USE DEF TypeOK, connections, callers, pages
<1>0. Global \in Event
  BY DEF Event
<1>1. ASSUME NEW c \in Clients, Subscribe(c) PROVE TypeOK'
  BY <1>1, BroadcasterAssumption DEF Subscribe
<1>2. ASSUME NEW c \in Clients, Greet(c) PROVE TypeOK'
  BY <1>2 DEF Greet, Render
<1>3. ASSUME NEW c \in Clients, Deliver(c) PROVE TypeOK'
  <2>1. Tail(channel[c]) \in Seq(Event) /\ Len(Tail(channel[c])) <= Capacity
    BY <1>3, BroadcasterAssumption DEF Deliver
  <2>2. QED  BY <1>3, <2>1 DEF Deliver, Render
<1>4. ASSUME NEW c \in Clients, Disconnect(c) PROVE TypeOK'
  BY <1>4 DEF Disconnect
<1>5. ASSUME NEW c \in Clients, Leave(c) PROVE TypeOK'
  BY <1>5, BroadcasterAssumption DEF Leave, Unsubscribe
<1>6. ASSUME NEW c \in Clients, CleanUp(c) PROVE TypeOK'
  BY <1>6 DEF CleanUp, Unsubscribe
<1>7. ASSUME NEW p \in Callers, NEW e \in Event, Change(p, e) PROVE TypeOK'
  BY <1>7 DEF Change
<1>8. ASSUME NEW p \in Callers, Snapshot(p) PROVE TypeOK'
  BY <1>8 DEF Snapshot
<1>9. ASSUME NEW p \in Callers, NEW c \in Clients, Send(p, c) PROVE TypeOK'
  <2>1. /\ Append(channel[c], event[p]) \in Seq(Event)
        /\ Len(Append(channel[c], event[p])) <= Capacity
    BY <1>9, BroadcasterAssumption DEF Send, Full
  <2>2. QED  BY <1>9, <2>1 DEF Send
<1>10. ASSUME NEW p \in Callers, NEW c \in Clients, Skip(p, c) PROVE TypeOK'
  BY <1>10, RefreshedType DEF Skip
<1>11. ASSUME NEW p \in Callers, NEW c \in Clients, Panic(p, c) PROVE TypeOK'
  BY <1>0, <1>11, RefreshedType DEF Panic
<1>12. ASSUME NEW p \in Callers, Return(p) PROVE TypeOK'
  BY <1>0, <1>12 DEF Return
<1>13. CASE UNCHANGED vars
  BY <1>13 DEF vars
<1>14. QED
  BY <1>1, <1>2, <1>3, <1>4, <1>5, <1>6, <1>7, <1>8, <1>9, <1>10, <1>11, <1>12, <1>13
     DEF Next, Serve, Broadcast

\* Every variable has its type, and no channel holds more than its capacity.
THEOREM TypeCorrect == Spec => []TypeOK
  BY TypeInit, TypeStep, PTL DEF Spec

-----------------------------------------------------------------------------
(***************************************************************************)
(* No update is lost.  An update that is announced but not yet sent        *)
(* survives the copy of the subscribers because the client is one of them  *)
(* as long as it is there, and a caller that is idle announces nothing.    *)
(***************************************************************************)
IdleSendsNothing == \A p \in Callers : phase[p] = "idle" => to[p] = {}

\* A client without a page has nothing to be out of date.
BlankWithoutPage == \A c \in Clients : ~HasPage(c) => outdated[c] = {} /\ lost[c] = {}

IInv ==
  TypeOK /\ IdleSendsNothing /\ SubscriptionOwned /\ BlankWithoutPage /\ UpdatesOnTheWay

\* An event sent to a channel is waiting there with those before it.
LEMMA WaitingAppend ==
  ASSUME TypeOK, NEW c \in Clients, NEW e \in Event, channel'[c] = Append(channel[c], e)
  PROVE  Waiting(c)' = Waiting(c) \cup Refreshed(e)
<1> DEFINE n == Len(channel[c])
<1>1. channel[c] \in Seq(Event) /\ n \in Nat
  BY DEF TypeOK
<1>2. /\ DOMAIN channel'[c] = 1 .. (n + 1) /\ DOMAIN channel[c] = 1 .. n
      /\ channel'[c][n + 1] = e
      /\ \A i \in 1 .. n : channel'[c][i] = channel[c][i]
  BY <1>1
<1>3. Waiting(c)' = UNION {Refreshed(channel'[c][i]) : i \in 1 .. (n + 1)}
  BY <1>2 DEF Waiting, Refreshed
<1>4. Waiting(c) = UNION {Refreshed(channel[c][i]) : i \in 1 .. n}
  BY <1>2 DEF Waiting
<1>5. 1 .. (n + 1) = 1 .. n \cup {n + 1}
  BY <1>1
<1>6. QED  BY <1>2, <1>3, <1>4, <1>5

\* Of what was waiting in a channel only what its first event covers is gone when
\* that is delivered.
LEMMA WaitingTail ==
  ASSUME TypeOK, NEW c \in Clients, channel[c] # <<>>, channel'[c] = Tail(channel[c])
  PROVE  Waiting(c) \subseteq Waiting(c)' \cup Refreshed(Head(channel[c]))
<1> DEFINE n == Len(channel[c])
<1>1. channel[c] \in Seq(Event) /\ n \in Nat \ {0}
  BY DEF TypeOK
<1>2. /\ DOMAIN channel'[c] = 1 .. (n - 1) /\ DOMAIN channel[c] = 1 .. n
      /\ Head(channel[c]) = channel[c][1]
      /\ \A i \in 1 .. (n - 1) : channel'[c][i] = channel[c][i + 1]
  BY <1>1
<1> SUFFICES ASSUME NEW i \in 1 .. n, NEW e \in Refreshed(channel[c][i]), i # 1
             PROVE  e \in Waiting(c)'
  BY <1>2 DEF Waiting
<1>3. i - 1 \in 1 .. (n - 1) /\ channel'[c][i - 1] = channel[c][i]
  BY <1>1, <1>2
<1>4. QED  BY <1>2, <1>3 DEF Waiting, Refreshed

\* A client whose channel is not touched has the same events waiting.
LEMMA WaitingSame ==
  ASSUME NEW c \in Clients, channel'[c] = channel[c]
  PROVE  Waiting(c)' = Waiting(c)
BY DEF Waiting, Refreshed

\* No connection and no browser takes an update from a page.
LEMMA UpdatesClient ==
  ASSUME IInv, ~exited, NEW d \in Clients,
         Subscribe(d) \/ Serve(d) \/ Disconnect(d) \/ CleanUp(d)
  PROVE  UpdatesOnTheWay'
<1> SUFFICES ASSUME NEW c \in Pages, Connected(c)', NEW e \in outdated'[c] \ lost'[c]
             PROVE  e \in Waiting(c)' \/ \E p \in Callers : Announces(p, c, e)'
  BY DEF UpdatesOnTheWay
<1> USE DEF connections, callers, pages
<1>0. TypeOK /\ c \in Clients
  BY BroadcasterAssumption DEF IInv
<1>1. \A p \in Callers : Announces(p, c, e)' = Announces(p, c, e)
  BY DEF Subscribe, Serve, Greet, Deliver, Leave, Disconnect, CleanUp, Announces, Refreshed
<1>2. ~Subscribe(c) /\ ~Leave(c) /\ ~Disconnect(c)
  BY <1>0 DEF Subscribe, Leave, Disconnect, Connected, HasPage, TypeOK
<1>3. CASE Greet(c)
  <2>1. c \in Clients /\ outdated'[c] = outdated[c] \ Event
    BY <1>0, <1>3 DEF Greet, Render, Refreshed, TypeOK
  <2>2. QED  BY <1>0, <2>1 DEF TypeOK
<1>4. CASE Deliver(c)
  <2>1. /\ outdated'[c] = outdated[c] \ Refreshed(Head(channel[c]))
        /\ lost'[c] = lost[c] \ Refreshed(Head(channel[c]))
        /\ channel[c] # <<>> /\ channel'[c] = Tail(channel[c])
    BY <1>0, <1>4 DEF Deliver, Render, TypeOK
  <2>2. Connected(c)
    BY <1>0, <1>4 DEF Deliver, Connected, HasPage
  <2>3. e \in outdated[c] \ lost[c] /\ e \notin Refreshed(Head(channel[c]))
    BY <2>1
  <2>4. e \in Waiting(c) \/ \E p \in Callers : Announces(p, c, e)
    BY <2>2, <2>3 DEF IInv, UpdatesOnTheWay
  <2>5. QED  BY <1>0, <1>1, <2>1, <2>3, <2>4, WaitingTail
<1>5. CASE d # c \/ CleanUp(c)
  <2>1. /\ channel'[c] = channel[c] /\ outdated'[c] = outdated[c] /\ lost'[c] = lost[c]
        /\ Connected(c)
    BY <1>0, <1>5 DEF Subscribe, Serve, Greet, Deliver, Leave, Disconnect, CleanUp, Render,
                      Connected, HasPage, TypeOK
  <2>2. QED  BY <1>0, <1>1, <2>1, WaitingSame DEF IInv, UpdatesOnTheWay
<1>6. QED  BY <1>2, <1>3, <1>4, <1>5 DEF Serve

\* A change is announced by its caller, and every step of a Broadcast leaves an
\* update in the channel, with another caller, or with those that were lost.
LEMMA UpdatesCaller ==
  ASSUME IInv, ~exited, NEW q \in Callers,
         Broadcast(q) \/ \E e \in Event : Change(q, e)
  PROVE  UpdatesOnTheWay'
<1> SUFFICES ASSUME ~exited', NEW c \in Pages, Connected(c)', NEW e \in outdated'[c] \ lost'[c]
             PROVE  e \in Waiting(c)' \/ \E p \in Callers : Announces(p, c, e)'
  BY DEF UpdatesOnTheWay
<1> USE DEF connections, callers, pages
<1>0. TypeOK /\ c \in Clients /\ UNCHANGED connections
  BY BroadcasterAssumption
     DEF IInv, Broadcast, Snapshot, Send, Skip, Panic, Return, Change
<1>1. Connected(c) /\ HasPage(c)
  BY <1>0 DEF Connected, HasPage
<1>2. \A p \in Callers \ {q} : Announces(p, c, e)' = Announces(p, c, e)
  BY <1>0 DEF Broadcast, Snapshot, Send, Skip, Panic, Return, Change, Announces, Refreshed, TypeOK
<1>3. e \in outdated[c] \ lost[c] =>
        e \in Waiting(c) \/ \E p \in Callers : Announces(p, c, e)
  BY <1>1 DEF IInv, UpdatesOnTheWay
<1>4. ASSUME NEW f \in Event, Change(q, f) PROVE e \in Waiting(c)' \/ \E p \in Callers : Announces(p, c, e)'
  <2>1. /\ channel'[c] = channel[c] /\ lost'[c] = lost[c] /\ e \in outdated[c] \cup {f}
        /\ phase'[q] = "changed" /\ event'[q] = f
    BY <1>0, <1>1, <1>4 DEF Change, TypeOK
  <2>2. CASE e = f
    BY <2>1, <2>2 DEF Announces, Refreshed
  <2>3. CASE e # f
    <3>1. ~Announces(q, c, e)
      BY <1>4 DEF Change, Announces, IInv, IdleSendsNothing
    <3>2. QED  BY <1>0, <1>2, <1>3, <2>1, <2>3, <3>1, WaitingSame
  <2>4. QED  BY <2>2, <2>3
<1>5. CASE Snapshot(q)
  <2>1. /\ channel'[c] = channel[c] /\ lost' = lost /\ outdated' = outdated
        /\ event' = event /\ to'[q] = subscribers
    BY <1>0, <1>5 DEF Snapshot, TypeOK
  <2>2. c \in subscribers
    BY <1>0, <1>1 DEF Connected, HasPage, IInv, SubscriptionOwned
  <2>3. Announces(q, c, e) => Announces(q, c, e)'
    BY <2>1, <2>2 DEF Announces, Refreshed
  <2>4. QED  BY <1>0, <1>2, <1>3, <2>1, <2>3, WaitingSame
<1>6. ASSUME NEW d \in Clients, Send(q, d) PROVE e \in Waiting(c)' \/ \E p \in Callers : Announces(p, c, e)'
  <2>1. /\ lost' = lost /\ outdated' = outdated /\ event' = event /\ phase' = phase
        /\ to'[q] = to[q] \ {d}
    BY <1>0, <1>6 DEF Send, TypeOK
  <2>2. CASE d = c
    <3>1. channel'[c] = Append(channel[c], event[q]) /\ event[q] \in Event
      BY <1>0, <1>6, <2>2 DEF Send, TypeOK
    <3>2. Waiting(c)' = Waiting(c) \cup Refreshed(event[q])
      BY <1>0, <3>1, WaitingAppend
    <3>3. QED  BY <1>2, <1>3, <2>1, <3>2 DEF Announces
  <2>3. CASE d # c
    <3>1. channel'[c] = channel[c]
      BY <1>0, <1>6, <2>3 DEF Send, TypeOK
    <3>2. Announces(q, c, e)' = Announces(q, c, e)
      BY <2>1, <2>3 DEF Announces, Refreshed
    <3>3. QED  BY <1>0, <1>2, <1>3, <2>1, <3>1, <3>2, WaitingSame
  <2>4. QED  BY <2>2, <2>3
<1>7. ASSUME NEW d \in Clients, Skip(q, d) PROVE e \in Waiting(c)' \/ \E p \in Callers : Announces(p, c, e)'
  <2>1. /\ outdated' = outdated /\ event' = event /\ phase' = phase /\ channel' = channel
        /\ to'[q] = to[q] \ {d}
        /\ lost'[d] = IF HasPage(d) THEN lost[d] \cup (Refreshed(event[q]) \ Waiting(d)) ELSE {}
        /\ d # c => lost'[c] = lost[c]
    BY <1>0, <1>7 DEF Skip, TypeOK
  <2>2. Waiting(c)' = Waiting(c)
    BY <1>0, <2>1, WaitingSame
  <2>3. CASE d = c
    <3>1. e \in outdated[c] \ lost[c] /\ e \notin Refreshed(event[q]) \ Waiting(c)
      BY <1>1, <2>1, <2>3
    <3>2. QED  BY <1>2, <1>3, <2>2, <3>1 DEF Announces
  <2>4. CASE d # c
    <3>1. Announces(q, c, e)' = Announces(q, c, e)
      BY <2>1, <2>4 DEF Announces, Refreshed
    <3>2. QED  BY <1>2, <1>3, <2>1, <2>2, <2>4, <3>1
  <2>5. QED  BY <2>3, <2>4
<1>8. ASSUME NEW d \in Clients, Panic(q, d) PROVE e \in Waiting(c)' \/ \E p \in Callers : Announces(p, c, e)'
  <2>1. /\ outdated' = outdated /\ channel' = channel /\ phase[q] = "send"
        /\ lost'[c] = IF c \in to[q] /\ HasPage(c) THEN lost[c] \cup Refreshed(event[q]) ELSE lost[c]
    BY <1>0, <1>8 DEF Panic
  <2>2. ~Announces(q, c, e)
    BY <1>1, <2>1 DEF Announces
  <2>3. e \notin lost[c]
    BY <2>1
  <2>4. QED  BY <1>0, <1>2, <1>3, <2>1, <2>2, <2>3, WaitingSame
<1>9. CASE Return(q)
  <2>1. /\ outdated' = outdated /\ channel' = channel /\ lost' = lost
        /\ phase[q] = "send" /\ to[q] = {}
    BY <1>9 DEF Return
  <2>2. ~Announces(q, c, e)
    BY <2>1 DEF Announces
  <2>3. QED  BY <1>0, <1>2, <1>3, <2>1, <2>2, WaitingSame
<1>10. QED  BY <1>4, <1>5, <1>6, <1>7, <1>8, <1>9 DEF Broadcast

\* A subscription and what belongs to it come and go together.
LEMMA OwnedStep ==
  ASSUME TypeOK, SubscriptionOwned, [Next]_vars
  PROVE  SubscriptionOwned'
<1> USE DEF connections, callers, pages, TypeOK
<1>1. ASSUME NEW d \in Clients, Subscribe(d) PROVE SubscriptionOwned'
  BY <1>1 DEF SubscriptionOwned, Subscribe
<1>2. ASSUME NEW d \in Clients, Greet(d) \/ Deliver(d) \/ Disconnect(d) PROVE SubscriptionOwned'
  BY <1>2 DEF SubscriptionOwned, Greet, Deliver, Disconnect
<1>3. ASSUME NEW d \in Clients, Leave(d) PROVE SubscriptionOwned'
  <2>1. d \in canceled
    BY <1>3 DEF SubscriptionOwned, Leave
  <2>2. QED  BY <1>3, <2>1 DEF SubscriptionOwned, Leave, Unsubscribe
<1>4. ASSUME NEW d \in Clients, CleanUp(d) PROVE SubscriptionOwned'
  BY <1>4 DEF SubscriptionOwned, CleanUp, Unsubscribe
<1>5. CASE UNCHANGED <<connections, subscribers, closed>>
  BY <1>5 DEF SubscriptionOwned
<1>6. QED
  BY <1>1, <1>2, <1>3, <1>4, <1>5
     DEF Next, vars, Serve, Broadcast, Snapshot, Send, Skip, Panic, Return, Change

\* A page that goes away takes what it showed with it.
LEMMA BlankStep ==
  ASSUME TypeOK, SubscriptionOwned, BlankWithoutPage, [Next]_vars
  PROVE  BlankWithoutPage'
<1> USE DEF connections, callers, pages, TypeOK
<1>1. ASSUME NEW d \in Clients, Subscribe(d) \/ Disconnect(d) PROVE BlankWithoutPage'
  <2> SUFFICES ASSUME NEW c \in Clients, ~HasPage(c)' PROVE outdated'[c] = {} /\ lost'[c] = {}
    BY DEF BlankWithoutPage
  <2>1. CASE c = d
    BY <1>1, <2>1 DEF HasPage, Subscribe, Disconnect
  <2>2. CASE c # d
    <3>1. ~HasPage(c) /\ outdated'[c] = outdated[c] /\ lost'[c] = lost[c]
      BY <1>1, <2>2 DEF HasPage, Subscribe, Disconnect
    <3>2. QED  BY <3>1 DEF BlankWithoutPage
  <2>3. QED  BY <2>1, <2>2
<1>2. ASSUME NEW d \in Clients, Greet(d) \/ Deliver(d) PROVE BlankWithoutPage'
  BY <1>2 DEF BlankWithoutPage, HasPage, Greet, Deliver, Render
<1>3. ASSUME NEW d \in Clients, Leave(d) \/ CleanUp(d) PROVE BlankWithoutPage'
  BY <1>3 DEF BlankWithoutPage, SubscriptionOwned, HasPage, Leave, CleanUp
<1>4. ASSUME NEW q \in Callers, NEW e \in Event, Change(q, e) PROVE BlankWithoutPage'
  BY <1>4 DEF BlankWithoutPage, HasPage, Change
<1>5. ASSUME NEW q \in Callers, NEW d \in Clients, Skip(q, d) \/ Panic(q, d)
      PROVE  BlankWithoutPage'
  BY <1>5 DEF BlankWithoutPage, HasPage, Skip, Panic
<1>6. CASE UNCHANGED <<connections, pages>>
  BY <1>6 DEF BlankWithoutPage, HasPage
<1>7. QED
  BY <1>1, <1>2, <1>3, <1>4, <1>5, <1>6
     DEF Next, vars, Serve, Broadcast, Snapshot, Send, Return

\* Every step keeps the invariant.
LEMMA IInvStep == IInv /\ [Next]_vars => IInv'
<1> SUFFICES ASSUME IInv, [Next]_vars PROVE IInv'
  OBVIOUS
<1> USE DEF connections, callers, pages
<1>1. TypeOK /\ TypeOK'
  BY TypeStep DEF IInv
<1>2. IdleSendsNothing'
  BY <1>1 DEF IInv, IdleSendsNothing, TypeOK, Next, vars, Serve, Broadcast, Subscribe, Greet, Deliver,
              Leave, Disconnect, CleanUp, Snapshot, Send, Skip, Panic, Return, Change
<1>3. SubscriptionOwned'
  BY <1>1, OwnedStep DEF IInv
<1>4. UpdatesOnTheWay'
  <2>1. CASE exited'
    BY <2>1 DEF UpdatesOnTheWay
  <2>2. CASE UNCHANGED vars
    BY <2>2 DEF IInv, UpdatesOnTheWay, Connected, HasPage, Waiting, Announces, Refreshed, vars
  <2>3. CASE Next /\ ~exited'
    <3>1. ~exited
      BY <2>3 DEF Next, Serve, Broadcast, Subscribe, Greet, Deliver, Leave, Disconnect, CleanUp,
                  Snapshot, Send, Skip, Panic, Return, Change
    <3>2. QED  BY <2>3, <3>1, UpdatesClient, UpdatesCaller DEF Next
  <2>4. QED  BY <2>1, <2>2, <2>3
<1>5. BlankWithoutPage'
  BY <1>1, BlankStep DEF IInv
<1>6. QED  BY <1>1, <1>2, <1>3, <1>4, <1>5 DEF IInv

\* The strengthened invariant holds in every reachable state.
THEOREM Invariant == Spec => []IInv
<1>1. Init => IInv
  BY TypeInit DEF Init, IInv, IdleSendsNothing, SubscriptionOwned, BlankWithoutPage, HasPage, UpdatesOnTheWay,
                   Connected
<1>2. QED  BY <1>1, IInvStep, PTL DEF Spec

\* A page that shows something old will hear of it, unless the event was dropped.
THEOREM UpdatesReach == Spec => []UpdatesOnTheWay
<1>1. IInv => UpdatesOnTheWay
  BY DEF IInv
<1>2. QED  BY <1>1, Invariant, PTL

\* Whoever is subscribed has an open channel, a handler and a goroutine that will take
\* it out, and no open page is taken out.
THEOREM SubscriptionsOwned == Spec => []SubscriptionOwned
<1>1. IInv => SubscriptionOwned
  BY DEF IInv
<1>2. QED  BY <1>1, Invariant, PTL

-----------------------------------------------------------------------------
(***************************************************************************)
(* Broadcaster implements Page, for each page.  A step of a connection or  *)
(* of a caller is a step of the page it concerns and hidden from all       *)
(* others; of those of a caller, only Change, and Skip and Panic for a     *)
(* client that still has its page, are more than a stutter.                *)
(***************************************************************************)

\* Nothing that the page of c is about changes.
Hidden(c) ==
  /\ HasPage(c)' = HasPage(c) /\ outdated'[c] = outdated[c] /\ lost'[c] = lost[c]
  /\ Coming(c)' = Coming(c)

\* What stutters for a page.
LEMMA HiddenStutters ==
  ASSUME NEW c \in Pages, Hidden(c)
  PROVE  UNCHANGED Client(c)!vars
BY DEF Hidden, Client!vars

\* A page is blank as long as there is none.
LEMMA NoPageHidden ==
  ASSUME NEW c \in Clients, BlankWithoutPage, BlankWithoutPage', ~HasPage(c), ~HasPage(c)'
  PROVE  Hidden(c)
<1>1. Coming(c) = {}
  BY DEF Coming
<1>2. Coming(c)' = {}
  BY DEF Coming
<1>3. HasPage(c)' = HasPage(c)
  BY DEF HasPage
<1>4. QED  BY <1>1, <1>2, <1>3 DEF BlankWithoutPage, Hidden

\* What comes to a page depends on its channel and on who is about to send.
LEMMA ComingSame ==
  ASSUME NEW c \in Clients, HasPage(c)' = HasPage(c), pc'[c] = pc[c],
         Waiting(c)' = Waiting(c),
         \A p \in Callers, e \in Event : Announces(p, c, e)' = Announces(p, c, e)
  PROVE  Coming(c)' = Coming(c)
BY DEF Coming, Event

\* What is delivered was waiting, and nothing else comes in its place.
LEMMA WaitingDelivered ==
  ASSUME TypeOK, NEW c \in Clients, channel[c] # <<>>, channel'[c] = Tail(channel[c])
  PROVE  /\ Refreshed(Head(channel[c])) \subseteq Waiting(c) \cap Event
         /\ Waiting(c)' \subseteq Waiting(c)
<1> DEFINE n == Len(channel[c])
<1>1. channel[c] \in Seq(Event) /\ n \in Nat \ {0}
  BY DEF TypeOK
<1>2. /\ DOMAIN channel'[c] = 1 .. (n - 1) /\ DOMAIN channel[c] = 1 .. n
      /\ Head(channel[c]) = channel[c][1] /\ channel[c][1] \in Event
      /\ \A i \in 1 .. (n - 1) : channel'[c][i] = channel[c][i + 1] /\ i + 1 \in 1 .. n
  BY <1>1
<1>3. Refreshed(Head(channel[c])) \subseteq Waiting(c) \cap Event
  BY <1>1, <1>2, RefreshedType DEF Waiting
<1>4. ASSUME NEW e \in Waiting(c)' PROVE e \in Waiting(c)
  <2>1. PICK i \in 1 .. (n - 1) : e \in Refreshed(channel'[c][i])
    BY <1>2 DEF Waiting, Refreshed
  <2>2. i + 1 \in 1 .. n /\ e \in Refreshed(channel[c][i + 1])
    BY <1>2, <2>1
  <2>3. QED  BY <1>2, <2>2 DEF Waiting
<1>5. QED  BY <1>3, <1>4

\* Connections: opening, closing and rendering.
LEMMA PageClient ==
  ASSUME IInv, IInv', ~exited, NEW c \in Pages, NEW d \in Clients,
         Subscribe(d) \/ Serve(d) \/ Disconnect(d) \/ CleanUp(d)
  PROVE  [Client(c)!Next]_(Client(c)!vars)
<1> USE DEF connections, callers, pages
<1>0. TypeOK /\ TypeOK' /\ c \in Clients /\ BlankWithoutPage /\ BlankWithoutPage'
  BY BroadcasterAssumption DEF IInv
<1>1. \A p \in Callers, e \in Event : Announces(p, c, e)' = Announces(p, c, e)
  BY DEF Subscribe, Serve, Greet, Deliver, Leave, Disconnect, CleanUp, Announces, Refreshed
<1>2. CASE d # c \/ CleanUp(c)
  <2>1. /\ channel'[c] = channel[c] /\ outdated'[c] = outdated[c] /\ lost'[c] = lost[c]
        /\ HasPage(c)' = HasPage(c) /\ pc'[c] = pc[c]
    BY <1>0, <1>2 DEF Subscribe, Serve, Greet, Deliver, Leave, Disconnect, CleanUp, Render,
                      HasPage, TypeOK
  <2>2. Hidden(c)
    BY <1>0, <1>1, <2>1, WaitingSame, ComingSame DEF Hidden
  <2>3. QED  BY <2>2, HiddenStutters
<1>3. CASE Subscribe(c)
  <2>1. ~HasPage(c) /\ HasPage(c)' /\ outdated'[c] = Event /\ lost'[c] = {} /\ pc'[c] = "greet"
    BY <1>0, <1>3 DEF Subscribe, HasPage, TypeOK
  <2>2. Coming(c)' = Event
    BY <2>1 DEF Coming, Event
  <2>3. Client(c)!Open
    BY <2>1, <2>2 DEF Client!Open
  <2>4. QED  BY <2>3 DEF Client!Next
<1>4. CASE Disconnect(c)
  <2>1. HasPage(c) /\ ~HasPage(c)' /\ outdated'[c] = {} /\ lost'[c] = {}
    BY <1>0, <1>4 DEF Disconnect, HasPage, TypeOK
  <2>2. Coming(c)' = {}
    BY <2>1 DEF Coming
  <2>3. Client(c)!Close
    BY <2>1, <2>2 DEF Client!Close
  <2>4. QED  BY <2>3 DEF Client!Next
<1>5. CASE Serve(c) /\ ~HasPage(c)
  <2>1. ~HasPage(c)'
    BY <1>0, <1>5 DEF Serve, Greet, Deliver, Leave, HasPage, TypeOK
  <2>2. QED  BY <1>0, <1>5, <2>1, NoPageHidden, HiddenStutters
<1>6. CASE Greet(c) /\ HasPage(c)
  <2>1. /\ HasPage(c)' /\ channel' = channel /\ pc[c] = "greet"
        /\ outdated'[c] = outdated[c] \ Event /\ lost'[c] = lost[c] \ Event
    BY <1>0, <1>6 DEF Greet, Render, Refreshed, HasPage, TypeOK
  <2>2. Coming(c) = Event
    BY <1>6, <2>1 DEF Coming
  <2>3. Coming(c)' \subseteq Event
    BY DEF Coming, Event
  <2>4. Client(c)!Render(Event)
    BY <1>6, <2>1, <2>2, <2>3 DEF Client!Render
  <2>5. QED  BY <2>4 DEF Client!Next
<1>7. CASE Deliver(c) /\ HasPage(c)
  <2> DEFINE E == Refreshed(Head(channel[c]))
  <2>1. /\ HasPage(c)' /\ pc'[c] = pc[c] /\ channel[c] # <<>> /\ channel'[c] = Tail(channel[c])
        /\ outdated'[c] = outdated[c] \ E /\ lost'[c] = lost[c] \ E
    BY <1>0, <1>7 DEF Deliver, Render, HasPage, TypeOK
  <2>2. /\ E \subseteq Waiting(c) \cap Event /\ Waiting(c)' \subseteq Waiting(c)
        /\ Waiting(c) \subseteq Waiting(c)' \cup E
    BY <1>0, <2>1, WaitingDelivered, WaitingTail
  <2>3. E \subseteq Coming(c)
    BY <1>7, <2>2 DEF Coming
  <2>4. Coming(c)' \subseteq Coming(c)
    BY <1>1, <1>7, <2>1, <2>2 DEF Coming, Event
  <2>5. Coming(c) \ E \subseteq Coming(c)'
    BY <1>1, <1>7, <2>1, <2>2 DEF Coming, Event
  <2>6. E \in SUBSET Event
    BY <2>2
  <2>7. Client(c)!Render(E)
    BY <1>7, <2>1, <2>3, <2>4, <2>5 DEF Client!Render
  <2>8. QED  BY <2>6, <2>7 DEF Client!Next
<1>8. ~(Leave(c) /\ HasPage(c))
  BY <1>0 DEF Leave, HasPage, IInv, SubscriptionOwned
<1>9. QED  BY <1>2, <1>3, <1>4, <1>5, <1>6, <1>7, <1>8 DEF Serve

\* Callers: changes and what is dropped.
LEMMA PageCaller ==
  ASSUME IInv, IInv', ~exited, NEW c \in Pages, NEW q \in Callers,
         Broadcast(q) \/ \E e \in Event : Change(q, e)
  PROVE  [Client(c)!Next]_(Client(c)!vars)
<1> USE DEF connections, callers, pages
<1>0. /\ TypeOK /\ TypeOK' /\ c \in Clients /\ UNCHANGED connections
      /\ BlankWithoutPage /\ BlankWithoutPage' /\ event[q] \in Event
  BY BroadcasterAssumption
     DEF IInv, TypeOK, Broadcast, Snapshot, Send, Skip, Panic, Return, Change
<1>1. HasPage(c)' = HasPage(c) /\ pc'[c] = pc[c]
  BY <1>0 DEF HasPage
<1>2. \A p \in Callers \ {q}, e \in Event : Announces(p, c, e)' = Announces(p, c, e)
  BY <1>0 DEF Broadcast, Snapshot, Send, Skip, Panic, Return, Change, Announces, Refreshed, TypeOK
<1>3. CASE ~HasPage(c)
  BY <1>0, <1>1, <1>3, NoPageHidden, HiddenStutters
<1> SUFFICES ASSUME HasPage(c) PROVE [Client(c)!Next]_(Client(c)!vars)
  BY <1>3
<1>4. ASSUME outdated'[c] = outdated[c], lost'[c] = lost[c], Waiting(c)' = Waiting(c),
             \A e \in Event : Announces(q, c, e)' = Announces(q, c, e)
      PROVE  [Client(c)!Next]_(Client(c)!vars)
  <2>1. Coming(c)' = Coming(c)
    BY <1>0, <1>1, <1>2, <1>4, ComingSame
  <2>2. QED  BY <1>1, <1>4, <2>1, HiddenStutters DEF Hidden
<1>5. ASSUME NEW f \in Event, Change(q, f) PROVE Client(c)!Change(f)
  <2>1. /\ channel'[c] = channel[c] /\ lost'[c] = lost[c] /\ outdated'[c] = outdated[c] \cup {f}
        /\ phase'[q] = "changed" /\ event'[q] = f
    BY <1>0, <1>5 DEF Change, TypeOK
  <2>2. Waiting(c)' = Waiting(c) /\ Announces(q, c, f)'
    BY <1>0, <2>1, WaitingSame DEF Announces, Refreshed
  <2>3. \A e \in Event : ~Announces(q, c, e)
    BY <1>5 DEF Change, Announces, IInv, IdleSendsNothing
  <2>4. Coming(c) \cup {f} \subseteq Coming(c)' /\ Coming(c)' \in SUBSET Event
    BY <1>1, <1>2, <2>2, <2>3 DEF Coming, Event
  <2>5. QED  BY <1>1, <2>1, <2>4 DEF Client!Change
<1>6. CASE Snapshot(q)
  <2>1. /\ channel'[c] = channel[c] /\ UNCHANGED <<lost, outdated, event>>
        /\ to'[q] = subscribers /\ phase[q] = "changed"
    BY <1>0, <1>6 DEF Snapshot, TypeOK
  <2>2. c \in subscribers
    BY <1>0 DEF HasPage, IInv, SubscriptionOwned
  <2>3. \A e \in Event : Announces(q, c, e)' = Announces(q, c, e)
    BY <2>1, <2>2 DEF Announces, Refreshed
  <2>4. QED  BY <1>0, <1>4, <2>1, <2>3, WaitingSame
<1>7. ASSUME NEW d \in Clients, Send(q, d) PROVE [Client(c)!Next]_(Client(c)!vars)
  <2>1. /\ UNCHANGED <<lost, outdated, event, phase>> /\ to'[q] = to[q] \ {d}
        /\ phase[q] = "send" /\ d \in to[q]
    BY <1>0, <1>7 DEF Send, TypeOK
  <2>2. CASE d = c
    <3>1. channel'[c] = Append(channel[c], event[q])
      BY <1>0, <1>7, <2>2 DEF Send, TypeOK
    <3>2. Waiting(c)' = Waiting(c) \cup Refreshed(event[q])
      BY <1>0, <3>1, WaitingAppend
    <3>3. \A e \in Event : /\ Announces(q, c, e) <=> e \in Refreshed(event[q])
                           /\ ~Announces(q, c, e)'
      BY <2>1, <2>2 DEF Announces
    <3>4. Coming(c)' = Coming(c)
      BY <1>1, <1>2, <3>2, <3>3 DEF Coming, Event
    <3>5. QED  BY <1>1, <2>1, <3>4, HiddenStutters DEF Hidden
  <2>3. CASE d # c
    <3>1. channel'[c] = channel[c]
      BY <1>0, <1>7, <2>3 DEF Send, TypeOK
    <3>2. \A e \in Event : Announces(q, c, e)' = Announces(q, c, e)
      BY <2>1, <2>3 DEF Announces, Refreshed
    <3>3. QED  BY <1>0, <1>4, <2>1, <3>1, <3>2, WaitingSame
  <2>4. QED  BY <2>2, <2>3
<1>8. ASSUME NEW E \in SUBSET Event, E \subseteq Coming(c), lost'[c] = lost[c] \cup E,
             outdated'[c] = outdated[c], Coming(c)' \subseteq Coming(c),
             Coming(c) \ E \subseteq Coming(c)'
      PROVE  Client(c)!Next
  <2>1. Client(c)!Miss(E)
    BY <1>1, <1>8 DEF Client!Miss
  <2>2. QED  BY <2>1 DEF Client!Next
<1>9. ASSUME NEW d \in Clients, Skip(q, d) PROVE [Client(c)!Next]_(Client(c)!vars)
  <2>1. /\ UNCHANGED <<channel, outdated, event, phase>> /\ to'[q] = to[q] \ {d}
        /\ phase[q] = "send" /\ d \in to[q]
        /\ d = c => lost'[c] = lost[c] \cup (Refreshed(event[q]) \ Waiting(c))
        /\ d # c => lost'[c] = lost[c]
    BY <1>0, <1>9 DEF Skip, TypeOK
  <2>2. Waiting(c)' = Waiting(c)
    BY <1>0, <2>1, WaitingSame
  <2>3. CASE d = c
    <3> DEFINE E == Refreshed(event[q]) \ Waiting(c)
    <3>1. \A e \in Event : /\ Announces(q, c, e) <=> e \in Refreshed(event[q])
                           /\ ~Announces(q, c, e)'
      BY <2>1, <2>3 DEF Announces
    <3>2. E \in SUBSET Event /\ E \subseteq Coming(c)
      BY <1>0, <3>1, RefreshedType DEF Coming
    <3>3. Coming(c)' \subseteq Coming(c) /\ Coming(c) \ E \subseteq Coming(c)'
      BY <1>1, <1>2, <2>2, <3>1 DEF Coming, Event
    <3>4. QED  BY <1>8, <2>1, <2>3, <3>2, <3>3
  <2>4. CASE d # c
    <3>1. \A e \in Event : Announces(q, c, e)' = Announces(q, c, e)
      BY <2>1, <2>4 DEF Announces, Refreshed
    <3>2. QED  BY <1>4, <2>1, <2>2, <2>4, <3>1
  <2>5. QED  BY <2>3, <2>4
<1>10. ASSUME NEW d \in Clients, Panic(q, d) PROVE [Client(c)!Next]_(Client(c)!vars)
  <2>1. /\ UNCHANGED <<channel, outdated>> /\ phase[q] = "send"
        /\ phase'[q] = "idle" /\ to'[q] = {}
        /\ c \in to[q] => lost'[c] = lost[c] \cup Refreshed(event[q])
        /\ c \notin to[q] => lost'[c] = lost[c]
    BY <1>0, <1>10 DEF Panic, TypeOK
  <2>2. Waiting(c)' = Waiting(c) /\ \A e \in Event : ~Announces(q, c, e)'
    BY <1>0, <2>1, WaitingSame DEF Announces
  <2>3. CASE c \in to[q]
    <3> DEFINE E == Refreshed(event[q])
    <3>1. \A e \in Event : Announces(q, c, e) <=> e \in E
      BY <2>1, <2>3 DEF Announces
    <3>2. E \in SUBSET Event /\ E \subseteq Coming(c)
      BY <1>0, <3>1, RefreshedType DEF Coming
    <3>3. Coming(c)' \subseteq Coming(c) /\ Coming(c) \ E \subseteq Coming(c)'
      BY <1>1, <1>2, <2>2, <3>1 DEF Coming, Event
    <3>4. QED  BY <1>8, <2>1, <2>3, <3>2, <3>3
  <2>4. CASE c \notin to[q]
    <3>1. \A e \in Event : Announces(q, c, e)' = Announces(q, c, e)
      BY <2>1, <2>4 DEF Announces
    <3>2. QED  BY <1>4, <2>1, <2>2, <2>4, <3>1
  <2>5. QED  BY <2>3, <2>4
<1>11. CASE Return(q)
  <2>1. /\ UNCHANGED <<channel, outdated, lost>>
        /\ phase[q] = "send" /\ to[q] = {} /\ phase'[q] = "idle" /\ to'[q] = {}
    BY <1>0, <1>11 DEF Return, TypeOK
  <2>2. \A e \in Event : Announces(q, c, e)' = Announces(q, c, e)
    BY <2>1 DEF Announces
  <2>3. QED  BY <1>0, <1>4, <2>1, <2>2, WaitingSame
<1>12. QED
  BY <1>5, <1>6, <1>7, <1>9, <1>10, <1>11 DEF Broadcast, Client!Next

\* Every step is a step of each page, or hidden from it.
LEMMA PageStep ==
  ASSUME IInv, IInv', [Next]_vars, NEW c \in Pages
  PROVE  [Client(c)!Next]_(Client(c)!vars)
<1>1. CASE UNCHANGED vars
  <2>1. Hidden(c)
    BY <1>1 DEF Hidden, Coming, HasPage, Waiting, Announces, Refreshed, Event,
                vars, connections, callers, pages
  <2>2. QED  BY <2>1, HiddenStutters
<1>2. CASE Next
  <2>1. ~exited
    BY <1>2 DEF Next, Serve, Broadcast, Subscribe, Greet, Deliver, Leave, Disconnect, CleanUp,
                Snapshot, Send, Skip, Panic, Return, Change
  <2>2. QED  BY <1>2, <2>1, PageClient, PageCaller DEF Next
<1>3. QED  BY <1>1, <1>2

\* To each page the broadcaster does what Page says and nothing else.
THEOREM ImplementsPage == Spec => PagesTold
<1>1. Init => \A c \in Pages : Client(c)!Init
  BY BroadcasterAssumption DEF Init, Client!Init, HasPage, Coming
<1>2. IInv /\ IInv' /\ [Next]_vars =>
        [\A c \in Pages : [Client(c)!Next]_(Client(c)!vars)]_vars
  BY PageStep
<1>3. QED  BY <1>1, <1>2, Invariant, PTL DEF Spec, PagesTold

=============================================================================
