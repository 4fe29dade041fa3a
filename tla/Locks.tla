------------------------------- MODULE Locks -------------------------------
(***************************************************************************)
(* The mutexes of one tailnet and of the registry, and every goroutine     *)
(* that takes them.  Tailnet, Registry and Tailhopper take what is done    *)
(* under a lock for one step; here an operation is only the order in which *)
(* it locks and unlocks, broadcasts and waits, and what happens when a     *)
(* broadcast panics half-way (see BroadcasterDocs).                        *)
(*                                                                         *)
(* A sync.RWMutex lets one writer at a time announce itself; new readers   *)
(* wait from then on, and the writer proceeds when the earlier ones have   *)
(* gone.  The mutexes of the broadcaster, of a watcher's state and of a    *)
(* tailnet's logger are left out: no lock is taken and nothing is awaited  *)
(* while they are held.                                                    *)
(***************************************************************************)
EXTENDS Naturals, Sequences

CONSTANTS
  Requests, \* BOUND: HTTP requests handled at the same time
  Watchers, \* BOUND: watcher goroutines
  Dialers   \* BOUND: SOCKS5 connections being dialed

Goroutines == Requests \cup Watchers \cup Dialers

TailnetMu  == "Tailnet.mu"
RegistryMu == "Registry.mu"
Mutexes    == {TailnetMu, RegistryMu}
NoMutex    == "none"

\* Nobody, and a goroutine that is gone and has left a mutex locked.
Nobody == "nobody"
Gone   == "gone"

ASSUME LocksAssumption == Goroutines \cap {Nobody, Gone} = {}

VARIABLES
  program, \* what each goroutine has still to do
  writer,  \* who has announced to write under each mutex, or does
  readers, \* who reads under each mutex
  deferred,\* the mutexes whose Unlock each goroutine has deferred
  exited   \* a goroutine has ended the process

vars == <<program, writer, readers, deferred, exited>>

-----------------------------------------------------------------------------
(* Programs. *)

Step(do, mu) == [do |-> do, mu |-> mu]

\* mu.Lock(); defer mu.Unlock(); body
Locked(mu, body) ==
  <<Step("announce", mu), Step("lockAndDefer", mu)>> \o body \o <<Step("unlock", mu)>>

\* mu.Lock(); body; mu.Unlock()
Exposed(mu, body) ==
  <<Step("announce", mu), Step("lock", mu)>> \o body \o <<Step("unlock", mu)>>

\* mu.RLock(); body; mu.RUnlock(), deferred or not: no body panics.
Reading(mu, body) == <<Step("rlock", mu)>> \o body \o <<Step("runlock", mu)>>

\* SSEBroadcaster.Broadcast sends to the channels of a copy of the subscribers,
\* and panics if one has been closed meanwhile.
Broadcast == <<Step("send", NoMutex)>>

\* watcher.Close waits for the watcher goroutine.
Join == <<Step("join", NoMutex)>>

\* A callback of a tailnet: the registry changes an entry and saves.
Callback == Locked(RegistryMu, <<>>)

\* The paths through the operations of a tailnet.
Snapshot == Reading(TailnetMu, <<>>)
Dial     == Reading(TailnetMu, <<>>)

\* Mutant: each return of Start unlocks by hand.
StartExposed == {Exposed(TailnetMu, <<>>), Exposed(TailnetMu, Callback \o Broadcast)}

Start == {Locked(TailnetMu, <<>>), Locked(TailnetMu, Callback \o Broadcast)}

Stop ==
  {Locked(TailnetMu, <<>>),
   Locked(TailnetMu, Callback \o Broadcast),
   Locked(TailnetMu, Callback \o Join \o Broadcast)}

\* Mutant: a return without the Unlock.
LogoutKeepsLock ==
  {<<Step("announce", TailnetMu), Step("lock", TailnetMu)>>,
   Exposed(TailnetMu, Callback \o Broadcast) \o Exposed(TailnetMu, Broadcast)}

\* Mutant: the lock is not taken again after the control plane was asked.
LogoutUnlocksTwice ==
  {Exposed(TailnetMu, <<>>),
   Exposed(TailnetMu, Callback \o Broadcast) \o Broadcast \o <<Step("unlock", TailnetMu)>>}

\* The lock is given up while the control plane is asked.
Logout ==
  {Exposed(TailnetMu, <<>>),
   Exposed(TailnetMu, Callback \o Broadcast) \o Exposed(TailnetMu, Broadcast)}

\* reactToIPNStateChange: the claim is refused or granted, a duplicate one is
\* reported; then perhaps the cleanup, then perhaps a broadcast.
Claims ==
  {<<>>, Locked(RegistryMu, <<>>), Locked(RegistryMu, Broadcast),
   Locked(RegistryMu, <<>>) \o Callback \o Callback}

React ==
  {Exposed(TailnetMu, claim) \o after :
     claim \in Claims, after \in {<<>>, Broadcast, Join \o Broadcast}}

\* Mutant: snapshots are taken while the list is.
ListAndRead == Reading(RegistryMu, Snapshot)

\* The operations of the registry that only read it, and those that change it.
Get                     == Reading(RegistryMu, <<>>)
HasUnconfiguredTailnets == Reading(RegistryMu, <<>>)
List                    == Reading(RegistryMu, <<>>)

\* The dashboard and the PAC file: a list, then one snapshot per tailnet.
ListAndReadEach == List \o Snapshot

\* Mutant: Add unlocks at the end.
AddExposed == Exposed(RegistryMu, Broadcast)

Add == Locked(RegistryMu, Broadcast)

Delete == {Locked(RegistryMu, <<>>), Locked(RegistryMu, Broadcast) \o Broadcast}

\* What the handlers make of them.
StartHandler  == {Get} \cup {Get \o p : p \in Start}
StopHandler   == {Get \o p : p \in Stop}
DeleteHandler ==
  {Get} \cup {Get \o Snapshot \o p \o d : p \in Logout \cup {<<>>}, d \in Delete}
AddHandler    ==
  {HasUnconfiguredTailnets, HasUnconfiguredTailnets \o Locked(RegistryMu, <<>>)}
    \cup {HasUnconfiguredTailnets \o Add \o p \o Broadcast : p \in Start}
PageHandler   == {HasUnconfiguredTailnets \o ListAndReadEach, ListAndReadEach}

Paths(g) ==
  CASE g \in Watchers -> React
    [] g \in Dialers -> {Dial}
    [] OTHER -> StartHandler \cup StopHandler \cup DeleteHandler \cup AddHandler
                  \cup PageHandler

-----------------------------------------------------------------------------
(* Goroutines. *)

Doing == {"announce", "lock", "lockAndDefer", "unlock", "rlock", "runlock", "send", "join"}

\* Every variable holds a value of its type, and a goroutine that has nothing
\* more to do holds nothing.
TypeOK ==
  /\ program \in [Goroutines -> Seq([do : Doing, mu : Mutexes \cup {NoMutex}])]
  /\ writer \in [Mutexes -> Goroutines \cup {Nobody, Gone}]
  /\ readers \in [Mutexes -> SUBSET Goroutines]
  /\ deferred \in [Goroutines -> SUBSET Mutexes]
  /\ exited \in BOOLEAN
  /\ \A g \in Goroutines : program[g] = <<>> =>
       deferred[g] = {} /\ \A mu \in Mutexes : writer[mu] # g /\ g \notin readers[mu]

Init ==
  /\ program = [g \in Goroutines |-> <<>>]
  /\ writer = [mu \in Mutexes |-> Nobody]
  /\ readers = [mu \in Mutexes |-> {}]
  /\ deferred = [g \in Goroutines |-> {}]
  /\ exited = FALSE

\* The next step of g is to do this with mu.
Does(g, do, mu) ==
  /\ ~exited
  /\ program[g] # <<>>
  /\ Head(program[g]) = Step(do, mu)

GoesOn(g) == program' = [program EXCEPT ![g] = Tail(@)]

\* A request arrives, the bus notifies, a connection is dialed.
Begin(g) ==
  /\ ~exited
  /\ program[g] = <<>>
  /\ \E p \in Paths(g) : program' = [program EXCEPT ![g] = p]
  /\ UNCHANGED <<writer, readers, deferred, exited>>

Announce(g, mu) ==
  /\ Does(g, "announce", mu)
  /\ writer[mu] = Nobody
  /\ writer' = [writer EXCEPT ![mu] = g]
  /\ GoesOn(g)
  /\ UNCHANGED <<readers, deferred, exited>>

Lock(g, mu) ==
  /\ readers[mu] = {}
  /\ \/ Does(g, "lock", mu) /\ UNCHANGED deferred
     \/ Does(g, "lockAndDefer", mu) /\ deferred' = [deferred EXCEPT ![g] = @ \cup {mu}]
  /\ GoesOn(g)
  /\ UNCHANGED <<writer, readers, exited>>

Unlock(g, mu) ==
  /\ Does(g, "unlock", mu)
  /\ writer' = [writer EXCEPT ![mu] = Nobody]
  /\ deferred' = [deferred EXCEPT ![g] = @ \ {mu}]
  /\ GoesOn(g)
  /\ UNCHANGED <<readers, exited>>

\* A reader waits for a writer, also for one that still waits itself.
RLock(g, mu) ==
  /\ Does(g, "rlock", mu)
  /\ writer[mu] = Nobody
  /\ readers' = [readers EXCEPT ![mu] = @ \cup {g}]
  /\ GoesOn(g)
  /\ UNCHANGED <<writer, deferred, exited>>

RUnlock(g, mu) ==
  /\ Does(g, "runlock", mu)
  /\ readers' = [readers EXCEPT ![mu] = @ \ {g}]
  /\ GoesOn(g)
  /\ UNCHANGED <<writer, deferred, exited>>

Send(g) ==
  /\ Does(g, "send", NoMutex)
  /\ GoesOn(g)
  /\ UNCHANGED <<writer, readers, deferred, exited>>

\* A panic unlocks what was deferred.  In a request the Recoverer stops it, and
\* what was not deferred stays locked; elsewhere CatchPanic ends the process.
Panic(g) ==
  /\ Does(g, "send", NoMutex)
  /\ deferred' = [deferred EXCEPT ![g] = {}]
  /\ IF g \in Requests
     THEN /\ program' = [program EXCEPT ![g] = <<>>]
          /\ writer' = [mu \in Mutexes |->
               IF writer[mu] # g THEN writer[mu]
               ELSE IF mu \in deferred[g] THEN Nobody ELSE Gone]
          /\ UNCHANGED exited
     ELSE /\ exited' = TRUE
          /\ UNCHANGED <<program, writer>>
  /\ UNCHANGED readers

\* Mutant: Close has no timeout.
NoTimeout == FALSE
Timeout == TRUE

\* The watcher goroutine is between two notifications, where it sees that it is
\* canceled, or five seconds have passed.
CloseReturns(g) ==
  /\ Does(g, "join", NoMutex)
  /\ (\A w \in Watchers : program[w] = <<>>) \/ Timeout
  /\ GoesOn(g)
  /\ UNCHANGED <<writer, readers, deferred, exited>>

Advance(g) ==
  \/ \E mu \in Mutexes :
       \/ Announce(g, mu) \/ Lock(g, mu) \/ Unlock(g, mu)
       \/ RLock(g, mu) \/ RUnlock(g, mu)
  \/ Send(g) \/ CloseReturns(g)

Next == \E g \in Goroutines : Begin(g) \/ Advance(g) \/ Panic(g)

Spec == Init /\ [][Next]_vars

-----------------------------------------------------------------------------
(* Who holds what, and who waits, read off the programs. *)

\* The first step on mu after the i-th one of s does one of dos.
NextStep(s, i, mu, dos) ==
  \E k \in DOMAIN s :
    /\ i < k
    /\ s[k].mu = mu /\ s[k].do \in dos
    /\ \A j \in DOMAIN s : i < j /\ j < k => s[j].mu # mu

\* g is between Lock and Unlock, or between RLock and RUnlock.
Writes(g, mu) == NextStep(program[g], 0, mu, {"unlock"})
Reads(g, mu)  == NextStep(program[g], 0, mu, {"runlock"})

\* What the next step of g waits for has not happened yet: the guard of Announce
\* and RLock, of Lock, and of CloseReturns does not hold.
Waits(g) ==
  LET next == Head(program[g]) IN
    \/ \E mu \in Mutexes :
         /\ next.mu = mu
         /\ \/ next.do \in {"announce", "rlock"} /\ writer[mu] # Nobody
            \/ next.do \in {"lock", "lockAndDefer"} /\ readers[mu] # {}
    \/ next.do = "join" /\ ~Timeout /\ \E w \in Watchers : program[w] # <<>>

Ready(g) == ~exited /\ program[g] # <<>> /\ ~Waits(g)

-----------------------------------------------------------------------------
(* Properties. *)

\* Who writes under a mutex is alone with it, and nobody reads meanwhile,
\* whatever has panicked: this is what lets Tailnet, Registry and Tailhopper
\* take what is done under a lock for one step.
LocksExclude ==
  \A mu \in Mutexes, g, h \in Goroutines :
    Writes(g, mu) /\ (Writes(h, mu) \/ Reads(h, mu)) => g = h

\* When a broadcast panics in a request and the Recoverer carries on ("graceful
\* panic recovery", server.go), the registry's mutex is not left locked ...
RegistryNotLost == writer[RegistryMu] # Gone

\* ... and that of a tailnet only by Logout, which unlocks it by hand: a request
\* that broadcasts under it and has not deferred the Unlock is about to delete the
\* tailnet.  Start and Stop, which broadcast under it too, give it back.
OnlyLogoutLeavesALock ==
  \A g \in Requests :
    Does(g, "send", NoMutex) /\ writer[TailnetMu] = g =>
      \/ TailnetMu \in deferred[g]
      \/ \E i \in DOMAIN program[g] : program[g][i] = Step("announce", RegistryMu)

\* As long as an operation is under way some goroutine can go on, unless the
\* tailnet's mutex was left locked.  As every path is finite, all of them return
\* once the others do: no set of goroutines waits for each other, the callbacks
\* under Tailnet.mu included ("there is no deadlock risk", tailnet.go).
EveryoneReturns ==
  (\E g \in Goroutines : program[g] # <<>>) =>
    exited \/ writer[TailnetMu] = Gone \/ \E g \in Goroutines : Ready(g)

\* Who holds the registry's mutex can go on or waits only for readers that can:
\* also when the mutex of one tailnet is left locked, or kept during a Stop or a
\* Dial, the other tailnets can be commanded, added and deleted.
RegistryFree ==
  /\ \A g \in readers[RegistryMu] : exited \/ Ready(g)
  /\ \A g \in Goroutines :
       writer[RegistryMu] = g => exited \/ Ready(g) \/ readers[RegistryMu] # {}

=============================================================================
