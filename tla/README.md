# TLA+ models of Tailhopper

Tailhopper keeps several Tailscale networks ("tailnets") open at once, each as
an embedded tsnet node behind a SOCKS5 proxy of its own, and is run from a web
dashboard.  This directory holds TLA+ models of its core, the TLC
configurations that check them, and TLAPS proofs.  Paths below are relative to
`src/`.

## The system

| Component | State | Operations | Interacts with |
|---|---|---|---|
| Tailnet (`internal/ts/tailnet.go`, `state.go`) | connection state, user state, claim, terminal error, login URL, peers, host name, handles of server, watcher and proxy, under `Tailnet.mu` | Start, Stop, Logout, Dial, reactToIPNStateChange, Snapshot | registry (Claim and two callbacks, called under `mu`), broadcaster, watcher, SOCKS server |
| IPN watcher (`watcher.go`) | accumulated IPNState, cancel function, one goroutine | start, Close, refresh | calls the tailnet from its goroutine; Close waits for that goroutine |
| IPN processor (`processor.go`) | none | Always, OneOf, Process | operators of the tailnet |
| Registry (`internal/registry`) | entries, nextID, under `Registry.mu`; the file `tailhopper.json` | Load, Claim, two callbacks, Add, Delete, List, Get, HasUnconfiguredTailnets, saveLocked | tailnets, broadcaster, disk |
| SSE broadcaster (`internal/sse`) | map of subscribers, a channel of ten events each | Subscribe, Unsubscribe, Broadcast, ServeSSE | browsers; called by tailnets, registry and handlers |
| SOCKS5 server (`internal/socks`) | a listener | NewServer, Start, Close | calls Tailnet.Dial |
| HTTP handlers (`internal/web`) | none | start, stop, add, delete; middleware | registry, tailnets, broadcaster |
| Dashboard and PAC file (`internal/ui`, `internal/pac`) | none | rendering of snapshots, what a switch offers | registry, tailnets |
| Logging, program start, packaging | none | CatchPanic; load, restore, serve | |

The locks are always taken in the order `Tailnet.mu`, `Registry.mu`,
`SSEBroadcaster.mu`, and no lock is taken twice by one goroutine (`Locks`); what
can wait on itself is not a lock but `watcher.Close`, which waits for a goroutine.

### What is hard here, and what makes each part correct

* *Tailnet.*  Three commands, a dialer and one goroutine per session share the
  handles.  Logout gives the lock up in the middle.  A goroutine can outlive its
  session, because Close gives up after five seconds, and then talks to the next
  one.  A terminal error tears the session down from inside the goroutine.
  Correct means: in a session state the three handles are of one running
  session; nothing is closed twice or under a Dial; a terminal error is final; a
  claim is exclusive and final; a listener that is bound can still be closed, and a
  Stop gives the port back whatever else it fails to close; every visible change is
  broadcast; and commands and canceled goroutines end.
* *Registry.*  Every operation changes memory first and then truncates and
  writes a file, and each step can fail or be the last before a crash.  Correct
  means: no two entries share a suffix, granted claims and added tailnets are in
  every whole file, IDs never collide.
* *Broadcaster.*  Sends are made outside the lock, to a copy of the set of
  channels, while clients come and go; a full channel is skipped.  Correct
  means: an open page hears of everything that makes it out of date, unless an
  event was dropped, and connections leave nothing behind.
* *The parts together.*  A handler, a callback and a page look a tailnet up by its
  ID at one time and use what they found at another; a deleted tailnet may go on
  running; ports and IDs outlive what they were given to; the process dies and
  restores from the file.  Correct means: a tailnet writes into its own entry
  only; what the user made of each tailnet survives; a switch that can be used
  does something; what a page or a PAC file puts together does not contradict
  itself; and no set of goroutines waits for each other.

The hazards, each at its line and with the properties that would catch it, are
listed in `PROJECT.json`.

## The modules

| Module | What it is |
|---|---|
| `States` | the states of a tailnet and of its switch |
| `IPN` | what a watcher has accumulated of its node, and `Refresh` (a notification) |
| `Tailnet` | one tailnet with its watcher goroutines, proxies, servers and registry entry |
| `Lifecycle` | abstract: what a tailnet promises its user and the other tailnets |
| `Registry` | the registry, its file, and crashes |
| `Claims` | abstract: what the registry promises about suffixes |
| `Broadcaster` | the SSE broadcaster and its connections |
| `Page` | abstract: what the broadcaster promises to one dashboard page |
| `Dashboard` | what the switch of a card shows and sends |
| `Tailhopper` | the composition: tailnets, registry, handlers, pages, ports, restarts |
| `Locks` | the two mutexes and every path through them |
| `TailnetDocs`, `RegistryDocs`, `BroadcasterDocs`, `TailhopperDocs` | statements of comments and of the README that the code does not satisfy |
| `TailnetProofs`, `LifecycleProofs`, `RegistryProofs`, `ClaimsProofs`, `BroadcasterProofs`, `TailhopperProofs`, `TailhopperRefinementProofs`, `LocksProofs` | theorems |
| `MCTailnet`, `MCRegistry`, `MCBroadcaster`, `MCTailhopper`, `MCLocks` | instances for TLC |

`Tailnet` takes its registry, and `Registry` its tailnets, for an environment that
does whatever the other's code could do; `Tailhopper` has both, coarser.

### Tailnet

Whatever the code does while it holds `Tailnet.mu` is one action: `StartFails`,
`StartSucceeds`, `StopFailsOnProxy`, `LogoutBegins`, `LogoutEnds`, `React`,
`ReactIgnored`.  Stop is two, because it waits for a goroutine in between, and
the variable `stopping` stands for the lock it keeps meanwhile; `dialing` stands
for the read lock of Dial.  `Writable` is the guard of everything that takes the
lock for writing.

`SetUserState` sets the user's wish and the entry in memory; whether the entry is
then saved is a matter of `Registry` and `Tailhopper`, which have saves that fail and
restarts (`EntryDurable`, `IntentKept`).

A *session* is a server, a watcher and a listener made by one Start.  `server`,
`watcher` and `socksProxy` are the tailnet's handles; `serverUp`, `socksUp` and
`wpc` say what really runs, including what no handle points to any more.  The
goroutine of a session goes through `Receive` (refresh its IPNState), `React`
(with the lock), perhaps `CleanupCancels` and `CleanupEnds` (terminalCleanup.run
without the lock) and `NotifyChange`.  `React` is reactToIPNStateChange whole:
Always, then OneOf, then the check for the terminal state.

A server that fails to close goes on, without a handle after a failed Start or a
teardown, with one that the next Start overwrites after a Stop; so does a watcher when
Stop fails on the proxy.  A listener does not, because closing it fails only if it is
closed already.  `ListenerHeld` and `PortFreed` say what
the code makes of that difference: whatever a Stop or a teardown has to give up on,
the port is free for the next Start.  (Only Logout leaves it taken, see below.)

The registry is represented by this tailnet's entry (`config`) and the suffixes
that other entries have (`others`), which change at any moment.  `stale` records
that something a Snapshot shows has changed since the last broadcast.  A command
that is refused because of the state changes nothing and is left out.

The five seconds of `watcher.Close` are a choice: while the goroutine has not
exited, the timer may fire.  A network map stands for a suffix, a name and a list
of peers.  A terminal error is identified by the suffix it names.

### Registry

`phase` and `holder` follow one `saveLocked` from the moment the entries have
changed: `Truncate` (os.Create), then `Write`, or `CreateFails`, `WriteFails`;
`Crash` can come at any point.  The lock is held throughout, so nothing else
happens in between.  A file is missing, garbled or whole.  `Ends` is what each
operation makes of the result: Claim reports it, Add takes its entry back, the
callbacks and Delete do not look.  `claimed` is what the Tailnet objects believe.
`CheckConfigured` and `Add` are the two critical sections of addTailnetHandler.

### Broadcaster

A connection is the goroutine of ServeSSE (`pc`) and the goroutine Subscribe
leaves behind (`cleaner`).  A caller first changes something (`Change`), then
copies the subscribers (`Snapshot`), then sends to one after the other (`Send`,
`Skip` for a full channel, `Panic` for a closed one).  `outdated` is what has
changed since a page was last rendered, and `lost` what it was not told because
an event was dropped.  An event renders one card anew, or everything
(`ui/templates/dashboard.html`).

A subscription is undone twice, by the handler's deferred Unsubscribe and by the
goroutine of Subscribe, in either order.  `SubscriptionOwned` says that this closes
each channel once (a second `close` would panic), takes no open page out of the map,
and leaves nobody waiting for a context that has ended.

### Lifecycle, Claims and Page

Three abstract specifications, implemented by the detailed ones through refinement
mappings at the end of their modules.

*Lifecycle* knows a mode (off, on, stopping, leaving, failed), the user's wish and
the suffix.  Only the user switches a tailnet on or off; the suffix is claimed
once, while the tailnet is on; a refused claim switches it off.  In `Tailnet`,
`Mode` maps every session state to "on" and a Stop that waits to "stopping".
Goroutines of former sessions, cleanups, dials and broadcasts are stutters, and
that they are is what the refinement says: none of them moves a tailnet.  In
`Tailhopper` each Tailnet object implements the same specification on its own, from
the moment Load or Add makes it until the process dies (`FollowLifecycle`), although
requests hold it while others log it out or delete it.  The two models of a tailnet,
one with its goroutines and one among others, so keep one promise.

*Claims* knows whether the process runs, which tailnets are registered, and which
suffix each may rely on.  A suffix is granted to a registered tailnet that has none,
if nobody has it, and goes in one way only while the process runs: with its tailnet,
when that is deleted.  A crash takes no granted suffix and no tailnet but the one that
is just being added (it may bring back what was deleted or reported as failed, if
that had reached the file, or what was deleted and could not be saved), and a start
changes nothing.  The one exception is a crash that leaves a half-written file, which
takes them all and after which nothing starts again.  `Registry` maps `Registered` to the
entries and `Granted` to what the tailnets believe while the process is up, and both to
the file while it is down; `Process` is "unreadable" when the file is garbled.
`Tailhopper` implements the same specification with real objects in place of beliefs:
there `Granted` is the suffix of the object that is registered, and more has to be
ruled out, since a deleted tailnet goes on claiming and a request commands an object
it looked up before.

*Page* knows of one page whether it is open, what it shows that is out of date
(`stale`), what is on its way to it (`coming`) and what never comes (`missed`).
Whatever changes is announced in the same step, only what was announced is
rendered, and an announcement ends in a rendering or as missed.  `Broadcaster`
implements it for each page (`PagesTold`): `Coming` collects the greeting, the
channel, and what callers between their change and their last send have yet to send.
Subscriptions, closed channels and the ends of callers are stutters, or the steps at
which something is missed.  That `stale` is always within `coming` and `missed` is
`UpdatesOnTheWay`; the refinement adds that nothing else happens to a page on the way.

### Tailhopper

Several Tailnet *objects*, the entries of the registry, the object each entry has
(`registered`), the file, the requests under way, and the crash of all but the
file.  `MaxPACs` bounds the PAC files that are made at a time.  The parts are
coarser than in their own modules: a command is one step,
except Logout; a save is one step that succeeds or fails, before or after it has
truncated the file; StartedState, NeedsMachineAuthState and ConnectedState are
one.

A request is a record of where its handler stands and what it has read: the
delete handler goes through `Get`, `Snapshot`, `LogoutBegins`, `LogoutEnds` and
`Delete` (what a request that has got its tailnet is to do with it is left open until it
does it, which nobody else can tell), the add handler through `CheckConfigured`, `Add` and `StartTailnet`, the
PAC handler through `List`, one `ReadCard` per tailnet, and `ServePAC`.  Between
any two steps the other requests, the watchers (`Transition`, `ClaimGranted`,
`ClaimRefused`), the listeners and a crash may act.  A callback that would record what
the entry already says makes no save (`tailnet.go`:579-589), and so repairs no file.  `Load` makes a fresh object
for every entry, `Restore` takes them in the order of their IDs, and the handlers
run when it is done (`Serving`).

An object that has been deleted stays where it is, with the state and the
callbacks it has: Delete of the registry does not touch it.  `refused` and
`intent` are history for the properties: that the last Start of an object failed,
and what was last made of an ID by a command or a terminal error.  After a crash
the intent is what the file says if the last save had failed, because nobody was
told so (`userStateChangeCallback` drops the error).  A restore is nobody's wish
and leaves the intent alone, so what it restores is held against what was last
asked for.

### Locks

An operation here is only a sequence of steps: announce oneself as a writer, lock
(with a deferred unlock or without), unlock, read-lock, send (a broadcast, which
may panic), join (`watcher.Close`).  `Paths` lists the paths of every handler, of
a watcher's reaction and of a dial.  A waiting writer keeps new readers out, as
in Go; this is why a goroutine that read-locks twice could block, and why the
pages must not take snapshots under the registry's lock.

Who is inside a critical section is read off the program that is left: `Writes`
(an unlock comes next for that mutex) and `Reads`.  `LocksExclude` states with
them what the other modules rest on when they make one action of a critical
section.  What a panic leaves behind is in two properties.  `RegistryNotLost`: never the
registry's mutex.  `OnlyLogoutLeavesALock`: a request that broadcasts under
`Tailnet.mu` either has its unlock deferred or is the delete handler's Logout, which
unlocks by hand; so the panic of a broadcast in Start or Stop costs nobody the lock.
`Ready` says that the next step of a goroutine waits for nothing.  It repeats the
guards of the steps without ENABLED, so that `EveryoneReturns` and `RegistryFree`,
which are stated with it, can be proved.

## The runs

| Run | Bounds | Shows |
|---|---|---|
| `Tailnet` | two sessions at a time, one network map, two states of the bus, a new tailnet and one loaded enabled and failed (368 000 states) | the invariants of sessions, commands, teardowns, listeners and broadcasts; a terminal error is final; a Stop frees the port |
| `TailnetData` | one session at a time, two suffixes, an empty and a real login URL, two states of the bus, three loaded entries (111 000 states) | claims, login URLs, the whole life cycle; Stop, Logout and canceled goroutines end |
| `Registry` | three IDs, one suffix, two requests (820 000 states) | uniqueness and durability across failures, crashes and restarts |
| `Broadcaster` | two clients, the page of one of them, two callers (one of them a request), one tailnet, channels of one event (126 000 states) | no update is lost silently; pages are refreshed; subscriptions have one owner; connections end |
| `Tailhopper` | two IDs, two objects, one suffix, two ports, two requests, one PAC file at a time, one failing save (1.6 million states) | entries are owned, intent is kept, switches work, PAC files agree with themselves, suffixes stay granted, each tailnet keeps to its life cycle |
| `Locks` | two requests, one watcher, one dial (476 000 states) | writers are alone; nobody waits for ever; which locks a panic leaves behind |
| `TailnetFatal`, `TailnetClaimed`, `TailnetClose` | as `TailnetData` or smaller | each refutes a comment, see below |
| `RegistryCrash` | two IDs | refutes the README |
| `TailhopperRoute` | as `Tailhopper`, one request | refutes the README |
| `BroadcasterPanic` | as `Broadcaster` | refutes a comment |

The run `TailnetData` also checks that it implements `Lifecycle`, the runs `Registry` and
`Tailhopper` that they implement `Claims`, `Tailhopper` that each of its tailnets
implements `Lifecycle`, and `Broadcaster` that it implements `Page` for its page.
(`TailnetData` has two suffixes, so that a later network map can name another than the
claimed one; goroutines of two sessions at once are left to the theorem.)

*Why the bounds are enough.*  Two sessions are the present one and one whose
goroutine, listener or server has outlived it; identities of more are
interchangeable and the code never has more than one in its handles.  With
sessions as model values, one that has ended can be used again.  The states of
the bus left out of `Tailnet` differ from those in it only in the state they
lead to, and `TailnetData` has the login state with its URL (and leaves out
NeedsMachineAuth, which `Tailnet` has).  Two suffixes let a
network map name another one than the claimed.  In `Registry` the uniqueness
needs two entries and one suffix, the third ID lets one be added after a
deletion and a restart.  In `Broadcaster` one tailnet and the global event are
two different events, enough to have one dropped while the other waits.
The clients are all alike, so the page of one stands for every page; the other
client takes part in everything but is not followed. The
channel of one event stands for ten, as the code only asks whether it is full.
In `Tailhopper` two IDs and two objects give a deleted tailnet that still runs
beside a new one, or two tailnets that compete for a suffix or a port; a restart
frees the objects and the last ID for use again; two requests let every handler
be overtaken by every other, except one PAC file by another: making one changes
nothing that another request reads.  One failing save is enough to make file and memory
differ.  In `Locks` two requests, a watcher and a dial are a holder of each mutex
and a waiting writer for each; more goroutines only wait in the same places.
The theorems below hold without any of these bounds, except those built into
the model: a session can be reused only when nothing refers to it, and IDs end
at `MaxID`.

*Symmetry* is used for sessions and for suffixes and requests where only safety
is checked.  *Deadlock* is not checked: a tailnet with a terminal error, a
registry with a garbled file and a process that has exited really do nothing
more.  `Locks` states it as an invariant, `EveryoneReturns`, because a request may
always begin.

*Fairness.*  In `Tailnet`, Stop's wait has a timeout, Logout's context and Dial's
request end, and a goroutine that can run does.  Getting `Tailnet.mu` is strongly
fair, because Go's mutexes hand over to a waiter after a millisecond; so is
leaving the bus once the context is canceled, because only what was buffered
before is still delivered.  Nothing obliges the bus to notify, the user to act
or anything to fail.  In `Broadcaster`, each goroutine that can go on does.

## Findings

1. *A duplicate claim is not always fatal.*  The transitions of OneOf run after
   the claim and overwrite HasTerminalErrorState; nothing is torn down
   (`TailnetFatal`).
2. *A claim that could not be saved turns into a terminal error* that blames
   another tailnet: the retry finds the tailnet's own entry (`TailnetClaimed`).
3. *Close waits for what cannot end.*  Stop holds the lock its goroutine needs;
   the cleanup after a terminal error waits for its own goroutine.  Only the five
   seconds help (`TailnetClose`; `StopReturns` and `CanceledWatcherExits` fail
   without the timeout).
4. *A crash during a save* leaves a file no start can read (`RegistryCrash`).
5. *A page closed during a broadcast* makes the broadcast panic, and in a
   watcher's goroutine ends the process (`BroadcasterPanic`).
6. *Two tailnets can have the same port*: a new one is given the port of one that
   its user has stopped, whose rule in the PAC file then leads to the new one's proxy
   (`TailhopperRoute`; the trace is Add, Start, a claim, Stop, Add, Start).

The models also show the following, which no comment denies outright:

* Logout does not end what it finds running: server, watcher and listener go on in
  StoppedState, so that a later Start fails on the port; and Logout of a stopped
  tailnet starts a server that nobody closes.  Deletion right after a Logout, or in
  NeedsLoginState where Logout does nothing, leaves a running tailnet without an
  entry; so does a Start that has looked its tailnet up before it was deleted.
  (`EntryOwned` says that such a tailnet does no harm to the entry of another.)
* A tsnet server that fails to close, in Start's clean-up (`tailnet.go`:176-195), in
  Stop or in a teardown, goes on until the process ends: after the next Start at the
  latest nothing refers to it.
* After a Start that failed the switch is on, and sends Stop, which is refused; the
  only ways out are Delete and a restart (`SwitchWorks` excepts this case).
* Two requests can both add an unconfigured tailnet: the check and the Add are two
  critical sections.
* A PAC file can hold a suffix twice, for a tailnet that was deleted while the file
  was made and for the one that has claimed the suffix since (`OneRulePerSuffix`
  says that there is no other way).
* A Logout whose broadcast panics leaves `Tailnet.mu` locked for ever, and with it
  every page, since pages take a snapshot of every tailnet (`Locks`).
* After a deletion and a restart the highest ID, and its state directory, are given
  out again.
* In NeedsLoginState a newer login URL is ignored.

## What is proved

The proofs hold for all values of the constants that satisfy the named assumptions
of the modules (`IPNAssumption`, `TailnetAssumption`, `RegistryAssumption`,
`BroadcasterAssumption`, `TailhopperAssumption`, `LocksAssumption`), which say of the
constants that numbers are numbers and that "nothing" and "nobody" are not among
the things they are the absence of.  The argument is the usual one:
an inductive invariant holds initially and is kept by every step.

* `TailnetProofs`: every invariant of the runs of `Tailnet` and its action
  properties.  `IInv` is `TypeOK` and the invariants of the run together, most
  of which are not inductive alone.  They hold each other up: a session stays open
  (`SessionOpen`) because only the terminal state tears one down
  (`TornDownOnce`); Dial reaches its server because nothing happens under its
  read lock (`CommandAlone`); a bound listener keeps its handle (`ListenerHeld`) because
  Start fails while any is bound, and because Stop and the teardown close
  it before they wait for the watcher, which is also why a Stop that ends has freed the port
  (`PortFreed`); and a claim stays exclusive (`ClaimExclusive`) because a notification
  claims only what no entry has.  `ClaimIsForever`, that no step exchanges a claimed
  suffix, is proved here and not a property of a run: `TailnetData` checks it as part
  of `FollowsLifecycle` and `ClaimExclusive`.
* `LifecycleProofs`: `Tailnet` implements `Lifecycle`.  Initial states map to
  initial states, and each step, from a state that satisfies `IInv`, to a step of
  `Lifecycle` or to a stutter.
* `RegistryProofs`: every invariant of the run of `Registry`.  `IInv` adds that a
  save under way has garbled the file before it writes, so that no failure leaves
  an old whole file beside new entries without having said so, that the entry of a
  save exists, and that nothing was ever claimed for an ID from `nextID` on, so
  that Add does not give an entry without a suffix to a tailnet that believes it
  has one.
* `ClaimsProofs`: `Registry` implements `Claims`, from the same invariant.  That only Delete
  takes a claim is a matter of guards; the crash is the hard step, since it hands the
  promise over from memory to the file: there `ClaimDurable` says that no granted suffix
  is lost, and `EntryDurable` that no tailnet is but the one whose Add has not returned.
* `BroadcasterProofs`: the invariants of the run of `Broadcaster`.  `IInv` is `TypeOK`,
  `SubscriptionOwned` and `UpdatesOnTheWay`, and adds that a client without a page
  has nothing out of date or missed (`BlankWithoutPage`) and that a caller that is
  idle has nothing to send (`IdleSendsNothing`).  From it follows, step by step and
  for each page, that `Broadcaster` implements `Page`: the copy of the subscribers
  keeps what is coming because an open page is among them (`SubscriptionOwned`), a
  send moves an event from a caller to the channel, a full channel and a panic are
  `Miss`, and the refresh of a page is `Render`.
* `TailhopperProofs`: four layers.  `Core` is the types, that the registry has an
  object for every entry (`RegisteredObjects`), what a request may hold
  (`RequestsValid`), that a process that is down has nothing and that nothing is
  served before the restore (`DownIsEmpty`, `ServesLate`), and `IDsGivenOut`: every
  object, registered or not, has an ID below `nextID`.  That is why a fresh ID is
  nobody's, and why a tailnet that was deleted while it runs finds no entry but its
  own (`EntryOwned`).  `Suffixed` adds that no two entries share a suffix, in memory
  or in the file, and that a tailnet's suffix is its entry's; with what `Core` says
  of cards this gives `OneRulePerSuffix`.  `Switches` adds why a tailnet may be
  stopped though switched on (it refused to start, or is yet to be restored) or run
  though switched off (it failed), and `Logouts` that a Logout has its tailnet to
  itself; together they give `SwitchWorks`.  `Intents`, last, relates what was made
  of each ID to its entry and its object while the process is up, and to the file
  while it is down.  It is inductive because the file equals the entries unless the
  last save failed, and because an object yet to be restored is as NewTailnet made
  it (nothing but the restore touches it); it gives `IntentKept`.

* `TailhopperRefinementProofs`: `Tailhopper` implements `Claims`.  The hard step is the
  crash, which hands the promise over from the objects to the file.  For it
  `ClaimsInFile` says that the suffix of every registered tailnet is in the file as
  long as that can be read.  It is kept because a tailnet gets a suffix only in a
  step whose save succeeded, and because a failed save leaves the file that was
  there, or none, or (between the two callbacks of a terminal error) one with the
  suffixes as they are.  That two tailnets do not share a suffix afterwards is
  `Suffixed`; that a claim goes to the right one, and not to a tailnet deleted
  meanwhile, is `EntryOwned`.
  The same module proves that each tailnet implements `Lifecycle`.  Most steps change
  one object, and that they are steps of its life follows from their guards; the end
  of a Logout is the exception, since it looks at nothing: that it finds its tailnet
  logging out is `Logouts`.
* `LocksProofs`: every invariant of the run of `Locks` but `OnlyLogoutLeavesALock`, for any
  number of requests, watchers and dials.  First, each path through the code follows
  four rules (`WellFormed`): on each mutex an announcement is followed by the lock, a
  lock by the unlock, a read-lock by its read-unlock (`Paired`); announcing and
  locking are one call (`Prompt`); `Tailnet.mu` is not taken while `Registry.mu` is
  held, and nothing is broadcast under a read lock (`Ordered`); the registry defers
  each unlock (`Deferring`).  The rules hold of the pieces (`Locked`, `Exposed`,
  `Reading`, broadcasts and joins) and of their concatenations, hence of all paths
  (`PathsComplete`), and of what is left of a path after any number of steps
  (`TailWellFormed`): no induction over paths is needed, because the rules speak of
  positions.  `IInv` then says that the books of the mutexes (`writer`, `readers`,
  `deferred`) are exactly what the programs have left to unlock.  Exclusion follows
  from that and from the guards; absence of deadlock from the order of the two
  mutexes: readers never wait inside their section, so a holder of `Registry.mu`
  waits for no more than they, and a holder of `Tailnet.mu` for no more than both.

*Only model-checked:* the liveness properties (`StopReturns`, `CanceledWatcherExits`,
`LogoutStops`, `PagesRefreshed`, `ConnectionsEnd`), because liveness and fairness are
out of the prover's reach, and `OnlyLogoutLeavesALock`, for which the rules of
`LocksProofs` would need one more, on which paths unlock by hand what they
broadcast under.

## What is not modelled

* Contents of notifications the code ignores (ErrMessage, DisplayMessages),
  logging, rendering, the SOCKS5 protocol, tsnet and Tailscale themselves.
* The unlocked read of the subscriber count in Subscribe, which only feeds a log
  line.
* State directories: Delete removes one and carries on if it cannot.
* Fields of a card that are not the switch (machines, texts, colours), the toast of
  the delete handler, and packaging.
* In `Tailhopper`, what `Tailnet` and `Registry` have in detail: handles, goroutines
  of former sessions, a Stop that fails half-way, a crash within a save.

## Plan

Done: all modules above, their runs and their proofs, in the order of dependence:
`Tailnet` and its abstraction, `Registry` and its abstraction, `Broadcaster` and its
abstraction, the composition `Tailhopper` and its two refinements, `Locks`.  Every
safety property of the runs is proved but the one named under "Only model-checked".
Left: an abstract specification of what a click on a switch does through the whole
program, for `Tailhopper` to implement, and the safety parts of the liveness
properties (that whatever waits has a cause that is about to go).
