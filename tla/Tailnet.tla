------------------------------ MODULE Tailnet ------------------------------
(***************************************************************************)
(* One tailnet of internal/ts: the state machine driven by the commands    *)
(* Start, Stop and Logout and by the notifications of its IPN watchers,    *)
(* with the resources a session of it holds (tsnet server, watcher         *)
(* goroutine, SOCKS5 listener) and the part of its registry entry that its *)
(* callbacks write.                                                        *)
(*                                                                         *)
(* Everything the code does while it holds Tailnet.mu is one step, except  *)
(* that Stop keeps the lock while it waits for the watcher goroutine.  A   *)
(* session k stands for the server, watcher and listener one Start makes   *)
(* (or the server alone that Logout makes); they are told apart because    *)
(* the goroutine and the listener of an earlier session may outlive it.    *)
(***************************************************************************)
EXTENDS IPN, States

CONSTANTS
  Sessions, \* BOUND: sessions that can hold a resource at the same time
  Configs   \* registry entries the tailnet may be constructed from

\* The fields of PersistedTailnet that the tailnet's callbacks write.  An
\* AlreadyClaimedError is identified by the suffix it names.
PersistedTailnet ==
  [enabled : BOOLEAN, suffix : Suffixes \cup {None}, terminalError : Suffixes \cup {None}]

ASSUME TailnetAssumption ==
  /\ None \notin Sessions /\ None \notin State
  /\ Configs \subseteq PersistedTailnet

VARIABLES
  currentState,  \* the connection state
  userState,     \* what the user last asked for
  claimed,       \* claimedMagicDNSSuffix
  terminalError,
  loginURL,
  peers,
  hostname,      \* selfNodeHostname
  server,        \* the sessions whose server, watcher and listener
  watcher,       \*   the tailnet points to, None for nil
  socksProxy,
  serverUp,      \* sessions whose tsnet server runs
  socksUp,       \* sessions whose SOCKS5 listener is bound to the tailnet's port
  wpc,           \* where the watcher goroutine of each session is
  canceled,      \* the sessions whose watcher context is canceled
  ipn,           \* the IPNState each goroutine has accumulated
  cleanup,       \* the terminalCleanup each goroutine has to run
  stopping,      \* Stop holds mu and waits for the watcher goroutine
  loggingOut,    \* Logout has released mu and is talking to the control plane
  dialing,       \* Dial holds mu for reading
  config,        \* the registry's entry for this tailnet
  others,        \* suffixes claimed by the other tailnets of the registry
  stale          \* what a reader sees changed since the last broadcast

node       == <<currentState, userState, claimed, terminalError, loginURL, peers, hostname>>
handles    == <<server, watcher, socksProxy>>
goroutines == <<wpc, canceled, ipn, cleanup>>
vars       == <<node, handles, serverUp, socksUp, goroutines,
                stopping, loggingOut, dialing, config, others, stale>>

Handle    == Sessions \cup {None}
Handles   == [server : Handle, watcher : Handle, socksProxy : Handle]
NoHandles == [server |-> None, watcher |-> None, socksProxy |-> None]

\* "none": not running; "next": waiting for a notification; "react": waiting
\* for mu with a refreshed state; "cleanup", "join": in terminalCleanup.run,
\* before and after canceling the watcher; "notify": about to broadcast.
GoroutinePC == {"none", "next", "react", "cleanup", "join", "notify"}

\* Every variable holds a value of its type.
TypeOK ==
  /\ currentState \in State
  /\ userState \in {UserEnabled, UserDisabled}
  /\ claimed \in Suffixes \cup {None}
  /\ terminalError \in Suffixes \cup {None}
  /\ loginURL \in URLs \cup {None}
  /\ peers \in PeerLists \cup {None}
  /\ hostname \in Hosts \cup {None}
  /\ server \in Handle /\ watcher \in Handle /\ socksProxy \in Handle
  /\ serverUp \subseteq Sessions
  /\ socksUp \subseteq Sessions
  /\ wpc \in [Sessions -> GoroutinePC]
  /\ canceled \subseteq Sessions
  /\ ipn \in [Sessions -> IPNState]
  /\ cleanup \in [Sessions -> Handles]
  /\ stopping \in BOOLEAN /\ loggingOut \in BOOLEAN /\ dialing \in BOOLEAN
  /\ config \in PersistedTailnet
  /\ others \subseteq Suffixes
  /\ stale \in BOOLEAN

(***************************************************************************)
(* NewTailnet: a registry entry with a terminal error yields a disabled    *)
(* tailnet in HasTerminalErrorState, every other entry a stopped one that  *)
(* remembers the user's intent.                                            *)
(***************************************************************************)
Init ==
  /\ config \in Configs
  /\ claimed = config.suffix
  /\ terminalError = config.terminalError
  /\ currentState = IF terminalError # None THEN HasTerminalErrorState ELSE StoppedState
  /\ userState = IF terminalError = None /\ config.enabled THEN UserEnabled ELSE UserDisabled
  /\ loginURL = None /\ peers = None /\ hostname = None
  /\ server = None /\ watcher = None /\ socksProxy = None
  /\ serverUp = {} /\ socksUp = {}
  /\ wpc = [k \in Sessions |-> "none"]
  /\ canceled = {}
  /\ ipn = [k \in Sessions |-> NoIPNState]
  /\ cleanup = [k \in Sessions |-> NoHandles]
  /\ stopping = FALSE /\ loggingOut = FALSE /\ dialing = FALSE
  /\ others \in SUBSET (Suffixes \ {config.suffix})
  /\ stale = FALSE

-----------------------------------------------------------------------------
(* Locks, broadcasts and resources. *)

\* Mutant: a writer that does not wait for the readers.
IgnoringReaders == ~stopping

\* mu can be taken for writing: no Stop sits on it and no Dial reads under it.
Writable == ~stopping /\ ~dialing

\* The step ends with a broadcast of the tailnet's change, or without one.
Broadcast == stale' = FALSE
Silent    == stale' = (stale \/ node' # node)

\* The step sets the user's intent and has the registry record it in its entry.
\* Whether the entry then reaches the file is not seen here: a failed save is
\* dropped by the callback (Registry and Tailhopper have it).
SetUserState(s) ==
  /\ userState' = s
  /\ config' = [config EXCEPT !.enabled = (s = UserEnabled)]

\* Session k holds nothing and nothing refers to it.
Fresh(k) ==
  /\ k \notin serverUp \cup socksUp \cup {server, watcher, socksProxy}
  /\ wpc[k] = "none"
  /\ \A j \in Sessions :
       k \notin {cleanup[j].server, cleanup[j].watcher, cleanup[j].socksProxy}

Exited(h) == h = None \/ wpc[h] = "none"

\* watcher.Close cancels the context of a goroutine that still runs.
Cancel(h) == canceled' = IF Exited(h) THEN canceled ELSE canceled \cup {h}

(***************************************************************************)
(* watcher.Close then waits for the goroutine, for five seconds at most:   *)
(* while the goroutine has not exited the timer may fire at any moment.    *)
(***************************************************************************)
NoShutdownTimeout == FALSE  \* mutant: Close waits for as long as it takes
ShutdownTimeout == TRUE
CloseReturns(h) == Exited(h) \/ ShutdownTimeout

-----------------------------------------------------------------------------
(* Commands.  A command refused because of the state changes nothing and   *)
(* is not a step.                                                          *)

(***************************************************************************)
(* Start fails when the port is taken, by a listener of an earlier session *)
(* or by another program, or when the tsnet server or its local client do  *)
(* not come up; what was opened is closed again.  Closing the listener     *)
(* fails only if it is closed already, so the port is free either way; a   *)
(* server without a client may fail to close, and nothing refers to it     *)
(* then.  NewWatcher's error needs a nil client, which LocalClient never   *)
(* returns with a nil error.                                               *)
(***************************************************************************)
StartFails ==
  /\ Writable
  /\ currentState = StoppedState
  /\ SetUserState(UserEnabled)
  /\ \/ UNCHANGED serverUp
     \/ /\ socksUp = {}
        /\ \E k \in Sessions : Fresh(k) /\ serverUp' = serverUp \cup {k}
  /\ Broadcast
  /\ UNCHANGED <<currentState, claimed, terminalError, loginURL, peers, hostname, handles,
                 socksUp, goroutines, stopping, loggingOut, dialing, others>>

StartSucceeds(k) ==
  /\ Writable
  /\ currentState = StoppedState
  /\ socksUp = {}
  /\ Fresh(k)
  /\ SetUserState(UserEnabled)
  /\ socksUp' = {k}
  /\ serverUp' = serverUp \cup {k}
  /\ wpc' = [wpc EXCEPT ![k] = "next"]
  /\ server' = k /\ watcher' = k /\ socksProxy' = k
  /\ currentState' = StartedState
  /\ Broadcast
  /\ UNCHANGED <<claimed, terminalError, loginURL, peers, hostname, canceled, ipn, cleanup,
                 stopping, loggingOut, dialing, others>>

\* Mutant: Stop is not refused while a Logout talks to the control plane.
AlsoLoggingOut == SessionStates \cup {LoggingOutState}

\* The states in which Stop is not refused.
StoppableStates == SessionStates

\* Mutant: Stop leaves the listener to the server's Close.
StopBeginsWithWatcher ==
  /\ Writable
  /\ currentState \in StoppableStates
  /\ socksProxy \in socksUp \cup {None}
  /\ SetUserState(UserDisabled)
  /\ Cancel(watcher)
  /\ stopping' = TRUE
  /\ UNCHANGED <<currentState, claimed, terminalError, loginURL, peers, hostname, handles,
                 serverUp, socksUp, wpc, ipn, cleanup, loggingOut, dialing, others>>
  /\ Silent

\* Stop closes the listener, cancels the watcher and waits for it under mu.
StopBegins ==
  /\ Writable
  /\ currentState \in StoppableStates
  /\ socksProxy \in socksUp \cup {None}
  /\ SetUserState(UserDisabled)
  /\ socksUp' = socksUp \ {socksProxy}
  /\ Cancel(watcher)
  /\ stopping' = TRUE
  /\ UNCHANGED <<currentState, claimed, terminalError, loginURL, peers, hostname, handles,
                 serverUp, wpc, ipn, cleanup, loggingOut, dialing, others>>
  /\ Silent

\* Closing a listener that is closed already is an error, on which Stop returns
\* with the watcher and the server running and the tailnet in StoppedState.
StopFailsOnProxy ==
  /\ Writable
  /\ currentState \in StoppableStates
  /\ socksProxy \notin socksUp \cup {None}
  /\ SetUserState(UserDisabled)
  /\ currentState' = StoppedState
  /\ Broadcast
  /\ UNCHANGED <<claimed, terminalError, loginURL, peers, hostname, handles, serverUp, socksUp,
                 goroutines, stopping, loggingOut, dialing, others>>

\* watcher.Close has returned: Stop closes the server and releases mu.
StopEnds ==
  /\ stopping
  /\ CloseReturns(watcher)
  /\ stopping' = FALSE
  /\ currentState' = StoppedState
  /\ \/ /\ serverUp' = serverUp \ {server}
        /\ server' = None /\ watcher' = None /\ socksProxy' = None
     \/ UNCHANGED <<serverUp, handles>>  \* server.Close fails
  /\ Broadcast
  /\ UNCHANGED <<userState, claimed, terminalError, loginURL, peers, hostname, socksUp,
                 goroutines, loggingOut, dialing, config, others>>

\* Mutant: Logout is refused only where there is nothing to log out from.
NotLoggedOut == State \ {NeedsLoginState, LoggingOutState}

\* In NeedsLoginState Logout returns at once.  Elsewhere it announces
\* LoggingOutState, makes a server if there is none, and releases mu.
LogoutStates == {ConnectedState, StoppedState, StartedState, NeedsMachineAuthState}

LogoutBegins ==
  /\ Writable
  /\ currentState \in LogoutStates
  /\ SetUserState(UserDisabled)
  /\ currentState' = LoggingOutState
  /\ loggingOut' = TRUE
  /\ IF server = None THEN \E k \in Sessions : Fresh(k) /\ server' = k
                      ELSE UNCHANGED server
  /\ Broadcast
  /\ UNCHANGED <<claimed, terminalError, loginURL, peers, hostname, watcher, socksProxy, serverUp,
                 socksUp, goroutines, stopping, dialing, others>>

\* Mutant: an error of the control plane is returned at once.
LogoutGivesUp ==
  /\ loggingOut
  /\ Writable
  /\ serverUp' \in {serverUp, serverUp \cup {server}}
  /\ loggingOut' = FALSE
  /\ UNCHANGED <<node, handles, socksUp, goroutines, stopping, dialing, config, others, stale>>

\* LocalClient starts the server if it can; whatever the control plane then
\* answers, Logout takes mu again and ends in StoppedState.
LogoutEnds ==
  /\ loggingOut
  /\ Writable
  /\ serverUp' \in {serverUp, serverUp \cup {server}}
  /\ loggingOut' = FALSE
  /\ currentState' = StoppedState
  /\ Broadcast
  /\ UNCHANGED <<userState, claimed, terminalError, loginURL, peers, hostname, handles, socksUp,
                 goroutines, stopping, dialing, config, others>>

\* Dial holds mu for reading as long as the connection takes.
DialBegins ==
  /\ ~stopping /\ ~dialing
  /\ currentState = ConnectedState
  /\ dialing' = TRUE
  /\ UNCHANGED <<node, handles, serverUp, socksUp, goroutines, stopping, loggingOut, config,
                 others, stale>>

DialEnds ==
  /\ dialing
  /\ dialing' = FALSE
  /\ UNCHANGED <<node, handles, serverUp, socksUp, goroutines, stopping, loggingOut, config,
                 others, stale>>

-----------------------------------------------------------------------------
(* The watcher goroutine of session k. *)

\* A notification arrives, perhaps one that was buffered before the context
\* was canceled; the goroutine refreshes its state and calls the tailnet.
Receive(k) ==
  /\ wpc[k] = "next"
  /\ \E n \in Notify : ipn' = [ipn EXCEPT ![k] = Refresh(@, n)]
  /\ wpc' = [wpc EXCEPT ![k] = "react"]
  /\ UNCHANGED <<node, handles, serverUp, socksUp, canceled, cleanup, stopping, loggingOut,
                 dialing, config, others, stale>>

Exit(k) ==
  /\ wpc[k] = "next"
  /\ wpc' = [wpc EXCEPT ![k] = "none"]
  /\ canceled' = canceled \ {k}
  /\ ipn' = [ipn EXCEPT ![k] = NoIPNState]
  /\ UNCHANGED <<node, handles, serverUp, socksUp, cleanup, stopping, loggingOut, dialing,
                 config, others, stale>>

WatcherStops(k) == k \in canceled /\ Exit(k)

\* The bus cannot be watched, or breaks; the goroutine is not replaced.
WatcherFails(k) == k \notin canceled /\ Exit(k)

\* Mutant: the login URL need not be there yet.
TargetWithoutURL(s) ==
  CASE s.state = NeedsLogin -> NeedsLoginState
    [] s.state = NeedsMachineAuth -> NeedsMachineAuthState
    [] s.state = Running -> ConnectedState
    [] OTHER -> None

\* The state that OneOf would move to, None if no transition applies.
Target(s) ==
  CASE s.state = NeedsLogin /\ s.url \notin {None, EmptyURL} -> NeedsLoginState
    [] s.state = NeedsMachineAuth -> NeedsMachineAuthState
    [] s.state = Running -> ConnectedState
    [] OTHER -> None

\* The transitions reactToIPNStateChange lists in each state.
OneOf ==
  [s \in SessionStates |->
     CASE s = ConnectedState -> {NeedsLoginState, NeedsMachineAuthState}
       [] s = StartedState -> {NeedsLoginState, NeedsMachineAuthState, ConnectedState}
       [] s = NeedsLoginState -> {NeedsMachineAuthState, ConnectedState}
       [] s = NeedsMachineAuthState -> {NeedsLoginState, ConnectedState}]

\* The states in which a suffix is claimed.
ClaimingStates == {ConnectedState, NeedsMachineAuthState}

\* Mutants: the claims of others are not looked at; a claim may be renewed.
ClaimsUnchecked(s) ==
  IF currentState \notin ClaimingStates \/ s.suffix = None \/ claimed # None THEN {"skipped"}
  ELSE {"claimed", "notSaved"}

ClaimsRenewed(s) ==
  IF currentState \notin ClaimingStates \/ s.suffix \in {None, claimed} THEN {"skipped"}
  ELSE IF s.suffix \in others \cup {config.suffix} THEN {"taken"}
  ELSE {"claimed", "notSaved"}

(***************************************************************************)
(* What maybeClaimMagicDNSSuffixLocked can come to: nothing to claim; the  *)
(* registry finds the suffix in an entry, this tailnet's own included; the *)
(* registry records the claim, and then does or does not manage to save.   *)
(***************************************************************************)
ClaimOutcomes(s) ==
  IF currentState \notin ClaimingStates \/ s.suffix = None \/ claimed # None THEN {"skipped"}
  ELSE IF s.suffix \in others \cup {config.suffix} THEN {"taken"}
  ELSE {"claimed", "notSaved"}

\* Registry.Claim and what its caller makes of the answer; a duplicate claim
\* sets the terminal error and turns the tailnet off (setTerminalErrorLocked).
Claim(outcome, s) ==
  /\ claimed' = IF outcome = "claimed" THEN s.suffix ELSE claimed
  /\ terminalError' = IF outcome = "taken" THEN s.suffix ELSE terminalError
  /\ userState' = IF outcome = "taken" THEN UserDisabled ELSE userState
  /\ config' =
       CASE outcome \in {"claimed", "notSaved"} -> [config EXCEPT !.suffix = s.suffix]
         [] outcome = "taken" ->
              [config EXCEPT !.terminalError = s.suffix,
                             !.enabled = @ /\ userState = UserDisabled]
         [] OTHER -> config

\* Mutant: the state of the bus is adopted as it is.
NextStateOfBus(outcome, s) == IF s.state = None THEN currentState ELSE s.state

\* The state after Always and OneOf: a transition overrides what Always set.
NextState(outcome, s) ==
  IF Target(s) \in OneOf[currentState] THEN Target(s)
  ELSE IF outcome = "taken" THEN HasTerminalErrorState
  ELSE currentState

\* Mutant: only transitions and claims are reported.
ChangedState(outcome, s) == outcome = "taken" \/ Target(s) \in OneOf[currentState]

\* What the ipnProcessor reports; updatePeersLocked always reports a change.
Changed(outcome, s) ==
  \/ outcome \in {"claimed", "taken"}
  \/ currentState = ConnectedState
  \/ s.host \notin {None, hostname}
  \/ Target(s) \in OneOf[currentState]

\* Mutants: the error decides and not the state; nothing is torn down.
ErrorIsSet    == terminalError' # None
NeverTornDown == FALSE

\* Whether the handles are taken for terminalCleanup.
TearsDown == currentState' = HasTerminalErrorState

\* reactToIPNStateChange, up to the release of mu.
React(k) ==
  /\ Writable
  /\ wpc[k] = "react"
  /\ currentState \in SessionStates
  /\ \E outcome \in ClaimOutcomes(ipn[k]) :
       /\ Claim(outcome, ipn[k])
       /\ currentState' = NextState(outcome, ipn[k])
       /\ hostname' = OrElse(ipn[k].host, hostname)
       /\ peers' = IF currentState = ConnectedState THEN ipn[k].peers ELSE peers
       /\ loginURL' = IF currentState' = NeedsLoginState /\ currentState # NeedsLoginState
                      THEN ipn[k].url ELSE loginURL
       /\ IF TearsDown
          THEN /\ cleanup' = [cleanup EXCEPT ![k] =
                     [server |-> server, watcher |-> watcher, socksProxy |-> socksProxy]]
               /\ server' = None /\ watcher' = None /\ socksProxy' = None
               /\ wpc' = [wpc EXCEPT ![k] = "cleanup"]
          ELSE /\ wpc' = [wpc EXCEPT ![k] =
                     IF Changed(outcome, ipn[k]) THEN "notify" ELSE "next"]
               /\ UNCHANGED <<handles, cleanup>>
  /\ Silent
  /\ UNCHANGED <<serverUp, socksUp, canceled, ipn, stopping, loggingOut, dialing, others>>

\* In every other state the notification is ignored.  (In the terminal state
\* the handles are nil, and the cleanup taken of them does nothing.)
ReactIgnored(k) ==
  /\ Writable
  /\ wpc[k] = "react"
  /\ currentState \notin SessionStates
  /\ wpc' = [wpc EXCEPT ![k] = "next"]
  /\ UNCHANGED <<node, handles, serverUp, socksUp, canceled, ipn, cleanup, stopping, loggingOut,
                 dialing, config, others, stale>>

\* Mutant: the listener is left to the server's Close.
CleanupOfWatcher(k) ==
  /\ wpc[k] = "cleanup"
  /\ Cancel(cleanup[k].watcher)
  /\ wpc' = [wpc EXCEPT ![k] = "join"]
  /\ UNCHANGED <<node, handles, serverUp, socksUp, ipn, cleanup, stopping, loggingOut, dialing,
                 config, others, stale>>

\* terminalCleanup.run, after mu is released: the listener is closed and the
\* watcher canceled ...
CleanupCancels(k) ==
  /\ wpc[k] = "cleanup"
  /\ socksUp' = socksUp \ {cleanup[k].socksProxy}
  /\ Cancel(cleanup[k].watcher)
  /\ wpc' = [wpc EXCEPT ![k] = "join"]
  /\ UNCHANGED <<node, handles, serverUp, ipn, cleanup, stopping, loggingOut, dialing, config,
                 others, stale>>

\* ... and, once watcher.Close returns, the server is closed, or fails to close.
CleanupEnds(k) ==
  /\ wpc[k] = "join"
  /\ CloseReturns(cleanup[k].watcher)
  /\ serverUp' \in {serverUp, serverUp \ {cleanup[k].server}}
  /\ cleanup' = [cleanup EXCEPT ![k] = NoHandles]
  /\ wpc' = [wpc EXCEPT ![k] = "notify"]
  /\ UNCHANGED <<node, handles, socksUp, canceled, ipn, stopping, loggingOut, dialing, config,
                 others, stale>>

NotifyChange(k) ==
  /\ wpc[k] = "notify"
  /\ wpc' = [wpc EXCEPT ![k] = "next"]
  /\ Broadcast
  /\ UNCHANGED <<node, handles, serverUp, socksUp, canceled, ipn, cleanup, stopping, loggingOut,
                 dialing, config, others>>

-----------------------------------------------------------------------------
(* The rest of the program. *)

\* Accept fails and the SOCKS5 server, on its way out, closes its listener.
ProxyDies(k) ==
  /\ k \in socksUp
  /\ socksUp' = socksUp \ {k}
  /\ UNCHANGED <<node, handles, serverUp, goroutines, stopping, loggingOut, dialing, config,
                 others, stale>>

\* Another tailnet claims a suffix no entry has, or is deleted with its claim.
OthersChange ==
  /\ \E s \in Suffixes \ {config.suffix} : others' \in {others \cup {s}, others \ {s}}
  /\ UNCHANGED <<node, handles, serverUp, socksUp, goroutines, stopping, loggingOut, dialing,
                 config, stale>>

Command ==
  \/ StartFails
  \/ \E k \in Sessions : StartSucceeds(k)
  \/ StopBegins \/ StopFailsOnProxy \/ StopEnds
  \/ LogoutBegins \/ LogoutEnds
  \/ DialBegins \/ DialEnds

WatcherStep(k) ==
  \/ Receive(k) \/ WatcherStops(k) \/ WatcherFails(k)
  \/ React(k) \/ ReactIgnored(k)
  \/ CleanupCancels(k) \/ CleanupEnds(k)
  \/ NotifyChange(k)

Next ==
  \/ Command
  \/ \E k \in Sessions : WatcherStep(k) \/ ProxyDies(k)
  \/ OthersChange

Spec == Init /\ [][Next]_vars

(***************************************************************************)
(* Fairness.  Stop, Logout and Dial return: their waits have a timeout of  *)
(* their own or end with the request.  A goroutine gets the processor and, *)
(* as Go's mutexes are fair, mu.  A canceled context ends the subscription *)
(* once the notifications buffered before it are used up.  Nothing obliges *)
(* the bus to notify, the user to command or a resource to fail.           *)
(***************************************************************************)
Fairness ==
  /\ WF_vars(StopEnds) /\ WF_vars(LogoutEnds) /\ WF_vars(DialEnds)
  /\ \A k \in Sessions :
       /\ SF_vars(React(k)) /\ SF_vars(ReactIgnored(k)) /\ SF_vars(WatcherStops(k))
       /\ WF_vars(CleanupCancels(k)) /\ WF_vars(CleanupEnds(k)) /\ WF_vars(NotifyChange(k))

FairSpec == Spec /\ Fairness

-----------------------------------------------------------------------------
(* Properties. *)

\* In a session state the tailnet points to the three parts of one session and
\* its server runs: no teardown, by Stop or after an error, of this session or
\* of an earlier one, closes a server in use.  (tailnet.go: t.server.Dial.)
SessionOpen ==
  currentState \in SessionStates =>
    /\ server # None /\ watcher = server /\ socksProxy = server
    /\ server \in serverUp

\* While Dial is under way the tailnet stays connected and its server up: the
\* read lock keeps every command and every notification out.
DialReachesServer ==
  dialing => currentState = ConnectedState /\ server \in serverUp

\* A tailnet in HasTerminalErrorState is switched off, has its error and holds
\* no handle; only then does a goroutine tear a session down, at most one does,
\* and so nothing is closed by two parties.
TornDownOnce ==
  /\ currentState = HasTerminalErrorState =>
       /\ terminalError # None /\ userState = UserDisabled
       /\ server = None /\ watcher = None /\ socksProxy = None
  /\ \A k \in Sessions :
       /\ cleanup[k] # NoHandles => wpc[k] \in {"cleanup", "join"}
       /\ wpc[k] \in {"cleanup", "join"} =>
            /\ currentState = HasTerminalErrorState
            /\ \A j \in Sessions \ {k} : wpc[j] \notin {"cleanup", "join"}

\* Mu is released during Logout's call to the control plane, and yet nothing
\* moves the tailnet out of LoggingOutState, or takes the server away, but the
\* Logout that put it there; and nothing moves it on while Stop waits under mu.
CommandAlone ==
  /\ loggingOut <=> currentState = LoggingOutState
  /\ loggingOut => server # None
  /\ stopping => currentState \in SessionStates /\ userState = UserDisabled /\ ~dialing

\* A listener that is bound can still be closed: the tailnet or a teardown has
\* its handle, and none is left once Stop or a teardown waits for the watcher.  (A
\* listener nobody has would keep the port until the process ends, and every Start
\* would fail on it.)
ListenerHeld ==
  /\ \A k \in socksUp : k = socksProxy \/ \E j \in Sessions : cleanup[j].socksProxy = k
  /\ stopping \/ (\E k \in Sessions : wpc[k] = "join") => socksUp = {}

\* The suffix a tailnet routes by is the one the registry has for it, and no
\* other entry has it: whatever is claimed around a goroutine's own claim.
ClaimExclusive ==
  /\ claimed # None => config.suffix = claimed
  /\ config.suffix \notin others

\* A tailnet that asks for a login has a URL to send the user to, although the
\* state and the URL may come in separate notifications in either order.
LoginURLKnown == currentState = NeedsLoginState => loginURL \notin {None, EmptyURL}

\* When no Stop is under way and no goroutine has a broadcast to make, every
\* change of what a reader sees has been broadcast since it was made.
ChangesAnnounced ==
  stale => stopping \/ \E k \in Sessions : wpc[k] \in {"cleanup", "join", "notify"}

\* HasTerminalErrorState is left by no command and no notification: "an
\* unrecoverable error state until the user deletes/recreates it" (tailnet.go).
TerminalIsFinal ==
  [][currentState = HasTerminalErrorState => UNCHANGED <<node, handles>>]_vars

\* A Stop frees the port, whatever it fails to close on its way: "if the proxy is
\* stuck we get in trouble on start again due to the port being in use".
PortFreed ==
  [][currentState' = StoppedState /\ currentState \in SessionStates => socksUp' = {}]_vars

\* Stop returns, although it keeps mu and the goroutine it waits for needs mu.
StopReturns == stopping ~> ~stopping

\* A goroutine that was told to stop does so, also one that tears down its own
\* session after a terminal error and one that an earlier Stop gave up on.
CanceledWatcherExits == \A k \in Sessions : k \in canceled ~> wpc[k] = "none"

\* Once Logout has begun the tailnet comes to StoppedState.
LogoutStops == loggingOut ~> currentState = StoppedState

-----------------------------------------------------------------------------
(* The promise of a tailnet. *)

\* The mode of Lifecycle in which the tailnet is.
Mode ==
  CASE currentState = StoppedState -> "off"
    [] currentState = LoggingOutState -> "leaving"
    [] currentState = HasTerminalErrorState -> "failed"
    [] OTHER -> IF stopping THEN "stopping" ELSE "on"

L == INSTANCE Lifecycle WITH mode <- Mode, wish <- userState, suffix <- claimed

\* The tailnet does what Lifecycle says and nothing else, however commands,
\* goroutines of several sessions, timeouts and failures interleave: in
\* particular it comes on only when the user switches it on, goes off only when
\* the user says so, and claims and fails only while it is on.
FollowsLifecycle == L!Spec

=============================================================================
