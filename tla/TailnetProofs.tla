--------------------------- MODULE TailnetProofs ---------------------------
(***************************************************************************)
(* Proofs about Tailnet: its type invariant, its safety invariants and its *)
(* action properties, for all sets of sessions, suffixes, URLs, network    *)
(* maps and registry entries.                                              *)
(***************************************************************************)
EXTENDS Tailnet, TLAPS

USE DEF Writable, Broadcast, Silent,
        UserEnabled, UserDisabled, ConnectedState, HasTerminalErrorState, LoggingOutState,
        NeedsLoginState, NeedsMachineAuthState, StartedState, StoppedState

-----------------------------------------------------------------------------
(* Lemmas on the accumulated state of a bus. *)

\* What a goroutine knows has the type it should have, whatever is notified.
LEMMA RefreshType ==
  ASSUME NEW s \in IPNState, NEW n \in Notify
  PROVE  Refresh(s, n) \in IPNState
<1>1. CASE n.netMap = None
  BY <1>1 DEF Refresh, OrElse, IPNState, Notify
<1>2. CASE n.netMap # None
  <2>1. n.netMap \in [suffix : Suffixes \cup {None}, host : Hosts \cup {None}, peers : PeerLists]
    BY <1>2, IPNAssumption DEF Notify
  <2>2. QED  BY <2>1 DEF Refresh, OrElse, IPNState, Notify
<1>3. QED  BY <1>1, <1>2

\* A transition leads to a session state, and to NeedsLoginState only with a URL.
LEMMA TargetState ==
  ASSUME NEW s \in IPNState, Target(s) # None
  PROVE  /\ Target(s) \in SessionStates
         /\ Target(s) = NeedsLoginState => s.url \in URLs \ {EmptyURL} /\ s.url # None
BY DEF Target, SessionStates, IPNState, NeedsLoginState, NeedsMachineAuthState,
       ConnectedState, StartedState

\* The transitions of a session state lead to session states.
LEMMA OneOfStates ==
  ASSUME NEW s \in SessionStates
  PROVE  OneOf[s] \subseteq SessionStates
BY DEF OneOf, SessionStates, NeedsLoginState, NeedsMachineAuthState, ConnectedState, StartedState

\* A notification handled in a session state leaves it for another one or for
\* the terminal state, the latter only with a duplicate claim.
LEMMA NextStateType ==
  ASSUME TypeOK, currentState \in SessionStates, NEW s \in IPNState, NEW outcome
  PROVE  /\ NextState(outcome, s) \in SessionStates \cup {HasTerminalErrorState}
         /\ NextState(outcome, s) = HasTerminalErrorState => outcome = "taken"
<1>1. HasTerminalErrorState \notin SessionStates
  BY DEF SessionStates, NeedsLoginState, NeedsMachineAuthState, ConnectedState, StartedState,
         HasTerminalErrorState
<1>2. QED  BY <1>1, OneOfStates DEF NextState

-----------------------------------------------------------------------------
(* Type correctness. *)

\* The initial values have their types.
LEMMA TypeInit == Init => TypeOK
<1>1. Configs \subseteq PersistedTailnet
  BY TailnetAssumption
<1>2. NoIPNState \in IPNState
  BY DEF NoIPNState, IPNState
<1>3. NoHandles \in Handles
  BY DEF NoHandles, Handles, Handle
<1>4. QED
  BY <1>1, <1>2, <1>3
     DEF Init, TypeOK, PersistedTailnet, Handle, State, GoroutinePC

\* What a goroutine does with a notification in a session state keeps the types.
LEMMA TypeReact ==
  ASSUME TypeOK, NEW k \in Sessions, React(k)
  PROVE  TypeOK'
<1> DEFINE s == ipn[k]
<1>1. s \in IPNState
  BY DEF TypeOK
<1>2. /\ s.suffix \in Suffixes \cup {None} /\ s.host \in Hosts \cup {None}
      /\ s.url \in URLs \cup {None} /\ s.peers \in PeerLists \cup {None}
  BY <1>1 DEF IPNState
<1>3. PICK outcome \in ClaimOutcomes(s) :
        /\ Claim(outcome, s)
        /\ currentState' = NextState(outcome, s)
        /\ hostname' = OrElse(s.host, hostname)
        /\ peers' = IF currentState = ConnectedState THEN s.peers ELSE peers
        /\ loginURL' = IF currentState' = NeedsLoginState /\ currentState # NeedsLoginState
                       THEN s.url ELSE loginURL
  BY DEF React
<1>4. currentState' \in State
  BY <1>1, <1>3, NextStateType DEF React, State
<1>5. outcome # "skipped" => s.suffix \in Suffixes
  BY <1>2, <1>3 DEF ClaimOutcomes
<1>6. outcome \in {"skipped", "taken", "claimed", "notSaved"}
  BY <1>3 DEF ClaimOutcomes
<1>7. claimed' \in Suffixes \cup {None} /\ terminalError' \in Suffixes \cup {None}
  BY <1>3, <1>5, <1>6 DEF Claim, TypeOK
<1>8. userState' \in {UserEnabled, UserDisabled}
  BY <1>3 DEF Claim, TypeOK
<1>9. config' \in PersistedTailnet
  BY <1>3, <1>5, <1>6 DEF Claim, TypeOK, PersistedTailnet
<1>10. hostname' \in Hosts \cup {None} /\ peers' \in PeerLists \cup {None}
       /\ loginURL' \in URLs \cup {None}
  BY <1>2, <1>3 DEF OrElse, TypeOK
<1>11. /\ server' \in Handle /\ watcher' \in Handle /\ socksProxy' \in Handle
       /\ cleanup' \in [Sessions -> Handles] /\ wpc' \in [Sessions -> GoroutinePC]
  <2>1. CASE TearsDown
    <3>1. [server |-> server, watcher |-> watcher, socksProxy |-> socksProxy] \in Handles
      BY DEF TypeOK, Handles
    <3>2. QED  BY <2>1, <3>1 DEF React, TypeOK, Handle, GoroutinePC
  <2>2. CASE ~TearsDown
    BY <2>2 DEF React, TypeOK, handles, GoroutinePC
  <2>3. QED  BY <2>1, <2>2
<1>12. QED
  BY <1>4, <1>7, <1>8, <1>9, <1>10, <1>11 DEF React, TypeOK, goroutines

\* Every step keeps the types.
LEMMA TypeStep == TypeOK /\ CommandAlone /\ [Next]_vars => TypeOK'
<1> SUFFICES ASSUME TypeOK, CommandAlone, [Next]_vars PROVE TypeOK'
  OBVIOUS
<1> USE DEF TypeOK, node, handles, goroutines
<1>1. CASE StartFails
  BY <1>1 DEF SetUserState, PersistedTailnet, StartFails
<1>2. ASSUME NEW k \in Sessions, StartSucceeds(k) PROVE TypeOK'
  BY <1>2 DEF SetUserState, PersistedTailnet, StartSucceeds, Handle, State, SessionStates, GoroutinePC
<1>3. CASE StopBegins
  <2>1. canceled' \subseteq Sessions
    BY <1>3 DEF StopBegins, Cancel, Exited, Handle
  <2>2. config' \in PersistedTailnet /\ userState' \in {UserEnabled, UserDisabled}
    BY <1>3 DEF StopBegins, SetUserState, PersistedTailnet
  <2>3. QED  BY <1>3, <2>1, <2>2 DEF StopBegins
<1>4. CASE StopFailsOnProxy
  BY <1>4 DEF SetUserState, PersistedTailnet, StopFailsOnProxy, State
<1>5. CASE StopEnds
  BY ZenonT(30), <1>5 DEF StopEnds, State, Handle
<1>6. CASE LogoutBegins
  BY ZenonT(30), <1>6 DEF SetUserState, PersistedTailnet, LogoutBegins, State, Handle
<1>7. CASE LogoutEnds
  <2>1. server \in Sessions
    BY <1>7 DEF CommandAlone, LogoutEnds, Handle
  <2>2. QED  BY ZenonT(30), <1>7, <2>1 DEF LogoutEnds, State, Handle
<1>8. CASE DialBegins
  BY <1>8 DEF DialBegins
<1>9. CASE DialEnds
  BY <1>9 DEF DialEnds
<1>10. ASSUME NEW k \in Sessions, Receive(k) PROVE TypeOK'
  BY <1>10, RefreshType DEF Receive, GoroutinePC
<1>11. ASSUME NEW k \in Sessions, Exit(k) PROVE TypeOK'
  <2>1. NoIPNState \in IPNState
    BY DEF NoIPNState, IPNState
  <2>2. QED  BY <1>11, <2>1 DEF Exit, GoroutinePC
<1>12. ASSUME NEW k \in Sessions, React(k) PROVE TypeOK'
  BY <1>12, TypeReact
<1>13. ASSUME NEW k \in Sessions, ReactIgnored(k) PROVE TypeOK'
  BY <1>13 DEF ReactIgnored, GoroutinePC
<1>14. ASSUME NEW k \in Sessions, CleanupCancels(k) PROVE TypeOK'
  BY <1>14 DEF CleanupCancels, Cancel, Exited, Handles, Handle, GoroutinePC
<1>15. ASSUME NEW k \in Sessions, CleanupEnds(k) PROVE TypeOK'
  <2>1. NoHandles \in Handles
    BY DEF NoHandles, Handles, Handle
  <2>2. QED  BY <1>15, <2>1 DEF CleanupEnds, GoroutinePC
<1>16. ASSUME NEW k \in Sessions, NotifyChange(k) PROVE TypeOK'
  BY <1>16 DEF NotifyChange, GoroutinePC
<1>17. ASSUME NEW k \in Sessions, ProxyDies(k) PROVE TypeOK'
  BY <1>17 DEF ProxyDies
<1>18. CASE OthersChange
  BY <1>18 DEF OthersChange
<1>19. CASE UNCHANGED vars
  BY <1>19 DEF vars
<1>20. QED
  BY <1>1, <1>2, <1>3, <1>4, <1>5, <1>6, <1>7, <1>8, <1>9, <1>10, <1>11, <1>12, <1>13, <1>14,
     <1>15, <1>16, <1>17, <1>18, <1>19
     DEF Next, Command, WatcherStep, WatcherStops, WatcherFails

-----------------------------------------------------------------------------
(***************************************************************************)
(* Safety.  The invariants hold each other up: a session stays open        *)
(* because only the terminal state tears one down (TornDownOnce), Dial     *)
(* reaches its server because nothing happens under its read lock          *)
(* (CommandAlone), no listener is forgotten because a teardown takes all   *)
(* handles with it (ListenerHeld), and a claim stays exclusive because a   *)
(* notification claims only what no entry has.                             *)
(***************************************************************************)
IInv ==
  /\ TypeOK
  /\ SessionOpen /\ DialReachesServer /\ TornDownOnce /\ CommandAlone
  /\ ListenerHeld /\ ClaimExclusive /\ LoginURLKnown

\* A tailnet starts in the invariant.
LEMMA IInvInit == Init => IInv
<1> SUFFICES ASSUME Init PROVE IInv
  OBVIOUS
<1>1. TypeOK
  BY TypeInit
<1>2. /\ SessionOpen /\ DialReachesServer /\ CommandAlone /\ LoginURLKnown
  BY DEF Init, SessionOpen, DialReachesServer, CommandAlone, LoginURLKnown,
         SessionStates, HasTerminalErrorState, StoppedState, LoggingOutState, NeedsLoginState,
         NeedsMachineAuthState, ConnectedState, StartedState
<1>3. TornDownOnce
  BY DEF Init, TornDownOnce, HasTerminalErrorState, StoppedState, UserEnabled, UserDisabled
<1>4. ListenerHeld
  BY DEF Init, ListenerHeld
<1>5. ClaimExclusive
  BY DEF Init, ClaimExclusive
<1>6. QED  BY <1>1, <1>2, <1>3, <1>4, <1>5 DEF IInv

\* Outside of the terminal state only the tailnet's own listener can be bound.
LEMMA ListenerOfSession ==
  ASSUME IInv, currentState # HasTerminalErrorState
  PROVE  /\ \A k \in Sessions : wpc[k] \notin {"cleanup", "join"} /\ cleanup[k] = NoHandles
         /\ \A k \in socksUp : k = socksProxy
<1>1. \A k \in Sessions : wpc[k] \notin {"cleanup", "join"} /\ cleanup[k] = NoHandles
  BY DEF IInv, TornDownOnce
<1>2. \A k \in socksUp : k # None
  BY TailnetAssumption DEF IInv, TypeOK
<1>3. QED  BY <1>1, <1>2 DEF IInv, ListenerHeld, NoHandles

\* A notification handled in a session state keeps the invariant.
LEMMA IInvReact ==
  ASSUME IInv, NEW k \in Sessions, React(k)
  PROVE  IInv'
<1> DEFINE s == ipn[k]
<1> USE DEF IInv
<1>1. TypeOK'
  BY TypeReact
<1>2. s \in IPNState
  BY DEF TypeOK
<1>3. PICK outcome \in ClaimOutcomes(s) :
        /\ Claim(outcome, s)
        /\ currentState' = NextState(outcome, s)
        /\ loginURL' = IF currentState' = NeedsLoginState /\ currentState # NeedsLoginState
                       THEN s.url ELSE loginURL
  BY DEF React
<1>4. /\ currentState \in SessionStates /\ ~stopping /\ ~dialing /\ ~loggingOut
      /\ UNCHANGED <<stopping, dialing, loggingOut, serverUp, others>>
      /\ wpc[k] = "react"
  BY DEF React, CommandAlone, SessionStates
<1>5. /\ currentState' \in SessionStates \cup {HasTerminalErrorState}
      /\ currentState' = HasTerminalErrorState => outcome = "taken"
  BY <1>2, <1>3, <1>4, NextStateType
<1>6. /\ outcome \in {"skipped", "taken", "claimed", "notSaved"}
      /\ outcome # "skipped" => s.suffix # None /\ claimed = None
      /\ outcome \in {"claimed", "notSaved"} => s.suffix \notin others
  BY <1>3 DEF ClaimOutcomes
<1>7. SessionOpen'
  BY <1>4 DEF React, TearsDown, SessionOpen, SessionStates, handles
<1>8. DialReachesServer'
  BY <1>4 DEF DialReachesServer
<1>9. TornDownOnce'
  <2>1. \A j \in Sessions : wpc[j] \notin {"cleanup", "join"} /\ cleanup[j] = NoHandles
    BY <1>4 DEF TornDownOnce, SessionStates
  <2>2. CASE TearsDown
    <3>1. outcome = "taken"
      BY <1>5, <2>2 DEF TearsDown
    <3>2. terminalError' # None /\ userState' = UserDisabled
      BY <1>3, <1>6, <3>1 DEF Claim
    <3>3. /\ server' = None /\ watcher' = None /\ socksProxy' = None
          /\ wpc' = [wpc EXCEPT ![k] = "cleanup"]
          /\ \A j \in Sessions \ {k} : cleanup'[j] = cleanup[j]
      BY <2>2 DEF React, TypeOK
    <3>4. wpc'[k] = "cleanup" /\ \A j \in Sessions \ {k} : wpc'[j] = wpc[j]
      BY <3>3 DEF TypeOK
    <3>5. QED  BY <2>1, <2>2, <3>2, <3>3, <3>4 DEF TornDownOnce, TearsDown, NoHandles
  <2>3. CASE ~TearsDown
    <3>1. /\ cleanup' = cleanup
          /\ \A j \in Sessions : wpc'[j] \in {wpc[j], "notify", "next"}
      BY <2>3 DEF React, TypeOK
    <3>2. QED  BY <2>1, <2>3, <3>1 DEF TornDownOnce, TearsDown, NoHandles
  <2>4. QED  BY <2>2, <2>3
<1>10. CommandAlone'
  BY <1>4, <1>5 DEF CommandAlone, SessionStates
<1>11. ListenerHeld'
  <2>1. /\ \A j \in Sessions : wpc[j] \notin {"cleanup", "join"}
        /\ \A j \in socksUp : j = socksProxy
    BY <1>4, ListenerOfSession DEF TornDownOnce, SessionStates
  <2>2. socksUp' = socksUp /\ \A j \in Sessions : wpc'[j] # "join"
    BY <2>1 DEF React, TypeOK
  <2>3. CASE TearsDown
    <3>1. cleanup'[k].socksProxy = socksProxy
      BY <2>3 DEF React, TypeOK
    <3>2. QED  BY <1>4, <2>1, <2>2, <3>1 DEF ListenerHeld
  <2>4. CASE ~TearsDown
    BY <1>4, <2>1, <2>2, <2>4 DEF ListenerHeld, React, handles
  <2>5. QED  BY <2>3, <2>4
<1>12. ClaimExclusive'
  BY <1>3, <1>4, <1>6 DEF Claim, ClaimExclusive, TypeOK, PersistedTailnet
<1>13. LoginURLKnown'
  <2>1. NextState(outcome, s) = NeedsLoginState /\ currentState # NeedsLoginState
           => Target(s) = NeedsLoginState
    BY <1>4 DEF NextState, SessionStates
  <2>2. Target(s) = NeedsLoginState => s.url \notin {None, EmptyURL}
    BY <1>2, TargetState, TailnetAssumption DEF State, SessionStates
  <2>3. QED  BY <1>3, <2>1, <2>2 DEF LoginURLKnown
<1>14. QED
  BY <1>1, <1>7, <1>8, <1>9, <1>10, <1>11, <1>12, <1>13

\* Starting a session keeps the invariant.
LEMMA IInvStart ==
  ASSUME IInv, NEW k \in Sessions, StartSucceeds(k)
  PROVE  IInv'
<1> USE DEF IInv
<1>1. TypeOK'
  BY TypeStep DEF Next, Command
<1>2. /\ ~stopping /\ ~dialing /\ currentState = StoppedState /\ currentState' = StartedState
      /\ UNCHANGED <<stopping, dialing, loggingOut, claimed, terminalError, loginURL, others>>
      /\ userState' = UserEnabled /\ config' = [config EXCEPT !.enabled = TRUE]
      /\ server' = k /\ watcher' = k /\ socksProxy' = k
      /\ wpc' = [wpc EXCEPT ![k] = "next"] /\ cleanup' = cleanup
      /\ k \in serverUp' /\ k # None
  BY TailnetAssumption DEF StartSucceeds, SetUserState
<1>3. SessionOpen' /\ DialReachesServer' /\ CommandAlone' /\ LoginURLKnown'
  BY <1>2 DEF SessionOpen, DialReachesServer, CommandAlone, LoginURLKnown, SessionStates
<1>4. TornDownOnce'
  BY <1>2 DEF TornDownOnce, TypeOK
<1>5. ClaimExclusive'
  BY <1>2 DEF ClaimExclusive, TypeOK, PersistedTailnet
<1>6. ListenerHeld'
  <2>1. \A j \in Sessions : wpc[j] # "join"
    BY <1>2, ListenerOfSession
  <2>2. socksUp' = {k} /\ \A j \in Sessions : wpc'[j] # "join"
    BY <1>2, <2>1 DEF StartSucceeds, TypeOK
  <2>3. QED  BY <1>2, <2>2 DEF ListenerHeld
<1>7. QED
  BY <1>1, <1>3, <1>4, <1>5, <1>6

\* Every command keeps the invariant.
LEMMA IInvCommand == IInv /\ Command => IInv'
<1> SUFFICES ASSUME IInv, Command PROVE IInv'
  OBVIOUS
<1> USE DEF IInv
<1>1. TypeOK'
  BY TypeStep DEF Next
<1>2. CASE StartFails
  <2>1. /\ currentState = StoppedState /\ userState' = UserEnabled
        /\ config' = [config EXCEPT !.enabled = TRUE]
        /\ UNCHANGED <<currentState, claimed, terminalError, loginURL, server, watcher, socksProxy,
                       socksUp, wpc, cleanup, stopping, loggingOut, dialing, others>>
        /\ ~dialing
    BY <1>2 DEF StartFails, SetUserState, handles, goroutines
  <2>2. SessionOpen' /\ DialReachesServer' /\ CommandAlone' /\ LoginURLKnown'
    BY <2>1 DEF SessionOpen, DialReachesServer, CommandAlone, LoginURLKnown,
                SessionStates
  <2>3. TornDownOnce' /\ ListenerHeld' /\ ClaimExclusive'
    BY <2>1 DEF TornDownOnce, ListenerHeld, ClaimExclusive, TypeOK, PersistedTailnet
  <2>4. QED  BY <1>1, <2>2, <2>3
<1>3. ASSUME NEW k \in Sessions, StartSucceeds(k) PROVE IInv'
  BY <1>3, IInvStart
<1>4. CASE StopBegins
  <2>1. /\ currentState \in SessionStates /\ ~dialing /\ ~stopping
        /\ userState' = UserDisabled /\ config' = [config EXCEPT !.enabled = FALSE]
        /\ stopping' = TRUE
        /\ UNCHANGED <<currentState, claimed, terminalError, loginURL, server, watcher, socksProxy,
                       serverUp, wpc, cleanup, loggingOut, dialing, others>>
        /\ socksUp' = socksUp \ {socksProxy}
    BY <1>4 DEF StopBegins, StoppableStates, SetUserState, handles
  <2>2. SessionOpen' /\ DialReachesServer' /\ CommandAlone' /\ LoginURLKnown'
    BY <2>1 DEF SessionOpen, DialReachesServer, CommandAlone, LoginURLKnown,
                SessionStates
  <2>3. TornDownOnce' /\ ClaimExclusive'
    BY <2>1 DEF TornDownOnce, ClaimExclusive, TypeOK, PersistedTailnet
  <2>4. ListenerHeld'
    <3>1. currentState # HasTerminalErrorState
      BY <2>1 DEF SessionStates
    <3>2. socksUp' = {}
      BY <2>1, <3>1, ListenerOfSession
    <3>3. QED  BY <3>2 DEF ListenerHeld
  <2>5. QED  BY <1>1, <2>2, <2>3, <2>4
<1>5. CASE StopFailsOnProxy
  <2>1. /\ currentState \in SessionStates /\ ~dialing /\ ~stopping
        /\ userState' = UserDisabled /\ config' = [config EXCEPT !.enabled = FALSE]
        /\ currentState' = StoppedState
        /\ UNCHANGED <<claimed, socksProxy, socksUp, wpc, cleanup, loggingOut, dialing, stopping,
                       others>>
    BY <1>5 DEF StopFailsOnProxy, StoppableStates, SetUserState, handles, goroutines
  <2>2. SessionOpen' /\ DialReachesServer' /\ CommandAlone' /\ LoginURLKnown'
    BY <2>1 DEF SessionOpen, DialReachesServer, CommandAlone, LoginURLKnown,
                SessionStates
  <2>3. TornDownOnce' /\ ListenerHeld' /\ ClaimExclusive'
    BY <2>1 DEF TornDownOnce, ListenerHeld, ClaimExclusive, TypeOK, PersistedTailnet, SessionStates
  <2>4. QED  BY <1>1, <2>2, <2>3
<1>6. CASE StopEnds
  <2>1. /\ stopping /\ ~stopping' /\ currentState' = StoppedState
        /\ UNCHANGED <<userState, claimed, socksUp, wpc, cleanup, loggingOut, dialing, config,
                       others>>
    BY <1>6 DEF StopEnds, goroutines
  <2>2. SessionOpen' /\ DialReachesServer' /\ CommandAlone' /\ LoginURLKnown'
    BY <2>1 DEF SessionOpen, DialReachesServer, CommandAlone, LoginURLKnown,
                SessionStates
  <2>3. TornDownOnce' /\ ListenerHeld' /\ ClaimExclusive'
    BY <2>1 DEF TornDownOnce, CommandAlone, ListenerHeld, ClaimExclusive, SessionStates
  <2>4. QED  BY <1>1, <2>2, <2>3
<1>7. CASE LogoutBegins
  <2>1. /\ currentState \in LogoutStates /\ ~dialing /\ ~stopping
        /\ userState' = UserDisabled /\ config' = [config EXCEPT !.enabled = FALSE]
        /\ currentState' = LoggingOutState /\ loggingOut' = TRUE
        /\ server' # None
        /\ UNCHANGED <<claimed, socksProxy, socksUp, wpc, cleanup, dialing, stopping, others>>
    BY <1>7, TailnetAssumption DEF LogoutBegins, SetUserState, goroutines
  <2>2. SessionOpen' /\ DialReachesServer' /\ CommandAlone' /\ LoginURLKnown'
    BY <2>1 DEF SessionOpen, DialReachesServer, CommandAlone, LoginURLKnown,
                SessionStates
  <2>3. TornDownOnce' /\ ListenerHeld' /\ ClaimExclusive'
    BY <2>1 DEF TornDownOnce, ListenerHeld, ClaimExclusive, TypeOK, PersistedTailnet, LogoutStates
  <2>4. QED  BY <1>1, <2>2, <2>3
<1>8. CASE LogoutEnds
  <2>1. /\ loggingOut /\ ~dialing /\ ~stopping /\ ~loggingOut' /\ currentState' = StoppedState
        /\ UNCHANGED <<userState, claimed, socksProxy, socksUp, wpc, cleanup, stopping, dialing,
                       config, others>>
    BY <1>8 DEF LogoutEnds, handles, goroutines
  <2>2. SessionOpen' /\ DialReachesServer' /\ CommandAlone' /\ LoginURLKnown'
    BY <2>1 DEF SessionOpen, DialReachesServer, CommandAlone, LoginURLKnown,
                SessionStates
  <2>3. TornDownOnce' /\ ListenerHeld' /\ ClaimExclusive'
    BY <2>1 DEF TornDownOnce, CommandAlone, ListenerHeld, ClaimExclusive
  <2>4. QED  BY <1>1, <2>2, <2>3
<1>9. CASE DialBegins \/ DialEnds
  <2>1. /\ UNCHANGED <<currentState, userState, claimed, terminalError, loginURL, server, watcher,
                       socksProxy, serverUp, socksUp, wpc, cleanup, stopping, loggingOut, config,
                       others>>
        /\ dialing' => ~stopping /\ currentState = ConnectedState
    BY <1>9 DEF DialBegins, DialEnds, node, handles, goroutines
  <2>2. SessionOpen' /\ DialReachesServer' /\ CommandAlone' /\ LoginURLKnown'
    BY <2>1 DEF SessionOpen, DialReachesServer, CommandAlone, LoginURLKnown,
                SessionStates
  <2>3. TornDownOnce' /\ ListenerHeld' /\ ClaimExclusive'
    BY <2>1 DEF TornDownOnce, ListenerHeld, ClaimExclusive
  <2>4. QED  BY <1>1, <2>2, <2>3
<1>10. QED
  BY <1>2, <1>3, <1>4, <1>5, <1>6, <1>7, <1>8, <1>9 DEF Command

\* Every step of a goroutine keeps the invariant.
LEMMA IInvWatcher ==
  ASSUME IInv, NEW k \in Sessions, WatcherStep(k)
  PROVE  IInv'
<1> USE DEF IInv
<1>1. TypeOK'
  BY TypeStep DEF Next
<1> DEFINE Same == UNCHANGED <<currentState, userState, claimed, terminalError, loginURL, server,
                               watcher, socksProxy, stopping, loggingOut, dialing, config, others>>
           Tearing == {"cleanup", "join"}
\* Most steps touch neither the session nor its teardown.
<1>2. ASSUME Same, serverUp' = serverUp, cleanup' = cleanup, socksUp' \subseteq socksUp,
             \A j \in Sessions : wpc'[j] \in Tearing <=> wpc[j] \in Tearing,
             \A j \in Sessions : wpc'[j] = "join" /\ wpc[j] # "join" => socksUp' = {}
      PROVE  IInv'
  <2>1. SessionOpen' /\ DialReachesServer' /\ CommandAlone' /\ LoginURLKnown'
    BY <1>2 DEF SessionOpen, DialReachesServer, CommandAlone, LoginURLKnown
  <2>2. TornDownOnce' /\ ListenerHeld' /\ ClaimExclusive'
    BY <1>2 DEF TornDownOnce, ListenerHeld, ClaimExclusive
  <2>3. QED  BY <1>1, <2>1, <2>2
<1>3. CASE Receive(k)
  BY <1>2, <1>3 DEF Receive, node, handles, TypeOK
<1>4. CASE Exit(k)
  BY <1>2, <1>4 DEF Exit, node, handles, TypeOK
<1>5. CASE React(k)
  BY <1>5, IInvReact
<1>6. CASE ReactIgnored(k)
  BY <1>2, <1>6 DEF ReactIgnored, node, handles, goroutines, TypeOK
<1>7. CASE CleanupCancels(k)
  <2>1. /\ wpc[k] = "cleanup" /\ socksUp' = socksUp \ {cleanup[k].socksProxy}
        /\ currentState = HasTerminalErrorState
    BY <1>7 DEF CleanupCancels, TornDownOnce
  <2>2. \A j \in socksUp : j # None
    BY TailnetAssumption DEF TypeOK
  <2>3. socksProxy = None /\ \A j \in Sessions \ {k} : cleanup[j] = NoHandles
    BY <2>1 DEF TornDownOnce
  <2>4. socksUp' = {}
    BY <2>1, <2>2, <2>3 DEF ListenerHeld, NoHandles
  <2>5. QED  BY <1>2, <1>7, <2>4 DEF CleanupCancels, node, handles, TypeOK
<1>8. CASE CleanupEnds(k)
  <2>1. /\ Same /\ socksUp' = socksUp
        /\ wpc[k] = "join" /\ wpc'[k] = "notify" /\ cleanup'[k] = NoHandles
        /\ \A j \in Sessions \ {k} : wpc'[j] = wpc[j] /\ cleanup'[j] = cleanup[j]
    BY <1>8 DEF CleanupEnds, node, handles, TypeOK
  <2>2. currentState = HasTerminalErrorState
    BY <2>1 DEF TornDownOnce
  <2>3. SessionOpen' /\ DialReachesServer' /\ CommandAlone' /\ LoginURLKnown'
    BY <2>1, <2>2 DEF SessionOpen, DialReachesServer, CommandAlone, LoginURLKnown,
                      SessionStates
  <2>4. TornDownOnce' /\ ListenerHeld' /\ ClaimExclusive'
    BY <2>1 DEF TornDownOnce, ListenerHeld, ClaimExclusive
  <2>5. QED  BY <1>1, <2>3, <2>4
<1>9. CASE NotifyChange(k)
  BY <1>2, <1>9 DEF NotifyChange, node, handles, TypeOK
<1>10. QED
  BY <1>3, <1>4, <1>5, <1>6, <1>7, <1>8, <1>9 DEF WatcherStep, WatcherStops, WatcherFails

\* Every step keeps the invariant.
LEMMA IInvStep == IInv /\ [Next]_vars => IInv'
<1> SUFFICES ASSUME IInv, [Next]_vars PROVE IInv'
  OBVIOUS
<1>1. TypeOK'
  BY TypeStep DEF IInv
<1>2. CASE (\E k \in Sessions : ProxyDies(k)) \/ OthersChange \/ UNCHANGED vars
  <2>1. /\ UNCHANGED <<currentState, userState, claimed, terminalError, loginURL, server, watcher,
                       socksProxy, serverUp, wpc, cleanup, stopping, loggingOut, dialing, config>>
        /\ socksUp' \subseteq socksUp
        /\ config.suffix \notin others => config.suffix \notin others'
    BY <1>2 DEF ProxyDies, OthersChange, vars, node, handles, goroutines
  <2>2. QED
    BY <1>1, <2>1 DEF IInv, SessionOpen, DialReachesServer, TornDownOnce, CommandAlone,
                      ListenerHeld, ClaimExclusive, LoginURLKnown
<1>3. QED
  BY <1>2, IInvCommand, IInvWatcher DEF Next

\* The inductive invariant holds of a tailnet at all times.
THEOREM Invariant == Spec => []IInv
  BY IInvInit, IInvStep, PTL DEF Spec

-----------------------------------------------------------------------------
(* What the invariant gives: the properties of Tailnet, one by one. *)

\* A tailnet's variables always hold values of their types.
THEOREM TypeCorrect == Spec => []TypeOK
  BY Invariant, PTL DEF IInv

\* In a session state the session's server, watcher and listener are there and
\* its server runs, whatever earlier sessions left behind.
THEOREM SessionStaysOpen == Spec => []SessionOpen
  BY Invariant, PTL DEF IInv

\* Dial never uses a server that is closed, or about to be closed.
THEOREM DialIsSafe == Spec => []DialReachesServer
  BY Invariant, PTL DEF IInv

\* A session is torn down at most once after a terminal error, and by nobody else.
THEOREM TeardownIsExclusive == Spec => []TornDownOnce
  BY Invariant, PTL DEF IInv

\* No command and no notification comes between the two halves of Stop or Logout.
THEOREM CommandsExclude == Spec => []CommandAlone
  BY Invariant, PTL DEF IInv

\* No listener is left to itself: whoever is to close it has its handle.
THEOREM ListenersAreHeld == Spec => []ListenerHeld
  BY Invariant, PTL DEF IInv

\* A tailnet's claim is its own: the registry has it for this tailnet only.
THEOREM ClaimIsExclusive == Spec => []ClaimExclusive
  BY Invariant, PTL DEF IInv

\* A tailnet in NeedsLoginState has a login URL.
THEOREM LoginHasURL == Spec => []LoginURLKnown
  BY Invariant, PTL DEF IInv

-----------------------------------------------------------------------------
(* Action properties. *)

\* No step leaves HasTerminalErrorState or changes what a reader sees of it.
LEMMA TerminalStep ==
  IInv /\ [Next]_vars =>
    (currentState = HasTerminalErrorState => UNCHANGED <<node, handles>>)
<1> SUFFICES ASSUME IInv, [Next]_vars, currentState = HasTerminalErrorState
             PROVE  UNCHANGED <<node, handles>>
  OBVIOUS
<1>1. ~stopping /\ ~loggingOut
  BY DEF IInv, CommandAlone, SessionStates
<1>2. CASE Command
  BY <1>1, <1>2 DEF Command, StartFails, StartSucceeds, StopBegins, StopFailsOnProxy, StopEnds,
                    LogoutBegins, LogoutEnds, DialBegins, DialEnds, StoppableStates,
                    SessionStates, LogoutStates
<1>3. ASSUME NEW k \in Sessions, WatcherStep(k) PROVE UNCHANGED <<node, handles>>
  BY <1>3 DEF WatcherStep, Receive, WatcherStops, WatcherFails, Exit, React, ReactIgnored,
              CleanupCancels, CleanupEnds, NotifyChange, SessionStates
<1>4. CASE (\E k \in Sessions : ProxyDies(k)) \/ OthersChange \/ UNCHANGED vars
  BY <1>4 DEF ProxyDies, OthersChange, vars
<1>5. QED  BY <1>2, <1>3, <1>4 DEF Next

\* HasTerminalErrorState is unrecoverable.
THEOREM TerminalErrorIsFinal == Spec => TerminalIsFinal
  BY Invariant, TerminalStep, PTL DEF Spec, TerminalIsFinal

\* A session is left for StoppedState by Stop only, which has closed the listener
\* or found it closed.
LEMMA PortStep ==
  IInv /\ [Next]_vars =>
    (currentState' = StoppedState /\ currentState \in SessionStates => socksUp' = {})
<1> SUFFICES ASSUME IInv, [Next]_vars, currentState' = StoppedState, currentState \in SessionStates
             PROVE  socksUp' = {}
  OBVIOUS
<1>1. /\ currentState # HasTerminalErrorState /\ currentState # StoppedState
      /\ currentState # LoggingOutState
  BY DEF SessionStates
<1>2. CASE StopEnds
  BY <1>2 DEF StopEnds, IInv, ListenerHeld
<1>3. CASE StopFailsOnProxy
  <2>1. \A k \in socksUp : k = socksProxy
    BY <1>1, ListenerOfSession
  <2>2. socksUp' = socksUp /\ socksProxy \notin socksUp
    BY <1>3 DEF StopFailsOnProxy
  <2>3. QED  BY <2>1, <2>2
<1>4. CASE Command /\ ~StopEnds /\ ~StopFailsOnProxy
  BY <1>1, <1>4 DEF Command, StartFails, StartSucceeds, StopBegins, LogoutBegins, LogoutEnds,
                    DialBegins, DialEnds, IInv, CommandAlone, node
<1>5. ASSUME NEW k \in Sessions, React(k) PROVE FALSE
  <2>1. ipn[k] \in IPNState
    BY DEF IInv, TypeOK
  <2>2. PICK outcome \in ClaimOutcomes(ipn[k]) : currentState' = NextState(outcome, ipn[k])
    BY <1>5 DEF React
  <2>3. currentState' \in SessionStates \cup {HasTerminalErrorState}
    BY <2>1, <2>2, NextStateType DEF IInv
  <2>4. QED  BY <2>3 DEF SessionStates
<1>6. ASSUME NEW k \in Sessions, WatcherStep(k), ~React(k) PROVE FALSE
  BY <1>1, <1>6 DEF WatcherStep, Receive, WatcherStops, WatcherFails, Exit, ReactIgnored,
                    CleanupCancels, CleanupEnds, NotifyChange, node
<1>7. CASE (\E k \in Sessions : ProxyDies(k)) \/ OthersChange \/ UNCHANGED vars
  BY <1>1, <1>7 DEF ProxyDies, OthersChange, vars, node
<1>8. QED  BY <1>2, <1>3, <1>4, <1>5, <1>6, <1>7 DEF Next

\* However a Stop ends, the port is free for the next Start.
THEOREM StopFreesPort == Spec => PortFreed
  BY Invariant, PortStep, PTL DEF Spec, PortFreed

\* A claimed suffix is never given up or exchanged, nor is that of the entry, whatever
\* network maps come.  (The run TailnetData checks it as part of FollowsLifecycle, with
\* ClaimExclusive, which ties the entry to the claim.)
ClaimIsForever ==
  [][claimed # None => claimed' = claimed /\ config'.suffix = config.suffix]_vars

\* No step changes a suffix once it is claimed.
LEMMA ClaimStep ==
  IInv /\ [Next]_vars =>
    (claimed # None => claimed' = claimed /\ config'.suffix = config.suffix)
<1> SUFFICES ASSUME IInv, [Next]_vars, claimed # None
             PROVE  claimed' = claimed /\ config'.suffix = config.suffix
  OBVIOUS
<1>1. config \in PersistedTailnet
  BY DEF IInv, TypeOK
<1>2. CASE Command
  BY <1>1, <1>2 DEF Command, StartFails, StartSucceeds, StopBegins, StopFailsOnProxy, StopEnds,
                    LogoutBegins, LogoutEnds, DialBegins, DialEnds, SetUserState, node,
                    PersistedTailnet
<1>3. ASSUME NEW k \in Sessions, React(k)
      PROVE  claimed' = claimed /\ config'.suffix = config.suffix
  <2>1. ClaimOutcomes(ipn[k]) = {"skipped"}
    BY DEF ClaimOutcomes
  <2>2. Claim("skipped", ipn[k])
    BY <1>3, <2>1 DEF React
  <2>3. QED  BY <2>2 DEF Claim
<1>4. ASSUME NEW k \in Sessions, WatcherStep(k), ~React(k)
      PROVE  claimed' = claimed /\ config'.suffix = config.suffix
  BY <1>4 DEF WatcherStep, Receive, WatcherStops, WatcherFails, Exit, ReactIgnored,
              CleanupCancels, CleanupEnds, NotifyChange, node
<1>5. CASE (\E k \in Sessions : ProxyDies(k)) \/ OthersChange \/ UNCHANGED vars
  BY <1>5 DEF ProxyDies, OthersChange, vars, node
<1>6. QED  BY <1>2, <1>3, <1>4, <1>5 DEF Next

\* A claim is forever.
THEOREM ClaimStays == Spec => ClaimIsForever
  BY Invariant, ClaimStep, PTL DEF Spec, ClaimIsForever

-----------------------------------------------------------------------------
(* Every change is announced. *)

\* A notification that changes what a reader sees leaves its goroutine with a
\* broadcast to make: what the processor reports misses no change.
LEMMA ReactReports ==
  ASSUME TypeOK, NEW k \in Sessions, React(k), node' # node
  PROVE  wpc'[k] \in {"cleanup", "notify"}
<1> DEFINE s == ipn[k]
<1>1. PICK outcome \in ClaimOutcomes(s) :
        /\ Claim(outcome, s)
        /\ currentState' = NextState(outcome, s)
        /\ hostname' = OrElse(s.host, hostname)
        /\ peers' = IF currentState = ConnectedState THEN s.peers ELSE peers
        /\ loginURL' = IF currentState' = NeedsLoginState /\ currentState # NeedsLoginState
                       THEN s.url ELSE loginURL
        /\ wpc' = IF TearsDown THEN [wpc EXCEPT ![k] = "cleanup"]
                  ELSE [wpc EXCEPT ![k] = IF Changed(outcome, s) THEN "notify" ELSE "next"]
  BY DEF React
<1>2. Changed(outcome, s)
  <2> SUFFICES ASSUME ~Changed(outcome, s) PROVE node' = node
    OBVIOUS
  <2>1. /\ outcome \notin {"claimed", "taken"} /\ currentState # ConnectedState
        /\ s.host \in {None, hostname} /\ Target(s) \notin OneOf[currentState]
    BY DEF Changed
  <2>2. claimed' = claimed /\ terminalError' = terminalError /\ userState' = userState
    BY <1>1, <2>1 DEF Claim
  <2>3. currentState' = currentState /\ hostname' = hostname /\ peers' = peers
    BY <1>1, <2>1 DEF NextState, OrElse
  <2>4. QED  BY <1>1, <2>2, <2>3 DEF node
<1>3. QED  BY <1>1, <1>2 DEF TypeOK

\* Once a broadcast is due somebody is about to make it, until it is made.
LEMMA AnnouncedStep ==
  IInv /\ ChangesAnnounced /\ [Next]_vars => ChangesAnnounced'
<1> SUFFICES ASSUME IInv, ChangesAnnounced, [Next]_vars, stale'
             PROVE  stopping' \/ \E j \in Sessions : wpc'[j] \in {"cleanup", "join", "notify"}
  BY DEF ChangesAnnounced
<1> DEFINE Due == {"cleanup", "join", "notify"}
<1>1. TypeOK
  BY DEF IInv
<1>2. stale => stopping \/ \E j \in Sessions : wpc[j] \in Due
  BY DEF ChangesAnnounced
<1>3. CASE Command
  BY <1>2, <1>3 DEF Command, StartFails, StartSucceeds, StopBegins, StopFailsOnProxy, StopEnds,
                    LogoutBegins, LogoutEnds, DialBegins, DialEnds, goroutines
<1>4. ASSUME NEW k \in Sessions, React(k)
      PROVE  \E j \in Sessions : wpc'[j] \in Due
  <2>1. CASE node' # node
    BY <1>1, <1>4, <2>1, ReactReports
  <2>2. CASE node' = node
    <3>1. stale /\ ~stopping
      BY <1>4, <2>2 DEF React
    <3>2. PICK j \in Sessions : wpc[j] \in Due
      BY <1>2, <3>1
    <3>3. j # k
      BY <1>4, <3>2 DEF React
    <3>4. wpc'[j] = wpc[j]
      BY <1>1, <1>4, <3>3 DEF React, TypeOK
    <3>5. QED  BY <3>2, <3>4
  <2>3. QED  BY <2>1, <2>2
<1>5. ASSUME NEW k \in Sessions, WatcherStep(k), ~React(k)
      PROVE  stopping' \/ \E j \in Sessions : wpc'[j] \in Due
  <2>1. stale /\ stopping' = stopping
    BY <1>5 DEF WatcherStep, Receive, WatcherStops, WatcherFails, Exit, ReactIgnored,
                CleanupCancels, CleanupEnds, NotifyChange
  <2>2. \A j \in Sessions : wpc[j] \in Due => wpc'[j] \in Due
    BY <1>1, <1>5 DEF WatcherStep, Receive, WatcherStops, WatcherFails, Exit, ReactIgnored,
                CleanupCancels, CleanupEnds, NotifyChange, TypeOK
  <2>3. QED  BY <1>2, <2>1, <2>2
<1>6. CASE (\E k \in Sessions : ProxyDies(k)) \/ OthersChange \/ UNCHANGED vars
  <2>1. UNCHANGED <<stale, stopping, wpc>>
    BY <1>6 DEF ProxyDies, OthersChange, vars, goroutines
  <2>2. QED  BY <1>2, <2>1
<1>7. QED  BY <1>3, <1>4, <1>5, <1>6 DEF Next

\* No change of what the dashboard shows goes without a later broadcast.
THEOREM NothingUnannounced == Spec => []ChangesAnnounced
<1>1. Init => ChangesAnnounced
  BY DEF Init, ChangesAnnounced
<1>2. QED  BY <1>1, Invariant, AnnouncedStep, PTL DEF Spec

=============================================================================
