-------------------------- MODULE LifecycleProofs --------------------------
(***************************************************************************)
(* Proof that Tailnet implements Lifecycle: every step of the tailnet is a *)
(* step of its lifecycle or leaves mode, wish and suffix alone.  The       *)
(* invariant of TailnetProofs says that a Stop waits in a session state    *)
(* only and that a Logout under way is what LoggingOutState means.         *)
(***************************************************************************)
EXTENDS TailnetProofs

\* The state and the Stop under way decide the mode.
LEMMA Modes ==
  ASSUME currentState \in State
  PROVE  /\ Mode = "off" <=> currentState = StoppedState
         /\ Mode = "leaving" <=> currentState = LoggingOutState
         /\ Mode = "failed" <=> currentState = HasTerminalErrorState
         /\ Mode = "on" <=> currentState \in SessionStates /\ ~stopping
         /\ Mode = "stopping" <=> currentState \in SessionStates /\ stopping
BY DEF Mode, State, SessionStates, UserEnabled, UserDisabled, ConnectedState,
       HasTerminalErrorState, LoggingOutState, NeedsLoginState, NeedsMachineAuthState,
       StartedState, StoppedState

\* A tailnet is made switched off or failed.
LEMMA LifecycleInit == Init => L!Init
<1> SUFFICES ASSUME Init PROVE L!Init
  OBVIOUS
<1>1. TypeOK
  BY TypeInit
<1>2. Mode \in {"off", "failed"} /\ (Mode = "failed" => userState = UserDisabled)
  BY Modes DEF Init, Mode, UserDisabled, HasTerminalErrorState, StoppedState, LoggingOutState
<1>3. QED
  BY <1>1, <1>2 DEF L!Init, TypeOK, L!UserState, L!UserEnabled, L!UserDisabled, UserEnabled,
                    UserDisabled

\* A notification claims, is refused, or does not show.
LEMMA LifecycleReact ==
  ASSUME IInv, NEW k \in Sessions, React(k)
  PROVE  [L!Next]_L!vars
<1> DEFINE s == ipn[k]
<1>1. TypeOK /\ TypeOK' /\ s \in IPNState
  BY TypeReact DEF IInv, TypeOK
<1>2. PICK outcome \in ClaimOutcomes(s) :
        Claim(outcome, s) /\ currentState' = NextState(outcome, s)
  BY DEF React
<1>3. /\ currentState \in SessionStates /\ ~stopping /\ ~stopping'
      /\ currentState' \in SessionStates \cup {HasTerminalErrorState}
      /\ currentState' = HasTerminalErrorState => outcome = "taken"
  BY <1>1, <1>2, NextStateType DEF React, Writable
<1>4. /\ Mode = "on" /\ Mode' \in {"on", "failed"}
      /\ Mode' = "failed" => outcome = "taken"
  BY <1>1, <1>3, Modes DEF TypeOK, Mode, SessionStates, ConnectedState, HasTerminalErrorState,
     LoggingOutState, NeedsLoginState, NeedsMachineAuthState, StartedState, StoppedState
<1>5. /\ outcome \in {"skipped", "taken", "claimed", "notSaved"}
      /\ outcome # "skipped" => claimed = None /\ s.suffix \in Suffixes
  BY <1>1, <1>2 DEF ClaimOutcomes, IPNState
<1>6. CASE outcome = "taken"
  <2>1. userState' = UserDisabled /\ claimed' = claimed
    BY <1>2, <1>6 DEF Claim
  <2>2. L!Refuse
    BY <1>4, <1>5, <1>6, <2>1 DEF L!Refuse, L!UserDisabled, UserDisabled
  <2>3. QED  BY <2>2 DEF L!Next
<1>7. CASE outcome = "claimed"
  <2>1. claimed' = s.suffix /\ userState' = userState
    BY <1>2, <1>7 DEF Claim
  <2>2. L!Claim
    BY <1>4, <1>5, <1>7, <2>1 DEF L!Claim
  <2>3. QED  BY <2>2 DEF L!Next
<1>8. CASE outcome \in {"skipped", "notSaved"}
  BY <1>2, <1>4, <1>8 DEF Claim, L!vars
<1>9. QED  BY <1>5, <1>6, <1>7, <1>8

\* Every step is one of the lifecycle, or does not show.
LEMMA LifecycleStep == IInv /\ [Next]_vars => [L!Next]_L!vars
<1> SUFFICES ASSUME IInv, [Next]_vars PROVE [L!Next]_L!vars
  OBVIOUS
<1>1. IInv' /\ TypeOK /\ TypeOK' /\ CommandAlone
  BY IInvStep DEF IInv
<1>2. currentState \in State /\ currentState' \in State
  BY <1>1 DEF TypeOK
<1> DEFINE Hidden == UNCHANGED <<currentState, stopping, userState, claimed>>
<1>3. Hidden => UNCHANGED L!vars
  BY DEF L!vars, Mode
<1>4. ASSUME StartFails \/ \E k \in Sessions : StartSucceeds(k) PROVE L!SwitchOn
  <2>1. /\ currentState = StoppedState /\ currentState' \in {StoppedState, StartedState}
        /\ ~stopping /\ ~stopping' /\ userState' = UserEnabled /\ claimed' = claimed
    BY <1>4 DEF StartFails, StartSucceeds, SetUserState, Writable
  <2>2. Mode = "off" /\ Mode' \in {"off", "on"}
    BY <2>1 DEF Mode, StoppedState, StartedState, LoggingOutState, HasTerminalErrorState
  <2>3. QED  BY <2>1, <2>2 DEF L!SwitchOn, L!UserEnabled, UserEnabled
<1>5. ASSUME StopBegins \/ StopFailsOnProxy PROVE L!SwitchOff
  <2>1. /\ currentState \in SessionStates /\ ~stopping
        /\ (currentState' = currentState /\ stopping') \/ currentState' = StoppedState
        /\ userState' = UserDisabled /\ claimed' = claimed
    BY <1>5 DEF StopBegins, StopFailsOnProxy, SetUserState, Writable, StoppableStates
  <2>2. Mode = "on" /\ Mode' \in {"stopping", "off"}
    BY <2>1 DEF Mode, SessionStates, ConnectedState, HasTerminalErrorState, LoggingOutState,
       NeedsLoginState, NeedsMachineAuthState, StartedState, StoppedState
  <2>3. QED  BY <2>1, <2>2 DEF L!SwitchOff, L!UserDisabled, UserDisabled
<1>6. ASSUME StopEnds PROVE L!Stopped
  <2>1. /\ currentState \in SessionStates /\ stopping /\ currentState' = StoppedState
        /\ userState' = userState /\ claimed' = claimed
    BY <1>1, <1>6 DEF StopEnds, CommandAlone
  <2>2. Mode = "stopping" /\ Mode' = "off"
    BY <2>1 DEF Mode, SessionStates, ConnectedState, HasTerminalErrorState, LoggingOutState,
       NeedsLoginState, NeedsMachineAuthState, StartedState, StoppedState
  <2>3. QED  BY <2>1, <2>2 DEF L!Stopped
<1>7. ASSUME LogoutBegins PROVE L!Leave
  <2>1. /\ currentState \in SessionStates \cup {StoppedState} /\ ~stopping
        /\ currentState' = LoggingOutState
        /\ userState' = UserDisabled /\ claimed' = claimed
    BY <1>7 DEF LogoutBegins, SetUserState, Writable, LogoutStates, SessionStates
  <2>2. Mode \in {"on", "off"} /\ Mode' = "leaving"
    BY <2>1 DEF Mode, SessionStates, ConnectedState, HasTerminalErrorState, LoggingOutState,
       NeedsLoginState, NeedsMachineAuthState, StartedState, StoppedState
  <2>3. QED  BY <2>1, <2>2 DEF L!Leave, L!UserDisabled, UserDisabled
<1>8. ASSUME LogoutEnds PROVE L!Left
  <2>1. /\ currentState = LoggingOutState /\ currentState' = StoppedState
        /\ userState' = userState /\ claimed' = claimed
    BY <1>1, <1>8 DEF LogoutEnds, CommandAlone
  <2>2. Mode = "leaving" /\ Mode' = "off"
    BY <2>1 DEF Mode, HasTerminalErrorState, LoggingOutState, StoppedState
  <2>3. QED  BY <2>1, <2>2 DEF L!Left
<1>9. ASSUME DialBegins \/ DialEnds PROVE Hidden
  BY <1>9 DEF DialBegins, DialEnds, node
<1>10. ASSUME NEW k \in Sessions, WatcherStep(k), ~React(k) PROVE Hidden
  BY <1>10 DEF WatcherStep, Receive, WatcherStops, WatcherFails, Exit, ReactIgnored,
               CleanupCancels, CleanupEnds, NotifyChange, node
<1>11. ASSUME (\E k \in Sessions : ProxyDies(k)) \/ OthersChange \/ UNCHANGED vars PROVE Hidden
  BY <1>11 DEF ProxyDies, OthersChange, vars, node
<1>12. CASE Command
  BY <1>3, <1>4, <1>5, <1>6, <1>7, <1>8, <1>9, <1>12 DEF Command, L!Next
<1>13. ASSUME NEW k \in Sessions, WatcherStep(k) PROVE [L!Next]_L!vars
  BY <1>3, <1>10, <1>13, LifecycleReact
<1>14. QED  BY <1>3, <1>11, <1>12, <1>13 DEF Next

\* A tailnet does what its lifecycle says and nothing else.
THEOREM ImplementsLifecycle == Spec => FollowsLifecycle
  BY Invariant, LifecycleInit, LifecycleStep, PTL DEF Spec, FollowsLifecycle, L!Spec

=============================================================================
