------------------------------- MODULE States -------------------------------
(***************************************************************************)
(* The states of a tailnet (internal/ts/state.go), known to the state      *)
(* machine and to the dashboard.                                           *)
(***************************************************************************)

UserEnabled           == "enabled"
UserDisabled          == "disabled"
ConnectedState        == "ConnectedState"
HasTerminalErrorState == "HasTerminalErrorState"
LoggingOutState       == "LoggingOutState"
NeedsLoginState       == "NeedsLoginState"
NeedsMachineAuthState == "NeedsMachineAuthState"
StartedState          == "StartedState"
StoppedState          == "StoppedState"

\* The states in which a session is under way.
SessionStates ==
  {ConnectedState, StartedState, NeedsLoginState, NeedsMachineAuthState}

State == SessionStates \cup {HasTerminalErrorState, LoggingOutState, StoppedState}

UserState == {UserEnabled, UserDisabled}
=============================================================================
