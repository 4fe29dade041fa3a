----------------------------- MODULE Dashboard -----------------------------
(***************************************************************************)
(* The switch on the card of a tailnet on the dashboard (internal/ui), made *)
(* of a snapshot of the tailnet with its state and its user state.         *)
(***************************************************************************)
EXTENDS States

\* Mutant: a tailnet that is logging out can be switched.
OnlyErrorDisables(card) == card.state = HasTerminalErrorState

IsToggleOn(card)       == card.user = UserEnabled
IsToggleDisabled(card) == card.state \in {HasTerminalErrorState, LoggingOutState}
ToggleAction(card)     == IF IsToggleOn(card) THEN "stop" ELSE "start"
=============================================================================
