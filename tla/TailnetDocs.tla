---------------------------- MODULE TailnetDocs ----------------------------
(***************************************************************************)
(* What the comments and the documentation say of a tailnet and the code   *)
(* does not do.  Each statement is refuted by a run of its own.            *)
(***************************************************************************)
EXTENDS Tailnet

\* "A duplicate claim is fatal: disable the tailnet and keep it in an
\* unrecoverable error state until the user deletes/recreates it" (tailnet.go).
DuplicateClaimIsFatal == terminalError # None => currentState = HasTerminalErrorState

\* An AlreadyClaimedError says that its suffix "is already claimed by another
\* tailnet" (suffix_registry.go).
ClaimedByAnother ==
  [][terminalError' # terminalError => terminalError' \in others]_vars

\* "Close stops the watcher and waits for the goroutine to exit" (watcher.go):
\* that goroutine does not itself wait for Close or for the caller of Close.
CloseCanWait ==
  /\ stopping => watcher = None \/ wpc[watcher] # "react"
  /\ \A k \in Sessions : wpc[k] = "join" => cleanup[k].watcher # k

=============================================================================
