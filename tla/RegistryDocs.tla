---------------------------- MODULE RegistryDocs ----------------------------
(***************************************************************************)
(* What the comments and the documentation say of the registry and the     *)
(* code does not do.  Each statement is refuted by a run of its own.       *)
(***************************************************************************)
EXTENDS Registry

\* "Runs as a background service on macOS (auto-starts at login, auto-restarts
\* on crash)" (README.md): a process that is down can start again.
CanRestart == ~up => fileState # "garbled"
=============================================================================
