------------------------------ MODULE Registry ------------------------------
(***************************************************************************)
(* The registry of tailnets (internal/registry): the entries in memory,    *)
(* the file they are saved to, and the operations that change both while   *)
(* they hold Registry.mu.                                                  *)
(*                                                                         *)
(* Every operation ends in saveLocked, which truncates the file and then   *)
(* writes it: a crash can fall between the two, and either can fail.  The  *)
(* lock is held from the change of the entries to the end of the save;     *)
(* readers (List, Get, HasUnconfiguredTailnets) come before or after.      *)
(***************************************************************************)
EXTENDS Naturals

CONSTANTS
  MaxID,    \* BOUND: the largest ID given out
  Suffixes, \* MagicDNS suffixes
  Requests, \* BOUND: requests to add a tailnet that are handled at the same time
  None      \* no entry, no suffix

\* A PersistedTailnet without what no operation looks at; a terminal error is
\* there or not.
Entry == [enabled : BOOLEAN, suffix : Suffixes \cup {None}, failed : BOOLEAN]

ID == 1 .. MaxID

\* The operations that save, and the tailnet each is about.
Operations == {"claim", "user", "error", "add", "delete"}
Holder     == [op : Operations, id : ID]

ASSUME RegistryAssumption ==
  /\ MaxID \in Nat
  /\ None \notin Suffixes /\ None \notin Entry /\ None \notin Holder

VARIABLES
  up,        \* the process runs and has loaded the registry
  tailnets,  \* the entries in memory
  nextID,
  fileState, \* "missing", "garbled" (truncated or half written) or "whole"
  file,      \* the entries in the file when it is whole
  phase,     \* what the save under way does next, "idle" if mu is free
  holder,    \* the operation that saves, and the tailnet it is about
  claimed,   \* claimedMagicDNSSuffix of each Tailnet object
  errors,    \* what setTerminalErrorLocked of each has yet to report
  checked    \* requests that found no unconfigured tailnet and will add one

memory == <<tailnets, nextID, claimed, errors, checked>>
disk   == <<fileState, file>>
vars   == <<up, memory, disk, phase, holder>>

Entries     == [ID -> Entry \cup {None}]
NoEntries   == [i \in ID |-> None]
Existing(t) == {i \in ID : t[i] # None}

\* Every variable holds a value of its type; what is not in use is empty.
TypeOK ==
  /\ up \in BOOLEAN
  /\ tailnets \in Entries
  /\ nextID \in 1 .. (MaxID + 1)
  /\ fileState \in {"missing", "garbled", "whole"}
  /\ file \in Entries
  /\ fileState # "whole" => file = NoEntries
  /\ phase \in {"idle", "create", "encode"}
  /\ holder \in Holder \cup {None}
  /\ (phase = "idle") <=> (holder = None)
  /\ claimed \in [ID -> Suffixes \cup {None}]
  /\ errors \in [ID -> {"none", "error", "disable"}]
  /\ checked \subseteq Requests

\* The process has yet to start for the first time.
Init ==
  /\ up = FALSE
  /\ tailnets = NoEntries
  /\ nextID = 1
  /\ fileState = "missing" /\ file = NoEntries
  /\ phase = "idle" /\ holder = None
  /\ claimed = [i \in ID |-> None]
  /\ errors = [i \in ID |-> "none"]
  /\ checked = {}

-----------------------------------------------------------------------------
(* Start and crash of the process. *)

\* Mutant: an ID is given out again.
LastID(t, n) == \A i \in Existing(t) : i <= n

\* n is the first ID after those of t.
FirstIDAfter(t, n) ==
  /\ \A i \in Existing(t) : i < n
  /\ n = 1 \/ n - 1 \in Existing(t)

\* Mutant: a tailnet made from an entry does not know its claim.
LoadWithoutClaims ==
  /\ ~up
  /\ fileState # "garbled"
  /\ up' = TRUE
  /\ tailnets' = file
  /\ nextID' \in {n \in 1 .. (MaxID + 1) : FirstIDAfter(file, n)}
  /\ UNCHANGED <<disk, phase, holder, claimed, errors, checked>>

\* Load.  A garbled file is an error, with which the process exits again.
Load ==
  /\ ~up
  /\ fileState # "garbled"
  /\ up' = TRUE
  /\ tailnets' = file
  /\ nextID' \in {n \in 1 .. (MaxID + 1) : FirstIDAfter(file, n)}
  /\ claimed' = [i \in ID |-> IF file[i] = None THEN None ELSE file[i].suffix]
  /\ UNCHANGED <<disk, phase, holder, errors, checked>>

\* The process dies, perhaps in the middle of a save; what is in memory is lost.
Crash ==
  /\ up
  /\ up' = FALSE
  /\ tailnets' = NoEntries /\ nextID' = 1
  /\ phase' = "idle" /\ holder' = None
  /\ claimed' = [i \in ID |-> None]
  /\ errors' = [i \in ID |-> "none"]
  /\ checked' = {}
  /\ UNCHANGED disk

-----------------------------------------------------------------------------
(* saveLocked. *)

\* mu is free.
Unlocked == up /\ phase = "idle"

\* The operation takes mu and is about to save.
Lock(op, i) ==
  /\ Unlocked
  /\ phase' = "create"
  /\ holder' = [op |-> op, id |-> i]

\* setTerminalErrorLocked goes on to disable tailnet i, unless it is disabled.
AfterError(i) ==
  [errors EXCEPT ![i] = IF tailnets[i].enabled THEN "disable" ELSE "none"]

\* Mutants: a failed Add leaves its entry; a claim counts before it is saved.
EndsWithoutRollback(saved) ==
  /\ phase' = "idle" /\ holder' = None
  /\ claimed' = IF holder.op = "claim" /\ saved
               THEN [claimed EXCEPT ![holder.id] = tailnets[holder.id].suffix] ELSE claimed
  /\ errors' = IF holder.op = "error" THEN AfterError(holder.id) ELSE errors
  /\ UNCHANGED tailnets

EndsClaimAnyway(saved) ==
  /\ phase' = "idle" /\ holder' = None
  /\ claimed' = IF holder.op = "claim"
               THEN [claimed EXCEPT ![holder.id] = tailnets[holder.id].suffix] ELSE claimed
  /\ errors' = IF holder.op = "error" THEN AfterError(holder.id) ELSE errors
  /\ tailnets' = IF holder.op = "add" /\ ~saved
                THEN [tailnets EXCEPT ![holder.id] = None] ELSE tailnets

(***************************************************************************)
(* The operation learns whether its entries were saved and releases mu.    *)
(* Claim reports a failure, and only a reported success makes the tailnet  *)
(* take the suffix for its own; Add takes its entry back; the callbacks    *)
(* and Delete carry on.                                                    *)
(***************************************************************************)
Ends(saved) ==
  /\ phase' = "idle" /\ holder' = None
  /\ claimed' = IF holder.op = "claim" /\ saved
               THEN [claimed EXCEPT ![holder.id] = tailnets[holder.id].suffix] ELSE claimed
  /\ errors' = IF holder.op = "error" THEN AfterError(holder.id) ELSE errors
  /\ tailnets' = IF holder.op = "add" /\ ~saved
                THEN [tailnets EXCEPT ![holder.id] = None] ELSE tailnets

\* Mutant: the file is overwritten in place.
OpenInPlace ==
  /\ phase = "create"
  /\ fileState' = "garbled" /\ file' = file
  /\ phase' = "encode"
  /\ UNCHANGED <<up, memory, holder>>

\* os.Create truncates the file ...
Truncate ==
  /\ phase = "create"
  /\ fileState' = "garbled" /\ file' = NoEntries
  /\ phase' = "encode"
  /\ UNCHANGED <<up, memory, holder>>

\* ... or fails, as MkdirAll may, and leaves it alone.
CreateFails ==
  /\ phase = "create"
  /\ Ends(FALSE)
  /\ UNCHANGED <<up, disk, nextID, checked>>

\* All entries are written at once ...
Write ==
  /\ phase = "encode"
  /\ fileState' = "whole" /\ file' = tailnets
  /\ Ends(TRUE)
  /\ UNCHANGED <<up, nextID, checked>>

\* ... or not, or in part.
WriteFails ==
  /\ phase = "encode"
  /\ Ends(FALSE)
  /\ UNCHANGED <<up, disk, nextID, checked>>

-----------------------------------------------------------------------------
(* Operations on one tailnet.  One that was deleted may still call Claim   *)
(* and the callbacks, which then change nothing and are no steps.          *)

\* Mutant: only the tailnet's own entry is looked at.
OwnSuffix(i, s) == tailnets[i].suffix = s

\* Some entry, perhaps i's own, has the suffix s.
Taken(i, s) == \E j \in Existing(tailnets) : tailnets[j].suffix = s

\* Tailnet i, which has no suffix yet, claims s.
Claim(i, s) ==
  /\ i \in Existing(tailnets)
  /\ claimed[i] = None /\ errors[i] = "none"
  /\ ~Taken(i, s)
  /\ Lock("claim", i)
  /\ tailnets' = [tailnets EXCEPT ![i].suffix = s]
  /\ UNCHANGED <<up, nextID, disk, claimed, errors, checked>>

\* The suffix is taken: tailnet i will report its terminal error, unless that is
\* the error it has already.
ClaimRefused(i, s) ==
  /\ Unlocked
  /\ i \in Existing(tailnets)
  /\ claimed[i] = None /\ errors[i] = "none"
  /\ Taken(i, s)
  /\ \/ errors' = [errors EXCEPT ![i] = "error"]
     \/ tailnets[i].failed /\ errors' = AfterError(i)
  /\ UNCHANGED <<up, tailnets, nextID, disk, phase, holder, claimed, checked>>

\* terminalErrorChangeCallback.
RecordError(i) ==
  /\ i \in Existing(tailnets)
  /\ errors[i] = "error"
  /\ Lock("error", i)
  /\ tailnets' = [tailnets EXCEPT ![i].failed = TRUE]
  /\ UNCHANGED <<up, nextID, disk, claimed, errors, checked>>

\* userStateChangeCallback, called by Start, Stop and Logout, and at the end of
\* setTerminalErrorLocked.
RecordUserState(i, enabled) ==
  /\ i \in Existing(tailnets)
  /\ \/ errors[i] = "none"
     \/ errors[i] = "disable" /\ ~enabled
  /\ Lock("user", i)
  /\ tailnets' = [tailnets EXCEPT ![i].enabled = enabled]
  /\ errors' = [errors EXCEPT ![i] = "none"]
  /\ UNCHANGED <<up, nextID, disk, claimed, checked>>

\* Delete; nothing but the entry tells the tailnet that it is gone.
Delete(i) ==
  /\ i \in Existing(tailnets)
  /\ Lock("delete", i)
  /\ tailnets' = [tailnets EXCEPT ![i] = None]
  /\ UNCHANGED <<up, nextID, disk, claimed, errors, checked>>

-----------------------------------------------------------------------------
(* Adding a tailnet: addTailnetHandler checks under one lock and adds      *)
(* under another.                                                          *)

HasUnconfiguredTailnets == \E i \in Existing(tailnets) : tailnets[i].suffix = None

CheckConfigured(r) ==
  /\ Unlocked
  /\ r \notin checked
  /\ ~HasUnconfiguredTailnets
  /\ checked' = checked \cup {r}
  /\ UNCHANGED <<up, tailnets, nextID, disk, phase, holder, claimed, errors>>

Add(r) ==
  /\ r \in checked
  /\ nextID <= MaxID
  /\ Lock("add", nextID)
  /\ tailnets' = [tailnets EXCEPT ![nextID] =
       [enabled |-> FALSE, suffix |-> None, failed |-> FALSE]]
  /\ nextID' = nextID + 1
  /\ checked' = checked \ {r}
  /\ UNCHANGED <<up, disk, claimed, errors>>

\* There is no port to be had; the ID is used up all the same.
AddFails(r) ==
  /\ Unlocked
  /\ r \in checked
  /\ nextID <= MaxID
  /\ nextID' = nextID + 1
  /\ checked' = checked \ {r}
  /\ UNCHANGED <<up, tailnets, disk, phase, holder, claimed, errors>>

Save == Truncate \/ CreateFails \/ Write \/ WriteFails

Next ==
  \/ Load \/ Crash \/ Save
  \/ \E i \in ID :
       \/ \E s \in Suffixes : Claim(i, s) \/ ClaimRefused(i, s)
       \/ RecordError(i)
       \/ \E enabled \in BOOLEAN : RecordUserState(i, enabled)
       \/ Delete(i)
  \/ \E r \in Requests : CheckConfigured(r) \/ Add(r) \/ AddFails(r)

Spec == Init /\ [][Next]_vars

-----------------------------------------------------------------------------
(* Properties. *)

\* Two different entries of t never have the same suffix.
Unique(t) ==
  \A i, j \in Existing(t) : t[i].suffix = t[j].suffix /\ t[i].suffix # None => i = j

\* A suffix belongs to one entry only, in memory and in the file, whatever
\* claims race each other, fail to be saved or come back with a restart.
SuffixUnique == Unique(tailnets) /\ Unique(file)

\* The suffix a tailnet routes by is that of its entry, and is in every whole
\* file: a claim that was granted is not lost by a restart or by a later save.
ClaimDurable ==
  \A i \in Existing(tailnets) : claimed[i] # None =>
    /\ tailnets[i].suffix = claimed[i]
    /\ fileState = "whole" => file[i] # None /\ file[i].suffix = claimed[i]

\* A tailnet that is there for good is in every whole file: an Add that could
\* not be saved is taken back, and no later save leaves an entry out.
EntryDurable ==
  fileState = "whole" =>
    \A i \in Existing(tailnets) : file[i] # None \/ holder = [op |-> "add", id |-> i]

\* The next ID is no ID in memory or in the file, whichever of them is ahead:
\* Add overwrites no entry, and a file that Delete could not save is not taken
\* for the new tailnet's.
NextIDFresh == up => \A i \in Existing(tailnets) \cup Existing(file) : i < nextID

-----------------------------------------------------------------------------
(* The promise of the registry. *)

\* The suffixes in the entries e.
SuffixOf(e) == [i \in ID |-> IF e[i] = None THEN None ELSE e[i].suffix]

\* While the process runs, the entries in memory and the suffixes the tailnets
\* believe to have; while it is down, what it will find in the file.
Registered == IF up THEN Existing(tailnets) ELSE Existing(file)

Granted ==
  IF up THEN [i \in ID |-> IF tailnets[i] = None THEN None ELSE claimed[i]]
        ELSE SuffixOf(file)

Process == IF up THEN "up" ELSE IF fileState = "garbled" THEN "unreadable" ELSE "down"

C == INSTANCE Claims WITH process <- Process, registered <- Registered, granted <- Granted

\* A suffix that was granted stays with its tailnet, and with it alone, as long as
\* the tailnet is there, and the tailnet until it is deleted: through saves that
\* fail, crashes and starts, but for a crash that leaves a half-written file, after
\* which nothing happens any more.
KeepsClaims == C!Spec

=============================================================================
