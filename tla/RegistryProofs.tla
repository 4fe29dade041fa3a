--------------------------- MODULE RegistryProofs ---------------------------
(***************************************************************************)
(* Proofs about Registry: its type invariant and its safety invariants,    *)
(* for all numbers of tailnets, suffixes and requests, across failed saves *)
(* and crashes.                                                            *)
(***************************************************************************)
EXTENDS Registry, TLAPS

-----------------------------------------------------------------------------
(* Type correctness. *)

\* The entry that a save under way is about is there.
HolderExists ==
  holder # None /\ holder.op \in {"claim", "error"} => holder.id \in Existing(tailnets)

\* Changing a field of an entry that exists gives entries again.
LEMMA EntryChange ==
  ASSUME TypeOK, NEW i \in Existing(tailnets)
  PROVE  /\ tailnets[i] \in Entry
         /\ \A s \in Suffixes : [tailnets EXCEPT ![i].suffix = s] \in Entries
         /\ \A b \in BOOLEAN : [tailnets EXCEPT ![i].enabled = b] \in Entries
         /\ [tailnets EXCEPT ![i].failed = TRUE] \in Entries
<1>1. tailnets[i] \in Entry /\ i \in ID
  BY DEF TypeOK, Entries, Existing
<1>2. /\ \A s \in Suffixes : [tailnets[i] EXCEPT !.suffix = s] \in Entry
      /\ \A b \in BOOLEAN : [tailnets[i] EXCEPT !.enabled = b] \in Entry
      /\ [tailnets[i] EXCEPT !.failed = TRUE] \in Entry
  BY <1>1 DEF Entry
<1>3. QED  BY <1>1, <1>2 DEF TypeOK, Entries

\* Taking the lock for an operation gives the save a holder.
LEMMA LockType ==
  ASSUME NEW op \in Operations, NEW i \in ID, Lock(op, i)
  PROVE  /\ phase' = "create"
         /\ holder' \in Holder /\ holder' # None
         /\ holder'.op = op /\ holder'.id = i
BY RegistryAssumption DEF Lock, Holder

\* However a save ends, it leaves values of their types.
LEMMA EndsType ==
  ASSUME TypeOK, HolderExists, phase # "idle", NEW saved \in BOOLEAN, Ends(saved)
  PROVE  /\ tailnets' \in Entries /\ phase' = "idle" /\ holder' = None
         /\ claimed' \in [ID -> Suffixes \cup {None}]
         /\ errors' \in [ID -> {"none", "error", "disable"}]
<1>1. holder \in [op : Operations, id : ID]
  BY DEF TypeOK, Holder
<1>2. holder.op = "claim" => tailnets[holder.id].suffix \in Suffixes \cup {None}
  BY <1>1, EntryChange, RegistryAssumption DEF HolderExists, TypeOK, Entry
<1>3. claimed' \in [ID -> Suffixes \cup {None}]
  BY <1>1, <1>2 DEF Ends, TypeOK
<1>4. errors' \in [ID -> {"none", "error", "disable"}]
  BY <1>1 DEF Ends, TypeOK, AfterError
<1>5. tailnets' \in Entries
  BY <1>1 DEF Ends, TypeOK, Entries
<1>6. QED  BY <1>3, <1>4, <1>5 DEF Ends

\* The initial values have their types.
LEMMA TypeInit == Init => TypeOK
<1>1. NoEntries \in Entries
  BY DEF NoEntries, Entries
<1>2. 1 \in 1 .. (MaxID + 1)
  BY RegistryAssumption
<1>3. QED  BY <1>1, <1>2 DEF Init, TypeOK

\* Every step keeps the types.
LEMMA TypeStep == TypeOK /\ HolderExists /\ [Next]_vars => TypeOK'
<1> SUFFICES ASSUME TypeOK, HolderExists, [Next]_vars PROVE TypeOK'
  OBVIOUS
<1> USE DEF disk
<1>0. NoEntries \in Entries
  BY DEF NoEntries, Entries
<1>1. CASE Load
  <2>1. claimed' \in [ID -> Suffixes \cup {None}]
    BY <1>1 DEF Load, TypeOK, Entries, Entry
  <2>2. QED  BY <1>1, <2>1 DEF Load, TypeOK
<1>2. CASE Crash
  <2>1. nextID' \in 1 .. (MaxID + 1)
    BY <1>2, RegistryAssumption DEF Crash
  <2>2. QED  BY <1>0, <1>2, <2>1 DEF Crash, TypeOK
<1>3. CASE Truncate
  BY <1>0, <1>3 DEF Truncate, memory, TypeOK
<1>4. CASE CreateFails
  BY <1>4, EndsType DEF CreateFails, TypeOK
<1>5. CASE Write
  <2>1. /\ tailnets \in Entries /\ tailnets' \in Entries /\ phase' = "idle" /\ holder' = None
        /\ claimed' \in [ID -> Suffixes \cup {None}]
        /\ errors' \in [ID -> {"none", "error", "disable"}]
    BY <1>5, EndsType DEF Write, TypeOK
  <2>2. QED  BY <1>5, <2>1 DEF Write, TypeOK
<1>6. CASE WriteFails
  BY <1>6, EndsType DEF WriteFails, TypeOK
<1>7. ASSUME NEW i \in ID, NEW s \in Suffixes, Claim(i, s) PROVE TypeOK'
  <2>1. tailnets' \in Entries
    BY <1>7, EntryChange DEF Claim
  <2>2. Lock("claim", i)
    BY <1>7 DEF Claim
  <2>3. QED  BY <1>7, <2>1, <2>2, LockType DEF Claim, Operations, TypeOK
<1>8. ASSUME NEW i \in ID, NEW s \in Suffixes, ClaimRefused(i, s) PROVE TypeOK'
  BY <1>8 DEF ClaimRefused, AfterError, TypeOK
<1>9. ASSUME NEW i \in ID, RecordError(i) PROVE TypeOK'
  <2>1. tailnets' \in Entries
    BY <1>9, EntryChange DEF RecordError
  <2>2. Lock("error", i)
    BY <1>9 DEF RecordError
  <2>3. QED  BY <1>9, <2>1, <2>2, LockType DEF RecordError, Operations, TypeOK
<1>10. ASSUME NEW i \in ID, NEW b \in BOOLEAN, RecordUserState(i, b) PROVE TypeOK'
  <2>1. tailnets' \in Entries
    BY <1>10, EntryChange DEF RecordUserState
  <2>2. Lock("user", i)
    BY <1>10 DEF RecordUserState
  <2>3. QED  BY <1>10, <2>1, <2>2, LockType DEF RecordUserState, Operations, TypeOK
<1>11. ASSUME NEW i \in ID, Delete(i) PROVE TypeOK'
  <2>1. tailnets' \in Entries
    BY <1>11 DEF Delete, TypeOK, Entries
  <2>2. Lock("delete", i)
    BY <1>11 DEF Delete
  <2>3. QED  BY <1>11, <2>1, <2>2, LockType DEF Delete, Operations, TypeOK
<1>12. ASSUME NEW r \in Requests, CheckConfigured(r) PROVE TypeOK'
  BY <1>12 DEF CheckConfigured, TypeOK
<1>13. ASSUME NEW r \in Requests, Add(r) PROVE TypeOK'
  <2>1. nextID \in ID /\ nextID + 1 \in 1 .. (MaxID + 1)
    BY <1>13, RegistryAssumption DEF Add, TypeOK, ID
  <2>2. tailnets' \in Entries
    BY <1>13, <2>1 DEF Add, TypeOK, Entries, Entry
  <2>3. Lock("add", nextID)
    BY <1>13 DEF Add
  <2>4. QED  BY <1>13, <2>1, <2>2, <2>3, LockType DEF Add, Operations, TypeOK
<1>14. ASSUME NEW r \in Requests, AddFails(r) PROVE TypeOK'
  <2>1. nextID + 1 \in 1 .. (MaxID + 1)
    BY <1>14, RegistryAssumption DEF AddFails, TypeOK
  <2>2. QED  BY <1>14, <2>1 DEF AddFails, TypeOK
<1>15. CASE UNCHANGED vars
  BY <1>15 DEF vars, memory, TypeOK
<1>16. QED
  BY <1>1, <1>2, <1>3, <1>4, <1>5, <1>6, <1>7, <1>8, <1>9, <1>10, <1>11, <1>12, <1>13, <1>14,
     <1>15 DEF Next, Save

-----------------------------------------------------------------------------
(***************************************************************************)
(* Safety.  To see that a claim and an entry are in every whole file one   *)
(* needs that a save under way has garbled the file before it writes, so   *)
(* that a save that fails there leaves no whole file behind, and that no   *)
(* ID from nextID on was ever claimed for: Add gives the new entry no      *)
(* suffix, which must not be that of a deleted tailnet's claim.            *)
(***************************************************************************)
SaveUnderWay ==
  /\ phase # "idle" => up
  /\ phase = "encode" => fileState = "garbled"
ClaimedKnown == \A i \in ID : claimed[i] # None => up /\ i < nextID

IInv ==
  /\ TypeOK /\ HolderExists /\ SaveUnderWay /\ ClaimedKnown
  /\ SuffixUnique /\ ClaimDurable /\ EntryDurable /\ NextIDFresh

Safe == HolderExists /\ SaveUnderWay /\ ClaimedKnown
          /\ SuffixUnique /\ ClaimDurable /\ EntryDurable /\ NextIDFresh

\* The registry starts in the invariant.
LEMMA IInvInit == Init => IInv
<1> SUFFICES ASSUME Init PROVE IInv
  OBVIOUS
<1>1. TypeOK
  BY TypeInit
<1>2. Existing(tailnets) = {} /\ Existing(file) = {}
  BY DEF Init, NoEntries, Existing
<1>3. QED
  BY <1>1, <1>2 DEF Init, IInv, HolderExists, SaveUnderWay, ClaimedKnown, SuffixUnique, Unique,
                    ClaimDurable, EntryDurable, NextIDFresh

\* An operation that changes entry i only, and takes away neither the suffix it
\* has nor gives it one that another has, keeps the invariant.
LEMMA SafeChange ==
  ASSUME IInv, TypeOK', NEW i \in Existing(tailnets), NEW op \in {"claim", "user", "error"},
         Lock(op, i),
         Existing(tailnets') = Existing(tailnets),
         \A j \in Existing(tailnets) \ {i} : tailnets'[j] = tailnets[j],
         \/ tailnets'[i].suffix = tailnets[i].suffix
         \/ /\ claimed[i] = None
            /\ \A j \in Existing(tailnets) : tailnets[j].suffix # tailnets'[i].suffix,
         UNCHANGED <<up, nextID, disk, claimed>>
  PROVE  Safe'
<1> USE DEF IInv, disk
<1>1. /\ up /\ phase = "idle" /\ phase' = "create" /\ holder'.id = i /\ holder = None
  BY DEF Lock, Unlocked, TypeOK
<1>2. HolderExists' /\ SaveUnderWay' /\ ClaimedKnown' /\ NextIDFresh'
  BY <1>1 DEF HolderExists, SaveUnderWay, ClaimedKnown, NextIDFresh
<1>3. SuffixUnique'
  BY DEF SuffixUnique, Unique
<1>4. ClaimDurable'
  BY DEF ClaimDurable
<1>5. EntryDurable'
  <2>1. \A j \in Existing(tailnets) : holder # [op |-> "add", id |-> j]
    BY <1>1, RegistryAssumption DEF Holder, Operations, Existing
  <2>2. QED  BY <2>1 DEF EntryDurable
<1>6. QED  BY <1>2, <1>3, <1>4, <1>5 DEF Safe

\* A save that fails keeps the invariant.
LEMMA SafeFailure ==
  ASSUME IInv, TypeOK', phase # "idle", Ends(FALSE), UNCHANGED <<up, disk, nextID, checked>>
  PROVE  Safe'
<1> USE DEF IInv, disk
<1>1. holder \in Holder /\ phase' = "idle" /\ holder' = None /\ claimed' = claimed
  BY DEF TypeOK, Ends
<1>2. /\ Existing(tailnets') \subseteq Existing(tailnets)
      /\ \A j \in Existing(tailnets') : tailnets'[j] = tailnets[j]
      /\ holder.op = "add" => holder.id \notin Existing(tailnets')
  BY <1>1 DEF Ends, Existing, TypeOK, Entries, Holder
<1>3. HolderExists' /\ SaveUnderWay' /\ ClaimedKnown' /\ NextIDFresh'
  BY <1>1, <1>2 DEF HolderExists, SaveUnderWay, ClaimedKnown, NextIDFresh
<1>4. SuffixUnique' /\ ClaimDurable'
  BY <1>1, <1>2 DEF SuffixUnique, Unique, ClaimDurable
<1>5. EntryDurable'
  <2>1. \A j \in Existing(tailnets') : holder # [op |-> "add", id |-> j]
    BY <1>2
  <2>2. QED  BY <1>2, <2>1 DEF EntryDurable
<1>6. QED  BY <1>3, <1>4, <1>5 DEF Safe

\* A save that succeeds keeps the invariant: a claim counts once it is written.
LEMMA SafeWrite ==
  ASSUME IInv, TypeOK', Write
  PROVE  Safe'
<1> USE DEF IInv
<1>1. /\ holder \in Holder /\ phase' = "idle" /\ holder' = None
      /\ tailnets' = tailnets /\ file' = tailnets /\ UNCHANGED <<up, nextID>>
  BY DEF Write, TypeOK, Ends
<1>2. /\ holder.op = "claim" => holder.id \in Existing(tailnets)
      /\ holder.op = "claim" => claimed' = [claimed EXCEPT ![holder.id] = tailnets[holder.id].suffix]
      /\ holder.op # "claim" => claimed' = claimed
  BY <1>1, RegistryAssumption DEF HolderExists, Write, Ends
<1>3. up
  BY DEF Write, SaveUnderWay
<1>4. HolderExists' /\ SaveUnderWay' /\ NextIDFresh' /\ SuffixUnique' /\ EntryDurable'
  BY <1>1 DEF HolderExists, SaveUnderWay, NextIDFresh, SuffixUnique, Unique, EntryDurable, Existing
<1>5. ClaimedKnown'
  BY <1>1, <1>2, <1>3 DEF ClaimedKnown, NextIDFresh, TypeOK
<1>6. ClaimDurable'
  BY <1>1, <1>2 DEF ClaimDurable, Existing, TypeOK
<1>7. QED  BY <1>4, <1>5, <1>6 DEF Safe

\* Every step keeps the invariant.
LEMMA IInvStep == IInv /\ [Next]_vars => IInv'
<1> SUFFICES ASSUME IInv, [Next]_vars PROVE IInv'
  OBVIOUS
<1>0. TypeOK' /\ (Safe' => IInv')
  BY TypeStep DEF IInv, Safe
<1> SUFFICES Safe'
  BY <1>0
<1> USE DEF IInv
<1>1. CASE Load
  <2>1. /\ up' /\ tailnets' = file /\ file' = file /\ phase' = phase /\ phase = "idle"
        /\ holder' = holder /\ holder = None /\ fileState' = fileState
        /\ claimed' = [i \in ID |-> IF file[i] = None THEN None ELSE file[i].suffix]
    BY <1>1 DEF Load, disk, SaveUnderWay, TypeOK
  <2>2. Existing(tailnets') = Existing(file)
    BY <2>1 DEF Existing
  <2>3. \A i \in Existing(file) : i < nextID'
    BY <1>1 DEF Load, FirstIDAfter
  <2>4. HolderExists' /\ SaveUnderWay' /\ NextIDFresh'
    BY <2>1, <2>2, <2>3 DEF HolderExists, SaveUnderWay, NextIDFresh
  <2>5. ClaimedKnown'
    BY <2>1, <2>3 DEF ClaimedKnown, Existing
  <2>6. SuffixUnique' /\ ClaimDurable' /\ EntryDurable'
    BY <2>1, <2>2 DEF SuffixUnique, Unique, ClaimDurable, EntryDurable, Existing
  <2>7. QED  BY <2>4, <2>5, <2>6 DEF Safe
<1>2. CASE Crash
  <2>1. /\ ~up' /\ phase' = "idle" /\ holder' = None /\ file' = file
        /\ claimed' = [i \in ID |-> None]
    BY <1>2 DEF Crash, disk
  <2>2. Existing(tailnets') = {}
    BY <1>2 DEF Crash, NoEntries, Existing
  <2>3. QED
    BY <2>1, <2>2 DEF Safe, HolderExists, SaveUnderWay, ClaimedKnown, SuffixUnique, Unique,
                      ClaimDurable, EntryDurable, NextIDFresh
<1>3. CASE Truncate
  <2>1. /\ phase = "create" /\ phase' = "encode" /\ fileState' = "garbled"
        /\ UNCHANGED <<up, tailnets, nextID, claimed, holder>>
    BY <1>3 DEF Truncate, memory
  <2>2. Existing(file') = {}
    BY <1>3 DEF Truncate, NoEntries, Existing
  <2>3. QED
    BY <2>1, <2>2 DEF Safe, HolderExists, SaveUnderWay, ClaimedKnown, SuffixUnique, Unique,
                      ClaimDurable, EntryDurable, NextIDFresh
<1>4. CASE CreateFails
  BY <1>0, <1>4, SafeFailure DEF CreateFails
<1>5. CASE Write
  BY <1>0, <1>5, SafeWrite
<1>6. CASE WriteFails
  BY <1>0, <1>6, SafeFailure DEF WriteFails
<1>7. ASSUME NEW i \in ID, NEW s \in Suffixes, Claim(i, s) PROVE Safe'
  <2>1. /\ i \in Existing(tailnets) /\ Lock("claim", i) /\ claimed[i] = None
        /\ tailnets' = [tailnets EXCEPT ![i].suffix = s]
        /\ \A j \in Existing(tailnets) : tailnets[j].suffix # s
        /\ UNCHANGED <<up, nextID, disk, claimed>>
    BY <1>7 DEF Claim, Taken
  <2>2. tailnets' \in Entries /\ tailnets[i] \in Entry
    BY <2>1, EntryChange
  <2>3. tailnets'[i].suffix = s /\ tailnets'[i] # None
    BY <2>1, <2>2, RegistryAssumption DEF Existing, TypeOK, Entries, Entry
  <2>4. \A j \in ID \ {i} : tailnets'[j] = tailnets[j]
    BY <2>1 DEF TypeOK, Entries
  <2>5. Existing(tailnets') = Existing(tailnets)
    BY <2>1, <2>3, <2>4 DEF Existing
  <2>6. QED
    BY <1>0, <2>1, <2>3, <2>4, <2>5, SafeChange DEF Existing
<1>8. ASSUME NEW i \in ID, NEW s \in Suffixes, ClaimRefused(i, s) PROVE Safe'
  <2>1. UNCHANGED <<up, tailnets, nextID, fileState, file, phase, holder, claimed>>
    BY <1>8 DEF ClaimRefused, disk
  <2>2. QED
    BY <2>1 DEF Safe, HolderExists, SaveUnderWay, ClaimedKnown, SuffixUnique, Unique,
                ClaimDurable, EntryDurable, NextIDFresh
<1>9. ASSUME NEW i \in ID, RecordError(i) PROVE Safe'
  <2>1. /\ i \in Existing(tailnets) /\ Lock("error", i)
        /\ tailnets' = [tailnets EXCEPT ![i].failed = TRUE]
        /\ UNCHANGED <<up, nextID, disk, claimed>>
    BY <1>9 DEF RecordError
  <2>2. tailnets' \in Entries /\ tailnets[i] \in Entry
    BY <2>1, EntryChange
  <2>3. tailnets'[i].suffix = tailnets[i].suffix /\ tailnets'[i] # None
    BY ZenonT(30), <2>1, <2>2, RegistryAssumption DEF Existing, TypeOK, Entries, Entry
  <2>4. \A j \in ID \ {i} : tailnets'[j] = tailnets[j]
    BY <2>1 DEF TypeOK, Entries
  <2>5. Existing(tailnets') = Existing(tailnets)
    BY <2>1, <2>3, <2>4 DEF Existing
  <2>6. QED
    BY <1>0, <2>1, <2>3, <2>4, <2>5, SafeChange DEF Existing
<1>10. ASSUME NEW i \in ID, NEW b \in BOOLEAN, RecordUserState(i, b) PROVE Safe'
  <2>1. /\ i \in Existing(tailnets) /\ Lock("user", i)
        /\ tailnets' = [tailnets EXCEPT ![i].enabled = b]
        /\ UNCHANGED <<up, nextID, disk, claimed>>
    BY <1>10 DEF RecordUserState
  <2>2. tailnets' \in Entries /\ tailnets[i] \in Entry
    BY <2>1, EntryChange
  <2>3. tailnets'[i].suffix = tailnets[i].suffix /\ tailnets'[i] # None
    BY <2>1, <2>2, RegistryAssumption DEF Existing, TypeOK, Entries, Entry
  <2>4. \A j \in ID \ {i} : tailnets'[j] = tailnets[j]
    BY <2>1 DEF TypeOK, Entries
  <2>5. Existing(tailnets') = Existing(tailnets)
    BY <2>1, <2>3, <2>4 DEF Existing
  <2>6. QED
    BY <1>0, <2>1, <2>3, <2>4, <2>5, SafeChange DEF Existing
<1>11. ASSUME NEW i \in ID, Delete(i) PROVE Safe'
  <2>1. /\ up /\ phase = "idle" /\ holder = None /\ phase' = "create"
        /\ holder'.op = "delete"
        /\ UNCHANGED <<up, nextID, fileState, file, claimed>>
    BY <1>11, LockType DEF Delete, Lock, Unlocked, disk, Operations, TypeOK
  <2>2. /\ Existing(tailnets') = Existing(tailnets) \ {i}
        /\ \A j \in Existing(tailnets') : tailnets'[j] = tailnets[j]
    BY <1>11 DEF Delete, Existing, TypeOK, Entries
  <2>3. HolderExists' /\ SaveUnderWay' /\ ClaimedKnown' /\ NextIDFresh'
    BY <2>1, <2>2 DEF HolderExists, SaveUnderWay, ClaimedKnown, NextIDFresh
  <2>4. SuffixUnique' /\ ClaimDurable'
    BY <2>1, <2>2 DEF SuffixUnique, Unique, ClaimDurable
  <2>5. EntryDurable'
    <3>1. \A j \in Existing(tailnets) : holder # [op |-> "add", id |-> j]
      BY <2>1, RegistryAssumption DEF Holder, Operations, Existing
    <3>2. QED  BY <2>1, <2>2, <3>1 DEF EntryDurable
  <2>6. QED  BY <2>3, <2>4, <2>5 DEF Safe
<1>12. ASSUME NEW r \in Requests, CheckConfigured(r) PROVE Safe'
  <2>1. UNCHANGED <<up, tailnets, nextID, fileState, file, phase, holder, claimed>>
    BY <1>12 DEF CheckConfigured, disk
  <2>2. QED
    BY <2>1 DEF Safe, HolderExists, SaveUnderWay, ClaimedKnown, SuffixUnique, Unique,
                ClaimDurable, EntryDurable, NextIDFresh
<1>13. ASSUME NEW r \in Requests, Add(r) PROVE Safe'
  <2>1. /\ up /\ phase = "idle" /\ holder = None /\ phase' = "create"
        /\ holder' = [op |-> "add", id |-> nextID] /\ nextID \in ID
        /\ UNCHANGED <<up, fileState, file, claimed>> /\ nextID' = nextID + 1
    BY <1>13 DEF Add, Lock, Unlocked, disk, TypeOK, ID
  <2>2. /\ Existing(tailnets') = Existing(tailnets) \cup {nextID}
        /\ \A j \in Existing(tailnets) : tailnets'[j] = tailnets[j]
        /\ nextID \notin Existing(tailnets) /\ tailnets'[nextID].suffix = None
    <3>1. nextID \notin Existing(tailnets)
      BY <2>1, RegistryAssumption DEF NextIDFresh, ID
    <3>2. /\ tailnets'[nextID] = [enabled |-> FALSE, suffix |-> None, failed |-> FALSE]
          /\ \A j \in ID \ {nextID} : tailnets'[j] = tailnets[j]
      BY <1>13, <2>1 DEF Add, TypeOK, Entries
    <3>3. tailnets'[nextID] # None
      <4>1. [enabled |-> FALSE, suffix |-> None, failed |-> FALSE] \in Entry
        BY DEF Entry
      <4>2. QED  BY <3>2, <4>1, RegistryAssumption
    <3>4. QED  BY <2>1, <3>1, <3>2, <3>3 DEF Existing
  <2>3. claimed[nextID] = None
    BY <2>1 DEF ClaimedKnown, ID
  <2>4. HolderExists' /\ SaveUnderWay'
    BY <2>1 DEF HolderExists, SaveUnderWay
  <2>5. ClaimedKnown'
    BY <2>1 DEF ClaimedKnown, ID
  <2>6. NextIDFresh'
    BY <2>1, <2>2 DEF NextIDFresh, Existing, ID
  <2>7. SuffixUnique' /\ ClaimDurable'
    BY <2>1, <2>2, <2>3 DEF SuffixUnique, Unique, ClaimDurable
  <2>8. EntryDurable'
    <3>1. \A j \in Existing(tailnets) : holder # [op |-> "add", id |-> j]
      BY <2>1, RegistryAssumption DEF Holder, Operations, Existing
    <3>2. QED  BY <2>1, <2>2, <3>1 DEF EntryDurable
  <2>9. QED  BY <2>4, <2>5, <2>6, <2>7, <2>8 DEF Safe
<1>14. ASSUME NEW r \in Requests, AddFails(r) PROVE Safe'
  <2>1. UNCHANGED <<up, tailnets, fileState, file, phase, holder, claimed>> /\ nextID' = nextID + 1
    BY <1>14 DEF AddFails, disk
  <2>2. ClaimedKnown' /\ NextIDFresh'
    BY <2>1 DEF ClaimedKnown, NextIDFresh, Existing, ID, TypeOK
  <2>3. QED
    BY <2>1, <2>2 DEF Safe, HolderExists, SaveUnderWay, SuffixUnique, Unique,
                      ClaimDurable, EntryDurable
<1>15. CASE UNCHANGED vars
  BY <1>15 DEF vars, memory, disk, Safe, HolderExists, SaveUnderWay, ClaimedKnown, SuffixUnique,
               Unique, ClaimDurable, EntryDurable, NextIDFresh
<1>16. QED
  BY <1>1, <1>2, <1>3, <1>4, <1>5, <1>6, <1>7, <1>8, <1>9, <1>10, <1>11, <1>12, <1>13, <1>14,
     <1>15 DEF Next, Save

-----------------------------------------------------------------------------
(* The theorems. *)

\* The strengthened invariant holds in every reachable state.
THEOREM Invariant == Spec => []IInv
<1>1. QED  BY IInvInit, IInvStep, PTL DEF Spec

\* Every variable has its type, through failed saves, crashes and restarts.
THEOREM TypeCorrect == Spec => []TypeOK
<1>1. IInv => TypeOK
  BY DEF IInv
<1>2. QED  BY <1>1, Invariant, PTL

\* No two tailnets have the same suffix, in memory or in the file.
THEOREM SuffixIsUnique == Spec => []SuffixUnique
<1>1. IInv => SuffixUnique
  BY DEF IInv
<1>2. QED  BY <1>1, Invariant, PTL

\* The suffix a tailnet routes by is its entry's, and no restart loses it.
THEOREM ClaimIsDurable == Spec => []ClaimDurable
<1>1. IInv => ClaimDurable
  BY DEF IInv
<1>2. QED  BY <1>1, Invariant, PTL

\* Every tailnet that was added for good is in every whole file.
THEOREM EntryIsDurable == Spec => []EntryDurable
<1>1. IInv => EntryDurable
  BY DEF IInv
<1>2. QED  BY <1>1, Invariant, PTL

\* Add never gives out an ID that an entry in memory or in the file has.
THEOREM NextIDIsFresh == Spec => []NextIDFresh
<1>1. IInv => NextIDFresh
  BY DEF IInv
<1>2. QED  BY <1>1, Invariant, PTL

=============================================================================
