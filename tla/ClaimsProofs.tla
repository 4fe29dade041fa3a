---------------------------- MODULE ClaimsProofs ----------------------------
(***************************************************************************)
(* Proof that Registry implements Claims: every step is a start, adds a    *)
(* tailnet, grants a suffix that nobody has, deletes a tailnet, is a       *)
(* crash, or shows nothing of all this.  The invariant of RegistryProofs   *)
(* says that what there is and what is granted is in every whole file;     *)
(* that there is nothing but the tailnet being added before the file is    *)
(* first written is all that is missing.                                   *)
(***************************************************************************)
EXTENDS RegistryProofs

NothingUnwritten ==
  fileState = "missing" =>
    /\ \A i \in ID : claimed[i] = None
    /\ \A i \in Existing(tailnets) : holder = [op |-> "add", id |-> i]

\* Before the file is first written nothing is granted, and no tailnet is there
\* but the one being added.
LEMMA UnwrittenStep ==
  IInv /\ NothingUnwritten /\ [Next]_vars => NothingUnwritten'
<1> SUFFICES ASSUME IInv, NothingUnwritten, [Next]_vars, fileState' = "missing"
             PROVE  /\ \A i \in ID : claimed'[i] = None
                    /\ \A i \in Existing(tailnets)' : holder' = [op |-> "add", id |-> i]
  BY DEF NothingUnwritten, Existing
<1> USE DEF disk
<1>0. TypeOK /\ SaveUnderWay
  BY DEF IInv
<1>1. CASE Load
  BY <1>0, <1>1 DEF Load, TypeOK, NoEntries, Existing
<1>2. CASE Crash
  BY <1>2 DEF Crash, NoEntries, Existing
<1>3. CASE Truncate \/ Write
  BY <1>3 DEF Truncate, Write
<1>4. CASE CreateFails \/ WriteFails
  <2>1. /\ claimed' = claimed /\ fileState' = fileState
        /\ tailnets' = IF holder.op = "add" THEN [tailnets EXCEPT ![holder.id] = None] ELSE tailnets
    BY <1>4 DEF CreateFails, WriteFails, Ends
  <2>2. \A i \in Existing(tailnets) : holder = [op |-> "add", id |-> i]
    BY <2>1 DEF NothingUnwritten
  <2>3. Existing(tailnets)' = {}
    BY <1>0, <2>1, <2>2 DEF Existing, TypeOK, Entries
  <2>4. QED  BY <2>1, <2>3 DEF NothingUnwritten
<1>5. ASSUME NEW r \in Requests, Add(r)
      PROVE  /\ \A i \in ID : claimed'[i] = None
             /\ \A i \in Existing(tailnets)' : holder' = [op |-> "add", id |-> i]
  <2>1. /\ claimed' = claimed /\ fileState' = fileState /\ holder = None
        /\ holder' = [op |-> "add", id |-> nextID]
        /\ \A j \in ID \ {nextID} : tailnets'[j] = tailnets[j]
    BY <1>0, <1>5 DEF Add, Lock, Unlocked, TypeOK, Entries
  <2>2. Existing(tailnets) = {}
    <3>1. \A i \in ID : [op |-> "add", id |-> i] \in Holder
      BY DEF Holder, Operations
    <3>2. QED  BY <2>1, <3>1, RegistryAssumption DEF NothingUnwritten, Existing
  <2>3. QED  BY <2>1, <2>2 DEF NothingUnwritten, Existing
\* The other operations are about a tailnet that is there, and there is none.
<1>6. CASE \E i \in ID : \/ \E s \in Suffixes : Claim(i, s) \/ ClaimRefused(i, s)
                         \/ RecordError(i) \/ Delete(i)
                         \/ \E b \in BOOLEAN : RecordUserState(i, b)
  <2>1. fileState' = fileState /\ phase = "idle" /\ Existing(tailnets) # {}
    BY <1>6 DEF Claim, ClaimRefused, RecordError, RecordUserState, Delete, Lock, Unlocked
  <2>2. holder = None
    BY <1>0, <2>1 DEF TypeOK
  <2>3. \A i \in ID : [op |-> "add", id |-> i] \in Holder
    BY DEF Holder, Operations
  <2>4. QED  BY <2>1, <2>2, <2>3, RegistryAssumption DEF NothingUnwritten, Existing
<1>7. CASE (\E r \in Requests : CheckConfigured(r) \/ AddFails(r)) \/ UNCHANGED vars
  <2>1. UNCHANGED <<claimed, fileState, tailnets, holder>>
    BY <1>7 DEF CheckConfigured, AddFails, vars, memory
  <2>2. QED  BY <2>1 DEF NothingUnwritten, Existing
<1>8. QED  BY <1>1, <1>2, <1>3, <1>4, <1>5, <1>6, <1>7 DEF Next, Save

\* At first there is nothing.
LEMMA ClaimsInit == Init => C!Init
BY DEF Init, C!Init, Granted, SuffixOf, NoEntries, Registered, Existing, Process

\* While the process runs what is granted follows from claims and entries.
LEMMA GrantedUp ==
  ASSUME up
  PROVE  Granted = [i \in ID |-> IF i \in Existing(tailnets) THEN claimed[i] ELSE None]
BY DEF Granted, Existing

\* A step that neither changes a claim nor removes or adds an entry does not show.
LEMMA ClaimsHidden ==
  ASSUME up, up', claimed' = claimed, Existing(tailnets)' = Existing(tailnets)
  PROVE  UNCHANGED C!vars
<1>1. Granted = [i \in ID |-> IF i \in Existing(tailnets) THEN claimed[i] ELSE None]
  BY GrantedUp
<1>2. Granted' = [i \in ID |-> IF i \in Existing(tailnets)' THEN claimed'[i] ELSE None]
  BY DEF Granted, Existing
<1>3. Granted' = Granted
  BY <1>1, <1>2
<1>4. QED  BY <1>3 DEF C!vars, Process, Registered

\* An entry that is removed takes its claim with it, and no other.
LEMMA ClaimsRemoved ==
  ASSUME up, up', claimed' = claimed, NEW i \in Existing(tailnets),
         Existing(tailnets)' = Existing(tailnets) \ {i}
  PROVE  C!Delete(i)
<1>1. Granted = [j \in ID |-> IF j \in Existing(tailnets) THEN claimed[j] ELSE None]
  BY GrantedUp
<1>2. Granted' = [j \in ID |-> IF j \in Existing(tailnets)' THEN claimed'[j] ELSE None]
  BY DEF Granted, Existing
<1>3. Granted' = [Granted EXCEPT ![i] = None]
  BY <1>1, <1>2 DEF Existing
<1>4. QED  BY <1>3 DEF C!Delete, Process, Registered

\* An entry that is added has no claim yet.
LEMMA ClaimsAdded ==
  ASSUME up, up', claimed' = claimed, NEW i \in ID, i \notin Existing(tailnets),
         claimed[i] = None, Existing(tailnets)' = Existing(tailnets) \cup {i}
  PROVE  C!Add(i)
<1>1. Granted = [j \in ID |-> IF j \in Existing(tailnets) THEN claimed[j] ELSE None]
  BY GrantedUp
<1>2. Granted' = [j \in ID |-> IF j \in Existing(tailnets)' THEN claimed'[j] ELSE None]
  BY DEF Granted, Existing
<1>3. Granted' = Granted
  BY <1>1, <1>2
<1>4. QED  BY <1>3 DEF C!Add, Process, Registered

\* What there is and what is granted is in the file that is left when the process
\* dies, but perhaps for the tailnet being added.
LEMMA ClaimsCrash ==
  ASSUME IInv, NothingUnwritten, Crash
  PROVE  C!Crash \/ C!CrashInSave
<1>1. TypeOK /\ ClaimDurable /\ EntryDurable /\ SuffixUnique /\ up /\ ~up' /\ file' = file /\ fileState' = fileState
  BY DEF IInv, Crash, disk
<1>2. /\ Granted = [i \in ID |-> IF i \in Existing(tailnets) THEN claimed[i] ELSE None]
      /\ Granted' = [i \in ID |-> IF file[i] = None THEN None ELSE file[i].suffix]
  BY <1>1, GrantedUp DEF Granted, SuffixOf
<1>3. CASE fileState = "garbled"
  <2>1. \A i \in ID : file[i] = None
    BY <1>1, <1>3 DEF TypeOK, NoEntries
  <2>2. Granted' = [i \in ID |-> None]
    BY <1>2, <2>1
  <2>3. QED  BY <1>1, <1>3, <2>1, <2>2 DEF C!CrashInSave, Process, Registered, Existing
<1>4. CASE fileState # "garbled"
  <2>1. \A i \in ID : Granted[i] # None => Granted'[i] = Granted[i]
    <3>1. SUFFICES ASSUME NEW i \in ID, Granted[i] # None PROVE Granted'[i] = Granted[i]
      OBVIOUS
    <3>2. i \in Existing(tailnets) /\ claimed[i] # None /\ Granted[i] = claimed[i]
      BY <1>2, <3>1
    <3>3. fileState = "whole"
      BY <1>1, <1>4, <3>2 DEF TypeOK, NothingUnwritten
    <3>4. file[i] # None /\ file[i].suffix = claimed[i]
      BY <1>1, <3>2, <3>3 DEF ClaimDurable
    <3>5. QED  BY <1>2, <3>2, <3>4
  <2>2. Granted' \in [ID -> Suffixes \cup {None}]
    BY <1>1, <1>2 DEF TypeOK, Entries, Entry
  <2>3. C!Exclusive(Granted)'
    BY <1>1, <1>2 DEF C!Exclusive, SuffixUnique, Unique, Existing
  <2>4. \A i, j \in Existing(tailnets) \ Existing(file) : i = j
    <3>1. \A i \in Existing(tailnets) \ Existing(file) : holder = [op |-> "add", id |-> i]
      BY <1>1, <1>4 DEF TypeOK, EntryDurable, NothingUnwritten, Existing
    <3>2. QED  BY <3>1
  <2>5. \A i \in ID : Granted'[i] # None => i \in Existing(file)
    BY <1>2 DEF Existing
  <2>6. Registered = Existing(tailnets) /\ Registered' = Existing(file) /\ Existing(file) \subseteq ID
    BY <1>1 DEF Registered, Existing
  <2>7. Process = "up" /\ Process' = "down"
    BY <1>1, <1>4 DEF Process
  <2>8. QED  BY <2>1, <2>2, <2>3, <2>4, <2>5, <2>6, <2>7 DEF C!Crash
<1>5. QED  BY <1>3, <1>4

\* A claim that has been saved is granted, and nobody had the suffix; every other
\* save that succeeds does not show.
LEMMA ClaimsWrite ==
  ASSUME IInv, Write
  PROVE  (\E i \in ID, s \in Suffixes : C!Grant(i, s)) \/ UNCHANGED C!vars
<1> DEFINE i == holder.id
           s == tailnets[holder.id].suffix
<1>1. /\ TypeOK /\ HolderExists /\ SuffixUnique /\ ClaimDurable
      /\ up /\ up' /\ tailnets' = tailnets /\ holder \in Holder
  <2>1. holder \in Holder /\ phase # "idle"
    BY DEF IInv, Write, TypeOK
  <2>2. up /\ up' = up /\ tailnets' = tailnets
    BY <2>1 DEF IInv, SaveUnderWay, Write, Ends
  <2>3. QED  BY <2>1, <2>2 DEF IInv
<1>2. CASE holder.op = "claim"
  <2>1. i \in Existing(tailnets) /\ i \in ID /\ s \in Suffixes \cup {None}
    BY <1>1, <1>2, EntryChange, RegistryAssumption DEF HolderExists, Entry, Existing
  <2>2. claimed' = [claimed EXCEPT ![i] = s]
    BY <1>2 DEF Write, Ends
  <2>3. CASE claimed[i] # None \/ s = None
    <3>1. claimed[i] # None => claimed[i] = s
      BY <1>1, <2>1 DEF ClaimDurable
    <3>2. claimed[i] = s
      BY <2>3, <3>1
    <3>3. claimed' = claimed
      BY <1>1, <2>1, <2>2, <3>2 DEF TypeOK
    <3>4. QED  BY <1>1, <3>3, ClaimsHidden DEF Existing
  <2>4. CASE claimed[i] = None /\ s # None
    <3>1. Granted = [j \in ID |-> IF j \in Existing(tailnets) THEN claimed[j] ELSE None]
      BY <1>1, GrantedUp
    <3>2. Granted' = [j \in ID |-> IF j \in Existing(tailnets)' THEN claimed'[j] ELSE None]
      BY <1>1 DEF Granted, Existing
    <3>3. Granted' = [Granted EXCEPT ![i] = s]
      BY <1>1, <2>1, <2>2, <3>1, <3>2 DEF TypeOK, Existing
    <3>4. ASSUME NEW j \in ID, Granted[j] = s PROVE FALSE
      <4>1. j \in Existing(tailnets) /\ claimed[j] = s
        BY <2>4, <3>1, <3>4
      <4>2. tailnets[j].suffix = s
        BY <1>1, <2>4, <4>1 DEF ClaimDurable
      <4>3. j = i
        BY <1>1, <2>1, <2>4, <4>1, <4>2 DEF SuffixUnique, Unique
      <4>4. QED  BY <2>4, <4>1, <4>3
    <3>5. Granted[i] = None
      BY <2>1, <2>4, <3>1
    <3>6. C!Grant(i, s)
      BY <1>1, <2>1, <3>3, <3>4, <3>5 DEF C!Grant, Process, Registered, Existing
    <3>7. QED  BY <2>1, <2>4, <3>6
  <2>5. QED  BY <2>3, <2>4
<1>3. CASE holder.op # "claim"
  <2>1. claimed' = claimed
    BY <1>3 DEF Write, Ends
  <2>2. QED  BY <1>1, <2>1, ClaimsHidden DEF Existing
<1>4. QED  BY <1>2, <1>3

\* A save that fails takes back an entry that was being added, and nothing else.
LEMMA ClaimsFailure ==
  ASSUME IInv, phase # "idle", Ends(FALSE), up' = up
  PROVE  (\E i \in ID : C!Delete(i)) \/ UNCHANGED C!vars
<1>1. up /\ up' /\ holder \in Holder /\ claimed' = claimed /\ TypeOK
  BY DEF IInv, SaveUnderWay, TypeOK, Ends
<1>2. CASE holder.op = "add"
  <2>1. tailnets' = [tailnets EXCEPT ![holder.id] = None] /\ holder.id \in ID
    BY <1>1, <1>2 DEF Ends, Holder
  <2>2. Existing(tailnets)' = Existing(tailnets) \ {holder.id}
    BY <1>1, <2>1 DEF Existing, TypeOK, Entries
  <2>3. CASE holder.id \in Existing(tailnets)
    <3>1. PICK i \in Existing(tailnets) : i = holder.id
      BY <2>3
    <3>2. Existing(tailnets)' = Existing(tailnets) \ {i}
      BY <2>2, <3>1
    <3>3. C!Delete(i)
      BY <1>1, <3>2, ClaimsRemoved
    <3>4. QED  BY <3>3 DEF Existing
  <2>4. CASE holder.id \notin Existing(tailnets)
    BY <1>1, <2>2, <2>4, ClaimsHidden
  <2>5. QED  BY <2>3, <2>4
<1>3. CASE holder.op # "add"
  <2>1. tailnets' = tailnets
    BY <1>3 DEF Ends
  <2>2. QED  BY <1>1, <2>1, ClaimsHidden DEF Existing
<1>4. QED  BY <1>2, <1>3

\* Every step is one of Claims, or does not show.
LEMMA ClaimsStep ==
  IInv /\ NothingUnwritten /\ [Next]_vars => [C!Next]_C!vars
<1> SUFFICES ASSUME IInv, NothingUnwritten, [Next]_vars
             PROVE  UNCHANGED C!vars \/ C!Next
  OBVIOUS
<1>0. TypeOK /\ SaveUnderWay /\ ClaimedKnown /\ NextIDFresh
  BY DEF IInv
<1>1. CASE Load
  <2>1. /\ ~up /\ up' /\ fileState # "garbled" /\ tailnets' = file
        /\ claimed' = [i \in ID |-> IF file[i] = None THEN None ELSE file[i].suffix]
    BY <1>1 DEF Load
  <2>2. Granted' = Granted
    BY <2>1 DEF Granted, SuffixOf
  <2>3. Registered' = Registered
    BY <2>1 DEF Registered, Existing
  <2>4. QED  BY <2>1, <2>2, <2>3 DEF C!Load, C!Next, Process
<1>2. CASE Crash
  BY <1>2, ClaimsCrash DEF C!Next, Crash
<1>3. CASE Write
  <2>1. up
    BY <1>0, <1>3 DEF Write, SaveUnderWay
  <2>2. QED  BY <1>3, <2>1, ClaimsWrite DEF C!Next
<1>4. CASE CreateFails \/ WriteFails
  <2>1. up /\ up' = up /\ Ends(FALSE) /\ phase # "idle"
    BY <1>0, <1>4 DEF CreateFails, WriteFails, SaveUnderWay
  <2>2. QED  BY <2>1, ClaimsFailure DEF C!Next
<1>5. CASE Truncate
  <2>1. up /\ up' /\ claimed' = claimed /\ tailnets' = tailnets
    BY <1>0, <1>5 DEF Truncate, SaveUnderWay, memory
  <2>2. QED  BY <2>1, ClaimsHidden DEF Existing
<1>6. ASSUME NEW i \in ID, Delete(i) PROVE C!Next
  <2>1. /\ up /\ up' /\ claimed' = claimed /\ tailnets' = [tailnets EXCEPT ![i] = None]
        /\ i \in Existing(tailnets)
    BY <1>6 DEF Delete, Lock, Unlocked
  <2>2. Existing(tailnets)' = Existing(tailnets) \ {i}
    BY <1>0, <2>1 DEF Existing, TypeOK, Entries
  <2>3. QED  BY <2>1, <2>2, ClaimsRemoved DEF C!Next
<1>7. ASSUME NEW r \in Requests, Add(r) PROVE C!Next
  <2>1. /\ up /\ up' /\ claimed' = claimed /\ nextID \in ID
        /\ tailnets' = [tailnets EXCEPT ![nextID] =
                          [enabled |-> FALSE, suffix |-> None, failed |-> FALSE]]
    BY <1>0, <1>7 DEF Add, Lock, Unlocked, TypeOK, ID
  <2>2. claimed[nextID] = None /\ nextID \notin Existing(tailnets)
    <3>1. nextID \in Nat /\ \A i \in Existing(tailnets) : i < nextID
      BY <1>0, <2>1 DEF NextIDFresh, ID
    <3>2. QED  BY <1>0, <2>1, <3>1 DEF ClaimedKnown, ID, Existing
  <2>3. [enabled |-> FALSE, suffix |-> None, failed |-> FALSE] # None
    <3>1. [enabled |-> FALSE, suffix |-> None, failed |-> FALSE] \in Entry
      BY DEF Entry
    <3>2. QED  BY <3>1, RegistryAssumption
  <2>4. Existing(tailnets)' = Existing(tailnets) \cup {nextID}
    <3>1. /\ tailnets'[nextID] # None
          /\ \A j \in ID \ {nextID} : tailnets'[j] = tailnets[j]
      BY <1>0, <2>1, <2>3 DEF TypeOK, Entries
    <3>2. QED  BY <2>1, <3>1 DEF Existing
  <2>5. QED  BY <2>1, <2>2, <2>4, ClaimsAdded DEF C!Next
\* The other operations change fields of an entry, or nothing of the entries.
<1>8. ASSUME NEW i \in ID,
             \/ \E s \in Suffixes : Claim(i, s)
             \/ RecordError(i)
             \/ \E b \in BOOLEAN : RecordUserState(i, b)
      PROVE  UNCHANGED C!vars
  <2>1. /\ up /\ up' /\ claimed' = claimed /\ i \in Existing(tailnets)
        /\ \A j \in ID \ {i} : tailnets'[j] = tailnets[j]
    BY <1>0, <1>8 DEF Claim, RecordError, RecordUserState, Lock, Unlocked, TypeOK, Entries
  <2>2. tailnets'[i] # None
    <3>1. tailnets[i] \in Entry
      BY <1>0, <2>1, EntryChange
    <3>2. /\ \A s \in Suffixes : [tailnets[i] EXCEPT !.suffix = s] \in Entry
          /\ \A b \in BOOLEAN : [tailnets[i] EXCEPT !.enabled = b] \in Entry
          /\ [tailnets[i] EXCEPT !.failed = TRUE] \in Entry
      BY <3>1 DEF Entry
    <3>3. CASE \E s \in Suffixes : Claim(i, s)
      BY <1>0, <2>1, <3>2, <3>3, EntryChange, RegistryAssumption DEF Claim, TypeOK, Entries, Existing
    <3>4. CASE RecordError(i)
      BY <1>0, <2>1, <3>2, <3>4, EntryChange, RegistryAssumption DEF RecordError, TypeOK, Entries,
         Existing
    <3>5. CASE \E b \in BOOLEAN : RecordUserState(i, b)
      BY <1>0, <2>1, <3>2, <3>5, EntryChange, RegistryAssumption DEF RecordUserState, TypeOK, Entries,
         Existing
    <3>6. QED  BY <1>8, <3>3, <3>4, <3>5
  <2>3. i \in Existing(tailnets)'
    BY <2>1, <2>2 DEF Existing
  <2>4. QED  BY <2>1, <2>3, ClaimsHidden DEF Existing
<1>9. ASSUME \/ \E i \in ID, s \in Suffixes : ClaimRefused(i, s)
             \/ \E r \in Requests : CheckConfigured(r) \/ AddFails(r)
      PROVE  UNCHANGED C!vars
  <2>1. up /\ up' /\ claimed' = claimed /\ tailnets' = tailnets
    BY <1>9 DEF ClaimRefused, CheckConfigured, AddFails, Unlocked
  <2>2. QED  BY <2>1, ClaimsHidden DEF Existing
<1>10. CASE UNCHANGED vars
  <2>1. UNCHANGED <<Process, Registered, Granted>>
    BY <1>10 DEF vars, memory, disk, Process, Registered, Existing, Granted, SuffixOf
  <2>2. QED  BY <2>1 DEF C!vars
<1>11. QED
  BY <1>1, <1>2, <1>3, <1>4, <1>5, <1>6, <1>7, <1>8, <1>9, <1>10 DEF Next, Save

\* Granted suffixes stay with their tailnets, and with them alone, and both stay
\* until the tailnet is deleted: whatever saves fail, and whenever the process dies,
\* unless it dies in the middle of a write.
THEOREM ImplementsClaims == Spec => KeepsClaims
<1>1. Init => NothingUnwritten
  BY DEF Init, NothingUnwritten, NoEntries, Existing
<1>2. Spec => []NothingUnwritten
  BY <1>1, Invariant, UnwrittenStep, PTL DEF Spec
<1>3. QED
  BY <1>2, Invariant, ClaimsInit, ClaimsStep, PTL DEF Spec, KeepsClaims, C!Spec

=============================================================================
