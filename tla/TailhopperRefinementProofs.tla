--------------------- MODULE TailhopperRefinementProofs ---------------------
(***************************************************************************)
(* Proofs that Tailhopper implements two abstract specifications.          *)
(*                                                                         *)
(* Claims: with several tailnets, deleted ones that go on running,         *)
(* requests that hold an old one, and restarts, every step is a start,     *)
(* adds a tailnet, grants a suffix that nobody has, deletes a tailnet, is  *)
(* a crash, or shows nothing of all this.                                  *)
(*                                                                         *)
(* A crash is the hard step: it hands the promise over from the objects to *)
(* the file.  So every tailnet, with its suffix, has to be in the file as  *)
(* long as it can be read, also when later saves fail, which may leave any *)
(* earlier file behind; ClaimsInFile says that.                            *)
(*                                                                         *)
(* Lifecycle, by each Tailnet object: the step of a request, a session or  *)
(* the restore is a step of the one tailnet it is about and leaves the     *)
(* others alone.                                                           *)
(***************************************************************************)
EXTENDS TailhopperProofs

\* The suffix of the tailnet that is registered with an ID.
SuffixOf(i) == IF registered[i] = None THEN None ELSE objects[registered[i]].suffix

ClaimsInFile ==
  file # None => \A i \in ID :
    /\ registered[i] # None => file[i] # None
    /\ SuffixOf(i) # None => file[i] # None /\ file[i].suffix = SuffixOf(i)

\* No tailnet is added and none gets a suffix in this step.
NothingNew ==
  \A i \in ID : /\ registered'[i] # None => registered[i] # None
                /\ SuffixOf(i)' # None => SuffixOf(i)' = SuffixOf(i)

\* A step of tailnet i does not show in tailnet j.
Apart(j) == (registered'[j] = None <=> registered[j] = None) /\ SuffixOf(j)' = SuffixOf(j)

\* What a step makes of tailnet i, the others being apart.
Goes(i) ==
  /\ up /\ registered[i] # None /\ registered'[i] = None
  /\ \A j \in ID \ {i} : Apart(j)

Comes(i) ==
  /\ up /\ Saved
  /\ registered[i] = None /\ registered'[i] # None /\ SuffixOf(i)' = None
  /\ \A j \in ID \ {i} : Apart(j)

Gets(i, s) ==
  /\ up /\ Saved
  /\ registered[i] # None /\ registered'[i] # None
  /\ SuffixOf(i) = None /\ SuffixOf(i)' = s
  /\ \A j \in ID : SuffixOf(j) # s
  /\ \A j \in ID \ {i} : Apart(j)

\* A tailnet that has a suffix has that of its entry.
LEMMA SuffixInEntry ==
  ASSUME Core, Suffixed, NEW i \in ID, SuffixOf(i) # None
  PROVE  entries[i] # None /\ entries[i].suffix = SuffixOf(i)
<1>1. registered[i] # None /\ SuffixOf(i) = objects[registered[i]].suffix
  BY DEF SuffixOf
<1>2. i \in Existing(entries)
  BY <1>1 DEF Core, RegisteredObjects, Existing
<1>3. QED  BY <1>1, <1>2 DEF Suffixed, EntryHasSuffix, Existing

\* A save that succeeds writes every tailnet and claim; one that fails loses none,
\* or all.
LEMMA FileKeepsClaims ==
  ASSUME Core, Suffixed, ClaimsInFile, Core', Suffixed', DiskChange, Saved \/ NothingNew
  PROVE  ClaimsInFile'
<1> SUFFICES ASSUME file' # None, NEW i \in ID, registered'[i] # None
             PROVE  /\ file'[i] # None
                    /\ SuffixOf(i)' # None => file'[i].suffix = SuffixOf(i)'
  BY DEF ClaimsInFile, SuffixOf
<1>1. CASE Saved
  <2>1. /\ entries'[i] # None
        /\ SuffixOf(i)' # None => entries'[i].suffix = SuffixOf(i)'
    <3>1. SuffixOf(i)' = objects'[registered'[i]].suffix
      BY DEF SuffixOf
    <3>2. i \in Existing(entries')
      BY DEF Core, RegisteredObjects, Existing
    <3>3. QED  BY <3>1, <3>2 DEF Suffixed, EntryHasSuffix, Existing
  <2>2. QED  BY <1>1, <2>1 DEF Saved
<1>2. CASE ~Saved
  <2>1. /\ registered[i] # None
        /\ SuffixOf(i)' # None => SuffixOf(i)' = SuffixOf(i) /\ SuffixOf(i) # None
    BY <1>2 DEF NothingNew
  <2>2. CASE Unsaved \/ UNCHANGED disk
    BY <2>1, <2>2 DEF Unsaved, disk, ClaimsInFile
  <2>3. ASSUME NEW k \in Existing(entries), file' = [entries EXCEPT ![k].failed = TRUE]
        PROVE  /\ file'[i] # None
               /\ SuffixOf(i) # None => file'[i].suffix = SuffixOf(i)
    <3>1. /\ entries[i] # None
          /\ SuffixOf(i) # None => entries[i].suffix = SuffixOf(i)
      BY <2>1, SuffixInEntry DEF Core, RegisteredObjects
    <3> DEFINE e == [entries[k] EXCEPT !.failed = TRUE]
    <3>2. e \in PersistedTailnet /\ e.suffix = entries[k].suffix /\ e # None
      <4>1. e \in PersistedTailnet /\ entries[k] \in PersistedTailnet
        BY EntryChange DEF Core
      <4>2. QED  BY <4>1, TailhopperAssumption DEF PersistedTailnet
    <3>3. file' = [entries EXCEPT ![k] = e]
      BY <2>3
    <3>4. (file'[i] = e /\ i = k) \/ file'[i] = entries[i]
      BY <3>3 DEF Core, TypeOK
    <3>5. QED  BY <3>1, <3>2, <3>4
  <2>4. QED  BY <1>2, <2>1, <2>2, <2>3 DEF DiskChange
<1>3. QED  BY <1>1, <1>2

\* A step of an object that changes no suffix.
LEMMA SuffixesStay ==
  ASSUME Core, NEW o, Acts(o), KeepsSuffix(o)
  PROVE  \A i \in ID : Apart(i)
<1>1. /\ registered' = registered
      /\ \A p \in Objects \ {o} : objects'[p] = objects[p]
      /\ objects'[o].suffix = objects[o].suffix
  BY DEF Acts, Evolves, KeepsSuffix
<1>2. \A i \in ID : registered[i] # None => registered[i] \in Objects
  BY DEF Core, RegisteredObjects, There
<1>3. QED  BY <1>1, <1>2 DEF SuffixOf, Apart

-----------------------------------------------------------------------------
(* What each kind of step makes of the suffixes. *)

\* A claim that was saved: the tailnet is the one registered, and has had no suffix.
LEMMA ClaimEffect ==
  ASSUME Core, Suffixed, NEW o \in Objects, NEW s \in Suffixes, ClaimGranted(o, s),
         NEW i \in ID, i = objects[o].id
  PROVE  /\ up /\ up'
         /\ registered[i] # None /\ registered'[i] # None
         /\ SuffixOf(i) = None
         /\ \A j \in ID : SuffixOf(j) # s
         /\ SuffixOf(i)' \in {s, None}
         /\ \A j \in ID \ {i} : Apart(j)
         /\ DiskChange
         /\ Saved \/ SuffixOf(i)' = None
<1>1. /\ Acts(o) /\ entries[i] # None /\ (Saved \/ Unsaved)
      /\ objects[o].suffix = None /\ objects'[o].suffix \in {s, None}
  BY ClaimGrantedActs DEF Core
<1>2. /\ There(o) /\ i \in ID /\ registered' = registered /\ up' = up
      /\ \A p \in Objects \ {o} : objects'[p] = objects[p]
  BY <1>1, ObjectType DEF Acts, Evolves, Tailnet, Core
<1>3. up
  BY <1>2 DEF Core, DownIsEmpty, There
<1>4. registered[i] = o /\ o # None
  BY <1>1, <1>2, TailhopperAssumption DEF Core, EntryOwned, There
<1>5. SuffixOf(i) = None /\ SuffixOf(i)' = objects'[o].suffix
  BY <1>1, <1>2, <1>4 DEF SuffixOf
<1>6. ASSUME NEW j \in ID, SuffixOf(j) = s PROVE FALSE
  <2>1. s # None
    BY TailhopperAssumption
  <2>2. j \in Existing(entries) /\ entries[j].suffix = s
    BY <1>6, <2>1, SuffixInEntry DEF Existing
  <2>3. QED  BY <2>2 DEF ClaimGranted, Taken
<1>7. ASSUME NEW j \in ID \ {i} PROVE Apart(j)
  <2>1. registered[j] # None => registered[j] \in Objects /\ objects[registered[j]].id = j
    BY DEF Core, RegisteredObjects, There
  <2>2. registered[j] # None => objects'[registered[j]] = objects[registered[j]]
    BY <1>2, <2>1
  <2>3. QED  BY <1>2, <2>2 DEF SuffixOf, Apart
<1>8. Saved \/ objects'[o].suffix = None
  <2>1. CASE Saved
    BY <2>1
  <2>2. CASE ~Saved
    <3>1. PICK next \in Sessions : objects' = [objects EXCEPT ![o].state = next]
      BY <2>2 DEF ClaimGranted
    <3>2. objects[o] \in Tailnet
      BY <1>2, ObjectType DEF Core
    <3> DEFINE t == [objects[o] EXCEPT !.state = next]
    <3>3. t.suffix = objects[o].suffix
      BY <3>2 DEF Tailnet
    <3>4. objects'[o] = t
      BY <3>1 DEF Core, TypeOK
    <3>5. QED  BY <1>1, <3>3, <3>4
  <2>3. QED  BY <2>1, <2>2
<1>9. QED  BY <1>1, <1>2, <1>3, <1>4, <1>5, <1>6, <1>7, <1>8 DEF DiskChange

\* A new tailnet has none.
LEMMA AddEffect ==
  ASSUME Core, NEW r \in Requests, Add(r)
  PROVE  \E i \in ID : Comes(i)
<1>1. PICK i \in ID, p \in Ports, o \in Objects :
        /\ i = nextID /\ objects[o] = None
        /\ objects' = [objects EXCEPT ![o] = NewTailnet(i, NewEntry(p))]
        /\ entries' = [entries EXCEPT ![i] = NewEntry(p)]
        /\ Saved
        /\ registered' = [registered EXCEPT ![i] = o]
        /\ requests' = [requests EXCEPT ![r] = [Idle EXCEPT !.pc = "start", !.object = o, !.id = i]]
        /\ intent' = [intent EXCEPT ![i] = "off"]
  BY DEF Add, FreshID
<1>2. objects'[o].suffix = None
  <2>1. NewEntry(p) \in PersistedTailnet /\ NewEntry(p).suffix = None
    BY NewEntryType DEF NewEntry
  <2>2. NewTailnet(i, NewEntry(p)).suffix = None
    BY <2>1, NewTailnetType
  <2>3. QED  BY <1>1, <2>2 DEF Core, TypeOK
<1>3. /\ \A j \in ID \ {i} : registered'[j] = registered[j]
      /\ \A x \in Objects \ {o} : objects'[x] = objects[x]
      /\ registered'[i] = o
  BY <1>1 DEF Core, TypeOK
<1>4. registered[i] = None
  <2>1. i \notin Existing(entries)
    BY <1>1 DEF Core, IDsGivenOut, ID
  <2>2. QED  BY <2>1 DEF Core, RegisteredObjects, Existing
<1>5. \A j \in ID \ {i} : Apart(j)
  <2> SUFFICES ASSUME NEW j \in ID \ {i} PROVE Apart(j)
    OBVIOUS
  <2>1. registered[j] # None => registered[j] \in Objects /\ objects[registered[j]] # None
    BY DEF Core, RegisteredObjects, There
  <2>2. registered[j] # None => objects'[registered[j]] = objects[registered[j]]
    BY <1>1, <1>3, <2>1
  <2>3. QED  BY <1>3, <2>2 DEF SuffixOf, Apart
<1>6. SuffixOf(i)' = None /\ o # None
  BY <1>2, <1>3, TailhopperAssumption DEF SuffixOf
<1>7. up
  BY IdleValid DEF Add, Core, ServesLate, Serving
<1>8. QED  BY <1>1, <1>3, <1>4, <1>5, <1>6, <1>7 DEF Comes

\* A tailnet that is deleted loses its own, and no other does.
LEMMA DeleteEffect ==
  ASSUME Core, NEW r \in Requests, Delete(r), NEW i \in ID, i = requests[r].id
  PROVE  /\ up /\ up' /\ DiskChange
         /\ Goes(i) \/ \A j \in ID : Apart(j)
<1>1. i \in ID /\ up /\ up' = up /\ objects' = objects
  BY IdleValid DEF Delete, Core, RequestsValid, Valid, TargetPC, ServesLate, Serving
<1>2. CASE entries[i] = None
  <2>1. UNCHANGED <<saved, registered>>
    BY <1>1, <1>2 DEF Delete
  <2>2. QED  BY <1>1, <2>1 DEF SuffixOf, DiskChange, saved, Apart
<1>3. CASE entries[i] # None
  <2>1. registered' = [registered EXCEPT ![i] = None] /\ (Saved \/ Unsaved)
    BY <1>3 DEF Delete
  <2>2. registered'[i] = None /\ \A j \in ID \ {i} : registered'[j] = registered[j]
    BY <1>1, <2>1 DEF Core, TypeOK
  <2>3. registered[i] # None
    BY <1>1, <1>3 DEF Core, RegisteredObjects
  <2>4. QED  BY <1>1, <2>1, <2>2, <2>3 DEF SuffixOf, DiskChange, Goes, Apart
<1>4. QED  BY <1>2, <1>3

\* Loaded tailnets have the suffixes that are in the file.
LEMMA LoadedSuffixes ==
  ASSUME Core, Load
  PROVE  \A i \in ID : SuffixOf(i)' = IF file[i] = None THEN None ELSE file[i].suffix
<1> SUFFICES ASSUME NEW i \in ID
             PROVE  SuffixOf(i)' = IF file[i] = None THEN None ELSE file[i].suffix
  OBVIOUS
<1>1. registered'[i] = None <=> file[i] = None
  BY LoadEffect
<1>2. CASE file[i] = None
  BY <1>1, <1>2 DEF SuffixOf
<1>3. CASE file[i] # None
  <2>1. /\ objects'[registered'[i]] = NewTailnet(i, file[i]) /\ file[i] \in PersistedTailnet
    BY <1>3, LoadEffect DEF Existing
  <2>2. NewTailnet(i, file[i]).suffix = file[i].suffix
    BY <2>1, NewTailnetType
  <2>3. QED  BY <1>1, <1>3, <2>1, <2>2 DEF SuffixOf
<1>4. QED  BY <1>2, <1>3

\* What a step does to tailnets, suffixes and disk, if it is no start and no crash.
LEMMA SuffixesStep ==
  ASSUME Core, Suffixed, [Next]_vars, ~Load, ~Crash
  PROVE  /\ up' = up /\ DiskChange
         /\ \/ \A j \in ID : Apart(j)
            \/ \E i \in ID : Goes(i) \/ Comes(i) \/ \E s \in Suffixes : Gets(i, s)
<1> DEFINE Same == \A j \in ID : Apart(j)
           Done == /\ up' = up /\ DiskChange
                   /\ Same \/ \E i \in ID : Goes(i) \/ Comes(i) \/ \E s \in Suffixes : Gets(i, s)
<1> SUFFICES Done
  OBVIOUS
<1>0. ASSUME UNCHANGED <<up, registered, objects>>, DiskChange PROVE Done
  BY <1>0 DEF SuffixOf, Apart
<1>1. ASSUME NEW o, Acts(o), KeepsSuffix(o) PROVE Done
  BY <1>1, SuffixesStay DEF Acts, KeepsSuffix
<1>2. ASSUME NEW i \in ID, Restore(i) PROVE Done
  <2>1. /\ There(registered[i]) /\ Acts(registered[i])
        /\ \/ Start(registered[i])
           \/ UNCHANGED <<saved, objects>>
    BY <1>2, RestoreEffect
  <2>2. KeepsSuffix(registered[i])
    BY <2>1, StartKeepsSuffix DEF Core, KeepsSuffix, DiskChange, saved
  <2>3. QED  BY <1>1, <2>1, <2>2
<1>3. ASSUME NEW r \in Requests, Handler(r) PROVE Done
  <2>1. CASE StartTailnet(r) \/ StopTailnet(r) \/ LogoutBegins(r) \/ LogoutEnds(r)
    BY <1>1, <2>1, CommandEffect, CommandKeepsSuffix
  <2>2. CASE Delete(r)
    <3>1. PICK i \in ID : i = requests[r].id
      BY <2>2 DEF Delete, Core, RequestsValid, Valid, TargetPC
    <3>2. up /\ up' /\ DiskChange /\ (Goes(i) \/ Same)
      BY <2>2, <3>1, DeleteEffect
    <3>3. QED  BY <3>2
  <2>3. CASE Add(r)
    <3>1. up' = up
      BY <2>3 DEF Add
    <3>2. PICK i \in ID : Comes(i)
      BY <2>3, AddEffect
    <3>3. QED  BY <3>1, <3>2 DEF DiskChange, Comes
  <2>4. CASE AddFails(r)
    BY <1>0, <2>4 DEF AddFails, DiskChange
  <2>5. CASE UNCHANGED <<up, todo, registry, objects, intent>>
    BY <1>0, <2>5 DEF registry, saved, DiskChange
  <2>6. QED
    BY <1>3, <2>1, <2>2, <2>3, <2>4, <2>5
       DEF Handler, Get, Snapshot, CheckConfigured, List, ServePAC, ReadCard
<1>4. ASSUME NEW o \in Objects, NEW s \in Suffixes, ClaimGranted(o, s) PROVE Done
  <2>1. PICK i \in ID : i = objects[o].id
    <3>1. There(o)
      BY <1>4, ClaimGrantedActs DEF Core, Acts
    <3>2. QED  BY <3>1, ObjectType DEF Core, Tailnet
  <2>2. /\ up /\ up' /\ DiskChange /\ SuffixOf(i) = None /\ SuffixOf(i)' \in {s, None}
        /\ registered[i] # None /\ registered'[i] # None
        /\ \A j \in ID : SuffixOf(j) # s
        /\ \A j \in ID \ {i} : Apart(j)
        /\ Saved \/ SuffixOf(i)' = None
    BY <1>4, <2>1, ClaimEffect
  <2>3. CASE SuffixOf(i)' = None
    <3>1. Same
      BY <2>2, <2>3 DEF Apart
    <3>2. QED  BY <2>2, <3>1
  <2>4. CASE SuffixOf(i)' # None
    <3>1. Gets(i, s)
      BY <2>2, <2>4 DEF Gets
    <3>2. QED  BY <2>2, <3>1
  <2>5. QED  BY <2>3, <2>4
<1>5. ASSUME NEW o \in Objects,
             \/ Transition(o) \/ ListenerCloses(o)
             \/ \E s \in Suffixes : ClaimRefused(o, s)
      PROVE  Done
  BY <1>1, <1>5, NoticeEffect, TransitionKeepsSuffix, ClaimRefusedKeepsSuffix
<1>6. CASE UNCHANGED vars
  BY <1>0, <1>6 DEF vars, registry, saved, DiskChange
<1>7. QED  BY <1>2, <1>3, <1>4, <1>5, <1>6 DEF Next

\* While the file can be read, what there is and what is granted is in it.
LEMMA ClaimsInFileStep ==
  Core /\ Suffixed /\ ClaimsInFile /\ [Next]_vars => ClaimsInFile'
<1> SUFFICES ASSUME Core, Suffixed, ClaimsInFile, [Next]_vars PROVE ClaimsInFile'
  OBVIOUS
<1>1. Core' /\ Suffixed'
  BY CoreStep, SuffixedStep
<1>2. CASE Load
  <2>1. file' = file /\ \A i \in ID : registered'[i] = None <=> file[i] = None
    BY <1>2, LoadEffect
  <2>2. QED  BY <1>2, <2>1, LoadedSuffixes DEF ClaimsInFile
<1>3. CASE Crash
  <2>1. \A i \in ID : registered'[i] = None /\ SuffixOf(i)' = None
    BY <1>3 DEF Crash, NoEntries, SuffixOf
  <2>2. QED  BY <2>1 DEF ClaimsInFile
<1>4. CASE ~Load /\ ~Crash
  <2>1. DiskChange /\ (Saved \/ NothingNew)
    <3>1. ASSUME NEW i \in ID, Goes(i) PROVE NothingNew
      BY <3>1 DEF Goes, Apart, NothingNew, SuffixOf
    <3>2. (\A i \in ID : Apart(i)) => NothingNew
      BY DEF Apart, NothingNew
    <3>3. QED  BY <1>4, <3>1, <3>2, SuffixesStep DEF Comes, Gets
  <2>2. QED  BY <1>1, <2>1, FileKeepsClaims
<1>5. QED  BY <1>2, <1>3, <1>4

LEMMA ClaimsInFileInvariant == Spec => []ClaimsInFile
<1>1. Init => ClaimsInFile
  BY DEF Init, NoEntries, ClaimsInFile, SuffixOf
<1>2. QED  BY <1>1, ClaimsInFileStep, CoreInvariant, SuffixedInvariant, PTL DEF Spec

\* Nothing happens to the file while the process is down.
LEMMA NothingWhileDown ==
  ASSUME Core, [Next]_vars, ~Load, ~up
  PROVE  UNCHANGED file
<1>1. ASSUME NEW i \in ID, Restore(i) PROVE FALSE
  BY <1>1 DEF Restore
<1>2. ASSUME NEW r \in Requests, Handler(r) PROVE UNCHANGED file
  <2>1. requests[r] = Idle /\ ~Serving
    BY DEF Core, ServesLate, Serving
  <2>2. QED
    BY <1>2, <2>1, IdleValid
       DEF Handler, Get, StartTailnet, StopTailnet, Snapshot, LogoutBegins, LogoutEnds, Delete,
           CheckConfigured, Add, AddFails, List, ServePAC, ReadCard
<1>3. ASSUME NEW o \in Objects,
             \/ Transition(o) \/ ListenerCloses(o)
             \/ \E s \in Suffixes : ClaimGranted(o, s) \/ ClaimRefused(o, s)
      PROVE  FALSE
  BY <1>3, NoticeEffect DEF There, Core, DownIsEmpty
<1>4. QED  BY <1>1, <1>2, <1>3 DEF Next, Crash, vars, registry, saved, disk

-----------------------------------------------------------------------------
(* The refinement. *)

\* What is granted, up and down.
LEMMA GrantedIs ==
  /\ up => Granted = [i \in ID |-> SuffixOf(i)]
  /\ ~up => Granted = [i \in ID |->
                IF file = None \/ file[i] = None THEN None ELSE file[i].suffix]
BY DEF Granted, SuffixOf

LEMMA GrantedIsNext ==
  /\ up' => Granted' = [i \in ID |-> SuffixOf(i)']
  /\ ~up' => Granted' = [i \in ID |->
                IF file' = None \/ file'[i] = None THEN None ELSE file'[i].suffix]
BY DEF Granted, SuffixOf

\* At first there is nothing.
LEMMA ClaimsInit == Init => C!Init
<1> SUFFICES ASSUME Init PROVE C!Init
  OBVIOUS
<1>1. ~up /\ file \in Entries /\ \A i \in ID : file[i] = None
  BY DEF Init, NoEntries, Entries
<1>2. file # None
  BY <1>1, TailhopperAssumption DEF Entries
<1>3. Granted = [i \in ID |-> None]
  BY <1>1, GrantedIs
<1>4. QED  BY <1>1, <1>2, <1>3 DEF C!Init, Registered, Existing, Process

\* The file takes over when the process dies.
LEMMA ClaimsCrash ==
  ASSUME Core, Suffixed, ClaimsInFile, Crash
  PROVE  C!Crash \/ C!CrashInSave
<1>1. /\ up /\ ~up' /\ file' = file
      /\ Granted = [i \in ID |-> SuffixOf(i)]
      /\ Granted' = [i \in ID |-> IF file = None \/ file[i] = None THEN None ELSE file[i].suffix]
  BY GrantedIs, GrantedIsNext DEF Crash, disk
<1>2. CASE file = None
  BY <1>1, <1>2 DEF C!CrashInSave, Process, Registered
<1>3. CASE file # None
  <2>1. \A i \in ID : Granted[i] # None => Granted'[i] = Granted[i]
    BY <1>1, <1>3 DEF ClaimsInFile
  <2>2. Granted' \in [ID -> Suffixes \cup {None}]
    BY <1>1, <1>3 DEF Core, TypeOK, PersistedTailnet
  <2>3. C!Exclusive(Granted)'
    BY <1>1, <1>3 DEF C!Exclusive, Suffixed, UniqueSuffixes, Existing
  <2>4. Registered = Existing(registered) /\ Registered' = Existing(file)
    BY <1>1, <1>3 DEF Registered
  <2>5. Registered \subseteq Registered' /\ Registered' \subseteq ID
    BY <1>3, <2>4 DEF ClaimsInFile, Existing
  <2>6. \A i \in ID : Granted'[i] # None => i \in Registered'
    BY <1>1, <1>3, <2>4 DEF Existing
  <2>7. Process = "up" /\ Process' = "down"
    BY <1>1, <1>3 DEF Process
  <2>8. QED  BY <2>1, <2>2, <2>3, <2>5, <2>6, <2>7 DEF C!Crash
<1>4. QED  BY <1>2, <1>3

\* Every step is one of Claims, or does not show.
LEMMA ClaimsStep ==
  Core /\ Suffixed /\ ClaimsInFile /\ [Next]_vars => [C!Next]_C!vars
<1> SUFFICES ASSUME Core, Suffixed, ClaimsInFile, [Next]_vars
             PROVE  UNCHANGED C!vars \/ C!Next
  OBVIOUS
<1>1. CASE Load
  <2>1. /\ ~up /\ up' /\ file # None
        /\ Granted' = [i \in ID |-> SuffixOf(i)'] /\ Granted \in [ID -> Suffixes \cup {None}]
        /\ \A i \in ID : SuffixOf(i)' = Granted[i]
    BY <1>1, LoadEffect, LoadedSuffixes, GrantedIs, GrantedIsNext DEF Core, TypeOK, PersistedTailnet
  <2>2. Granted' = Granted
    BY <2>1
  <2>3. Registered' = Registered
    BY <1>1, <2>1, LoadEffect DEF Registered, Existing
  <2>4. QED  BY <2>1, <2>2, <2>3 DEF C!Load, C!Next, Process
<1>2. CASE Crash
  BY <1>2, ClaimsCrash DEF C!Next, Crash
<1>3. CASE ~Load /\ ~Crash
  <2>1. up' = up
    BY <1>3, SuffixesStep
  <2>2. up => /\ Process = "up" /\ Process' = "up"
              /\ Registered = Existing(registered) /\ Registered' = Existing(registered)'
              /\ Granted = [i \in ID |-> SuffixOf(i)] /\ Granted' = [i \in ID |-> SuffixOf(i)']
    BY <2>1, GrantedIs, GrantedIsNext DEF Process, Registered
  <2>3. ASSUME \A j \in ID : Apart(j), up PROVE UNCHANGED C!vars
    BY <2>2, <2>3 DEF C!vars, Apart, Existing
  <2>4. ASSUME ~up PROVE UNCHANGED C!vars
    <3>1. UNCHANGED file
      BY <1>3, <2>4, NothingWhileDown
    <3>2. UNCHANGED <<Process, Registered>>
      BY <2>1, <2>4, <3>1 DEF Process, Registered, Existing
    <3>3. QED  BY <2>1, <2>4, <3>1, <3>2, GrantedIs, GrantedIsNext DEF C!vars
  <2>5. ASSUME NEW i \in ID, Goes(i) PROVE C!Delete(i)
    <3>1. SuffixOf(i)' = None
      BY <2>5 DEF Goes, SuffixOf
    <3>2. QED  BY <2>2, <2>5, <3>1 DEF C!Delete, Goes, Apart, Existing
  <2>6. ASSUME NEW i \in ID, Comes(i) PROVE C!Add(i)
    <3>1. SuffixOf(i) = None
      BY <2>6 DEF Comes, SuffixOf
    <3>2. QED  BY <2>2, <2>6, <3>1 DEF C!Add, Comes, Apart, Existing
  <2>7. ASSUME NEW i \in ID, NEW s \in Suffixes, Gets(i, s) PROVE C!Grant(i, s)
    BY <2>2, <2>7 DEF C!Grant, Gets, Apart, Existing
  <2>8. QED  BY <1>3, <2>3, <2>4, <2>5, <2>6, <2>7, SuffixesStep DEF C!Next
<1>4. QED  BY <1>1, <1>2, <1>3

\* Granted suffixes stay with their tailnets, and with them alone, and both stay
\* until the tailnet is deleted, or a crash finds the file unreadable; whatever the
\* rest of the program does.
THEOREM ImplementsClaims == Spec => KeepsClaims
<1>1. [C!Next]_C!vars => [UNCHANGED C!vars \/ C!Next]_vars
  OBVIOUS
<1>2. QED
  BY <1>1, CoreInvariant, SuffixedInvariant, ClaimsInFileInvariant, ClaimsInit, ClaimsStep, PTL
     DEF Spec, KeepsClaims

-----------------------------------------------------------------------------
(***************************************************************************)
(* Tailhopper's tailnets follow Lifecycle.  Every step leaves all objects  *)
(* alone but one, or makes them, or clears them; so what is to be shown is *)
(* which step of Lifecycle each command and notification is.  That a       *)
(* Logout ends what it began, though it gives the lock up in between, is   *)
(* the part that rests on an invariant, Logouts.                           *)
(***************************************************************************)

\* The mode of each state.
LEMMA ModeIs ==
  ASSUME NEW o \in Objects
  PROVE  /\ objects[o].state \in Sessions => Mode(objects[o]) = "on"
         /\ objects[o].state = StoppedState => Mode(objects[o]) = "off"
         /\ objects[o].state = LoggingOutState => Mode(objects[o]) = "leaving"
BY DEF Mode, Sessions, Running, ConnectedState, NeedsLoginState, StoppedState, LoggingOutState,
       HasTerminalErrorState

LEMMA ModeIsNext ==
  ASSUME NEW o \in Objects
  PROVE  /\ objects'[o].state \in Sessions => Mode(objects[o])' = "on"
         /\ objects'[o].state = StoppedState => Mode(objects[o])' = "off"
         /\ objects'[o].state = LoggingOutState => Mode(objects[o])' = "leaving"
         /\ objects'[o].state = HasTerminalErrorState => Mode(objects[o])' = "failed"
BY DEF Mode, Sessions, Running, ConnectedState, NeedsLoginState, StoppedState, LoggingOutState,
       HasTerminalErrorState

\* A step that shows in neither mode, wish nor suffix.
LEMMA FollowsHidden ==
  ASSUME NEW o \in Objects, objects[o] # None,
         objects'[o].user = objects[o].user, objects'[o].suffix = objects[o].suffix,
         \/ objects'[o].state = objects[o].state
         \/ objects[o].state \in Sessions /\ objects'[o].state \in Sessions
  PROVE  Follows(o)
<1>1. CASE objects'[o].state = objects[o].state
  <2>1. Mode(objects[o])' = Mode(objects[o])
    BY <1>1 DEF Mode
  <2>2. QED  BY <2>1 DEF Follows, L!vars
<1>2. CASE objects[o].state \in Sessions /\ objects'[o].state \in Sessions
  BY <1>2, ModeIs, ModeIsNext DEF Follows, L!vars
<1>3. QED  BY <1>1, <1>2

\* A start, by a request or by the restore.
LEMMA FollowsStart ==
  ASSUME TypeOK, NEW o, There(o), Start(o)
  PROVE  Follows(o)
<1>1. CASE objects[o].state # StoppedState
  BY <1>1 DEF Start, Follows
<1>2. CASE objects[o].state = StoppedState
  <2>1. /\ objects'[o].user = UserEnabled /\ objects'[o].suffix = objects[o].suffix
        /\ objects'[o].state \in {Running, StoppedState} /\ Running \in Sessions
    BY <1>2, StartEffect DEF Sessions
  <2>2. Mode(objects[o]) = "off" /\ Mode(objects[o])' \in {"on", "off"}
    BY <1>2, <2>1, ModeIs, ModeIsNext DEF There
  <2>3. L(o)!SwitchOn
    BY <2>1, <2>2 DEF L!SwitchOn, L!UserEnabled, UserEnabled
  <2>4. QED  BY <2>3 DEF Follows, There, L!Next
<1>3. QED  BY <1>1, <1>2

\* A stop by a request.
LEMMA FollowsStop ==
  ASSUME TypeOK, NEW o, There(o), Stop(o)
  PROVE  Follows(o)
<1>1. CASE objects[o].state \notin Sessions
  BY <1>1 DEF Stop, Follows
<1>2. CASE objects[o].state \in Sessions
  <2>1. /\ objects'[o].user = UserDisabled /\ objects'[o].suffix = objects[o].suffix
        /\ objects'[o].state = StoppedState
    BY <1>2, StopEffect
  <2>2. Mode(objects[o]) = "on" /\ Mode(objects[o])' = "off"
    BY <1>2, <2>1, ModeIs, ModeIsNext DEF There
  <2>3. L(o)!SwitchOff
    BY <2>1, <2>2 DEF L!SwitchOff, L!UserDisabled, UserDisabled
  <2>4. QED  BY <2>3 DEF Follows, There, L!Next
<1>3. QED  BY <1>1, <1>2

\* A logout begins ...
LEMMA FollowsLogoutBegins ==
  ASSUME TypeOK, NEW r \in Requests, LogoutBegins(r), NEW o, There(o), o = requests[r].object
  PROVE  Follows(o)
<1>1. CASE objects[o].state \notin {Running, StoppedState}
  BY <1>1 DEF LogoutBegins, Follows
<1>2. CASE objects[o].state \in {Running, StoppedState}
  <2> DEFINE t == [objects[o] EXCEPT !.state = LoggingOutState, !.user = UserDisabled,
                                     !.refused = FALSE]
  <2>1. objects'[o] = t
    BY <1>2 DEF LogoutBegins, TypeOK, There
  <2>2. t.state = LoggingOutState /\ t.user = UserDisabled /\ t.suffix = objects[o].suffix
    BY ObjectType DEF Tailnet
  <2>3. /\ objects'[o].user = UserDisabled /\ objects'[o].suffix = objects[o].suffix
        /\ objects'[o].state = LoggingOutState
    BY <2>1, <2>2
  <2>4. Mode(objects[o]) \in {"on", "off"} /\ Mode(objects[o])' = "leaving"
    BY <1>2, <2>3, ModeIs, ModeIsNext DEF There, Sessions
  <2>5. L(o)!Leave
    BY <2>3, <2>4 DEF L!Leave, L!UserDisabled, UserDisabled
  <2>6. QED  BY <2>5 DEF Follows, There, L!Next
<1>3. QED  BY <1>1, <1>2

\* ... and ends, with the tailnet as it left it.
LEMMA FollowsLogoutEnds ==
  ASSUME TypeOK, Logouts, NEW r \in Requests, LogoutEnds(r), NEW o, There(o), o = requests[r].object
  PROVE  Follows(o)
<1> DEFINE t == [objects[o] EXCEPT !.state = StoppedState]
<1>1. objects'[o] = t /\ objects[o].state = LoggingOutState
  BY DEF LogoutEnds, TypeOK, There, Logouts, LoggingOut
<1>2. t.state = StoppedState /\ t.user = objects[o].user /\ t.suffix = objects[o].suffix
  BY ObjectType DEF Tailnet
<1>3. /\ objects'[o].user = objects[o].user /\ objects'[o].suffix = objects[o].suffix
      /\ objects'[o].state = StoppedState
  BY <1>1, <1>2
<1>4. Mode(objects[o]) = "leaving" /\ Mode(objects[o])' = "off"
  BY <1>1, <1>3, ModeIs, ModeIsNext DEF There
<1>5. L(o)!Left
  BY <1>3, <1>4 DEF L!Left
<1>6. QED  BY <1>5 DEF Follows, There, L!Next

\* A claim or its refusal.
LEMMA FollowsClaim ==
  ASSUME TypeOK, NEW o \in Objects, NEW s \in Suffixes, ClaimGranted(o, s) \/ ClaimRefused(o, s)
  PROVE  Follows(o)
<1>1. objects[o] # None /\ objects[o].state \in Sessions /\ objects[o].suffix = None
  BY DEF ClaimGranted, ClaimRefused, Claims, Sessions
<1>2. Mode(objects[o]) = "on"
  BY <1>1, ModeIs
<1>3. CASE ClaimGranted(o, s)
  <2>1. /\ objects'[o].suffix \in {s, None} /\ objects'[o].user = objects[o].user
        /\ objects'[o].state \in Sessions
    BY <1>3, ClaimGrantedActs
  <2>2. CASE objects'[o].suffix = None
    BY <1>1, <2>1, <2>2, FollowsHidden
  <2>3. CASE objects'[o].suffix = s
    <3>1. L(o)!Claim
      BY <1>1, <1>2, <2>1, <2>3, ModeIsNext DEF L!Claim
    <3>2. QED  BY <1>1, <3>1 DEF Follows, L!Next
  <2>4. QED  BY <2>1, <2>2, <2>3
<1>4. CASE ClaimRefused(o, s)
  <2>1. /\ objects'[o].suffix = objects[o].suffix /\ objects'[o].user = UserDisabled
        /\ objects'[o].state \in Sessions \cup {HasTerminalErrorState}
    BY <1>4, ClaimRefusedActs
  <2>2. L(o)!Refuse
    BY <1>1, <1>2, <2>1, ModeIsNext DEF L!Refuse, L!UserDisabled, UserDisabled
  <2>3. QED  BY <1>1, <2>2 DEF Follows, L!Next
<1>5. QED  BY <1>3, <1>4

\* A tailnet that is made from an entry, read from the file or new.
LEMMA FollowsNew ==
  ASSUME NEW o \in Objects, objects[o] = None,
         NEW i \in ID, NEW e \in PersistedTailnet, objects'[o] = NewTailnet(i, e)
  PROVE  Follows(o)
<1>1. /\ objects'[o].suffix \in Suffixes \cup {None}
      /\ objects'[o].state = IF e.failed THEN HasTerminalErrorState ELSE StoppedState
      /\ objects'[o].user = IF e.enabled /\ ~e.failed THEN UserEnabled ELSE UserDisabled
  <2>1. e.suffix \in Suffixes \cup {None}
    BY DEF PersistedTailnet
  <2> DEFINE t == NewTailnet(i, e)
  <2>2. /\ t.suffix = e.suffix
        /\ t.state = IF e.failed THEN HasTerminalErrorState ELSE StoppedState
        /\ t.user = IF e.enabled /\ ~e.failed THEN UserEnabled ELSE UserDisabled
    BY NewTailnetType
  <2> HIDE DEF t
  <2>3. objects'[o] = t
    BY DEF t
  <2>4. QED  BY <2>1, <2>2, <2>3
<1>2. CASE e.failed
  <2>1. Mode(objects[o])' = "failed" /\ objects'[o].user = UserDisabled
    BY <1>1, <1>2, ModeIsNext
  <2>2. QED
    BY <1>1, <2>1 DEF Follows, L!Init, L!UserState, L!UserDisabled, UserDisabled
<1>3. CASE ~e.failed
  <2>1. Mode(objects[o])' = "off" /\ objects'[o].user \in {UserEnabled, UserDisabled}
    BY <1>1, <1>3, ModeIsNext
  <2>2. QED
    BY <1>1, <2>1 DEF Follows, L!Init, L!UserState, L!UserDisabled, L!UserEnabled,
                      UserEnabled, UserDisabled
<1>4. QED  BY <1>2, <1>3

\* Whatever happens, each object follows.
LEMMA FollowsStep ==
  ASSUME Core, Logouts, [Next]_vars
  PROVE  \A o \in Objects : Follows(o)
<1> USE DEF Core
<1>1. ASSUME NEW o, Acts(o), Follows(o) PROVE \A p \in Objects : Follows(p)
  BY <1>1 DEF Acts, Evolves, Follows
<1>2. CASE Load
  <2> SUFFICES ASSUME NEW o \in Objects, objects'[o] # None PROVE Follows(o)
    BY DEF Follows
  <2>1. objects[o] = None
    BY <1>2, LoadEffect DEF DownIsEmpty
  <2>2. PICK i \in Existing(file) : objects'[o] = NewTailnet(i, file[i])
    BY <1>2, LoadEffect
  <2>3. i \in ID /\ file[i] \in PersistedTailnet
    BY <1>2, LoadEffect DEF Existing
  <2>4. QED  BY <2>1, <2>2, <2>3, FollowsNew
<1>3. CASE Crash
  BY <1>3 DEF Crash, Follows
<1>4. ASSUME NEW i \in ID, Restore(i) PROVE \A o \in Objects : Follows(o)
  <2> SUFFICES ASSUME NEW o, o = registered[i] PROVE \A p \in Objects : Follows(p)
    OBVIOUS
  <2>1. There(o) /\ Acts(o) /\ (Start(o) \/ UNCHANGED objects)
    BY <1>4, RestoreEffect
  <2>2. Follows(o)
    BY <2>1, FollowsStart DEF Follows
  <2>3. QED  BY <1>1, <2>1, <2>2
<1>5. ASSUME NEW r \in Requests,
             StartTailnet(r) \/ StopTailnet(r) \/ LogoutBegins(r) \/ LogoutEnds(r)
      PROVE  \A o \in Objects : Follows(o)
  <2> SUFFICES ASSUME NEW o, o = requests[r].object PROVE \A p \in Objects : Follows(p)
    OBVIOUS
  <2>1. There(o) /\ Acts(o)
    BY <1>5, CommandEffect
  <2>2. Follows(o)
    BY <1>5, <2>1, FollowsStart, FollowsStop, FollowsLogoutBegins, FollowsLogoutEnds
       DEF StartTailnet, StopTailnet
  <2>3. QED  BY <1>1, <2>1, <2>2
<1>6. ASSUME NEW r \in Requests, Add(r) PROVE \A o \in Objects : Follows(o)
  <2>1. PICK i \in ID, p \in Ports, o \in Objects :
          objects[o] = None /\ objects' = [objects EXCEPT ![o] = NewTailnet(i, NewEntry(p))]
    BY <1>6 DEF Add
  <2>2. objects'[o] = NewTailnet(i, NewEntry(p)) /\ \A x \in Objects \ {o} : objects'[x] = objects[x]
    BY <2>1 DEF TypeOK
  <2>3. Follows(o)
    BY <2>1, <2>2, NewEntryType, FollowsNew
  <2>4. QED  BY <2>2, <2>3 DEF Follows
<1>7. ASSUME NEW o \in Objects, Transition(o) \/ ListenerCloses(o)
      PROVE  \A p \in Objects : Follows(p)
  <2>1. Acts(o) /\ Follows(o)
    BY <1>7, TransitionActs, FollowsHidden DEF Acts, There
  <2>2. QED  BY <1>1, <2>1
<1>8. ASSUME NEW o \in Objects, NEW s \in Suffixes, ClaimGranted(o, s) \/ ClaimRefused(o, s)
      PROVE  \A p \in Objects : Follows(p)
  <2>1. Acts(o)
    BY <1>8, NoticeEffect
  <2>2. QED  BY <1>1, <1>8, <2>1, FollowsClaim
<1>9. CASE UNCHANGED objects
  BY <1>9 DEF Follows
<1>10. QED
  BY <1>2, <1>3, <1>4, <1>5, <1>6, <1>7, <1>8, <1>9
     DEF Next, Handler, Get, Snapshot, Delete, CheckConfigured, AddFails, List, ReadCard, ServePAC, vars

\* Every tailnet does, as long as it is there, what Lifecycle says and nothing else.
THEOREM TailnetsFollowLifecycle == Spec => FollowLifecycle
<1>1. Core /\ Logouts /\ [Next]_vars => [\A o \in Objects : Follows(o)]_objects
  BY FollowsStep
<1>2. Spec => [][\A o \in Objects : Follows(o)]_objects
  BY <1>1, CoreInvariant, SwitchesInvariant, PTL DEF Spec
<1>3. QED  BY <1>2 DEF FollowLifecycle

=============================================================================
