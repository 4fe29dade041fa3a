-------------------------- MODULE TailhopperProofs --------------------------
(***************************************************************************)
(* Proofs about Tailhopper: its type invariant and its safety invariants,  *)
(* for all numbers of tailnets, objects, suffixes, ports and requests,     *)
(* across failed saves and crashes.                                        *)
(***************************************************************************)
EXTENDS Tailhopper, TLAPS

USE DEF UserEnabled, UserDisabled, ConnectedState, HasTerminalErrorState, LoggingOutState,
        NeedsLoginState, StoppedState

-----------------------------------------------------------------------------
(* What the operations touch. *)

File    == [ID -> PersistedTailnet \cup {None}] \cup {None}
Entries == [ID -> PersistedTailnet \cup {None}]

DiskType == file \in File /\ unsaved \in 0 .. MaxUnsaved /\ lost \in BOOLEAN

\* An object of the running process stands for every Tailnet.
There(o) == o \in Objects /\ objects[o] # None

\* However a save ends, the disk holds values of their types.
LEMMA SaveType ==
  ASSUME TypeOK, entries' \in Entries
  PROVE  /\ Saved => DiskType'
         /\ Unsaved => DiskType'
         /\ UNCHANGED disk => DiskType'
         /\ \A f \in File : Fault /\ file' = f => DiskType'
<1>1. entries' \in File /\ file \in File /\ None \in File
  BY DEF TypeOK, File, Entries
<1>2. Fault => unsaved' \in 0 .. MaxUnsaved /\ lost' = TRUE
  BY TailhopperAssumption DEF Fault, TypeOK
<1>3. unsaved \in 0 .. MaxUnsaved /\ lost \in BOOLEAN
  BY DEF TypeOK
<1>4. Saved => DiskType'
  BY <1>1, <1>3 DEF Saved, DiskType
<1>5. Unsaved => DiskType'
  BY <1>1, <1>2 DEF Unsaved, DiskType
<1>6. UNCHANGED disk => DiskType'
  BY <1>1, <1>3 DEF disk, DiskType
<1>7. \A f \in File : Fault /\ file' = f => DiskType'
  BY <1>2 DEF DiskType
<1>8. QED  BY <1>4, <1>5, <1>6, <1>7

\* Changing fields of an object, or of an entry, that exists gives one again.
LEMMA ObjectType ==
  ASSUME TypeOK, NEW o, There(o)
  PROVE  objects[o] \in Tailnet
BY DEF There, TypeOK

LEMMA EntryChange ==
  ASSUME TypeOK, NEW i \in Existing(entries)
  PROVE  /\ i \in ID /\ entries[i] \in PersistedTailnet
         /\ \A b \in BOOLEAN : [entries[i] EXCEPT !.enabled = b] \in PersistedTailnet
         /\ \A s \in Suffixes : [entries[i] EXCEPT !.suffix = s] \in PersistedTailnet
         /\ [entries[i] EXCEPT !.failed = TRUE] \in PersistedTailnet
         /\ \A b \in BOOLEAN : [entries[i] EXCEPT !.failed = TRUE, !.enabled = b] \in PersistedTailnet
<1>1. i \in ID /\ entries[i] \in PersistedTailnet
  BY DEF TypeOK, Existing
<1>2. QED  BY <1>1 DEF PersistedTailnet

\* Entry i is changed at most, and is there afterwards if it was there before.
Touches(i) ==
  /\ entries' \in Entries /\ DiskType'
  /\ \A j \in ID \ {i} : entries'[j] = entries[j]
  /\ entries'[i] = None <=> entries[i] = None

\* The callback that records the user's intent touches the entry of that tailnet.
LEMMA RecordUserStateTouches ==
  ASSUME TypeOK, NEW i \in ID, NEW b \in BOOLEAN, RecordUserState(i, b)
  PROVE  /\ Touches(i)
         /\ entries[i] # None =>
              /\ entries'[i] = [entries[i] EXCEPT !.enabled = b]
              /\ Saved \/ Unsaved
         /\ entries[i] = None => UNCHANGED saved
<1>1. CASE entries[i] = None
  BY <1>1, SaveType DEF RecordUserState, Touches, saved, TypeOK, Entries
<1>2. CASE entries[i] # None
  <2>1. /\ [entries[i] EXCEPT !.enabled = b] \in PersistedTailnet
        /\ entries' = [entries EXCEPT ![i] = [entries[i] EXCEPT !.enabled = b]]
        /\ Saved \/ Unsaved
    BY <1>2, EntryChange DEF RecordUserState, Existing
  <2>2. entries' \in Entries
    BY <2>1 DEF TypeOK, Entries
  <2>3. entries'[i] # None
    BY <2>1, TailhopperAssumption DEF TypeOK
  <2>4. QED  BY <1>2, <2>1, <2>2, <2>3, SaveType DEF Touches, TypeOK
<1>3. QED  BY <1>1, <1>2

\* So do those that record a terminal error.
LEMMA RecordTerminalErrorTouches ==
  ASSUME TypeOK, NEW i \in ID, NEW b \in BOOLEAN, RecordTerminalError(i, b)
  PROVE  /\ Touches(i)
         /\ entries[i] # None =>
              /\ entries'[i].failed = TRUE /\ entries'[i].suffix = entries[i].suffix
              /\ \/ Saved
                 \/ Unsaved
                 \/ Fault /\ file' = [entries EXCEPT ![i].failed = TRUE]
         /\ entries[i] = None => UNCHANGED saved
<1>1. CASE entries[i] = None
  BY <1>1, SaveType DEF RecordTerminalError, Touches, saved, TypeOK, Entries
<1>2. CASE entries[i] # None
  <2> DEFINE c == IF b THEN FALSE ELSE entries[i].enabled
             e == [entries[i] EXCEPT !.failed = TRUE, !.enabled = c]
  <2>1. c \in BOOLEAN
    BY <1>2, EntryChange DEF Existing, PersistedTailnet
  <2>2. e \in PersistedTailnet /\ [entries[i] EXCEPT !.failed = TRUE] \in PersistedTailnet
    BY <1>2, <2>1, EntryChange DEF Existing
  <2>3. entries' = [entries EXCEPT ![i] = e]
    BY <1>2 DEF RecordTerminalError, TypeOK, PersistedTailnet
  <2>4. entries' \in Entries /\ [entries EXCEPT ![i].failed = TRUE] \in File
    BY <2>2, <2>3 DEF TypeOK, Entries, File
  <2>5. entries'[i] = e /\ entries'[i] # None
    BY <2>2, <2>3, TailhopperAssumption DEF TypeOK
  <2>6. e.failed = TRUE /\ e.suffix = entries[i].suffix
    <3>1. entries[i] \in PersistedTailnet
      BY <1>2, EntryChange DEF Existing
    <3>2. QED  BY <3>1 DEF PersistedTailnet
  <2>7. /\ \/ Saved
           \/ Unsaved
           \/ Fault /\ file' = [entries EXCEPT ![i].failed = TRUE]
    BY <1>2 DEF RecordTerminalError
  <2>8. DiskType'
    BY <2>4, <2>7, SaveType
  <2>9. QED  BY <1>2, <2>3, <2>4, <2>5, <2>6, <2>7, <2>8 DEF Touches, TypeOK
<1>3. QED  BY <1>1, <1>2


\* Object o is changed at most, and remains that of the same tailnet, with its
\* port and, once it has one, its suffix.
Evolves(o) ==
  /\ objects' \in [Objects -> Tailnet \cup {None}]
  /\ \A p \in Objects \ {o} : objects'[p] = objects[p]
  /\ objects'[o] \in Tailnet /\ objects'[o] # None
  /\ objects'[o].id = objects[o].id /\ objects'[o].port = objects[o].port
  /\ objects[o].suffix # None => objects'[o].suffix = objects[o].suffix

IntentType == intent \in [ID -> {"none", "on", "off"}]

LEMMA EvolvesUnchanged ==
  ASSUME TypeOK, NEW o, There(o), UNCHANGED objects
  PROVE  Evolves(o)
BY TailhopperAssumption DEF Evolves, There, TypeOK

LEMMA IntendType ==
  ASSUME TypeOK, NEW o, There(o), NEW what \in {"on", "off"}, Intend(o, what)
  PROVE  /\ IntentType'
         /\ intent' = IF registered[objects[o].id] = o
                      THEN [intent EXCEPT ![objects[o].id] = what] ELSE intent
BY DEF Intend, IntentType, TypeOK

\* A Start that is not refused.
LEMMA StartEffect ==
  ASSUME TypeOK, NEW o, There(o), Start(o), objects[o].state = StoppedState
  PROVE  /\ RecordUserState(objects[o].id, TRUE)
         /\ Evolves(o)
         /\ objects'[o].suffix = objects[o].suffix /\ objects'[o].failed = objects[o].failed
         /\ objects'[o].user = UserEnabled
         /\ \/ objects'[o].state = Running
            \/ objects'[o].state = StoppedState /\ objects'[o].refused = TRUE
<1>1. objects[o] \in Tailnet /\ o \in Objects
  BY ObjectType DEF There
<1> DEFINE t1 == [objects[o] EXCEPT !.state = Running, !.user = UserEnabled, !.bound = TRUE,
                                    !.refused = FALSE]
           t2 == [objects[o] EXCEPT !.user = UserEnabled, !.refused = TRUE]
<1>2. /\ t1 \in Tailnet /\ t2 \in Tailnet
      /\ t1.state = Running /\ t1.user = UserEnabled /\ t1.suffix = objects[o].suffix
      /\ t1.id = objects[o].id /\ t1.port = objects[o].port /\ t1.failed = objects[o].failed
      /\ t2.state = objects[o].state /\ t2.user = UserEnabled /\ t2.suffix = objects[o].suffix
      /\ t2.id = objects[o].id /\ t2.port = objects[o].port /\ t2.failed = objects[o].failed
      /\ t2.refused = TRUE
  BY <1>1 DEF Tailnet, TailnetState, Sessions, Running, UserState
<1>3. \E t \in {t1, t2} : objects' = [objects EXCEPT ![o] = t]
  BY DEF Start
<1>4. PICK t \in {t1, t2} : objects' = [objects EXCEPT ![o] = t]
  BY <1>3
<1>5. /\ t \in Tailnet /\ t # None
      /\ t.id = objects[o].id /\ t.port = objects[o].port /\ t.suffix = objects[o].suffix
      /\ t.failed = objects[o].failed /\ t.user = UserEnabled
      /\ t.state = Running \/ (t.state = StoppedState /\ t.refused = TRUE)
  BY <1>2, TailhopperAssumption
<1>6. objects'[o] = t /\ \A p \in Objects \ {o} : objects'[p] = objects[p]
  BY <1>1, <1>4 DEF TypeOK
<1>7. objects' \in [Objects -> Tailnet \cup {None}]
  BY <1>4, <1>5 DEF TypeOK
<1>8. QED  BY <1>5, <1>6, <1>7 DEF Start, Evolves

\* A Stop that is not refused.
LEMMA StopEffect ==
  ASSUME TypeOK, NEW o, There(o), Stop(o), objects[o].state \in Sessions
  PROVE  /\ RecordUserState(objects[o].id, FALSE) /\ Intend(o, "off")
         /\ Evolves(o)
         /\ objects'[o].suffix = objects[o].suffix /\ objects'[o].failed = objects[o].failed
         /\ objects'[o].user = UserDisabled /\ objects'[o].state = StoppedState
<1>1. objects[o] \in Tailnet /\ o \in Objects
  BY ObjectType DEF There
<1> DEFINE t == [objects[o] EXCEPT !.state = StoppedState, !.user = UserDisabled, !.bound = FALSE]
<1>2. /\ t \in Tailnet
      /\ t.state = StoppedState /\ t.user = UserDisabled /\ t.suffix = objects[o].suffix
      /\ t.id = objects[o].id /\ t.port = objects[o].port /\ t.failed = objects[o].failed
  BY <1>1 DEF Tailnet, TailnetState, Sessions, Running, UserState
<1>3. objects' = [objects EXCEPT ![o] = t]
  BY DEF Stop
<1>4. QED  BY <1>1, <1>2, <1>3, TailhopperAssumption DEF Stop, Evolves, TypeOK

\* The steps of a Logout that is not refused.
LEMMA LogoutEffect ==
  ASSUME TypeOK, NEW o, There(o), NEW t,
         \/ t = [objects[o] EXCEPT !.state = LoggingOutState, !.user = UserDisabled,
                                   !.refused = FALSE]
         \/ t = [objects[o] EXCEPT !.state = StoppedState],
         objects' = [objects EXCEPT ![o] = t]
  PROVE  /\ Evolves(o) /\ objects'[o] = t
         /\ objects'[o].suffix = objects[o].suffix /\ objects'[o].failed = objects[o].failed
         /\ objects'[o].state = StoppedState =>
              objects'[o].user = objects[o].user /\ objects'[o].refused = objects[o].refused
         /\ objects'[o].state = LoggingOutState => objects'[o].user = UserDisabled
<1>1. objects[o] \in Tailnet /\ o \in Objects
  BY ObjectType DEF There
<1>2. /\ t \in Tailnet /\ t.suffix = objects[o].suffix
      /\ t.id = objects[o].id /\ t.port = objects[o].port /\ t.failed = objects[o].failed
      /\ t.state = StoppedState => t.user = objects[o].user /\ t.refused = objects[o].refused
      /\ t.state = LoggingOutState => t.user = UserDisabled
  BY <1>1 DEF Tailnet, TailnetState, Sessions, Running, UserState
<1>3. QED  BY <1>1, <1>2, TailhopperAssumption DEF Evolves, TypeOK

\* A step of object o, made by a command or a notification.
Acts(o) ==
  /\ There(o) /\ Evolves(o) /\ Touches(objects[o].id) /\ IntentType'
  /\ UNCHANGED <<up, registered, nextID>>

LEMMA StartActs ==
  ASSUME TypeOK, NEW o, There(o), Start(o), UNCHANGED <<up, registered, nextID>>, IntentType'
  PROVE  Acts(o)
<1>1. objects[o].id \in ID
  BY ObjectType DEF Tailnet
<1>2. CASE objects[o].state = StoppedState
  <2>1. RecordUserState(objects[o].id, TRUE) /\ Evolves(o)
    BY <1>2, StartEffect
  <2>2. Touches(objects[o].id)
    BY <1>1, <2>1, RecordUserStateTouches
  <2>3. QED  BY <2>1, <2>2 DEF Acts
<1>3. CASE objects[o].state # StoppedState
  <2>1. UNCHANGED <<entries, file, unsaved, lost, objects>>
    BY <1>3 DEF Start, saved, disk
  <2>2. Touches(objects[o].id)
    BY <2>1 DEF Touches, DiskType, TypeOK, Entries, File
  <2>3. QED  BY <2>1, <2>2, EvolvesUnchanged DEF Acts
<1>4. QED  BY <1>2, <1>3

LEMMA StopActs ==
  ASSUME TypeOK, NEW o, There(o), Stop(o), UNCHANGED <<up, registered, nextID>>
  PROVE  Acts(o)
<1>1. objects[o].id \in ID
  BY ObjectType DEF Tailnet
<1>2. CASE objects[o].state \in Sessions
  <2>1. RecordUserState(objects[o].id, FALSE) /\ Intend(o, "off") /\ Evolves(o)
    BY <1>2, StopEffect
  <2>2. Touches(objects[o].id) /\ IntentType'
    BY <1>1, <2>1, RecordUserStateTouches, IntendType
  <2>3. QED  BY <2>1, <2>2 DEF Acts
<1>3. CASE objects[o].state \notin Sessions
  <2>1. UNCHANGED <<entries, file, unsaved, lost, objects, intent>>
    BY <1>3 DEF Stop, saved, disk
  <2>2. Touches(objects[o].id) /\ IntentType'
    BY <2>1 DEF Touches, DiskType, TypeOK, Entries, File, IntentType
  <2>3. QED  BY <2>1, <2>2, EvolvesUnchanged DEF Acts
<1>4. QED  BY <1>2, <1>3

LEMMA LogoutBeginsActs ==
  ASSUME TypeOK, NEW r \in Requests, LogoutBegins(r), There(requests[r].object)
  PROVE  Acts(requests[r].object)
<1> DEFINE o == requests[r].object
<1>1. objects[o].id \in ID
  BY ObjectType DEF Tailnet
<1>2. CASE objects[o].state \in {Running, StoppedState}
  <2>1. /\ RecordUserState(objects[o].id, FALSE) /\ Intend(o, "off")
        /\ objects' = [objects EXCEPT ![o].state = LoggingOutState, ![o].user = UserDisabled,
                                      ![o].refused = FALSE]
    BY <1>2 DEF LogoutBegins
  <2>2. objects' = [objects EXCEPT ![o] = [objects[o] EXCEPT !.state = LoggingOutState,
                      !.user = UserDisabled, !.refused = FALSE]]
    BY <2>1 DEF TypeOK, There
  <2>3. Evolves(o)
    BY <2>2, LogoutEffect
  <2>4. Touches(objects[o].id) /\ IntentType'
    BY <1>1, <2>1, RecordUserStateTouches, IntendType
  <2>5. QED  BY <2>3, <2>4 DEF Acts, LogoutBegins
<1>3. CASE objects[o].state \notin {Running, StoppedState}
  <2>1. UNCHANGED <<entries, file, unsaved, lost, objects, intent>>
    BY <1>3 DEF LogoutBegins, saved, disk
  <2>2. Touches(objects[o].id) /\ IntentType'
    BY <2>1 DEF Touches, DiskType, TypeOK, Entries, File, IntentType
  <2>3. QED  BY <2>1, <2>2, EvolvesUnchanged DEF Acts, LogoutBegins
<1>4. QED  BY <1>2, <1>3

\* What touches no entry at all.
LEMMA UntouchedEntries ==
  ASSUME TypeOK, NEW i, UNCHANGED <<saved, intent>>
  PROVE  Touches(i) /\ IntentType'
BY DEF Touches, DiskType, TypeOK, Entries, File, IntentType, saved, disk

LEMMA LogoutEndsActs ==
  ASSUME TypeOK, NEW r \in Requests, LogoutEnds(r), There(requests[r].object)
  PROVE  Acts(requests[r].object)
<1> DEFINE o == requests[r].object
<1>1. objects' = [objects EXCEPT ![o] = [objects[o] EXCEPT !.state = StoppedState]]
  BY DEF LogoutEnds, TypeOK, There
<1>2. Evolves(o)
  BY <1>1, LogoutEffect
<1>3. UNCHANGED <<saved, intent, up, registered, nextID>>
  BY DEF LogoutEnds, registry
<1>4. QED  BY <1>2, <1>3, UntouchedEntries DEF Acts

\* A step of the bus, or the end of a listener.
LEMMA TransitionActs ==
  ASSUME TypeOK, NEW o \in Objects, Transition(o) \/ ListenerCloses(o)
  PROVE  /\ Acts(o)
         /\ objects'[o].suffix = objects[o].suffix /\ objects'[o].failed = objects[o].failed
         /\ objects'[o].user = objects[o].user /\ objects'[o].refused = objects[o].refused
         /\ \/ objects'[o].state = objects[o].state
            \/ objects[o].state \in Sessions /\ objects'[o].state \in Sessions
<1>1. There(o) /\ objects[o] \in Tailnet
  BY ObjectType DEF Transition, ListenerCloses, There
<1> DEFINE t1 == [objects[o] EXCEPT !.state = IF objects[o].state = Running
                                              THEN NeedsLoginState ELSE Running]
           t2 == [objects[o] EXCEPT !.bound = FALSE]
<1>2. /\ t1 \in Tailnet /\ t1.id = objects[o].id /\ t1.port = objects[o].port
      /\ t1.suffix = objects[o].suffix /\ t1.failed = objects[o].failed
      /\ t1.user = objects[o].user /\ t1.refused = objects[o].refused /\ t1.state \in Sessions
  BY <1>1 DEF Tailnet, TailnetState, Sessions, Running
<1>3. /\ t2 \in Tailnet /\ t2.id = objects[o].id /\ t2.port = objects[o].port
      /\ t2.suffix = objects[o].suffix /\ t2.failed = objects[o].failed
      /\ t2.user = objects[o].user /\ t2.refused = objects[o].refused
      /\ t2.state = objects[o].state
  BY <1>1 DEF Tailnet
<1>4. /\ Transition(o) => objects' = [objects EXCEPT ![o] = t1] /\ objects[o].state \in Sessions
      /\ ListenerCloses(o) => objects' = [objects EXCEPT ![o] = t2]
  BY DEF Transition, ListenerCloses, TypeOK
<1>5. PICK t \in {t1, t2} :
        /\ objects' = [objects EXCEPT ![o] = t]
        /\ t.state = objects[o].state \/ (objects[o].state \in Sessions /\ t.state \in Sessions)
  BY <1>2, <1>3, <1>4
<1>6. /\ t \in Tailnet /\ t # None /\ t.id = objects[o].id /\ t.port = objects[o].port
      /\ t.suffix = objects[o].suffix /\ t.failed = objects[o].failed
      /\ t.user = objects[o].user /\ t.refused = objects[o].refused
  BY <1>2, <1>3, TailhopperAssumption
<1>7. /\ objects'[o] = t /\ \A p \in Objects \ {o} : objects'[p] = objects[p]
      /\ objects' \in [Objects -> Tailnet \cup {None}]
  BY <1>5, <1>6 DEF TypeOK
<1>8. Evolves(o)
  BY <1>6, <1>7 DEF Evolves
<1>9. UNCHANGED <<saved, intent, up, registered, nextID>>
  BY DEF Transition, ListenerCloses, registry
<1>10. QED  BY <1>1, <1>5, <1>6, <1>7, <1>8, <1>9, UntouchedEntries DEF Acts

\* A claim that is granted: the entry has the suffix, and the tailnet too if that
\* was saved.
LEMMA ClaimGrantedActs ==
  ASSUME TypeOK, NEW o \in Objects, NEW s \in Suffixes, ClaimGranted(o, s)
  PROVE  /\ Acts(o)
         /\ entries[objects[o].id] # None
         /\ entries'[objects[o].id] = [entries[objects[o].id] EXCEPT !.suffix = s]
         /\ Saved \/ Unsaved
         /\ objects'[o].suffix \in {s, None} /\ objects'[o].failed = objects[o].failed
         /\ objects'[o].user = objects[o].user /\ objects'[o].refused = objects[o].refused
         /\ objects[o].state \in Sessions /\ objects'[o].state \in Sessions
         /\ objects[o].suffix = None
<1> DEFINE i == objects[o].id
<1>1. /\ There(o) /\ objects[o] \in Tailnet /\ i \in ID /\ entries[i] # None
      /\ objects[o].state = Running /\ objects[o].suffix = None
  BY ObjectType DEF ClaimGranted, Claims, There, Tailnet
<1>2. entries[i] \in PersistedTailnet
  BY <1>1 DEF TypeOK
<1>3. [entries[i] EXCEPT !.suffix = s] \in PersistedTailnet
  BY <1>2 DEF PersistedTailnet
<1>4. entries' = [entries EXCEPT ![i] = [entries[i] EXCEPT !.suffix = s]]
  BY <1>1 DEF ClaimGranted, TypeOK
<1>5. /\ entries' \in Entries /\ entries'[i] # None
      /\ entries'[i] = [entries[i] EXCEPT !.suffix = s]
      /\ \A j \in ID \ {i} : entries'[j] = entries[j]
  BY <1>1, <1>3, <1>4, TailhopperAssumption DEF TypeOK, Entries
<1>6. PICK next \in Sessions :
        \/ Saved /\ objects' = [objects EXCEPT ![o].suffix = s, ![o].state = next]
        \/ Unsaved /\ objects' = [objects EXCEPT ![o].state = next]
  BY DEF ClaimGranted
<1>7. Touches(i)
  BY <1>1, <1>5, <1>6, SaveType DEF Touches
<1> DEFINE t1 == [objects[o] EXCEPT !.suffix = s, !.state = next]
           t2 == [objects[o] EXCEPT !.state = next]
<1>8. /\ t1 \in Tailnet /\ t1.id = i /\ t1.port = objects[o].port
      /\ t1.suffix = s /\ t1.failed = objects[o].failed
      /\ t1.user = objects[o].user /\ t1.refused = objects[o].refused /\ t1.state \in Sessions
  BY <1>1 DEF Tailnet, TailnetState
<1>9. /\ t2 \in Tailnet /\ t2.id = i /\ t2.port = objects[o].port
      /\ t2.suffix = objects[o].suffix /\ t2.failed = objects[o].failed
      /\ t2.user = objects[o].user /\ t2.refused = objects[o].refused /\ t2.state \in Sessions
  BY <1>1 DEF Tailnet, TailnetState
<1>10. \E t \in {t1, t2} : objects' = [objects EXCEPT ![o] = t]
  <2>1. CASE objects' = [objects EXCEPT ![o].suffix = s, ![o].state = next]
    BY <2>1 DEF TypeOK
  <2>2. CASE objects' = [objects EXCEPT ![o].state = next]
    BY <2>2 DEF TypeOK
  <2>3. QED  BY <1>6, <2>1, <2>2
<1>11. PICK t \in {t1, t2} : objects' = [objects EXCEPT ![o] = t]
  BY <1>10
<1>12. /\ t \in Tailnet /\ t # None /\ t.id = i /\ t.port = objects[o].port
       /\ t.suffix \in {s, None} /\ t.failed = objects[o].failed
       /\ t.user = objects[o].user /\ t.refused = objects[o].refused /\ t.state \in Sessions
  BY <1>1, <1>8, <1>9, TailhopperAssumption
<1>13. /\ objects'[o] = t /\ \A p \in Objects \ {o} : objects'[p] = objects[p]
       /\ objects' \in [Objects -> Tailnet \cup {None}]
  BY <1>11, <1>12 DEF TypeOK
<1>14. Evolves(o)
  BY <1>1, <1>12, <1>13 DEF Evolves
<1>15. UNCHANGED <<intent, up, registered, nextID>> /\ IntentType'
  BY DEF ClaimGranted, TypeOK, IntentType
<1>16. Running \in Sessions
  BY DEF Sessions
<1>17. Acts(o)
  BY <1>1, <1>7, <1>14, <1>15 DEF Acts
<1>18. QED  BY <1>1, <1>5, <1>6, <1>12, <1>13, <1>16, <1>17

\* A claim that is refused: tailnet and entry have failed.
LEMMA ClaimRefusedActs ==
  ASSUME TypeOK, NEW o \in Objects, NEW s \in Suffixes, ClaimRefused(o, s)
  PROVE  /\ Acts(o)
         /\ \/ RecordTerminalError(objects[o].id, objects[o].user = UserEnabled) /\ Intend(o, "off")
            \/ RecordUserState(objects[o].id, FALSE) /\ Intend(o, "off")
            \/ UNCHANGED <<saved, intent>>
         /\ objects'[o].suffix = objects[o].suffix /\ objects'[o].failed = TRUE
         /\ objects'[o].user = UserDisabled /\ objects'[o].refused = objects[o].refused
         /\ objects'[o].state \in Sessions \cup {HasTerminalErrorState}
<1>1. There(o) /\ objects[o] \in Tailnet /\ objects[o].id \in ID
  BY ObjectType DEF ClaimRefused, Claims, There, Tailnet
<1>2. \/ RecordTerminalError(objects[o].id, objects[o].user = UserEnabled) /\ Intend(o, "off")
      \/ RecordUserState(objects[o].id, FALSE) /\ Intend(o, "off")
      \/ UNCHANGED <<saved, intent>>
  BY DEF ClaimRefused
<1>3. Touches(objects[o].id) /\ IntentType'
  <2>1. CASE UNCHANGED <<saved, intent>>
    BY <1>1, <2>1, UntouchedEntries
  <2>2. CASE ~UNCHANGED <<saved, intent>>
    BY <1>1, <1>2, <2>2, RecordTerminalErrorTouches, RecordUserStateTouches, IntendType
  <2>3. QED  BY <2>1, <2>2
<1>4. PICK next \in Sessions \cup {HasTerminalErrorState} :
        objects' = [objects EXCEPT ![o].failed = TRUE, ![o].user = UserDisabled, ![o].state = next]
  BY DEF ClaimRefused
<1> DEFINE t == [objects[o] EXCEPT !.failed = TRUE, !.user = UserDisabled, !.state = next]
<1>5. /\ t \in Tailnet /\ t.id = objects[o].id /\ t.port = objects[o].port
      /\ t.suffix = objects[o].suffix /\ t.failed = TRUE
      /\ t.user = UserDisabled /\ t.refused = objects[o].refused /\ t.state = next
  BY <1>1 DEF Tailnet, TailnetState, UserState
<1>6. objects' = [objects EXCEPT ![o] = t] /\ t # None
  BY <1>4, <1>5, TailhopperAssumption DEF TypeOK
<1>7. /\ objects'[o] = t /\ \A p \in Objects \ {o} : objects'[p] = objects[p]
      /\ objects' \in [Objects -> Tailnet \cup {None}]
  BY <1>5, <1>6 DEF TypeOK
<1>8. Evolves(o)
  BY <1>5, <1>6, <1>7 DEF Evolves
<1>9. UNCHANGED <<up, registered, nextID>>
  BY DEF ClaimRefused
<1>10. QED  BY <1>1, <1>2, <1>3, <1>5, <1>7, <1>8, <1>9 DEF Acts

-----------------------------------------------------------------------------
(***************************************************************************)
(* Types and ownership.  The registry has an object for every entry, of    *)
(* the tailnet with that ID; every object, registered or not, has an ID    *)
(* that was given out; and what a request has read is still there.         *)
(***************************************************************************)

\* A request in these places has found its tailnet.
TargetPC == {"start", "command", "logout", "loggingOut", "delete"}

\* What request q holds is there and has not changed in what cannot change.
Valid(q) ==
  /\ q.object # None => objects[q.object] # None
  /\ q.pc \in TargetPC => q.object \in Objects /\ q.id \in ID
  /\ \A p \in q.list : objects[p] # None
  /\ \A c \in q.cards :
       /\ objects[c.object] # None /\ objects[c.object].port = c.port
       /\ c.suffix # None => objects[c.object].suffix = c.suffix

RequestsValid == \A r \in Requests : Valid(requests[r])

RegisteredObjects ==
  \A i \in ID :
    /\ registered[i] = None <=> entries[i] = None
    /\ registered[i] # None => There(registered[i]) /\ objects[registered[i]].id = i

IDsGivenOut ==
  /\ \A i \in Existing(entries) : i < nextID
  /\ \A o \in Objects : objects[o] # None => objects[o].id < nextID

DownIsEmpty ==
  ~up => /\ \A o \in Objects : objects[o] = None
         /\ \A i \in ID : entries[i] = None /\ registered[i] = None
         /\ todo = {}

ServesLate == ~Serving => \A r \in Requests : requests[r] = Idle

RestoresRegistered == todo \subseteq Existing(registered)

Core ==
  /\ TypeOK /\ RequestsValid /\ RegisteredObjects /\ IDsGivenOut /\ DownIsEmpty
  /\ ServesLate /\ RestoresRegistered /\ EntryOwned

\* An idle request holds nothing.
LEMMA IdleValid ==
  /\ Idle \in Request
  /\ Idle.object = None /\ Idle.id = None /\ Idle.pc = "idle"
  /\ Idle.list = {} /\ Idle.cards = {}
BY DEF Idle, Request, RequestPC

\* The program starts in it.
LEMMA CoreInit == Init => Core
<1> SUFFICES ASSUME Init PROVE Core
  OBVIOUS
<1>1. \A i \in ID : entries[i] = None /\ registered[i] = None
  BY DEF Init, NoEntries
<1>2. TypeOK
  <2>1. NoEntries \in Entries /\ NoEntries \in [ID -> Objects \cup {None}]
    BY DEF NoEntries, Entries
  <2>2. 1 \in 1 .. (MaxID + 1) /\ 0 \in 0 .. MaxUnsaved
    BY TailhopperAssumption
  <2>3. QED  BY <2>1, <2>2, IdleValid DEF Init, TypeOK, Entries
<1>3. RequestsValid
  BY IdleValid DEF Init, RequestsValid, Valid, TargetPC
<1>4. QED
  BY <1>1, <1>2, <1>3 DEF Init, Core, RegisteredObjects, IDsGivenOut, DownIsEmpty, ServesLate,
     RestoresRegistered, EntryOwned, Existing

\* What requests may do in a step of an object: go on with what they have, or end.
GoOnOrEnd ==
  /\ requests' \in [Requests -> Request]
  /\ \A r \in Requests :
       \/ requests'[r] = requests[r]
       \/ requests'[r] = Idle
       \/ /\ requests[r].pc \in TargetPC /\ requests'[r].pc \in TargetPC
          /\ requests'[r].object = requests[r].object /\ requests'[r].id = requests[r].id
          /\ requests'[r].list = requests[r].list /\ requests'[r].cards = requests[r].cards

\* One request ends, or goes on to another place.
LEMMA RequestStep ==
  ASSUME TypeOK, NEW r \in Requests
  PROVE  /\ Answered(r) => GoOnOrEnd
         /\ requests[r].pc \in TargetPC => \A pc \in TargetPC : GoesOn(r, pc) => GoOnOrEnd
         /\ UNCHANGED requests => GoOnOrEnd
<1>1. Answered(r) => GoOnOrEnd
  BY IdleValid DEF Answered, GoOnOrEnd, TypeOK
<1>2. UNCHANGED requests => GoOnOrEnd
  BY DEF GoOnOrEnd, TypeOK
<1>3. ASSUME requests[r].pc \in TargetPC, NEW pc \in TargetPC, GoesOn(r, pc) PROVE GoOnOrEnd
  <2> DEFINE q == [requests[r] EXCEPT !.pc = pc]
  <2>1. requests[r] \in Request
    BY DEF TypeOK
  <2>2. /\ q \in Request /\ q.pc = pc /\ q.object = requests[r].object /\ q.id = requests[r].id
        /\ q.list = requests[r].list /\ q.cards = requests[r].cards
    BY <2>1 DEF Request, TargetPC, RequestPC
  <2>3. requests' = [requests EXCEPT ![r] = q]
    BY <1>3 DEF GoesOn, TypeOK
  <2>4. QED  BY <1>3, <2>2, <2>3 DEF GoOnOrEnd, TypeOK
<1>4. QED  BY <1>1, <1>2, <1>3

\* A step of an object keeps all of it.
LEMMA CoreActs ==
  ASSUME Core, NEW o, Acts(o), GoOnOrEnd, todo' \subseteq todo
  PROVE  Core'
<1> USE DEF Core
<1>1. /\ o \in Objects /\ objects[o] \in Tailnet /\ objects[o].id \in ID
      /\ UNCHANGED <<up, registered, nextID>>
      /\ objects'[o] \in Tailnet /\ objects'[o] # None /\ objects[o] # None
      /\ objects'[o].id = objects[o].id /\ objects'[o].port = objects[o].port
      /\ objects[o].suffix # None => objects'[o].suffix = objects[o].suffix
      /\ \A p \in Objects \ {o} : objects'[p] = objects[p]
  BY ObjectType DEF Acts, There, Evolves, Tailnet
<1>2. \A i \in ID : entries'[i] = None <=> entries[i] = None
  BY <1>1 DEF Acts, Touches
<1>3. TypeOK'
  BY <1>1 DEF Acts, Evolves, Touches, DiskType, File, Entries, IntentType, GoOnOrEnd, TypeOK
<1>4. \A p \in Objects : /\ objects'[p] = None <=> objects[p] = None
                        /\ objects[p] # None => objects'[p].id = objects[p].id
  BY <1>1
<1>5. up /\ up'
  BY <1>1 DEF DownIsEmpty
<1>6. RequestsValid'
  <2> SUFFICES ASSUME NEW r \in Requests PROVE Valid(requests[r])'
    BY DEF RequestsValid
  <2>1. CASE requests'[r] = Idle
    BY <2>1, IdleValid DEF Valid, TargetPC
  <2>2. CASE requests'[r] # Idle
    <3>1. /\ requests'[r].object = requests[r].object /\ requests'[r].id = requests[r].id
          /\ requests'[r].list = requests[r].list /\ requests'[r].cards = requests[r].cards
          /\ requests'[r].pc \in TargetPC => requests[r].pc \in TargetPC
          /\ requests[r] \in Request
      BY <2>2 DEF GoOnOrEnd, TypeOK
    <3>2. /\ requests[r].object \in Objects \cup {None} /\ requests[r].list \subseteq Objects
          /\ \A c \in requests[r].cards : c.object \in Objects
      BY <3>1 DEF Request, Card
    <3>3. Valid(requests[r])
      BY DEF RequestsValid
    <3>4. QED  BY <1>1, <1>4, <3>1, <3>2, <3>3 DEF Valid
  <2>3. QED  BY <2>1, <2>2
<1>7. RegisteredObjects'
  BY <1>1, <1>2, <1>4 DEF RegisteredObjects, There
<1>8. IDsGivenOut'
  BY <1>1, <1>2, <1>4 DEF IDsGivenOut, Existing
<1>9. DownIsEmpty'
  BY <1>5 DEF DownIsEmpty
<1>10. RestoresRegistered'
  BY <1>1 DEF RestoresRegistered, Existing
<1>11. EntryOwned'
  BY <1>1, <1>2, <1>4 DEF EntryOwned, TypeOK, Tailnet
<1>12. ServesLate'
  BY <1>5, IdleValid DEF ServesLate, Serving, GoOnOrEnd, TargetPC
<1>13. QED  BY <1>3, <1>6, <1>7, <1>8, <1>9, <1>10, <1>11, <1>12

\* A step of a request that only looks keeps all of it.
LEMMA CoreLooks ==
  ASSUME Core, NEW r \in Requests, NEW q \in Request, requests' = [requests EXCEPT ![r] = q],
         Valid(q), Serving, UNCHANGED <<up, todo, registry, objects, intent>>
  PROVE  Core'
<1> USE DEF Core
<1>1. UNCHANGED <<up, todo, entries, file, unsaved, lost, registered, nextID, objects, intent>>
  BY DEF registry, saved, disk
<1>2. TypeOK'
  BY <1>1 DEF TypeOK
<1>3. RequestsValid'
  <2> SUFFICES ASSUME NEW p \in Requests PROVE Valid(requests[p])'
    BY DEF RequestsValid
  <2>1. requests'[p] = q \/ requests'[p] = requests[p]
    BY DEF TypeOK
  <2>2. Valid(requests[p]) /\ Valid(q)
    BY DEF RequestsValid
  <2>3. QED  BY <1>1, <2>1, <2>2 DEF Valid
<1>4. /\ RegisteredObjects' /\ IDsGivenOut' /\ DownIsEmpty' /\ ServesLate'
      /\ RestoresRegistered' /\ EntryOwned'
  BY <1>1 DEF RegisteredObjects, There, IDsGivenOut, DownIsEmpty, ServesLate, Serving,
              RestoresRegistered, EntryOwned, Existing
<1>5. QED  BY <1>2, <1>3, <1>4

\* Everything a request can look at is valid.
LEMMA CoreReads ==
  ASSUME Core, NEW r \in Requests,
         \/ \E i \in ID : Get(r, i)
         \/ Snapshot(r) \/ CheckConfigured(r)
         \/ List(r) \/ ServePAC(r) \/ \E o \in Objects : ReadCard(r, o)
  PROVE  Core'
<1> USE DEF Core
<1>0. requests[r] \in Request /\ Valid(requests[r])
  BY DEF TypeOK, RequestsValid
<1>1. ASSUME NEW i \in ID, Get(r, i) PROVE Core'
  <2> DEFINE q == [Idle EXCEPT !.pc = "command", !.object = registered[i], !.id = i]
  <2>1. registered[i] \in Objects /\ objects[registered[i]] # None /\ Serving
    BY <1>1 DEF Get, RegisteredObjects, There
  <2>2. /\ q \in Request /\ q.pc = "command" /\ q.object = registered[i] /\ q.id = i
        /\ q.list = {} /\ q.cards = {}
    BY <2>1 DEF Idle, Request, RequestPC
  <2>3. Valid(q)
    BY <2>1, <2>2 DEF Valid
  <2>4. QED  BY <1>1, <2>1, <2>2, <2>3, CoreLooks DEF Get
<1>2. ASSUME Snapshot(r) PROVE Core'
  <2>1. PICK pc \in {"delete", "logout"} : GoesOn(r, pc)
    BY <1>2 DEF Snapshot
  <2> DEFINE q == [requests[r] EXCEPT !.pc = pc]
  <2>2. /\ q \in Request /\ q.pc = pc /\ q.object = requests[r].object /\ q.id = requests[r].id
        /\ q.list = requests[r].list /\ q.cards = requests[r].cards
    BY <1>0 DEF Request, RequestPC
  <2>3. Valid(q)
    BY <1>0, <1>2, <2>2 DEF Valid, Snapshot, TargetPC
  <2>4. Serving
    BY <1>2, IdleValid DEF Snapshot, ServesLate
  <2>5. requests' = [requests EXCEPT ![r] = q]
    BY <2>1 DEF GoesOn, TypeOK
  <2>6. QED  BY <1>2, <2>2, <2>3, <2>4, <2>5, CoreLooks DEF Snapshot
<1>3. ASSUME CheckConfigured(r) PROVE Core'
  <2> DEFINE q == [requests[r] EXCEPT !.pc = "add"]
  <2>1. requests[r] = Idle /\ Serving /\ requests' = [requests EXCEPT ![r] = q]
    BY <1>3 DEF CheckConfigured, GoesOn, TypeOK
  <2>2. q \in Request /\ q.pc = "add" /\ q.object = None /\ q.list = {} /\ q.cards = {}
    BY <2>1 DEF Idle, Request, RequestPC
  <2>3. Valid(q)
    BY <2>2 DEF Valid, TargetPC
  <2>4. QED  BY <1>3, <2>1, <2>2, <2>3, CoreLooks DEF CheckConfigured
<1>4. ASSUME List(r) PROVE Core'
  <2> DEFINE l == {registered[i] : i \in Existing(registered)}
             q == [Idle EXCEPT !.pc = "pac", !.list = l]
  <2>1. \A p \in l : p \in Objects /\ objects[p] # None
    BY DEF Existing, RegisteredObjects, There
  <2>2. q \in Request /\ q.pc = "pac" /\ q.object = None /\ q.list = l /\ q.cards = {}
    BY <2>1 DEF Idle, Request, RequestPC
  <2>3. Valid(q)
    BY <2>1, <2>2 DEF Valid, TargetPC
  <2>4. QED  BY <1>4, <2>2, <2>3, CoreLooks DEF List
<1>5. ASSUME ServePAC(r) PROVE Core'
  <2>1. Valid(Idle) /\ Serving
    BY <1>5, IdleValid DEF Valid, TargetPC, ServePAC, ServesLate
  <2>2. QED  BY <1>5, <2>1, IdleValid, CoreLooks DEF ServePAC, Answered
<1>6. ASSUME NEW o \in Objects, ReadCard(r, o) PROVE Core'
  <2> DEFINE q == [requests[r] EXCEPT !.list = @ \ {o}, !.cards = @ \cup Rules(o)]
  <2>1. o \in requests[r].list /\ objects[o] # None /\ objects[o] \in Tailnet
    BY <1>0, <1>6 DEF ReadCard, Valid, TypeOK
  <2>2. \A c \in Rules(o) : /\ c \in Card /\ c.object = o
                            /\ c.port = objects[o].port /\ c.suffix = objects[o].suffix
    BY <2>1 DEF Rules, Card, Tailnet
  <2>3. /\ q \in Request /\ q.pc = requests[r].pc
        /\ q.object = requests[r].object /\ q.id = requests[r].id
        /\ q.list = requests[r].list \ {o} /\ q.cards = requests[r].cards \cup Rules(o)
    BY <1>0, <2>2 DEF Request
  <2>4. Valid(q)
    BY <1>0, <2>1, <2>2, <2>3 DEF Valid
  <2>5. Serving
    BY <2>1, IdleValid DEF ServesLate
  <2>6. requests' = [requests EXCEPT ![r] = q]
    BY <1>6 DEF ReadCard, TypeOK
  <2>7. QED  BY <1>6, <2>3, <2>4, <2>5, <2>6, CoreLooks DEF ReadCard
<1>7. QED  BY <1>1, <1>2, <1>3, <1>4, <1>5, <1>6

\* Registry.Delete keeps all of it: the object lives on, the ID is not given out.
LEMMA CoreDelete ==
  ASSUME Core, NEW r \in Requests, Delete(r)
  PROVE  Core'
<1> USE DEF Core
<1> DEFINE i == requests[r].id
<1>1. i \in ID /\ Serving /\ GoOnOrEnd /\ Answered(r)
  <2>1. Valid(requests[r]) /\ requests[r].pc = "delete" /\ Answered(r)
    BY DEF RequestsValid, Delete
  <2>2. QED  BY <2>1, IdleValid, RequestStep DEF Valid, TargetPC, ServesLate
<1>2. UNCHANGED <<up, todo, nextID, objects>> /\ up /\ todo = {}
  BY <1>1 DEF Delete, Serving
<1>3. /\ entries' \in Entries /\ registered' \in [ID -> Objects \cup {None}]
      /\ DiskType' /\ IntentType'
      /\ \A j \in ID \ {i} : entries'[j] = entries[j] /\ registered'[j] = registered[j]
      /\ entries'[i] = None /\ registered'[i] = None
  <2>1. CASE entries[i] = None
    BY <1>1, <2>1 DEF Delete, saved, disk, TypeOK, Entries, DiskType, File, IntentType, RegisteredObjects
  <2>2. CASE entries[i] # None
    <3>1. entries' \in Entries /\ (Saved \/ Unsaved)
      BY <1>1, <2>2 DEF Delete, TypeOK, Entries
    <3>2. QED  BY <1>1, <2>2, <3>1, SaveType DEF Delete, TypeOK, IntentType
  <2>3. QED  BY <2>1, <2>2
<1>4. TypeOK'
  BY <1>1, <1>2, <1>3 DEF GoOnOrEnd, DiskType, File, Entries, IntentType, TypeOK
<1>5. RequestsValid'
  <2>1. Valid(Idle)'
    BY IdleValid DEF Valid, TargetPC
  <2>2. \A p \in Requests : requests'[p] = Idle \/ requests'[p] = requests[p]
    BY <1>1 DEF Answered, TypeOK
  <2>3. QED  BY <1>2, <2>1, <2>2 DEF RequestsValid, Valid
<1>6. RegisteredObjects'
  BY <1>1, <1>2, <1>3 DEF RegisteredObjects, There
<1>7. IDsGivenOut' /\ DownIsEmpty' /\ ServesLate' /\ RestoresRegistered'
  BY <1>2, <1>3 DEF IDsGivenOut, DownIsEmpty, ServesLate, Serving, RestoresRegistered, Existing
<1>8. EntryOwned'
  BY <1>2, <1>3 DEF EntryOwned, TypeOK, Tailnet
<1>9. QED  BY <1>4, <1>5, <1>6, <1>7, <1>8

\* What NewTailnet makes of an entry.
LEMMA NewTailnetType ==
  ASSUME NEW i \in ID, NEW e \in PersistedTailnet
  PROVE  /\ NewTailnet(i, e) \in Tailnet /\ NewTailnet(i, e) # None
         /\ NewTailnet(i, e).id = i /\ NewTailnet(i, e).suffix = e.suffix
         /\ NewTailnet(i, e).failed = e.failed /\ NewTailnet(i, e).refused = FALSE
         /\ NewTailnet(i, e).state = IF e.failed THEN HasTerminalErrorState ELSE StoppedState
         /\ NewTailnet(i, e).user = IF e.enabled /\ ~e.failed THEN UserEnabled ELSE UserDisabled
<1>1. NewTailnet(i, e) \in Tailnet
  BY DEF NewTailnet, Tailnet, TailnetState, UserState, PersistedTailnet
<1>2. QED  BY <1>1, TailhopperAssumption DEF NewTailnet

LEMMA NewEntryType ==
  ASSUME NEW p \in Ports
  PROVE  NewEntry(p) \in PersistedTailnet /\ NewEntry(p) # None
<1>1. NewEntry(p) \in PersistedTailnet
  BY DEF NewEntry, PersistedTailnet
<1>2. QED  BY <1>1, TailhopperAssumption

\* Registry.Add keeps all of it, because the ID is nobody's.
LEMMA CoreAdd ==
  ASSUME Core, NEW r \in Requests, Add(r)
  PROVE  Core'
<1> USE DEF Core
<1>1. PICK i \in ID, p \in Ports, o \in Objects :
        /\ i = nextID /\ objects[o] = None
        /\ objects' = [objects EXCEPT ![o] = NewTailnet(i, NewEntry(p))]
        /\ entries' = [entries EXCEPT ![i] = NewEntry(p)]
        /\ Saved
        /\ registered' = [registered EXCEPT ![i] = o]
        /\ requests' = [requests EXCEPT ![r] = [Idle EXCEPT !.pc = "start", !.object = o, !.id = i]]
        /\ intent' = [intent EXCEPT ![i] = "off"]
  BY DEF Add, FreshID
<1> DEFINE t == NewTailnet(i, NewEntry(p))
           q == [Idle EXCEPT !.pc = "start", !.object = o, !.id = i]
<1>2. NewEntry(p) \in PersistedTailnet /\ NewEntry(p) # None
  BY NewEntryType
<1>3. t \in Tailnet /\ t # None /\ t.id = i
  BY <1>2, NewTailnetType
<1>4. nextID' = nextID + 1 /\ UNCHANGED <<up, todo>> /\ nextID \in Nat /\ nextID <= MaxID
  BY TailhopperAssumption DEF Add, TypeOK
<1>5. Serving /\ up /\ todo = {}
  BY IdleValid DEF Add, ServesLate, Serving
<1>6. /\ q \in Request /\ q.pc = "start" /\ q.object = o /\ q.id = i
      /\ q.list = {} /\ q.cards = {}
  BY DEF Idle, Request, RequestPC
<1>7. /\ objects'[o] = t /\ \A x \in Objects \ {o} : objects'[x] = objects[x]
      /\ entries'[i] = NewEntry(p) /\ \A j \in ID \ {i} : entries'[j] = entries[j]
      /\ registered'[i] = o /\ \A j \in ID \ {i} : registered'[j] = registered[j]
      /\ requests'[r] = q /\ \A x \in Requests \ {r} : requests'[x] = requests[x]
  BY <1>1 DEF TypeOK
<1>8. TypeOK'
  <2>1. entries' \in Entries
    BY <1>1, <1>2 DEF TypeOK, Entries
  <2>2. DiskType'
    BY <1>1, <2>1, SaveType
  <2>3. nextID' \in 1 .. (MaxID + 1)
    BY <1>4, TailhopperAssumption DEF TypeOK
  <2>4. QED  BY <1>1, <1>3, <1>4, <1>6, <2>1, <2>2, <2>3 DEF TypeOK, Entries, DiskType, File
<1>9. RequestsValid'
  <2> SUFFICES ASSUME NEW x \in Requests PROVE Valid(requests[x])'
    BY DEF RequestsValid
  <2>1. CASE x = r
    BY <1>3, <1>6, <1>7, <2>1 DEF Valid
  <2>2. CASE x # r
    <3>1. Valid(requests[x]) /\ requests'[x] = requests[x] /\ requests[x] \in Request
      BY <1>7, <2>2 DEF RequestsValid, TypeOK
    <3>2. /\ requests[x].object \in Objects \cup {None} /\ requests[x].list \subseteq Objects
          /\ \A c \in requests[x].cards : c.object \in Objects
      BY <3>1 DEF Request, Card
    <3>3. o # requests[x].object /\ o \notin requests[x].list /\ \A c \in requests[x].cards : o # c.object
      BY <1>1, <3>1, TailhopperAssumption DEF Valid
    <3>4. QED  BY <1>7, <3>1, <3>2, <3>3 DEF Valid
  <2>3. QED  BY <2>1, <2>2
<1>10. i \notin Existing(entries) /\ \A x \in Objects : objects[x] # None => objects[x].id # i
  BY <1>1, <1>4 DEF IDsGivenOut
<1>11. RegisteredObjects'
  BY <1>1, <1>2, <1>3, <1>7, <1>10, TailhopperAssumption DEF RegisteredObjects, There
<1>12. IDsGivenOut'
  <2>1. \A j \in Existing(entries)' : j < nextID'
    BY <1>1, <1>4, <1>7 DEF IDsGivenOut, Existing, ID
  <2>2. \A x \in Objects : objects'[x] # None => objects'[x].id < nextID'
    BY <1>1, <1>3, <1>4, <1>7 DEF IDsGivenOut, TypeOK, Tailnet, ID
  <2>3. QED  BY <2>1, <2>2 DEF IDsGivenOut
<1>13. DownIsEmpty' /\ ServesLate' /\ RestoresRegistered'
  BY <1>4, <1>5 DEF DownIsEmpty, ServesLate, Serving, RestoresRegistered
<1>14. EntryOwned'
  BY <1>1, <1>3, <1>7, <1>10 DEF EntryOwned, TypeOK, Tailnet
<1>15. QED  BY <1>8, <1>9, <1>11, <1>12, <1>13, <1>14

\* A failed Add uses up an ID.
LEMMA CoreAddFails ==
  ASSUME Core, NEW r \in Requests, AddFails(r)
  PROVE  Core'
<1> USE DEF Core
<1>1. /\ UNCHANGED <<up, todo, entries, registered, objects, intent>> /\ Answered(r)
      /\ nextID' = nextID + 1 /\ nextID' \in 1 .. (MaxID + 1) /\ nextID \in Nat
      /\ Unsaved \/ UNCHANGED disk
  BY TailhopperAssumption DEF AddFails, TypeOK
<1>2. entries' \in Entries
  BY <1>1 DEF TypeOK, Entries
<1>3. DiskType' /\ GoOnOrEnd
  BY <1>1, <1>2, SaveType, RequestStep
<1>4. TypeOK'
  BY <1>1, <1>3 DEF DiskType, File, GoOnOrEnd, TypeOK
<1>5. RequestsValid'
  <2>1. Valid(Idle)'
    BY IdleValid DEF Valid, TargetPC
  <2>2. \A p \in Requests : requests'[p] = Idle \/ requests'[p] = requests[p]
    BY <1>1 DEF Answered, TypeOK
  <2>3. QED  BY <1>1, <2>1, <2>2 DEF RequestsValid, Valid
<1>6. IDsGivenOut'
  BY <1>1 DEF IDsGivenOut, Existing, TypeOK, Tailnet, ID
<1>7. Serving
  BY IdleValid DEF AddFails, ServesLate
<1>8. RegisteredObjects' /\ DownIsEmpty' /\ ServesLate' /\ RestoresRegistered' /\ EntryOwned'
  BY <1>1, <1>7 DEF RegisteredObjects, There, DownIsEmpty, ServesLate, Serving, RestoresRegistered,
                    EntryOwned, Existing
<1>9. QED  BY <1>4, <1>5, <1>6, <1>8

\* A crash leaves nothing but the file and the intent.
LEMMA CoreCrash ==
  ASSUME Core, Crash
  PROVE  Core'
<1> USE DEF Core
<1>1. /\ ~up' /\ todo' = {} /\ nextID' = 1 /\ UNCHANGED <<file, unsaved, lost>>
      /\ \A i \in ID : entries'[i] = None /\ registered'[i] = None
      /\ \A o \in Objects : objects'[o] = None
      /\ \A r \in Requests : requests'[r] = Idle
  BY DEF Crash, NoEntries, disk
<1>2. TypeOK'
  <2>1. NoEntries \in Entries /\ NoEntries \in [ID -> Objects \cup {None}]
    BY DEF NoEntries, Entries
  <2>2. nextID' \in 1 .. (MaxID + 1)
    BY <1>1, TailhopperAssumption
  <2>3. intent' \in [ID -> {"none", "on", "off"}]
    BY DEF Crash, IntentOf, TypeOK
  <2>4. QED  BY <1>1, <2>1, <2>2, <2>3, IdleValid DEF Crash, TypeOK, Entries
<1>3. RequestsValid'
  BY <1>1, IdleValid DEF RequestsValid, Valid, TargetPC
<1>4. RegisteredObjects' /\ IDsGivenOut' /\ RestoresRegistered' /\ EntryOwned'
  BY <1>1 DEF RegisteredObjects, IDsGivenOut, RestoresRegistered, EntryOwned, Existing
<1>5. DownIsEmpty' /\ ServesLate'
  BY <1>1 DEF DownIsEmpty, ServesLate
<1>6. QED  BY <1>2, <1>3, <1>4, <1>5

\* What Load makes: an object of its own for every entry of the file.
LEMMA LoadEffect ==
  ASSUME Core, Load
  PROVE  /\ file \in Entries /\ file # None /\ entries' = file
         /\ registered' \in [ID -> Objects \cup {None}]
         /\ objects' \in [Objects -> Tailnet \cup {None}]
         /\ \A i \in ID : registered'[i] = None <=> file[i] = None
         /\ \A i \in Existing(file) :
              /\ registered'[i] \in Objects /\ objects'[registered'[i]] = NewTailnet(i, file[i])
              /\ file[i] \in PersistedTailnet
         /\ \A o \in Objects : objects'[o] # None =>
              \E i \in Existing(file) : registered'[i] = o /\ objects'[o] = NewTailnet(i, file[i])
         /\ \A i \in Existing(file) : i < nextID'
         /\ nextID' \in 1 .. (MaxID + 1)
         /\ up' /\ todo' = Existing(file) /\ ~up
         /\ UNCHANGED <<file, unsaved, lost, requests, intent>>
<1>1. file \in Entries /\ file # None
  BY DEF Load, Core, TypeOK, Entries
<1>2. \A i \in Existing(file) : i \in ID /\ file[i] \in PersistedTailnet
  BY <1>1 DEF Entries, Existing
<1>3. PICK f \in [ID -> Objects \cup {None}] :
        /\ \A i \in ID : (f[i] = None) <=> (file[i] = None)
        /\ \A i, j \in Existing(file) : f[i] = f[j] => i = j
        /\ registered' = f
        /\ objects' = [o \in Objects |->
             IF \E i \in ID : f[i] = o
             THEN LET i == CHOOSE i \in ID : f[i] = o IN NewTailnet(i, file[i])
             ELSE None]
  BY DEF Load
<1>4. ASSUME NEW o \in Objects, NEW j \in ID, f[j] = o
      PROVE  j \in Existing(file) /\ objects'[o] = NewTailnet(j, file[j])
  <2> DEFINE k == CHOOSE i \in ID : f[i] = o
  <2>1. k \in ID /\ f[k] = o
    BY <1>4
  <2>2. o # None
    BY TailhopperAssumption
  <2>3. k \in Existing(file) /\ j \in Existing(file)
    BY <1>3, <1>4, <2>1, <2>2 DEF Existing
  <2>4. k = j
    BY <1>3, <1>4, <2>1, <2>3
  <2>5. objects'[o] = NewTailnet(k, file[k])
    BY <1>3, <1>4
  <2>6. QED  BY <2>3, <2>4, <2>5
<1>5. \A o \in Objects : objects'[o] # None => \E j \in ID : f[j] = o
  BY <1>3
<1>6. \A i \in Existing(file) : f[i] \in Objects
  BY <1>2, <1>3 DEF Existing
<1>7. objects' \in [Objects -> Tailnet \cup {None}]
  <2>1. \A o \in Objects : objects'[o] \in Tailnet \cup {None}
    <3> SUFFICES ASSUME NEW o \in Objects, objects'[o] # None PROVE objects'[o] \in Tailnet
      OBVIOUS
    <3>1. PICK j \in ID : f[j] = o
      BY <1>5
    <3>2. j \in Existing(file) /\ objects'[o] = NewTailnet(j, file[j])
      BY <1>4, <3>1
    <3>3. file[j] \in PersistedTailnet
      BY <1>2, <3>2
    <3>4. QED  BY <3>2, <3>3, NewTailnetType
  <2>2. QED  BY <1>3, <2>1
<1>8. /\ nextID' \in 1 .. (MaxID + 1) /\ \A i \in Existing(file) : i < nextID'
      /\ up' /\ todo' = Existing(file) /\ ~up /\ entries' = file
      /\ UNCHANGED <<file, unsaved, lost, requests, intent>>
  BY DEF Load, FirstIDAfter, disk
<1>9. QED  BY <1>1, <1>2, <1>3, <1>4, <1>5, <1>6, <1>7, <1>8

\* A start from the file establishes all of it.
LEMMA CoreLoad ==
  ASSUME Core, Load
  PROVE  Core'
<1> USE DEF Core
<1>1. /\ file \in Entries /\ entries' = file
      /\ registered' \in [ID -> Objects \cup {None}]
      /\ objects' \in [Objects -> Tailnet \cup {None}]
      /\ \A i \in ID : registered'[i] = None <=> file[i] = None
      /\ \A i \in Existing(file) :
           /\ registered'[i] \in Objects /\ objects'[registered'[i]] = NewTailnet(i, file[i])
           /\ file[i] \in PersistedTailnet
      /\ \A o \in Objects : objects'[o] # None =>
           \E i \in Existing(file) : registered'[i] = o /\ objects'[o] = NewTailnet(i, file[i])
      /\ \A i \in Existing(file) : i < nextID'
      /\ nextID' \in 1 .. (MaxID + 1)
      /\ up' /\ todo' = Existing(file) /\ ~up
      /\ UNCHANGED <<file, unsaved, lost, requests, intent>>
  BY LoadEffect
<1>2. \A i \in Existing(file) : /\ i \in ID /\ NewTailnet(i, file[i]).id = i
                              /\ NewTailnet(i, file[i]) # None
  <2> SUFFICES ASSUME NEW i \in Existing(file)
               PROVE  i \in ID /\ NewTailnet(i, file[i]).id = i /\ NewTailnet(i, file[i]) # None
    OBVIOUS
  <2>1. i \in ID /\ file[i] \in PersistedTailnet
    BY <1>1 DEF Existing
  <2>2. QED  BY <2>1, NewTailnetType
<1>3. TypeOK'
  BY <1>1 DEF TypeOK, Entries, Existing
<1>4. \A r \in Requests : requests'[r] = Idle
  BY <1>1 DEF ServesLate, Serving
<1>5. RequestsValid' /\ ServesLate'
  BY <1>4, IdleValid DEF RequestsValid, Valid, TargetPC, ServesLate
<1>6. RegisteredObjects'
  BY <1>1, <1>2 DEF RegisteredObjects, There, Existing
<1>7. IDsGivenOut'
  BY <1>1, <1>2 DEF IDsGivenOut
<1>8. DownIsEmpty' /\ RestoresRegistered'
  BY <1>1 DEF DownIsEmpty, RestoresRegistered, Existing
<1>9. EntryOwned'
  BY <1>1, <1>2 DEF EntryOwned
<1>10. QED  BY <1>3, <1>5, <1>6, <1>7, <1>8, <1>9

\* The tailnets are restored one by one.
LEMMA RestoreEffect ==
  ASSUME Core, NEW i \in ID, Restore(i)
  PROVE  /\ There(registered[i]) /\ objects[registered[i]].id = i
         /\ Acts(registered[i]) /\ GoOnOrEnd /\ todo' = todo \ {i} /\ i \in todo
         /\ UNCHANGED <<requests, intent>>
         /\ \/ WasEnabled(registered[i]) /\ Start(registered[i])
            \/ ~WasEnabled(registered[i]) /\ UNCHANGED <<saved, objects>>
<1> USE DEF Core
<1> DEFINE o == registered[i]
<1>1. There(o) /\ objects[o].id = i
  BY DEF Restore, RestoresRegistered, RegisteredObjects, Existing
<1>2. UNCHANGED <<up, registered, nextID, requests, intent>> /\ todo' = todo \ {i} /\ i \in todo
  BY DEF Restore
<1>3. \/ WasEnabled(o) /\ Start(o)
      \/ ~WasEnabled(o) /\ UNCHANGED <<saved, objects>>
  BY DEF Restore
<1>4. Acts(o)
  <2>1. IntentType'
    BY <1>2 DEF IntentType, TypeOK
  <2>2. QED  BY <1>1, <1>2, <1>3, <2>1, StartActs, EvolvesUnchanged, UntouchedEntries DEF Acts
<1>5. GoOnOrEnd
  BY <1>2 DEF GoOnOrEnd, TypeOK
<1>6. QED  BY <1>1, <1>2, <1>3, <1>4, <1>5

\* The step of a request that commands its tailnet.
LEMMA CommandEffect ==
  ASSUME Core, NEW r \in Requests,
         StartTailnet(r) \/ StopTailnet(r) \/ LogoutBegins(r) \/ LogoutEnds(r)
  PROVE  /\ Serving /\ There(requests[r].object) /\ Acts(requests[r].object) /\ GoOnOrEnd
         /\ todo' = todo
<1> USE DEF Core
<1> DEFINE o == requests[r].object
<1>1. requests[r].pc \in TargetPC /\ Serving
  BY IdleValid DEF StartTailnet, StopTailnet, LogoutBegins, LogoutEnds, TargetPC, ServesLate
<1>2. There(o)
  BY <1>1, TailhopperAssumption DEF RequestsValid, Valid, There
<1>3. todo' = todo
  BY DEF StartTailnet, StopTailnet, LogoutBegins, LogoutEnds
<1>4. Acts(o)
  <2>1. StartTailnet(r) => IntentType'
    BY <1>2, IntendType DEF StartTailnet, IntentType, TypeOK
  <2>2. QED
    BY <1>2, <2>1, StartActs, StopActs, LogoutBeginsActs, LogoutEndsActs DEF StartTailnet, StopTailnet
<1>5. GoOnOrEnd
  BY <1>1, RequestStep DEF StartTailnet, StopTailnet, LogoutBegins, LogoutEnds, TargetPC
<1>6. QED  BY <1>1, <1>2, <1>3, <1>4, <1>5

\* The step of a watcher, or the end of a listener.
LEMMA NoticeEffect ==
  ASSUME Core, NEW o \in Objects,
         \/ Transition(o) \/ ListenerCloses(o)
         \/ \E s \in Suffixes : ClaimGranted(o, s) \/ ClaimRefused(o, s)
  PROVE  There(o) /\ Acts(o) /\ GoOnOrEnd /\ UNCHANGED <<todo, requests>>
<1>1. Acts(o)
  BY TransitionActs, ClaimGrantedActs, ClaimRefusedActs DEF Core
<1>2. UNCHANGED <<todo, requests>>
  BY DEF Transition, ListenerCloses, ClaimGranted, ClaimRefused
<1>3. QED  BY <1>1, <1>2 DEF Acts, GoOnOrEnd, Core, TypeOK

\* Every step keeps types and ownership.
LEMMA CoreStep == Core /\ [Next]_vars => Core'
<1> SUFFICES ASSUME Core, [Next]_vars PROVE Core'
  OBVIOUS
<1>1. CASE Load
  BY <1>1, CoreLoad
<1>2. CASE Crash
  BY <1>2, CoreCrash
<1>3. ASSUME NEW i \in ID, Restore(i) PROVE Core'
  <2>1. todo' \subseteq todo
    BY <1>3, RestoreEffect
  <2>2. QED  BY <1>3, <2>1, RestoreEffect, CoreActs
<1>4. ASSUME NEW r \in Requests, Handler(r) PROVE Core'
  <2>1. CASE StartTailnet(r) \/ StopTailnet(r) \/ LogoutBegins(r) \/ LogoutEnds(r)
    BY <2>1, CommandEffect, CoreActs
  <2>2. CASE Delete(r) \/ Add(r) \/ AddFails(r)
    BY <2>2, CoreDelete, CoreAdd, CoreAddFails
  <2>3. QED  BY <1>4, <2>1, <2>2, CoreReads DEF Handler
<1>5. ASSUME NEW o \in Objects,
             \/ Transition(o) \/ ListenerCloses(o)
             \/ \E s \in Suffixes : ClaimGranted(o, s) \/ ClaimRefused(o, s)
      PROVE  Core'
  <2>1. Acts(o) /\ GoOnOrEnd /\ todo' \subseteq todo
    BY <1>5, NoticeEffect
  <2>2. QED  BY <2>1, CoreActs
<1>6. CASE UNCHANGED vars
  BY <1>6 DEF vars, registry, saved, disk, Core, TypeOK, RequestsValid, Valid, RegisteredObjects, There,
              IDsGivenOut, DownIsEmpty, ServesLate, Serving, RestoresRegistered, EntryOwned, Existing
<1>7. QED  BY <1>1, <1>2, <1>3, <1>4, <1>5, <1>6 DEF Next

\* Types and ownership hold in every reachable state.
THEOREM CoreInvariant == Spec => []Core
<1>1. QED  BY CoreInit, CoreStep, PTL DEF Spec

\* Every variable has its type.
THEOREM TypeCorrect == Spec => []TypeOK
<1>1. Core => TypeOK
  BY DEF Core
<1>2. QED  BY <1>1, CoreInvariant, PTL

\* A tailnet writes into its own entry only, deleted and running or not.
THEOREM EntriesAreOwned == Spec => []EntryOwned
<1>1. Core => EntryOwned
  BY DEF Core
<1>2. QED  BY <1>1, CoreInvariant, PTL

-----------------------------------------------------------------------------
(***************************************************************************)
(* Suffixes.  No two entries have the same, in memory or in the file, and  *)
(* a tailnet that has a suffix has that of its entry.  What a PAC file     *)
(* says of a registered tailnet is therefore said once.                    *)
(***************************************************************************)

UniqueSuffixes(e) ==
  \A i, j \in Existing(e) : e[i].suffix = e[j].suffix /\ e[i].suffix # None => i = j

EntryHasSuffix ==
  \A i \in Existing(entries) :
    objects[registered[i]].suffix # None => entries[i].suffix = objects[registered[i]].suffix

Suffixed ==
  /\ UniqueSuffixes(entries)
  /\ file # None => UniqueSuffixes(file)
  /\ EntryHasSuffix

\* Fewer entries with the same suffixes have unique ones too.
LEMMA FewerAreUnique ==
  ASSUME NEW e, NEW f, UniqueSuffixes(e),
         \A i \in Existing(f) : i \in Existing(e) /\ f[i].suffix = e[i].suffix
  PROVE  UniqueSuffixes(f)
BY DEF UniqueSuffixes

\* What a save, or two, make of the file.
DiskChange ==
  \/ Saved \/ Unsaved \/ UNCHANGED disk
  \/ \E i \in Existing(entries) : Fault /\ file' = [entries EXCEPT ![i].failed = TRUE]

LEMMA FileIsUnique ==
  ASSUME TypeOK, Suffixed, UniqueSuffixes(entries'), DiskChange
  PROVE  file' # None => UniqueSuffixes(file')
<1>1. CASE Saved \/ Unsaved \/ UNCHANGED disk
  BY <1>1 DEF Saved, Unsaved, disk, Suffixed
<1>2. ASSUME NEW i \in Existing(entries), file' = [entries EXCEPT ![i].failed = TRUE]
      PROVE  UniqueSuffixes(file')
  <2> DEFINE e == [entries[i] EXCEPT !.failed = TRUE]
  <2>1. i \in ID /\ entries[i] \in PersistedTailnet
    BY EntryChange
  <2>2. e.suffix = entries[i].suffix
    BY <2>1 DEF PersistedTailnet
  <2>3. file' = [entries EXCEPT ![i] = e]
    BY <1>2
  <2>4. \A j \in Existing(file') : j \in Existing(entries) /\ file'[j].suffix = entries[j].suffix
    BY <2>1, <2>2, <2>3 DEF Existing, TypeOK
  <2>5. QED  BY <2>4, FewerAreUnique DEF Suffixed
<1>3. QED  BY <1>1, <1>2 DEF DiskChange

\* A step of an object that changes no suffix.
KeepsSuffix(o) ==
  /\ objects'[o].suffix = objects[o].suffix
  /\ entries[objects[o].id] # None =>
       entries'[objects[o].id].suffix = entries[objects[o].id].suffix
  /\ DiskChange

LEMMA SuffixedActs ==
  ASSUME Core, Suffixed, NEW o, Acts(o), KeepsSuffix(o)
  PROVE  Suffixed'
<1>1. /\ o \in Objects /\ objects[o].id \in ID /\ registered' = registered
      /\ \A p \in Objects \ {o} : objects'[p] = objects[p]
  BY ObjectType DEF Acts, There, Evolves, Tailnet, Core
<1>2. \A i \in ID : /\ entries'[i] = None <=> entries[i] = None
                    /\ entries[i] # None => entries'[i].suffix = entries[i].suffix
  BY <1>1 DEF Acts, Touches, KeepsSuffix
<1>3. UniqueSuffixes(entries')
  BY <1>2, FewerAreUnique DEF Existing, Suffixed
<1>4. file' # None => UniqueSuffixes(file')
  BY <1>3, FileIsUnique DEF KeepsSuffix, Core
<1>5. EntryHasSuffix'
  <2> SUFFICES ASSUME NEW i \in ID, entries'[i] # None, objects'[registered[i]].suffix # None
               PROVE  entries'[i].suffix = objects'[registered[i]].suffix
    BY <1>1 DEF EntryHasSuffix, Existing
  <2>1. entries[i] # None /\ registered[i] \in Objects
    BY <1>2 DEF Core, RegisteredObjects, There
  <2>2. objects'[registered[i]].suffix = objects[registered[i]].suffix
    BY <1>1, <2>1 DEF KeepsSuffix
  <2>3. QED  BY <1>2, <2>1, <2>2 DEF Suffixed, EntryHasSuffix, Existing
<1>6. QED  BY <1>3, <1>4, <1>5 DEF Suffixed

\* Commands and transitions change no suffix.
LEMMA RecordingKeepsSuffix ==
  ASSUME TypeOK, NEW o, There(o), NEW b \in BOOLEAN, RecordUserState(objects[o].id, b),
         objects'[o].suffix = objects[o].suffix
  PROVE  KeepsSuffix(o)
<1> DEFINE i == objects[o].id
<1>1. i \in ID
  BY ObjectType DEF Tailnet
<1>2. CASE entries[i] = None
  <2>1. UNCHANGED saved
    BY <1>1, <1>2, RecordUserStateTouches
  <2>2. QED  BY <1>2, <2>1 DEF KeepsSuffix, DiskChange, saved
<1>3. CASE entries[i] # None
  <2>1. entries'[i] = [entries[i] EXCEPT !.enabled = b] /\ (Saved \/ Unsaved)
    BY <1>1, <1>3, RecordUserStateTouches
  <2>2. entries[i] \in PersistedTailnet
    BY <1>1, <1>3 DEF TypeOK
  <2>3. entries'[i].suffix = entries[i].suffix
    BY <2>1, <2>2 DEF PersistedTailnet
  <2>4. QED  BY <2>1, <2>3 DEF KeepsSuffix, DiskChange
<1>4. QED  BY <1>2, <1>3

LEMMA StartKeepsSuffix ==
  ASSUME TypeOK, NEW o, There(o), Start(o)
  PROVE  KeepsSuffix(o)
<1>1. CASE objects[o].state = StoppedState
  BY <1>1, StartEffect, RecordingKeepsSuffix
<1>2. CASE objects[o].state # StoppedState
  BY <1>2 DEF Start, KeepsSuffix, DiskChange, saved
<1>3. QED  BY <1>1, <1>2

LEMMA CommandKeepsSuffix ==
  ASSUME Core, NEW r \in Requests,
         StartTailnet(r) \/ StopTailnet(r) \/ LogoutBegins(r) \/ LogoutEnds(r)
  PROVE  KeepsSuffix(requests[r].object)
<1> DEFINE o == requests[r].object
<1>1. There(o) /\ TypeOK
  BY CommandEffect DEF Core
<1>2. CASE StartTailnet(r)
  BY <1>1, <1>2, StartKeepsSuffix DEF StartTailnet
<1>3. CASE StopTailnet(r)
  <2>1. CASE objects[o].state \in Sessions
    BY <1>1, <1>3, <2>1, StopEffect, RecordingKeepsSuffix DEF StopTailnet
  <2>2. CASE objects[o].state \notin Sessions
    BY <1>3, <2>2 DEF StopTailnet, Stop, KeepsSuffix, DiskChange, saved
  <2>3. QED  BY <2>1, <2>2
<1>4. CASE LogoutBegins(r)
  <2>1. CASE objects[o].state \in {Running, StoppedState}
    <3>1. /\ RecordUserState(objects[o].id, FALSE)
          /\ objects' = [objects EXCEPT ![o] = [objects[o] EXCEPT !.state = LoggingOutState,
                           !.user = UserDisabled, !.refused = FALSE]]
      BY <1>1, <1>4, <2>1 DEF LogoutBegins, TypeOK, There
    <3>2. objects'[o].suffix = objects[o].suffix
      BY <1>1, <3>1, LogoutEffect
    <3>3. QED  BY <1>1, <3>1, <3>2, RecordingKeepsSuffix
  <2>2. CASE objects[o].state \notin {Running, StoppedState}
    BY <1>4, <2>2 DEF LogoutBegins, KeepsSuffix, DiskChange, saved
  <2>3. QED  BY <2>1, <2>2
<1>5. CASE LogoutEnds(r)
  <2>1. objects' = [objects EXCEPT ![o] = [objects[o] EXCEPT !.state = StoppedState]]
    BY <1>1, <1>5 DEF LogoutEnds, TypeOK, There
  <2>2. objects'[o].suffix = objects[o].suffix
    BY <1>1, <2>1, LogoutEffect
  <2>3. QED  BY <1>5, <2>2 DEF LogoutEnds, KeepsSuffix, DiskChange, registry, saved
<1>6. QED  BY <1>2, <1>3, <1>4, <1>5

\* A granted claim takes a suffix that no entry has.
LEMMA SuffixedClaim ==
  ASSUME Core, Suffixed, NEW o \in Objects, NEW s \in Suffixes, ClaimGranted(o, s)
  PROVE  Suffixed'
<1> DEFINE i == objects[o].id
<1>1. /\ Acts(o) /\ entries[i] # None /\ (Saved \/ Unsaved)
      /\ entries'[i] = [entries[i] EXCEPT !.suffix = s]
      /\ objects'[o].suffix \in {s, None}
  BY ClaimGrantedActs DEF Core
<1>2. /\ There(o) /\ i \in ID /\ registered' = registered
      /\ \A p \in Objects \ {o} : objects'[p] = objects[p]
      /\ \A j \in ID \ {i} : entries'[j] = entries[j]
  BY <1>1, ObjectType DEF Acts, Evolves, Touches, Tailnet, Core
<1>3. entries'[i].suffix = s
  BY <1>1, <1>2 DEF Core, TypeOK, PersistedTailnet
<1>4. \A j \in Existing(entries) : entries[j].suffix # s
  BY DEF ClaimGranted, Taken
<1>5. UniqueSuffixes(entries')
  <2> SUFFICES ASSUME NEW j \in Existing(entries'), NEW k \in Existing(entries'),
                      entries'[j].suffix = entries'[k].suffix, entries'[j].suffix # None
               PROVE  j = k
    BY DEF UniqueSuffixes
  <2>1. \A l \in Existing(entries') : l # i =>
          l \in Existing(entries) /\ entries'[l].suffix = entries[l].suffix /\ entries[l].suffix # s
    BY <1>2, <1>4 DEF Existing
  <2>2. CASE j # i /\ k # i
    BY <2>1, <2>2 DEF Suffixed, UniqueSuffixes
  <2>3. QED  BY <1>3, <2>1, <2>2
<1>6. file' # None => UniqueSuffixes(file')
  BY <1>1, <1>5, FileIsUnique DEF DiskChange, Core
<1>7. registered[i] = o
  BY <1>1, <1>2 DEF Core, EntryOwned, There
<1>8. EntryHasSuffix'
  <2> SUFFICES ASSUME NEW j \in ID, entries'[j] # None, objects'[registered[j]].suffix # None
               PROVE  entries'[j].suffix = objects'[registered[j]].suffix
    BY <1>2 DEF EntryHasSuffix, Existing
  <2>1. CASE j = i
    BY <1>1, <1>3, <1>7, <2>1
  <2>2. CASE j # i
    <3>1. entries'[j] = entries[j] /\ registered[j] \in Objects /\ objects[registered[j]].id = j
      BY <1>2, <2>2 DEF Core, RegisteredObjects, There
    <3>2. objects'[registered[j]] = objects[registered[j]]
      BY <1>2, <2>2, <3>1
    <3>3. QED  BY <3>1, <3>2 DEF Suffixed, EntryHasSuffix, Existing
  <2>3. QED  BY <2>1, <2>2
<1>9. QED  BY <1>5, <1>6, <1>8 DEF Suffixed

\* A refused claim marks an entry as failed.
LEMMA ClaimRefusedKeepsSuffix ==
  ASSUME Core, NEW o \in Objects, NEW s \in Suffixes, ClaimRefused(o, s)
  PROVE  KeepsSuffix(o)
<1> DEFINE i == objects[o].id
<1>1. /\ \/ RecordTerminalError(i, objects[o].user = UserEnabled)
         \/ RecordUserState(i, FALSE)
         \/ UNCHANGED saved
      /\ objects'[o].suffix = objects[o].suffix /\ There(o)
  BY ClaimRefusedActs DEF Core, Acts
<1>2. i \in ID
  BY <1>1, ObjectType DEF Tailnet, Core
<1>3. CASE entries[i] = None \/ UNCHANGED saved
  BY <1>1, <1>3 DEF RecordTerminalError, RecordUserState, KeepsSuffix, DiskChange, saved
<1>4. CASE entries[i] # None /\ ~UNCHANGED saved
  <2>1. /\ entries'[i].suffix = entries[i].suffix
        /\ \/ Saved
           \/ Unsaved
           \/ Fault /\ file' = [entries EXCEPT ![i].failed = TRUE]
    <3>1. CASE RecordTerminalError(i, objects[o].user = UserEnabled)
      BY <1>2, <1>4, <3>1, RecordTerminalErrorTouches DEF Core
    <3>2. CASE RecordUserState(i, FALSE)
      <4>1. entries'[i] = [entries[i] EXCEPT !.enabled = FALSE] /\ (Saved \/ Unsaved)
        BY <1>2, <1>4, <3>2, RecordUserStateTouches DEF Core
      <4>2. entries[i] \in PersistedTailnet
        BY <1>2, <1>4 DEF Core, TypeOK
      <4>3. QED  BY <4>1, <4>2 DEF PersistedTailnet
    <3>3. QED  BY <1>1, <1>4, <3>1, <3>2
  <2>2. i \in Existing(entries)
    BY <1>2, <1>4 DEF Existing
  <2>3. QED  BY <1>1, <2>1, <2>2 DEF KeepsSuffix, DiskChange
<1>5. QED  BY <1>3, <1>4

\* A notification that changes neither file nor entries.
LEMMA TransitionKeepsSuffix ==
  ASSUME Core, NEW o \in Objects, Transition(o) \/ ListenerCloses(o)
  PROVE  KeepsSuffix(o)
<1>1. objects'[o].suffix = objects[o].suffix
  BY TransitionActs DEF Core
<1>2. UNCHANGED <<entries, disk>>
  BY DEF Transition, ListenerCloses, registry, saved
<1>3. QED  BY <1>1, <1>2 DEF KeepsSuffix, DiskChange

\* A tailnet is added without a suffix, and deleted with it.
LEMMA SuffixedAdd ==
  ASSUME Core, Suffixed, NEW r \in Requests, Add(r)
  PROVE  Suffixed'
<1>1. PICK i \in ID, p \in Ports, o \in Objects :
        /\ i = nextID /\ objects[o] = None
        /\ objects' = [objects EXCEPT ![o] = NewTailnet(i, NewEntry(p))]
        /\ entries' = [entries EXCEPT ![i] = NewEntry(p)]
        /\ Saved
        /\ registered' = [registered EXCEPT ![i] = o]
        /\ requests' = [requests EXCEPT ![r] = [Idle EXCEPT !.pc = "start", !.object = o, !.id = i]]
        /\ intent' = [intent EXCEPT ![i] = "off"]
  BY DEF Add, FreshID
<1>2. /\ entries'[i].suffix = None /\ objects'[o].suffix = None
      /\ \A j \in ID \ {i} : entries'[j] = entries[j] /\ registered'[j] = registered[j]
      /\ \A x \in Objects \ {o} : objects'[x] = objects[x]
      /\ registered'[i] = o
  <2>1. NewEntry(p) \in PersistedTailnet /\ NewEntry(p).suffix = None
    BY NewEntryType DEF NewEntry
  <2>2. NewTailnet(i, NewEntry(p)).suffix = None
    BY <2>1, NewTailnetType
  <2>3. QED  BY <1>1, <2>1, <2>2 DEF Core, TypeOK
<1>3. UniqueSuffixes(entries')
  <2> SUFFICES ASSUME NEW j \in Existing(entries'), NEW k \in Existing(entries'),
                      entries'[j].suffix = entries'[k].suffix, entries'[j].suffix # None
               PROVE  j = k
    BY DEF UniqueSuffixes
  <2>1. j # i /\ k # i
    BY <1>2
  <2>2. /\ j \in Existing(entries) /\ k \in Existing(entries)
        /\ entries'[j] = entries[j] /\ entries'[k] = entries[k]
    BY <1>2, <2>1 DEF Existing
  <2>3. QED  BY <2>2 DEF Suffixed, UniqueSuffixes
<1>4. file' # None => UniqueSuffixes(file')
  BY <1>1, <1>3 DEF Saved
<1>5. EntryHasSuffix'
  <2> SUFFICES ASSUME NEW j \in ID, entries'[j] # None, objects'[registered'[j]].suffix # None
               PROVE  entries'[j].suffix = objects'[registered'[j]].suffix
    BY DEF EntryHasSuffix, Existing
  <2>1. j # i
    BY <1>2
  <2>2. entries'[j] = entries[j] /\ registered'[j] = registered[j]
    BY <1>2, <2>1
  <2>3. registered[j] \in Objects /\ objects[registered[j]] # None
    BY <2>2 DEF Core, RegisteredObjects, There
  <2>4. objects'[registered[j]] = objects[registered[j]]
    BY <1>1, <1>2, <2>3
  <2>5. QED  BY <2>2, <2>4 DEF Suffixed, EntryHasSuffix, Existing
<1>6. QED  BY <1>3, <1>4, <1>5 DEF Suffixed

LEMMA SuffixedDelete ==
  ASSUME Core, Suffixed, NEW r \in Requests, Delete(r)
  PROVE  Suffixed'
<1> DEFINE i == requests[r].id
<1>1. CASE entries[i] = None
  BY <1>1 DEF Delete, saved, disk, Suffixed, EntryHasSuffix, UniqueSuffixes, Existing
<1>2. CASE entries[i] # None
  <2>1. /\ entries' = [entries EXCEPT ![i] = None] /\ registered' = [registered EXCEPT ![i] = None]
        /\ Saved \/ Unsaved
        /\ objects' = objects
    BY <1>2 DEF Delete
  <2>2. \A j \in Existing(entries') : j \in Existing(entries) /\ entries'[j] = entries[j] /\ j # i
    BY <2>1 DEF Existing, Core, TypeOK
  <2>3. UniqueSuffixes(entries')
    BY <2>2, FewerAreUnique DEF Suffixed
  <2>4. file' # None => UniqueSuffixes(file')
    BY <2>1, <2>3, FileIsUnique DEF DiskChange, Core
  <2>5. \A j \in Existing(entries') : registered'[j] = registered[j]
    BY <2>1, <2>2 DEF Existing, Core, TypeOK
  <2>6. EntryHasSuffix'
    BY <2>1, <2>2, <2>5 DEF Suffixed, EntryHasSuffix
  <2>7. QED  BY <2>3, <2>4, <2>6 DEF Suffixed
<1>3. QED  BY <1>1, <1>2

\* A start takes the suffixes from the file.
LEMMA SuffixedLoad ==
  ASSUME Core, Suffixed, Load
  PROVE  Suffixed'
<1>1. /\ file # None /\ entries' = file /\ file' = file
      /\ \A i \in Existing(file) :
           /\ objects'[registered'[i]] = NewTailnet(i, file[i])
           /\ file[i] \in PersistedTailnet
  BY LoadEffect
<1>2. UniqueSuffixes(entries') /\ UniqueSuffixes(file')
  BY <1>1 DEF Suffixed
<1>3. ASSUME NEW i \in Existing(file) PROVE objects'[registered'[i]].suffix = entries'[i].suffix
  <2>1. i \in ID /\ file[i] \in PersistedTailnet
    BY <1>1, <1>3 DEF Existing
  <2>2. NewTailnet(i, file[i]).suffix = file[i].suffix
    BY <2>1, NewTailnetType
  <2>3. objects'[registered'[i]] = NewTailnet(i, file[i]) /\ entries' = file
    BY <1>1, <1>3
  <2>4. QED  BY <2>2, <2>3
<1>4. EntryHasSuffix'
  BY <1>1, <1>3 DEF EntryHasSuffix
<1>5. QED  BY <1>2, <1>4 DEF Suffixed

\* Every step keeps suffixes as they should be.
LEMMA SuffixedStep == Core /\ Suffixed /\ [Next]_vars => Suffixed'
<1> SUFFICES ASSUME Core, Suffixed, [Next]_vars PROVE Suffixed'
  OBVIOUS
<1>1. CASE Load
  BY <1>1, SuffixedLoad
<1>2. CASE Crash
  BY <1>2 DEF Crash, NoEntries, disk, Suffixed, EntryHasSuffix, UniqueSuffixes, Existing
<1>3. ASSUME NEW i \in ID, Restore(i) PROVE Suffixed'
  <2>1. /\ There(registered[i]) /\ Acts(registered[i])
        /\ \/ Start(registered[i])
           \/ UNCHANGED <<saved, objects>>
    BY <1>3, RestoreEffect
  <2>2. KeepsSuffix(registered[i])
    BY <2>1, StartKeepsSuffix DEF Core, KeepsSuffix, DiskChange, saved
  <2>3. QED  BY <2>1, <2>2, SuffixedActs
<1>4. ASSUME NEW r \in Requests, Handler(r) PROVE Suffixed'
  <2>1. CASE StartTailnet(r) \/ StopTailnet(r) \/ LogoutBegins(r) \/ LogoutEnds(r)
    BY <2>1, CommandEffect, CommandKeepsSuffix, SuffixedActs
  <2>2. CASE Delete(r) \/ Add(r)
    BY <2>2, SuffixedDelete, SuffixedAdd
  <2>3. CASE AddFails(r)
    <3>1. UNCHANGED <<entries, registered, objects>> /\ (Unsaved \/ UNCHANGED disk)
      BY <2>3 DEF AddFails
    <3>2. UniqueSuffixes(entries')
      BY <3>1 DEF Suffixed
    <3>3. file' # None => UniqueSuffixes(file')
      BY <3>1, <3>2, FileIsUnique DEF DiskChange, Core
    <3>4. QED  BY <3>1, <3>2, <3>3 DEF Suffixed, EntryHasSuffix, Existing
  <2>4. CASE UNCHANGED <<registry, objects>>
    BY <2>4 DEF registry, saved, disk, Suffixed, EntryHasSuffix, UniqueSuffixes, Existing
  <2>5. QED
    BY <1>4, <2>1, <2>2, <2>3, <2>4
       DEF Handler, Get, Snapshot, CheckConfigured, List, ServePAC, ReadCard
<1>5. ASSUME NEW o \in Objects, NEW s \in Suffixes,
             Transition(o) \/ ListenerCloses(o) \/ ClaimGranted(o, s) \/ ClaimRefused(o, s)
      PROVE  Suffixed'
  <2>1. CASE ClaimGranted(o, s)
    BY <2>1, SuffixedClaim
  <2>2. CASE Transition(o) \/ ListenerCloses(o)
    BY <2>2, NoticeEffect, TransitionKeepsSuffix, SuffixedActs
  <2>3. CASE ClaimRefused(o, s)
    BY <2>3, NoticeEffect, ClaimRefusedKeepsSuffix, SuffixedActs
  <2>4. QED  BY <1>5, <2>1, <2>2, <2>3
<1>6. ASSUME NEW o \in Objects, Transition(o) \/ ListenerCloses(o) PROVE Suffixed'
  BY <1>6, NoticeEffect, TransitionKeepsSuffix, SuffixedActs
<1>7. CASE UNCHANGED vars
  BY <1>7 DEF vars, registry, saved, disk, Suffixed, EntryHasSuffix, UniqueSuffixes, Existing
<1>8. QED  BY <1>1, <1>2, <1>3, <1>4, <1>5, <1>6, <1>7 DEF Next

LEMMA SuffixedInvariant == Spec => []Suffixed
<1>1. Init => Suffixed
  BY DEF Init, NoEntries, Suffixed, EntryHasSuffix, UniqueSuffixes, Existing
<1>2. QED  BY <1>1, SuffixedStep, CoreInvariant, PTL DEF Spec

\* A PAC file names a suffix twice only if one of the tailnets has been deleted
\* since it was read.
THEOREM PACFileIsConsistent == Spec => []OneRulePerSuffix
<1>1. Core /\ Suffixed => OneRulePerSuffix
  <2> SUFFICES ASSUME Core, Suffixed, NEW r \in Requests,
                      NEW c \in requests[r].cards, NEW d \in requests[r].cards,
                      c.suffix = d.suffix,
                      \A x \in {c.object, d.object} : registered[objects[x].id] = x
               PROVE  c = d
    BY DEF OneRulePerSuffix
  <2>1. c \in Card /\ d \in Card
    BY DEF Core, TypeOK, Request
  <2>2. \A x \in {c, d} :
          /\ x.suffix # None
          /\ x.object \in Objects /\ objects[x.object] # None
          /\ objects[x.object].port = x.port /\ objects[x.object].suffix = x.suffix
    BY <2>1, TailhopperAssumption DEF Core, RequestsValid, Valid, Card
  <2>3. \A x \in {c, d} : objects[x.object].id \in ID
    BY <2>2 DEF Core, TypeOK, Tailnet
  <2>4. \A x \in {c, d} : /\ objects[x.object].id \in Existing(entries)
                          /\ entries[objects[x.object].id].suffix = x.suffix
    <3> SUFFICES ASSUME NEW x \in {c, d}
                 PROVE  /\ objects[x.object].id \in Existing(entries)
                        /\ entries[objects[x.object].id].suffix = x.suffix
      OBVIOUS
    <3> DEFINE i == objects[x.object].id
    <3>1. registered[i] = x.object /\ x.object # None /\ i \in ID
      BY <2>2, <2>3, TailhopperAssumption
    <3>2. i \in Existing(entries)
      BY <3>1 DEF Core, RegisteredObjects, Existing
    <3>3. QED  BY <2>2, <3>1, <3>2 DEF Suffixed, EntryHasSuffix
  <2>5. objects[c.object].id = objects[d.object].id
    BY <2>2, <2>4 DEF Suffixed, UniqueSuffixes
  <2>6. c.object = d.object
    BY <2>5
  <2>7. QED  BY <2>1, <2>2, <2>6 DEF Card
<1>2. QED  BY <1>1, CoreInvariant, SuffixedInvariant, PTL

-----------------------------------------------------------------------------
(***************************************************************************)
(* Switches.  A tailnet that is stopped though switched on has refused to  *)
(* start or is yet to be restored; one that runs though switched off has   *)
(* failed; and a Logout has its tailnet to itself.                         *)
(***************************************************************************)

Switch(o) ==
  LET t == objects[o] IN
  /\ t.state = StoppedState /\ t.user = UserEnabled =>
       t.refused \/ (registered[t.id] = o /\ t.id \in todo)
  /\ t.state \in Sessions /\ t.user = UserDisabled => t.failed
  /\ t.state = LoggingOutState => t.user = UserDisabled

Switches == \A o \in Objects : objects[o] # None => Switch(o)

LoggingOut(r) == requests[r].pc = "loggingOut"

Logouts ==
  /\ \A r \in Requests : LoggingOut(r) => objects[requests[r].object].state = LoggingOutState
  /\ \A r, p \in Requests :
       LoggingOut(r) /\ LoggingOut(p) /\ requests[r].object = requests[p].object => r = p

\* Tailnets that log out go on doing so, and nobody starts to log out.
LeavesLogouts ==
  \A x \in Objects :
    objects[x] # None /\ objects[x].state = LoggingOutState =>
      objects'[x].state = LoggingOutState

NoMoreLogouts ==
  \A p \in Requests : LoggingOut(p)' => LoggingOut(p) /\ requests'[p].object = requests[p].object

LEMMA LogoutsStay ==
  ASSUME Core, Logouts, LeavesLogouts, NoMoreLogouts
  PROVE  Logouts'
<1>1. \A p \in Requests : LoggingOut(p)' =>
        /\ LoggingOut(p) /\ requests'[p].object = requests[p].object
        /\ requests[p].object \in Objects /\ objects[requests[p].object] # None
  BY TailhopperAssumption DEF NoMoreLogouts, LoggingOut, Core, RequestsValid, Valid, TargetPC
<1>2. QED  BY <1>1 DEF Logouts, LeavesLogouts, LoggingOut

\* A step of object o, which another object does not notice.
LEMMA SwitchesActs ==
  ASSUME Core, Switches, NEW o, Acts(o), Switch(o)',
         \/ todo' = todo
         \/ todo' = todo \ {objects[o].id} /\ registered[objects[o].id] = o
  PROVE  Switches'
<1>1. /\ o \in Objects /\ registered' = registered
      /\ \A p \in Objects \ {o} : objects'[p] = objects[p]
  BY DEF Acts, There, Evolves
<1>2. ASSUME NEW p \in Objects \ {o}, objects'[p] # None PROVE Switch(p)'
  BY <1>1, <1>2 DEF Switches, Switch
<1>3. QED  BY <1>1, <1>2 DEF Switches

\* A step that leaves the objects alone, and the registry while it is restored.
LEMMA SwitchesStay ==
  ASSUME Core, Switches, UNCHANGED <<objects, todo>>, registered' = registered \/ todo = {}
  PROVE  Switches' /\ LeavesLogouts
BY DEF Switches, Switch, LeavesLogouts

\* Commands set the switch as they should.
LEMMA SwitchStart ==
  ASSUME TypeOK, NEW o, There(o), Start(o), objects[o].state = StoppedState
  PROVE  Switch(o)' /\ LeavesLogouts
<1>1. /\ Evolves(o) /\ objects'[o].user = UserEnabled
      /\ \/ objects'[o].state = Running
         \/ objects'[o].state = StoppedState /\ objects'[o].refused = TRUE
  BY StartEffect
<1>2. QED  BY <1>1 DEF Switch, LeavesLogouts, Evolves, Running, Sessions

LEMMA SwitchCommand ==
  ASSUME Core, Switches, Logouts, NEW r \in Requests,
         StartTailnet(r) \/ StopTailnet(r) \/ LogoutBegins(r) \/ LogoutEnds(r)
  PROVE  \A o \in Objects : o = requests[r].object => Switch(o)' /\ Logouts'
<1> SUFFICES ASSUME NEW o \in Objects, o = requests[r].object PROVE Switch(o)' /\ Logouts'
  OBVIOUS
<1>1. /\ There(o) /\ Acts(o) /\ todo' = todo /\ TypeOK /\ Switch(o) /\ o \in Objects
      /\ requests[r] \in Request /\ registered' = registered
      /\ \A p \in Objects \ {o} : objects'[p] = objects[p]
  BY CommandEffect DEF Core, Switches, There, TypeOK, Acts, Evolves
<1>2. CASE StartTailnet(r) \/ StopTailnet(r)
  <2>1. NoMoreLogouts
    BY <1>1, <1>2, IdleValid DEF NoMoreLogouts, LoggingOut, StartTailnet, StopTailnet, Answered, TypeOK
  <2>2. Switch(o)' /\ LeavesLogouts
    <3>1. CASE UNCHANGED objects
      BY <1>1, <3>1 DEF Switch, LeavesLogouts
    <3>2. CASE Start(o) /\ objects[o].state = StoppedState
      BY <1>1, <3>2, SwitchStart
    <3>3. CASE Stop(o) /\ objects[o].state \in Sessions
      BY <1>1, <3>3, StopEffect DEF Switch, LeavesLogouts, Sessions, Running
    <3>4. QED  BY <1>2, <3>1, <3>2, <3>3 DEF StartTailnet, StopTailnet, Start, Stop
  <2>3. QED  BY <2>1, <2>2, LogoutsStay
<1>3. CASE LogoutBegins(r) /\ objects[o].state \notin {Running, StoppedState}
  <2>1. UNCHANGED objects /\ GoesOn(r, "delete")
    BY <1>3 DEF LogoutBegins
  <2>2. Switch(o)' /\ LeavesLogouts
    BY <1>1, <2>1 DEF Switch, LeavesLogouts
  <2>3. NoMoreLogouts
    BY <1>1, <2>1 DEF NoMoreLogouts, LoggingOut, GoesOn, TypeOK, Request
  <2>4. QED  BY <2>2, <2>3, LogoutsStay
<1>4. CASE LogoutBegins(r) /\ objects[o].state \in {Running, StoppedState}
  <2>1. /\ objects' = [objects EXCEPT ![o] = [objects[o] EXCEPT !.state = LoggingOutState,
                         !.user = UserDisabled, !.refused = FALSE]]
        /\ GoesOn(r, "loggingOut")
    BY <1>1, <1>4 DEF LogoutBegins, TypeOK, There
  <2>2. objects'[o].state = LoggingOutState /\ objects'[o].user = UserDisabled
    BY <1>1, <2>1, ObjectType DEF TypeOK, There, Tailnet
  <2>3. Switch(o)'
    BY <2>2 DEF Switch, Sessions, Running
  <2>4. \A p \in Requests : LoggingOut(p) =>
          requests[p].object # o /\ requests[p].object \in Objects
    BY <1>4, TailhopperAssumption DEF Logouts, LoggingOut, Running, Core, RequestsValid, Valid, TargetPC
  <2>5. /\ requests'[r].pc = "loggingOut" /\ requests'[r].object = o
        /\ \A p \in Requests \ {r} : requests'[p] = requests[p]
    BY <1>1, <2>1 DEF GoesOn, TypeOK, Request
  <2>6. ~LoggingOut(r)
    BY <1>4 DEF LogoutBegins, LoggingOut
  <2>7. Logouts'
    BY <1>1, <2>2, <2>4, <2>5, <2>6 DEF Logouts, LoggingOut
  <2>8. QED  BY <2>3, <2>7
<1>5. CASE LogoutEnds(r)
  <2>1. /\ objects' = [objects EXCEPT ![o] = [objects[o] EXCEPT !.state = StoppedState]]
        /\ GoesOn(r, "delete") /\ LoggingOut(r)
    BY <1>1, <1>5 DEF LogoutEnds, TypeOK, There, LoggingOut
  <2>2. objects[o].state = LoggingOutState
    BY <2>1 DEF Logouts
  <2>3. objects'[o].state = StoppedState /\ objects'[o].user = UserDisabled
    BY <1>1, <2>1, <2>2, ObjectType DEF TypeOK, There, Tailnet, Switch
  <2>4. Switch(o)'
    BY <2>3 DEF Switch, Sessions, Running
  <2>5. \A p \in Requests \ {r} : LoggingOut(p) =>
          requests[p].object # o /\ requests[p].object \in Objects
    BY <2>1, TailhopperAssumption DEF Logouts, LoggingOut, Core, RequestsValid, Valid, TargetPC
  <2>6. requests'[r].pc = "delete" /\ \A p \in Requests \ {r} : requests'[p] = requests[p]
    BY <1>1, <2>1 DEF GoesOn, TypeOK, Request
  <2>7. Logouts'
    BY <1>1, <2>5, <2>6 DEF Logouts, LoggingOut
  <2>8. QED  BY <2>4, <2>7
<1>6. QED  BY <1>2, <1>3, <1>4, <1>5

\* So do notifications.
LEMMA SwitchNotice ==
  ASSUME Core, Switches, NEW o \in Objects,
         \/ Transition(o) \/ ListenerCloses(o)
         \/ \E s \in Suffixes : ClaimGranted(o, s) \/ ClaimRefused(o, s)
  PROVE  Switch(o)' /\ LeavesLogouts
<1>1. /\ There(o) /\ Acts(o) /\ UNCHANGED <<todo, requests, registered>> /\ TypeOK /\ Switch(o)
      /\ \A p \in Objects \ {o} : objects'[p] = objects[p]
      /\ objects'[o].id = objects[o].id /\ objects[o] \in Tailnet
  BY NoticeEffect, ObjectType DEF Core, Switches, There, Acts, Evolves
<1>2. CASE Transition(o)
  <2>1. /\ objects'[o].user = objects[o].user /\ objects'[o].failed = objects[o].failed
        /\ objects[o].state \in Sessions
    BY <1>1, <1>2, TransitionActs DEF Transition
  <2>2. objects'[o].state \in Sessions
    BY <1>1, <1>2, <2>1, TransitionActs
  <2>3. QED  BY <1>1, <2>1, <2>2 DEF Switch, LeavesLogouts, Sessions, Running
<1>3. CASE ListenerCloses(o)
  <2> DEFINE t == [objects[o] EXCEPT !.bound = FALSE]
  <2>1. objects'[o] = t
    BY <1>1, <1>3 DEF ListenerCloses, TypeOK
  <2>2. /\ t.user = objects[o].user /\ t.failed = objects[o].failed /\ t.state = objects[o].state
        /\ t.refused = objects[o].refused
    BY <1>1 DEF Tailnet
  <2>3. Switch(o)'
    BY <1>1, <2>1, <2>2 DEF Switch
  <2>4. QED  BY <1>1, <2>1, <2>2, <2>3 DEF LeavesLogouts
<1>4. ASSUME NEW s \in Suffixes, ClaimGranted(o, s) PROVE Switch(o)' /\ LeavesLogouts
  <2>1. /\ objects'[o].user = objects[o].user /\ objects'[o].failed = objects[o].failed
        /\ objects[o].state \in Sessions /\ objects'[o].state \in Sessions
    BY <1>1, <1>4, ClaimGrantedActs
  <2>2. QED  BY <1>1, <2>1 DEF Switch, LeavesLogouts, Sessions, Running
<1>5. ASSUME NEW s \in Suffixes, ClaimRefused(o, s) PROVE Switch(o)' /\ LeavesLogouts
  <2>1. /\ objects'[o].user = UserDisabled /\ objects'[o].failed = TRUE
        /\ objects'[o].state \in Sessions \cup {HasTerminalErrorState}
        /\ objects[o].state = Running
    BY <1>1, <1>5, ClaimRefusedActs DEF ClaimRefused, Claims
  <2>2. QED  BY <1>1, <2>1 DEF Switch, LeavesLogouts, Sessions, Running
<1>6. QED  BY <1>2, <1>3, <1>4, <1>5

\* A start from the file, an add, and everything else.
LEMMA SwitchesLoad ==
  ASSUME Core, Load
  PROVE  Switches' /\ Logouts'
<1>1. ASSUME NEW o \in Objects, objects'[o] # None PROVE Switch(o)'
  <2>1. PICK i \in Existing(file) :
          registered'[i] = o /\ objects'[o] = NewTailnet(i, file[i])
    BY <1>1, LoadEffect
  <2>2. i \in ID /\ file[i] \in PersistedTailnet /\ todo' = Existing(file)
    BY <2>1, LoadEffect DEF Existing
  <2>3. objects'[o].id = i /\ objects'[o].state \in {StoppedState, HasTerminalErrorState}
    <3> DEFINE e == file[i]
    <3>1. /\ NewTailnet(i, e).id = i
          /\ NewTailnet(i, e).state = IF e.failed THEN HasTerminalErrorState ELSE StoppedState
      BY <2>2, NewTailnetType
    <3>2. QED  BY <2>1, <3>1
  <2>4. QED  BY <2>1, <2>2, <2>3 DEF Switch, Sessions, Running
<1>2. \A r \in Requests : requests'[r] = Idle
  BY LoadEffect DEF Core, ServesLate, Serving
<1>3. QED  BY <1>1, <1>2, IdleValid DEF Switches, Logouts, LoggingOut

LEMMA SwitchesAdd ==
  ASSUME Core, Switches, Logouts, NEW r \in Requests, Add(r)
  PROVE  Switches' /\ Logouts'
<1>1. PICK i \in ID, p \in Ports, o \in Objects :
        /\ i = nextID /\ objects[o] = None
        /\ objects' = [objects EXCEPT ![o] = NewTailnet(i, NewEntry(p))]
        /\ entries' = [entries EXCEPT ![i] = NewEntry(p)]
        /\ Saved
        /\ registered' = [registered EXCEPT ![i] = o]
        /\ requests' = [requests EXCEPT ![r] = [Idle EXCEPT !.pc = "start", !.object = o, !.id = i]]
        /\ intent' = [intent EXCEPT ![i] = "off"]
  BY DEF Add, FreshID
<1>2. todo = {}
  BY IdleValid DEF Add, Core, ServesLate, Serving
<1>3. NewEntry(p) \in PersistedTailnet /\ NewEntry(p).enabled = FALSE /\ NewEntry(p).failed = FALSE
  BY NewEntryType DEF NewEntry
<1>4. objects'[o] = NewTailnet(i, NewEntry(p)) /\ \A x \in Objects \ {o} : objects'[x] = objects[x]
  BY <1>1 DEF Core, TypeOK
<1>5. objects'[o].user = UserDisabled /\ objects'[o].state = StoppedState
  <2> DEFINE e == NewEntry(p)
             t == NewTailnet(i, e)
  <2>1. /\ t.state = IF e.failed THEN HasTerminalErrorState ELSE StoppedState
        /\ t.user = IF e.enabled /\ ~e.failed THEN UserEnabled ELSE UserDisabled
    BY <1>3, NewTailnetType
  <2>2. t.state = StoppedState /\ t.user = UserDisabled
    BY <1>3, <2>1
  <2>3. QED  BY <1>4, <2>2
<1>6. Switch(o)'
  BY <1>5 DEF Switch, Sessions, Running
<1>7. ASSUME NEW x \in Objects \ {o}, objects'[x] # None PROVE Switch(x)'
  BY <1>2, <1>4, <1>7 DEF Switches, Switch
<1>8. LeavesLogouts
  BY <1>1, <1>4 DEF LeavesLogouts
<1>9. NoMoreLogouts
  BY <1>1 DEF NoMoreLogouts, LoggingOut, Idle, Core, TypeOK
<1>10. QED  BY <1>6, <1>7, <1>8, <1>9, LogoutsStay DEF Switches

LEMMA SwitchesRequest ==
  ASSUME Core, Switches, Logouts, NEW r \in Requests, Handler(r),
         ~Add(r), ~StartTailnet(r), ~StopTailnet(r), ~LogoutBegins(r), ~LogoutEnds(r)
  PROVE  Switches' /\ Logouts'
<1>1. UNCHANGED <<objects, todo>>
  BY DEF Handler, Get, Snapshot, Delete, CheckConfigured, AddFails, List, ServePAC, ReadCard
<1>2. registered' = registered \/ todo = {}
  <2>1. CASE Delete(r)
    BY <2>1, IdleValid DEF Delete, Core, ServesLate, Serving
  <2>2. CASE ~Delete(r)
    BY <2>2 DEF Handler, Get, Snapshot, CheckConfigured, AddFails, List, ServePAC, ReadCard, registry
  <2>3. QED  BY <2>1, <2>2
<1>3. requests[r] \in Request
  BY DEF Core, TypeOK
<1>4. PICK q :
        /\ requests' = [requests EXCEPT ![r] = q]
        /\ q.pc = "loggingOut" => q.pc = requests[r].pc /\ q.object = requests[r].object
  <2>1. CASE \E i \in ID : Get(r, i)
    BY ZenonT(30), <2>1 DEF Get, Idle
  <2>2. CASE Snapshot(r) \/ CheckConfigured(r)
    <3>1. PICK pc \in {"delete", "logout", "add"} :
            requests' = [requests EXCEPT ![r] = [requests[r] EXCEPT !.pc = pc]]
      BY <2>2 DEF Snapshot, CheckConfigured, GoesOn, Core, TypeOK
    <3>2. [requests[r] EXCEPT !.pc = pc].pc = pc
      BY <1>3 DEF Request
    <3>3. QED  BY <3>1, <3>2
  <2>3. CASE Delete(r) \/ AddFails(r) \/ ServePAC(r)
    BY <2>3, IdleValid DEF Delete, AddFails, ServePAC, Answered
  <2>4. CASE List(r)
    <3> DEFINE q == [Idle EXCEPT !.pc = "pac",
                                 !.list = {registered[i] : i \in Existing(registered)}]
    <3>1. requests' = [requests EXCEPT ![r] = q]
      BY <2>4 DEF List
    <3>2. q.pc = "pac"
      BY DEF Idle
    <3>3. QED  BY <3>1, <3>2
  <2>5. ASSUME NEW o \in Objects, ReadCard(r, o) PROVE \E q :
          /\ requests' = [requests EXCEPT ![r] = q]
          /\ q.pc = "loggingOut" => q.pc = requests[r].pc /\ q.object = requests[r].object
    <3> DEFINE q == [requests[r] EXCEPT !.list = @ \ {o}, !.cards = @ \cup Rules(o)]
    <3>1. requests' = [requests EXCEPT ![r] = q]
      BY <2>5 DEF ReadCard, Core, TypeOK
    <3>2. q.pc = requests[r].pc /\ q.object = requests[r].object
      BY <1>3 DEF Request
    <3>3. QED  BY <3>1, <3>2
  <2>6. QED  BY <2>1, <2>2, <2>3, <2>4, <2>5 DEF Handler
<1>5. NoMoreLogouts
  BY <1>4 DEF NoMoreLogouts, LoggingOut, Core, TypeOK
<1>6. QED  BY <1>1, <1>2, <1>5, SwitchesStay, LogoutsStay

\* Every step keeps the switches as they should be.
LEMMA SwitchesStep == Core /\ Switches /\ Logouts /\ [Next]_vars => Switches' /\ Logouts'
<1> SUFFICES ASSUME Core, Switches, Logouts, [Next]_vars PROVE Switches' /\ Logouts'
  OBVIOUS
<1>1. CASE Load
  BY <1>1, SwitchesLoad
<1>2. CASE Crash
  BY <1>2, IdleValid DEF Crash, Switches, Logouts, LoggingOut
<1>3. ASSUME NEW i \in ID, Restore(i) PROVE Switches' /\ Logouts'
  <2> DEFINE o == registered[i]
  <2>1. /\ There(o) /\ Acts(o) /\ objects[o].id = i /\ todo' = todo \ {i} /\ i \in todo
        /\ registered' = registered /\ requests' = requests /\ o \in Objects
        /\ \/ WasEnabled(o) /\ Start(o)
           \/ ~WasEnabled(o) /\ UNCHANGED objects
    BY <1>3, RestoreEffect DEF Acts, There
  <2>2. Switch(o)'
    <3>1. CASE WasEnabled(o) /\ Start(o)
      BY <2>1, <3>1, SwitchStart DEF WasEnabled, Core
    <3>2. CASE ~WasEnabled(o) /\ UNCHANGED objects
      BY <2>1, <3>2 DEF WasEnabled, Switches, Switch, There
    <3>3. QED  BY <2>1, <3>1, <3>2
  <2>3. Switches'
    BY <2>1, <2>2, SwitchesActs
  <2>4. \A r \in Requests : requests'[r] = Idle
    BY <2>1 DEF Core, ServesLate, Serving
  <2>5. QED  BY <2>3, <2>4, IdleValid DEF Logouts, LoggingOut
<1>4. ASSUME NEW r \in Requests, Handler(r) PROVE Switches' /\ Logouts'
  <2>1. CASE StartTailnet(r) \/ StopTailnet(r) \/ LogoutBegins(r) \/ LogoutEnds(r)
    <3> DEFINE o == requests[r].object
    <3>1. There(o) /\ Acts(o) /\ todo' = todo
      BY <2>1, CommandEffect
    <3>2. PICK x \in Objects : x = o
      BY <3>1 DEF There
    <3>3. Switch(x)' /\ Logouts'
      BY <2>1, <3>2, SwitchCommand
    <3>4. QED  BY <3>1, <3>2, <3>3, SwitchesActs
  <2>2. CASE Add(r)
    BY <2>2, SwitchesAdd
  <2>3. QED  BY <1>4, <2>1, <2>2, SwitchesRequest
<1>5. ASSUME NEW o \in Objects,
             \/ Transition(o) \/ ListenerCloses(o)
             \/ \E s \in Suffixes : ClaimGranted(o, s) \/ ClaimRefused(o, s)
      PROVE  Switches' /\ Logouts'
  <2>1. Acts(o) /\ Switch(o)' /\ LeavesLogouts /\ UNCHANGED <<todo, requests>>
    BY <1>5, NoticeEffect, SwitchNotice
  <2>2. NoMoreLogouts
    BY <2>1 DEF NoMoreLogouts, LoggingOut
  <2>3. QED  BY <2>1, <2>2, SwitchesActs, LogoutsStay
<1>6. CASE UNCHANGED vars
  BY <1>6 DEF vars, registry, Switches, Switch, Logouts, LoggingOut
<1>7. QED  BY <1>1, <1>2, <1>3, <1>4, <1>5, <1>6 DEF Next

LEMMA SwitchesInvariant == Spec => [](Switches /\ Logouts)
<1>1. Init => Switches /\ Logouts
  BY IdleValid DEF Init, Switches, Logouts, LoggingOut
<1>2. QED  BY <1>1, SwitchesStep, CoreInvariant, PTL DEF Spec

\* While the program serves, a switch that can be used sends a command that its
\* tailnet accepts, but for a Start that failed and a terminal error.
THEOREM SwitchesWork == Spec => []SwitchWorks
<1>1. Core /\ Switches => SwitchWorks
  <2> SUFFICES ASSUME Core, Switches, Serving, NEW i \in ID, entries[i] # None,
                      ~IsToggleDisabled(objects[registered[i]])
               PROVE  LET t == objects[registered[i]]
                      IN  Accepts(t, ToggleAction(t)) \/ t.refused \/ t.failed
    BY DEF SwitchWorks, Existing
  <2> DEFINE t == objects[registered[i]]
  <2>1. There(registered[i])
    BY DEF Core, RegisteredObjects
  <2>2. Switch(registered[i]) /\ todo = {} /\ t \in Tailnet
    BY <2>1, ObjectType DEF Core, Switches, There, Serving
  <2>3. t.state \in Sessions \cup {StoppedState} /\ t.user \in {UserEnabled, UserDisabled}
    BY <2>2 DEF Tailnet, TailnetState, UserState, IsToggleDisabled
  <2>4. CASE t.state = StoppedState
    BY <2>2, <2>3, <2>4 DEF Switch, Accepts, ToggleAction, IsToggleOn
  <2>5. CASE t.state \in Sessions
    BY <2>2, <2>3, <2>5 DEF Switch, Accepts, ToggleAction, IsToggleOn
  <2>6. QED  BY <2>3, <2>4, <2>5
<1>2. QED  BY <1>1, CoreInvariant, SwitchesInvariant, PTL

-----------------------------------------------------------------------------
(***************************************************************************)
(* Intent.  What was last made of a tailnet is what its entry says, in the *)
(* file too while the process is down, and what its object does; one that  *)
(* is yet to be restored is as NewTailnet made it.                         *)
(***************************************************************************)

\* An entry remembers what was made of its tailnet, unless it has an error.
Remembers(e, what) ==
  IF e = None THEN what = "none"
  ELSE /\ what # "none"
       /\ what = "on" => e.enabled = TRUE \/ e.failed = TRUE
       /\ what = "off" => e.enabled = FALSE \/ e.failed = TRUE

\* A tailnet does what was made of it, or will when it is restored.
Obeys(i) ==
  LET t == objects[registered[i]] IN
  /\ intent[i] = "on" =>
       \/ t.state \in Sessions \/ t.refused = TRUE \/ entries[i].failed = TRUE \/ i \in todo
  /\ intent[i] = "off" => t.state \notin Sessions \/ t.failed = TRUE
  /\ t.failed = TRUE => entries[i].failed = TRUE
  /\ i \in todo => t = NewTailnet(i, entries[i])

Intents ==
  /\ up => /\ ~lost => file = entries
           /\ \A i \in ID : /\ Remembers(entries[i], intent[i])
                            /\ entries[i] # None => Obeys(i)
  /\ ~up /\ file # None => \A i \in ID : Remembers(file[i], intent[i])

\* However a save ends, the file is that of the entries or is known to be lost.
LEMMA SaveIsKnown ==
  ASSUME Saved \/ Unsaved \/ Fault
  PROVE  ~lost' => file' = entries'
BY DEF Saved, Unsaved, Fault

\* A step of object o that minds what was made of its tailnet.
Minds(o) ==
  LET i == objects[o].id IN
  /\ ~lost' => file' = entries'
  /\ \A j \in ID \ {i} : intent'[j] = intent[j] /\ (j \in todo' <=> j \in todo)
  /\ i \notin todo'
  /\ IF entries[i] = None THEN intent'[i] = intent[i]
     ELSE /\ Remembers(entries'[i], intent'[i])
          /\ intent'[i] = "on" =>
               \/ objects'[o].state \in Sessions \/ objects'[o].refused = TRUE
               \/ entries'[i].failed = TRUE
          /\ intent'[i] = "off" => objects'[o].state \notin Sessions \/ objects'[o].failed = TRUE
          /\ objects'[o].failed = TRUE => entries'[i].failed = TRUE

LEMMA IntentsActs ==
  ASSUME Core, Intents, NEW o, Acts(o), Minds(o)
  PROVE  Intents'
<1>0. PICK i \in ID : i = objects[o].id
  BY ObjectType DEF Acts, Tailnet, Core
<1>1. /\ o \in Objects /\ UNCHANGED <<up, registered>> /\ up
      /\ objects[o] # None
      /\ \A p \in Objects \ {o} : objects'[p] = objects[p]
      /\ \A j \in ID \ {i} : entries'[j] = entries[j]
      /\ entries'[i] = None <=> entries[i] = None
  BY <1>0 DEF Acts, There, Evolves, Touches, Core, DownIsEmpty
<1>2. ASSUME NEW j \in ID \ {i}
      PROVE  Remembers(entries'[j], intent'[j]) /\ (entries'[j] # None => Obeys(j)')
  <2>1. entries'[j] = entries[j] /\ intent'[j] = intent[j] /\ (j \in todo' <=> j \in todo)
    BY <1>0, <1>1 DEF Minds
  <2>2. Remembers(entries[j], intent[j]) /\ (entries[j] # None => Obeys(j))
    BY <1>1 DEF Intents
  <2>3. ASSUME entries[j] # None PROVE objects'[registered[j]] = objects[registered[j]]
    <3>1. registered[j] \in Objects /\ objects[registered[j]].id = j
      BY <2>3 DEF Core, RegisteredObjects, There
    <3>2. QED  BY <1>0, <1>1, <3>1
  <2>4. QED  BY <1>1, <2>1, <2>2, <2>3 DEF Obeys
<1>3. Remembers(entries'[i], intent'[i]) /\ (entries'[i] # None => Obeys(i)')
  <2>1. CASE entries[i] = None
    BY <1>0, <1>1, <2>1 DEF Minds, Intents, Remembers
  <2>2. CASE entries[i] # None
    <3>1. registered[i] = o
      BY <1>0, <1>1, <2>2 DEF Core, EntryOwned
    <3>2. QED  BY <1>0, <1>1, <2>2, <3>1 DEF Minds, Obeys
  <2>3. QED  BY <2>1, <2>2
<1>4. ~lost' => file' = entries'
  BY DEF Minds
<1>5. up'
  BY <1>1
<1>6. \A j \in ID : Remembers(entries'[j], intent'[j]) /\ (entries'[j] # None => Obeys(j)')
  BY <1>2, <1>3
<1>7. QED  BY <1>4, <1>5, <1>6 DEF Intents

\* A tailnet that is yet to be restored neither runs nor listens.
LEMMA YetToBeRestored ==
  ASSUME Core, Intents, NEW o, There(o), objects[o].id \in todo
  PROVE  /\ registered[objects[o].id] = o /\ entries[objects[o].id] # None
         /\ objects[o] = NewTailnet(objects[o].id, entries[objects[o].id])
         /\ objects[o].state \notin Sessions /\ objects[o].bound = FALSE
<1> DEFINE i == objects[o].id
           e == entries[i]
<1>1. i \in ID /\ o \in Objects /\ up /\ objects[o] # None
  BY ObjectType DEF There, Tailnet, Core, DownIsEmpty
<1>2. e # None
  BY <1>1 DEF Core, RestoresRegistered, RegisteredObjects, Existing
<1>3. registered[i] = o /\ e \in PersistedTailnet
  BY <1>1, <1>2 DEF Core, EntryOwned, TypeOK
<1>4. objects[o] = NewTailnet(i, e)
  BY <1>1, <1>2, <1>3 DEF Intents, Obeys
<1>5. NewTailnet(i, e).state = IF e.failed THEN HasTerminalErrorState ELSE StoppedState
  BY <1>1, <1>3, NewTailnetType
<1>6. NewTailnet(i, e).bound = FALSE
  BY DEF NewTailnet
<1>7. objects[o].state \in {HasTerminalErrorState, StoppedState} /\ objects[o].bound = FALSE
  BY <1>4, <1>5, <1>6
<1>8. QED  BY <1>2, <1>3, <1>4, <1>7 DEF Sessions, Running

\* A step that changes neither what was made of the tailnet nor its entry.
LEMMA StillMinds ==
  ASSUME Core, Intents, NEW o, There(o), UNCHANGED <<saved, intent, todo>>,
         objects[o].id \notin todo,
         objects'[o].state \in Sessions <=> objects[o].state \in Sessions,
         objects'[o].refused = objects[o].refused, objects'[o].failed = objects[o].failed
  PROVE  Minds(o)
<1> DEFINE i == objects[o].id
<1>1. i \in ID /\ o \in Objects /\ up /\ objects[o] # None
  BY ObjectType DEF There, Tailnet, Core, DownIsEmpty
<1>2. UNCHANGED <<entries, file, lost>>
  BY DEF saved, disk
<1>3. ASSUME entries[i] # None
      PROVE  Remembers(entries[i], intent[i]) /\ registered[i] = o /\ Obeys(i)
  BY <1>1, <1>3 DEF Core, EntryOwned, Intents
<1>4. ~lost' => file' = entries'
  BY <1>1, <1>2 DEF Intents
<1>5. QED  BY <1>1, <1>2, <1>3, <1>4 DEF Minds, Obeys

\* A command that is not refused records what it makes of the tailnet.
LEMMA CommandMinds ==
  ASSUME Core, Intents, NEW o, There(o), NEW b \in BOOLEAN, NEW what \in {"on", "off"},
         what = "on" <=> b = TRUE,
         RecordUserState(objects[o].id, b), Intend(o, what),
         UNCHANGED todo, objects[o].id \notin todo,
         b = TRUE => objects'[o].state \in Sessions \/ objects'[o].refused = TRUE,
         b = FALSE => objects'[o].state \notin Sessions \/ objects'[o].failed = TRUE,
         objects'[o].failed = objects[o].failed
  PROVE  Minds(o)
<1> DEFINE i == objects[o].id
<1>1. i \in ID /\ o \in Objects /\ up /\ objects[o] # None /\ TypeOK
  BY ObjectType DEF There, Tailnet, Core, DownIsEmpty
<1>2. intent' = IF registered[i] = o THEN [intent EXCEPT ![i] = what] ELSE intent
  BY DEF Intend
<1>3. \A j \in ID \ {i} : intent'[j] = intent[j]
  BY <1>1, <1>2 DEF TypeOK
<1>4. CASE entries[i] = None
  <2>1. UNCHANGED <<entries, file, lost>>
    BY <1>1, <1>4, RecordUserStateTouches DEF saved, disk
  <2>2. registered[i] # o
    BY <1>1, <1>4, TailhopperAssumption DEF Core, RegisteredObjects
  <2>3. ~lost' => file' = entries'
    BY <1>1, <2>1 DEF Intents
  <2>4. QED  BY <1>2, <1>4, <2>2, <2>3 DEF Minds
<1>5. CASE entries[i] # None
  <2>1. /\ entries'[i] = [entries[i] EXCEPT !.enabled = b] /\ entries'[i] # None
        /\ Saved \/ Unsaved
    BY <1>1, <1>5, RecordUserStateTouches DEF Touches
  <2>2. entries'[i].enabled = b
    BY <1>1, <1>5, <2>1 DEF TypeOK, PersistedTailnet
  <2>3. intent'[i] = what
    BY <1>1, <1>2, <1>5 DEF Core, EntryOwned, TypeOK
  <2>4. Remembers(entries'[i], intent'[i])
    BY <2>1, <2>2, <2>3 DEF Remembers
  <2>5. ~lost' => file' = entries'
    BY <2>1, SaveIsKnown
  <2>6. entries'[i].failed = entries[i].failed
    BY <1>1, <1>5, <2>1 DEF TypeOK, PersistedTailnet
  <2>7. objects[o].failed = TRUE => entries[i].failed = TRUE
    BY <1>1, <1>5 DEF Core, EntryOwned, Intents, Obeys
  <2>8. QED  BY <1>3, <1>5, <2>3, <2>4, <2>5, <2>6, <2>7 DEF Minds
<1>6. QED  BY <1>4, <1>5

\* So all commands mind.
LEMMA RequestMinds ==
  ASSUME Core, Intents, Logouts, NEW r \in Requests,
         StartTailnet(r) \/ StopTailnet(r) \/ LogoutBegins(r) \/ LogoutEnds(r)
  PROVE  \A o \in Objects : o = requests[r].object => Minds(o)
<1> SUFFICES ASSUME NEW o \in Objects, o = requests[r].object PROVE Minds(o)
  OBVIOUS
<1>1. There(o) /\ TypeOK /\ todo' = todo /\ todo = {} /\ objects[o] \in Tailnet
  BY CommandEffect, ObjectType DEF Core, Serving
<1>2. CASE StartTailnet(r) /\ objects[o].state = StoppedState
  <2>1. Start(o) /\ Intend(o, "on")
    BY <1>2 DEF StartTailnet
  <2>2. RecordUserState(objects[o].id, TRUE)
    BY <1>1, <1>2, <2>1, StartEffect
  <2>3. /\ objects'[o].state \in Sessions \/ objects'[o].refused = TRUE
        /\ objects'[o].failed = objects[o].failed
    BY <1>1, <1>2, <2>1, StartEffect DEF Sessions
  <2>4. QED  BY <1>1, <2>1, <2>2, <2>3, CommandMinds
<1>3. CASE StopTailnet(r) /\ objects[o].state \in Sessions
  <2>1. Stop(o)
    BY <1>3 DEF StopTailnet
  <2>2. RecordUserState(objects[o].id, FALSE) /\ Intend(o, "off")
    BY <1>1, <1>3, <2>1, StopEffect
  <2>3. objects'[o].state \notin Sessions /\ objects'[o].failed = objects[o].failed
    BY <1>1, <1>3, <2>1, StopEffect DEF Sessions, Running
  <2>4. QED  BY <1>1, <2>2, <2>3, CommandMinds
<1>4. CASE LogoutBegins(r) /\ objects[o].state \in {Running, StoppedState}
  <2>1. /\ RecordUserState(objects[o].id, FALSE) /\ Intend(o, "off")
        /\ objects' = [objects EXCEPT ![o] = [objects[o] EXCEPT !.state = LoggingOutState,
                         !.user = UserDisabled, !.refused = FALSE]]
    BY <1>1, <1>4 DEF LogoutBegins, TypeOK, There
  <2>2. objects'[o].state = LoggingOutState /\ objects'[o].failed = objects[o].failed
    BY <1>1, <2>1 DEF TypeOK, Tailnet
  <2>3. objects'[o].state \notin Sessions
    BY <2>2 DEF Sessions, Running
  <2>4. QED  BY <1>1, <2>1, <2>2, <2>3, CommandMinds
<1>5. CASE LogoutEnds(r)
  <2>1. objects' = [objects EXCEPT ![o] = [objects[o] EXCEPT !.state = StoppedState]]
    BY <1>1, <1>5 DEF LogoutEnds, TypeOK, There
  <2>2. /\ objects'[o].state = StoppedState /\ objects'[o].refused = objects[o].refused
        /\ objects'[o].failed = objects[o].failed
    BY <1>1, <2>1 DEF TypeOK, Tailnet
  <2>3. objects[o].state = LoggingOutState
    BY <1>5 DEF Logouts, LoggingOut, LogoutEnds
  <2>4. objects'[o].state \in Sessions <=> objects[o].state \in Sessions
    BY <2>2, <2>3 DEF Sessions, Running
  <2>5. UNCHANGED <<saved, intent>>
    BY <1>5 DEF LogoutEnds, registry
  <2>6. QED  BY <1>1, <2>2, <2>4, <2>5, StillMinds
<1>6. CASE UNCHANGED <<saved, objects, intent>>
  BY <1>1, <1>6, StillMinds
<1>7. QED
  BY <1>2, <1>3, <1>4, <1>5, <1>6 DEF StartTailnet, StopTailnet, LogoutBegins, Start, Stop

\* Notifications mind too: a refused claim is recorded as an error.
LEMMA NoticeMinds ==
  ASSUME Core, Intents, NEW o \in Objects,
         \/ Transition(o) \/ ListenerCloses(o)
         \/ \E s \in Suffixes : ClaimGranted(o, s) \/ ClaimRefused(o, s)
  PROVE  Minds(o)
<1> DEFINE i == objects[o].id
<1>1. There(o) /\ TypeOK /\ todo' = todo /\ i \in ID /\ up /\ objects[o] # None
  BY NoticeEffect, ObjectType DEF Core, There, Tailnet, DownIsEmpty
<1>2. i \notin todo
  <2>1. objects[o].state \in Sessions \/ objects[o].bound
    BY DEF Transition, ListenerCloses, ClaimGranted, ClaimRefused, Claims, Sessions
  <2>2. QED  BY <1>1, <2>1, YetToBeRestored
<1>3. CASE Transition(o) \/ ListenerCloses(o)
  <2>1. /\ objects'[o].refused = objects[o].refused /\ objects'[o].failed = objects[o].failed
        /\ \/ objects'[o].state = objects[o].state
           \/ objects[o].state \in Sessions /\ objects'[o].state \in Sessions
    BY <1>1, <1>3, TransitionActs
  <2>2. UNCHANGED <<saved, intent>>
    BY <1>3 DEF Transition, ListenerCloses, registry
  <2>3. QED  BY <1>1, <1>2, <2>1, <2>2, StillMinds
<1>4. ASSUME NEW s \in Suffixes, ClaimGranted(o, s) PROVE Minds(o)
  <2>1. /\ entries[i] # None /\ entries'[i] = [entries[i] EXCEPT !.suffix = s]
        /\ Saved \/ Unsaved
        /\ objects'[o].failed = objects[o].failed /\ objects'[o].refused = objects[o].refused
        /\ objects[o].state \in Sessions /\ objects'[o].state \in Sessions
    BY <1>1, <1>4, ClaimGrantedActs
  <2>2. /\ entries'[i] # None
        /\ entries'[i].enabled = entries[i].enabled /\ entries'[i].failed = entries[i].failed
    <3>1. entries'[i] # None
      BY <1>1, <1>4, <2>1, ClaimGrantedActs DEF Acts, Touches
    <3>2. entries[i] \in PersistedTailnet
      BY <1>1, <2>1 DEF TypeOK
    <3>3. QED  BY <2>1, <3>1, <3>2 DEF PersistedTailnet
  <2>3. Remembers(entries[i], intent[i]) /\ Obeys(i) /\ registered[i] = o
    BY <1>1, <2>1 DEF Core, EntryOwned, Intents
  <2>4. intent' = intent
    BY <1>4 DEF ClaimGranted
  <2>5. Remembers(entries'[i], intent'[i])
    BY <2>1, <2>2, <2>3, <2>4 DEF Remembers
  <2>6. ~lost' => file' = entries'
    BY <2>1, SaveIsKnown
  <2>7. QED  BY <1>1, <1>2, <2>1, <2>3, <2>4, <2>5, <2>6 DEF Minds, Obeys
<1>5. ASSUME NEW s \in Suffixes, ClaimRefused(o, s),
             RecordTerminalError(i, objects[o].user = UserEnabled), Intend(o, "off")
      PROVE  Minds(o)
  <2>1. /\ RecordTerminalError(i, objects[o].user = UserEnabled)
        /\ intent' = IF registered[i] = o THEN [intent EXCEPT ![i] = "off"] ELSE intent
        /\ objects'[o].failed = TRUE
    BY <1>1, <1>5, ClaimRefusedActs DEF Intend
  <2>2. \A j \in ID \ {i} : intent'[j] = intent[j]
    BY <1>1, <2>1 DEF TypeOK
  <2>3. CASE entries[i] = None
    <3>1. UNCHANGED <<entries, file, lost>>
      BY <2>1, <2>3 DEF RecordTerminalError, saved, disk
    <3>2. registered[i] # o
      BY <1>1, <2>3, TailhopperAssumption DEF Core, RegisteredObjects
    <3>3. ~lost' => file' = entries'
      BY <1>1, <3>1 DEF Intents
    <3>4. QED  BY <1>1, <1>2, <2>1, <2>3, <3>2, <3>3 DEF Minds
  <2>4. CASE entries[i] # None
    <3>1. /\ entries'[i].failed = TRUE
          /\ \/ Saved
             \/ Unsaved
             \/ Fault
      BY <1>1, <2>1, <2>4, RecordTerminalErrorTouches
    <3>2. entries'[i] # None
      BY <1>1, <1>5, <2>4, ClaimRefusedActs DEF Acts, Touches
    <3>3. intent'[i] = "off"
      BY <1>1, <2>1, <2>4 DEF Core, EntryOwned, TypeOK
    <3>4. Remembers(entries'[i], intent'[i])
      BY <3>1, <3>2, <3>3 DEF Remembers
    <3>5. ~lost' => file' = entries'
      BY <3>1, SaveIsKnown
    <3>6. QED  BY <1>1, <1>2, <2>1, <2>2, <2>4, <3>1, <3>3, <3>4, <3>5 DEF Minds
  <2>5. QED  BY <2>3, <2>4
\* An error it has had before is in the entry already.
<1>6. ASSUME NEW s \in Suffixes, ClaimRefused(o, s), objects[o].failed,
             \/ RecordUserState(i, FALSE) /\ Intend(o, "off")
             \/ UNCHANGED <<saved, intent>>
      PROVE  Minds(o)
  <2>1. objects'[o].failed = TRUE /\ objects[o].failed = TRUE
    BY <1>1, <1>6, ClaimRefusedActs, ObjectType DEF Tailnet
  <2>2. CASE RecordUserState(i, FALSE) /\ Intend(o, "off")
    BY <1>1, <1>2, <2>1, <2>2, CommandMinds
  <2>3. CASE UNCHANGED <<saved, intent>>
    <3>1. UNCHANGED <<entries, file, lost, intent>>
      BY <2>3 DEF saved, disk
    <3>2. ASSUME entries[i] # None
          PROVE  Remembers(entries[i], intent[i]) /\ registered[i] = o /\ Obeys(i)
      BY <1>1, <3>2 DEF Core, EntryOwned, Intents
    <3>3. ~lost' => file' = entries'
      BY <1>1, <3>1 DEF Intents
    <3>4. QED  BY <1>1, <1>2, <2>1, <3>1, <3>2, <3>3 DEF Minds, Obeys
  <2>4. QED  BY <1>6, <2>2, <2>3
<1>7. ASSUME NEW s \in Suffixes, ClaimRefused(o, s) PROVE Minds(o)
  BY <1>5, <1>6, <1>7 DEF ClaimRefused
<1>8. QED  BY <1>3, <1>4, <1>7

\* What is restored is what was last switched on.
LEMMA RestoreMinds ==
  ASSUME Core, Intents, NEW i \in ID, Restore(i)
  PROVE  \A o \in Objects : o = registered[i] => Minds(o)
<1> SUFFICES ASSUME NEW o \in Objects, o = registered[i] PROVE Minds(o)
  OBVIOUS
<1> DEFINE e == entries[i]
<1>1. /\ There(o) /\ objects[o].id = i /\ i \in todo /\ todo' = todo \ {i} /\ intent' = intent
      /\ \/ WasEnabled(o) /\ Start(o)
         \/ ~WasEnabled(o) /\ UNCHANGED <<saved, objects>>
      /\ TypeOK /\ up
  BY RestoreEffect DEF Core, DownIsEmpty, Restore
<1>2. e # None /\ objects[o] = NewTailnet(i, e) /\ objects[o].state \notin Sessions
  BY <1>1, YetToBeRestored
<1>3. /\ Remembers(e, intent[i]) /\ e \in PersistedTailnet
  BY <1>1, <1>2 DEF Intents, TypeOK
<1>4. /\ objects[o].state = IF e.failed THEN HasTerminalErrorState ELSE StoppedState
      /\ objects[o].user = IF e.enabled /\ ~e.failed THEN UserEnabled ELSE UserDisabled
  <2> DEFINE t == NewTailnet(i, e)
  <2>1. /\ t.state = IF e.failed THEN HasTerminalErrorState ELSE StoppedState
        /\ t.user = IF e.enabled /\ ~e.failed THEN UserEnabled ELSE UserDisabled
    BY ZenonT(30), <1>3, NewTailnetType
  <2>2. QED  BY <1>2, <2>1
<1>5. e.enabled \in BOOLEAN /\ e.failed \in BOOLEAN
  BY <1>3 DEF PersistedTailnet
<1>6. CASE WasEnabled(o) /\ Start(o)
  <2>1. objects[o].state = StoppedState /\ objects[o].user = UserEnabled
    BY <1>6 DEF WasEnabled
  <2>2. e.enabled = TRUE /\ e.failed = FALSE
    BY <1>4, <1>5, <2>1
  <2>3. intent[i] = "on"
    BY <1>1, <1>2, <1>3, <2>2 DEF Remembers, TypeOK
  <2>4. /\ RecordUserState(i, TRUE) /\ (objects'[o].state = Running \/ objects'[o].refused = TRUE)
        /\ objects'[o].failed = objects[o].failed
    BY <1>1, <1>6, <2>1, StartEffect
  <2>5. /\ entries'[i] = [e EXCEPT !.enabled = TRUE] /\ entries'[i] # None
        /\ Saved \/ Unsaved
    BY <1>1, <1>2, <2>4, RecordUserStateTouches DEF Touches
  <2>6. entries'[i].enabled = TRUE
    BY <1>3, <2>5 DEF PersistedTailnet
  <2>7. Remembers(entries'[i], intent'[i])
    BY <1>1, <2>3, <2>5, <2>6 DEF Remembers
  <2>8. ~lost' => file' = entries'
    BY <2>5, SaveIsKnown
  <2>9. objects'[o].failed = FALSE
    BY <1>1, <1>2, <2>2, <2>4 DEF NewTailnet
  <2>10. QED  BY <1>1, <1>2, <2>3, <2>4, <2>7, <2>8, <2>9 DEF Minds, Sessions
<1>7. CASE ~WasEnabled(o) /\ UNCHANGED <<saved, objects>>
  <2>1. e.failed = TRUE \/ e.enabled = FALSE
    BY <1>4, <1>5, <1>7 DEF WasEnabled
  <2>2. intent[i] = "on" => e.failed = TRUE
    BY <1>2, <1>3, <1>5, <2>1 DEF Remembers
  <2>3. UNCHANGED <<entries, file, lost>>
    BY <1>7 DEF saved, disk
  <2>4. ~lost' => file' = entries'
    BY <1>1, <2>3 DEF Intents
  <2>5. objects[o].failed = e.failed
    BY <1>2 DEF NewTailnet
  <2>6. QED  BY <1>1, <1>2, <1>3, <1>7, <2>2, <2>3, <2>4, <2>5 DEF Minds
<1>8. QED  BY <1>1, <1>6, <1>7

\* A start believes the file.
LEMMA IntentsLoad ==
  ASSUME Core, Intents, Load
  PROVE  Intents'
<1>1. /\ file # None /\ entries' = file /\ file' = file /\ up' /\ ~up /\ todo' = Existing(file)
      /\ intent' = intent
  BY LoadEffect
<1>2. \A i \in ID : Remembers(file[i], intent[i])
  BY <1>1 DEF Intents
<1>3. ASSUME NEW i \in ID, file[i] # None PROVE Obeys(i)'
  <2>1. i \in Existing(file)
    BY <1>3 DEF Existing
  <2>2. objects'[registered'[i]] = NewTailnet(i, file[i]) /\ file[i] \in PersistedTailnet
    BY <2>1, LoadEffect
  <2>3. NewTailnet(i, file[i]).state =
          IF file[i].failed THEN HasTerminalErrorState ELSE StoppedState
    BY <2>2, NewTailnetType
  <2>4. objects'[registered'[i]].state \notin Sessions
    BY <2>2, <2>3 DEF Sessions, Running
  <2>5. objects'[registered'[i]].failed = file[i].failed
    BY <2>2 DEF NewTailnet
  <2>6. QED  BY <1>1, <2>1, <2>2, <2>4, <2>5 DEF Obeys
<1>4. QED  BY <1>1, <1>2, <1>3 DEF Intents

\* A crash leaves the file, which remembers.
LEMMA IntentsCrash ==
  ASSUME Core, Intents, Crash
  PROVE  Intents'
<1>1. up /\ ~up' /\ file' = file
  BY DEF Crash, disk
<1>2. ASSUME file # None, NEW i \in ID PROVE Remembers(file[i], intent'[i])
  <2>1. CASE lost
    <3>1. intent'[i] = IntentOf(file[i])
      BY <1>2, <2>1 DEF Crash
    <3>2. file[i] # None => file[i].enabled \in BOOLEAN /\ file[i].failed \in BOOLEAN
      BY <1>2 DEF Core, TypeOK, PersistedTailnet
    <3>3. QED  BY <3>1, <3>2 DEF IntentOf, Remembers
  <2>2. CASE ~lost
    BY <1>1, <2>2 DEF Crash, Intents
  <2>3. QED  BY <2>1, <2>2
<1>3. QED  BY <1>1, <1>2 DEF Intents

\* A new tailnet is off; a deleted one is not there.
LEMMA IntentsAdd ==
  ASSUME Core, Intents, NEW r \in Requests, Add(r)
  PROVE  Intents'
<1>1. PICK i \in ID, p \in Ports, o \in Objects :
        /\ i = nextID /\ objects[o] = None
        /\ objects' = [objects EXCEPT ![o] = NewTailnet(i, NewEntry(p))]
        /\ entries' = [entries EXCEPT ![i] = NewEntry(p)]
        /\ Saved
        /\ registered' = [registered EXCEPT ![i] = o]
        /\ requests' = [requests EXCEPT ![r] = [Idle EXCEPT !.pc = "start", !.object = o, !.id = i]]
        /\ intent' = [intent EXCEPT ![i] = "off"]
  BY DEF Add, FreshID
<1>2. todo = {} /\ up /\ UNCHANGED <<up, todo>>
  BY IdleValid DEF Add, Core, ServesLate, Serving
<1>3. /\ NewEntry(p) \in PersistedTailnet /\ NewEntry(p) # None
      /\ NewEntry(p).enabled = FALSE /\ NewEntry(p).failed = FALSE
  BY NewEntryType DEF NewEntry
<1>4. /\ objects'[o] = NewTailnet(i, NewEntry(p)) /\ \A x \in Objects \ {o} : objects'[x] = objects[x]
      /\ entries'[i] = NewEntry(p) /\ registered'[i] = o /\ intent'[i] = "off"
      /\ \A j \in ID \ {i} : /\ entries'[j] = entries[j] /\ registered'[j] = registered[j]
                             /\ intent'[j] = intent[j]
  BY <1>1 DEF Core, TypeOK
<1>5. objects'[o].state \notin Sessions
  <2> DEFINE e == NewEntry(p)
  <2>1. NewTailnet(i, e).state = IF e.failed THEN HasTerminalErrorState ELSE StoppedState
    BY <1>3, NewTailnetType
  <2>2. QED  BY <1>4, <2>1 DEF Sessions, Running
<1>6. Remembers(entries'[i], intent'[i]) /\ Obeys(i)'
  <2>1. Remembers(entries'[i], intent'[i])
    BY <1>3, <1>4 DEF Remembers
  <2>2. Obeys(i)'
    <3>1. objects'[o].failed = FALSE
      BY <1>3, <1>4 DEF NewTailnet
    <3>2. QED  BY <1>2, <1>4, <1>5, <3>1 DEF Obeys
  <2>3. QED  BY <2>1, <2>2
<1>7. ASSUME NEW j \in ID \ {i}
      PROVE  Remembers(entries'[j], intent'[j]) /\ (entries'[j] # None => Obeys(j)')
  <2>1. Remembers(entries[j], intent[j]) /\ (entries[j] # None => Obeys(j))
    BY <1>2 DEF Intents
  <2>2. ASSUME entries[j] # None PROVE objects'[registered[j]] = objects[registered[j]]
    <3>1. registered[j] \in Objects /\ objects[registered[j]] # None
      BY <2>2 DEF Core, RegisteredObjects, There
    <3>2. QED  BY <1>1, <1>4, <3>1
  <2>3. QED  BY <1>2, <1>4, <2>1, <2>2 DEF Obeys
<1>8. ~lost' => file' = entries'
  BY <1>1, SaveIsKnown
<1>9. QED  BY <1>2, <1>6, <1>7, <1>8 DEF Intents

LEMMA IntentsDelete ==
  ASSUME Core, Intents, NEW r \in Requests, Delete(r)
  PROVE  Intents'
<1> DEFINE i == requests[r].id
<1>1. i \in ID /\ up /\ todo = {} /\ UNCHANGED <<up, todo, objects>>
  BY IdleValid DEF Delete, Core, RequestsValid, Valid, TargetPC, ServesLate, Serving
<1>2. CASE entries[i] = None
  <2>1. UNCHANGED <<entries, file, lost, registered, intent>>
    BY <1>2 DEF Delete, saved, disk
  <2>2. QED  BY <1>1, <2>1 DEF Intents, Obeys
<1>3. CASE entries[i] # None
  <2>1. /\ entries' = [entries EXCEPT ![i] = None] /\ registered' = [registered EXCEPT ![i] = None]
        /\ Saved \/ Unsaved
        /\ intent' = [intent EXCEPT ![i] = "none"]
    BY <1>3 DEF Delete
  <2>2. ~lost' => file' = entries'
    BY <2>1, SaveIsKnown
  <2>3. /\ entries'[i] = None /\ intent'[i] = "none"
        /\ \A j \in ID \ {i} : /\ entries'[j] = entries[j] /\ registered'[j] = registered[j]
                               /\ intent'[j] = intent[j]
    BY <1>1, <2>1 DEF Core, TypeOK
  <2>4. Remembers(entries'[i], intent'[i])
    BY <2>3 DEF Remembers
  <2>5. ASSUME NEW j \in ID \ {i}
        PROVE  Remembers(entries'[j], intent'[j]) /\ (entries'[j] # None => Obeys(j)')
    BY <1>1, <2>3, <2>5 DEF Intents, Obeys
  <2>6. QED  BY <1>1, <2>2, <2>3, <2>4, <2>5 DEF Intents
<1>4. QED  BY <1>2, <1>3

\* Every step keeps intent, entry, file and object together.
LEMMA IntentsStep == Core /\ Intents /\ Logouts /\ [Next]_vars => Intents'
<1> SUFFICES ASSUME Core, Intents, Logouts, [Next]_vars PROVE Intents'
  OBVIOUS
<1>1. CASE Load
  BY <1>1, IntentsLoad
<1>2. CASE Crash
  BY <1>2, IntentsCrash
<1>3. ASSUME NEW i \in ID, Restore(i) PROVE Intents'
  <2> DEFINE o == registered[i]
  <2>1. There(o) /\ Acts(o)
    BY <1>3, RestoreEffect
  <2>2. PICK x \in Objects : x = o
    BY <2>1 DEF There
  <2>3. QED  BY <1>3, <2>1, <2>2, RestoreMinds, IntentsActs
<1>4. ASSUME NEW r \in Requests, Handler(r) PROVE Intents'
  <2>1. CASE StartTailnet(r) \/ StopTailnet(r) \/ LogoutBegins(r) \/ LogoutEnds(r)
    <3> DEFINE o == requests[r].object
    <3>1. There(o) /\ Acts(o)
      BY <2>1, CommandEffect
    <3>2. PICK x \in Objects : x = o
      BY <3>1 DEF There
    <3>3. QED  BY <2>1, <3>1, <3>2, RequestMinds, IntentsActs
  <2>2. CASE Add(r) \/ Delete(r)
    BY <2>2, IntentsAdd, IntentsDelete
  <2>3. CASE AddFails(r)
    <3>1. /\ UNCHANGED <<up, todo, entries, registered, objects, intent>> /\ up
          /\ Unsaved \/ UNCHANGED disk
      BY <2>3, IdleValid DEF AddFails, Core, ServesLate, Serving
    <3>2. ~lost' => file' = entries'
      BY <3>1, SaveIsKnown DEF disk, Intents
    <3>3. QED  BY <3>1, <3>2 DEF Intents, Obeys
  <2>4. CASE UNCHANGED <<up, todo, registry, objects, intent>>
    BY <2>4 DEF registry, saved, disk, Intents, Obeys
  <2>5. QED
    BY <1>4, <2>1, <2>2, <2>3, <2>4
       DEF Handler, Get, Snapshot, CheckConfigured, List, ServePAC, ReadCard
<1>5. ASSUME NEW o \in Objects,
             \/ Transition(o) \/ ListenerCloses(o)
             \/ \E s \in Suffixes : ClaimGranted(o, s) \/ ClaimRefused(o, s)
      PROVE  Intents'
  BY <1>5, NoticeEffect, NoticeMinds, IntentsActs
<1>6. CASE UNCHANGED vars
  BY <1>6 DEF vars, registry, saved, disk, Intents, Obeys
<1>7. QED  BY <1>1, <1>2, <1>3, <1>4, <1>5, <1>6 DEF Next

LEMMA IntentsInvariant == Spec => []Intents
<1>1. Init => Intents
  BY DEF Init, NoEntries, Intents, Remembers
<1>2. QED  BY <1>1, IntentsStep, CoreInvariant, SwitchesInvariant, PTL DEF Spec

\* What the user, or an error, last made of each tailnet is what it does, through
\* failed saves, crashes and restarts.
THEOREM IntentIsKept == Spec => []IntentKept
<1>1. Core /\ Intents => IntentKept
  <2> SUFFICES ASSUME Core, Intents, up, todo = {}, NEW i \in ID
               PROVE  /\ intent[i] = "none" <=> entries[i] = None
                      /\ entries[i] # None =>
                           LET t == objects[registered[i]] IN
                           /\ intent[i] = "on" => t.state \in Sessions \/ t.refused \/ entries[i].failed
                           /\ intent[i] = "off" => t.state \notin Sessions \/ t.failed
    BY DEF IntentKept, Serving
  <2>1. Remembers(entries[i], intent[i]) /\ (entries[i] # None => Obeys(i))
    BY DEF Intents
  <2>2. QED  BY <2>1 DEF Remembers, Obeys
<1>2. QED  BY <1>1, CoreInvariant, IntentsInvariant, PTL

=============================================================================
